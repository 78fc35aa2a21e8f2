-------------------------- MODULE CoordinatorLedger --------------------------
(***************************************************************************)
(* What the rows of txn_bracket, scope_cancel_member and txn_attempt say   *)
(* of each other, and what a process knows where it stands.                *)
(*                                                                         *)
(* Seen from these tables every step of the Coordinator is one of a dozen  *)
(* moves (Move); an invariant over the tables is then shown move by move,  *)
(* and what a process knows survives the moves of all others.              *)
(***************************************************************************)
EXTENDS CoordinatorSafety

\* A bracket names the try that sealed it, under that try's key.
BracketsOwned ==
    \A k \in Key :
        IF bracket[k].vertex = None THEN bracket[k].state = "none"
        ELSE bracket[k].vertex \in Try /\ KeyOf[bracket[k].vertex] = k /\ bracket[k].state # "none"

Ended == {"cancelling", "cancelled", "suspended"}

\* Only the owner of a bracket is a member of a cancellation, in a scope that was cancelled.
MembersOwn ==
    \A v \in Vertex : member[v] # "none" =>
        v \in Try /\ BracketOwner(v) = v /\ ScopeOf[v] \in Scope /\ state[ScopeOf[v]] \in Ended

\* A scope whose cancellation completed has no member left to undo.
CancelledHasNoneLeft == \A s \in Scope : state[s] = "cancelled" => IncompleteMembers(s) = {}

\* What an unresolved attempt says of the vertex it is about, whoever started it.
AttemptsFit ==
    \A a \in attempts :
        /\ a.op = "call" => a.vertex \notin Pivot
        /\ a.op \in {"pivot", "status"} => a.vertex \in Pivot /\ ScopeOf[a.vertex] \in Scope
        /\ a.op = "confirm" => /\ a.vertex \in Tcc /\ BracketOwner(a.vertex) = a.vertex
                               /\ ScopeOf[a.vertex] \in Scope
                               /\ state[ScopeOf[a.vertex]] \in {"pivot-passed", "committed", "suspended"}
        /\ a.op = "inverse" => member[a.vertex] # "none"

\* Once a scope has members to undo, only their inverses are unresolved in it.
InversesAlone ==
    \A a \in attempts, v \in Vertex :
        member[v] # "none" /\ ScopeOf[a.vertex] = ScopeOf[v] => a.op = "inverse"

\* From admission to commit every required try owns its bracket, and nobody has cancelled it.
TriesOwn ==
    \A s \in Scope : state[s] \in {"pivot-inflight", "pivot-passed", "committed"} =>
        \A v \in Required(s) : BracketOwner(v) = v /\ bracket[KeyOf[v]].state \in {"sealed", "confirmed"}

\* What a process works on, by where it stands.
Stands(w) ==
    /\ At(w, "owner") => job[w].vertex \in Try
    /\ At(w, "admit") => job[w].vertex \in Pivot
    /\ InCall(w, {"call"}) => job[w].target = job[w].vertex /\ job[w].vertex \notin Pivot
    /\ InPivot(w) => job[w].target = job[w].vertex /\ job[w].vertex \in Pivot
    /\ InConfirm(w) => job[w].todo \subseteq Tcc \cap Members(job[w].scope)
    /\ InCall(w, {"confirm"}) => job[w].target \in job[w].todo
    /\ At(w, "commit") => job[w].todo = {}
    /\ InCall(w, {"inverse"}) => member[job[w].target] # "none"
    /\ At(w, "calling") => CurrentAttempt(w) \in attempts

LInv ==
    /\ IInv
    /\ BracketsOwned /\ MembersOwn /\ CancelledHasNoneLeft /\ AttemptsFit /\ InversesAlone /\ TriesOwn
    /\ \A w \in Worker : Stands(w)
-----------------------------------------------------------------------------
(* The moves                                                               *)

\* The attempts stay, except that the process that moves may resolve or forget its own.
Fades(w) ==
    /\ \A a \in attempts' : \E b \in attempts :
          a.vertex = b.vertex /\ a.op = b.op /\ (a.holder = b.holder \/ b.holder = w)
    /\ \A b \in attempts : b.holder # w => b \in attempts'

\* No table of the ledger changes.
Stays(w) == UNCHANGED <<state, bracket, member, effect>> /\ Fades(w)

\* record_attempt_start
Starts(w) ==
    /\ w \in Worker /\ At(w, "dispatch") /\ MayStartAttempt(w, job[w].op, job[w].target, job[w].vertex)
    /\ attempts' = attempts \cup {CurrentAttempt(w)}
    /\ UNCHANGED <<state, bracket, member, effect>>

\* A request reaches its tool, answered or not.
Lands(w) ==
    /\ \E a \in attempts : effect' = [effect EXCEPT ![KeyOf[a.vertex]] = Applied(a.op, @)]
    /\ Fades(w) /\ UNCHANGED <<state, bracket, member>>

\* A status tool denies the pivot.
Denies(w) ==
    /\ w \in Worker /\ At(w, "calling") /\ job[w].op = "status"
    /\ effect[KeyOf[job[w].target]] # "done" /\ effect' = [effect EXCEPT ![KeyOf[job[w].target]] = "void"]
    /\ Fades(w) /\ UNCHANGED <<state, bracket, member>>

\* txn/try
SealsTry(w) ==
    /\ w \in Worker /\ At(w, "answered") /\ job[w].op = "call" /\ job[w].res = "succeeded"
    /\ job[w].vertex \in Try /\ BracketOwner(job[w].vertex) = None
    /\ bracket' = [bracket EXCEPT ![KeyOf[job[w].vertex]] = [vertex |-> job[w].vertex, state |-> "sealed"]]
    /\ UNCHANGED <<state, member, effect, attempts>>

\* txn/confirm
ConfirmsTry(w) ==
    /\ w \in Worker /\ At(w, "answered") /\ job[w].op = "confirm" /\ job[w].res = "succeeded"
    /\ Sealed(job[w].target) /\ RecordConfirm(job[w].target)
    /\ UNCHANGED <<state, member, effect, attempts>>

\* A scope row moves, and nothing else of the ledger.
MovesRow(w) ==
    /\ \E s \in Scope :
          \/ state[s] = "absent" /\ state' = [state EXCEPT ![s] = "open"]
          \/ PivotAdmissible(s) /\ state' = [state EXCEPT ![s] = "pivot-inflight"]
          \/ /\ w \in Worker /\ At(w, "reopen") /\ s = job[w].scope
             /\ state' = [state EXCEPT ![s] = "open"] /\ s \in fenced'
          \/ /\ w \in Worker /\ PivotAnswered(w, {"succeeded"}) /\ s = job[w].scope
             /\ state' = [state EXCEPT ![s] = "pivot-passed"]
          \/ w \in Worker /\ At(w, "commit") /\ s = job[w].scope /\ state' = [state EXCEPT ![s] = "committed"]
          \/ state[s] \notin {"absent", "committed"} /\ state' = [state EXCEPT ![s] = "suspended"]
    /\ Fades(w) /\ UNCHANGED <<bracket, member, effect>>

\* txn/cancel requested
Cancels ==
    /\ \E s \in Scope :
          /\ state[s] = "open" /\ Members(s) \cap leased = {} /\ Unresolved(s) = {}
          /\ state' = [state EXCEPT ![s] = "cancelling"]
          /\ member' = [v \in Vertex |-> IF v \in SealedIn(s) /\ member[v] = "none" THEN "todo" ELSE member[v]]
    /\ UNCHANGED <<bracket, effect, attempts>>

\* complete_cancel_member
CompletesMember(w) ==
    /\ w \in Worker /\ At(w, "answered") /\ job[w].op = "inverse" /\ job[w].res = "succeeded"
    /\ member' = [member EXCEPT ![job[w].target] = "done"]
    /\ UNCHANGED <<state, bracket, effect, attempts>>

\* txn/cancel completed
CompletesCancel(w) ==
    /\ \E s \in Scope :
          /\ state[s] = "cancelling" /\ IncompleteMembers(s) = {} /\ state' = [state EXCEPT ![s] = "cancelled"]
          /\ bracket' = [k \in Key |-> IF \E v \in SealedIn(s) : KeyOf[v] = k
                                       THEN [bracket[k] EXCEPT !.state = "cancelled"] ELSE bracket[k]]
    /\ Fades(w) /\ UNCHANGED <<member, effect>>

Acts(w) ==
    \/ Stays(w) \/ Starts(w) \/ Lands(w) \/ Denies(w) \/ SealsTry(w) \/ ConfirmsTry(w) \/ MovesRow(w)
    \/ Cancels \/ CompletesMember(w) \/ CompletesCancel(w)

\* A step of the process w, or of nobody when w is None.
Move(w) ==
    /\ \A x \in Worker \ {w} : job'[x] = job[x]
    /\ fenced \subseteq fenced'
    /\ Acts(w)
-----------------------------------------------------------------------------
(* Every step is a move                                                    *)

\* A process that quits forgets its own attempts, and leaves those of the others.
LEMMA QuitFades ==
  ASSUME TypeOK, NEW w \in Worker, Quit(w)
  PROVE  Fades(w)
<1>t. attempts \subseteq Attempts
  BY DEF TypeOK, StoreTypeOK
<1>1. ASSUME NEW a \in attempts'
      PROVE  \E b \in attempts : a.vertex = b.vertex /\ a.op = b.op /\ (a.holder = b.holder \/ b.holder = w)
  <2>1. PICK b \in attempts : a = [b EXCEPT !.holder = IF @ = w THEN None ELSE @]
    BY <1>1 DEF Quit, Forget
  <2>2. a.vertex = b.vertex /\ a.op = b.op /\ (a.holder = b.holder \/ b.holder = w)
    BY <1>t, <2>1 DEF Attempts
  <2> QED BY <2>2
<1>2. ASSUME NEW b \in attempts, b.holder # w PROVE b \in attempts'
  <2>1. [b EXCEPT !.holder = IF @ = w THEN None ELSE @] = b
    BY <1>2, <1>t DEF Attempts
  <2> QED BY <2>1 DEF Quit, Forget
<1> QED BY <1>1, <1>2 DEF Fades

\* Resolving an attempt of one's own removes that one.
LEMMA ResolveFades ==
  ASSUME NEW w, NEW v, NEW op, attempts' = attempts \ {[vertex |-> v, op |-> op, holder |-> w]}
  PROVE  Fades(w)
BY DEF Fades

\* Leaving the table alone.
LEMMA KeepFades ==
  ASSUME NEW w, attempts' = attempts
  PROVE  Fades(w)
BY DEF Fades

\* What a process does to the tables is one of the moves.
LEMMA StepActs ==
  ASSUME LInv, NEW w \in Worker, Step(w)
  PROVE  Acts(w)
<1> DEFINE s == job[w].scope
<1>t. TypeOK /\ IInv
  BY DEF LInv, IInv
<1>p. InPivot(w) => s \in Scope /\ s = ScopeOf[job[w].vertex] /\ state[s] = "pivot-inflight"
  BY <1>t, ZenonT(60) DEF IInv, PivotHasScopeAlone, TypeOK, JobShape, InPivot, InCall, RowPcs, Operations
<1>c. InConfirm(w) => s \in Scope /\ state[s] = "pivot-passed"
  BY <1>t, ZenonT(60) DEF IInv, PivotHasScopeAlone, TypeOK, JobShape
<1>x. InCancel(w) => s \in Scope /\ state[s] \in {"cancelling", "cancelled", "suspended"}
  BY <1>t DEF IInv, PivotHasScopeAlone, TypeOK, JobShape
<1>q. Quit(w) => Fades(w)
  BY <1>t, QuitFades
<1>k. attempts' = attempts => Fades(w)
  BY KeepFades
<1>u. UNCHANGED <<state, bracket, member, effect>> /\ Fades(w) => Acts(w)
  BY DEF Acts, Stays
<1>1. CASE \/ Claim(w) \/ PassBarrier(w) \/ CheckOwner(w) \/ RecordPlainSuccess(w) \/ CompleteWork(w)
           \/ ReleaseWork(w) \/ BranchOnPivot(w)
  <2>1. UNCHANGED <<state, bracket, member, effect>> /\ (attempts' = attempts \/ Quit(w))
    BY <1>1, Zenon DEF Claim, PassBarrier, CheckOwner, RecordPlainSuccess, CompleteWork, ReleaseWork, BranchOnPivot, storeVars, scopeVars, bracketVars, memberVars
  <2> QED BY <2>1, <1>q, <1>k, <1>u
<1>2. CASE \/ NextConfirm(w) \/ RecordFailure(w) \/ FailAbsentPivot(w) \/ ClaimCancelMember(w) \/ Crash(w)
           \/ \E t \in Scope : PickRequest(w, t) \/ PickExpired(w, t) \/ PickStuck(w, t)
  <2>1. UNCHANGED <<state, bracket, member, effect>> /\ (attempts' = attempts \/ Quit(w))
    BY <1>2, Zenon DEF NextConfirm, RecordFailure, RecordFailed, FailAbsentPivot, ClaimCancelMember, claim_cancel_member, Crash, PickRequest, PickExpired, PickStuck, storeVars, scopeVars, bracketVars, memberVars
  <2> QED BY <2>1, <1>q, <1>k, <1>u
<1>3. CASE ResolvePivotAttempt(w)
  <2>1. UNCHANGED <<state, bracket, member, effect>>
    BY <1>3, Zenon DEF ResolvePivotAttempt, scopeVars, bracketVars, memberVars
  <2>2. Fades(w)
    BY <1>3, ResolveFades, Zenon DEF ResolvePivotAttempt
  <2> QED BY <2>1, <2>2, <1>u
<1>4. CASE EnsureScope(w)
  <2>1. UNCHANGED <<bracket, member, effect>> /\ Fades(w)
    BY <1>4, <1>k, Zenon DEF EnsureScope, bracketVars, memberVars
  <2>2. CASE s \in Scope /\ state[s] = "absent"
    <3>1. state' = [state EXCEPT ![s] = "open"]
      BY <1>4, <2>2, Zenon DEF EnsureScope, ensure_txn_scope
    <3> QED BY <2>1, <2>2, <3>1, Zenon DEF MovesRow, Acts
  <2>3. CASE ~(s \in Scope /\ state[s] = "absent")
    <3>1. state' = state
      BY <1>4, <2>3, Zenon DEF EnsureScope, ensure_txn_scope, scopeVars
    <3> QED BY <2>1, <3>1, <1>u
  <2> QED BY <2>2, <2>3
<1>5. CASE RecordTrySuccess(w)
  <2>1. UNCHANGED <<member, effect, attempts>>
    BY <1>5, Zenon DEF RecordTrySuccess, memberVars
  <2>2. CASE BracketOwner(job[w].vertex) = None /\ RecordTry(job[w].vertex)
    BY <1>5, <2>1, <2>2 DEF RecordTrySuccess, RecordTry, SealsTry, Acts
  <2>3. CASE UNCHANGED <<scopeVars, bracketVars, logVars>>
    BY <2>1, <2>3, <1>u, <1>k DEF scopeVars, bracketVars
  <2> QED BY <1>5, <2>2, <2>3 DEF RecordTrySuccess
<1>6. CASE RecordAttemptStart(w)
  <2>1. UNCHANGED <<state, bracket, member, effect>>
    BY <1>6, Zenon DEF RecordAttemptStart, scopeVars, bracketVars, memberVars
  <2> QED BY <1>6, <2>1, <1>q, <1>u DEF RecordAttemptStart, Starts, Acts
<1>7. CASE Execute(w)
  <2>1. UNCHANGED <<state, bracket, member>> /\ At(w, "calling")
    BY <1>7, Zenon DEF Execute, scopeVars, bracketVars, memberVars
  <2>2. Resolved(w) => Fades(w)
    BY ResolveFades, Zenon DEF Resolved, CurrentAttempt
  <2>3. CurrentAttempt(w) \in attempts /\ CurrentAttempt(w).vertex = job[w].target /\ CurrentAttempt(w).op = job[w].op
    BY <2>1 DEF LInv, Stands, CurrentAttempt
  <2>4. CASE ToolSucceeds(w)
    BY <2>1, <2>2, <2>3, <2>4, Zenon DEF ToolSucceeds, Lands, Acts
  <2>5. CASE ToolFails(w) \/ ToolUnknown(w)
    BY <2>1, <2>2, <2>5, <1>u, <1>k, ZenonT(60) DEF ToolFails, ToolUnknown
  <2>6. CASE StatusAnswers(w)
    BY <2>1, <2>2, <2>6, <1>u DEF StatusAnswers, Denies, Acts
  <2> QED BY <1>7, <2>4, <2>5, <2>6 DEF Execute
<1>8. CASE AdmitPivot(w)
  <2>0. s \in Scope /\ s = ScopeOf[job[w].vertex]
    BY <1>8, <1>t, Zenon DEF AdmitPivot, At, TypeOK, JobShape, RowPcs
  <2>1. UNCHANGED <<bracket, member, effect>> /\ Fades(w)
    BY <1>8, <1>k, Zenon DEF AdmitPivot, bracketVars, memberVars
  <2>2. CASE PivotAdmissible(s) /\ admit_pivot(job[w].vertex)
    <3>1. state' = [state EXCEPT ![s] = "pivot-inflight"]
      BY <2>0, <2>2, Zenon DEF admit_pivot
    <3> QED BY <2>0, <2>1, <2>2, <3>1, Zenon DEF MovesRow, Acts
  <2>3. CASE UNCHANGED scopeVars
    BY <2>1, <2>3, <1>u DEF scopeVars
  <2> QED BY <1>8, <2>2, <2>3 DEF AdmitPivot
<1>9. CASE ResolvePivotAbsent(w)
  <2>0. s \in Scope /\ s = ScopeOf[job[w].vertex] /\ At(w, "reopen")
    BY <1>9, <1>p, Zenon DEF ResolvePivotAbsent, At, InPivot
  <2>1. UNCHANGED <<bracket, member, effect>> /\ Fades(w)
    BY <1>9, <1>k, <1>q, Zenon DEF ResolvePivotAbsent, bracketVars, memberVars
  <2>2. CASE resolve_pivot_absent(job[w].vertex)
    <3>1. state' = [state EXCEPT ![s] = "open"] /\ s \in fenced'
      BY <2>0, <2>2 DEF resolve_pivot_absent
    <3> QED BY <2>0, <2>1, <3>1, Zenon DEF MovesRow, Acts
  <2>3. CASE UNCHANGED scopeVars
    BY <2>1, <2>3, <1>u DEF scopeVars
  <2> QED BY <1>9, <2>2, <2>3 DEF ResolvePivotAbsent
<1>10. CASE PassPivot(w)
  <2>0. s \in Scope /\ s = ScopeOf[job[w].vertex] /\ PivotAnswered(w, {"succeeded"})
    BY <1>10, <1>p DEF PassPivot, PivotAnswered, At, InPivot, InCall, CallPcs
  <2>1. UNCHANGED <<bracket, member, effect>> /\ Fades(w)
    BY <1>10, <1>k, <1>q, Zenon DEF PassPivot, bracketVars, memberVars
  <2>2. CASE RecordPivotPassed(job[w].vertex)
    <3>1. state' = [state EXCEPT ![s] = "pivot-passed"]
      BY <2>0, <2>2 DEF RecordPivotPassed
    <3> QED BY <2>0, <2>1, <3>1, Zenon DEF MovesRow, Acts
  <2>3. CASE UNCHANGED scopeVars
    BY <2>1, <2>3, <1>u DEF scopeVars
  <2> QED BY <1>10, <2>2, <2>3 DEF PassPivot
\* Suspending a scope, whoever does it.
<1>s. ASSUME s \in Scope, state[s] \notin {"absent", "committed"}, CloseScope(s, "suspended"),
             UNCHANGED <<bracket, member, effect>>, Fades(w)
      PROVE  Acts(w)
  <2>1. state' = [state EXCEPT ![s] = "suspended"]
    BY <1>s, Zenon DEF CloseScope
  <2> QED BY <1>s, <2>1, Zenon DEF MovesRow, Acts
<1>11. CASE SuspendPivot(w)
  <2>1. InPivot(w)
    BY <1>11, Zenon DEF SuspendPivot, PivotAnswered, StatusAnswered, At, InPivot, InCall, CallPcs
  <2>2. CloseScope(s, "suspended") /\ UNCHANGED <<bracket, member, effect>> /\ Fades(w)
    BY <1>11, <1>k, Zenon DEF SuspendPivot, bracketVars, memberVars
  <2> QED BY <2>1, <2>2, <1>p, <1>s
<1>12. CASE SuspendConfirm(w)
  <2>1. InConfirm(w)
    BY <1>12 DEF SuspendConfirm, At, InConfirm, InCall, CallPcs
  <2>2. CloseScope(s, "suspended") /\ UNCHANGED <<bracket, member, effect>> /\ Fades(w)
    BY <1>12, <1>k, Zenon DEF SuspendConfirm, bracketVars, memberVars
  <2> QED BY <2>1, <2>2, <1>c, <1>s
<1>13. CASE SuspendCancel(w)
  <2>1. InCancel(w)
    BY <1>13 DEF SuspendCancel, At, InCancel, InCall, CallPcs
  <2>2. CloseScope(s, "suspended") /\ UNCHANGED <<bracket, member, effect>> /\ Fades(w)
    BY <1>13, <1>q, Zenon DEF SuspendCancel, bracketVars, memberVars
  <2> QED BY <2>1, <2>2, <1>x, <1>s
<1>14. CASE CommitScope(w)
  <2>1. InConfirm(w) /\ At(w, "commit")
    BY <1>14 DEF CommitScope, At, InConfirm
  <2>2. state' = [state EXCEPT ![s] = "committed"]
    BY <1>14, Zenon DEF CommitScope, CloseScope
  <2>3. UNCHANGED <<bracket, member, effect>> /\ Fades(w)
    BY <1>14, <1>k, Zenon DEF CommitScope, bracketVars, memberVars
  <2> QED BY <2>1, <2>2, <2>3, <1>c, Zenon DEF MovesRow, Acts
<1>15. CASE RecordConfirmed(w)
  <2>1. UNCHANGED <<state, member, effect>>
    BY <1>15, Zenon DEF RecordConfirmed, scopeVars, memberVars
  <2> QED BY <1>15, <2>1, <1>q, <1>u DEF RecordConfirmed, ConfirmsTry, Acts
<1>16. CASE RequestScopeCancel(w)
  <2>0. s \in Scope
    BY <1>16, <1>t, Zenon DEF RequestScopeCancel, TypeOK, JobShape
  <2>1. UNCHANGED <<bracket, effect>>
    BY <1>16, Zenon DEF RequestScopeCancel, bracketVars
  <2>2. \/ /\ state[s] = "open" /\ RecordCancelRequested(s)
           /\ Members(s) \cap leased = {} /\ Unresolved(s) = {} /\ UNCHANGED attempts
        \/ state[s] = "open" /\ CloseScope(s, "suspended") /\ Quit(w) /\ UNCHANGED member
        \/ UNCHANGED <<state, member>> /\ (Quit(w) \/ UNCHANGED attempts)
    BY <1>16, Zenon DEF RequestScopeCancel, CancelDecision, scopeVars, memberVars
  <2>3. CASE /\ state[s] = "open" /\ RecordCancelRequested(s)
             /\ Members(s) \cap leased = {} /\ Unresolved(s) = {} /\ UNCHANGED attempts
    BY <2>0, <2>1, <2>3, ZenonT(60) DEF RecordCancelRequested, Cancels, Acts
  <2> QED BY <2>0, <2>1, <2>2, <2>3, <1>s, <1>q, <1>k, <1>u, ZenonT(60)
<1>17. CASE CompleteCancelMember(w)
  <2>1. UNCHANGED <<state, bracket, effect>>
    BY <1>17, Zenon DEF CompleteCancelMember, scopeVars, bracketVars
  <2> QED BY <1>17, <2>1, <1>q, <1>u DEF CompleteCancelMember, complete_cancel_member, CompletesMember, Acts, memberVars
<1>18. CASE CompleteScopeCancel(w)
  <2>0. s \in Scope
    BY <1>18, <1>x, Zenon DEF CompleteScopeCancel, At, InCancel
  <2>1. UNCHANGED <<member, effect>> /\ Fades(w)
    BY <1>18, <1>q, Zenon DEF CompleteScopeCancel, memberVars
  <2>2. CASE state[s] = "cancelling" /\ IncompleteMembers(s) = {} /\ RecordCancelCompleted(s)
    BY <2>0, <2>1, <2>2, Zenon DEF RecordCancelCompleted, CompletesCancel, Acts
  <2>3. CASE UNCHANGED <<scopeVars, bracketVars>>
    BY <2>1, <2>3, <1>u DEF scopeVars, bracketVars
  <2> QED BY <1>18, <2>2, <2>3, Zenon DEF CompleteScopeCancel
<1> QED BY <1>1, <1>2, <1>3, <1>4, <1>5, <1>6, <1>7, <1>8, <1>9, <1>10, <1>11, <1>12, <1>13, <1>14, <1>15, <1>16, <1>17, <1>18, ZenonT(60) DEF Step, Handler

\* What happens around the processes lets an effect land, or leaves the ledger alone.
LEMMA AroundActs ==
  ASSUME Around \/ UNCHANGED vars
  PROVE  Acts(None) /\ UNCHANGED job
<1>1. UNCHANGED job
  BY AroundJob DEF vars
<1>2. UNCHANGED <<state, bracket, member, attempts>>
  BY Zenon DEF Around, DeadLeaseExpires, DeadMemberLeaseExpires, LeaseOverrun, DeadlinePasses, EffectLands, EngineRequest, RegisterCancelRequest, vars, storeVars, scopeVars, bracketVars, memberVars
<1>3. UNCHANGED effect \/ \E a \in attempts : effect' = [effect EXCEPT ![KeyOf[a.vertex]] = Applied(a.op, @)]
  BY Zenon DEF Around, DeadLeaseExpires, DeadMemberLeaseExpires, LeaseOverrun, DeadlinePasses, EffectLands, EngineRequest, vars
<1>4. Fades(None)
  BY <1>2, KeepFades
<1> QED BY <1>1, <1>2, <1>3, <1>4 DEF Acts, Stays, Lands

\* Every step of the system is a move.
LEMMA NextMoves ==
  ASSUME LInv, [Next]_vars
  PROVE  \E w \in Worker \cup {None} : Move(w)
<1>t. TypeOK /\ IInv
  BY DEF LInv, IInv
<1>f. fenced \subseteq fenced'
  BY <1>t, NextRows, RowsRemain
<1>1. ASSUME NEW w \in Worker, Step(w) PROVE Move(w)
  BY <1>1, <1>t, <1>f, StepJob, StepActs DEF Move
<1>2. CASE Around \/ UNCHANGED vars
  BY <1>2, <1>f, AroundActs DEF Move
<1> QED BY <1>1, <1>2, NextSteps
-----------------------------------------------------------------------------
(* What a move does to one row                                             *)

\* The tables as the type invariant has them.
LEMMA LedgerTyped ==
  ASSUME TypeOK
  PROVE  /\ state \in [Scope -> States] /\ bracket \in [Key -> Brackets] /\ effect \in [Key -> Effects]
         /\ member \in [Vertex -> {"none", "todo", "done"}] /\ attempts \subseteq Attempts
         /\ job \in [Worker -> Jobs]
         /\ \A v \in Vertex : KeyOf[v] \in Key /\ ScopeOf[v] \in Scope \cup {None}
         /\ Try \subseteq Vertex /\ Pivot \subseteq Vertex /\ \A v \in Try : v \notin Pivot /\ ScopeOf[v] \in Scope
         /\ None \notin Worker /\ None \notin Vertex /\ None \notin Scope
BY ShapeAssumption, ScopedTryAssumption, ZenonT(60) DEF ShapeAssumption, ScopedTryAssumption, TypeOK, StoreTypeOK, Try

\* One scope's row under a move of w.
RowMove(w, s) ==
    \/ state'[s] = state[s]
    \/ state[s] = "absent" /\ state'[s] = "open"
    \/ PivotAdmissible(s) /\ state'[s] = "pivot-inflight"
    \/ /\ w \in Worker /\ At(w, "reopen") /\ s = job[w].scope
       /\ state[s] = "pivot-inflight" /\ state'[s] = "open" /\ s \in fenced'
    \/ /\ w \in Worker /\ PivotAnswered(w, {"succeeded"}) /\ s = job[w].scope
       /\ state[s] = "pivot-inflight" /\ state'[s] = "pivot-passed"
    \/ w \in Worker /\ At(w, "commit") /\ s = job[w].scope /\ state[s] = "pivot-passed" /\ state'[s] = "committed"
    \/ state[s] \notin {"absent", "committed"} /\ state'[s] = "suspended"
    \/ state[s] = "open" /\ Unresolved(s) = {} /\ state'[s] = "cancelling"
    \/ state[s] = "cancelling" /\ IncompleteMembers(s) = {} /\ member' = member /\ state'[s] = "cancelled"

\* A process past the barrier finds the row where PivotHasScopeAlone says, so the rows move thus.
LEMMA RowMoves ==
  ASSUME LInv, NEW w, Acts(w), NEW s \in Scope
  PROVE  RowMove(w, s)
<1>t. state \in [Scope -> States]
  BY LedgerTyped DEF LInv, IInv
<1>1. CASE UNCHANGED state
  BY <1>1 DEF RowMove
<1>2. CASE MovesRow(w)
  <2>1. PICK r \in Scope :
          \/ state[r] = "absent" /\ state' = [state EXCEPT ![r] = "open"]
          \/ PivotAdmissible(r) /\ state' = [state EXCEPT ![r] = "pivot-inflight"]
          \/ /\ w \in Worker /\ At(w, "reopen") /\ r = job[w].scope
             /\ state' = [state EXCEPT ![r] = "open"] /\ r \in fenced'
          \/ /\ w \in Worker /\ PivotAnswered(w, {"succeeded"}) /\ r = job[w].scope
             /\ state' = [state EXCEPT ![r] = "pivot-passed"]
          \/ w \in Worker /\ At(w, "commit") /\ r = job[w].scope /\ state' = [state EXCEPT ![r] = "committed"]
          \/ state[r] \notin {"absent", "committed"} /\ state' = [state EXCEPT ![r] = "suspended"]
    BY <1>2 DEF MovesRow
  <2>2. CASE s # r
    BY <2>1, <2>2, <1>t, ZenonT(60) DEF RowMove
  <2>3. w \in Worker /\ (At(w, "reopen") \/ PivotAnswered(w, {"succeeded"})) => state[job[w].scope] = "pivot-inflight"
    BY DEF LInv, IInv, PivotHasScopeAlone, PivotAnswered, At, InPivot, InCall, CallPcs
  <2>4. w \in Worker /\ At(w, "commit") => state[job[w].scope] = "pivot-passed"
    BY DEF LInv, IInv, PivotHasScopeAlone, At, InConfirm
  <2>5. CASE s = r
    <3>1. \/ state[s] = "absent" /\ state'[s] = "open"
          \/ PivotAdmissible(s) /\ state'[s] = "pivot-inflight"
          \/ w \in Worker /\ At(w, "reopen") /\ s = job[w].scope /\ state'[s] = "open" /\ s \in fenced'
          \/ w \in Worker /\ PivotAnswered(w, {"succeeded"}) /\ s = job[w].scope /\ state'[s] = "pivot-passed"
          \/ w \in Worker /\ At(w, "commit") /\ s = job[w].scope /\ state'[s] = "committed"
          \/ state[s] \notin {"absent", "committed"} /\ state'[s] = "suspended"
      <4>1. ASSUME NEW to, state' = [state EXCEPT ![r] = to] PROVE state'[s] = to
        BY <2>5, <4>1, <1>t
      <4> QED BY <2>1, <2>5, <4>1, ZenonT(60)
    <3> QED BY <2>3, <2>4, <3>1, Zenon DEF RowMove
  <2> QED BY <2>2, <2>5
<1>3. CASE Cancels
  BY <1>3, <1>t DEF Cancels, RowMove
<1>4. CASE CompletesCancel(w)
  <2>1. PICK r \in Scope : /\ state[r] = "cancelling" /\ IncompleteMembers(r) = {} /\ member' = member
                           /\ state' = [state EXCEPT ![r] = "cancelled"]
    BY <1>4, ZenonT(60) DEF CompletesCancel
  <2> QED BY <2>1, <1>t DEF RowMove
<1> QED BY <1>1, <1>2, <1>3, <1>4, ZenonT(60) DEF Acts, Stays, Starts, Lands, Denies, SealsTry, ConfirmsTry, CompletesMember

\* A bracket keeps its owner; it is sealed by a try without one, confirmed when it was sealed, and
\* cancelled with its own scope.
LEMMA BracketMoves ==
  ASSUME LInv, NEW w, Acts(w), NEW k \in Key
  PROVE  \/ bracket'[k] = bracket[k]
         \/ SealsTry(w) /\ k = KeyOf[job[w].vertex] /\ bracket[k].vertex = None
            /\ bracket'[k] = [vertex |-> job[w].vertex, state |-> "sealed"]
         \/ ConfirmsTry(w) /\ k = KeyOf[job[w].target] /\ bracket'[k] = [bracket[k] EXCEPT !.state = "confirmed"]
         \/ \E v \in Vertex : /\ ScopeOf[v] \in Scope /\ state[ScopeOf[v]] = "cancelling" /\ KeyOf[v] = k /\ Sealed(v)
                               /\ bracket'[k] = [bracket[k] EXCEPT !.state = "cancelled"]
<1>t. bracket \in [Key -> Brackets]
  BY LedgerTyped DEF LInv, IInv
<1>1. CASE SealsTry(w)
  BY <1>1, <1>t, ZenonT(60) DEF SealsTry, BracketOwner
<1>2. CASE ConfirmsTry(w)
  BY <1>2, <1>t DEF ConfirmsTry, RecordConfirm
<1>3. CASE CompletesCancel(w)
  <2>1. PICK s \in Scope :
          /\ state[s] = "cancelling"
          /\ bracket' = [n \in Key |-> IF \E v \in SealedIn(s) : KeyOf[v] = n
                                       THEN [bracket[n] EXCEPT !.state = "cancelled"] ELSE bracket[n]]
    BY <1>3, ZenonT(60) DEF CompletesCancel
  <2> QED BY <2>1 DEF SealedIn, Members
<1> QED BY <1>1, <1>2, <1>3, ZenonT(60) DEF Acts, Stays, Starts, Lands, Denies, MovesRow, Cancels, CompletesMember

\* A member stays one; it becomes one when its scope is cancelled, without unresolved attempts.
LEMMA MemberMoves ==
  ASSUME LInv, NEW w, Acts(w), NEW v \in Vertex
  PROVE  \/ member'[v] = member[v]
         \/ /\ member[v] = "none" /\ member'[v] = "todo" /\ Sealed(v) /\ ScopeOf[v] \in Scope
            /\ state[ScopeOf[v]] = "open" /\ state'[ScopeOf[v]] = "cancelling"
            /\ Unresolved(ScopeOf[v]) = {} /\ UNCHANGED <<attempts, bracket, effect>>
         \/ CompletesMember(w) /\ v = job[w].target /\ member[v] # "none" /\ member'[v] = "done"
<1>t. member \in [Vertex -> {"none", "todo", "done"}] /\ state \in [Scope -> States]
  BY LedgerTyped DEF LInv, IInv
<1>1. CASE Cancels
  <2>1. PICK s \in Scope :
          /\ state[s] = "open" /\ Unresolved(s) = {} /\ state' = [state EXCEPT ![s] = "cancelling"]
          /\ member' = [u \in Vertex |-> IF u \in SealedIn(s) /\ member[u] = "none" THEN "todo" ELSE member[u]]
    BY <1>1, Zenon DEF Cancels
  <2>2. UNCHANGED <<attempts, bracket, effect>>
    BY <1>1 DEF Cancels
  <2> QED BY <2>1, <2>2, <1>t DEF SealedIn, Members
<1>2. CASE CompletesMember(w)
  <2>1. member[job[w].target] # "none"
    BY <1>2, ZenonT(60) DEF CompletesMember, LInv, Stands, InCall, CallPcs, At
  <2> QED BY <1>2, <2>1, <1>t, ZenonT(60) DEF CompletesMember
<1> QED BY <1>1, <1>2 DEF Acts, Stays, Starts, Lands, Denies, SealsTry, ConfirmsTry, MovesRow, CompletesCancel

\* An attempt was there before, whoever held it, or record_attempt_start admits it now.
LEMMA AttemptMoves ==
  ASSUME NEW w, Acts(w), NEW a \in attempts'
  PROVE  \/ \E b \in attempts : a.vertex = b.vertex /\ a.op = b.op /\ (a.holder = b.holder \/ b.holder = w)
         \/ Starts(w) /\ a = CurrentAttempt(w)
<1>1. CASE Starts(w)
  BY <1>1 DEF Starts
<1>2. CASE Fades(w)
  BY <1>2 DEF Fades
<1>3. CASE UNCHANGED attempts
  BY <1>3, ZenonT(60)
<1> QED BY <1>1, <1>2, <1>3, ZenonT(60) DEF Acts, Stays, Lands, Denies, SealsTry, ConfirmsTry, MovesRow, Cancels, CompletesMember, CompletesCancel

\* The attempts of everybody else stay where they are.
LEMMA OthersAttempts ==
  ASSUME NEW w, Acts(w), NEW b \in attempts, b.holder # w
  PROVE  b \in attempts'
<1>1. CASE Fades(w)
  BY <1>1 DEF Fades
<1>2. CASE Starts(w) \/ UNCHANGED attempts
  BY <1>2 DEF Starts
<1> QED BY <1>1, <1>2 DEF Acts, Stays, Lands, Denies, SealsTry, ConfirmsTry, MovesRow, Cancels, CompletesMember, CompletesCancel
-----------------------------------------------------------------------------
(* The tables agree after every move                                       *)

\* A bracket that has an owner keeps it.
LEMMA OwnersStay ==
  ASSUME LInv, NEW w, Acts(w), NEW k \in Key, bracket[k].vertex # None
  PROVE  bracket'[k].vertex = bracket[k].vertex
<1>t. bracket[k] \in Brackets
  BY LedgerTyped DEF LInv, IInv
<1>1. CASE bracket'[k] = bracket[k]
  BY <1>1
<1>2. ASSUME NEW to, bracket'[k] = [bracket[k] EXCEPT !.state = to] PROVE bracket'[k].vertex = bracket[k].vertex
  BY <1>2, <1>t DEF Brackets
<1> QED BY <1>1, <1>2, BracketMoves, ZenonT(60)

\* txn_bracket: only RecordTry names an owner, the try itself.
LEMMA BracketsKept ==
  ASSUME LInv, NEW w, Acts(w)
  PROVE  BracketsOwned'
<1> SUFFICES ASSUME NEW k \in Key
             PROVE  IF bracket'[k].vertex = None THEN bracket'[k].state = "none"
                    ELSE bracket'[k].vertex \in Try /\ KeyOf[bracket'[k].vertex] = k /\ bracket'[k].state # "none"
  BY DEF BracketsOwned
<1>t. bracket[k] \in Brackets /\ Try \subseteq Vertex /\ None \notin Vertex
  BY LedgerTyped DEF LInv, IInv
<1>b. IF bracket[k].vertex = None THEN bracket[k].state = "none"
      ELSE bracket[k].vertex \in Try /\ KeyOf[bracket[k].vertex] = k /\ bracket[k].state # "none"
  BY DEF LInv, BracketsOwned
<1>1. CASE bracket'[k] = bracket[k]
  BY <1>1, <1>b, ZenonT(60)
<1>2. CASE SealsTry(w) /\ k = KeyOf[job[w].vertex] /\ bracket'[k] = [vertex |-> job[w].vertex, state |-> "sealed"]
  <2>1. job[w].vertex \in Try
    BY <1>2, Zenon DEF SealsTry
  <2>2. job[w].vertex # None
    BY <1>t, <2>1, Zenon
  <2>3. bracket'[k].vertex = job[w].vertex /\ bracket'[k].state = "sealed"
    <3>1. bracket'[k] = [vertex |-> job[w].vertex, state |-> "sealed"]
      BY <1>2, Zenon
    <3> QED BY <3>1
  <2> QED BY <1>2, <2>1, <2>2, <2>3, Zenon
<1>3. CASE ConfirmsTry(w) /\ k = KeyOf[job[w].target] /\ bracket'[k] = [bracket[k] EXCEPT !.state = "confirmed"]
  <2>1. bracket[k] = [vertex |-> job[w].target, state |-> "sealed"]
    BY <1>3 DEF ConfirmsTry, Sealed
  <2>2. bracket'[k].vertex = bracket[k].vertex /\ bracket'[k].state = "confirmed" /\ bracket[k].state = "sealed"
    <3>1. bracket'[k] = [bracket[k] EXCEPT !.state = "confirmed"]
      BY <1>3, Zenon
    <3> QED BY <2>1, <3>1
  <2> QED BY <2>2, <1>b, ZenonT(60)
<1>4. ASSUME NEW v \in Vertex, KeyOf[v] = k, Sealed(v), bracket'[k] = [bracket[k] EXCEPT !.state = "cancelled"]
      PROVE  IF bracket'[k].vertex = None THEN bracket'[k].state = "none"
             ELSE bracket'[k].vertex \in Try /\ KeyOf[bracket'[k].vertex] = k /\ bracket'[k].state # "none"
  <2>1. bracket'[k].vertex = bracket[k].vertex /\ bracket'[k].state = "cancelled" /\ bracket[k].state = "sealed"
    BY <1>4 DEF Sealed
  <2> QED BY <2>1, <1>b
<1> QED BY <1>1, <1>2, <1>3, <1>4, BracketMoves

\* scope_cancel_member: request_scope_cancel lists the owners, and a cancelled scope stays ended.
LEMMA MembersKept ==
  ASSUME LInv, NEW w, Acts(w)
  PROVE  MembersOwn'
<1> SUFFICES ASSUME NEW v \in Vertex, member'[v] # "none"
             PROVE  v \in Try /\ BracketOwner(v)' = v /\ ScopeOf[v] \in Scope /\ state'[ScopeOf[v]] \in Ended
  BY DEF MembersOwn
<1>t. KeyOf[v] \in Key /\ None \notin Vertex
  BY LedgerTyped DEF LInv, IInv
<1>1. v \in Try /\ BracketOwner(v) = v /\ ScopeOf[v] \in Scope /\ state'[ScopeOf[v]] \in Ended
  <2>1. CASE member[v] # "none"
    <3>1. v \in Try /\ BracketOwner(v) = v /\ ScopeOf[v] \in Scope /\ state[ScopeOf[v]] \in Ended
      BY <2>1, ZenonT(60) DEF LInv, MembersOwn
    <3>2. RowMove(w, ScopeOf[v])
      BY <3>1, RowMoves, ZenonT(60)
    <3> QED BY <3>1, <3>2, ZenonT(60) DEF RowMove, Ended, PivotAdmissible
  <2>2. CASE member[v] = "none"
    <3>1. Sealed(v) /\ ScopeOf[v] \in Scope /\ state'[ScopeOf[v]] = "cancelling"
      BY <2>2, MemberMoves
    <3>2. BracketOwner(v) = v
      BY <3>1 DEF Sealed, BracketOwner
    <3> QED BY <3>1, <3>2, <1>t, ZenonT(60) DEF LInv, BracketsOwned, BracketOwner, Ended
  <2> QED BY <2>1, <2>2, ZenonT(60)
<1>2. BracketOwner(v)' = v
  BY <1>1, <1>t, OwnersStay, ZenonT(60) DEF BracketOwner
<1> QED BY <1>1, <1>2

\* txn/cancel completed is recorded without members left, and a completed scope gets no new ones.
LEMMA NoneLeftKept ==
  ASSUME LInv, NEW w, Acts(w)
  PROVE  CancelledHasNoneLeft'
<1> SUFFICES ASSUME NEW s \in Scope, state'[s] = "cancelled", NEW v \in Vertex, ScopeOf[v] = s, member'[v] = "todo"
             PROVE  FALSE
  BY DEF CancelledHasNoneLeft, IncompleteMembers, Members
<1>1. member[v] = "todo"
  BY MemberMoves
<1>2. state[s] # "cancelled"
  BY <1>1, ZenonT(60) DEF LInv, CancelledHasNoneLeft, IncompleteMembers, Members
<1>3. IncompleteMembers(s) = {}
  BY <1>2, RowMoves, ZenonT(60) DEF RowMove
<1> QED BY <1>1, <1>3 DEF IncompleteMembers, Members

\* txn_attempt: what record_attempt_start admits fits the vertex, and goes on fitting.
LEMMA AttemptsKept ==
  ASSUME LInv, NEW w \in Worker \cup {None}, Acts(w)
  PROVE  AttemptsFit'
<1> DEFINE Fits(v, op) ==
        /\ op = "call" => v \notin Pivot
        /\ op \in {"pivot", "status"} => v \in Pivot /\ ScopeOf[v] \in Scope
        /\ op = "confirm" => /\ v \in Tcc /\ BracketOwner(v) = v /\ ScopeOf[v] \in Scope
                             /\ state[ScopeOf[v]] \in {"pivot-passed", "committed", "suspended"}
        /\ op = "inverse" => member[v] # "none"
<1> SUFFICES ASSUME NEW a \in attempts'
             PROVE  Fits(a.vertex, a.op)'
  BY ZenonT(60) DEF AttemptsFit
<1>t. \A v \in Vertex : KeyOf[v] \in Key
  BY LedgerTyped, ZenonT(60) DEF LInv, IInv
<1>1. a.vertex \in Vertex /\ Fits(a.vertex, a.op)
  <2>1. CASE \E b \in attempts : a.vertex = b.vertex /\ a.op = b.op
    <3>1. PICK b \in attempts : a.vertex = b.vertex /\ a.op = b.op
      BY <2>1, ZenonT(60)
    <3>2. b.vertex \in Vertex
      BY LedgerTyped, ZenonT(60) DEF LInv, IInv, Attempts
    <3> QED BY <3>1, <3>2, ZenonT(60) DEF LInv, AttemptsFit
  <2>2. CASE Starts(w) /\ a = CurrentAttempt(w)
    <3>0. w \in Worker /\ At(w, "dispatch") /\ Stands(w)
      BY <2>2 DEF Starts, LInv
    <3>1. a.vertex = job[w].target /\ a.op = job[w].op
      BY <2>2, ZenonT(60) DEF CurrentAttempt
    <3>2. job[w].target \in Vertex /\ job[w].op \in Operations
      BY <3>0, ZenonT(60) DEF LInv, IInv, TypeOK, JobShape, CallPcs, At
    <3>3. job[w].op = "call" => job[w].target \notin Pivot
      BY <3>0, ZenonT(60) DEF Stands, InCall, CallPcs, At
    <3>4. job[w].op \in {"pivot", "status"} => job[w].target \in Pivot /\ ScopeOf[job[w].target] \in Scope
      <4>1. ASSUME job[w].op \in {"pivot", "status"} PROVE InPivot(w) /\ InCall(w, Operations \ {"inverse"})
        BY <3>0, <4>1 DEF InPivot, InCall, CallPcs, At, Operations
      <4>2. ASSUME InPivot(w) /\ InCall(w, Operations \ {"inverse"})
            PROVE  job[w].scope \in Scope /\ job[w].scope = ScopeOf[job[w].vertex]
        BY <3>0, <4>2, Zenon DEF LInv, IInv, TypeOK, JobShape
      <4> QED BY <3>0, <4>1, <4>2, ZenonT(60) DEF Stands
    <3>5. job[w].op = "confirm" =>
             /\ job[w].target \in Tcc /\ BracketOwner(job[w].target) = job[w].target /\ ScopeOf[job[w].target] \in Scope
             /\ state[ScopeOf[job[w].target]] = "pivot-passed"
      <4> SUFFICES ASSUME job[w].op = "confirm"
                   PROVE  /\ job[w].target \in Tcc /\ BracketOwner(job[w].target) = job[w].target
                          /\ ScopeOf[job[w].target] \in Scope /\ state[ScopeOf[job[w].target]] = "pivot-passed"
        OBVIOUS
      <4>1. InConfirm(w) /\ InCall(w, {"confirm"})
        BY <3>0, ZenonT(60) DEF InConfirm, InCall, CallPcs, At
      <4>2. job[w].scope \in Scope /\ state[job[w].scope] = "pivot-passed"
        BY <3>0, <4>1, ZenonT(60) DEF LInv, IInv, TypeOK, JobShape, PivotHasScopeAlone
      <4>3. job[w].target \in Tcc /\ ScopeOf[job[w].target] = job[w].scope
        BY <3>0, <4>1, ZenonT(60) DEF Stands, Members
      <4> QED BY <3>2, <4>2, <4>3, ZenonT(60) DEF LInv, TriesOwn, Required, Members, Try
    <3>6. job[w].op = "inverse" => member[job[w].target] # "none"
      BY <3>0 DEF Stands, InCall, CallPcs, At
    <3> QED BY <3>1, <3>2, <3>3, <3>4, <3>5, <3>6, ZenonT(60)
  <2> QED BY <2>1, <2>2, AttemptMoves, ZenonT(60)
<1>2. a.op = "confirm" => /\ BracketOwner(a.vertex)' = a.vertex
                          /\ state'[ScopeOf[a.vertex]] \in {"pivot-passed", "committed", "suspended"}
  <2> SUFFICES ASSUME a.op = "confirm"
               PROVE  /\ BracketOwner(a.vertex)' = a.vertex
                      /\ state'[ScopeOf[a.vertex]] \in {"pivot-passed", "committed", "suspended"}
    OBVIOUS
  <2>1. BracketOwner(a.vertex)' = a.vertex
    <3>1. a.vertex # None
      BY <1>1, LedgerTyped, ZenonT(60) DEF LInv, IInv
    <3> QED BY <1>1, <1>t, <3>1, OwnersStay, ZenonT(60) DEF BracketOwner
  <2>2. RowMove(w, ScopeOf[a.vertex])
    BY <1>1, RowMoves, ZenonT(60)
  <2> QED BY <1>1, <2>1, <2>2, ZenonT(60) DEF RowMove, PivotAdmissible
<1>3. a.op = "inverse" => member'[a.vertex] # "none"
  BY <1>1, MemberMoves
<1> QED BY <1>1, <1>2, <1>3, ZenonT(60)

\* A scope gets its members when nothing is unresolved in it, and only inverses start after that.
LEMMA InversesKept ==
  ASSUME LInv, NEW w \in Worker \cup {None}, Acts(w)
  PROVE  InversesAlone'
<1> SUFFICES ASSUME NEW a \in attempts', NEW v \in Vertex, member'[v] # "none", ScopeOf[a.vertex] = ScopeOf[v], a.op # "inverse"
             PROVE  FALSE
  BY DEF InversesAlone
<1>1. CASE member[v] = "none"
  <2>1. Unresolved(ScopeOf[v]) = {} /\ attempts' = attempts
    BY <1>1, MemberMoves, ZenonT(60)
  <2> QED BY <2>1, ZenonT(60) DEF Unresolved
<1>2. CASE member[v] # "none"
  <2>1. ScopeOf[v] \in Scope /\ state[ScopeOf[v]] \in Ended
    BY <1>2, ZenonT(60) DEF LInv, MembersOwn
  <2>2. CASE \E b \in attempts : a.vertex = b.vertex /\ a.op = b.op
    BY <1>2, <2>2 DEF LInv, InversesAlone
  <2>3. CASE Starts(w) /\ a = CurrentAttempt(w)
    <3>1. /\ w \in Worker /\ At(w, "dispatch") /\ a.vertex = job[w].target /\ a.op = job[w].op
          /\ MayStartAttempt(w, a.op, a.vertex, job[w].vertex)
      BY <2>3, Zenon DEF Starts, CurrentAttempt
    <3>2. a.op \in Operations
      BY <3>1, Zenon DEF LInv, IInv, TypeOK, JobShape, CallPcs, At
    <3>3. state[ScopeOf[v]] \in AdmissibleStates(a.op)
      BY <3>1, <2>1, LedgerTyped, ZenonT(60) DEF MayStartAttempt, LInv, IInv
    <3> QED BY <2>1, <3>2, <3>3 DEF AdmissibleStates, Ended, Operations
  <2> QED BY <2>2, <2>3, AttemptMoves, ZenonT(60)
<1> QED BY <1>1, <1>2, ZenonT(60)

\* admit_pivot has counted the sealed tries, and no other scope's cancellation takes their brackets.
LEMMA TriesKept ==
  ASSUME LInv, NEW w, Acts(w)
  PROVE  TriesOwn'
<1> SUFFICES ASSUME NEW s \in Scope, state'[s] \in {"pivot-inflight", "pivot-passed", "committed"}, NEW v \in Required(s)
             PROVE  BracketOwner(v)' = v /\ bracket'[KeyOf[v]].state \in {"sealed", "confirmed"}
  BY ZenonT(60) DEF TriesOwn
<1>t. /\ v \in Vertex /\ v \in Try /\ ScopeOf[v] = s /\ KeyOf[v] \in Key /\ bracket[KeyOf[v]] \in Brackets
      /\ None \notin Vertex
  BY LedgerTyped, ZenonT(60) DEF LInv, IInv, Required, Members
<1>1. /\ BracketOwner(v) = v /\ bracket[KeyOf[v]].state \in {"sealed", "confirmed"}
      /\ state[s] # "cancelling"
  <2>1. RowMove(w, s)
    BY RowMoves, ZenonT(60)
  <2>2. CASE state[s] \in {"pivot-inflight", "pivot-passed", "committed"}
    BY <2>2, ZenonT(60) DEF LInv, TriesOwn
  <2>3. CASE PivotAdmissible(s)
    <3>1. state[s] = "open" /\ bracket[KeyOf[v]] = [vertex |-> v, state |-> "sealed"]
      BY <2>3, ZenonT(60) DEF PivotAdmissible, Sealed
    <3> QED BY <3>1 DEF BracketOwner
  <2> QED BY <2>1, <2>2, <2>3 DEF RowMove
<1>2. BracketOwner(v)' = v
  BY <1>1, <1>t, OwnersStay, ZenonT(60) DEF BracketOwner
<1>3. CASE bracket'[KeyOf[v]] = bracket[KeyOf[v]]
  BY <1>1, <1>2, <1>3
<1>4. CASE bracket'[KeyOf[v]] = [bracket[KeyOf[v]] EXCEPT !.state = "confirmed"]
  BY <1>2, <1>4, <1>t, ZenonT(60) DEF Brackets
<1>5. ASSUME NEW u \in Vertex, state[ScopeOf[u]] = "cancelling", KeyOf[u] = KeyOf[v], Sealed(u) PROVE FALSE
  <2>1. bracket[KeyOf[v]] = [vertex |-> u, state |-> "sealed"]
    BY <1>5, Zenon DEF Sealed
  <2>2. BracketOwner(v) = u
    BY <2>1 DEF BracketOwner
  <2> QED BY <1>1, <1>5, <1>t, <2>2, Zenon
<1>6. bracket[KeyOf[v]].vertex # None
  BY <1>1, <1>t DEF BracketOwner
<1>7. \/ bracket'[KeyOf[v]] = bracket[KeyOf[v]]
      \/ bracket'[KeyOf[v]] = [bracket[KeyOf[v]] EXCEPT !.state = "confirmed"]
  BY <1>5, <1>6, <1>t, BracketMoves, Zenon
<1> QED BY <1>3, <1>4, <1>7
-----------------------------------------------------------------------------
(* Where a process stands                                                  *)

\* What a process relies on survives the moves of all others.
LEMMA StandsElsewhere ==
  ASSUME LInv, NEW w, Acts(w), NEW x \in Worker, x # w, job'[x] = job[x]
  PROVE  Stands(x)'
<1>1. Stands(x)
  BY DEF LInv
<1>2. InCall(x, {"inverse"}) => member'[job[x].target] # "none"
  <2>1. InCall(x, {"inverse"}) => job[x].target \in Vertex
    BY DEF LInv, IInv, TypeOK, JobShape, InCall
  <2> QED BY <1>1, <2>1, MemberMoves, ZenonT(60) DEF Stands
<1>3. At(x, "calling") => CurrentAttempt(x) \in attempts'
  <2>1. CurrentAttempt(x).holder = x
    BY ZenonT(60) DEF CurrentAttempt
  <2> QED BY <1>1, <2>1, OthersAttempts, Zenon DEF Stands
<1> QED BY <1>1, <1>2, <1>3, Zenon DEF Stands, At, InCall, InPivot, InConfirm, CurrentAttempt

\* A fresh position relies on nothing.
LEMMA StandsFresh ==
  ASSUME NEW w \in Worker, job'[w].pc \in FreshPcs
  PROVE  Stands(w)'
BY DEF FreshPcs, Stands, At, InCall, CallPcs, InPivot, InConfirm

\* Goto keeps what a call was told and what is left to confirm.
LEMMA GotoRest ==
  ASSUME job \in [Worker -> Jobs], NEW w \in Worker, NEW pc, Goto(w, pc)
  PROVE  job'[w] = [job[w] EXCEPT !.pc = pc] /\ job'[w].res = job[w].res /\ job'[w].todo = job[w].todo
BY DEF Goto, Jobs

\* StartCall keeps what is left to confirm.
LEMMA StartCallRest ==
  ASSUME job \in [Worker -> Jobs], NEW w \in Worker, NEW op, NEW v, StartCall(w, op, v)
  PROVE  job'[w].res = "none" /\ job'[w].todo = job[w].todo
BY DEF StartCall, Jobs

\* A tool call stays at its operation, whatever the tool answers.
LEMMA ExecuteJob ==
  ASSUME job \in [Worker -> Jobs], NEW w \in Worker, Execute(w)
  PROVE  /\ job'[w].pc \in {"answered", "dispatch"} /\ job'[w].op = job[w].op /\ job'[w].scope = job[w].scope
         /\ job'[w].vertex = job[w].vertex /\ job'[w].target = job[w].target /\ job'[w].todo = job[w].todo
<1>1. \/ \E res : Respond(w, res)
      \/ job' = [job EXCEPT ![w].pc = "dispatch", ![w].tries = @ + 1]
  BY Zenon DEF Execute, ToolSucceeds, ToolFails, ToolUnknown, StatusAnswers
<1>2. ASSUME NEW res, Respond(w, res)
      PROVE  /\ job'[w].pc \in {"answered", "dispatch"} /\ job'[w].op = job[w].op /\ job'[w].scope = job[w].scope
             /\ job'[w].vertex = job[w].vertex /\ job'[w].target = job[w].target /\ job'[w].todo = job[w].todo
  BY <1>2 DEF Respond, Jobs
<1>3. CASE job' = [job EXCEPT ![w].pc = "dispatch", ![w].tries = @ + 1]
  BY <1>3 DEF Jobs
<1> QED BY <1>1, <1>2, <1>3

\* A process goes on with the vertex, the list and the member it has.
LEMMA StandsOn ==
  ASSUME LInv, NEW w \in Worker, GoesOn(w), Acts(w)
  PROVE  Stands(w)'
<1>t. TypeOK /\ job \in [Worker -> Jobs] /\ Stands(w)
  BY DEF LInv, IInv, TypeOK
<1>g. ASSUME NEW pc, Goto(w, pc)
      PROVE  /\ job'[w].pc = pc /\ job'[w].op = job[w].op /\ job'[w].scope = job[w].scope
             /\ job'[w].vertex = job[w].vertex /\ job'[w].target = job[w].target /\ job'[w].todo = job[w].todo
  BY <1>g, <1>t, GotoJob, GotoRest, ZenonT(60)
<1>s. ASSUME NEW op, NEW v, StartCall(w, op, v)
      PROVE  /\ job'[w].pc = "dispatch" /\ job'[w].op = op /\ job'[w].scope = job[w].scope
             /\ job'[w].vertex = job[w].vertex /\ job'[w].target = v /\ job'[w].todo = job[w].todo
  <2>1. /\ job'[w].pc = "dispatch" /\ job'[w].op = op /\ job'[w].scope = job[w].scope
        /\ job'[w].vertex = job[w].vertex /\ job'[w].target = v
    BY <1>s, <1>t, StartCallJob, ZenonT(60)
  <2>2. job'[w].todo = job[w].todo
    BY <1>s, <1>t, StartCallRest, ZenonT(60)
  <2> QED BY <2>1, <2>2, Zenon
<1>f. ASSUME job'[w].pc \in {"idle", "refuse", "complete", "release", "fail-absent", "close"} PROVE Stands(w)'
  BY <1>f, ZenonT(60) DEF Stands, At, InCall, CallPcs, InPivot, InConfirm
<1>q. ASSUME Quit(w) PROVE Stands(w)'
  BY <1>q, <1>t, <1>f, QuitJob, ZenonT(60)
<1>c. ASSUME NEW v, StartCall(w, "call", v), v = job[w].vertex, v \notin Pivot PROVE Stands(w)'
  <2>1. job'[w].pc = "dispatch" /\ job'[w].op = "call" /\ job'[w].vertex = v /\ job'[w].target = v
    BY <1>c, <1>s, ZenonT(60)
  <2> QED BY <1>c, <2>1, ZenonT(60) DEF Stands, At, InCall, CallPcs, InPivot, InConfirm
<1>p. ASSUME /\ job'[w].pc \in {"dispatch", "answered", "reopen", "resolve-occurred", "resolve-absent"}
             /\ job'[w].pc \in CallPcs => job'[w].op \in {"pivot", "status"}
             /\ job'[w].vertex \in Pivot /\ job'[w].target = job'[w].vertex
      PROVE  Stands(w)'
  BY <1>p DEF Stands, At, InCall, CallPcs, InPivot, InConfirm
<1>1. CASE EnsureScope(w)
  <2>1. \/ Goto(w, "refuse")
        \/ Goto(w, "admit") /\ job[w].vertex \in Pivot
        \/ Goto(w, "owner") /\ job[w].vertex \in Try
        \/ StartCall(w, "call", job[w].vertex) /\ job[w].vertex \notin Pivot
    BY <1>1, ZenonT(60) DEF EnsureScope
  <2>2. CASE Goto(w, "admit") /\ job[w].vertex \in Pivot
    <3>1. job'[w].pc = "admit" /\ job'[w].vertex = job[w].vertex
      BY <2>2, <1>g, ZenonT(60)
    <3> QED BY <2>2, <3>1, ZenonT(60) DEF Stands, At, InCall, CallPcs, InPivot, InConfirm
  <2>3. CASE Goto(w, "owner") /\ job[w].vertex \in Try
    <3>1. job'[w].pc = "owner" /\ job'[w].vertex = job[w].vertex
      BY <2>3, <1>g
    <3> QED BY <2>3, <3>1 DEF Stands, At, InCall, CallPcs, InPivot, InConfirm
  <2>4. CASE Goto(w, "refuse")
    BY <2>4, <1>g, <1>f
  <2> QED BY <2>1, <2>2, <2>3, <2>4, <1>c
<1>2. CASE CheckOwner(w)
  <2>1. job[w].vertex \in Try /\ job[w].vertex \notin Pivot
    BY <1>2, <1>t, LedgerTyped, Zenon DEF CheckOwner, Stands
  <2>2. Goto(w, "complete") \/ Goto(w, "refuse") \/ StartCall(w, "call", job[w].vertex)
    BY <1>2, Zenon DEF CheckOwner
  <2>3. CASE Goto(w, "complete") \/ Goto(w, "refuse")
    BY <2>3, <1>g, <1>f
  <2> QED BY <2>1, <2>2, <2>3, <1>c
<1>3. CASE RecordAttemptStart(w)
  <2>1. CASE Goto(w, "calling") /\ attempts' = attempts \cup {CurrentAttempt(w)}
    <3>1. /\ job'[w].pc = "calling" /\ job'[w].op = job[w].op /\ job'[w].scope = job[w].scope
          /\ job'[w].vertex = job[w].vertex /\ job'[w].target = job[w].target /\ job'[w].todo = job[w].todo
      BY <2>1, <1>g, ZenonT(60)
    <3>2. CurrentAttempt(w)' = CurrentAttempt(w) /\ CurrentAttempt(w) \in attempts'
      BY <2>1, <3>1 DEF CurrentAttempt
    <3>3. member' = member /\ job[w].pc = "dispatch"
      BY <1>3, Zenon DEF RecordAttemptStart, memberVars, At
    <3> QED BY <3>1, <3>2, <3>3, <1>t, ZenonT(60) DEF Stands, At, InCall, CallPcs, InPivot, InConfirm
  <2> QED BY <1>3, <1>q, <2>1 DEF RecordAttemptStart
<1>4. CASE Execute(w)
  <2>1. member' = member /\ job[w].pc = "calling"
    BY <1>4, Zenon DEF Execute, memberVars, At
  <2>2. /\ job'[w].pc \in {"answered", "dispatch"} /\ job'[w].op = job[w].op /\ job'[w].scope = job[w].scope
        /\ job'[w].vertex = job[w].vertex /\ job'[w].target = job[w].target /\ job'[w].todo = job[w].todo
    BY <1>4, <1>t, ExecuteJob, Zenon
  <2> QED BY <2>1, <2>2, <1>t, Zenon DEF Stands, At, InCall, CallPcs, InPivot, InConfirm
<1>5. CASE AdmitPivot(w)
  <2>1. job[w].vertex \in Pivot
    BY <1>5, <1>t, ZenonT(60) DEF AdmitPivot, Stands
  <2>2. Goto(w, "release") \/ StartCall(w, "pivot", job[w].vertex)
    BY <1>5, ZenonT(60) DEF AdmitPivot
  <2>3. CASE Goto(w, "release")
    BY <2>3, <1>g, <1>f, ZenonT(60)
  <2>4. CASE StartCall(w, "pivot", job[w].vertex)
    BY <2>1, <2>4, <1>s, <1>p
  <2> QED BY <2>2, <2>3, <2>4, ZenonT(60)
<1>6. CASE BranchOnPivot(w)
  <2>1. job[w].vertex \in Pivot /\ job[w].target = job[w].vertex
    BY <1>6, <1>t, Zenon DEF BranchOnPivot, PivotAnswered, StatusAnswered, Stands, InPivot, InCall, CallPcs, At
  <2>2. \/ StartCall(w, "status", job[w].vertex)
        \/ Goto(w, "reopen") \/ Goto(w, "resolve-occurred") \/ Goto(w, "resolve-absent")
    BY <1>6, ZenonT(60) DEF BranchOnPivot
  <2>3. CASE StartCall(w, "status", job[w].vertex)
    BY <2>1, <2>3, <1>s, <1>p, ZenonT(60)
  <2>4. ASSUME NEW pc \in {"reopen", "resolve-occurred", "resolve-absent"}, Goto(w, pc) PROVE Stands(w)'
    <3>1. job'[w].pc = pc /\ job'[w].vertex = job[w].vertex /\ job'[w].target = job[w].target
      BY <2>4, <1>g
    <3> QED BY <2>1, <3>1, <1>p, ZenonT(60) DEF CallPcs
  <2> QED BY <2>2, <2>3, <2>4
<1>7. CASE ResolvePivotAttempt(w)
  <2>1. job[w].vertex \in Pivot /\ job[w].target = job[w].vertex
    BY <1>7, <1>t DEF ResolvePivotAttempt, Stands, InPivot, At
  <2>2. \/ Goto(w, "reopen")
        \/ job' = [job EXCEPT ![w].pc = "answered", ![w].op = "pivot", ![w].res = "succeeded"]
    BY <1>7, ZenonT(60) DEF ResolvePivotAttempt
  <2>3. CASE Goto(w, "reopen")
    <3>1. job'[w].pc = "reopen" /\ job'[w].vertex = job[w].vertex /\ job'[w].target = job[w].target
      BY <2>3, <1>g, ZenonT(60)
    <3> QED BY <2>1, <3>1, <1>p, ZenonT(60) DEF CallPcs
  <2>4. CASE job' = [job EXCEPT ![w].pc = "answered", ![w].op = "pivot", ![w].res = "succeeded"]
    <3>1. /\ job'[w].pc = "answered" /\ job'[w].op = "pivot"
          /\ job'[w].vertex = job[w].vertex /\ job'[w].target = job[w].target
      BY <2>4, <1>t DEF Jobs
    <3> QED BY <2>1, <3>1, <1>p
  <2> QED BY <2>2, <2>3, <2>4
<1>8. CASE ResolvePivotAbsent(w)
  <2>1. Goto(w, "fail-absent") \/ Quit(w)
    BY <1>8, ZenonT(60) DEF ResolvePivotAbsent
  <2>2. CASE Goto(w, "fail-absent")
    BY <2>2, <1>g, <1>f
  <2> QED BY <2>1, <2>2, <1>q
<1>9. CASE PassPivot(w)
  <2>1. CASE job' = [job EXCEPT ![w].pc = "confirm", ![w].todo = SealedIn(job[w].scope) \cap Tcc]
    <3>1. job'[w].pc = "confirm" /\ job'[w].scope = job[w].scope /\ job'[w].todo = SealedIn(job[w].scope) \cap Tcc
      BY <2>1, <1>t DEF Jobs
    <3>2. job'[w].todo \subseteq Tcc \cap Members(job'[w].scope)
      BY <3>1 DEF SealedIn
    <3> QED BY <3>1, <3>2 DEF Stands, At, InCall, CallPcs, InPivot, InConfirm
  <2> QED BY <1>9, <1>q, <2>1, ZenonT(60) DEF PassPivot
<1>10. CASE NextConfirm(w)
  <2>1. job[w].todo \subseteq Tcc \cap Members(job[w].scope)
    BY <1>10, <1>t, Zenon DEF NextConfirm, Stands, InConfirm, At
  <2>2. CASE Goto(w, "commit") /\ job[w].todo = {}
    <3>1. job'[w].pc = "commit" /\ job'[w].scope = job[w].scope /\ job'[w].todo = {}
      BY <2>2, <1>g, ZenonT(60)
    <3> QED BY <3>1, ZenonT(60) DEF Stands, At, InCall, CallPcs, InPivot, InConfirm
  <2>3. ASSUME NEW v \in job[w].todo, StartCall(w, "confirm", v) PROVE Stands(w)'
    <3>1. /\ job'[w].pc = "dispatch" /\ job'[w].op = "confirm" /\ job'[w].scope = job[w].scope
          /\ job'[w].target = v /\ job'[w].todo = job[w].todo
      BY <2>3, <1>s
    <3> QED BY <2>1, <2>3, <3>1, ZenonT(60) DEF Stands, At, InCall, CallPcs, InPivot, InConfirm
  <2> QED BY <1>10, <2>2, <2>3, Zenon DEF NextConfirm
<1>11. CASE RecordConfirmed(w)
  <2>1. CASE job' = [job EXCEPT ![w].pc = "confirm", ![w].todo = @ \ {job[w].target}]
    <3>1. /\ job'[w].pc = "confirm" /\ job'[w].scope = job[w].scope
          /\ job'[w].todo = job[w].todo \ {job[w].target}
      BY <2>1, <1>t DEF Jobs
    <3>2. job[w].todo \subseteq Tcc \cap Members(job[w].scope)
      BY <1>11, <1>t DEF RecordConfirmed, Stands, InConfirm, InCall, CallPcs, At
    <3> QED BY <3>1, <3>2 DEF Stands, At, InCall, CallPcs, InPivot, InConfirm
  <2> QED BY <1>11, <1>q, <2>1, ZenonT(60) DEF RecordConfirmed
<1>12. CASE ClaimCancelMember(w)
  <2>1. CASE Goto(w, "close")
    BY <2>1, <1>g, <1>f, ZenonT(60)
  <2>2. ASSUME NEW v \in ClaimableMembers(job[w].scope), claim_cancel_member(w, v), StartCall(w, "inverse", v)
        PROVE  Stands(w)'
    <3>1. member[v] = "todo" /\ member' = member
      BY <2>2, ZenonT(60) DEF ClaimableMembers, IncompleteMembers, claim_cancel_member
    <3>2. job'[w].pc = "dispatch" /\ job'[w].op = "inverse" /\ job'[w].target = v
      BY <2>2, <1>s
    <3> QED BY <3>1, <3>2, ZenonT(60) DEF Stands, At, InCall, CallPcs, InPivot, InConfirm
  <2> QED BY <1>12, <2>1, <2>2, ZenonT(60) DEF ClaimCancelMember
<1> QED BY <1>1, <1>2, <1>3, <1>4, <1>5, <1>6, <1>7, <1>8, <1>9, <1>10, <1>11, <1>12, ZenonT(60) DEF GoesOn

\* Every process stands where the tables say after every step of the system.
LEMMA StandsKept ==
  ASSUME LInv, [Next]_vars
  PROVE  \A x \in Worker : Stands(x)'
<1>t. TypeOK /\ None \notin Worker
  BY LedgerTyped DEF LInv, IInv
<1>1. ASSUME NEW w \in Worker, Step(w) PROVE \A x \in Worker : Stands(x)'
  <2>1. Acts(w) /\ (\A x \in Worker \ {w} : job'[x] = job[x]) /\ (job'[w].pc \in FreshPcs \/ GoesOn(w))
    BY <1>1, <1>t, StepActs, StepJob
  <2>2. Stands(w)'
    BY <2>1, StandsFresh, StandsOn
  <2>3. ASSUME NEW x \in Worker, x # w PROVE Stands(x)'
    BY <2>1, <2>3, StandsElsewhere
  <2> QED BY <2>2, <2>3
<1>2. ASSUME Around \/ UNCHANGED vars PROVE \A x \in Worker : Stands(x)'
  <2>1. Acts(None) /\ UNCHANGED job
    BY <1>2, AroundActs
  <2> QED BY <2>1, <1>t, StandsElsewhere
<1> QED BY <1>1, <1>2, NextSteps

\* The tables of the ledger agree in every reachable state, and every process stands where they say.
THEOREM LedgerAgrees == Spec => []LInv
<1>1. Init /\ IInv => LInv
  <2> SUFFICES ASSUME Init, IInv PROVE LInv
    OBVIOUS
  <2>1. \A k \in Key : bracket[k].vertex = None /\ bracket[k].state = "none"
    BY DEF Init, StoreInit, NoBracket
  <2>2. /\ \A v \in Vertex : member[v] = "none"
        /\ \A s \in Scope : state[s] = "absent"
        /\ attempts = {}
    BY DEF Init, StoreInit
  <2>3. \A w \in Worker : job[w].pc = "idle"
    BY ZenonT(60) DEF Init, Idle
  <2>4. BracketsOwned /\ MembersOwn /\ CancelledHasNoneLeft /\ AttemptsFit /\ InversesAlone /\ TriesOwn
    BY <2>1, <2>2 DEF BracketsOwned, MembersOwn, CancelledHasNoneLeft, AttemptsFit, InversesAlone, TriesOwn
  <2>5. \A w \in Worker : Stands(w)
    BY <2>3, Zenon DEF Stands, At, InCall, CallPcs, InPivot, InConfirm
  <2> QED BY <2>4, <2>5 DEF LInv
<1>2. LInv /\ IInv' /\ [Next]_vars => LInv'
  <2> SUFFICES ASSUME LInv, IInv', [Next]_vars PROVE LInv'
    OBVIOUS
  <2>1. PICK w \in Worker \cup {None} : Move(w)
    BY NextMoves
  <2>2. BracketsOwned' /\ MembersOwn' /\ CancelledHasNoneLeft' /\ AttemptsFit' /\ InversesAlone' /\ TriesOwn'
    BY <2>1, BracketsKept, MembersKept, NoneLeftKept, AttemptsKept, InversesKept, TriesKept, ZenonT(60) DEF Move
  <2>3. \A x \in Worker : Stands(x)'
    BY StandsKept
  <2> QED BY <2>2, <2>3 DEF LInv
<1> QED BY <1>1, <1>2, Invariant, PTL DEF Spec
=============================================================================
