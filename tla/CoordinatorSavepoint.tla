------------------------ MODULE CoordinatorSavepoint ------------------------
(***************************************************************************)
(* Without faults a cancelled scope has really returned to its savepoint:  *)
(* not only the members of its cancellation are undone, but nothing else   *)
(* that a try of it reserved is left standing.                             *)
(*                                                                         *)
(* Whatever a try's tool holds is known to somebody (HeldKnown): to an     *)
(* attempt without an outcome, which makes request_scope_cancel suspend;   *)
(* to the process that heard the answer, whose lease makes it defer; or to *)
(* a bracket, which makes it a member.  The lease is where faults enter: a *)
(* process that dies with the answer, or outlasts its lease, takes what it *)
(* knows out of the decision's sight.                                      *)
(***************************************************************************)
EXTENDS CoordinatorEffects

\* What a plain call did is in no bracket, so it must not go by the key of a try.
TryKeysApart == \A t \in Try, v \in Vertex \ Try : KeyOf[t] # KeyOf[v]

\* A process that works on a row holds it under a live lease.
HasRow(w) == job[w].pc \in RowPcs \/ InCall(w, Operations \ {"inverse"})

LeaseLives(w) == HasRow(w) => HoldsRow(w, job[w].vertex) /\ job[w].vertex \in leased

\* Before its scope passes or ends, a bracket with an owner is sealed.
Early == {"absent", "open", "pivot-inflight"}

SealedWhileEarly ==
    \A k \in Key : bracket[k].vertex # None /\ state[ScopeOf[bracket[k].vertex]] \in Early =>
        bracket[k].state = "sealed"

\* What a try's tool holds is under way, answered to a process, or in a bracket.
HeldKnown ==
    \A v \in Try : effect[KeyOf[v]] \in Held =>
        \/ \E a \in attempts : KeyOf[a.vertex] = KeyOf[v]
        \/ \E w \in Worker : Heard(w, "call", "succeeded") /\ KeyOf[job[w].vertex] = KeyOf[v]
        \/ BracketOwner(v) # None

\* In a cancelled scope it is in the bracket of a member, unless another scope uses the key.
HeldByMember ==
    \A s \in Scope : state[s] \in {"cancelling", "cancelled"} =>
        \A v \in Required(s) : Local(v) /\ effect[KeyOf[v]] \in Held =>
            BracketOwner(v) # None /\ member[BracketOwner(v)] # "none"

SInv ==
    /\ SealedWhileEarly /\ HeldKnown /\ HeldByMember
    /\ \A w \in Worker : LeaseLives(w)
-----------------------------------------------------------------------------
(* Leases                                                                  *)

\* The row another process works on stays its own, and leased.
LEMMA LeaseElsewhere ==
  ASSUME TypeOK, NEW w \in Worker, Step(w), NEW x \in Worker, x # w, NEW v \in leased, HoldsRow(x, v)
  PROVE  v \in queued' /\ claimed_by'[v] = x /\ v \in leased'
<1>t. claimed_by \in [Vertex -> Worker \cup {None}] /\ v \in Vertex /\ leased \subseteq Vertex
  BY DEF TypeOK, StoreTypeOK
<1>h. v \in queued /\ claimed_by[v] = x
  BY DEF HoldsRow
<1>u. UNCHANGED queueVars => v \in queued' /\ claimed_by'[v] = x /\ v \in leased'
  BY <1>h DEF queueVars
<1>1. CASE Claim(w)
  <2>1. PICK u \in Vertex : Claimable(u) /\ claim_ready_work(w, u)
    BY <1>1, ZenonT(60) DEF Claim
  <2>2. u # v
    BY <2>1, ZenonT(60) DEF Claimable
  <2> QED BY <1>h, <1>t, <2>1, <2>2, ZenonT(60) DEF claim_ready_work
<1>2. CASE CompleteWork(w)
  <2>1. CASE HoldsRow(w, job[w].vertex) /\ DropRows({job[w].vertex})
    BY <1>h, <1>t, <2>1, ZenonT(60) DEF DropRows, HoldsRow
  <2> QED BY <1>2, <1>u, <2>1, ZenonT(60) DEF CompleteWork
<1>3. CASE ReleaseWork(w)
  <2>1. CASE HoldsRow(w, job[w].vertex) /\ release_work(job[w].vertex)
    BY <1>h, <1>t, <2>1 DEF release_work, HoldsRow
  <2> QED BY <1>3, <1>u, <2>1, ZenonT(60) DEF ReleaseWork
<1>4. CASE RequestScopeCancel(w)
  <2>1. CASE RecordCancelRequested(job[w].scope)
    BY <1>h, <1>t, <2>1, ZenonT(60) DEF RecordCancelRequested, DropRows
  <2> QED BY <1>4, <1>u, <2>1, ZenonT(60) DEF RequestScopeCancel
<1>5. CASE ~(Claim(w) \/ CompleteWork(w) \/ ReleaseWork(w) \/ RequestScopeCancel(w))
  <2>1. CASE \/ PassBarrier(w) \/ EnsureScope(w) \/ CheckOwner(w) \/ RecordTrySuccess(w) \/ RecordPlainSuccess(w)
             \/ RecordFailure(w) \/ RecordAttemptStart(w) \/ Execute(w) \/ AdmitPivot(w) \/ BranchOnPivot(w)
             \/ ResolvePivotAttempt(w) \/ ResolvePivotAbsent(w) \/ FailAbsentPivot(w) \/ SuspendPivot(w) \/ PassPivot(w)
    BY <2>1, <1>u, ZenonT(60) DEF PassBarrier, EnsureScope, CheckOwner, RecordTrySuccess, RecordPlainSuccess, RecordFailure, RecordAttemptStart, Execute, AdmitPivot, BranchOnPivot, ResolvePivotAttempt, ResolvePivotAbsent, FailAbsentPivot, SuspendPivot, PassPivot, storeVars
  <2>2. CASE \/ NextConfirm(w) \/ RecordConfirmed(w) \/ SuspendConfirm(w) \/ CommitScope(w) \/ ClaimCancelMember(w)
             \/ CompleteCancelMember(w) \/ SuspendCancel(w) \/ CompleteScopeCancel(w) \/ Crash(w)
             \/ \E s \in Scope : PickRequest(w, s) \/ PickExpired(w, s) \/ PickStuck(w, s)
    BY <2>2, <1>u, ZenonT(60) DEF NextConfirm, RecordConfirmed, SuspendConfirm, CommitScope, ClaimCancelMember, CompleteCancelMember, SuspendCancel, CompleteScopeCancel, Crash, PickRequest, PickExpired, PickStuck, storeVars
  <2> QED BY <1>5, <2>1, <2>2, ZenonT(60) DEF Step, Handler
<1> QED BY <1>1, <1>2, <1>3, <1>4, <1>5, ZenonT(60)

\* A process that still has a row had the same one before, untouched, or claims it now.
LEMMA LeaseOn ==
  ASSUME TypeOK, NEW w \in Worker, Step(w), HasRow(w)'
  PROVE  \/ HasRow(w) /\ job'[w].vertex = job[w].vertex /\ UNCHANGED queueVars
         \/ job'[w].vertex \in queued' /\ claimed_by'[job'[w].vertex] = w /\ job'[w].vertex \in leased'
<1>j. job \in [Worker -> Jobs]
  BY DEF TypeOK
<1>q. ~Quit(w)
  BY <1>j, QuitJob DEF HasRow, RowPcs, InCall, CallPcs
<1>g. ASSUME NEW pc, Goto(w, pc) PROVE job'[w].vertex = job[w].vertex /\ job'[w].op = job[w].op /\ job'[w].pc = pc
  BY <1>g, <1>j, GotoJob
<1>s. ASSUME NEW op, NEW v, StartCall(w, op, v) PROVE job'[w].vertex = job[w].vertex /\ job'[w].op = op /\ job'[w].pc = "dispatch"
  BY <1>s, <1>j, StartCallJob
<1>1. CASE Claim(w)
  <2>1. PICK v \in Vertex : /\ Claimable(v) /\ claim_ready_work(w, v)
                            /\ job' = [job EXCEPT ![w] = [Idle EXCEPT !.pc = "claimed", !.vertex = v, !.scope = ScopeOf[v]]]
    BY <1>1, Zenon DEF Claim
  <2>2. job'[w].vertex = v
    BY <2>1, <1>j DEF Idle
  <2>3. v \in queued' /\ v \in leased' /\ claimed_by'[v] = w
    BY <2>1 DEF claim_ready_work, Claimable, TypeOK, StoreTypeOK
  <2> QED BY <2>2, <2>3
<1>2. CASE PassBarrier(w) \/ EnsureScope(w)
  <2>1. job[w].pc = "claimed" /\ UNCHANGED queueVars
    BY <1>2, Zenon DEF PassBarrier, EnsureScope, At
  <2>2. job'[w].vertex = job[w].vertex
    BY <1>2, <1>g, <1>s, ZenonT(60) DEF PassBarrier, EnsureScope
  <2> QED BY <2>1, <2>2 DEF HasRow, RowPcs
<1>3. CASE CheckOwner(w) \/ FailAbsentPivot(w) \/ AdmitPivot(w) \/ NextConfirm(w) \/ CommitScope(w)
  <2>1. job[w].pc \in {"owner", "fail-absent", "admit", "confirm", "commit"} /\ UNCHANGED queueVars
    BY <1>3, Zenon DEF CheckOwner, FailAbsentPivot, AdmitPivot, NextConfirm, CommitScope, At, storeVars
  <2>2. job'[w].vertex = job[w].vertex
    BY <1>3, <1>g, <1>s, ZenonT(60) DEF CheckOwner, FailAbsentPivot, AdmitPivot, NextConfirm, CommitScope
  <2> QED BY <2>1, <2>2 DEF HasRow, RowPcs
<1>4. CASE RecordTrySuccess(w) \/ RecordPlainSuccess(w) \/ RecordFailure(w) \/ SuspendConfirm(w)
  <2>1. (At(w, "refuse") \/ (At(w, "answered") /\ job[w].op \in {"call", "confirm"})) /\ UNCHANGED queueVars
    BY <1>4, Zenon DEF RecordTrySuccess, RecordPlainSuccess, RecordFailure, SuspendConfirm
  <2>2. job'[w].vertex = job[w].vertex
    BY <1>4, <1>g, Zenon DEF RecordTrySuccess, RecordPlainSuccess, RecordFailure, SuspendConfirm
  <2> QED BY <2>1, <2>2 DEF HasRow, RowPcs, InCall, CallPcs, Operations, At
<1>5. CASE BranchOnPivot(w) \/ SuspendPivot(w)
  <2>1. At(w, "answered") /\ job[w].op \in {"pivot", "status"} /\ UNCHANGED queueVars
    BY <1>5, Zenon DEF BranchOnPivot, SuspendPivot, PivotAnswered, StatusAnswered, storeVars
  <2>2. job'[w].vertex = job[w].vertex
    BY <1>5, <1>g, <1>s, ZenonT(60) DEF BranchOnPivot, SuspendPivot
  <2> QED BY <2>1, <2>2 DEF HasRow, InCall, CallPcs, Operations, At
<1>6. CASE RecordAttemptStart(w)
  <2>1. Goto(w, "calling") /\ At(w, "dispatch") /\ UNCHANGED queueVars
    BY <1>6, <1>q, ZenonT(60) DEF RecordAttemptStart
  <2> QED BY <2>1, <1>g DEF HasRow, RowPcs, InCall, CallPcs, At
<1>7. CASE Execute(w)
  <2>1. At(w, "calling") /\ UNCHANGED queueVars
    BY <1>7, Zenon DEF Execute
  <2>2. job'[w].pc \in {"answered", "dispatch"} /\ job'[w].op = job[w].op /\ job'[w].vertex = job[w].vertex
    BY <1>7, <1>j, ExecuteJob
  <2> QED BY <2>1, <2>2 DEF HasRow, RowPcs, InCall, CallPcs, At
<1>8. CASE ResolvePivotAttempt(w) \/ ResolvePivotAbsent(w)
  <2>1. job[w].pc \in {"resolve-occurred", "resolve-absent", "reopen"} /\ UNCHANGED queueVars
    BY <1>8, Zenon DEF ResolvePivotAttempt, ResolvePivotAbsent, At
  <2>2. job'[w].vertex = job[w].vertex
    <3>1. CASE job' = [job EXCEPT ![w].pc = "answered", ![w].op = "pivot", ![w].res = "succeeded"]
      BY <3>1, <1>j DEF Jobs
    <3> QED BY <1>8, <1>g, <1>q, <3>1, ZenonT(60) DEF ResolvePivotAttempt, ResolvePivotAbsent
  <2> QED BY <2>1, <2>2 DEF HasRow, RowPcs
<1>9. CASE PassPivot(w) \/ RecordConfirmed(w)
  <2>1. At(w, "answered") /\ job[w].op \in {"pivot", "confirm"} /\ UNCHANGED queueVars
    BY <1>9, Zenon DEF PassPivot, PivotAnswered, RecordConfirmed
  <2>2. \E T : job' = [job EXCEPT ![w].pc = "confirm", ![w].todo = T]
    BY <1>9, <1>q, ZenonT(60) DEF PassPivot, RecordConfirmed
  <2>3. job'[w].vertex = job[w].vertex
    BY <2>2, <1>j DEF Jobs
  <2> QED BY <2>1, <2>3 DEF HasRow, InCall, CallPcs, Operations, At
<1>10. CASE ClaimCancelMember(w) \/ CompleteCancelMember(w) \/ RequestScopeCancel(w)
  <2>1. Goto(w, "cancel") \/ Goto(w, "close") \/ \E v : StartCall(w, "inverse", v)
    BY <1>10, <1>q, ZenonT(60) DEF ClaimCancelMember, CompleteCancelMember, RequestScopeCancel
  <2> QED BY <2>1, <1>g, <1>s DEF HasRow, RowPcs, InCall, CallPcs
<1>11. CASE \E s \in Scope : PickRequest(w, s) \/ PickExpired(w, s) \/ PickStuck(w, s)
  <2>1. \E s \in Scope, pc \in {"decide-engine", "decide-timeout", "cancel"} : job' = [job EXCEPT ![w].pc = pc, ![w].scope = s]
    BY <1>11, Zenon DEF PickRequest, PickExpired, PickStuck
  <2>2. job'[w].pc \in {"decide-engine", "decide-timeout", "cancel"}
    BY <2>1, <1>j DEF Jobs
  <2> QED BY <2>2 DEF HasRow, RowPcs, InCall, CallPcs
<1>12. CASE CompleteWork(w) \/ ReleaseWork(w) \/ SuspendCancel(w) \/ CompleteScopeCancel(w) \/ Crash(w)
  BY <1>12, <1>q, Zenon DEF CompleteWork, ReleaseWork, SuspendCancel, CompleteScopeCancel, Crash
<1> QED BY <1>1, <1>2, <1>3, <1>4, <1>5, <1>6, <1>7, <1>8, <1>9, <1>10, <1>11, <1>12, ZenonT(60) DEF Step, Handler

\* Without faults no lease runs out under the process that works on its row.
LEMMA LeasesKept ==
  ASSUME MaxFaults = 0, TypeOK, \A x \in Worker : LeaseLives(x), [Next]_vars
  PROVE  \A x \in Worker : LeaseLives(x)'
<1>j. job \in [Worker -> Jobs] /\ faults = 0
  BY DEF TypeOK
<1>1. ASSUME NEW w \in Worker, Step(w), NEW x \in Worker PROVE LeaseLives(x)'
  <2>1. CASE x = w
    <3> SUFFICES ASSUME HasRow(w)' PROVE job'[w].vertex \in queued' /\ claimed_by'[job'[w].vertex] = w /\ job'[w].vertex \in leased'
      BY <2>1 DEF LeaseLives, HoldsRow
    <3> QED BY <1>1, LeaseOn DEF LeaseLives, HoldsRow, queueVars
  <2>2. CASE x # w
    <3>1. job'[x] = job[x]
      BY <1>1, <2>2, StepJob
    <3>2. HasRow(x)' = HasRow(x)
      BY <3>1 DEF HasRow, InCall
    <3>3. HasRow(x) => job[x].vertex \in queued' /\ claimed_by'[job[x].vertex] = x /\ job[x].vertex \in leased'
      BY <1>1, <2>2, LeaseElsewhere DEF LeaseLives
    <3> QED BY <3>1, <3>2, <3>3 DEF LeaseLives, HoldsRow
  <2> QED BY <2>1, <2>2
<1>2. ASSUME Around \/ UNCHANGED vars, NEW x \in Worker PROVE LeaseLives(x)'
  <2>1. job' = job
    BY <1>2, AroundJob DEF vars
  <2>2. UNCHANGED <<queued, claimed_by>>
    BY <1>2, Zenon DEF Around, DeadLeaseExpires, DeadMemberLeaseExpires, LeaseOverrun, DeadlinePasses, EffectLands, EngineRequest, vars, storeVars, queueVars
  <2>3. leased' = leased \/ \E v \in Vertex : DeadLeaseExpires(v)
    <3>1. ASSUME NEW v \in Vertex, LeaseOverrun(v) PROVE FALSE
      BY <3>1, <1>j DEF LeaseOverrun
    <3> QED BY <1>2, <3>1, Zenon DEF Around, DeadMemberLeaseExpires, DeadlinePasses, EffectLands, EngineRequest, vars, storeVars, queueVars
  <2> SUFFICES ASSUME HasRow(x), HoldsRow(x, job[x].vertex), job[x].vertex \in leased
               PROVE  job[x].vertex \in leased'
    BY <2>1, <2>2 DEF LeaseLives, HasRow, InCall, HoldsRow
  <2>4. ASSUME NEW v \in Vertex, DeadLeaseExpires(v) PROVE job[x].vertex \in leased'
    <3>1. AtWork(job[x].vertex)
      BY DEF AtWork, HoldsRow
    <3> QED BY <2>4, <3>1 DEF DeadLeaseExpires
  <2> QED BY <2>3, <2>4
<1> QED BY <1>1, <1>2, NextSteps
-----------------------------------------------------------------------------
(* Brackets                                                                *)

\* Confirms come after the pivot and cancellations end the scope; a reopened scope was in flight.
LEMMA SealedKept ==
  ASSUME LInv, SealedWhileEarly, NEW w, Acts(w)
  PROVE  SealedWhileEarly'
<1> SUFFICES ASSUME NEW k \in Key, bracket'[k].vertex # None, state'[ScopeOf[bracket'[k].vertex]] \in Early
             PROVE  bracket'[k].state = "sealed"
  BY DEF SealedWhileEarly
<1>t. /\ bracket[k] \in Brackets /\ state \in [Scope -> States]
      /\ \A v \in Try : ScopeOf[v] \in Scope
  BY LedgerTyped DEF LInv, IInv
<1>o. bracket[k].vertex # None => bracket[k].vertex \in Try
  BY DEF LInv, BracketsOwned
<1>r. ASSUME bracket[k].vertex # None, bracket'[k].vertex = bracket[k].vertex
      PROVE  state[ScopeOf[bracket[k].vertex]] \in Early
  <2>1. RowMove(w, ScopeOf[bracket[k].vertex])
    BY <1>r, <1>o, <1>t, RowMoves, ZenonT(60)
  <2> QED BY <1>r, <2>1, ZenonT(60) DEF RowMove, Early, PivotAdmissible
<1>1. CASE bracket'[k] = bracket[k]
  BY <1>1, <1>r DEF SealedWhileEarly
<1>2. CASE ConfirmsTry(w) /\ k = KeyOf[job[w].target] /\ bracket'[k] = [bracket[k] EXCEPT !.state = "confirmed"]
  <2>0. bracket'[k].vertex = bracket[k].vertex
    BY <1>2, <1>t, ZenonT(60) DEF Brackets
  <2>1. w \in Worker /\ InConfirm(w) /\ InCall(w, {"confirm"}) /\ bracket[k].vertex = job[w].target
    BY <1>2 DEF ConfirmsTry, Sealed, At, InConfirm, InCall, CallPcs
  <2>2. job[w].target \in Members(job[w].scope) /\ state[job[w].scope] = "pivot-passed"
    BY <2>1 DEF LInv, IInv, Stands, PivotHasScopeAlone
  <2>3. ScopeOf[bracket[k].vertex] = job[w].scope
    BY <2>1, <2>2 DEF Members
  <2> QED BY <1>r, <2>0, <2>1, <2>2, <2>3, ZenonT(60) DEF Early
<1>3. CASE \E v \in Vertex : /\ ScopeOf[v] \in Scope /\ state[ScopeOf[v]] = "cancelling" /\ KeyOf[v] = k /\ Sealed(v)
                             /\ bracket'[k] = [bracket[k] EXCEPT !.state = "cancelled"]
  <2>1. PICK v \in Vertex : /\ state[ScopeOf[v]] = "cancelling" /\ KeyOf[v] = k /\ Sealed(v)
                            /\ bracket'[k] = [bracket[k] EXCEPT !.state = "cancelled"]
    BY <1>3
  <2>2. bracket'[k].vertex = bracket[k].vertex /\ bracket[k].vertex = v
    BY <2>1, <1>t DEF Brackets, Sealed
  <2> QED BY <1>r, <2>1, <2>2 DEF Early
<1>4. CASE bracket'[k] = [vertex |-> job[w].vertex, state |-> "sealed"]
  BY <1>4
<1>5. \/ bracket'[k] = bracket[k]
      \/ bracket'[k] = [vertex |-> job[w].vertex, state |-> "sealed"]
      \/ ConfirmsTry(w) /\ k = KeyOf[job[w].target] /\ bracket'[k] = [bracket[k] EXCEPT !.state = "confirmed"]
      \/ \E v \in Vertex : /\ ScopeOf[v] \in Scope /\ state[ScopeOf[v]] = "cancelling" /\ KeyOf[v] = k /\ Sealed(v)
                           /\ bracket'[k] = [bracket[k] EXCEPT !.state = "cancelled"]
  BY BracketMoves
<1> QED BY <1>1, <1>2, <1>3, <1>4, <1>5, Zenon
-----------------------------------------------------------------------------
(* Who knows of what is held                                               *)

\* Only a process that has its answer, or the denial of a pivot, takes an attempt away.
LEMMA AttemptsRemain ==
  ASSUME LInv, NEW w \in Worker, Step(w), NEW a \in attempts
  PROVE  \/ \E b \in attempts' : b.vertex = a.vertex
         \/ a.op = "pivot"
         \/ a = CurrentAttempt(w) /\ Execute(w) /\ Resolved(w)
<1>t. a \in Attempts
  BY LedgerTyped DEF LInv, IInv
<1>k. attempts \subseteq attempts' => \E b \in attempts' : b.vertex = a.vertex
  OBVIOUS
<1>q. Quit(w) => \E b \in attempts' : b.vertex = a.vertex
  <2>1. [a EXCEPT !.holder = IF @ = w THEN None ELSE @].vertex = a.vertex
    BY <1>t DEF Attempts
  <2> QED BY <2>1, Zenon DEF Quit, Forget
<1>1. CASE ResolvePivotAttempt(w)
  BY <1>1 DEF ResolvePivotAttempt
<1>2. CASE Execute(w)
  BY <1>2, <1>k, Zenon DEF Execute, ToolSucceeds, ToolFails, ToolUnknown, StatusAnswers, Resolved
<1>3. CASE RecordAttemptStart(w)
  BY <1>3, <1>k, <1>q DEF RecordAttemptStart
<1>4. CASE \/ Claim(w) \/ PassBarrier(w) \/ EnsureScope(w) \/ CheckOwner(w) \/ RecordTrySuccess(w) \/ RecordPlainSuccess(w)
           \/ RecordFailure(w) \/ CompleteWork(w) \/ AdmitPivot(w) \/ ReleaseWork(w) \/ BranchOnPivot(w)
           \/ ResolvePivotAbsent(w) \/ FailAbsentPivot(w) \/ SuspendPivot(w) \/ PassPivot(w)
  <2>1. attempts' = attempts \/ Quit(w)
    BY <1>4, ZenonT(60) DEF Claim, PassBarrier, EnsureScope, CheckOwner, RecordTrySuccess, RecordPlainSuccess, RecordFailure, CompleteWork, AdmitPivot, ReleaseWork, BranchOnPivot, ResolvePivotAbsent, FailAbsentPivot, SuspendPivot, PassPivot, storeVars
  <2> QED BY <2>1, <1>k, <1>q
<1>5. CASE \/ NextConfirm(w) \/ RecordConfirmed(w) \/ SuspendConfirm(w) \/ CommitScope(w) \/ RequestScopeCancel(w)
           \/ ClaimCancelMember(w) \/ CompleteCancelMember(w) \/ SuspendCancel(w) \/ CompleteScopeCancel(w) \/ Crash(w)
           \/ \E s \in Scope : PickRequest(w, s) \/ PickExpired(w, s) \/ PickStuck(w, s)
  <2>1. attempts' = attempts \/ Quit(w)
    BY <1>5, Zenon DEF NextConfirm, RecordConfirmed, SuspendConfirm, CommitScope, RequestScopeCancel, ClaimCancelMember, CompleteCancelMember, SuspendCancel, CompleteScopeCancel, Crash, PickRequest, PickExpired, PickStuck, storeVars
  <2> QED BY <2>1, <1>k, <1>q
<1> QED BY <1>1, <1>2, <1>3, <1>4, <1>5, ZenonT(60) DEF Step, Handler

\* A process that heard of a success records it, unless it dies.
LEMMA HeardIsRecorded ==
  ASSUME MaxFaults = 0, TypeOK, NEW w \in Worker, Step(w), Heard(w, "call", "succeeded")
  PROVE  RecordTrySuccess(w) \/ RecordPlainSuccess(w)
<1>f. ~Crash(w)
  BY DEF Crash, TypeOK
<1>1. ~(\/ Claim(w) \/ PassBarrier(w) \/ EnsureScope(w) \/ CheckOwner(w) \/ RecordFailure(w) \/ CompleteWork(w)
        \/ RecordAttemptStart(w) \/ Execute(w) \/ AdmitPivot(w) \/ ReleaseWork(w) \/ BranchOnPivot(w)
        \/ ResolvePivotAttempt(w) \/ ResolvePivotAbsent(w) \/ FailAbsentPivot(w))
  BY Zenon DEF Heard, At, Claim, PassBarrier, EnsureScope, CheckOwner, RecordFailure, CompleteWork, RecordAttemptStart, Execute, AdmitPivot, ReleaseWork, BranchOnPivot, ResolvePivotAttempt, ResolvePivotAbsent, FailAbsentPivot, PivotAnswered, StatusAnswered
<1>2. ~(\/ SuspendPivot(w) \/ PassPivot(w) \/ NextConfirm(w) \/ RecordConfirmed(w) \/ SuspendConfirm(w) \/ CommitScope(w)
        \/ RequestScopeCancel(w) \/ ClaimCancelMember(w) \/ CompleteCancelMember(w) \/ SuspendCancel(w)
        \/ CompleteScopeCancel(w) \/ \E s \in Scope : PickRequest(w, s) \/ PickExpired(w, s) \/ PickStuck(w, s))
  BY Zenon DEF Heard, At, SuspendPivot, PassPivot, NextConfirm, RecordConfirmed, SuspendConfirm, CommitScope, RequestScopeCancel, ClaimCancelMember, CompleteCancelMember, SuspendCancel, CompleteScopeCancel, PickRequest, PickExpired, PickStuck, PivotAnswered, StatusAnswered
<1> QED BY <1>f, <1>1, <1>2, ZenonT(60) DEF Step, Handler

\* Before a try has a bracket, only calls of tries concern its key.
LEMMA OnlyCalls ==
  ASSUME LInv, TryKeysApart, NEW v \in Try, BracketOwner(v) = None, NEW a \in attempts, KeyOf[a.vertex] = KeyOf[v]
  PROVE  a.op = "call" /\ a.vertex \in Try
<1>t. /\ a.vertex \in Vertex /\ a.op \in Operations /\ None \notin Vertex
      /\ \A u \in Try : u \notin Pivot
  BY LedgerTyped DEF LInv, IInv, Attempts
<1>1. a.vertex \in Try
  BY <1>t DEF TryKeysApart
<1>2. BracketOwner(a.vertex) = None
  BY DEF BracketOwner
<1>3. a.op # "confirm" /\ a.op # "inverse"
  BY <1>t, <1>2 DEF LInv, AttemptsFit, MembersOwn
<1>4. a.op # "pivot" /\ a.op # "status"
  BY <1>t, <1>1, ZenonT(60) DEF LInv, AttemptsFit
<1> QED BY <1>t, <1>1, <1>3, <1>4, ZenonT(60) DEF Operations

\* An effect comes with its attempt; the attempt ends with an answer, and the answer in a bracket.
LEMMA HeldKept ==
  ASSUME MaxFaults = 0, TryKeysApart, LInv, HeldKnown, [Next]_vars
  PROVE  HeldKnown'
<1> SUFFICES ASSUME NEW v \in Try, effect'[KeyOf[v]] \in Held, ~(BracketOwner(v) # None)'
             PROVE  \/ \E a \in attempts' : KeyOf[a.vertex] = KeyOf[v]
                    \/ \E w \in Worker : Heard(w, "call", "succeeded")' /\ KeyOf[job'[w].vertex] = KeyOf[v]
  BY DEF HeldKnown
<1> DEFINE k == KeyOf[v]
<1>t. /\ TypeOK /\ k \in Key /\ effect \in [Key -> Effects] /\ job \in [Worker -> Jobs] /\ None \notin Vertex
      /\ Try \subseteq Vertex
  BY LedgerTyped DEF LInv, IInv
<1>a. ASSUME NEW w, Acts(w)
      PROVE  /\ BracketOwner(v) = None
             /\ \/ \E a \in attempts : KeyOf[a.vertex] = k
                \/ \E x \in Worker : Heard(x, "call", "succeeded") /\ KeyOf[job[x].vertex] = k
  <2>1. BracketOwner(v) = None
    BY <1>a, <1>t, OwnersStay DEF BracketOwner
  <2>2. EffectMove(w, k)
    BY <1>a, <1>t, EffectMoves
  <2>3. CASE effect[k] \in Held
    BY <2>1, <2>3 DEF HeldKnown
  <2>4. CASE effect[k] \notin Held
    <3>1. effect'[k] # effect[k] /\ effect'[k] # "void"
      BY <2>4 DEF Held
    <3> QED BY <2>1, <2>2, <3>1, Zenon DEF EffectMove
  <2> QED BY <2>1, <2>3, <2>4, ZenonT(60)
<1>1. ASSUME NEW w \in Worker, Step(w)
      PROVE  \/ \E a \in attempts' : KeyOf[a.vertex] = k
             \/ \E x \in Worker : Heard(x, "call", "succeeded")' /\ KeyOf[job'[x].vertex] = k
  <2>1. Acts(w) /\ \A x \in Worker \ {w} : job'[x] = job[x]
    BY <1>1, <1>t, StepActs, StepJob, ZenonT(60)
  <2>2. BracketOwner(v) = None
    BY <2>1, <1>a
  <2>3. ASSUME NEW a \in attempts, KeyOf[a.vertex] = k, ~\E b \in attempts' : KeyOf[b.vertex] = k
        PROVE  Heard(w, "call", "succeeded")' /\ KeyOf[job'[w].vertex] = k
    <3>1. a.op = "call"
      BY <2>2, <2>3, OnlyCalls, ZenonT(60)
    <3>2. a = CurrentAttempt(w) /\ Execute(w) /\ Resolved(w)
      BY <1>1, <2>3, <3>1, AttemptsRemain, ZenonT(60)
    <3>3. job[w].op = "call" /\ KeyOf[job[w].target] = k /\ job[w].pc = "calling"
      BY <2>3, <3>1, <3>2, ZenonT(60) DEF CurrentAttempt, Execute, At
    <3>4. job[w].target = job[w].vertex
      BY <3>3, ZenonT(60) DEF LInv, Stands, InCall, CallPcs
    <3>5. job'[w].op = "call" /\ KeyOf[job'[w].vertex] = k
      BY <3>2, <3>3, <3>4, <1>t, ExecuteJob, ZenonT(60)
    <3>6. ~MayFail("call", effect[k]) \/ effect'[k] # effect[k]
      BY ZenonT(60) DEF MayFail, Held
    <3>7. job'[w].res # "unknown"
      <4>1. ToolUnknown(w) => CurrentAttempt(w) \in attempts'
        BY <2>3, <3>2 DEF ToolUnknown
      <4>2. ~ToolUnknown(w)
        BY <2>3, <3>2, <4>1
      <4>3. \A res : Respond(w, res) => job'[w].res = res
        BY <1>t DEF Respond, Jobs
      <4>4. ASSUME ToolFails(w) PROVE FALSE
        BY <3>3, <3>6, <4>4, ZenonT(60) DEF ToolFails
      <4>5. ToolSucceeds(w)
        BY <3>2, <3>3, <4>2, <4>4, ZenonT(60) DEF Execute, StatusAnswers
      <4> QED BY <4>3, <4>5, ZenonT(60) DEF ToolSucceeds
    <3>8. job'[w].pc = "answered" /\ job'[w].res = "succeeded"
      BY <3>2, <3>3, <3>6, <3>7, <1>t, ExecuteTells, ZenonT(60)
    <3> QED BY <3>5, <3>8 DEF Heard, At
  <2>4. ASSUME NEW x \in Worker, Heard(x, "call", "succeeded"), KeyOf[job[x].vertex] = k
        PROVE  Heard(x, "call", "succeeded")' /\ KeyOf[job'[x].vertex] = k
    <3>1. CASE x # w
      BY <2>1, <2>4, <3>1, ZenonT(60) DEF Heard, At
    <3>2. CASE x = w
      <4>1. job[w].vertex \in Vertex
        BY <2>4, <3>2, <1>t, ZenonT(60) DEF TypeOK, JobShape, InCall, CallPcs, Operations, Heard, At
      <4>2. job[w].vertex \in Try
        BY <2>4, <3>2, <4>1, ZenonT(60) DEF TryKeysApart
      <4>3. RecordTrySuccess(w)
        BY <1>1, <1>t, <2>4, <3>2, <4>2, HeardIsRecorded, ZenonT(60) DEF RecordPlainSuccess
      <4>4. bracket'[k].vertex = job[w].vertex
        <5>1. KeyOf[job[w].vertex] = k /\ bracket \in [Key -> Brackets]
          BY <2>4, <3>2, <1>t, ZenonT(60) DEF TypeOK, StoreTypeOK
        <5>2. BracketOwner(job[w].vertex) = None
          BY <2>2, <5>1 DEF BracketOwner
        <5>3. bracket' = [bracket EXCEPT ![k] = [vertex |-> job[w].vertex, state |-> "sealed"]]
          BY <4>3, <5>1, <5>2, ZenonT(60) DEF RecordTrySuccess, RecordTry
        <5> QED BY <5>1, <5>3, <1>t, ZenonT(60)
      <4> QED BY <4>1, <4>4, <1>t DEF BracketOwner
    <3> QED BY <3>1, <3>2
  <2> QED BY <2>1, <1>a, <2>3, <2>4, ZenonT(60)
<1>2. ASSUME Around \/ UNCHANGED vars
      PROVE  \/ \E a \in attempts' : KeyOf[a.vertex] = k
             \/ \E x \in Worker : Heard(x, "call", "succeeded")' /\ KeyOf[job'[x].vertex] = k
  <2>1. Acts(None) /\ UNCHANGED job
    BY <1>2, AroundActs
  <2>2. attempts' = attempts
    BY <1>2, ZenonT(60) DEF Around, DeadLeaseExpires, DeadMemberLeaseExpires, LeaseOverrun, DeadlinePasses, EffectLands, EngineRequest, vars, storeVars
  <2> QED BY <1>a, <2>1, <2>2, ZenonT(60) DEF Heard, At
<1> QED BY <1>1, <1>2, NextSteps, ZenonT(60)
-----------------------------------------------------------------------------
(* The theorem                                                             *)

\* request_scope_cancel finds no lease and no attempt left, so what is held is sealed, and a member;
\* afterwards nothing but inverses reaches the tools of the scope.
LEMMA HeldByMemberKept ==
  ASSUME LInv, SInv, NEW w, Acts(w)
  PROVE  HeldByMember'
<1> SUFFICES ASSUME NEW s \in Scope, state'[s] \in {"cancelling", "cancelled"}, NEW v \in Required(s), Local(v),
                    effect'[KeyOf[v]] \in Held
             PROVE  (BracketOwner(v) # None)' /\ member'[BracketOwner(v)'] # "none"
  BY DEF HeldByMember, Required, Members, Local
<1> DEFINE k == KeyOf[v]
           u == BracketOwner(v)
<1>t. /\ TypeOK /\ v \in Try /\ v \in Vertex /\ ScopeOf[v] = s /\ k \in Key /\ None \notin Vertex /\ Try \subseteq Vertex
      /\ state \in [Scope -> States] /\ attempts \subseteq Attempts /\ bracket \in [Key -> Brackets]
      /\ member \in [Vertex -> {"none", "todo", "done"}]
  BY LedgerTyped, ZenonT(60) DEF LInv, IInv, Required, Members
<1>o. u # None => u \in Try /\ KeyOf[u] = k /\ ScopeOf[u] = s /\ bracket[k].state # "none"
  BY <1>t, ZenonT(60) DEF LInv, BracketsOwned, BracketOwner, Local
<1>1. CASE state[s] \in {"cancelling", "cancelled"}
  <2>1. ASSUME NEW a \in attempts, KeyOf[a.vertex] = k PROVE a.op = "inverse"
    <3>1. ScopeOf[a.vertex] = s
      BY <2>1, <1>t, ZenonT(60) DEF Attempts, Local
    <3> QED BY <1>1, <3>1, ZenonT(60) DEF LInv, IInv, CancelWaitsForEvidence
  <2>2. EffectMove(w, k)
    BY <1>t, EffectMoves, ZenonT(60)
  <2>3. effect[k] \in Held
    BY <2>1, <2>2, ZenonT(60) DEF EffectMove, Held
  <2>4. u # None /\ member[u] # "none"
    BY <1>1, <2>3, ZenonT(60) DEF SInv, HeldByMember
  <2>5. BracketOwner(v)' = u
    BY <2>4, <1>t, OwnersStay, ZenonT(60) DEF BracketOwner
  <2>6. member'[u] # "none"
    BY <2>4, <1>o, <1>t, MemberMoves, ZenonT(60)
  <2> QED BY <2>4, <2>5, <2>6, ZenonT(60)
<1>2. CASE state[s] \notin {"cancelling", "cancelled"}
  <2>1. RowMove(w, s)
    BY RowMoves, ZenonT(60)
  <2>2. state[s] = "open" /\ state'[s] = "cancelling"
    BY <1>2, <2>1 DEF RowMove
  <2>3. Cancels
    <3>1. ~MovesRow(w)
      BY <2>2, <1>t, Zenon DEF MovesRow
    <3>2. ~CompletesCancel(w)
      BY <2>2, <1>t DEF CompletesCancel
    <3> QED BY <2>2, <3>1, <3>2, ZenonT(60) DEF Acts, Stays, Starts, Lands, Denies, SealsTry, ConfirmsTry, CompletesMember
  <2>4. PICK r \in Scope :
          /\ state[r] = "open" /\ Members(r) \cap leased = {} /\ Unresolved(r) = {}
          /\ state' = [state EXCEPT ![r] = "cancelling"]
          /\ member' = [x \in Vertex |-> IF x \in SealedIn(r) /\ member[x] = "none" THEN "todo" ELSE member[x]]
    BY <2>3, ZenonT(60) DEF Cancels
  <2>5. r = s
    BY <2>2, <2>4, <1>t, ZenonT(60)
  <2>6. bracket' = bracket /\ effect' = effect
    BY <2>3, ZenonT(60) DEF Cancels
  <2>7. ~\E a \in attempts : KeyOf[a.vertex] = k
    BY <2>4, <2>5, <1>t, ZenonT(60) DEF Unresolved, Attempts, Local
  <2>8. ASSUME NEW x \in Worker, Heard(x, "call", "succeeded"), KeyOf[job[x].vertex] = k PROVE FALSE
    <3>1. HasRow(x) /\ job[x].vertex \in Vertex
      BY <2>8, <1>t, ZenonT(60) DEF HasRow, TypeOK, JobShape, InCall, CallPcs, Operations, Heard, At
    <3>2. job[x].vertex \in leased
      BY <3>1, ZenonT(60) DEF SInv, LeaseLives
    <3> QED BY <2>4, <2>5, <2>8, <3>1, <3>2, <1>t, ZenonT(60) DEF Members, Local
  <2>9. u # None
    BY <2>6, <2>7, <2>8, <1>t, ZenonT(60) DEF SInv, HeldKnown
  <2>10. bracket[k].state = "sealed"
    BY <2>2, <2>9, <1>o, <1>t, ZenonT(60) DEF SInv, SealedWhileEarly, Early, BracketOwner
  <2>11. bracket[k] = [vertex |-> u, state |-> "sealed"]
    BY <2>10, <1>t, ZenonT(60) DEF Brackets, BracketOwner
  <2>12. u \in SealedIn(s) /\ u \in Vertex
    BY <2>9, <2>11, <1>o, <1>t, ZenonT(60) DEF SealedIn, Members, Sealed
  <2>13. member'[u] # "none"
    BY <2>4, <2>5, <2>12
  <2> QED BY <2>6, <2>9, <2>13, ZenonT(60) DEF BracketOwner
<1> QED BY <1>1, <1>2, ZenonT(60)

\* Without faults, with the keys of pivots and of tries apart from the others, a scope that is
\* cancelled has returned to its savepoint: no try of it still holds anything, unless a vertex of
\* another scope uses its key.
THEOREM SavepointReached ==
  ASSUME MaxFaults = 0, PivotKeysApart, TryKeysApart
  PROVE  Spec => []CancelledReturnsToSavepoint
<1>1. Init => SInv
  <2> SUFFICES ASSUME Init PROVE SInv
    OBVIOUS
  <2>1. /\ \A k \in Key : bracket[k].vertex = None /\ effect[k] = "none"
        /\ \A s \in Scope : state[s] = "absent"
        /\ \A w \in Worker : job[w].pc = "idle"
    BY DEF Init, StoreInit, Idle, NoBracket
  <2>2. \A v \in Try : KeyOf[v] \in Key
    BY ShapeAssumption DEF ShapeAssumption, Try
  <2> QED BY <2>1, <2>2 DEF SInv, SealedWhileEarly, HeldKnown, HeldByMember, Held, LeaseLives, HasRow, RowPcs, InCall, CallPcs
<1>2. LInv /\ SInv /\ [Next]_vars => SInv'
  <2> SUFFICES ASSUME LInv, SInv, [Next]_vars PROVE SInv'
    OBVIOUS
  <2>t. TypeOK
    BY DEF LInv, IInv
  <2>1. PICK w \in Worker \cup {None} : Acts(w)
    BY NextMoves DEF Move
  <2>2. SealedWhileEarly' /\ HeldByMember'
    BY <2>1, SealedKept, HeldByMemberKept DEF SInv
  <2>3. HeldKnown'
    BY HeldKept DEF SInv
  <2>4. \A x \in Worker : LeaseLives(x)'
    BY <2>t, LeasesKept DEF SInv
  <2> QED BY <2>2, <2>3, <2>4 DEF SInv
<1>3. LInv /\ UInv /\ SInv => CancelledReturnsToSavepoint
  <2> SUFFICES ASSUME LInv, UInv, SInv, NEW s \in Scope, state[s] = "cancelled", NEW v \in Required(s),
                      effect[KeyOf[v]] \in Held, ~\E u \in Vertex \ Members(s) : KeyOf[u] = KeyOf[v]
               PROVE  FALSE
    BY DEF CancelledReturnsToSavepoint
  <2>t. v \in Try /\ v \in Vertex /\ ScopeOf[v] = s /\ Try \subseteq Vertex /\ member \in [Vertex -> {"none", "todo", "done"}]
        /\ KeyOf[v] \in Key
    BY LedgerTyped DEF LInv, IInv, Required, Members
  <2>1. Local(v)
    BY <2>t DEF Local, Members
  <2> DEFINE u == BracketOwner(v)
  <2>2. u # None /\ member[u] # "none"
    BY <2>1 DEF SInv, HeldByMember
  <2>3. u \in Vertex /\ KeyOf[u] = KeyOf[v]
    BY <2>2, <2>t DEF LInv, BracketsOwned, BracketOwner
  <2>4. Local(u) /\ ScopeOf[u] = s
    BY <2>1, <2>3, <2>t DEF Local
  <2>5. member[u] = "done"
    BY <2>2, <2>3, <2>4, <2>t DEF LInv, CancelledHasNoneLeft, IncompleteMembers, Members
  <2>6. effect[KeyOf[u]] = "undone"
    BY <2>3, <2>4, <2>5 DEF UInv, DoneIsUndone
  <2> QED BY <2>3, <2>6 DEF Held
<1> QED BY <1>1, <1>2, <1>3, LedgerAgrees, UndoneAgrees, PTL DEF Spec
=============================================================================
