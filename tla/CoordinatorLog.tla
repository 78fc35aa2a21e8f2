--------------------------- MODULE CoordinatorLog ---------------------------
(***************************************************************************)
(* What the Engine folds out of the log is what the scope rows say, for    *)
(* any number of processes, scopes and faults.                             *)
(*                                                                         *)
(* The triggers of db/migrations and scopeCancellations in recovery.ts     *)
(* each decide by themselves what an event means for a scope.  They agree  *)
(* event by event (Tells), with one exception: resolve_pivot_absent moves  *)
(* the row and appends nothing, until the process that called it records   *)
(* the pivot's failure.                                                    *)
(***************************************************************************)
EXTENDS CoordinatorSafety

\* A scope without a row is not mentioned in the log, and not fenced.
Unwritten(s) == state[s] = "absent" => phase[s] = "unmaterialized" /\ s \notin fenced

\* processRegular ensured the row before it looked for the bracket or called the tool; the process
\* that proved a pivot absent has left the scope fenced.
EnsuredFirst(w) ==
    /\ (At(w, "owner") \/ InCall(w, {"call"})) /\ job[w].scope \in Scope
           => state[job[w].scope] # "absent"
    /\ At(w, "fail-absent") => job[w].scope \in fenced

GInv ==
    /\ IInv
    /\ LogShowsScopeRows
    /\ \A s \in Scope : Unwritten(s)
    /\ \A w \in Worker : EnsuredFirst(w)
-----------------------------------------------------------------------------
(* What a step tells of one scope                                          *)

Refences(s) == s \in fenced' <=> s \in fenced

Tells(s) ==
    \/ state'[s] = state[s] /\ phase'[s] = phase[s] /\ pivot'[s] = pivot[s] /\ Refences(s)
    \/ /\ state[s] = "absent" /\ state'[s] = "open" /\ Refences(s)
       /\ phase'[s] = Fold(phase[s], "txn/scope open")
    \/ /\ state[s] # "absent" /\ state'[s] = state[s] /\ pivot'[s] = pivot[s] /\ Refences(s)
       /\ phase'[s] = Fold(phase[s], "txn/try")
    \/ /\ state'[s] = state[s] /\ pivot'[s] = pivot[s]
       /\ (s \in fenced' <=> s \in fenced \/ state[s] = "open")
       /\ \/ phase'[s] = Fold(phase[s], "vertex/failed")
          \/ s \in fenced /\ phase'[s] = Fold(phase[s], "vertex/failed absent")
    \/ /\ state[s] = "open" /\ phase[s] \in {"open", "fenced"}
       /\ state'[s] = "open" /\ s \in fenced' /\ phase'[s] = Fold(phase[s], "replan/cancel-requested")
    \/ /\ PivotAdmissible(s) /\ state'[s] = "pivot-inflight" /\ Refences(s)
       /\ phase'[s] = Fold(phase[s], "vertex/started pivot")
    \/ /\ state[s] = "pivot-inflight" /\ state'[s] = "open" /\ s \in fenced' /\ pivot'[s] = None
       /\ phase'[s] = phase[s]
    \/ /\ state'[s] = phase'[s]
       /\ state'[s] \in {"pivot-passed", "committed", "suspended", "cancelling", "cancelled"}

\* Whatever is told of a scope, its row and its fold agree afterwards as they did before.
LEMMA TellingAgrees ==
  ASSUME TypeOK, FencedNeverPasses, NEW s \in Scope, LogAgrees(s) \/ PivotAbsentGap(s), Unwritten(s), Tells(s)
  PROVE  (LogAgrees(s) \/ PivotAbsentGap(s))' /\ Unwritten(s)'
<1>t. state[s] \in States /\ phase[s] \in Phases
  BY DEF TypeOK, StoreTypeOK
<1> USE DEF LogAgrees, PivotAbsentGap, Unwritten, Refences
<1>1. CASE state'[s] = state[s] /\ phase'[s] = phase[s] /\ pivot'[s] = pivot[s] /\ Refences(s)
  BY <1>1
<1>2. CASE /\ state[s] = "absent" /\ state'[s] = "open" /\ Refences(s)
           /\ phase'[s] = Fold(phase[s], "txn/scope open")
  BY <1>2 DEF Fold
<1>3. CASE /\ state[s] # "absent" /\ state'[s] = state[s] /\ pivot'[s] = pivot[s] /\ Refences(s)
           /\ phase'[s] = Fold(phase[s], "txn/try")
  <2>1. phase[s] # "unmaterialized"
    BY <1>3, <1>t DEF States
  <2> QED BY <1>3, <2>1 DEF Fold
<1>4. CASE /\ state'[s] = state[s] /\ pivot'[s] = pivot[s]
           /\ (s \in fenced' <=> s \in fenced \/ state[s] = "open")
           /\ phase'[s] = Fold(phase[s], "vertex/failed")
  BY <1>4, <1>t DEF Fold, States
<1>5. CASE /\ state'[s] = state[s] /\ pivot'[s] = pivot[s]
           /\ (s \in fenced' <=> s \in fenced \/ state[s] = "open")
           /\ s \in fenced /\ phase'[s] = Fold(phase[s], "vertex/failed absent")
  BY <1>5, <1>t DEF Fold, States, FencedNeverPasses
<1>6. CASE /\ state[s] = "open" /\ phase[s] \in {"open", "fenced"}
           /\ state'[s] = "open" /\ s \in fenced' /\ phase'[s] = Fold(phase[s], "replan/cancel-requested")
  BY <1>6 DEF Fold
<1>7. CASE /\ PivotAdmissible(s) /\ state'[s] = "pivot-inflight" /\ Refences(s)
           /\ phase'[s] = Fold(phase[s], "vertex/started pivot")
  BY <1>7 DEF Fold
<1>8. CASE /\ state[s] = "pivot-inflight" /\ state'[s] = "open" /\ s \in fenced' /\ pivot'[s] = None
           /\ phase'[s] = phase[s]
  BY <1>8
<1>9. CASE /\ state'[s] = phase'[s]
           /\ state'[s] \in {"pivot-passed", "committed", "suspended", "cancelling", "cancelled"}
  BY <1>9
<1> QED BY <1>1, <1>2, <1>3, <1>4, <1>5, <1>6, <1>7, <1>8, <1>9, ZenonT(60) DEF Tells
-----------------------------------------------------------------------------
(* Every step tells what it does                                           *)

\* A step that touches neither the scope rows nor the fold.
LEMMA SilentTells == ASSUME UNCHANGED <<state, fenced, pivot, phase>> PROVE \A s \in Scope : Tells(s)
BY DEF Tells, Refences

\* What a handler does to the rows it tells in the same append.
LEMMA HandlerTells ==
  ASSUME GInv, NEW w \in Worker, Handler(w)
  PROVE  \A s \in Scope : Tells(s)
<1> DEFINE s == job[w].scope
<1> SUFFICES ASSUME NEW t \in Scope PROVE Tells(t)
  BY ZenonT(60)
<1>t. TypeOK /\ ScopeTyped
  BY ZenonT(60) DEF GInv, IInv, TypeOK, StoreTypeOK, ScopeTyped
<1>p. InPivot(w) => s \in Scope /\ s = ScopeOf[job[w].vertex] /\ state[s] = "pivot-inflight"
  BY DEF GInv, IInv, PivotHasScopeAlone, TypeOK, JobShape, InPivot, InCall, RowPcs, Operations
<1>1. CASE \/ PassBarrier(w) \/ CheckOwner(w) \/ RecordPlainSuccess(w) \/ CompleteWork(w)
           \/ RecordAttemptStart(w) \/ Execute(w) \/ ReleaseWork(w) \/ BranchOnPivot(w)
  BY <1>1, SilentTells, Zenon DEF PassBarrier, CheckOwner, RecordPlainSuccess, CompleteWork, RecordAttemptStart, Execute, ReleaseWork, BranchOnPivot, storeVars, scopeVars
<1>2. CASE \/ ResolvePivotAttempt(w) \/ NextConfirm(w) \/ RecordConfirmed(w)
           \/ ClaimCancelMember(w) \/ CompleteCancelMember(w)
  BY <1>2, SilentTells, Zenon DEF ResolvePivotAttempt, NextConfirm, RecordConfirmed, ClaimCancelMember, CompleteCancelMember, storeVars, scopeVars
<1>3. CASE EnsureScope(w)
  <2>1. CASE s \in Scope /\ state[s] = "absent"
    BY <1>3, <2>1, <1>t, ZenonT(60) DEF EnsureScope, ensure_txn_scope, Logged, Tells, Refences, ScopeTyped
  <2>2. CASE ~(s \in Scope /\ state[s] = "absent")
    BY <1>3, <2>2, SilentTells, Zenon DEF EnsureScope, ensure_txn_scope, scopeVars
  <2> QED BY <2>1, <2>2
<1>4. CASE RecordTrySuccess(w)
  <2>1. CASE RecordTry(job[w].vertex)
    <3>1. s = ScopeOf[job[w].vertex] /\ (s \in Scope => state[s] # "absent")
      BY <1>4, <1>t DEF RecordTrySuccess, At, InCall, CallPcs, GInv, EnsuredFirst, TypeOK, JobShape, Operations
    <3> QED BY <2>1, <3>1, <1>t, Zenon DEF RecordTry, Logged, Tells, Refences, ScopeTyped
  <2> QED BY <1>4, <2>1, SilentTells DEF RecordTrySuccess, scopeVars
<1>f. ASSUME NEW v \in Vertex, NEW event \in {"vertex/failed", "vertex/failed absent"}, RecordFailed(v, event),
             event = "vertex/failed absent" => ScopeOf[v] \in fenced
      PROVE  Tells(t)
  <2>0. state' = state /\ pivot' = pivot
    BY <1>f, Zenon DEF RecordFailed
  <2>1. /\ t = ScopeOf[v] => phase'[t] = Fold(phase[t], event)
        /\ t # ScopeOf[v] => phase'[t] = phase[t]
    BY <1>f, Zenon DEF RecordFailed, Logged
  <2>f. t \in fenced' <=> t \in fenced \/ (t = ScopeOf[v] /\ state[t] = "open")
    BY <1>f, Zenon DEF RecordFailed
  <2>2. CASE t = ScopeOf[v]
    BY <1>f, <2>0, <2>1, <2>f, <2>2, Zenon DEF Tells
  <2>3. CASE t # ScopeOf[v]
    BY <2>0, <2>1, <2>f, <2>3, Zenon DEF Tells, Refences
  <2> QED BY <2>2, <2>3, Zenon
<1>5. CASE RecordFailure(w)
  <2>1. job[w].vertex \in Vertex
    BY <1>5, <1>t DEF RecordFailure, At, TypeOK, JobShape, InCall, CallPcs, RowPcs, Operations
  <2> QED BY <1>5, <2>1, <1>f, Zenon DEF RecordFailure
<1>6. CASE FailAbsentPivot(w)
  <2>1. job[w].vertex \in Vertex /\ s = ScopeOf[job[w].vertex] /\ s \in fenced
    BY <1>6, <1>t, Zenon DEF FailAbsentPivot, At, TypeOK, JobShape, RowPcs, GInv, EnsuredFirst
  <2> QED BY <1>6, <2>1, <1>f, Zenon DEF FailAbsentPivot
<1>7. CASE AdmitPivot(w)
  <2>1. s \in Scope /\ s = ScopeOf[job[w].vertex]
    BY <1>7, <1>t DEF AdmitPivot, At, TypeOK, JobShape, RowPcs
  <2>2. CASE PivotAdmissible(s) /\ admit_pivot(job[w].vertex)
    BY <2>1, <2>2, <1>t, Zenon DEF admit_pivot, Logged, Tells, Refences, ScopeTyped
  <2> QED BY <1>7, <2>2, SilentTells DEF AdmitPivot, scopeVars
<1>8. CASE ResolvePivotAbsent(w)
  <2>1. s \in Scope /\ s = ScopeOf[job[w].vertex] /\ state[s] = "pivot-inflight"
    BY <1>8, <1>p DEF ResolvePivotAbsent, At, InPivot
  <2>2. CASE resolve_pivot_absent(job[w].vertex)
    <3>1. /\ state'[s] = "open" /\ pivot'[s] = None /\ s \in fenced' /\ phase' = phase
          /\ t # s => state'[t] = state[t] /\ pivot'[t] = pivot[t] /\ (t \in fenced' <=> t \in fenced)
      BY <2>1, <2>2, <1>t DEF resolve_pivot_absent, ScopeTyped
    <3> QED BY <2>1, <3>1, Zenon DEF Tells, Refences
  <2> QED BY <1>8, <2>2, SilentTells DEF ResolvePivotAbsent, scopeVars
<1>9. CASE PassPivot(w)
  <2>1. s \in Scope /\ s = ScopeOf[job[w].vertex]
    BY <1>9, <1>p DEF PassPivot, PivotAnswered, At, InPivot, InCall, CallPcs
  <2>2. CASE RecordPivotPassed(job[w].vertex)
    BY <2>1, <2>2, <1>t DEF RecordPivotPassed, Logged, Fold, Tells, Refences, ScopeTyped
  <2> QED BY <1>9, <2>2, SilentTells DEF PassPivot, scopeVars
<1>c. ASSUME s \in Scope, NEW closing \in {"suspended", "committed"}, CloseScope(s, closing) PROVE Tells(t)
  <2>1. state' = [state EXCEPT ![s] = closing] /\ UNCHANGED <<fenced, pivot>>
    BY <1>c, Zenon DEF CloseScope
  <2>2. Logged(s, IF closing = "suspended" THEN "txn/scope suspended" ELSE "txn/scope committed")
    BY <1>c, Zenon DEF CloseScope
  <2>3. phase'[t] = IF t = s THEN closing ELSE phase[t]
    BY <1>c, <2>2 DEF Logged, Fold
  <2> QED BY <1>c, <2>1, <2>3, <1>t, Zenon DEF Tells, Refences, ScopeTyped
<1>10. CASE SuspendPivot(w) \/ SuspendConfirm(w) \/ SuspendCancel(w)
  <2>1. s \in Scope
    BY <1>10, <1>t DEF SuspendPivot, SuspendConfirm, SuspendCancel, PivotAnswered, StatusAnswered, At, TypeOK, JobShape, InPivot, InConfirm, InCancel, InCall, CallPcs
  <2>2. CloseScope(s, "suspended")
    BY <1>10, Zenon DEF SuspendPivot, SuspendConfirm, SuspendCancel
  <2> QED BY <2>1, <2>2, <1>c, ZenonT(60)
<1>11. CASE CommitScope(w)
  <2>1. s \in Scope
    BY <1>11, <1>t DEF CommitScope, At, TypeOK, JobShape, InConfirm
  <2> QED BY <1>11, <2>1, <1>c DEF CommitScope
<1>12. CASE RequestScopeCancel(w)
  <2>1. s \in Scope
    BY <1>12, <1>t DEF RequestScopeCancel, TypeOK, JobShape
  <2>2. \/ RecordCancelRequested(s) \/ CloseScope(s, "suspended") \/ UNCHANGED <<state, fenced, pivot, phase>>
    BY <1>12, Zenon DEF RequestScopeCancel, scopeVars
  <2>3. CASE RecordCancelRequested(s)
    BY <2>1, <2>3, <1>t DEF RecordCancelRequested, Logged, Fold, Tells, Refences, ScopeTyped
  <2> QED BY <2>1, <2>2, <2>3, <1>c, SilentTells, ZenonT(60)
<1>13. CASE CompleteScopeCancel(w)
  <2>1. s \in Scope
    BY <1>13, <1>t DEF CompleteScopeCancel, At, InCancel, TypeOK, JobShape
  <2>2. CASE RecordCancelCompleted(s)
    BY <2>1, <2>2, <1>t DEF RecordCancelCompleted, Logged, Fold, Tells, Refences, ScopeTyped
  <2> QED BY <1>13, <2>2, SilentTells DEF CompleteScopeCancel, scopeVars
<1> QED BY <1>1, <1>2, <1>3, <1>4, <1>5, <1>6, <1>7, <1>8, <1>9, <1>10, <1>11, <1>12, <1>13, ZenonT(60) DEF Handler

\* Around the handlers only the Engine's request touches a row, and it is told with it.
LEMMA NextTells ==
  ASSUME GInv, [Next]_vars
  PROVE  \A s \in Scope : Tells(s)
<1>1. ASSUME NEW w \in Worker, Claim(w) \/ Crash(w) PROVE \A s \in Scope : Tells(s)
  BY <1>1, SilentTells, Zenon DEF Claim, Crash, scopeVars
<1>2. ASSUME NEW w \in Worker, NEW s \in Scope, PickRequest(w, s) \/ PickExpired(w, s) \/ PickStuck(w, s)
      PROVE  \A t \in Scope : Tells(t)
  BY <1>2, SilentTells, Zenon DEF PickRequest, PickExpired, PickStuck, storeVars, scopeVars
<1>3. ASSUME NEW v \in Vertex, DeadLeaseExpires(v) \/ DeadMemberLeaseExpires(v) \/ LeaseOverrun(v)
      PROVE  \A s \in Scope : Tells(s)
  BY <1>3, SilentTells, Zenon DEF DeadLeaseExpires, DeadMemberLeaseExpires, LeaseOverrun, scopeVars
<1>4. ASSUME NEW k \in Key, DeadlinePasses(k) PROVE \A s \in Scope : Tells(s)
  BY <1>4, SilentTells, Zenon DEF DeadlinePasses, scopeVars
<1>5. ASSUME NEW a \in attempts, EffectLands(a) PROVE \A s \in Scope : Tells(s)
  BY <1>5, SilentTells, Zenon DEF EffectLands, storeVars, scopeVars
<1>6. ASSUME NEW s \in Scope, EngineRequest(s) PROVE \A t \in Scope : Tells(t)
  <2>1. ScopeTyped
    BY DEF GInv, IInv, TypeOK, StoreTypeOK, ScopeTyped
  <2>2. /\ state[s] = "open" /\ phase[s] \in {"open", "fenced"} /\ UNCHANGED <<state, pivot>>
        /\ fenced' = fenced \cup {s} /\ Logged(s, "replan/cancel-requested")
    BY <1>6, Zenon DEF EngineRequest, RegisterCancelRequest
  <2>3. ASSUME NEW t \in Scope
        PROVE  /\ t = s => phase'[t] = Fold(phase[t], "replan/cancel-requested")
               /\ t # s => phase'[t] = phase[t]
    BY <2>2 DEF Logged
  <2>4. ASSUME NEW t \in Scope PROVE Tells(t)
    BY <2>2, <2>3, Zenon DEF Tells, Refences
  <2> QED BY <2>4
<1>7. UNCHANGED vars => \A s \in Scope : Tells(s)
  BY SilentTells DEF vars, storeVars, scopeVars
<1> QED BY <1>1, <1>2, <1>3, <1>4, <1>5, <1>6, <1>7, HandlerTells DEF Next
-----------------------------------------------------------------------------
(* What processRegular and the absence proof rely on later                 *)

\* Every process keeps EnsuredFirst, by its own steps and by those of the others.
LEMMA EnsuredKept ==
  ASSUME GInv, [Next]_vars
  PROVE  \A w \in Worker : EnsuredFirst(w)'
<1>t. TypeOK /\ job \in [Worker -> Jobs] /\ state \in [Scope -> States]
  BY DEF GInv, IInv, TypeOK, StoreTypeOK
<1>r. fenced \subseteq fenced' /\ \A s \in Scope : state[s] # "absent" => state'[s] # "absent"
  BY <1>t, RowsRemain, NextRows DEF GInv
<1>o. ASSUME NEW x \in Worker, job'[x] = job[x] PROVE EnsuredFirst(x)'
  BY <1>o, <1>r DEF GInv, EnsuredFirst, At, InCall
<1>f. ASSUME NEW w \in Worker, job'[w].pc \in FreshPcs PROVE EnsuredFirst(w)'
  BY <1>f DEF FreshPcs, EnsuredFirst, At, InCall, CallPcs
<1>e. ASSUME NEW w \in Worker, job'[w].op # "call", job'[w].pc \notin {"owner", "fail-absent"} PROVE EnsuredFirst(w)'
  BY <1>e DEF EnsuredFirst, At, InCall
<1>n. ASSUME NEW w \in Worker, job'[w].pc \notin CallPcs \cup {"owner", "fail-absent"} PROVE EnsuredFirst(w)'
  BY <1>n DEF EnsuredFirst, At, InCall
\* A call goes on in the scope it was started in.
<1>c. ASSUME NEW w \in Worker, job'[w].pc \in CallPcs, job'[w].scope = job[w].scope,
             job'[w].op = "call" => At(w, "owner") \/ InCall(w, {"call"})
      PROVE  EnsuredFirst(w)'
  BY <1>c, <1>r DEF GInv, EnsuredFirst, At, InCall, CallPcs
<1>1. ASSUME NEW w \in Worker, EnsureScope(w) PROVE EnsuredFirst(w)'
  <2>1. job'[w].scope = job[w].scope /\ job'[w].pc \in {"refuse", "admit", "owner", "dispatch"}
    BY <1>1, <1>t, GotoJob, StartCallJob, ZenonT(60) DEF EnsureScope
  <2>2. job[w].scope \in Scope => state'[job[w].scope] # "absent"
    <3>1. CASE job[w].scope \in Scope /\ state[job[w].scope] = "absent"
      <4>1. state' = [state EXCEPT ![job[w].scope] = "open"]
        BY <1>1, <3>1, Zenon DEF EnsureScope, ensure_txn_scope
      <4> QED BY <3>1, <4>1, <1>t
    <3> QED BY <3>1, <1>r
  <2> QED BY <2>1, <2>2 DEF EnsuredFirst, At, InCall
<1>2. ASSUME NEW w \in Worker, CheckOwner(w) PROVE EnsuredFirst(w)'
  <2>1. \/ job'[w].pc \in {"complete", "refuse"}
        \/ job'[w].pc = "dispatch" /\ job'[w].scope = job[w].scope /\ At(w, "owner")
    BY <1>2, <1>t, GotoJob, StartCallJob, ZenonT(60) DEF CheckOwner
  <2> QED BY <2>1, <1>n, <1>c DEF CallPcs
<1>3. ASSUME NEW w \in Worker, RecordAttemptStart(w) PROVE EnsuredFirst(w)'
  <2>1. \/ job'[w].pc = "idle"
        \/ job'[w].pc = "calling" /\ job'[w].scope = job[w].scope /\ job'[w].op = job[w].op /\ At(w, "dispatch")
    BY <1>3, <1>t, GotoJob, QuitJob, Zenon DEF RecordAttemptStart
  <2> QED BY <2>1, <1>n, <1>c DEF CallPcs, InCall, At
<1>4. ASSUME NEW w \in Worker, Execute(w) PROVE EnsuredFirst(w)'
  <2>1. \/ \E res : Respond(w, res)
        \/ job' = [job EXCEPT ![w].pc = "dispatch", ![w].tries = @ + 1]
    BY <1>4, Zenon DEF Execute, ToolSucceeds, ToolFails, ToolUnknown, StatusAnswers
  <2>2. job'[w].pc \in CallPcs /\ job'[w].scope = job[w].scope /\ job'[w].op = job[w].op
    BY <2>1, <1>t DEF Respond, CallPcs, Jobs
  <2>3. At(w, "calling")
    BY <1>4 DEF Execute
  <2> QED BY <2>2, <2>3, <1>c DEF CallPcs, InCall, At
<1>5. ASSUME NEW w \in Worker, AdmitPivot(w) \/ BranchOnPivot(w) \/ NextConfirm(w) \/ ClaimCancelMember(w) PROVE EnsuredFirst(w)'
  <2>1. \/ job'[w].pc \in {"release", "reopen", "resolve-occurred", "resolve-absent", "commit", "close"}
        \/ job'[w].pc = "dispatch" /\ job'[w].op \in {"pivot", "status", "confirm", "inverse"}
    <3>1. \/ \E pc \in {"release", "reopen", "resolve-occurred", "resolve-absent", "commit", "close"} : Goto(w, pc)
          \/ \E op \in {"pivot", "status", "confirm", "inverse"} : \E v : StartCall(w, op, v)
      <4>1. CASE AdmitPivot(w) \/ BranchOnPivot(w)
        BY <4>1, Zenon DEF AdmitPivot, BranchOnPivot
      <4>2. CASE NextConfirm(w) \/ ClaimCancelMember(w)
        BY <4>2, Zenon DEF NextConfirm, ClaimCancelMember
      <4> QED BY <1>5, <4>1, <4>2
    <3> QED BY <3>1, <1>t, GotoJob, StartCallJob, ZenonT(60)
  <2> QED BY <2>1, <1>n, <1>e DEF CallPcs
<1>6. ASSUME NEW w \in Worker, ResolvePivotAttempt(w) \/ PassPivot(w) \/ RecordConfirmed(w) PROVE EnsuredFirst(w)'
  <2>1. \/ job'[w].pc \in {"reopen", "confirm", "idle"}
        \/ job'[w].pc = "answered" /\ job'[w].op = "pivot"
    <3>1. \/ Goto(w, "reopen") \/ Quit(w)
          \/ job' = [job EXCEPT ![w].pc = "answered", ![w].op = "pivot", ![w].res = "succeeded"]
          \/ \E T : job' = [job EXCEPT ![w].pc = "confirm", ![w].todo = T]
      BY <1>6, Zenon DEF ResolvePivotAttempt, PassPivot, RecordConfirmed
    <3>2. Goto(w, "reopen") \/ Quit(w) => job'[w].pc \in {"reopen", "idle"}
      BY <1>t, GotoJob, QuitJob, Zenon
    <3>3. ASSUME job' = [job EXCEPT ![w].pc = "answered", ![w].op = "pivot", ![w].res = "succeeded"]
          PROVE  job'[w].pc = "answered" /\ job'[w].op = "pivot"
      BY <3>3, <1>t DEF Jobs
    <3>4. ASSUME NEW T, job' = [job EXCEPT ![w].pc = "confirm", ![w].todo = T] PROVE job'[w].pc = "confirm"
      BY <3>4, <1>t DEF Jobs
    <3> QED BY <3>1, <3>2, <3>3, <3>4
  <2> QED BY <2>1, <1>n, <1>e DEF CallPcs
<1>7. ASSUME NEW w \in Worker, ResolvePivotAbsent(w) PROVE EnsuredFirst(w)'
  <2>1. \/ job'[w].pc = "idle"
        \/ /\ job'[w].pc = "fail-absent" /\ job'[w].scope = job[w].scope
           /\ fenced' = fenced \cup {ScopeOf[job[w].vertex]}
    BY <1>7, <1>t, GotoJob, QuitJob, ZenonT(60) DEF ResolvePivotAbsent, resolve_pivot_absent
  <2>2. job[w].scope = ScopeOf[job[w].vertex]
    BY <1>7, <1>t DEF ResolvePivotAbsent, At, TypeOK, JobShape, RowPcs
  <2> QED BY <2>1, <2>2 DEF EnsuredFirst, At, InCall, CallPcs
<1>s. ASSUME NEW w \in Worker, Step(w) PROVE \A x \in Worker : EnsuredFirst(x)'
  <2>1. (\A x \in Worker \ {w} : job'[x] = job[x]) /\ (job'[w].pc \in FreshPcs \/ GoesOn(w))
    BY <1>s, <1>t, StepJob
  <2>2. GoesOn(w) => EnsuredFirst(w)'
    BY <1>1, <1>2, <1>3, <1>4, <1>5, <1>6, <1>7, Zenon DEF GoesOn
  <2> QED BY <2>1, <2>2, <1>o, <1>f, Zenon
<1>u. Around \/ UNCHANGED vars => \A x \in Worker : EnsuredFirst(x)'
  BY <1>o, AroundJob DEF vars
<1> QED BY <1>s, <1>u, NextSteps
-----------------------------------------------------------------------------
(* The theorem                                                             *)

\* In every reachable state the Engine's fold of the log says of each scope what its row says, for
\* any number of processes, scopes and faults, except between resolve_pivot_absent and the
\* vertex/failed that follows it.
THEOREM LogTellsRows == Spec => []LogShowsScopeRows
<1>1. Init /\ IInv => GInv
  <2> SUFFICES ASSUME Init, IInv PROVE GInv
    OBVIOUS
  <2>1. \A s \in Scope : state[s] = "absent" /\ phase[s] = "unmaterialized" /\ s \notin fenced
    BY DEF Init, StoreInit
  <2>2. \A w \in Worker : job[w].pc = "idle"
    BY DEF Init, Idle
  <2> QED BY <2>1, <2>2 DEF GInv, LogShowsScopeRows, LogAgrees, Unwritten, EnsuredFirst, At, InCall, CallPcs
<1>2. GInv /\ IInv' /\ [Next]_vars => GInv'
  <2> SUFFICES ASSUME GInv, IInv', [Next]_vars PROVE GInv'
    OBVIOUS
  <2>1. \A s \in Scope : (LogAgrees(s) \/ PivotAbsentGap(s))' /\ Unwritten(s)'
    BY NextTells, TellingAgrees DEF GInv, IInv, LogShowsScopeRows
  <2>2. \A w \in Worker : EnsuredFirst(w)'
    BY EnsuredKept
  <2> QED BY <2>1, <2>2 DEF GInv, LogShowsScopeRows
<1>3. GInv => LogShowsScopeRows
  BY DEF GInv
<1> QED BY <1>1, <1>2, <1>3, Invariant, PTL DEF Spec
=============================================================================
