-------------------------- MODULE CoordinatorSafety --------------------------
(***************************************************************************)
(* The Coordinator's safety argument, for any number of processes, scopes, *)
(* vertices, retries and faults.                                           *)
(*                                                                         *)
(* admit_pivot takes a scope only from open and unfenced; the two ways out *)
(* of pivot-inflight lead to pivot-passed and to a fenced open scope.  So  *)
(* at most one process is ever past a scope's barrier, and it finds the    *)
(* state it left (PivotHasScopeAlone).  request_scope_cancel acts only     *)
(* from open, where no process is past the barrier, and only without       *)
(* unresolved attempts.  From there the row moves as ScopeLifecycle says.  *)
(***************************************************************************)
EXTENDS CoordinatorProofs

\* A request still to be decided has fenced its scope, so admit_pivot cannot overtake it.
RequestFences == \A s \in Scope : request[s] \in {"pending", "deferred"} => s \in fenced

IInv ==
    /\ TypeOK
    /\ PivotHasScopeAlone
    /\ FencedNeverPasses
    /\ PendingOnlyWhileOpen
    /\ RequestFences
    /\ CancelWaitsForEvidence

\* A process past the barrier of its scope.
Past(w) == InPivot(w) \/ InConfirm(w)
-----------------------------------------------------------------------------
(* What the job of a process says after a step                             *)

\* A process that quits its handler is inside no scope.
LEMMA QuitJob ==
  ASSUME job \in [Worker -> Jobs], NEW w \in Worker, Quit(w)
  PROVE  /\ job'[w].pc = "idle" /\ ~InPivot(w)' /\ ~InConfirm(w)' /\ ~InCancel(w)'
         /\ \A x \in Worker \ {w} : job'[x] = job[x]
<1>1. job'[w].pc = "idle" /\ \A x \in Worker \ {w} : job'[x] = job[x]
  BY DEF Quit, Idle
<1> QED BY <1>1 DEF InPivot, InConfirm, InCancel, InCall, CallPcs

\* A step of one process keeps PivotHasScopeAlone when it leaves the rows the others rely on, and
\* when what it relies on itself holds after it.
LEMMA AloneStep ==
  ASSUME TypeOK, PivotHasScopeAlone, NEW w \in Worker,
         \A x \in Worker \ {w} : job'[x] = job[x],
         \A x \in Worker \ {w} :
            /\ InPivot(x) => state'[job[x].scope] = "pivot-inflight" /\ pivot'[job[x].scope] = job[x].vertex
            /\ InConfirm(x) => state'[job[x].scope] = "pivot-passed"
            /\ InCancel(x) => state'[job[x].scope] \in {"cancelling", "cancelled", "suspended"}
            /\ Past(w)' /\ Past(x) => job[x].scope # job'[w].scope,
         InPivot(w)' => state'[job'[w].scope] = "pivot-inflight" /\ pivot'[job'[w].scope] = job'[w].vertex,
         InConfirm(w)' => state'[job'[w].scope] = "pivot-passed",
         InCancel(w)' => state'[job'[w].scope] \in {"cancelling", "cancelled", "suspended"}
  PROVE  PivotHasScopeAlone'
<1>1. ASSUME NEW x \in Worker \ {w}
      PROVE  InPivot(x)' = InPivot(x) /\ InConfirm(x)' = InConfirm(x) /\ InCancel(x)' = InCancel(x)
  BY <1>1 DEF InPivot, InConfirm, InCancel, InCall
<1> QED BY <1>1 DEF PivotHasScopeAlone, Past

\* A process that stays where it was, or leaves, in rows that do not change.
LEMMA QuietStep ==
  ASSUME TypeOK, PivotHasScopeAlone, NEW w \in Worker, UNCHANGED <<state, pivot>>,
         \A x \in Worker \ {w} : job'[x] = job[x],
         InPivot(w)' => InPivot(w) /\ job'[w].vertex = job[w].vertex /\ job'[w].scope = job[w].scope,
         InConfirm(w)' => InConfirm(w) /\ job'[w].scope = job[w].scope,
         InCancel(w)' => InCancel(w) /\ job'[w].scope = job[w].scope
  PROVE  PivotHasScopeAlone'
BY AloneStep DEF PivotHasScopeAlone, Past
-----------------------------------------------------------------------------
(* PivotHasScopeAlone, action by action                                    *)

\* Regular work is inside no scope: processRegular only opens one that has no row yet.
LEMMA RegularAlone ==
  ASSUME TypeOK, PivotHasScopeAlone, NEW w \in Worker,
         \/ Claim(w) \/ PassBarrier(w) \/ EnsureScope(w) \/ CheckOwner(w) \/ RecordTrySuccess(w)
         \/ RecordPlainSuccess(w) \/ RecordFailure(w) \/ CompleteWork(w)
  PROVE  PivotHasScopeAlone'
<1>j. job \in [Worker -> Jobs]
  BY DEF TypeOK
<1>1. CASE Claim(w)
  <2>1. job'[w].pc = "claimed" /\ \A x \in Worker \ {w} : job'[x] = job[x]
    BY <1>1, <1>j, Zenon DEF Claim, Idle
  <2> QED BY <1>1, <2>1, QuietStep, Zenon DEF Claim, scopeVars, InPivot, InConfirm, InCancel, InCall, CallPcs
<1>2. CASE PassBarrier(w)
  BY <1>2, <1>j, QuietStep, GotoJob DEF PassBarrier, At, scopeVars, storeVars, InPivot, InConfirm, InCancel, InCall, CallPcs
<1>3. CASE EnsureScope(w)
  <2>1. /\ ~Past(w)' /\ ~InCancel(w)' /\ \A x \in Worker \ {w} : job'[x] = job[x]
    BY <1>3, <1>j, GotoJob, StartCallJob DEF EnsureScope, Past, InPivot, InConfirm, InCancel, InCall, CallPcs
  <2>2. pivot' = pivot /\ \A s \in Scope : state[s] # "absent" => state'[s] = state[s]
    BY <1>3, ZenonT(60) DEF EnsureScope, ensure_txn_scope, scopeVars, TypeOK, StoreTypeOK
  <2>3. \A x \in Worker : Past(x) \/ InCancel(x) => job[x].scope \in Scope
    BY DEF TypeOK, JobShape, Past
  <2>4. ASSUME NEW x \in Worker \ {w}, Past(x) \/ InCancel(x) PROVE state'[job[x].scope] = state[job[x].scope]
    <3>1. job[x].scope \in Scope /\ state[job[x].scope] # "absent"
      BY <2>3, <2>4, ZenonT(60) DEF PivotHasScopeAlone, Past
    <3> QED BY <2>2, <3>1, Zenon
  <2>5. ASSUME NEW x \in Worker \ {w}
        PROVE  /\ InPivot(x) => state'[job[x].scope] = "pivot-inflight" /\ pivot'[job[x].scope] = job[x].vertex
               /\ InConfirm(x) => state'[job[x].scope] = "pivot-passed"
               /\ InCancel(x) => state'[job[x].scope] \in {"cancelling", "cancelled", "suspended"}
    BY <2>2, <2>4, <2>5, ZenonT(60) DEF PivotHasScopeAlone, Past
  <2>6. ~InPivot(w)' /\ ~InConfirm(w)'
    BY <2>1, Zenon DEF Past
  <2> QED BY <2>1, <2>5, <2>6, AloneStep, ZenonT(60)
<1>4. CASE CheckOwner(w)
  BY <1>4, <1>j, QuietStep, GotoJob, StartCallJob, ZenonT(60) DEF CheckOwner, At, scopeVars, storeVars, InPivot, InConfirm, InCancel, InCall, CallPcs
<1>5. CASE RecordTrySuccess(w)
  BY <1>5, <1>j, QuietStep, GotoJob, ZenonT(60) DEF RecordTrySuccess, At, scopeVars, storeVars, InPivot, InConfirm, InCancel, InCall, CallPcs, RecordTry
<1>6. CASE RecordPlainSuccess(w)
  BY <1>6, <1>j, QuietStep, GotoJob, ZenonT(60) DEF RecordPlainSuccess, At, scopeVars, storeVars, InPivot, InConfirm, InCancel, InCall, CallPcs
<1>7. CASE RecordFailure(w)
  BY <1>7, <1>j, QuietStep, GotoJob, ZenonT(60) DEF RecordFailure, At, scopeVars, storeVars, InPivot, InConfirm, InCancel, InCall, CallPcs, RecordFailed
<1>8. CASE CompleteWork(w)
  BY <1>8, <1>j, QuietStep, QuitJob DEF CompleteWork, At, scopeVars, storeVars, InPivot, InConfirm, InCancel, InCall, CallPcs
<1> QED BY <1>1, <1>2, <1>3, <1>4, <1>5, <1>6, <1>7, <1>8

\* A tool call moves its process through dispatch, calling and answered, inside the same scope.
LEMMA CallAlone ==
  ASSUME TypeOK, PivotHasScopeAlone, NEW w \in Worker, RecordAttemptStart(w) \/ Execute(w)
  PROVE  PivotHasScopeAlone'
<1>j. job \in [Worker -> Jobs]
  BY DEF TypeOK
<1>1. CASE RecordAttemptStart(w)
  BY <1>1, <1>j, QuietStep, GotoJob, QuitJob DEF RecordAttemptStart, At, scopeVars, storeVars, InPivot, InConfirm, InCancel, InCall, CallPcs
<1>2. CASE Execute(w)
  <2>1. /\ job'[w].pc \in CallPcs /\ job'[w].op = job[w].op
        /\ job'[w].scope = job[w].scope /\ job'[w].vertex = job[w].vertex
        /\ \A x \in Worker \ {w} : job'[x] = job[x]
    <3>1. \/ \E res : Respond(w, res)
          \/ job' = [job EXCEPT ![w].pc = "dispatch", ![w].tries = @ + 1]
      BY <1>2, Zenon DEF Execute, ToolSucceeds, ToolFails, ToolUnknown, StatusAnswers
    <3>2. CASE \E res : Respond(w, res)
      BY <3>2, <1>j DEF Respond, CallPcs, Jobs
    <3>3. CASE job' = [job EXCEPT ![w].pc = "dispatch", ![w].tries = @ + 1]
      BY <3>3, <1>j DEF CallPcs, Jobs
    <3> QED BY <3>1, <3>2, <3>3
  <2> QED BY <1>2, <2>1, QuietStep DEF Execute, At, scopeVars, InPivot, InConfirm, InCancel, InCall, CallPcs
<1> QED BY <1>1, <1>2

\* processPivot: admission needs an open scope, where nobody is inside; whoever is past the barrier
\* is alone there when it passes, reopens, suspends or commits the scope.
LEMMA PivotAlone ==
  ASSUME TypeOK, PivotHasScopeAlone, NEW w \in Worker,
         \/ AdmitPivot(w) \/ ReleaseWork(w) \/ BranchOnPivot(w) \/ ResolvePivotAttempt(w)
         \/ ResolvePivotAbsent(w) \/ FailAbsentPivot(w) \/ SuspendPivot(w) \/ PassPivot(w)
         \/ NextConfirm(w) \/ RecordConfirmed(w) \/ SuspendConfirm(w) \/ CommitScope(w)
  PROVE  PivotHasScopeAlone'
<1> DEFINE s == job[w].scope
<1>j. job \in [Worker -> Jobs] /\ state \in [Scope -> States] /\ pivot \in [Scope -> Vertex \cup {None}]
  BY DEF TypeOK, StoreTypeOK
<1>i. \A x \in Worker : Past(x) \/ InCancel(x) => job[x].scope \in Scope
  BY DEF TypeOK, JobShape, Past
<1>r. \A x \in Worker : job[x].pc \in RowPcs \/ InPivot(x) => job[x].scope = ScopeOf[job[x].vertex]
  BY DEF TypeOK, JobShape, InPivot, InCall, RowPcs, Operations
\* The others are not in a scope this process has for itself.
<1>o. ASSUME Past(w), s \in Scope, NEW to,
             state' = [state EXCEPT ![s] = to], \A t \in Scope \ {s} : pivot'[t] = pivot[t],
             to \in {"committed", "open", "pivot-passed", "suspended"},
             ~InPivot(w)', InConfirm(w)' => to = "pivot-passed" /\ job'[w].scope = s,
             ~InCancel(w)', \A x \in Worker \ {w} : job'[x] = job[x]
      PROVE  PivotHasScopeAlone'
  <2>1. ASSUME NEW x \in Worker \ {w}, Past(x) \/ InCancel(x) PROVE job[x].scope # s
    BY <1>o, <2>1 DEF PivotHasScopeAlone, Past
  <2>2. ASSUME NEW x \in Worker \ {w}, Past(x) \/ InCancel(x)
        PROVE  state'[job[x].scope] = state[job[x].scope] /\ pivot'[job[x].scope] = pivot[job[x].scope]
    BY <1>o, <1>i, <1>j, <2>1, <2>2
  <2>3. ASSUME NEW x \in Worker \ {w}
        PROVE  /\ InPivot(x) => state'[job[x].scope] = "pivot-inflight" /\ pivot'[job[x].scope] = job[x].vertex
               /\ InConfirm(x) => state'[job[x].scope] = "pivot-passed"
               /\ InCancel(x) => state'[job[x].scope] \in {"cancelling", "cancelled", "suspended"}
    BY <2>2, <2>3, Zenon DEF PivotHasScopeAlone, Past
  <2>4. ASSUME NEW x \in Worker \ {w}, Past(w)', Past(x) PROVE job[x].scope # job'[w].scope
    BY <1>o, <2>1, <2>4, Zenon DEF Past
  <2>5. InConfirm(w)' => state'[job'[w].scope] = "pivot-passed"
    BY <1>o, <1>j, Zenon
  <2> QED BY <1>o, <2>3, <2>4, <2>5, AloneStep, ZenonT(60)
<1>1. CASE AdmitPivot(w)
  <2>1. s \in Scope /\ s = ScopeOf[job[w].vertex]
    BY <1>1 DEF AdmitPivot, At, TypeOK, JobShape, RowPcs
  <2>2. CASE PivotAdmissible(s) /\ admit_pivot(job[w].vertex) /\ StartCall(w, "pivot", job[w].vertex)
    <3>1. ASSUME NEW x \in Worker, Past(x) \/ InCancel(x) PROVE job[x].scope \in Scope \ {s}
      BY <2>2, <3>1, <1>i DEF PivotHasScopeAlone, Past, PivotAdmissible
    <3>2. /\ state'[s] = "pivot-inflight" /\ pivot'[s] = job[w].vertex
          /\ \A t \in Scope \ {s} : state'[t] = state[t] /\ pivot'[t] = pivot[t]
      BY <2>1, <2>2, <1>j, ZenonT(60) DEF admit_pivot
    <3>3. /\ ~InConfirm(w)' /\ ~InCancel(w)' /\ job'[w].scope = s /\ job'[w].vertex = job[w].vertex
          /\ \A x \in Worker \ {w} : job'[x] = job[x]
      BY <2>2, <1>j, StartCallJob DEF InConfirm, InCancel, InCall
    <3>4. ASSUME NEW x \in Worker \ {w}, Past(x) \/ InCancel(x)
          PROVE  state'[job[x].scope] = state[job[x].scope] /\ pivot'[job[x].scope] = pivot[job[x].scope]
      BY <3>1, <3>2, <3>4, Zenon
    <3>5. ASSUME NEW x \in Worker \ {w}
          PROVE  /\ InPivot(x) => state'[job[x].scope] = "pivot-inflight" /\ pivot'[job[x].scope] = job[x].vertex
                 /\ InConfirm(x) => state'[job[x].scope] = "pivot-passed"
                 /\ InCancel(x) => state'[job[x].scope] \in {"cancelling", "cancelled", "suspended"}
      BY <3>4, <3>5, Zenon DEF PivotHasScopeAlone, Past
    <3>6. ASSUME NEW x \in Worker \ {w}, Past(x) PROVE job[x].scope # job'[w].scope
      BY <3>1, <3>3, <3>6, Zenon
    <3>7. state'[job'[w].scope] = "pivot-inflight" /\ pivot'[job'[w].scope] = job'[w].vertex
      BY <3>2, <3>3, ZenonT(60)
    <3> QED BY <3>3, <3>5, <3>6, <3>7, AloneStep, ZenonT(60)
  <2>3. CASE Goto(w, "release") /\ UNCHANGED scopeVars
    BY <2>3, <1>j, GotoJob, QuietStep DEF scopeVars, InPivot, InConfirm, InCancel, InCall, CallPcs
  <2> QED BY <1>1, <2>2, <2>3, ZenonT(60) DEF AdmitPivot
<1>2. CASE ReleaseWork(w)
  BY <1>2, <1>j, QuietStep, QuitJob, Zenon DEF ReleaseWork, At, scopeVars, storeVars, InPivot, InConfirm, InCancel, InCall, CallPcs
<1>3. CASE BranchOnPivot(w)
  BY <1>3, <1>j, QuietStep, GotoJob, StartCallJob, ZenonT(60) DEF BranchOnPivot, At, scopeVars, storeVars, InPivot, InConfirm, InCancel, InCall, CallPcs, PivotAnswered, StatusAnswered
<1>4. CASE ResolvePivotAttempt(w)
  <2>1. /\ InPivot(w) /\ ~InConfirm(w)' /\ ~InCancel(w)'
        /\ job'[w].scope = s /\ job'[w].vertex = job[w].vertex
        /\ \A x \in Worker \ {w} : job'[x] = job[x]
    BY <1>4, <1>j DEF ResolvePivotAttempt, At, Goto, Jobs, InPivot, InConfirm, InCancel, InCall, CallPcs
  <2> QED BY <1>4, <2>1, QuietStep DEF ResolvePivotAttempt, scopeVars
<1>5. CASE ResolvePivotAbsent(w)
  <2>1. CASE Quit(w) /\ UNCHANGED scopeVars
    BY <2>1, <1>j, QuitJob, QuietStep, Zenon DEF scopeVars
  <2>2. CASE resolve_pivot_absent(job[w].vertex) /\ Goto(w, "fail-absent")
    <3>1. Past(w) /\ s \in Scope /\ s = ScopeOf[job[w].vertex]
      BY <1>5, <1>i, <1>r, ZenonT(60) DEF ResolvePivotAbsent, At, Past, InPivot
    <3>2. state' = [state EXCEPT ![s] = "open"] /\ \A t \in Scope \ {s} : pivot'[t] = pivot[t]
      BY <2>2, <3>1, <1>j, ZenonT(60) DEF resolve_pivot_absent
    <3>3. ~InPivot(w)' /\ ~InConfirm(w)' /\ ~InCancel(w)' /\ \A x \in Worker \ {w} : job'[x] = job[x]
      <4>1. job'[w].pc = "fail-absent" /\ \A x \in Worker \ {w} : job'[x] = job[x]
        BY <2>2, <1>j, GotoJob, Zenon
      <4> QED BY <4>1 DEF InPivot, InConfirm, InCancel, InCall, CallPcs
    <3> QED BY <3>1, <3>2, <3>3, <1>o, Zenon
  <2> QED BY <1>5, <2>1, <2>2, SMTT(30) DEF ResolvePivotAbsent
<1>6. CASE FailAbsentPivot(w)
  BY <1>6, <1>j, QuietStep, GotoJob, Zenon DEF FailAbsentPivot, At, scopeVars, storeVars, InPivot, InConfirm, InCancel, InCall, CallPcs, RecordFailed
<1>7. CASE SuspendPivot(w)
  <2>1. Past(w) /\ s \in Scope
    BY <1>7, <1>i, Zenon DEF SuspendPivot, At, PivotAnswered, StatusAnswered, Past, InPivot, InConfirm, InCall, CallPcs
  <2>2. state' = [state EXCEPT ![s] = "suspended"] /\ pivot' = pivot
    BY <1>7, Zenon DEF SuspendPivot, CloseScope
  <2>3. ~InPivot(w)' /\ ~InConfirm(w)' /\ ~InCancel(w)' /\ \A x \in Worker \ {w} : job'[x] = job[x]
    <3>1. job'[w].pc = "complete" /\ \A x \in Worker \ {w} : job'[x] = job[x]
      BY <1>7, <1>j, GotoJob, Zenon DEF SuspendPivot
    <3> QED BY <3>1, Zenon DEF InPivot, InConfirm, InCancel, InCall, CallPcs
  <2> QED BY <2>1, <2>2, <2>3, <1>o, Zenon
<1>8. CASE PassPivot(w)
  <2>1. CASE Quit(w) /\ UNCHANGED <<scopeVars, logVars>>
    BY <2>1, <1>j, QuitJob, QuietStep, Zenon DEF scopeVars
  <2>2. CASE /\ RecordPivotPassed(job[w].vertex)
             /\ job' = [job EXCEPT ![w].pc = "confirm", ![w].todo = SealedIn(job[w].scope) \cap Tcc]
    <3>1. Past(w) /\ s \in Scope /\ s = ScopeOf[job[w].vertex]
      BY <1>8, <1>i, <1>r DEF PassPivot, PivotAnswered, At, Past, InPivot, InCall, CallPcs
    <3>2. state' = [state EXCEPT ![s] = "pivot-passed"] /\ pivot' = pivot
      BY <2>2, <3>1 DEF RecordPivotPassed
    <3>3. /\ ~InPivot(w)' /\ ~InCancel(w)' /\ job'[w].scope = s
          /\ \A x \in Worker \ {w} : job'[x] = job[x]
      BY <2>2, <1>j DEF Jobs, InPivot, InCancel, InCall, CallPcs
    <3> QED BY <3>1, <3>2, <3>3, <1>o, Zenon
  <2> QED BY <1>8, <2>1, <2>2 DEF PassPivot
<1>9. CASE NextConfirm(w)
  <2>1. InConfirm(w) /\ UNCHANGED <<state, pivot>>
    BY <1>9, Zenon DEF NextConfirm, InConfirm, At, storeVars, scopeVars
  <2>2. /\ job'[w].pc = "commit" \/ (job'[w].pc = "dispatch" /\ job'[w].op = "confirm")
        /\ job'[w].scope = s /\ \A x \in Worker \ {w} : job'[x] = job[x]
    BY <1>9, <1>j, GotoJob, StartCallJob, ZenonT(60) DEF NextConfirm
  <2>3. ~InPivot(w)' /\ ~InCancel(w)'
    BY <2>2, Zenon DEF InPivot, InCancel, InCall, CallPcs
  <2> QED BY <2>1, <2>2, <2>3, QuietStep, Zenon
<1>10. CASE RecordConfirmed(w)
  <2>1. CASE Quit(w)
    BY <1>10, <2>1, <1>j, QuitJob, QuietStep DEF RecordConfirmed, scopeVars
  <2>2. CASE job' = [job EXCEPT ![w].pc = "confirm", ![w].todo = @ \ {job[w].target}]
    <3>1. /\ InConfirm(w) /\ ~InPivot(w)' /\ ~InCancel(w)' /\ job'[w].scope = s
          /\ \A x \in Worker \ {w} : job'[x] = job[x]
      BY <1>10, <2>2, <1>j, SMTT(30) DEF RecordConfirmed, At, Jobs, InPivot, InConfirm, InCancel, InCall, CallPcs
    <3> QED BY <1>10, <3>1, QuietStep DEF RecordConfirmed, scopeVars
  <2> QED BY <1>10, <2>1, <2>2 DEF RecordConfirmed
<1>11. CASE SuspendConfirm(w)
  <2>1. Past(w) /\ s \in Scope
    BY <1>11, <1>i, Zenon DEF SuspendConfirm, At, Past, InPivot, InConfirm, InCall, CallPcs
  <2>2. state' = [state EXCEPT ![s] = "suspended"] /\ pivot' = pivot
    BY <1>11, ZenonT(30) DEF SuspendConfirm, CloseScope
  <2>3. ~InPivot(w)' /\ ~InConfirm(w)' /\ ~InCancel(w)' /\ \A x \in Worker \ {w} : job'[x] = job[x]
    <3>1. job'[w].pc = "complete" /\ \A x \in Worker \ {w} : job'[x] = job[x]
      BY <1>11, <1>j, GotoJob, Zenon DEF SuspendConfirm
    <3> QED BY <3>1, Zenon DEF InPivot, InConfirm, InCancel, InCall, CallPcs
  <2> QED BY <2>1, <2>2, <2>3, <1>o, Zenon
<1>12. CASE CommitScope(w)
  <2>1. Past(w) /\ s \in Scope
    BY <1>12, <1>i, Zenon DEF CommitScope, At, Past, InPivot, InConfirm, InCall, CallPcs
  <2>2. state' = [state EXCEPT ![s] = "committed"] /\ pivot' = pivot
    BY <1>12, ZenonT(30) DEF CommitScope, CloseScope
  <2>3. ~InPivot(w)' /\ ~InConfirm(w)' /\ ~InCancel(w)' /\ \A x \in Worker \ {w} : job'[x] = job[x]
    <3>1. job'[w].pc = "complete" /\ \A x \in Worker \ {w} : job'[x] = job[x]
      BY <1>12, <1>j, GotoJob, Zenon DEF CommitScope
    <3> QED BY <3>1, Zenon DEF InPivot, InConfirm, InCancel, InCall, CallPcs
  <2> QED BY <2>1, <2>2, <2>3, <1>o, ZenonT(30)
<1> QED BY <1>1, <1>2, <1>3, <1>4, <1>5, <1>6, <1>7, <1>8, <1>9, <1>10, <1>11, <1>12

\* Cancellation: request_scope_cancel moves a scope only from open, where nobody is inside; the
\* inverses and their completion stay among cancelling, cancelled and suspended.
LEMMA CancelAlone ==
  ASSUME TypeOK, PivotHasScopeAlone, NEW w \in Worker,
         \/ \E s \in Scope : PickRequest(w, s) \/ PickExpired(w, s) \/ PickStuck(w, s)
         \/ RequestScopeCancel(w) \/ ClaimCancelMember(w) \/ CompleteCancelMember(w)
         \/ SuspendCancel(w) \/ CompleteScopeCancel(w)
  PROVE  PivotHasScopeAlone'
<1> DEFINE s == job[w].scope
           Ended == {"cancelling", "cancelled", "suspended"}
<1>j. job \in [Worker -> Jobs] /\ state \in [Scope -> States]
  BY DEF TypeOK, StoreTypeOK
<1>i. \A x \in Worker : Past(x) \/ InCancel(x) => job[x].scope \in Scope
  BY DEF TypeOK, JobShape, Past
\* No process past the barrier relies on a scope that is open or was cancelled.
<1>o. ASSUME s \in Scope, state[s] \in Ended \cup {"open"}, NEW to \in Ended,
             state' = [state EXCEPT ![s] = to], pivot' = pivot,
             ~Past(w)', InCancel(w)' => job'[w].scope = s, \A x \in Worker \ {w} : job'[x] = job[x]
      PROVE  PivotHasScopeAlone'
  <2>1. ASSUME NEW x \in Worker, Past(x) PROVE job[x].scope \in Scope \ {s}
    BY <1>o, <1>i, <2>1, ZenonT(60) DEF PivotHasScopeAlone, Past
  <2>2. ASSUME NEW x \in Worker, InCancel(x) PROVE state'[job[x].scope] \in Ended
    BY <1>o, <1>i, <1>j, <2>2 DEF PivotHasScopeAlone
  <2>3. state'[s] \in Ended /\ \A t \in Scope \ {s} : state'[t] = state[t]
    BY <1>o, <1>j
  <2>4. ASSUME NEW x \in Worker \ {w}
        PROVE  /\ InPivot(x) => state'[job[x].scope] = "pivot-inflight" /\ pivot'[job[x].scope] = job[x].vertex
               /\ InConfirm(x) => state'[job[x].scope] = "pivot-passed"
    BY <1>o, <2>1, <2>3, <2>4, Zenon DEF PivotHasScopeAlone, Past
  <2>5. InCancel(w)' => state'[job'[w].scope] \in Ended
    BY <1>o, <2>3, Zenon
  <2>6. ~InPivot(w)' /\ ~InConfirm(w)'
    BY <1>o, Zenon DEF Past
  <2> QED BY <1>o, <2>2, <2>4, <2>5, <2>6, AloneStep, Zenon DEF Past
<1>1. CASE \E t \in Scope : PickRequest(w, t) \/ PickExpired(w, t) \/ PickStuck(w, t)
  <2>1. PICK t \in Scope : PickRequest(w, t) \/ PickExpired(w, t) \/ PickStuck(w, t)
    BY <1>1
  <2>2. /\ job'[w].scope = t /\ \A x \in Worker \ {w} : job'[x] = job[x]
        /\ \/ job'[w].pc \in {"decide-engine", "decide-timeout"}
           \/ job'[w].pc = "cancel" /\ state[t] = "cancelling"
        /\ UNCHANGED <<state, pivot>>
    BY <2>1, <1>j DEF PickRequest, PickExpired, PickStuck, Jobs, storeVars, scopeVars
  <2>3. ~Past(w)' /\ (InCancel(w)' => state[t] = "cancelling")
    BY <2>2 DEF Past, InPivot, InConfirm, InCancel, InCall, CallPcs
  <2> QED BY <2>2, <2>3, AloneStep, Zenon DEF PivotHasScopeAlone, Past
<1>2. CASE RequestScopeCancel(w)
  <2>1. s \in Scope
    BY <1>2, Zenon DEF TypeOK, JobShape, RequestScopeCancel
  <2>2. CASE Goto(w, "cancel")
    <3>1. ~Past(w)' /\ job'[w].scope = s /\ \A x \in Worker \ {w} : job'[x] = job[x]
      BY <2>2, <1>j, GotoJob DEF Past, InPivot, InConfirm, InCall, CallPcs
    <3>2. CASE state[s] = "open" /\ state' = [state EXCEPT ![s] = "cancelling"] /\ pivot' = pivot
      BY <2>1, <3>1, <3>2, <1>o, Zenon
    <3>3. CASE state[s] \in {"cancelling", "cancelled"} /\ UNCHANGED <<state, pivot>>
      BY <3>1, <3>3, AloneStep, ZenonT(60) DEF PivotHasScopeAlone, Past
    <3>4. \/ state[s] = "open" /\ RecordCancelRequested(s)
          \/ state[s] \in {"cancelling", "cancelled"} /\ UNCHANGED <<state, pivot>>
          \/ Quit(w)
      BY <1>2, Zenon DEF RequestScopeCancel, CancelDecision
    <3>5. ~Quit(w)
      BY <2>2, <1>j, GotoJob, QuitJob, SMTT(30)
    <3> QED BY <3>2, <3>3, <3>4, <3>5, ZenonT(60) DEF RecordCancelRequested
  <2>3. CASE Quit(w)
    <3>1. ~Past(w)' /\ ~InCancel(w)' /\ \A x \in Worker \ {w} : job'[x] = job[x]
      BY <2>3, <1>j, QuitJob, Zenon DEF Past
    <3>2. CASE state[s] = "open" /\ CloseScope(s, "suspended")
      BY <2>1, <3>1, <3>2, <1>o, Zenon DEF CloseScope
    <3>3. CASE UNCHANGED <<state, pivot>>
      BY <3>1, <3>3, QuietStep, Zenon DEF Past
    <3>4. \/ state[s] = "open" /\ CloseScope(s, "suspended")
          \/ UNCHANGED <<state, pivot>>
          \/ Goto(w, "cancel")
      BY <1>2, Zenon DEF RequestScopeCancel, CancelDecision, scopeVars
    <3> QED BY <2>2, <3>2, <3>3, <3>4, Zenon
  <2> QED BY <1>2, <2>2, <2>3, Zenon DEF RequestScopeCancel
<1>3. CASE ClaimCancelMember(w)
  <2>1. InCancel(w) /\ UNCHANGED <<state, pivot>>
    BY <1>3, Zenon DEF ClaimCancelMember, At, InCancel, scopeVars
  <2>2. /\ job'[w].pc = "close" \/ (job'[w].pc = "dispatch" /\ job'[w].op = "inverse")
        /\ job'[w].scope = s /\ \A x \in Worker \ {w} : job'[x] = job[x]
    <3>1. CASE \E v : StartCall(w, "inverse", v)
      BY <3>1, <1>j, StartCallJob, ZenonT(60)
    <3>2. CASE Goto(w, "close")
      BY <3>2, <1>j, GotoJob, ZenonT(60)
    <3>3. (\E v : StartCall(w, "inverse", v)) \/ Goto(w, "close")
      BY <1>3, Zenon DEF ClaimCancelMember
    <3> QED BY <3>1, <3>2, <3>3, Zenon
  <2>3. ~InPivot(w)' /\ ~InConfirm(w)'
    BY <2>2, Zenon DEF InPivot, InConfirm, InCall, CallPcs
  <2> QED BY <2>1, <2>2, <2>3, QuietStep, Zenon
<1>4. CASE CompleteCancelMember(w)
  <2>1. InCancel(w) /\ UNCHANGED <<state, pivot>>
    BY <1>4, Zenon DEF CompleteCancelMember, At, InCancel, InCall, CallPcs, scopeVars
  <2>2. CASE Quit(w)
    BY <2>1, <2>2, <1>j, QuitJob, QuietStep, Zenon
  <2>3. CASE Goto(w, "cancel")
    <3>1. job'[w].pc = "cancel" /\ job'[w].scope = s /\ \A x \in Worker \ {w} : job'[x] = job[x]
      BY <2>3, <1>j, GotoJob
    <3>2. ~InPivot(w)' /\ ~InConfirm(w)'
      BY <3>1, ZenonT(60) DEF InPivot, InConfirm, InCall, CallPcs
    <3> QED BY <2>1, <3>1, <3>2, QuietStep, Zenon
  <2> QED BY <1>4, <2>2, <2>3, Zenon DEF CompleteCancelMember
<1>5. CASE SuspendCancel(w)
  <2>1. InCancel(w)
    BY <1>5, ZenonT(60) DEF SuspendCancel, At, InCancel, InCall, CallPcs
  <2>2. s \in Scope /\ state[s] \in Ended
    BY <2>1, <1>i, ZenonT(60) DEF PivotHasScopeAlone
  <2>3. ~Past(w)' /\ ~InCancel(w)' /\ \A x \in Worker \ {w} : job'[x] = job[x]
    BY <1>5, <1>j, QuitJob DEF SuspendCancel, Past
  <2>4. state' = [state EXCEPT ![s] = "suspended"] /\ pivot' = pivot
    BY <1>5, Zenon DEF SuspendCancel, CloseScope
  <2> QED BY <2>2, <2>3, <2>4, <1>o, ZenonT(60)
<1>6. CASE CompleteScopeCancel(w)
  <2>1. ~Past(w)' /\ ~InCancel(w)' /\ \A x \in Worker \ {w} : job'[x] = job[x]
    BY <1>6, <1>j, QuitJob DEF CompleteScopeCancel, Past
  <2>2. CASE state[s] = "cancelling" /\ RecordCancelCompleted(s)
    <3>1. s \in Scope
      BY <1>6, <1>i, Zenon DEF CompleteScopeCancel, At, InCancel
    <3> QED BY <2>1, <2>2, <3>1, <1>o, Zenon DEF RecordCancelCompleted
  <2>3. CASE UNCHANGED scopeVars
    BY <2>1, <2>3, QuietStep, Zenon DEF scopeVars, Past
  <2> QED BY <1>6, <2>2, <2>3, ZenonT(60) DEF CompleteScopeCancel
<1> QED BY <1>1, <1>2, <1>3, <1>4, <1>5, <1>6

\* What happens around the processes moves no scope and puts no process inside one.
LEMMA AroundAlone ==
  ASSUME TypeOK, PivotHasScopeAlone,
         \/ \E w \in Worker : Crash(w)
         \/ \E v \in Vertex : DeadLeaseExpires(v) \/ DeadMemberLeaseExpires(v) \/ LeaseOverrun(v)
         \/ \E k \in Key : DeadlinePasses(k)
         \/ \E a \in attempts : EffectLands(a)
         \/ \E s \in Scope : EngineRequest(s)
         \/ UNCHANGED vars
  PROVE  PivotHasScopeAlone'
<1>1. ASSUME NEW w \in Worker, Crash(w) PROVE PivotHasScopeAlone'
  BY <1>1, QuitJob, QuietStep, ZenonT(60) DEF Crash, scopeVars, TypeOK
<1>2. CASE UNCHANGED <<state, pivot, job>>
  <2>1. \A x \in Worker : (InPivot(x)' <=> InPivot(x)) /\ (InConfirm(x)' <=> InConfirm(x)) /\ (InCancel(x)' <=> InCancel(x))
    BY <1>2, Zenon DEF InPivot, InConfirm, InCancel, InCall
  <2> QED BY <1>2, <2>1, ZenonT(60) DEF PivotHasScopeAlone
<1>3. (\E v \in Vertex : DeadLeaseExpires(v) \/ DeadMemberLeaseExpires(v) \/ LeaseOverrun(v))
      => UNCHANGED <<state, pivot, job>>
  BY DEF DeadLeaseExpires, DeadMemberLeaseExpires, LeaseOverrun, scopeVars
<1>4. (\E k \in Key : DeadlinePasses(k)) => UNCHANGED <<state, pivot, job>>
  BY Zenon DEF DeadlinePasses, scopeVars
<1>5. (\E a \in attempts : EffectLands(a)) => UNCHANGED <<state, pivot, job>>
  BY Zenon DEF EffectLands, storeVars, scopeVars
<1>6. (\E s \in Scope : EngineRequest(s)) => UNCHANGED <<state, pivot, job>>
  BY Zenon DEF EngineRequest, RegisterCancelRequest
<1>7. UNCHANGED vars => UNCHANGED <<state, pivot, job>>
  BY DEF vars, storeVars, scopeVars
<1> QED BY <1>1, <1>2, <1>3, <1>4, <1>5, <1>6, <1>7, ZenonT(60)
-----------------------------------------------------------------------------
(* How a scope's row moves, and what its pending request sees of it        *)

\* No new request appears, and an answer is no question.
Settles == \A s \in Scope : request'[s] \in {"pending", "deferred"} => request[s] \in {"pending", "deferred"}

RowStep ==
    \/ UNCHANGED <<state, fenced>> /\ Settles
    \/ \E s \in Scope :
        \/ /\ Settles
           /\ \/ Lifecycle!Open(s) \/ Lifecycle!Fence(s) \/ Lifecycle!Admit(s) \/ Lifecycle!Reopen(s)
              \/ Lifecycle!Pass(s) \/ Lifecycle!Commit(s) \/ Lifecycle!CompleteCancel(s)
        \/ Lifecycle!Fence(s) /\ request' = [request EXCEPT ![s] = "pending"]
        \/ /\ Lifecycle!RequestCancel(s) /\ Answered(s, "requested")
           /\ Unresolved(s) = {} /\ UNCHANGED attempts
        \/ Lifecycle!Suspend(s) /\ Answered(s, "suspended")

\* The row steps keep the fence one-way and leave no request behind on a scope that moved.
LEMMA RowsKept ==
  ASSUME TypeOK, FencedNeverPasses, PendingOnlyWhileOpen, RequestFences, RowStep
  PROVE  FencedNeverPasses' /\ PendingOnlyWhileOpen' /\ RequestFences'
<1>t. state \in [Scope -> States] /\ fenced \in SUBSET Scope /\ request \in [Scope -> Requests]
  BY DEF TypeOK, StoreTypeOK
<1>1. CASE UNCHANGED <<state, fenced>> /\ Settles
  BY <1>1 DEF Settles, FencedNeverPasses, PendingOnlyWhileOpen, RequestFences
<1>2. ASSUME NEW s \in Scope, Settles, Lifecycle!Open(s) \/ Lifecycle!Fence(s) \/ Lifecycle!Admit(s) \/ Lifecycle!Reopen(s)
      PROVE  FencedNeverPasses' /\ PendingOnlyWhileOpen' /\ RequestFences'
  BY <1>2, <1>t DEF Settles, FencedNeverPasses, PendingOnlyWhileOpen, RequestFences, Lifecycle!Open, Lifecycle!Fence, Lifecycle!Admit, Lifecycle!Reopen, Lifecycle!Move
<1>3. ASSUME NEW s \in Scope, Settles, Lifecycle!Pass(s) \/ Lifecycle!Commit(s) \/ Lifecycle!CompleteCancel(s)
      PROVE  FencedNeverPasses' /\ PendingOnlyWhileOpen' /\ RequestFences'
  BY <1>3, <1>t DEF Settles, FencedNeverPasses, PendingOnlyWhileOpen, RequestFences, Lifecycle!Pass, Lifecycle!Commit, Lifecycle!CompleteCancel, Lifecycle!Move
<1>4. ASSUME NEW s \in Scope, Lifecycle!Fence(s), request' = [request EXCEPT ![s] = "pending"]
      PROVE  FencedNeverPasses' /\ PendingOnlyWhileOpen' /\ RequestFences'
  BY <1>4, <1>t DEF FencedNeverPasses, PendingOnlyWhileOpen, RequestFences, Lifecycle!Fence
<1>5. ASSUME NEW s \in Scope, NEW to \in {"cancelling", "suspended"}, NEW outcome \in {"requested", "suspended"},
             state' = [state EXCEPT ![s] = to], fenced' = fenced, Answered(s, outcome)
      PROVE  FencedNeverPasses' /\ PendingOnlyWhileOpen' /\ RequestFences'
  <2>1. /\ request'[s] \notin {"pending", "deferred"} /\ state'[s] = to
        /\ \A t \in Scope \ {s} : request'[t] = request[t] /\ state'[t] = state[t]
    BY <1>5, <1>t DEF Answered
  <2> QED BY <1>5, <2>1 DEF FencedNeverPasses, PendingOnlyWhileOpen, RequestFences
<1> QED BY <1>1, <1>2, <1>3, <1>4, <1>5, ZenonT(60) DEF RowStep, Lifecycle!RequestCancel, Lifecycle!Suspend, Lifecycle!Move

\* The row steps are the steps ScopeLifecycle allows.
LEMMA RowsAllowed == RowStep => [Lifecycle!Next]_<<state, fenced>>
BY ZenonT(60) DEF RowStep, Lifecycle!Next

\* A row once written stays, and so does a fence.
LEMMA RowsRemain ==
  ASSUME TypeOK, RowStep
  PROVE  fenced \subseteq fenced' /\ \A s \in Scope : state[s] # "absent" => state'[s] # "absent"
<1>t. state \in [Scope -> States] /\ fenced \in SUBSET Scope
  BY DEF TypeOK, StoreTypeOK
<1> QED BY <1>t, SMTT(30) DEF RowStep, Lifecycle!Open, Lifecycle!Fence, Lifecycle!Admit, Lifecycle!Reopen, Lifecycle!Pass, Lifecycle!Commit, Lifecycle!CompleteCancel, Lifecycle!RequestCancel, Lifecycle!Suspend, Lifecycle!Move

\* vertex/failed fences the scope if it is open, and otherwise changes no row.
LEMMA FailureFences ==
  ASSUME TypeOK, NEW v \in Vertex, NEW event, RecordFailed(v, event)
  PROVE  RowStep
<1>1. state' = state /\ request' = request
  BY DEF RecordFailed
<1>2. CASE \E s \in Scope : s = ScopeOf[v] /\ state[s] = "open"
  <2>1. PICK s \in Scope : s = ScopeOf[v] /\ state[s] = "open"
    BY <1>2
  <2>2. fenced' = fenced \cup {s}
    BY <2>1, ZenonT(60) DEF RecordFailed
  <2> QED BY <1>1, <2>1, <2>2, Zenon DEF RowStep, Settles, Lifecycle!Fence
<1>3. CASE ~ \E s \in Scope : s = ScopeOf[v] /\ state[s] = "open"
  BY <1>1, <1>3, ZenonT(60) DEF RowStep, Settles, RecordFailed, TypeOK, StoreTypeOK
<1> QED BY <1>2, <1>3

\* Everything a process does to the scope rows.
LEMMA HandlerRows ==
  ASSUME IInv, NEW w \in Worker, Claim(w) \/ Handler(w)
  PROVE  RowStep
<1> DEFINE s == job[w].scope
<1>t. TypeOK /\ state \in [Scope -> States] /\ request \in [Scope -> Requests]
  BY ZenonT(60) DEF IInv, TypeOK, StoreTypeOK
<1>p. InPivot(w) => s \in Scope /\ s = ScopeOf[job[w].vertex] /\ state[s] = "pivot-inflight"
  BY ZenonT(60) DEF IInv, PivotHasScopeAlone, TypeOK, JobShape, InPivot, InCall, RowPcs, Operations
<1>c. InConfirm(w) => s \in Scope /\ state[s] = "pivot-passed"
  BY ZenonT(60) DEF IInv, PivotHasScopeAlone, TypeOK, JobShape
<1>x. InCancel(w) => s \in Scope /\ state[s] \in {"cancelling", "cancelled", "suspended"}
  BY ZenonT(60) DEF IInv, PivotHasScopeAlone, TypeOK, JobShape
<1>u. UNCHANGED <<state, fenced, request>> => RowStep
  BY DEF RowStep, Settles
<1>1. CASE \/ Claim(w) \/ PassBarrier(w) \/ CheckOwner(w) \/ RecordPlainSuccess(w) \/ CompleteWork(w)
           \/ RecordAttemptStart(w) \/ Execute(w) \/ ReleaseWork(w) \/ BranchOnPivot(w)
  BY <1>1, <1>u, ZenonT(60) DEF Claim, PassBarrier, CheckOwner, RecordPlainSuccess, CompleteWork, RecordAttemptStart, Execute, ReleaseWork, BranchOnPivot, storeVars, scopeVars
<1>2. CASE \/ ResolvePivotAttempt(w) \/ NextConfirm(w) \/ RecordConfirmed(w) \/ RecordTrySuccess(w)
           \/ ClaimCancelMember(w) \/ CompleteCancelMember(w)
  BY <1>2, <1>u, ZenonT(60) DEF ResolvePivotAttempt, NextConfirm, RecordConfirmed, RecordTrySuccess, RecordTry, ClaimCancelMember, CompleteCancelMember, storeVars, scopeVars
<1>3. CASE EnsureScope(w)
  <2>1. CASE s \in Scope /\ state[s] = "absent"
    BY <1>3, <2>1, Zenon DEF EnsureScope, ensure_txn_scope, RowStep, Settles, Lifecycle!Open, Lifecycle!Move
  <2>2. CASE ~(s \in Scope /\ state[s] = "absent")
    BY <1>3, <2>2, <1>u, Zenon DEF EnsureScope, ensure_txn_scope, scopeVars
  <2> QED BY <2>1, <2>2
<1>4. CASE RecordFailure(w) \/ FailAbsentPivot(w)
  <2>1. job[w].vertex \in Vertex
    BY <1>4, <1>t, ZenonT(60) DEF RecordFailure, FailAbsentPivot, At, TypeOK, JobShape, InCall, CallPcs, RowPcs, Operations
  <2> QED BY <1>4, <1>t, <2>1, FailureFences, Zenon DEF RecordFailure, FailAbsentPivot
<1>5. CASE AdmitPivot(w)
  <2>1. s \in Scope /\ s = ScopeOf[job[w].vertex]
    BY <1>5, <1>t, Zenon DEF AdmitPivot, At, TypeOK, JobShape, RowPcs
  <2>2. CASE PivotAdmissible(s) /\ admit_pivot(job[w].vertex)
    BY <2>1, <2>2, Zenon DEF PivotAdmissible, admit_pivot, RowStep, Settles, Lifecycle!Admit, Lifecycle!Move
  <2> QED BY <1>5, <2>2, <1>u DEF AdmitPivot, scopeVars
<1>6. CASE ResolvePivotAbsent(w)
  <2>1. InPivot(w)
    BY <1>6 DEF ResolvePivotAbsent, At, InPivot
  <2>2. CASE resolve_pivot_absent(job[w].vertex)
    BY <2>1, <2>2, <1>p, Zenon DEF resolve_pivot_absent, RowStep, Settles, Lifecycle!Reopen, Lifecycle!Move
  <2> QED BY <1>6, <2>2, <1>u, ZenonT(60) DEF ResolvePivotAbsent, scopeVars
<1>7. CASE PassPivot(w)
  <2>1. InPivot(w)
    BY <1>7 DEF PassPivot, PivotAnswered, At, InPivot, InCall, CallPcs
  <2>2. CASE RecordPivotPassed(job[w].vertex)
    BY <2>1, <2>2, <1>p, Zenon DEF RecordPivotPassed, RowStep, Settles, Lifecycle!Pass, Lifecycle!Move
  <2> QED BY <1>7, <2>2, <1>u DEF PassPivot, scopeVars
<1>s. ASSUME s \in Scope, CloseScope(s, "suspended"),
             state[s] \in {"open", "pivot-inflight", "pivot-passed", "cancelling", "cancelled", "suspended"}
      PROVE  RowStep
  <2>1. state' = [state EXCEPT ![s] = "suspended"] /\ fenced' = fenced /\ Answered(s, "suspended")
    BY <1>s, Zenon DEF CloseScope
  <2>2. CASE state[s] = "suspended"
    <3>1. state' = state
      BY <1>t, <2>1, <2>2
    <3>2. Settles
      BY <1>t, <2>1 DEF Answered, Settles
    <3> QED BY <2>1, <3>1, <3>2 DEF RowStep
  <2> QED BY <1>s, <2>1, <2>2, Zenon DEF RowStep, Lifecycle!Suspend, Lifecycle!Move
<1>8. CASE SuspendPivot(w)
  <2>1. InPivot(w)
    BY <1>8, Zenon DEF SuspendPivot, PivotAnswered, StatusAnswered, At, InPivot, InCall, CallPcs
  <2> QED BY <1>8, <2>1, <1>p, <1>s, Zenon DEF SuspendPivot
<1>9. CASE SuspendConfirm(w)
  <2>1. InConfirm(w)
    BY <1>9 DEF SuspendConfirm, At, InConfirm, InCall, CallPcs
  <2> QED BY <1>9, <2>1, <1>c, <1>s, ZenonT(60) DEF SuspendConfirm
<1>10. CASE CommitScope(w)
  <2>1. InConfirm(w)
    BY <1>10, ZenonT(60) DEF CommitScope, At, InConfirm
  <2> QED BY <1>10, <2>1, <1>c, ZenonT(60) DEF CommitScope, CloseScope, RowStep, Settles, Lifecycle!Commit, Lifecycle!Move
<1>11. CASE RequestScopeCancel(w)
  <2>1. s \in Scope
    BY <1>11, <1>t, Zenon DEF RequestScopeCancel, TypeOK, JobShape
  <2>2. \/ state[s] = "open" /\ RecordCancelRequested(s) /\ Unresolved(s) = {} /\ UNCHANGED attempts
        \/ state[s] = "open" /\ CloseScope(s, "suspended")
        \/ state[s] \in {"cancelling", "cancelled"} /\ Answered(s, "duplicate") /\ UNCHANGED <<state, fenced>>
        \/ state[s] = "suspended" /\ Answered(s, "suspended") /\ UNCHANGED <<state, fenced>>
        \/ Answered(s, "deferred") /\ UNCHANGED <<state, fenced>>
        \/ UNCHANGED scopeVars
    BY <1>11, ZenonT(60) DEF RequestScopeCancel, CancelDecision
  <2>3. CASE state[s] = "open" /\ RecordCancelRequested(s) /\ Unresolved(s) = {} /\ UNCHANGED attempts
    BY <2>1, <2>3, Zenon DEF RecordCancelRequested, RowStep, Lifecycle!RequestCancel, Lifecycle!Move
  <2>4. ASSUME NEW outcome, Answered(s, outcome), UNCHANGED <<state, fenced>> PROVE RowStep
    <3>1. Settles
      BY <2>1, <2>4, <1>t, ZenonT(60) DEF Answered, Settles
    <3> QED BY <2>4, <3>1 DEF RowStep
  <2> QED BY <2>1, <2>2, <2>3, <2>4, <1>s, <1>u DEF scopeVars
<1>12. CASE SuspendCancel(w)
  <2>1. InCancel(w)
    BY <1>12 DEF SuspendCancel, At, InCancel, InCall, CallPcs
  <2> QED BY <1>12, <2>1, <1>x, <1>s, ZenonT(60) DEF SuspendCancel
<1>13. CASE CompleteScopeCancel(w)
  <2>1. s \in Scope
    BY <1>13, <1>x, Zenon DEF CompleteScopeCancel, At, InCancel
  <2>2. CASE state[s] = "cancelling" /\ RecordCancelCompleted(s)
    BY <2>1, <2>2, Zenon DEF RecordCancelCompleted, RowStep, Settles, Lifecycle!CompleteCancel, Lifecycle!Move
  <2> QED BY <1>13, <2>2, <1>u, Zenon DEF CompleteScopeCancel, scopeVars
<1> QED BY <1>1, <1>2, <1>3, <1>4, <1>5, <1>6, <1>7, <1>8, <1>9, <1>10, <1>11, <1>12, <1>13, ZenonT(60) DEF Handler

\* Every step of the system moves the scope rows as RowStep says.
LEMMA NextRows ==
  ASSUME IInv, [Next]_vars
  PROVE  RowStep
<1>u. UNCHANGED <<state, fenced, request>> => RowStep
  BY DEF RowStep, Settles
<1>1. ASSUME NEW w \in Worker, Crash(w) PROVE RowStep
  BY <1>1, <1>u DEF Crash, scopeVars
<1>2. ASSUME NEW w \in Worker, NEW s \in Scope, PickRequest(w, s) \/ PickExpired(w, s) \/ PickStuck(w, s)
      PROVE  RowStep
  BY <1>2, <1>u, ZenonT(60) DEF PickRequest, PickExpired, PickStuck, storeVars, scopeVars
<1>3. ASSUME NEW v \in Vertex, DeadLeaseExpires(v) \/ DeadMemberLeaseExpires(v) \/ LeaseOverrun(v)
      PROVE  RowStep
  BY <1>3, <1>u DEF DeadLeaseExpires, DeadMemberLeaseExpires, LeaseOverrun, scopeVars
<1>4. ASSUME NEW k \in Key, DeadlinePasses(k) PROVE RowStep
  BY <1>4, <1>u, Zenon DEF DeadlinePasses, scopeVars
<1>5. ASSUME NEW a \in attempts, EffectLands(a) PROVE RowStep
  BY <1>5, <1>u, Zenon DEF EffectLands, storeVars, scopeVars
<1>6. ASSUME NEW s \in Scope, EngineRequest(s) PROVE RowStep
  BY <1>6, Zenon DEF EngineRequest, RegisterCancelRequest, RowStep, Lifecycle!Fence
<1>7. UNCHANGED vars => RowStep
  BY <1>u, ZenonT(60) DEF vars, storeVars, scopeVars
<1> QED BY <1>1, <1>2, <1>3, <1>4, <1>5, <1>6, <1>7, HandlerRows, ZenonT(60) DEF Next
-----------------------------------------------------------------------------
(* Attempt evidence                                                        *)

\* What a step may add to txn_attempt: nothing new, an inverse, or an attempt in a scope that is
\* not being cancelled.
AttemptStep ==
    \A a \in attempts' :
        \/ \E b \in attempts : b.vertex = a.vertex /\ b.op = a.op
        \/ a.op = "inverse"
        \/ UNCHANGED state /\ \A s \in Scope : s = ScopeOf[a.vertex] => state[s] \notin {"cancelling", "cancelled"}

\* A scope enters cancelling without unresolved attempts, and no attempt but an inverse starts then.
LEMMA EvidenceKept ==
  ASSUME TypeOK, CancelWaitsForEvidence, RowStep, AttemptStep
  PROVE  CancelWaitsForEvidence'
<1> SUFFICES ASSUME NEW s \in Scope, NEW a \in attempts', a.op # "inverse",
                    state'[s] \in {"cancelling", "cancelled"}, ScopeOf[a.vertex] = s
             PROVE  FALSE
  BY ZenonT(60) DEF CancelWaitsForEvidence
<1>t. state \in [Scope -> States]
  BY ZenonT(60) DEF TypeOK, StoreTypeOK
<1>1. \/ state[s] \in {"cancelling", "cancelled"}
      \/ Unresolved(s) = {} /\ UNCHANGED attempts
  BY <1>t DEF RowStep, Lifecycle!Open, Lifecycle!Fence, Lifecycle!Admit, Lifecycle!Reopen, Lifecycle!Pass, Lifecycle!Commit, Lifecycle!CompleteCancel, Lifecycle!RequestCancel, Lifecycle!Suspend, Lifecycle!Move
<1>2. CASE Unresolved(s) = {} /\ UNCHANGED attempts
  BY <1>2 DEF Unresolved
<1>3. CASE state[s] \in {"cancelling", "cancelled"}
  BY <1>3 DEF AttemptStep, CancelWaitsForEvidence
<1> QED BY <1>1, <1>2, <1>3

\* Quitting a handler forgets who holds an attempt, never what it was.
LEMMA QuitAttempts ==
  ASSUME TypeOK, NEW w \in Worker, Quit(w)
  PROVE  AttemptStep
<1>1. ASSUME NEW a \in attempts' PROVE \E b \in attempts : b.vertex = a.vertex /\ b.op = a.op
  <2>1. PICK b \in attempts : a = [b EXCEPT !.holder = IF @ = w THEN None ELSE @]
    BY <1>1 DEF Quit, Forget
  <2>2. a.vertex = b.vertex /\ a.op = b.op
    BY <2>1, ZenonT(60) DEF TypeOK, StoreTypeOK, Attempts
  <2> QED BY <2>2
<1> QED BY <1>1 DEF AttemptStep

\* record_attempt_start is the only way into txn_attempt, and it looks at the scope's state.
LEMMA NextAttempts ==
  ASSUME TypeOK, [Next]_vars
  PROVE  AttemptStep
<1>u. attempts' \subseteq attempts => AttemptStep
  BY DEF AttemptStep
<1>1. ASSUME NEW w \in Worker, RecordAttemptStart(w) PROVE AttemptStep
  <2>1. CASE Quit(w)
    BY <2>1, QuitAttempts
  <2>2. CASE MayStartAttempt(w, job[w].op, job[w].target, job[w].vertex) /\ attempts' = attempts \cup {CurrentAttempt(w)}
    <3>1. job[w].op \in Operations
      BY <1>1, Zenon DEF RecordAttemptStart, At, TypeOK, JobShape, CallPcs
    <3>2. job[w].op # "inverse" =>
            \A s \in Scope : s = ScopeOf[job[w].target] => state[s] \notin {"cancelling", "cancelled"}
      BY <2>2, <3>1, ShapeAssumption DEF ShapeAssumption, MayStartAttempt, AdmissibleStates, Operations
    <3>3. CurrentAttempt(w).op = job[w].op /\ CurrentAttempt(w).vertex = job[w].target
      BY DEF CurrentAttempt
    <3>4. UNCHANGED state
      BY <1>1 DEF RecordAttemptStart, scopeVars
    <3> QED BY <2>2, <3>2, <3>3, <3>4, Zenon DEF AttemptStep
  <2> QED BY <1>1, <2>1, <2>2 DEF RecordAttemptStart
<1>2. ASSUME NEW w \in Worker,
             \/ Claim(w) \/ PassBarrier(w) \/ EnsureScope(w) \/ CheckOwner(w) \/ RecordTrySuccess(w)
             \/ RecordPlainSuccess(w) \/ RecordFailure(w) \/ CompleteWork(w)
      PROVE  AttemptStep
  BY <1>2, <1>u, QuitAttempts, ZenonT(60) DEF Claim, PassBarrier, EnsureScope, CheckOwner, RecordTrySuccess, RecordPlainSuccess, RecordFailure, CompleteWork, storeVars
<1>3. ASSUME NEW w \in Worker, Execute(w) PROVE AttemptStep
  BY <1>3, <1>u DEF Execute, ToolSucceeds, ToolFails, ToolUnknown, StatusAnswers, Resolved
<1>4. ASSUME NEW w \in Worker,
             \/ AdmitPivot(w) \/ ReleaseWork(w) \/ BranchOnPivot(w) \/ ResolvePivotAttempt(w)
             \/ ResolvePivotAbsent(w) \/ FailAbsentPivot(w) \/ SuspendPivot(w) \/ PassPivot(w)
      PROVE  AttemptStep
  BY <1>4, <1>u, QuitAttempts, Zenon DEF AdmitPivot, ReleaseWork, BranchOnPivot, ResolvePivotAttempt, ResolvePivotAbsent, FailAbsentPivot, SuspendPivot, PassPivot, storeVars
<1>5. ASSUME NEW w \in Worker, NextConfirm(w) \/ RecordConfirmed(w) \/ SuspendConfirm(w) \/ CommitScope(w)
      PROVE  AttemptStep
  BY <1>5, <1>u, QuitAttempts DEF NextConfirm, RecordConfirmed, SuspendConfirm, CommitScope, storeVars
<1>6. ASSUME NEW w \in Worker,
             \/ RequestScopeCancel(w) \/ ClaimCancelMember(w) \/ CompleteCancelMember(w)
             \/ SuspendCancel(w) \/ CompleteScopeCancel(w) \/ Crash(w)
      PROVE  AttemptStep
  BY <1>6, <1>u, QuitAttempts, Zenon DEF RequestScopeCancel, ClaimCancelMember, CompleteCancelMember, SuspendCancel, CompleteScopeCancel, Crash
<1>7. ASSUME NEW w \in Worker, NEW s \in Scope, PickRequest(w, s) \/ PickExpired(w, s) \/ PickStuck(w, s)
      PROVE  AttemptStep
  BY <1>7, <1>u DEF PickRequest, PickExpired, PickStuck, storeVars
<1>8. ASSUME NEW v \in Vertex, DeadLeaseExpires(v) \/ DeadMemberLeaseExpires(v) \/ LeaseOverrun(v)
      PROVE  AttemptStep
  BY <1>8, <1>u DEF DeadLeaseExpires, DeadMemberLeaseExpires, LeaseOverrun
<1>9. ASSUME NEW k \in Key, DeadlinePasses(k) PROVE AttemptStep
  BY <1>9, <1>u, ZenonT(60) DEF DeadlinePasses
<1>10. ASSUME NEW a \in attempts, EffectLands(a) PROVE AttemptStep
  BY <1>10, <1>u DEF EffectLands, storeVars
<1>11. ASSUME NEW s \in Scope, EngineRequest(s) PROVE AttemptStep
  BY <1>11, <1>u DEF EngineRequest
<1>12. UNCHANGED vars => AttemptStep
  BY <1>u DEF vars, storeVars
<1> QED BY <1>1, <1>2, <1>3, <1>4, <1>5, <1>6, <1>7, <1>8, <1>9, <1>10, <1>11, <1>12, ZenonT(60) DEF Next, Handler
-----------------------------------------------------------------------------
(* Where a step leaves the process that takes it                           *)

\* Everything a process does, and everything that happens around the processes.
Step(w) ==
    \/ Claim(w) \/ Handler(w) \/ Crash(w)
    \/ \E s \in Scope : PickRequest(w, s) \/ PickExpired(w, s) \/ PickStuck(w, s)

Around ==
    \/ \E v \in Vertex : DeadLeaseExpires(v) \/ DeadMemberLeaseExpires(v) \/ LeaseOverrun(v)
    \/ \E k \in Key : DeadlinePasses(k)
    \/ \E a \in attempts : EffectLands(a)
    \/ \E s \in Scope : EngineRequest(s)

\* Positions at which a process relies on nothing it has seen before.
FreshPcs == {"idle", "claimed", "refuse", "complete", "release", "decide-engine", "decide-timeout", "cancel", "close"}

\* The steps that take a process anywhere else.
GoesOn(w) ==
    \/ EnsureScope(w) \/ CheckOwner(w) \/ RecordAttemptStart(w) \/ Execute(w)
    \/ AdmitPivot(w) \/ BranchOnPivot(w) \/ ResolvePivotAttempt(w) \/ ResolvePivotAbsent(w)
    \/ PassPivot(w) \/ NextConfirm(w) \/ RecordConfirmed(w) \/ ClaimCancelMember(w)

\* The system takes steps of processes, and steps around them.
LEMMA NextSteps == [Next]_vars => (\E w \in Worker : Step(w)) \/ Around \/ UNCHANGED vars
BY Zenon DEF Next, Step, Around

\* What happens around the processes leaves them where they are.
LEMMA AroundJob == Around => UNCHANGED job
BY ZenonT(60) DEF Around, DeadLeaseExpires, DeadMemberLeaseExpires, LeaseOverrun, DeadlinePasses, EffectLands, EngineRequest

\* A process moves alone, to a fresh position unless it goes on with what it does.
LEMMA StepJob ==
  ASSUME TypeOK, NEW w \in Worker, Step(w)
  PROVE  /\ \A x \in Worker \ {w} : job'[x] = job[x]
         /\ job'[w].pc \in FreshPcs \/ GoesOn(w)
<1>j. job \in [Worker -> Jobs]
  BY DEF TypeOK
<1>g. ASSUME NEW pc, Goto(w, pc) PROVE job'[w].pc = pc /\ \A x \in Worker \ {w} : job'[x] = job[x]
  BY <1>j, <1>g, GotoJob
<1>s. ASSUME NEW op, NEW v, StartCall(w, op, v) PROVE \A x \in Worker \ {w} : job'[x] = job[x]
  BY <1>j, <1>s, StartCallJob, ZenonT(60)
<1>q. ASSUME Quit(w) PROVE job'[w].pc = "idle" /\ \A x \in Worker \ {w} : job'[x] = job[x]
  BY <1>j, <1>q, QuitJob
<1>e. ASSUME NEW j, job' = [job EXCEPT ![w] = j] PROVE \A x \in Worker \ {w} : job'[x] = job[x]
  BY <1>j, <1>e
<1>1. ASSUME Claim(w) PROVE job'[w].pc = "claimed" /\ \A x \in Worker \ {w} : job'[x] = job[x]
  BY <1>1, <1>j, Zenon DEF Claim, Idle
<1>2. ASSUME PassBarrier(w) \/ RecordTrySuccess(w) \/ RecordPlainSuccess(w) \/ RecordFailure(w) \/ FailAbsentPivot(w)
      PROVE  job'[w].pc \in {"complete", "refuse"} /\ \A x \in Worker \ {w} : job'[x] = job[x]
  BY <1>2, <1>g, Zenon DEF PassBarrier, RecordTrySuccess, RecordPlainSuccess, RecordFailure, FailAbsentPivot
<1>3. ASSUME SuspendPivot(w) \/ SuspendConfirm(w) \/ CommitScope(w)
      PROVE  job'[w].pc = "complete" /\ \A x \in Worker \ {w} : job'[x] = job[x]
  BY <1>3, <1>g, Zenon DEF SuspendPivot, SuspendConfirm, CommitScope
<1>4. ASSUME CompleteWork(w) \/ ReleaseWork(w) \/ SuspendCancel(w) \/ CompleteScopeCancel(w) \/ Crash(w)
      PROVE  job'[w].pc = "idle" /\ \A x \in Worker \ {w} : job'[x] = job[x]
  BY <1>4, <1>q, Zenon DEF CompleteWork, ReleaseWork, SuspendCancel, CompleteScopeCancel, Crash
<1>5. ASSUME RequestScopeCancel(w) \/ CompleteCancelMember(w)
      PROVE  job'[w].pc \in {"idle", "cancel"} /\ \A x \in Worker \ {w} : job'[x] = job[x]
  BY <1>5, <1>g, <1>q, Zenon DEF RequestScopeCancel, CompleteCancelMember
<1>6. ASSUME NEW s \in Scope, PickRequest(w, s) \/ PickExpired(w, s) \/ PickStuck(w, s)
      PROVE  job'[w].pc \in {"decide-engine", "decide-timeout", "cancel"} /\ \A x \in Worker \ {w} : job'[x] = job[x]
  BY <1>6, <1>j DEF PickRequest, PickExpired, PickStuck, Jobs
<1>7. ASSUME EnsureScope(w) \/ CheckOwner(w) \/ RecordAttemptStart(w) \/ AdmitPivot(w) \/ BranchOnPivot(w)
      PROVE  \A x \in Worker \ {w} : job'[x] = job[x]
  BY <1>7, <1>g, <1>s, <1>q, Zenon DEF EnsureScope, CheckOwner, RecordAttemptStart, AdmitPivot, BranchOnPivot
<1>8. ASSUME ResolvePivotAbsent(w) \/ NextConfirm(w) \/ ClaimCancelMember(w)
      PROVE  \A x \in Worker \ {w} : job'[x] = job[x]
  BY <1>8, <1>g, <1>s, <1>q, ZenonT(60) DEF ResolvePivotAbsent, NextConfirm, ClaimCancelMember
<1>9. ASSUME ResolvePivotAttempt(w) \/ PassPivot(w) \/ RecordConfirmed(w)
      PROVE  \A x \in Worker \ {w} : job'[x] = job[x]
  BY <1>9, <1>g, <1>q, <1>j DEF ResolvePivotAttempt, PassPivot, RecordConfirmed
<1>10. ASSUME Execute(w) PROVE \A x \in Worker \ {w} : job'[x] = job[x]
  <2>1. \/ \E res : Respond(w, res)
        \/ job' = [job EXCEPT ![w].pc = "dispatch", ![w].tries = @ + 1]
    BY <1>10, Zenon DEF Execute, ToolSucceeds, ToolFails, ToolUnknown, StatusAnswers
  <2> QED BY <2>1, <1>j DEF Respond
<1>11. \A pc \in {"idle", "claimed", "complete", "refuse", "cancel", "decide-engine", "decide-timeout"} : pc \in FreshPcs
  BY DEF FreshPcs
<1>12. CASE \E s \in Scope : PickRequest(w, s) \/ PickExpired(w, s) \/ PickStuck(w, s)
  BY <1>12, <1>6, <1>11, Zenon
<1>13. CASE Claim(w) \/ Crash(w)
  BY <1>13, <1>1, <1>4, <1>11, Zenon
<1>14. CASE Handler(w)
  BY <1>14, <1>2, <1>3, <1>4, <1>5, <1>7, <1>8, <1>9, <1>10, <1>11, ZenonT(60) DEF Handler, GoesOn
<1> QED BY <1>12, <1>13, <1>14 DEF Step
-----------------------------------------------------------------------------
(* The theorems                                                            *)

\* The inductive invariant holds at the start, before any scope has a row.
LEMMA InitInvariant == Init => PivotHasScopeAlone /\ FencedNeverPasses /\ PendingOnlyWhileOpen /\ RequestFences /\ CancelWaitsForEvidence
<1> SUFFICES ASSUME Init
             PROVE  PivotHasScopeAlone /\ FencedNeverPasses /\ PendingOnlyWhileOpen /\ RequestFences /\ CancelWaitsForEvidence
  BY ZenonT(60)
<1>1. \A w \in Worker : ~InPivot(w) /\ ~InConfirm(w) /\ ~InCancel(w)
  BY DEF Init, Idle, InPivot, InConfirm, InCancel, InCall, CallPcs
<1> QED BY <1>1, Zenon DEF Init, StoreInit, PivotHasScopeAlone, FencedNeverPasses, PendingOnlyWhileOpen, RequestFences, CancelWaitsForEvidence

\* Every step of the Coordinator keeps the inductive invariant.
LEMMA StepInvariant ==
  ASSUME IInv, TypeOK', [Next]_vars
  PROVE  IInv'
<1>1. PivotHasScopeAlone'
  BY RegularAlone, CallAlone, PivotAlone, CancelAlone, AroundAlone DEF IInv, Next, Handler
<1>2. FencedNeverPasses' /\ PendingOnlyWhileOpen' /\ RequestFences'
  BY NextRows, RowsKept DEF IInv
<1>3. CancelWaitsForEvidence'
  BY NextRows, NextAttempts, EvidenceKept DEF IInv
<1> QED BY <1>1, <1>2, <1>3, ZenonT(60) DEF IInv

\* The inductive invariant of the Coordinator: who is past a scope's barrier, what the fence and a
\* pending request exclude, and what evidence a cancellation has waited for.
THEOREM Invariant == Spec => []IInv
<1>1. Init /\ TypeOK => IInv
  BY InitInvariant DEF IInv
<1>2. IInv /\ TypeOK' /\ [Next]_vars => IInv'
  BY StepInvariant
<1> QED BY <1>1, <1>2, TypeCorrect, PTL DEF Spec

\* From admit_pivot to the last confirm one process at most is inside a scope, and it finds the
\* state it left, for any number of processes, lost leases and crashes.
THEOREM PivotAloneInScope == Spec => []PivotHasScopeAlone
<1>1. IInv => PivotHasScopeAlone
  BY DEF IInv
<1> QED BY <1>1, Invariant, PTL

\* The fence is one-way: a fenced scope never has a pivot in flight, passed or committed.
THEOREM FenceIsOneWay == Spec => []FencedNeverPasses
<1>1. IInv => FencedNeverPasses
  BY DEF IInv
<1> QED BY <1>1, Invariant, PTL

\* No Engine request stays pending or deferred on a scope that is no longer open.
THEOREM RequestsAnswered == Spec => []PendingOnlyWhileOpen
<1>1. IInv => PendingOnlyWhileOpen
  BY DEF IInv
<1> QED BY <1>1, Invariant, PTL

\* A scope is cancelled only over attempts that are all accounted for: none but its own inverses
\* is unresolved from txn/cancel requested on.
THEOREM CancelHasEvidence == Spec => []CancelWaitsForEvidence
<1>1. IInv => CancelWaitsForEvidence
  BY DEF IInv
<1> QED BY <1>1, Invariant, PTL

\* The scope row the Engine reads under lock_run_scopes moves as ScopeLifecycle says.
THEOREM RefinesLifecycle == Spec => ImplementsLifecycle
<1>1. Init => Lifecycle!Init
  BY DEF Init, StoreInit, Lifecycle!Init
<1>2. IInv /\ [Next]_vars => [Lifecycle!Next]_<<state, fenced>>
  BY NextRows, RowsAllowed
<1> QED BY <1>1, <1>2, Invariant, PTL DEF Spec, ImplementsLifecycle, Lifecycle!Spec
=============================================================================
