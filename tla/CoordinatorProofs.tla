------------------------- MODULE CoordinatorProofs -------------------------
(***************************************************************************)
(* Proofs about module Coordinator, for every set of workers, vertices and *)
(* scopes, every retry bound and any number of faults.                     *)
(***************************************************************************)
EXTENDS Coordinator, TLAPS

-----------------------------------------------------------------------------
(* How a worker's record changes                                           *)

\* The idle record is a job record.
LEMMA IdleTyped == Idle \in Jobs
BY BoundsAssumption DEF Idle, Jobs, Pcs, Results

\* A job record stays one when the fields an action writes get values of their types.
LEMMA RowFields ==
  ASSUME NEW j \in Jobs, NEW pc \in Pcs, NEW v \in Vertex \cup {None}, NEW s \in Scope \cup {None}
  PROVE  [j EXCEPT !.pc = pc, !.vertex = v, !.scope = s] \in Jobs
BY Zenon DEF Jobs

\* The five fields StartCall (executeWithRetry's entry) writes.
LEMMA CallFields ==
  ASSUME NEW j \in Jobs, NEW pc \in Pcs, NEW op \in Operations, NEW v \in Vertex, NEW n \in 0..(MaxAttempts - 1),
         NEW res \in Results
  PROVE  [j EXCEPT !.pc = pc, !.op = op, !.target = v, !.tries = n, !.res = res] \in Jobs
BY Zenon DEF Jobs

\* The three fields ResolvePivotAttempt writes after a status answer of occurred.
LEMMA OpFields ==
  ASSUME NEW j \in Jobs, NEW pc \in Pcs, NEW op \in Operations, NEW res \in Results
  PROVE  [j EXCEPT !.pc = pc, !.op = op, !.res = res] \in Jobs
BY Zenon DEF Jobs

\* The two fields a tool's answer (Respond) writes.
LEMMA ResFields ==
  ASSUME NEW j \in Jobs, NEW pc \in Pcs, NEW res \in Results
  PROVE  [j EXCEPT !.pc = pc, !.res = res] \in Jobs
BY Zenon DEF Jobs

\* The two fields a retry within RetryPolicy.max_attempts writes.
LEMMA TriesFields ==
  ASSUME NEW j \in Jobs, NEW pc \in Pcs, NEW n \in 0..(MaxAttempts - 1)
  PROVE  [j EXCEPT !.pc = pc, !.tries = n] \in Jobs
BY Zenon DEF Jobs

\* The two fields confirmScope's list of brackets is kept in.
LEMMA TodoFields ==
  ASSUME NEW j \in Jobs, NEW pc \in Pcs, NEW T \in SUBSET Vertex
  PROVE  [j EXCEPT !.pc = pc, !.todo = T] \in Jobs
BY Zenon DEF Jobs

\* The two fields a sweep or processCancelRequest writes when it picks a scope.
LEMMA ScopeFields ==
  ASSUME NEW j \in Jobs, NEW pc \in Pcs, NEW s \in Scope
  PROVE  [j EXCEPT !.pc = pc, !.scope = s] \in Jobs
BY Zenon DEF Jobs

\* Every position a handler names is a position.
LEMMA PcsListed ==
  /\ \A pc \in CallPcs \cup RowPcs : pc \in Pcs
  /\ "decide-engine" \in Pcs /\ "decide-timeout" \in Pcs /\ "cancel" \in Pcs /\ "close" \in Pcs
BY DEF CallPcs, RowPcs, Pcs

\* Goto keeps the type of every job record.
LEMMA GotoTyped ==
  ASSUME job \in [Worker -> Jobs], NEW w \in Worker, NEW pc \in Pcs, Goto(w, pc)
  PROVE  job' \in [Worker -> Jobs]
<1>1. [job[w] EXCEPT !.pc = pc] \in Jobs
  BY DEF Jobs
<1> QED BY <1>1 DEF Goto

\* StartCall keeps the type of every job record.
LEMMA StartCallTyped ==
  ASSUME job \in [Worker -> Jobs], NEW w \in Worker, NEW op \in Operations, NEW v \in Vertex,
         StartCall(w, op, v)
  PROVE  job' \in [Worker -> Jobs]
<1>1. "dispatch" \in Pcs /\ "none" \in Results /\ 0 \in 0..(MaxAttempts - 1)
  BY BoundsAssumption DEF Pcs, Results
<1>2. [job[w] EXCEPT !.pc = "dispatch", !.op = op, !.target = v, !.tries = 0, !.res = "none"] \in Jobs
  BY <1>1, CallFields, Zenon
<1> QED BY <1>2 DEF StartCall

\* Respond keeps the type of every job record.
LEMMA RespondTyped ==
  ASSUME job \in [Worker -> Jobs], NEW w \in Worker, NEW res \in Results, Respond(w, res)
  PROVE  job' \in [Worker -> Jobs]
<1>1. "answered" \in Pcs
  BY DEF Pcs
<1>2. [job[w] EXCEPT !.pc = "answered", !.res = res] \in Jobs
  BY <1>1, ResFields, Zenon
<1> QED BY <1>2 DEF Respond

\* Quit keeps the type of every job record and of the attempts.
LEMMA QuitTyped ==
  ASSUME job \in [Worker -> Jobs], attempts \in SUBSET Attempts, NEW w \in Worker, Quit(w)
  PROVE  job' \in [Worker -> Jobs] /\ attempts' \in SUBSET Attempts
<1>1. ASSUME NEW a \in attempts PROVE [a EXCEPT !.holder = IF @ = w THEN None ELSE @] \in Attempts
  BY DEF Attempts
<1> QED BY <1>1, IdleTyped DEF Quit, Forget

\* Goto changes one process's position, and only that.
LEMMA GotoJob ==
  ASSUME job \in [Worker -> Jobs], NEW w \in Worker, NEW pc, Goto(w, pc)
  PROVE  /\ job'[w].pc = pc /\ job'[w].op = job[w].op /\ job'[w].scope = job[w].scope
         /\ job'[w].vertex = job[w].vertex /\ job'[w].target = job[w].target
         /\ \A x \in Worker \ {w} : job'[x] = job[x]
BY DEF Goto, Jobs

\* StartCall keeps the row and the scope a process works on.
LEMMA StartCallJob ==
  ASSUME job \in [Worker -> Jobs], NEW w \in Worker, NEW op, NEW v, StartCall(w, op, v)
  PROVE  /\ job'[w].pc = "dispatch" /\ job'[w].op = op /\ job'[w].scope = job[w].scope
         /\ job'[w].vertex = job[w].vertex /\ job'[w].target = v
         /\ \A x \in Worker \ {w} : job'[x] = job[x]
BY DEF StartCall, Jobs

\* A process that quit its handler (Quit) meets no condition of JobShape.
LEMMA QuitShape ==
  ASSUME TypeOK, NEW w \in Worker, Quit(w)
  PROVE  JobShape'
<1>1. job'[w].pc = "idle" /\ \A x \in Worker \ {w} : job'[x] = job[x]
  BY DEF Quit, TypeOK, Idle
<1> QED BY <1>1 DEF TypeOK, JobShape, InCall, InPivot, InConfirm, InCancel, CallPcs, RowPcs

\* A process that goes on with its claimed row keeps naming it.
LEMMA GotoShape ==
  ASSUME TypeOK, NEW w \in Worker, NEW pc \in RowPcs, Goto(w, pc),
         job[w].vertex \in Vertex, job[w].scope = ScopeOf[job[w].vertex],
         job[w].scope \in Scope \/ pc \in {"claimed", "owner", "refuse", "complete", "release", "fail-absent"},
         pc = "resolve-occurred" => job[w].op \in Operations /\ job[w].target \in Vertex
  PROVE  JobShape'
<1>1. /\ job'[w].pc = pc /\ job'[w].op = job[w].op /\ job'[w].scope = job[w].scope
      /\ job'[w].vertex = job[w].vertex /\ job'[w].target = job[w].target
      /\ \A x \in Worker \ {w} : job'[x] = job[x]
  BY GotoJob DEF TypeOK
<1> QED BY <1>1 DEF TypeOK, JobShape, InCall, InPivot, InConfirm, InCancel, CallPcs, RowPcs

\* A tool call names its target, and the row or the scope it is made for.
LEMMA CallShape ==
  ASSUME TypeOK, NEW w \in Worker, NEW op \in Operations, NEW v \in Vertex, StartCall(w, op, v),
         op # "inverse" => job[w].vertex \in Vertex /\ job[w].scope = ScopeOf[job[w].vertex],
         op # "call" => job[w].scope \in Scope
  PROVE  JobShape'
<1>1. /\ job'[w].pc = "dispatch" /\ job'[w].op = op /\ job'[w].scope = job[w].scope
      /\ job'[w].vertex = job[w].vertex /\ job'[w].target = v
      /\ \A x \in Worker \ {w} : job'[x] = job[x]
  BY StartCallJob DEF TypeOK
<1> QED BY <1>1 DEF TypeOK, JobShape, InCall, InPivot, InConfirm, InCancel, CallPcs, RowPcs

\* A process between two confirms names the pivot's row and its scope.
LEMMA ConfirmShape ==
  ASSUME TypeOK, NEW w \in Worker, job'[w].pc = "confirm", job'[w].vertex \in Vertex,
         job'[w].scope = ScopeOf[job'[w].vertex], job'[w].scope \in Scope,
         \A x \in Worker \ {w} : job'[x] = job[x]
  PROVE  JobShape'
BY DEF TypeOK, JobShape, InCall, InPivot, InConfirm, InCancel, CallPcs, RowPcs

\* A process at work on a scope names that scope.
LEMMA ScopeShape ==
  ASSUME TypeOK, NEW w \in Worker, NEW pc \in {"cancel", "close", "decide-engine", "decide-timeout"},
         job'[w].pc = pc, job'[w].scope \in Scope, \A x \in Worker \ {w} : job'[x] = job[x]
  PROVE  JobShape'
BY DEF TypeOK, JobShape, InCall, InPivot, InConfirm, InCancel, CallPcs, RowPcs

-----------------------------------------------------------------------------
(* How the tables change                                                   *)

Events == {"txn/scope open", "txn/try", "txn/scope suspended", "txn/scope committed",
           "vertex/started pivot", "txn/pivot-passed", "vertex/failed", "vertex/failed absent",
           "replan/cancel-requested", "txn/cancel requested", "txn/cancel completed"}

\* scopeCancellations: every event folds a phase to a phase.
LEMMA FoldTyped ==
  ASSUME NEW p \in Phases, NEW event \in Events
  PROVE  Fold(p, event) \in Phases
BY ZenonT(30), ZenonT(60) DEF Fold, Phases, States, Events

\* Appending an event keeps every scope's folded phase typed (scopeCancellations).
LEMMA LoggedTyped ==
  ASSUME phase \in [Scope -> Phases], NEW s, NEW event \in Events, Logged(s, event)
  PROVE  phase' \in [Scope -> Phases]
BY FoldTyped DEF Logged

\* The projection's answer to a pending request keeps cancel_request_outcome typed.
LEMMA AnsweredTyped ==
  ASSUME request \in [Scope -> Requests], NEW s \in Scope, NEW outcome \in Requests, Answered(s, outcome)
  PROVE  request' \in [Scope -> Requests]
BY DEF Answered

\* The scope row's part of the type invariant.
ScopeTyped ==
  /\ state \in [Scope -> States] /\ fenced \in SUBSET Scope /\ request \in [Scope -> Requests]
  /\ pivot \in [Scope -> Vertex \cup {None}] /\ phase \in [Scope -> Phases]

\* vertex/failed keeps the scope rows typed.
LEMMA RecordFailedTyped ==
  ASSUME ScopeTyped, NEW v \in Vertex, NEW event \in Events, RecordFailed(v, event)
  PROVE  ScopeTyped'
<1>1. phase' \in [Scope -> Phases]
  BY LoggedTyped DEF ScopeTyped, RecordFailed
<1> QED BY <1>1 DEF ScopeTyped, RecordFailed

\* txn/scope suspended and committed keep the scope rows typed.
LEMMA CloseScopeTyped ==
  ASSUME ScopeTyped, NEW s \in Scope, NEW closing \in {"suspended", "committed"}, CloseScope(s, closing)
  PROVE  ScopeTyped'
<1>1. phase' \in [Scope -> Phases]
  BY LoggedTyped, Zenon DEF ScopeTyped, CloseScope, Events
<1>2. request' \in [Scope -> Requests]
  BY AnsweredTyped, Zenon DEF ScopeTyped, CloseScope, Requests
<1> QED BY <1>1, <1>2, Zenon DEF ScopeTyped, CloseScope, States

\* ensure_txn_scope, admit_pivot, pivot-passed and resolve_pivot_absent keep the scope rows typed.
LEMMA ScopeStepTyped ==
  ASSUME ScopeTyped, NEW v \in Vertex, ScopeOf[v] \in Scope \cup {None},
         \/ ensure_txn_scope(ScopeOf[v])
         \/ ScopeOf[v] \in Scope /\ (admit_pivot(v) \/ RecordPivotPassed(v) \/ resolve_pivot_absent(v))
  PROVE  ScopeTyped'
<1>1. CASE ensure_txn_scope(ScopeOf[v])
  <2>1. phase' \in [Scope -> Phases]
    BY <1>1, LoggedTyped, Zenon DEF ScopeTyped, ensure_txn_scope, Events, scopeVars
  <2> QED BY <1>1, <2>1, Zenon DEF ScopeTyped, ensure_txn_scope, States, scopeVars
<1>2. CASE ScopeOf[v] \in Scope /\ admit_pivot(v)
  <2>1. phase' \in [Scope -> Phases]
    BY <1>2, LoggedTyped, Zenon DEF ScopeTyped, admit_pivot, Events
  <2> QED BY <1>2, <2>1, Zenon DEF ScopeTyped, admit_pivot, States
<1>3. CASE ScopeOf[v] \in Scope /\ RecordPivotPassed(v)
  <2>1. phase' \in [Scope -> Phases]
    BY <1>3, LoggedTyped, Zenon DEF ScopeTyped, RecordPivotPassed, Events
  <2> QED BY <1>3, <2>1, Zenon DEF ScopeTyped, RecordPivotPassed, States
<1>4. CASE ScopeOf[v] \in Scope /\ resolve_pivot_absent(v)
  BY <1>4 DEF ScopeTyped, resolve_pivot_absent, States
<1> QED BY <1>1, <1>2, <1>3, <1>4

\* The two phases of txn/cancel and the Engine's request keep the scope rows typed.
LEMMA CancelStepTyped ==
  ASSUME ScopeTyped, NEW s \in Scope,
         RecordCancelRequested(s) \/ RecordCancelCompleted(s) \/ RegisterCancelRequest(s)
  PROVE  ScopeTyped'
<1>1. phase' \in [Scope -> Phases]
  BY LoggedTyped, Zenon DEF ScopeTyped, RecordCancelRequested, RecordCancelCompleted, RegisterCancelRequest, Events
<1>2. request' \in [Scope -> Requests]
  BY AnsweredTyped, Zenon DEF ScopeTyped, RecordCancelRequested, RecordCancelCompleted, RegisterCancelRequest, Requests
<1> QED BY <1>1, <1>2, Zenon DEF ScopeTyped, RecordCancelRequested, RecordCancelCompleted, RegisterCancelRequest, States
-----------------------------------------------------------------------------
(* Every step keeps the type invariant                                     *)

\* processRegular, and what ProcessOne does around it.
LEMMA RegularTyped ==
  ASSUME TypeOK, NEW w \in Worker,
         \/ Claim(w) \/ PassBarrier(w) \/ EnsureScope(w) \/ CheckOwner(w) \/ RecordTrySuccess(w)
         \/ RecordPlainSuccess(w) \/ RecordFailure(w) \/ CompleteWork(w)
  PROVE  TypeOK'
<1>v. ASSUME NEW v \in Vertex PROVE ScopeOf[v] \in Scope \cup {None} /\ KeyOf[v] \in Key
  BY ShapeAssumption DEF ShapeAssumption
<1>s. ScopeTyped
  BY DEF TypeOK, StoreTypeOK, ScopeTyped
<1>1. CASE Claim(w)
  <2>a. /\ claimed_by' \in [Vertex -> Worker \cup {None}]
        /\ leased' \in SUBSET Vertex /\ queued' = queued
    <3>1. PICK v \in Vertex : claim_ready_work(w, v)
      BY <1>1, Zenon DEF Claim
    <3> QED BY <3>1 DEF claim_ready_work, TypeOK, StoreTypeOK
  <2>b. UNCHANGED <<scopeVars, bracketVars, memberVars, attempts, logVars>>
    BY <1>1, Zenon DEF Claim
  <2>1. StoreTypeOK'
    BY <2>a, <2>b DEF TypeOK, StoreTypeOK, scopeVars, bracketVars, memberVars, logVars
  <2>2. PICK v \in Vertex : job' = [job EXCEPT ![w] = [Idle EXCEPT !.pc = "claimed", !.vertex = v, !.scope = ScopeOf[v]]]
    BY <1>1, Zenon DEF Claim
  <2>3. [Idle EXCEPT !.pc = "claimed", !.vertex = v, !.scope = ScopeOf[v]] \in Jobs
    BY <1>v, IdleTyped, RowFields, PcsListed, Zenon DEF RowPcs
  <2>4. job' \in [Worker -> Jobs]
    BY <2>2, <2>3 DEF TypeOK
  <2>5. JobShape'
    BY <2>2 DEF TypeOK, JobShape, InCall, InPivot, InConfirm, InCancel, CallPcs, RowPcs, Jobs, Idle
  <2> QED BY <1>1, <2>1, <2>4, <2>5, Zenon DEF TypeOK, Claim
<1>2. CASE PassBarrier(w)
  <2>v. job[w].vertex \in Vertex /\ job[w].scope = ScopeOf[job[w].vertex]
    BY <1>2 DEF TypeOK, JobShape, RowPcs, At, PassBarrier
  <2>1. StoreTypeOK'
    BY <1>2, <2>v DEF TypeOK, StoreTypeOK, scopeVars, bracketVars, queueVars, memberVars, logVars, storeVars, PassBarrier
  <2>2. job' \in [Worker -> Jobs]
    BY <1>2, GotoTyped, PcsListed, ZenonT(60) DEF TypeOK, PassBarrier, RowPcs
  <2>3. JobShape'
    BY <1>2, <2>v, GotoShape DEF PassBarrier, RowPcs
  <2> QED BY <1>2, <2>1, <2>2, <2>3 DEF TypeOK, PassBarrier
<1>3. CASE EnsureScope(w)
  <2>v. job[w].vertex \in Vertex /\ job[w].scope = ScopeOf[job[w].vertex]
    BY <1>3 DEF TypeOK, JobShape, RowPcs, At, EnsureScope
  <2>1. StoreTypeOK'
    BY <1>3, <1>s, <1>v, <2>v, ScopeStepTyped, ZenonT(60) DEF TypeOK, StoreTypeOK, scopeVars, bracketVars, queueVars, memberVars, logVars, storeVars, EnsureScope, ScopeTyped
  <2>2. job' \in [Worker -> Jobs]
    BY <1>3, GotoTyped, PcsListed, StartCallTyped, <2>v DEF TypeOK, EnsureScope, RowPcs, Operations
  <2>3. JobShape'
    BY <1>3, <1>v, <2>v, GotoShape, CallShape, Zenon DEF EnsureScope, RowPcs, Operations
  <2> QED BY <1>3, <2>1, <2>2, <2>3, ZenonT(60) DEF TypeOK, EnsureScope
<1>4. CASE CheckOwner(w)
  <2>v. job[w].vertex \in Vertex /\ job[w].scope = ScopeOf[job[w].vertex]
    BY <1>4, Zenon DEF TypeOK, JobShape, RowPcs, At, CheckOwner
  <2>1. StoreTypeOK'
    BY <1>4 DEF TypeOK, StoreTypeOK, scopeVars, bracketVars, queueVars, memberVars, logVars, storeVars, CheckOwner
  <2>2. job' \in [Worker -> Jobs]
    BY <1>4, GotoTyped, PcsListed, StartCallTyped, <2>v, ZenonT(60) DEF TypeOK, CheckOwner, RowPcs, Operations
  <2>3. JobShape'
    BY <1>4, <2>v, GotoShape, CallShape DEF CheckOwner, RowPcs, Operations
  <2> QED BY <1>4, <2>1, <2>2, <2>3 DEF TypeOK, CheckOwner
<1>5. CASE RecordTrySuccess(w)
  <2>v. job[w].vertex \in Vertex /\ job[w].scope = ScopeOf[job[w].vertex]
    BY <1>5, ZenonT(60) DEF TypeOK, JobShape, InCall, CallPcs, Operations, RowPcs, At, RecordTrySuccess
  <2>a. bracket' \in [Key -> Brackets]
    <3>1. [vertex |-> job[w].vertex, state |-> "sealed"] \in Brackets
      BY <2>v DEF Brackets, BracketStates
    <3> QED BY <1>5, <1>v, <2>v, <3>1 DEF TypeOK, StoreTypeOK, RecordTrySuccess, RecordTry, bracketVars
  <2>b. phase' \in [Scope -> Phases]
    BY <1>5, LoggedTyped, Zenon DEF TypeOK, StoreTypeOK, RecordTrySuccess, RecordTry, Events, scopeVars
  <2>1. StoreTypeOK'
    BY <1>5, <2>v, <2>a, <2>b, Zenon DEF TypeOK, StoreTypeOK, scopeVars, bracketVars, queueVars, memberVars, logVars, RecordTrySuccess, RecordTry
  <2>2. job' \in [Worker -> Jobs]
    BY <1>5, GotoTyped, PcsListed, ZenonT(60) DEF TypeOK, RecordTrySuccess, RowPcs
  <2>3. JobShape'
    BY <1>5, <2>v, GotoShape DEF RecordTrySuccess, RowPcs
  <2> QED BY <1>5, <2>1, <2>2, <2>3, ZenonT(60) DEF TypeOK, RecordTrySuccess
<1>6. CASE RecordPlainSuccess(w)
  <2>v. job[w].vertex \in Vertex /\ job[w].scope = ScopeOf[job[w].vertex]
    BY <1>6, ZenonT(60) DEF TypeOK, JobShape, InCall, CallPcs, Operations, RowPcs, At, RecordPlainSuccess
  <2>1. StoreTypeOK'
    BY <1>6, <2>v DEF TypeOK, StoreTypeOK, scopeVars, bracketVars, queueVars, memberVars, logVars, storeVars, RecordPlainSuccess
  <2>2. job' \in [Worker -> Jobs]
    BY <1>6, GotoTyped, PcsListed DEF TypeOK, RecordPlainSuccess, RowPcs
  <2>3. JobShape'
    BY <1>6, <2>v, GotoShape DEF RecordPlainSuccess, RowPcs
  <2> QED BY <1>6, <2>1, <2>2, <2>3 DEF TypeOK, RecordPlainSuccess
<1>7. CASE RecordFailure(w)
  <2>v. job[w].vertex \in Vertex /\ job[w].scope = ScopeOf[job[w].vertex]
    BY <1>7 DEF TypeOK, JobShape, InCall, CallPcs, Operations, RowPcs, At, RecordFailure
  <2>e. "vertex/failed" \in Events
    BY Zenon DEF Events
  <2>1. StoreTypeOK'
    BY <1>7, <1>s, <2>v, <2>e, RecordFailedTyped, Zenon DEF TypeOK, StoreTypeOK, scopeVars, bracketVars, queueVars, memberVars, logVars, storeVars, RecordFailure, RecordFailed, ScopeTyped
  <2>2. job' \in [Worker -> Jobs]
    BY <1>7, GotoTyped, PcsListed, ZenonT(60) DEF TypeOK, RecordFailure, RowPcs
  <2>3. JobShape'
    BY <1>7, <2>v, GotoShape DEF RecordFailure, RowPcs
  <2> QED BY <1>7, <2>1, <2>2, <2>3, ZenonT(60) DEF TypeOK, RecordFailure
<1>8. CASE CompleteWork(w)
  <2>1. StoreTypeOK'
    BY <1>8, QuitTyped, Zenon DEF TypeOK, StoreTypeOK, scopeVars, bracketVars, queueVars, memberVars, logVars, storeVars, CompleteWork, DropRows
  <2>2. job' \in [Worker -> Jobs]
    BY <1>8, QuitTyped DEF TypeOK, CompleteWork, RowPcs, StoreTypeOK
  <2>3. JobShape'
    BY <1>8, QuitShape DEF CompleteWork
  <2> QED BY <1>8, <2>1, <2>2, <2>3 DEF TypeOK, CompleteWork
<1> QED BY <1>1, <1>2, <1>3, <1>4, <1>5, <1>6, <1>7, <1>8

\* executeWithRetry.
LEMMA CallTyped ==
  ASSUME TypeOK, NEW w \in Worker, RecordAttemptStart(w) \/ Execute(w)
  PROVE  TypeOK'
<1>v. ASSUME NEW v \in Vertex PROVE ScopeOf[v] \in Scope \cup {None} /\ KeyOf[v] \in Key
  BY ShapeAssumption DEF ShapeAssumption
<1>s. ScopeTyped
  BY DEF TypeOK, StoreTypeOK, ScopeTyped
<1>c. ASSUME job[w].pc \in CallPcs PROVE job[w].op \in Operations /\ job[w].target \in Vertex
  BY <1>c DEF TypeOK, JobShape
<1>1. CASE RecordAttemptStart(w)
  <2>1. attempts' \in SUBSET Attempts
    <3>1. CurrentAttempt(w) \in Attempts
      BY <1>1, <1>c DEF RecordAttemptStart, At, CallPcs, CurrentAttempt, Attempts
    <3> QED BY <1>1, <3>1, QuitTyped DEF RecordAttemptStart, TypeOK, StoreTypeOK
  <2>2. StoreTypeOK'
    BY <1>1, <2>1 DEF TypeOK, StoreTypeOK, RecordAttemptStart, scopeVars, bracketVars, queueVars, memberVars, logVars
  <2>3. job' \in [Worker -> Jobs]
    BY <1>1, GotoTyped, QuitTyped, PcsListed DEF TypeOK, StoreTypeOK, RecordAttemptStart, CallPcs
  <2>4. JobShape'
    <3>1. CASE Quit(w)
      BY <3>1, QuitShape
    <3>2. CASE Goto(w, "calling")
      BY <1>1, <1>c, <3>2 DEF TypeOK, JobShape, InCall, InPivot, InConfirm, InCancel, CallPcs, RowPcs, Jobs, At, Goto, RecordAttemptStart
    <3> QED BY <1>1, <3>1, <3>2 DEF RecordAttemptStart
  <2> QED BY <1>1, <2>2, <2>3, <2>4 DEF TypeOK, RecordAttemptStart
<1>2. CASE Execute(w)
  <2>1. attempts' \in SUBSET Attempts
    BY <1>2 DEF Execute, ToolSucceeds, ToolFails, ToolUnknown, StatusAnswers, Resolved, TypeOK, StoreTypeOK
  <2>2. StoreTypeOK'
    BY <1>2, <2>1 DEF TypeOK, StoreTypeOK, Execute, scopeVars, bracketVars, queueVars, memberVars, logVars
  <2>3. effect' \in [Key -> Effects]
    <3>1. ASSUME NEW e \in Effects, NEW op \in Operations PROVE Applied(op, e) \in Effects
      BY <3>1, ZenonT(60) DEF Applied, Effects, Operations
    <3>2. job[w].op \in Operations /\ job[w].target \in Vertex
      BY <1>2, <1>c, ZenonT(60) DEF Execute, At, CallPcs
    <3>3. CASE ToolSucceeds(w)
      BY <3>1, <3>2, <3>3, <1>v DEF ToolSucceeds, TypeOK
    <3>4. CASE StatusAnswers(w)
      BY <3>2, <3>4, <1>v DEF StatusAnswers, TypeOK, Effects
    <3> QED BY <1>2, <3>3, <3>4 DEF Execute, ToolFails, ToolUnknown, TypeOK
  <2>4. job' \in [Worker -> Jobs]
    <3>1. CASE \E res \in Results : Respond(w, res)
      BY <3>1, RespondTyped DEF TypeOK
    <3>2. CASE job[w].tries + 1 < MaxAttempts /\ job' = [job EXCEPT ![w].pc = "dispatch", ![w].tries = @ + 1]
      <4>1. job[w] \in Jobs /\ job[w].tries + 1 \in 0..(MaxAttempts - 1)
        BY <3>2, BoundsAssumption DEF TypeOK, Jobs
      <4>2. [job[w] EXCEPT !.pc = "dispatch", !.tries = job[w].tries + 1] \in Jobs
        BY <4>1, TriesFields, PcsListed, Zenon DEF CallPcs
      <4> QED BY <3>2, <4>2 DEF TypeOK
    <3>3. CASE ToolSucceeds(w)
      BY <3>1, <3>3 DEF ToolSucceeds, Results
    <3>4. CASE ToolFails(w)
      BY <3>1, <3>2, <3>4 DEF ToolFails, Results
    <3>5. CASE ToolUnknown(w)
      BY <3>1, <3>5 DEF ToolUnknown, Results
    <3>6. CASE StatusAnswers(w)
      BY <3>1, <3>6 DEF StatusAnswers, Results
    <3> QED BY <1>2, <3>3, <3>4, <3>5, <3>6 DEF Execute
  <2>5. JobShape'
    <3>1. \/ \E res \in Results : Respond(w, res)
          \/ job' = [job EXCEPT ![w].pc = "dispatch", ![w].tries = @ + 1]
      BY <1>2 DEF Execute, ToolSucceeds, ToolFails, ToolUnknown, StatusAnswers, Results
    <3>2. job \in [Worker -> Jobs] /\ job[w].pc = "calling"
      BY <1>2, Zenon DEF Execute, TypeOK, At
    <3>3. job'[w].pc \in {"answered", "dispatch"} /\ job'[w].op = job[w].op /\ job'[w].scope = job[w].scope
          /\ job'[w].vertex = job[w].vertex /\ job'[w].target = job[w].target
          /\ \A x \in Worker \ {w} : job'[x] = job[x]
      BY <3>1, <3>2 DEF Jobs, Respond
    <3>4. JobShape
      BY DEF TypeOK
    <3> QED BY <3>2, <3>3, <3>4, ZenonT(60) DEF JobShape, InCall, InPivot, InConfirm, InCancel, CallPcs, RowPcs
  <2> QED BY <1>2, <2>2, <2>3, <2>4, <2>5, ZenonT(60) DEF TypeOK, Execute
<1> QED BY <1>1, <1>2

\* processPivot up to the append that passes, reopens or suspends the scope.
LEMMA PivotTyped ==
  ASSUME TypeOK, NEW w \in Worker,
         \/ AdmitPivot(w) \/ ReleaseWork(w) \/ BranchOnPivot(w) \/ ResolvePivotAttempt(w)
         \/ ResolvePivotAbsent(w) \/ FailAbsentPivot(w) \/ SuspendPivot(w) \/ PassPivot(w)
  PROVE  TypeOK'
<1>v. ASSUME NEW v \in Vertex PROVE ScopeOf[v] \in Scope \cup {None} /\ KeyOf[v] \in Key
  BY ShapeAssumption DEF ShapeAssumption
<1>s. ScopeTyped
  BY DEF TypeOK, StoreTypeOK, ScopeTyped
<1>1. CASE AdmitPivot(w)
  <2>v. job[w].vertex \in Vertex /\ job[w].scope = ScopeOf[job[w].vertex] /\ job[w].scope \in Scope
    BY <1>1 DEF TypeOK, JobShape, RowPcs, InPivot, InConfirm, InCall, CallPcs, Operations, At, PivotAnswered, StatusAnswered, AdmitPivot
  <2>1. StoreTypeOK'
    BY <1>1, <1>s, <1>v, <2>v, ScopeStepTyped, ZenonT(60) DEF TypeOK, StoreTypeOK, scopeVars, bracketVars, queueVars, memberVars, logVars, storeVars, AdmitPivot, ScopeTyped
  <2>2. job' \in [Worker -> Jobs]
    BY <1>1, GotoTyped, PcsListed, StartCallTyped, <2>v, Zenon DEF TypeOK, AdmitPivot, RowPcs, Operations
  <2>3. JobShape'
    BY <1>1, <2>v, GotoShape, CallShape, Zenon DEF AdmitPivot, RowPcs, Operations
  <2> QED BY <1>1, <2>1, <2>2, <2>3, ZenonT(60) DEF TypeOK, AdmitPivot
<1>2. CASE ReleaseWork(w)
  <2>1. StoreTypeOK'
    BY <1>2, QuitTyped, ZenonT(60) DEF TypeOK, StoreTypeOK, scopeVars, bracketVars, queueVars, memberVars, logVars, storeVars, ReleaseWork, release_work
  <2>2. job' \in [Worker -> Jobs]
    BY <1>2, QuitTyped DEF TypeOK, ReleaseWork, RowPcs, StoreTypeOK
  <2>3. JobShape'
    BY <1>2, QuitShape DEF ReleaseWork
  <2> QED BY <1>2, <2>1, <2>2, <2>3 DEF TypeOK, ReleaseWork
<1>3. CASE BranchOnPivot(w)
  <2>v. job[w].vertex \in Vertex /\ job[w].scope = ScopeOf[job[w].vertex] /\ job[w].scope \in Scope
    BY <1>3, Zenon DEF TypeOK, JobShape, RowPcs, InPivot, InConfirm, InCall, CallPcs, Operations, At, PivotAnswered, StatusAnswered, BranchOnPivot
  <2>t. job[w].op \in Operations /\ job[w].target \in Vertex
    BY <1>3, ZenonT(60) DEF TypeOK, JobShape, CallPcs, At, PivotAnswered, StatusAnswered, BranchOnPivot
  <2>1. StoreTypeOK'
    BY <1>3 DEF TypeOK, StoreTypeOK, scopeVars, bracketVars, queueVars, memberVars, logVars, storeVars, BranchOnPivot
  <2>2. job' \in [Worker -> Jobs]
    BY <1>3, GotoTyped, PcsListed, StartCallTyped, <2>v, Zenon DEF TypeOK, BranchOnPivot, RowPcs, Operations, PivotAnswered, StatusAnswered
  <2>3. JobShape'
    BY <1>3, <2>v, <2>t, GotoShape, CallShape, Zenon DEF BranchOnPivot, RowPcs, Operations
  <2> QED BY <1>3, <2>1, <2>2, <2>3 DEF TypeOK, BranchOnPivot
<1>4. CASE ResolvePivotAttempt(w)
  <2>v. job[w].vertex \in Vertex /\ job[w].scope = ScopeOf[job[w].vertex] /\ job[w].scope \in Scope
    BY <1>4 DEF TypeOK, JobShape, RowPcs, InPivot, At, ResolvePivotAttempt
  <2>t. At(w, "resolve-occurred") => job[w].target \in Vertex
    BY <1>4 DEF TypeOK, JobShape, RowPcs, InPivot, At, ResolvePivotAttempt
  <2>1. StoreTypeOK'
    BY <1>4 DEF TypeOK, StoreTypeOK, scopeVars, bracketVars, queueVars, memberVars, logVars, ResolvePivotAttempt
  <2>2. job' \in [Worker -> Jobs]
    <3>1. "answered" \in Pcs /\ "pivot" \in Operations /\ "succeeded" \in Results
      BY DEF Pcs, Operations, Results
    <3>2. [job[w] EXCEPT !.pc = "answered", !.op = "pivot", !.res = "succeeded"] \in Jobs
      BY <3>1, OpFields, Zenon DEF TypeOK
    <3> QED BY <1>4, <3>2, GotoTyped, PcsListed, Zenon DEF ResolvePivotAttempt, TypeOK, RowPcs
  <2>3. JobShape'
    BY <1>4, <2>v, <2>t DEF TypeOK, JobShape, InCall, InPivot, InConfirm, InCancel, CallPcs, RowPcs, Jobs, Operations, At, Goto, ResolvePivotAttempt
  <2> QED BY <1>4, <2>1, <2>2, <2>3 DEF TypeOK, ResolvePivotAttempt
<1>5. CASE ResolvePivotAbsent(w)
  <2>v. job[w].vertex \in Vertex /\ job[w].scope = ScopeOf[job[w].vertex] /\ job[w].scope \in Scope
    BY <1>5, ZenonT(60) DEF TypeOK, JobShape, RowPcs, InPivot, InConfirm, InCall, CallPcs, Operations, At, PivotAnswered, StatusAnswered, ResolvePivotAbsent
  <2>1. StoreTypeOK'
    BY <1>5, <1>s, <1>v, <2>v, ScopeStepTyped, QuitTyped, ZenonT(60) DEF TypeOK, StoreTypeOK, scopeVars, bracketVars, queueVars, memberVars, logVars, storeVars, ResolvePivotAbsent, ScopeTyped
  <2>2. job' \in [Worker -> Jobs]
    BY <1>5, GotoTyped, PcsListed, QuitTyped DEF TypeOK, ResolvePivotAbsent, RowPcs, StoreTypeOK
  <2>3. JobShape'
    BY <1>5, <2>v, GotoShape, QuitShape, Zenon DEF ResolvePivotAbsent, RowPcs
  <2> QED BY <1>5, <2>1, <2>2, <2>3, ZenonT(60) DEF TypeOK, ResolvePivotAbsent
<1>6. CASE FailAbsentPivot(w)
  <2>v. job[w].vertex \in Vertex /\ job[w].scope = ScopeOf[job[w].vertex]
    BY <1>6, Zenon DEF TypeOK, JobShape, RowPcs, InPivot, InCall, CallPcs, Operations, At, PivotAnswered, StatusAnswered, FailAbsentPivot
  <2>e. "vertex/failed absent" \in Events
    BY Zenon DEF Events
  <2>1. StoreTypeOK'
    BY <1>6, <1>s, <2>v, <2>e, RecordFailedTyped, Zenon DEF TypeOK, StoreTypeOK, scopeVars, bracketVars, queueVars, memberVars, logVars, storeVars, FailAbsentPivot, RecordFailed, ScopeTyped
  <2>2. job' \in [Worker -> Jobs]
    BY <1>6, GotoTyped, PcsListed, Zenon DEF TypeOK, FailAbsentPivot, RowPcs
  <2>3. JobShape'
    BY <1>6, <2>v, GotoShape, Zenon DEF FailAbsentPivot, RowPcs
  <2> QED BY <1>6, <2>1, <2>2, <2>3, Zenon DEF TypeOK, FailAbsentPivot
<1>7. CASE SuspendPivot(w)
  <2>v. job[w].vertex \in Vertex /\ job[w].scope = ScopeOf[job[w].vertex] /\ job[w].scope \in Scope
    BY <1>7, Zenon DEF TypeOK, JobShape, RowPcs, InPivot, InConfirm, InCall, CallPcs, Operations, At, PivotAnswered, StatusAnswered, SuspendPivot
  <2>1. StoreTypeOK'
    BY <1>7, <1>s, <2>v, CloseScopeTyped, ZenonT(60) DEF TypeOK, StoreTypeOK, scopeVars, bracketVars, queueVars, memberVars, logVars, storeVars, SuspendPivot, ScopeTyped
  <2>2. job' \in [Worker -> Jobs]
    BY <1>7, GotoTyped, PcsListed DEF TypeOK, SuspendPivot, RowPcs, PivotAnswered, StatusAnswered
  <2>3. JobShape'
    BY <1>7, <2>v, GotoShape, Zenon DEF SuspendPivot, RowPcs
  <2> QED BY <1>7, <2>1, <2>2, <2>3 DEF TypeOK, SuspendPivot
<1>8. CASE PassPivot(w)
  <2>v. job[w].vertex \in Vertex /\ job[w].scope = ScopeOf[job[w].vertex] /\ job[w].scope \in Scope
    BY <1>8 DEF TypeOK, JobShape, RowPcs, InPivot, InCall, CallPcs, Operations, At, PivotAnswered, PassPivot
  <2>1. CASE RecordPivotPassed(job[w].vertex) /\ job' = [job EXCEPT ![w].pc = "confirm", ![w].todo = SealedIn(job[w].scope) \cap Tcc]
                /\ UNCHANGED attempts
    <3>1. ScopeTyped'
      BY <1>s, <2>v, <2>1, ScopeStepTyped, ZenonT(60)
    <3>2. StoreTypeOK'
      BY <1>8, <2>v, <2>1, <3>1 DEF PassPivot, TypeOK, StoreTypeOK, ScopeTyped, RecordPivotPassed, bracketVars, queueVars, memberVars
    <3>3. SealedIn(job[w].scope) \cap Tcc \in SUBSET Vertex
      BY DEF SealedIn, Members
    <3>4. [job[w] EXCEPT !.pc = "confirm", !.todo = SealedIn(job[w].scope) \cap Tcc] \in Jobs
      BY <3>3, TodoFields, PcsListed, Zenon DEF TypeOK, RowPcs
    <3>5. job' \in [Worker -> Jobs]
      BY <2>1, <3>4 DEF TypeOK
    <3>6. JobShape'
      <4>1. \A x \in Worker \ {w} : job'[x] = job[x]
        BY <2>1 DEF TypeOK
      <4>2. job'[w].pc = "confirm" /\ job'[w].vertex = job[w].vertex /\ job'[w].scope = job[w].scope
        BY <2>1 DEF TypeOK, Jobs
      <4> QED BY <2>v, <4>1, <4>2, ConfirmShape
    <3> QED BY <1>8, <3>2, <3>5, <3>6 DEF TypeOK, PassPivot
  <2>2. CASE Quit(w) /\ UNCHANGED <<scopeVars, logVars>>
    <3>1. StoreTypeOK'
      BY <1>8, <2>2, QuitTyped DEF PassPivot, TypeOK, StoreTypeOK, scopeVars, logVars, bracketVars, queueVars, memberVars
    <3>2. JobShape'
      BY <2>2, QuitShape
    <3> QED BY <1>8, <2>2, <3>1, <3>2, QuitTyped, ZenonT(60) DEF TypeOK, StoreTypeOK, PassPivot
  <2> QED BY <1>8, <2>1, <2>2 DEF PassPivot
<1> QED BY <1>1, <1>2, <1>3, <1>4, <1>5, <1>6, <1>7, <1>8

\* confirmScope and the append that commits the scope.
LEMMA ConfirmTyped ==
  ASSUME TypeOK, NEW w \in Worker,
         NextConfirm(w) \/ RecordConfirmed(w) \/ SuspendConfirm(w) \/ CommitScope(w)
  PROVE  TypeOK'
<1>v. ASSUME NEW v \in Vertex PROVE ScopeOf[v] \in Scope \cup {None} /\ KeyOf[v] \in Key
  BY ShapeAssumption DEF ShapeAssumption
<1>s. ScopeTyped
  BY ZenonT(60) DEF TypeOK, StoreTypeOK, ScopeTyped
<1>1. CASE NextConfirm(w)
  <2>v. job[w].vertex \in Vertex /\ job[w].scope = ScopeOf[job[w].vertex] /\ job[w].scope \in Scope
    BY <1>1, ZenonT(60) DEF TypeOK, JobShape, RowPcs, InConfirm, At, NextConfirm
  <2>1. StoreTypeOK'
    BY <1>1, Zenon DEF TypeOK, StoreTypeOK, NextConfirm, storeVars, scopeVars, bracketVars, queueVars, memberVars, logVars
  <2>2. CASE Goto(w, "commit")
    <3>1. job' \in [Worker -> Jobs]
      BY <2>2, GotoTyped, PcsListed, ZenonT(60) DEF TypeOK, RowPcs
    <3>2. JobShape'
      BY <2>2, <2>v, GotoShape, ZenonT(60) DEF RowPcs
    <3> QED BY <1>1, <2>1, <3>1, <3>2, Zenon DEF TypeOK, NextConfirm
  <2>3. CASE \E v \in job[w].todo : StartCall(w, "confirm", v)
    <3>1. PICK v \in job[w].todo : StartCall(w, "confirm", v)
      BY <2>3
    <3>2. v \in Vertex /\ "confirm" \in Operations
      BY DEF TypeOK, Jobs, Operations
    <3>3. job' \in [Worker -> Jobs]
      BY <3>1, <3>2, StartCallTyped, ZenonT(60) DEF TypeOK
    <3>4. JobShape'
      BY <2>v, <3>1, <3>2, CallShape
    <3> QED BY <1>1, <2>1, <3>3, <3>4, ZenonT(60) DEF TypeOK, NextConfirm
  <2> QED BY <1>1, <2>2, <2>3, ZenonT(60) DEF NextConfirm
<1>2. CASE RecordConfirmed(w)
  <2>v. job[w].vertex \in Vertex /\ job[w].scope = ScopeOf[job[w].vertex] /\ job[w].scope \in Scope
    BY <1>2 DEF TypeOK, JobShape, RowPcs, InConfirm, InCall, CallPcs, Operations, At, RecordConfirmed
  <2>t. job[w].target \in Vertex
    BY <1>2 DEF TypeOK, JobShape, CallPcs, At, RecordConfirmed
  <2>1. bracket' \in [Key -> Brackets]
    <3>1. bracket[KeyOf[job[w].target]] \in Brackets
      BY <1>v, <2>t DEF TypeOK, StoreTypeOK
    <3>2. [bracket[KeyOf[job[w].target]] EXCEPT !.state = "confirmed"] \in Brackets
      BY <3>1 DEF Brackets, BracketStates
    <3> QED BY <1>2, <3>2, ZenonT(60) DEF RecordConfirmed, RecordConfirm, TypeOK, StoreTypeOK
  <2>2. StoreTypeOK'
    BY <1>2, <2>1, QuitTyped, ZenonT(60) DEF RecordConfirmed, TypeOK, StoreTypeOK, scopeVars, queueVars, memberVars, logVars
  <2>3. CASE Quit(w)
    BY <1>2, <2>2, <2>3, QuitTyped, QuitShape DEF TypeOK, StoreTypeOK, RecordConfirmed
  <2>4. CASE job' = [job EXCEPT ![w].pc = "confirm", ![w].todo = @ \ {job[w].target}]
    <3>1. job[w].todo \ {job[w].target} \in SUBSET Vertex
      BY DEF TypeOK, Jobs
    <3>2. [job[w] EXCEPT !.pc = "confirm", !.todo = job[w].todo \ {job[w].target}] \in Jobs
      BY <3>1, TodoFields, PcsListed, Zenon DEF TypeOK, RowPcs
    <3>3. job' \in [Worker -> Jobs]
      BY <2>4, <3>2, ZenonT(60) DEF TypeOK
    <3>4. JobShape'
      <4>1. job'[w].pc = "confirm" /\ job'[w].vertex = job[w].vertex /\ job'[w].scope = job[w].scope
        BY <2>4 DEF TypeOK, Jobs
      <4>2. \A x \in Worker \ {w} : job'[x] = job[x]
        BY <2>4, ZenonT(60) DEF TypeOK
      <4> QED BY <2>v, <4>1, <4>2, ConfirmShape
    <3> QED BY <1>2, <2>2, <3>3, <3>4 DEF TypeOK, RecordConfirmed
  <2> QED BY <1>2, <2>3, <2>4 DEF RecordConfirmed
<1>3. CASE SuspendConfirm(w)
  <2>v. job[w].vertex \in Vertex /\ job[w].scope = ScopeOf[job[w].vertex] /\ job[w].scope \in Scope
    BY <1>3, Zenon DEF TypeOK, JobShape, RowPcs, InConfirm, InCall, CallPcs, Operations, At, SuspendConfirm
  <2>1. StoreTypeOK'
    BY <1>3, <1>s, <2>v, CloseScopeTyped, Zenon DEF TypeOK, StoreTypeOK, scopeVars, bracketVars, queueVars, memberVars, logVars, storeVars, SuspendConfirm, ScopeTyped
  <2>2. job' \in [Worker -> Jobs]
    BY <1>3, GotoTyped, PcsListed, ZenonT(60) DEF TypeOK, SuspendConfirm, RowPcs
  <2>3. JobShape'
    BY <1>3, <2>v, GotoShape, ZenonT(60) DEF SuspendConfirm, RowPcs
  <2> QED BY <1>3, <2>1, <2>2, <2>3 DEF TypeOK, SuspendConfirm
<1>4. CASE CommitScope(w)
  <2>v. job[w].vertex \in Vertex /\ job[w].scope = ScopeOf[job[w].vertex] /\ job[w].scope \in Scope
    BY <1>4, ZenonT(60) DEF TypeOK, JobShape, RowPcs, InConfirm, InCall, CallPcs, Operations, At, CommitScope
  <2>1. StoreTypeOK'
    BY <1>4, <1>s, <2>v, CloseScopeTyped, ZenonT(60) DEF TypeOK, StoreTypeOK, scopeVars, bracketVars, queueVars, memberVars, logVars, storeVars, CommitScope, ScopeTyped
  <2>2. job' \in [Worker -> Jobs]
    BY <1>4, GotoTyped, PcsListed, ZenonT(60) DEF TypeOK, CommitScope, RowPcs
  <2>3. JobShape'
    BY <1>4, <2>v, GotoShape DEF CommitScope, RowPcs
  <2> QED BY <1>4, <2>1, <2>2, <2>3, ZenonT(60) DEF TypeOK, CommitScope
<1> QED BY <1>1, <1>2, <1>3, <1>4

\* processCancelRequest, Sweep, requestCancel and cancelScope.
LEMMA CancelTyped ==
  ASSUME TypeOK, NEW w \in Worker,
         \/ \E s \in Scope : PickRequest(w, s) \/ PickExpired(w, s) \/ PickStuck(w, s)
         \/ RequestScopeCancel(w) \/ ClaimCancelMember(w) \/ CompleteCancelMember(w)
         \/ SuspendCancel(w) \/ CompleteScopeCancel(w)
  PROVE  TypeOK'
<1>v. ASSUME NEW v \in Vertex PROVE ScopeOf[v] \in Scope \cup {None} /\ KeyOf[v] \in Key
  BY ShapeAssumption DEF ShapeAssumption
<1>s. ScopeTyped
  BY DEF TypeOK, StoreTypeOK, ScopeTyped
<1>1. CASE \E s \in Scope : PickRequest(w, s) \/ PickExpired(w, s) \/ PickStuck(w, s)
  <2>1. PICK s \in Scope, pc \in {"decide-engine", "decide-timeout", "cancel"} :
               /\ job[w].pc = "idle" /\ job' = [job EXCEPT ![w].pc = pc, ![w].scope = s]
               /\ UNCHANGED <<storeVars, effect, faults>>
    BY <1>1 DEF PickRequest, PickExpired, PickStuck, At
  <2>2. StoreTypeOK'
    BY <2>1 DEF TypeOK, StoreTypeOK, storeVars, scopeVars, bracketVars, queueVars, memberVars, logVars
  <2>3. pc \in Pcs
    BY <2>1 DEF Pcs
  <2>4. [job[w] EXCEPT !.pc = pc, !.scope = s] \in Jobs
    BY <2>3, ScopeFields, Zenon DEF TypeOK
  <2>5. job' \in [Worker -> Jobs]
    BY <2>1, <2>4 DEF TypeOK
  <2>6. JobShape'
    <3>1. job'[w].pc = pc /\ job'[w].scope = s
      BY <2>1 DEF TypeOK, Jobs
    <3>2. \A x \in Worker \ {w} : job'[x] = job[x]
      BY <2>1 DEF TypeOK
    <3> QED BY <2>1, <3>1, <3>2, ScopeShape, Zenon
  <2> QED BY <2>1, <2>2, <2>5, <2>6, ZenonT(60) DEF TypeOK
<1>2. CASE RequestScopeCancel(w)
  <2> DEFINE s == job[w].scope
  <2>1. s \in Scope
    BY <1>2, Zenon DEF TypeOK, JobShape, RequestScopeCancel
  <2>2. /\ UNCHANGED <<bracketVars, logVars, effect, faults>>
        /\ \/ RecordCancelRequested(s) /\ Goto(w, "cancel") /\ UNCHANGED attempts
           \/ /\ \E outcome \in Requests : Answered(s, outcome)
              /\ UNCHANGED <<state, fenced, pivot, phase, queueVars, memberVars>>
              /\ Quit(w) \/ (Goto(w, "cancel") /\ UNCHANGED attempts)
           \/ CloseScope(s, "suspended") /\ Quit(w) /\ UNCHANGED <<queueVars, memberVars>>
           \/ UNCHANGED <<scopeVars, queueVars, memberVars>> /\ Quit(w)
    BY <1>2, ZenonT(60) DEF RequestScopeCancel, Requests
  <2>3. ScopeTyped'
    BY <1>s, <2>1, <2>2, CancelStepTyped, CloseScopeTyped, AnsweredTyped, ZenonT(60) DEF ScopeTyped, scopeVars
  <2>4. /\ queued' \in SUBSET Vertex /\ claimed_by' \in [Vertex -> Worker \cup {None}] /\ leased' \in SUBSET Vertex
        /\ member' \in [Vertex -> {"none", "todo", "done"}] /\ member_by' \in [Vertex -> Worker \cup {None}]
        /\ member_leased' \in SUBSET Vertex
    <3>1. CASE RecordCancelRequested(s)
      <4>1. member' \in [Vertex -> {"none", "todo", "done"}] /\ UNCHANGED <<member_by, member_leased>>
        BY <3>1, Zenon DEF RecordCancelRequested, TypeOK, StoreTypeOK
      <4>2. /\ queued' \in SUBSET Vertex /\ claimed_by' \in [Vertex -> Worker \cup {None}]
            /\ leased' \in SUBSET Vertex
        BY <3>1, ZenonT(60) DEF RecordCancelRequested, DropRows, TypeOK, StoreTypeOK
      <4> QED BY <4>1, <4>2 DEF TypeOK, StoreTypeOK
    <3> QED BY <2>2, <3>1, ZenonT(60) DEF queueVars, memberVars, TypeOK, StoreTypeOK
  <2>5. job' \in [Worker -> Jobs] /\ attempts' \in SUBSET Attempts
    <3>1. "cancel" \in Pcs
      BY ZenonT(60) DEF Pcs
    <3> QED BY <2>2, <3>1, GotoTyped, QuitTyped DEF TypeOK, StoreTypeOK
  <2>6. StoreTypeOK'
    BY <2>2, <2>3, <2>4, <2>5, ZenonT(60) DEF ScopeTyped, TypeOK, StoreTypeOK, bracketVars, logVars
  <2>7. JobShape'
    <3>1. CASE Goto(w, "cancel")
      BY <2>1, <3>1, GotoJob, ScopeShape, ZenonT(60) DEF TypeOK
    <3> QED BY <2>2, <3>1, QuitShape
  <2> QED BY <2>2, <2>5, <2>6, <2>7 DEF TypeOK
<1>3. CASE ClaimCancelMember(w)
  <2>1. job[w].scope \in Scope
    BY <1>3, ZenonT(60) DEF TypeOK, JobShape, InCancel, At, ClaimCancelMember
  <2>2. CASE \E v \in ClaimableMembers(job[w].scope) : claim_cancel_member(w, v) /\ StartCall(w, "inverse", v)
    <3>1. PICK v \in ClaimableMembers(job[w].scope) : claim_cancel_member(w, v) /\ StartCall(w, "inverse", v)
      BY <2>2
    <3>2. v \in Vertex /\ "inverse" \in Operations
      BY ZenonT(60) DEF ClaimableMembers, IncompleteMembers, Members, Operations
    <3>3. StoreTypeOK'
      BY <1>3, <3>1, <3>2, ZenonT(60) DEF ClaimCancelMember, claim_cancel_member, TypeOK, StoreTypeOK, scopeVars, bracketVars, queueVars, logVars
    <3>4. job' \in [Worker -> Jobs]
      BY <3>1, <3>2, StartCallTyped, ZenonT(60) DEF TypeOK
    <3>5. JobShape'
      BY <2>1, <3>1, <3>2, CallShape, ZenonT(60)
    <3> QED BY <1>3, <3>3, <3>4, <3>5 DEF TypeOK, ClaimCancelMember
  <2>3. CASE Goto(w, "close") /\ UNCHANGED memberVars
    <3>1. StoreTypeOK'
      BY <1>3, <2>3 DEF ClaimCancelMember, TypeOK, StoreTypeOK, scopeVars, bracketVars, queueVars, logVars, memberVars
    <3>2. job' \in [Worker -> Jobs]
      <4>1. "close" \in Pcs
        BY DEF Pcs
      <4> QED BY <2>3, <4>1, GotoTyped DEF TypeOK
    <3>3. JobShape'
      BY <2>1, <2>3, GotoJob, ScopeShape, ZenonT(60) DEF TypeOK
    <3> QED BY <1>3, <3>1, <3>2, <3>3, ZenonT(60) DEF TypeOK, ClaimCancelMember
  <2> QED BY <1>3, <2>2, <2>3 DEF ClaimCancelMember
<1>4. CASE CompleteCancelMember(w)
  <2>1. job[w].scope \in Scope /\ job[w].target \in Vertex
    BY <1>4, Zenon DEF TypeOK, JobShape, InCancel, InCall, CallPcs, At, CompleteCancelMember
  <2>2. CASE complete_cancel_member(job[w].target) /\ Goto(w, "cancel") /\ UNCHANGED attempts
    <3>1. StoreTypeOK'
      BY <1>4, <2>1, <2>2, ZenonT(60) DEF CompleteCancelMember, complete_cancel_member, TypeOK, StoreTypeOK, scopeVars, bracketVars, queueVars, logVars
    <3>2. job' \in [Worker -> Jobs]
      <4>1. "cancel" \in Pcs
        BY DEF Pcs
      <4> QED BY <2>2, <4>1, GotoTyped DEF TypeOK
    <3>3. JobShape'
      BY <2>1, <2>2, GotoJob, ScopeShape, ZenonT(60) DEF TypeOK
    <3> QED BY <1>4, <3>1, <3>2, <3>3, Zenon DEF TypeOK, CompleteCancelMember
  <2>3. CASE Quit(w) /\ UNCHANGED memberVars
    <3>1. StoreTypeOK'
      BY <1>4, <2>3, QuitTyped, Zenon DEF CompleteCancelMember, TypeOK, StoreTypeOK, scopeVars, bracketVars, queueVars, logVars, memberVars
    <3> QED BY <1>4, <2>3, <3>1, QuitTyped, QuitShape, Zenon DEF TypeOK, StoreTypeOK, CompleteCancelMember
  <2> QED BY <1>4, <2>2, <2>3, Zenon DEF CompleteCancelMember
<1>5. CASE SuspendCancel(w)
  <2>1. job[w].scope \in Scope
    BY <1>5, Zenon DEF TypeOK, JobShape, InCancel, InCall, CallPcs, At, SuspendCancel
  <2>2. ScopeTyped'
    BY <1>5, <1>s, <2>1, CloseScopeTyped, ZenonT(60) DEF SuspendCancel
  <2>3. StoreTypeOK'
    BY <1>5, <2>2, QuitTyped, ZenonT(60) DEF SuspendCancel, ScopeTyped, TypeOK, StoreTypeOK, bracketVars, queueVars, memberVars, logVars
  <2> QED BY <1>5, <2>3, QuitTyped, QuitShape, Zenon DEF TypeOK, StoreTypeOK, SuspendCancel
<1>6. CASE CompleteScopeCancel(w)
  <2>1. job[w].scope \in Scope
    BY <1>6, ZenonT(60) DEF TypeOK, JobShape, InCancel, At, CompleteScopeCancel
  <2>2. ScopeTyped'
    BY <1>6, <1>s, <2>1, CancelStepTyped DEF CompleteScopeCancel, ScopeTyped, scopeVars
  <2>3. bracket' \in [Key -> Brackets] /\ expired' = expired
    <3>1. ASSUME NEW k \in Key PROVE [bracket[k] EXCEPT !.state = "cancelled"] \in Brackets
      BY <3>1 DEF TypeOK, StoreTypeOK, Brackets, BracketStates
    <3>2. CASE RecordCancelCompleted(job[w].scope)
      <4>1. bracket' \in [Key -> Brackets]
        BY <3>1, <3>2, ZenonT(60) DEF RecordCancelCompleted, TypeOK, StoreTypeOK
      <4> QED BY <3>2, <4>1, Zenon DEF RecordCancelCompleted
    <3>3. CASE UNCHANGED bracketVars
      BY <3>3 DEF bracketVars, TypeOK, StoreTypeOK
    <3> QED BY <1>6, <3>2, <3>3, Zenon DEF CompleteScopeCancel
  <2>4. StoreTypeOK'
    BY <1>6, <2>2, <2>3, QuitTyped, ZenonT(60) DEF CompleteScopeCancel, ScopeTyped, TypeOK, StoreTypeOK, queueVars, memberVars, logVars
  <2> QED BY <1>6, <2>4, QuitTyped, QuitShape, Zenon DEF TypeOK, StoreTypeOK, CompleteScopeCancel
<1> QED BY <1>1, <1>2, <1>3, <1>4, <1>5, <1>6

\* Crashes, leases, deadlines, late effects and the Engine's request.
LEMMA AroundTyped ==
  ASSUME TypeOK,
         \/ \E w \in Worker : Crash(w)
         \/ \E v \in Vertex : DeadLeaseExpires(v) \/ DeadMemberLeaseExpires(v) \/ LeaseOverrun(v)
         \/ \E k \in Key : DeadlinePasses(k)
         \/ \E a \in attempts : EffectLands(a)
         \/ \E s \in Scope : EngineRequest(s)
  PROVE  TypeOK'
<1>v. ASSUME NEW v \in Vertex PROVE ScopeOf[v] \in Scope \cup {None} /\ KeyOf[v] \in Key
  BY ShapeAssumption, ZenonT(60) DEF ShapeAssumption
<1>s. ScopeTyped
  BY DEF TypeOK, StoreTypeOK, ScopeTyped
<1>j. UNCHANGED job => JobShape'
  BY ZenonT(60) DEF TypeOK, JobShape, InCall, InPivot, InConfirm, InCancel
<1>1. ASSUME NEW w \in Worker, Crash(w) PROVE TypeOK'
  <2>1. StoreTypeOK'
    BY <1>1, QuitTyped DEF Crash, TypeOK, StoreTypeOK, scopeVars, bracketVars, queueVars, memberVars, logVars
  <2>2. faults' \in 0..MaxFaults
    <3>1. faults' = faults + 1 /\ faults < MaxFaults /\ faults \in 0..MaxFaults
      BY <1>1, Zenon DEF Crash, TypeOK
    <3> QED BY <3>1, BoundsAssumption
  <2>3. job' \in [Worker -> Jobs] /\ JobShape'
    BY <1>1, QuitTyped, QuitShape, ZenonT(60) DEF Crash, TypeOK, StoreTypeOK
  <2> QED BY <1>1, <2>1, <2>2, <2>3, Zenon DEF Crash, TypeOK
<1>2. ASSUME NEW v \in Vertex, DeadLeaseExpires(v) PROVE TypeOK'
  BY <1>2, <1>j, ZenonT(60) DEF DeadLeaseExpires, TypeOK, StoreTypeOK, scopeVars, bracketVars, memberVars, logVars
<1>3. ASSUME NEW v \in Vertex, DeadMemberLeaseExpires(v) PROVE TypeOK'
  BY <1>3, <1>j, ZenonT(60) DEF DeadMemberLeaseExpires, TypeOK, StoreTypeOK, scopeVars, bracketVars, queueVars, logVars
<1>4. ASSUME NEW v \in Vertex, LeaseOverrun(v) PROVE TypeOK'
  <2>1. faults' \in 0..MaxFaults
    <3>1. faults' = faults + 1 /\ faults < MaxFaults /\ faults \in 0..MaxFaults
      BY <1>4, Zenon DEF LeaseOverrun, TypeOK
    <3> QED BY <3>1, BoundsAssumption
  <2> QED BY <1>4, <1>j, <2>1 DEF LeaseOverrun, TypeOK, StoreTypeOK, scopeVars, bracketVars, logVars
<1>5. ASSUME NEW k \in Key, DeadlinePasses(k) PROVE TypeOK'
  BY <1>5, <1>j DEF DeadlinePasses, TypeOK, StoreTypeOK, scopeVars, queueVars, memberVars, logVars
<1>6. ASSUME NEW a \in attempts, EffectLands(a) PROVE TypeOK'
  <2>1. a.vertex \in Vertex /\ a.op \in Operations
    BY DEF TypeOK, StoreTypeOK, Attempts
  <2>2. ASSUME NEW e \in Effects PROVE Applied(a.op, e) \in Effects
    BY <2>1, <2>2, ZenonT(60) DEF Applied, Effects, Operations
  <2>3. effect' \in [Key -> Effects]
    BY <1>6, <1>v, <2>1, <2>2, ZenonT(60) DEF EffectLands, TypeOK
  <2> QED BY <1>6, <1>j, <2>3, Zenon DEF EffectLands, TypeOK, StoreTypeOK, storeVars, scopeVars, bracketVars, queueVars, memberVars, logVars
<1>7. ASSUME NEW s \in Scope, EngineRequest(s) PROVE TypeOK'
  <2>1. ScopeTyped'
    BY <1>7, <1>s, CancelStepTyped, Zenon DEF EngineRequest
  <2> QED BY <1>7, <1>j, <2>1 DEF EngineRequest, ScopeTyped, TypeOK, StoreTypeOK, bracketVars, queueVars, memberVars, logVars
<1> QED BY <1>1, <1>2, <1>3, <1>4, <1>5, <1>6, <1>7, ZenonT(60)

\* Type correctness: every table keeps the types its columns declare, every process a job record
\* that names the row or scope its position needs, and no call exceeds RetryPolicy.max_attempts.
THEOREM TypeCorrect == Spec => []TypeOK
<1>1. Init => TypeOK
  <2> SUFFICES ASSUME Init PROVE TypeOK
    OBVIOUS
  <2>1. StoreTypeOK
    <3>1. NoBracket \in Brackets
      BY DEF NoBracket, Brackets, BracketStates
    <3> QED BY <3>1 DEF Init, StoreInit, StoreTypeOK, States, Requests, Phases
  <2>2. job \in [Worker -> Jobs] /\ JobShape
    BY IdleTyped, Zenon DEF Init, JobShape, Idle, InCall, InPivot, InConfirm, InCancel, CallPcs, RowPcs
  <2> QED BY <2>1, <2>2, BoundsAssumption DEF Init, TypeOK, Effects
<1>2. TypeOK /\ [Next]_vars => TypeOK'
  <2> SUFFICES ASSUME TypeOK, [Next]_vars PROVE TypeOK'
    OBVIOUS
  <2>1. CASE UNCHANGED vars
    BY <2>1, ZenonT(60) DEF vars, storeVars, scopeVars, bracketVars, queueVars, memberVars, logVars, TypeOK, StoreTypeOK, JobShape, InCall, InPivot, InConfirm, InCancel
  <2>2. ASSUME NEW w \in Worker, Claim(w) \/ Handler(w) PROVE TypeOK'
    BY <2>2, RegularTyped, CallTyped, PivotTyped, ConfirmTyped, CancelTyped DEF Handler
  <2>3. ASSUME NEW w \in Worker, \E s \in Scope : PickRequest(w, s) \/ PickExpired(w, s) \/ PickStuck(w, s)
        PROVE TypeOK'
    BY <2>3, CancelTyped
  <2> QED BY <2>1, <2>2, <2>3, AroundTyped DEF Next
<1> QED BY <1>1, <1>2, PTL DEF Spec
=============================================================================
