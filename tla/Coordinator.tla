---------------------------- MODULE Coordinator ----------------------------
(***************************************************************************)
(* The Distributed Transaction Coordinator: worker processes that claim    *)
(* queued vertices, call tools through the gateway, and drive every scope  *)
(* to committed, cancelled or suspended (coordinator/internal/coordinator/ *)
(* service.go) against the tables of module TxnStore.                      *)
(*                                                                         *)
(* A worker is one goroutine: job[w] is where it stands in the call it is  *)
(* making.  One action is one database transaction or one tool call;       *)
(* everything else (other workers, the Engine, deadlines, lease expiry, a  *)
(* crash) may happen between two of them.                                  *)
(***************************************************************************)
EXTENDS TxnStore

CONSTANTS
    MaxAttempts,  \* RetryPolicy.max_attempts
    MaxFaults     \* bound: crashes, and leases lost by a process still at work

ASSUME BoundsAssumption == MaxAttempts \in Nat \ {0} /\ MaxFaults \in Nat

VARIABLES
    effect,  \* what the tool behind each idempotency key has really done
    job,     \* each process's position
    faults   \* faults spent

vars == <<storeVars, effect, job, faults>>

Effects == {"none", "done", "confirmed", "undone", "void"}

Pcs == {"idle", "claimed", "owner", "dispatch", "calling", "answered", "refuse",
        "complete", "admit", "release", "resolve-occurred", "resolve-absent", "reopen",
        "fail-absent", "confirm", "commit", "decide-engine", "decide-timeout",
        "cancel", "close"}

Results == {"none", "succeeded", "failed", "unknown", "occurred", "absent", "invalid"}

\* vertex: the claimed row; target: the vertex the tool call is about; todo: confirms left.
Jobs == [pc : Pcs, vertex : Vertex \cup {None}, scope : Scope \cup {None},
         op : Operations \cup {"none"}, target : Vertex \cup {None}, tries : 0..(MaxAttempts - 1),
         res : Results,
         todo : SUBSET Vertex]

Idle == [pc |-> "idle", vertex |-> None, scope |-> None, op |-> "none", target |-> None,
         tries |-> 0, res |-> "none", todo |-> {}]

\* Where a process stands in the work it does.
CallPcs == {"dispatch", "calling", "answered"}
RowPcs == {"claimed", "owner", "refuse", "complete", "admit", "release", "resolve-occurred",
           "resolve-absent", "reopen", "fail-absent", "confirm", "commit"}

InCall(w, ops) == job[w].pc \in CallPcs /\ job[w].op \in ops

InPivot(w) ==
    InCall(w, {"pivot", "status"}) \/ job[w].pc \in {"resolve-occurred", "resolve-absent", "reopen"}

InConfirm(w) == InCall(w, {"confirm"}) \/ job[w].pc \in {"confirm", "commit"}

InCancel(w) == InCall(w, {"inverse"}) \/ job[w].pc \in {"cancel", "close"}

\* A call has an operation and a target, a claimed row a vertex and its scope, a scope handler a scope.
JobShape ==
    \A w \in Worker :
        /\ job[w].pc \in CallPcs \cup {"resolve-occurred"} => job[w].op \in Operations /\ job[w].target \in Vertex
        /\ job[w].pc \in RowPcs \/ InCall(w, Operations \ {"inverse"}) =>
            job[w].vertex \in Vertex /\ job[w].scope = ScopeOf[job[w].vertex]
        /\ InPivot(w) \/ InConfirm(w) \/ InCancel(w)
           \/ job[w].pc \in {"admit", "decide-engine", "decide-timeout"} => job[w].scope \in Scope

TypeOK ==
    /\ StoreTypeOK
    /\ effect \in [Key -> Effects]
    /\ job \in [Worker -> Jobs] /\ JobShape
    /\ faults \in 0..MaxFaults

Init ==
    /\ StoreInit
    /\ effect = [k \in Key |-> "none"]
    /\ job = [w \in Worker |-> Idle]
    /\ faults = 0

At(w, pc) == job[w].pc = pc

Goto(w, pc) == job' = [job EXCEPT ![w].pc = pc]

\* executeWithRetry: the first attempt at op on target.
StartCall(w, op, target) ==
    job' = [job EXCEPT ![w].pc = "dispatch", ![w].op = op, ![w].target = target,
                       ![w].tries = 0, ![w].res = "none"]

\* The handler returns, with or without an error: what it knew of its attempts is gone.
Quit(w) ==
    /\ job' = [job EXCEPT ![w] = Idle]
    /\ attempts' = Forget(w)
-----------------------------------------------------------------------------
(* ProcessOne and processRegular                                           *)

\* processCancelRequest went first (PickRequest); a request that failed there, or that arrived
\* after its list was read, is passed over, so a claim may meet one still pending.
Claim(w) ==
    /\ At(w, "idle")
    /\ \E v \in Vertex :
        /\ Claimable(v)
        /\ claim_ready_work(w, v)
        /\ job' = [job EXCEPT ![w] = [Idle EXCEPT !.pc = "claimed", !.vertex = v, !.scope = ScopeOf[v]]]
    /\ UNCHANGED <<scopeVars, bracketVars, memberVars, attempts, logVars, effect, faults>>

PassBarrier(w) ==
    /\ At(w, "claimed") /\ job[w].vertex \in Barrier
    /\ succeeded' = succeeded \cup {job[w].vertex}
    /\ Goto(w, "complete")
    /\ UNCHANGED <<scopeVars, bracketVars, queueVars, memberVars, attempts, failed, effect, faults>>

EnsureScope(w) ==
    /\ At(w, "claimed") /\ job[w].vertex \notin Barrier
    /\ ensure_txn_scope(job[w].scope)
    /\ \/ job[w].vertex \in Pivot /\ job[w].scope = None /\ Goto(w, "refuse")
       \/ job[w].vertex \in Pivot /\ job[w].scope # None /\ Goto(w, "admit")
       \/ job[w].vertex \in Try /\ Goto(w, "owner")
       \/ job[w].vertex \notin Try \cup Pivot /\ StartCall(w, "call", job[w].vertex)
    /\ UNCHANGED <<bracketVars, queueVars, memberVars, attempts, logVars, effect, faults>>

\* A try already sealed by this vertex only lost its row's completion.
CheckOwner(w) ==
    /\ At(w, "owner")
    /\ LET v == job[w].vertex
           owner == BracketOwner(v)
       IN  \/ owner = v /\ Goto(w, "complete")
           \/ owner \notin {v, None} /\ Goto(w, "refuse")
           \/ owner = None /\ StartCall(w, "call", v)
    /\ UNCHANGED <<storeVars, effect, faults>>

RecordTrySuccess(w) ==
    /\ At(w, "answered") /\ job[w].op = "call" /\ job[w].res = "succeeded"
    /\ job[w].vertex \in Try
    /\ \/ BracketOwner(job[w].vertex) = None /\ RecordTry(job[w].vertex) /\ Goto(w, "complete")
       \/ BracketOwner(job[w].vertex) # None /\ Goto(w, "refuse")
          /\ UNCHANGED <<scopeVars, bracketVars, logVars>>
    /\ UNCHANGED <<queueVars, memberVars, attempts, effect, faults>>

RecordPlainSuccess(w) ==
    /\ At(w, "answered") /\ job[w].op = "call" /\ job[w].res = "succeeded"
    /\ job[w].vertex \notin Try
    /\ succeeded' = succeeded \cup {job[w].vertex}
    /\ Goto(w, "complete")
    /\ UNCHANGED <<scopeVars, bracketVars, queueVars, memberVars, attempts, failed, effect, faults>>

RecordFailure(w) ==
    /\ \/ At(w, "answered") /\ job[w].op = "call" /\ job[w].res # "succeeded"
       \/ At(w, "refuse")
    /\ RecordFailed(job[w].vertex, "vertex/failed")
    /\ Goto(w, "complete")
    /\ UNCHANGED <<bracketVars, queueVars, memberVars, attempts, effect, faults>>

\* complete_work raises when another process has the row; either way the handler ends.
CompleteWork(w) ==
    /\ At(w, "complete")
    /\ IF HoldsRow(w, job[w].vertex) THEN DropRows({job[w].vertex}) ELSE UNCHANGED queueVars
    /\ Quit(w)
    /\ UNCHANGED <<scopeVars, bracketVars, memberVars, logVars, effect, faults>>
-----------------------------------------------------------------------------
(* executeWithRetry                                                        *)

CurrentAttempt(w) == [vertex |-> job[w].target, op |-> job[w].op, holder |-> w]

\* A confirm is about one bracket of the scope; the pivot's row is what authorizes it.
RecordAttemptStart(w) ==
    /\ At(w, "dispatch")
    /\ IF MayStartAttempt(w, job[w].op, job[w].target, job[w].vertex)
       THEN /\ attempts' = attempts \cup {CurrentAttempt(w)}
            /\ Goto(w, "calling")
       ELSE Quit(w)
    /\ UNCHANGED <<scopeVars, bracketVars, queueVars, memberVars, logVars, effect, faults>>

\* The tool behind the gateway, idempotent by key.
Applied(op, e) ==
    CASE op \in {"call", "pivot"} /\ e \in {"none", "undone"} -> "done"
      [] op = "confirm" /\ e = "done" -> "confirmed"
      [] op = "inverse" /\ e \in {"none", "done"} -> "undone"
      [] OTHER -> e

\* A tool answers with a failure only when it has not done what was asked.
MayFail(op, e) ==
    CASE op \in {"call", "pivot"} -> e \notin {"done", "confirmed"}
      [] op = "confirm" -> e # "confirmed"
      [] op = "inverse" -> e # "undone"
      [] OTHER -> TRUE

Resolved(w) == attempts' = attempts \ {CurrentAttempt(w)}

Respond(w, res) == job' = [job EXCEPT ![w].pc = "answered", ![w].res = res]

ToolSucceeds(w) ==
    /\ job[w].op # "status"
    /\ effect' = [effect EXCEPT ![KeyOf[job[w].target]] = Applied(job[w].op, @)]
    /\ Resolved(w) /\ Respond(w, "succeeded")

\* Mutant: one attempt more than the policy allows.
ToolFails_OneMore(w) ==
    /\ MayFail(job[w].op, effect[KeyOf[job[w].target]])
    /\ Resolved(w)
    /\ \/ Respond(w, "failed")
       \/ /\ job[w].tries < MaxAttempts
          /\ job' = [job EXCEPT ![w].pc = "dispatch", ![w].tries = @ + 1]
    /\ UNCHANGED effect

\* The last retryable failure of the policy is returned like a permanent one.
ToolFails(w) ==
    /\ MayFail(job[w].op, effect[KeyOf[job[w].target]])
    /\ Resolved(w)
    /\ \/ Respond(w, "failed")
       \/ /\ job[w].tries + 1 < MaxAttempts
          /\ job' = [job EXCEPT ![w].pc = "dispatch", ![w].tries = @ + 1]
    /\ UNCHANGED effect

\* An unknown outcome is not an answer: the attempt stays unresolved.
ToolUnknown(w) == Respond(w, "unknown") /\ UNCHANGED <<attempts, effect>>

\* A status tool's denial is definitive: the pivot will not happen under this key any more.
StatusAnswers(w) ==
    LET k == KeyOf[job[w].target]
    IN  /\ job[w].op = "status"
        /\ Resolved(w)
        /\ \/ Respond(w, "invalid") /\ UNCHANGED effect
           \/ effect[k] = "done" /\ Respond(w, "occurred") /\ UNCHANGED effect
           \/ effect[k] # "done" /\ Respond(w, "absent") /\ effect' = [effect EXCEPT ![k] = "void"]

Execute(w) ==
    /\ At(w, "calling")
    /\ ToolSucceeds(w) \/ ToolFails(w) \/ ToolUnknown(w) \/ StatusAnswers(w)
    /\ UNCHANGED <<scopeVars, bracketVars, queueVars, memberVars, logVars, faults>>
-----------------------------------------------------------------------------
(* processPivot and confirmScope                                           *)

AdmitPivot(w) ==
    /\ At(w, "admit")
    /\ IF PivotAdmissible(job[w].scope)
       THEN admit_pivot(job[w].vertex) /\ StartCall(w, "pivot", job[w].vertex)
       ELSE Goto(w, "release") /\ UNCHANGED scopeVars
    /\ UNCHANGED <<bracketVars, queueVars, memberVars, attempts, logVars, effect, faults>>

ReleaseWork(w) ==
    /\ At(w, "release")
    /\ IF HoldsRow(w, job[w].vertex) THEN release_work(job[w].vertex) ELSE UNCHANGED queueVars
    /\ Quit(w)
    /\ UNCHANGED <<scopeVars, bracketVars, memberVars, logVars, effect, faults>>

PivotAnswered(w, results) ==
    At(w, "answered") /\ job[w].op = "pivot" /\ job[w].res \in results

StatusAnswered(w, results) ==
    At(w, "answered") /\ job[w].op = "status" /\ job[w].res \in results

\* Mutant: an unknown outcome is taken for absence, and no status is asked.
BranchOnPivot_UnknownIsAbsent(w) ==
    /\ \/ PivotAnswered(w, {"failed", "unknown"}) /\ Goto(w, "resolve-absent")
       \/ StatusAnswered(w, {"occurred"}) /\ Goto(w, "resolve-occurred")
       \/ StatusAnswered(w, {"absent"}) /\ Goto(w, "resolve-absent")
    /\ UNCHANGED <<storeVars, effect, faults>>

\* Only an unknown pivot is asked about; any other failure is taken as proof of absence.
BranchOnPivot(w) ==
    /\ \/ /\ PivotAnswered(w, {"unknown"}) /\ job[w].vertex \in StatusTool
          /\ StartCall(w, "status", job[w].vertex)
       \/ PivotAnswered(w, {"failed"}) /\ Goto(w, "reopen")
       \/ StatusAnswered(w, {"occurred"}) /\ Goto(w, "resolve-occurred")
       \/ StatusAnswered(w, {"absent"}) /\ Goto(w, "resolve-absent")
    /\ UNCHANGED <<storeVars, effect, faults>>

\* The status answer is written onto the pivot's own attempt.
ResolvePivotAttempt(w) ==
    /\ \/ At(w, "resolve-occurred")
          /\ job' = [job EXCEPT ![w].pc = "answered", ![w].op = "pivot", ![w].res = "succeeded"]
       \/ At(w, "resolve-absent") /\ Goto(w, "reopen")
    /\ attempts' = attempts \ {[vertex |-> job[w].vertex, op |-> "pivot", holder |-> w]}
    /\ UNCHANGED <<scopeVars, bracketVars, queueVars, memberVars, logVars, effect, faults>>

ResolvePivotAbsent(w) ==
    /\ At(w, "reopen")
    /\ IF PivotInFlight(job[w].vertex)
       THEN resolve_pivot_absent(job[w].vertex) /\ Goto(w, "fail-absent") /\ UNCHANGED attempts
       ELSE Quit(w) /\ UNCHANGED scopeVars
    /\ UNCHANGED <<bracketVars, queueVars, memberVars, logVars, effect, faults>>

FailAbsentPivot(w) ==
    /\ At(w, "fail-absent")
    /\ RecordFailed(job[w].vertex, "vertex/failed absent")
    /\ Goto(w, "complete")
    /\ UNCHANGED <<bracketVars, queueVars, memberVars, attempts, effect, faults>>

\* vertex/failed and txn/scope suspended in one append; no scope is open here to be fenced.
SuspendPivot(w) ==
    /\ \/ PivotAnswered(w, {"unknown"}) /\ job[w].vertex \notin StatusTool
       \/ StatusAnswered(w, {"failed", "unknown", "invalid"})
    /\ failed' = failed \cup {job[w].vertex}
    /\ CloseScope(job[w].scope, "suspended")
    /\ Goto(w, "complete")
    /\ UNCHANGED <<bracketVars, queueVars, memberVars, attempts, succeeded, effect, faults>>

\* confirmScope's list of brackets is read after the append, and nothing can change it between.
PassPivot(w) ==
    /\ PivotAnswered(w, {"succeeded"})
    /\ IF PivotInFlight(job[w].vertex)
       THEN /\ RecordPivotPassed(job[w].vertex)
            /\ job' = [job EXCEPT ![w].pc = "confirm", ![w].todo = SealedIn(job[w].scope) \cap Tcc]
            /\ UNCHANGED attempts
       ELSE Quit(w) /\ UNCHANGED <<scopeVars, logVars>>
    /\ UNCHANGED <<bracketVars, queueVars, memberVars, effect, faults>>

\* Mutant: the scope closes before its list of confirms is done.
NextConfirm_EarlyCommit(w) ==
    /\ At(w, "confirm")
    /\ \/ \E v \in job[w].todo : StartCall(w, "confirm", v)
       \/ Goto(w, "commit")
    /\ UNCHANGED <<storeVars, effect, faults>>

NextConfirm(w) ==
    /\ At(w, "confirm")
    /\ \/ \E v \in job[w].todo : StartCall(w, "confirm", v)
       \/ job[w].todo = {} /\ Goto(w, "commit")
    /\ UNCHANGED <<storeVars, effect, faults>>

RecordConfirmed(w) ==
    /\ At(w, "answered") /\ job[w].op = "confirm" /\ job[w].res = "succeeded"
    /\ IF Sealed(job[w].target)
       THEN /\ RecordConfirm(job[w].target)
            /\ job' = [job EXCEPT ![w].pc = "confirm", ![w].todo = @ \ {job[w].target}]
            /\ UNCHANGED attempts
       ELSE Quit(w) /\ UNCHANGED bracket
    /\ UNCHANGED <<scopeVars, expired, queueVars, memberVars, logVars, effect, faults>>

SuspendConfirm(w) ==
    /\ At(w, "answered") /\ job[w].op = "confirm" /\ job[w].res # "succeeded"
    /\ CloseScope(job[w].scope, "suspended")
    /\ Goto(w, "complete")
    /\ UNCHANGED <<bracketVars, queueVars, memberVars, attempts, logVars, effect, faults>>

CommitScope(w) ==
    /\ At(w, "commit")
    /\ CloseScope(job[w].scope, "committed")
    /\ Goto(w, "complete")
    /\ UNCHANGED <<bracketVars, queueVars, memberVars, attempts, logVars, effect, faults>>
-----------------------------------------------------------------------------
(* processCancelRequest, Sweep, requestCancel and cancelScope              *)

\* Mutant: a deferred request does not come round again.
PickRequest_PendingOnly(w, s) ==
    /\ At(w, "idle")
    /\ request[s] = "pending" /\ state[s] = "open"
    /\ job' = [job EXCEPT ![w].pc = "decide-engine", ![w].scope = s]
    /\ UNCHANGED <<storeVars, effect, faults>>

\* Candidates are read without a lock; the decision is taken later, under one.
PickRequest(w, s) ==
    /\ At(w, "idle")
    /\ request[s] \in {"pending", "deferred"} /\ state[s] = "open"
    /\ job' = [job EXCEPT ![w].pc = "decide-engine", ![w].scope = s]
    /\ UNCHANGED <<storeVars, effect, faults>>

PickExpired(w, s) ==
    /\ At(w, "idle")
    /\ state[s] = "open" /\ HasExpiredTry(s)
    /\ job' = [job EXCEPT ![w].pc = "decide-timeout", ![w].scope = s]
    /\ UNCHANGED <<storeVars, effect, faults>>

\* Mutant: the empty-member case is forgotten.
PickStuck_WithMembers(w, s) ==
    /\ At(w, "idle")
    /\ state[s] = "cancelling" /\ IncompleteMembers(s) # {} /\ IncompleteMembers(s) \cap member_leased = {}
    /\ job' = [job EXCEPT ![w].pc = "cancel", ![w].scope = s]
    /\ UNCHANGED <<storeVars, effect, faults>>

\* StuckCancellations: cancelling, and no incomplete member under a live lease.
PickStuck(w, s) ==
    /\ At(w, "idle")
    /\ state[s] = "cancelling" /\ IncompleteMembers(s) \cap member_leased = {}
    /\ job' = [job EXCEPT ![w].pc = "cancel", ![w].scope = s]
    /\ UNCHANGED <<storeVars, effect, faults>>

RequestScopeCancel(w) ==
    /\ job[w].pc \in {"decide-engine", "decide-timeout"}
    /\ LET s == job[w].scope
           decision == CancelDecision(s, IF At(w, "decide-engine") THEN "engine" ELSE "timeout")
       IN  \/ /\ decision = "requested" /\ RecordCancelRequested(s)
              /\ Goto(w, "cancel") /\ UNCHANGED attempts
           \/ /\ decision = "duplicate" /\ Answered(s, "duplicate")
              /\ Goto(w, "cancel") /\ UNCHANGED <<attempts, state, fenced, pivot, phase, queueVars, memberVars>>
           \/ /\ decision = "suspend" /\ CloseScope(s, "suspended")
              /\ Quit(w) /\ UNCHANGED <<queueVars, memberVars>>
           \/ /\ decision \in {"already-suspended", "deferred"}
              /\ Answered(s, IF decision = "deferred" THEN "deferred" ELSE "suspended")
              /\ Quit(w) /\ UNCHANGED <<state, fenced, pivot, phase, queueVars, memberVars>>
           \/ /\ decision \in {"raise", "ineligible"}
              /\ Quit(w) /\ UNCHANGED <<scopeVars, queueVars, memberVars>>
    /\ UNCHANGED <<bracketVars, logVars, effect, faults>>

ClaimCancelMember(w) ==
    /\ At(w, "cancel")
    /\ LET next == ClaimableMembers(job[w].scope)
       IN  \/ \E v \in next : claim_cancel_member(w, v) /\ StartCall(w, "inverse", v)
           \/ next = {} /\ Goto(w, "close") /\ UNCHANGED memberVars
    /\ UNCHANGED <<scopeVars, bracketVars, queueVars, attempts, logVars, effect, faults>>

CompleteCancelMember(w) ==
    /\ At(w, "answered") /\ job[w].op = "inverse" /\ job[w].res = "succeeded"
    /\ IF member_by[job[w].target] = w
       THEN complete_cancel_member(job[w].target) /\ Goto(w, "cancel") /\ UNCHANGED attempts
       ELSE Quit(w) /\ UNCHANGED memberVars
    /\ UNCHANGED <<scopeVars, bracketVars, queueVars, logVars, effect, faults>>

SuspendCancel(w) ==
    /\ At(w, "answered") /\ job[w].op = "inverse" /\ job[w].res # "succeeded"
    /\ CloseScope(job[w].scope, "suspended")
    /\ Quit(w)
    /\ UNCHANGED <<bracketVars, queueVars, memberVars, logVars, effect, faults>>

\* Mutant: a cancellation closes over members another process still works on.
CompleteScopeCancel_MembersLeft(w) ==
    /\ At(w, "close")
    /\ LET s == job[w].scope
       IN  IF state[s] = "cancelling"
           THEN RecordCancelCompleted(s) ELSE UNCHANGED <<scopeVars, bracketVars>>
    /\ Quit(w)
    /\ UNCHANGED <<queueVars, memberVars, logVars, effect, faults>>

\* Mutant: the completion does not look at the scope's state.
CompleteScopeCancel_AnyState(w) ==
    /\ At(w, "close")
    /\ LET s == job[w].scope
       IN  IF IncompleteMembers(s) = {}
           THEN RecordCancelCompleted(s) ELSE UNCHANGED <<scopeVars, bracketVars>>
    /\ Quit(w)
    /\ UNCHANGED <<queueVars, memberVars, logVars, effect, faults>>

CompleteScopeCancel(w) ==
    /\ At(w, "close")
    /\ LET s == job[w].scope
       IN  IF state[s] = "cancelling" /\ IncompleteMembers(s) = {}
           THEN RecordCancelCompleted(s) ELSE UNCHANGED <<scopeVars, bracketVars>>
    /\ Quit(w)
    /\ UNCHANGED <<queueVars, memberVars, logVars, effect, faults>>
-----------------------------------------------------------------------------
(* What happens around the workers                                         *)

\* A process dies, or its handler returns a transport or database error.
Crash(w) ==
    /\ ~At(w, "idle") /\ faults < MaxFaults
    /\ Quit(w)
    /\ faults' = faults + 1
    /\ UNCHANGED <<scopeVars, bracketVars, queueVars, memberVars, logVars, effect>>

AtWork(v) == \E w \in Worker : claimed_by[v] = w /\ job[w].vertex = v

AtWorkOnMember(v) ==
    \E w \in Worker : member_by[v] = w /\ job[w].target = v /\ job[w].op = "inverse"

\* A lease nobody works under runs out by itself.
DeadLeaseExpires(v) ==
    /\ v \in leased /\ ~AtWork(v)
    /\ leased' = leased \ {v}
    /\ UNCHANGED <<scopeVars, bracketVars, queued, claimed_by, memberVars, attempts, logVars, effect, job, faults>>

DeadMemberLeaseExpires(v) ==
    /\ v \in member_leased /\ ~AtWorkOnMember(v)
    /\ member_leased' = member_leased \ {v}
    /\ UNCHANGED <<scopeVars, bracketVars, queueVars, member, member_by, attempts, logVars, effect, job, faults>>

\* A call and its retries outlast the lease of the process that makes them.
LeaseOverrun(v) ==
    /\ faults < MaxFaults /\ faults' = faults + 1
    /\ \/ v \in leased /\ AtWork(v) /\ leased' = leased \ {v} /\ UNCHANGED member_leased
       \/ v \in member_leased /\ AtWorkOnMember(v) /\ member_leased' = member_leased \ {v} /\ UNCHANGED leased
    /\ UNCHANGED <<scopeVars, bracketVars, queued, claimed_by, member, member_by, attempts, logVars, effect, job>>

DeadlinePasses(k) ==
    /\ bracket[k].state = "sealed" /\ k \notin expired
    /\ expired' = expired \cup {k}
    /\ UNCHANGED <<scopeVars, bracket, queueVars, memberVars, attempts, logVars, effect, job, faults>>

\* A request sent and never answered for may still reach its tool.
EffectLands(a) ==
    /\ Applied(a.op, effect[KeyOf[a.vertex]]) # effect[KeyOf[a.vertex]]
    /\ effect' = [effect EXCEPT ![KeyOf[a.vertex]] = Applied(a.op, @)]
    /\ UNCHANGED <<storeVars, job, faults>>

\* recoverOne, with the log and the locked rows in agreement, asks for one open scope.  What is
\* outstanding may be a member's failure, but as well a failed read, a failed planner or a stalled
\* one, which the Coordinator does not see: a request may come at any time.
EngineRequest(s) ==
    /\ \A t \in Scope : LogAgrees(t)
    /\ phase[s] \in {"open", "fenced"}
    /\ state[s] = "open" /\ request[s] = "none"
    /\ RegisterCancelRequest(s)
    /\ UNCHANGED <<bracketVars, queueVars, memberVars, attempts, logVars, effect, job, faults>>
-----------------------------------------------------------------------------
Handler(w) ==
    \/ PassBarrier(w) \/ EnsureScope(w) \/ CheckOwner(w)
    \/ RecordTrySuccess(w) \/ RecordPlainSuccess(w) \/ RecordFailure(w) \/ CompleteWork(w)
    \/ RecordAttemptStart(w) \/ Execute(w)
    \/ AdmitPivot(w) \/ ReleaseWork(w) \/ BranchOnPivot(w) \/ ResolvePivotAttempt(w)
    \/ ResolvePivotAbsent(w) \/ FailAbsentPivot(w) \/ SuspendPivot(w) \/ PassPivot(w)
    \/ NextConfirm(w) \/ RecordConfirmed(w) \/ SuspendConfirm(w) \/ CommitScope(w)
    \/ RequestScopeCancel(w) \/ ClaimCancelMember(w) \/ CompleteCancelMember(w)
    \/ SuspendCancel(w) \/ CompleteScopeCancel(w)

Next ==
    \/ \E w \in Worker : Claim(w) \/ Handler(w) \/ Crash(w)
    \/ \E w \in Worker, s \in Scope : PickRequest(w, s) \/ PickExpired(w, s) \/ PickStuck(w, s)
    \/ \E v \in Vertex : DeadLeaseExpires(v) \/ DeadMemberLeaseExpires(v) \/ LeaseOverrun(v)
    \/ \E k \in Key : DeadlinePasses(k)
    \/ \E a \in attempts : EffectLands(a)
    \/ \E s \in Scope : EngineRequest(s)

Spec == Init /\ [][Next]_vars

\* Every handler runs on (each call has a timeout), an idle process polls and sweeps over and
\* over, and the leases of the dead run out.
Fairness ==
    /\ \A w \in Worker : WF_vars(Handler(w))
    /\ \A w \in Worker, s \in Scope : SF_vars(PickRequest(w, s)) /\ SF_vars(PickStuck(w, s))
    /\ \A v \in Vertex : WF_vars(DeadLeaseExpires(v)) /\ WF_vars(DeadMemberLeaseExpires(v))

FairSpec == Spec /\ Fairness

\* All the scheduling promises at once: work is claimed, deadlines pass, and expired tries are
\* swept as well.
FullFairness ==
    /\ Fairness
    /\ \A w \in Worker : SF_vars(Claim(w))
    /\ \A w \in Worker, s \in Scope : SF_vars(PickExpired(w, s))
    /\ \A k \in Key : WF_vars(DeadlinePasses(k))

FullyFairSpec == Spec /\ FullFairness
-----------------------------------------------------------------------------
(* Safety                                                                  *)

\* The admitted pivot has its scope to itself: from admit_pivot to the last confirm one process at
\* most is inside, and it finds the state it left; inverses run only in a scope that was cancelled.
\* Nothing in processPivot, confirmScope or cancelScope rechecks this before it appends txn/scope.
PivotHasScopeAlone ==
    \A w \in Worker :
        /\ InPivot(w) => state[job[w].scope] = "pivot-inflight" /\ pivot[job[w].scope] = job[w].vertex
        /\ InConfirm(w) => state[job[w].scope] = "pivot-passed"
        /\ InCancel(w) => state[job[w].scope] \in {"cancelling", "cancelled", "suspended"}
        /\ \A x \in Worker \ {w} :
            (InPivot(w) \/ InConfirm(w)) /\ (InPivot(x) \/ InConfirm(x)) => job[x].scope # job[w].scope

Held == {"done", "confirmed"}

\* The point of the pivot barrier: no irreversible effect ever stands beside an undone try of
\* its scope, whatever the tools, the leases and the sweep do around admit_pivot and
\* request_scope_cancel.
PivotExcludesInverse ==
    \A p \in Pivot, t \in Try :
        ScopeOf[p] = ScopeOf[t] /\ effect[KeyOf[p]] = "done" => effect[KeyOf[t]] # "undone"

\* request_scope_cancel suspends rather than cancels over an attempt that may still land: a scope
\* that is cancelling or cancelled has no unresolved attempt but its own inverses.
CancelWaitsForEvidence ==
    \A s \in Scope, a \in attempts :
        state[s] \in {"cancelling", "cancelled"} /\ ScopeOf[a.vertex] = s => a.op = "inverse"

\* admit_pivot counts the sealed tries: from admission to commit every required try of the scope
\* owns its bracket and its reservation really is held.
PivotNeedsSeals ==
    \A s \in Scope : state[s] \in {"pivot-inflight", "pivot-passed", "committed"} =>
        \A v \in Required(s) : /\ BracketOwner(v) = v
                               /\ bracket[KeyOf[v]].state \in {"sealed", "confirmed"}
                               /\ effect[KeyOf[v]] \in Held

\* processPivot closes a scope only after confirmScope: committed means that the pivot happened
\* and that every try with a confirm tool is confirmed, in the tables and at the tool.
CommittedMeansConfirmed ==
    \A s \in Scope : state[s] = "committed" =>
        /\ \A p \in Pivot : ScopeOf[p] = s => effect[KeyOf[p]] = "done"
        /\ \A v \in Tcc : ScopeOf[v] = s =>
            bracket[KeyOf[v]].state = "confirmed" /\ effect[KeyOf[v]] = "confirmed"

\* txn/cancel completed is refused over an incomplete member, and a member completes only after
\* its inverse succeeded: in a cancelled scope every member is undone, even with several sweeps.
CancelledMembersUndone ==
    \A s \in Scope : state[s] = "cancelled" =>
        \A v \in CancelMembers(s) : member[v] = "done" /\ effect[KeyOf[v]] = "undone"

\* The fence is one-way (017): a fenced scope never again has a pivot in flight, passed or
\* committed, also when a pivot proven absent reopened it.
FencedNeverPasses ==
    \A s \in fenced : state[s] \notin {"pivot-inflight", "pivot-passed", "committed"}

\* apply_txn_projection answers a pending Engine request on the state change itself, whichever
\* path made it: none is left pending or deferred on a scope that is no longer open.
PendingOnlyWhileOpen ==
    \A s \in Scope : request[s] \in {"pending", "deferred"} => state[s] = "open"

\* A pivot proven absent has reopened its scope, and the log does not carry vertex/failed yet.
PivotAbsentGap(s) ==
    /\ phase[s] = "pivot-inflight" /\ state[s] = "open"
    /\ s \in fenced /\ pivot[s] = None

\* scopeCancellations mirrors the triggers: the log folds to what the scope row says in every
\* reachable state, the pivot-absent gap being the one exception.
LogShowsScopeRows == \A s \in Scope : LogAgrees(s) \/ PivotAbsentGap(s)

Lifecycle == INSTANCE ScopeLifecycle WITH Scope <- Scope, state <- state, fenced <- fenced

\* What the Engine reads under lock_run_scopes moves only as ScopeLifecycle allows, although
\* txn/scope overwrites whatever state it finds: CommitScope, SuspendPivot, SuspendConfirm and
\* SuspendCancel write from states only the admitted pivot, or only a cancellation, can be in.
ImplementsLifecycle == Lifecycle!Spec

\* txn/cancel completed means that the scope returned to its savepoint: no required try still
\* holds its reservation, unless a try of another scope has the key.  Only runs without faults keep this.
CancelledReturnsToSavepoint ==
    \A s \in Scope : state[s] = "cancelled" =>
        \A v \in Required(s) : effect[KeyOf[v]] \in Held => \E u \in Vertex \ Members(s) : KeyOf[u] = KeyOf[v]

-----------------------------------------------------------------------------
(* Liveness                                                                *)

\* processCancelRequest: every Engine request is decided, however often a live lease defers it
\* and whichever process dies on the way.
RequestDecided ==
    \A s \in Scope : request[s] = "pending" ~> request[s] \notin {"pending", "deferred"}

\* StuckCancellations: a cancellation once requested reaches cancelled, or suspends, whatever
\* crash or lost member lease interrupts it.
CancellationFinishes ==
    \A s \in Scope : state[s] = "cancelling" ~> state[s] \in {"cancelled", "suspended"}
-----------------------------------------------------------------------------
(* Sentences of the documents and comments that the code does not keep     *)

\* Design document 02 section 4.3: a cancellation undoes its members in reverse dependency order, so
\* no try is undone while a try that depends on it still holds.  claim_cancel_member takes the deepest
\* member that no live lease protects: a second process takes the next one beside the first.
ReverseDependencyOrder ==
    \A s \in Scope : \A u, v \in CancelMembers(s) :
        u \in Parents[v] /\ effect[KeyOf[u]] = "undone" => effect[KeyOf[v]] = "undone"

\* Design document 02 section 4.3: after the pivot the scope is driven forward or suspended.  No
\* sweep looks at pivot-passed, so a crash between the confirms leaves it there.
PassedPivotCloses ==
    \A s \in Scope : state[s] = "pivot-passed" ~> state[s] \in {"committed", "suspended"}
=============================================================================
