------------------------------ MODULE TxnStore ------------------------------
(***************************************************************************)
(* The PostgreSQL side of the transaction protocol: the tables a           *)
(* Coordinator reads and writes (txn_scope, txn_bracket, work_queue,       *)
(* scope_cancel_member, txn_attempt, the vertex outcomes of                *)
(* run_event_log) and the functions and triggers of db/migrations that     *)
(* change them.  One operator below is the effect of one database          *)
(* function, under the names the migrations give them; a worker of module  *)
(* Coordinator takes each as one transaction.                              *)
(*                                                                         *)
(* Every vertex of the run is frozen when the model starts: a freeze       *)
(* allocates fresh scope identifiers (workflow.ts:235), so no later freeze *)
(* adds a member to a scope that exists.                                   *)
(***************************************************************************)
EXTENDS Integers, FiniteSets

CONSTANTS
    Worker,     \* Coordinator processes, by COORDINATOR_WORKER_ID
    Vertex,     \* frozen vertices the Coordinator executes
    Scope,      \* transaction scopes they name
    Key,        \* idempotency keys
    None,       \* SQL NULL
    Tcc,        \* vertices of txn mode tcc: a confirm and a cancel tool
    Saga,       \* vertices of txn mode saga: a compensate tool only
    Pivot,      \* vertices of effect class irreversible
    Barrier,    \* confirmation-barrier vertices
    StatusTool, \* pivots whose contract registers a status tool
    ScopeOf,    \* vertex |-> its scope, or None
    KeyOf,      \* vertex |-> its idempotency key
    Parents     \* vertex |-> its parent_refs

Try == Tcc \cup Saga

ASSUME ShapeAssumption ==
    /\ None \notin Worker \cup Vertex \cup Scope
    /\ Tcc \subseteq Vertex /\ Saga \subseteq Vertex
    /\ Pivot \subseteq Vertex /\ Barrier \subseteq Vertex
    /\ Tcc \cap Saga = {}
    /\ Try \cap Pivot = {} /\ Barrier \cap (Try \cup Pivot) = {}
    /\ StatusTool \subseteq Pivot
    /\ ScopeOf \in [Vertex -> Scope \cup {None}]
    /\ KeyOf \in [Vertex -> Key]
    /\ Parents \in [Vertex -> SUBSET Vertex]

\* Freeze admission (rule R3): a scope holds at most one pivot.
ASSUME OnePivotAssumption ==
    \A p, q \in Pivot : ScopeOf[p] = ScopeOf[q] /\ ScopeOf[p] # None => p = q

\* Freeze admission (rule R10): a vertex with an undo path names a scope.
ASSUME ScopedTryAssumption == \A v \in Try : ScopeOf[v] # None

VARIABLES
    state,         \* txn_scope.state, "absent" before the row exists
    fenced,        \* scopes with fenced_at set
    request,       \* txn_scope.cancel_request_outcome, "none" when never requested
    pivot,         \* txn_scope.pivot_vertex_id
    phase,         \* what the Engine's scopeCancellations folds out of the log
    bracket,       \* txn_bracket by idempotency key
    expired,       \* keys whose sealed bracket is past deadline_at
    queued,        \* vertices with a work_queue row
    claimed_by,    \* work_queue.claimed_by
    leased,        \* vertices whose lease_until is in the future
    member,        \* scope_cancel_member by vertex: "none", "todo" or "done"
    member_by,     \* scope_cancel_member.claimed_by
    member_leased, \* members whose lease_until is in the future
    attempts,      \* txn_attempt rows with no outcome yet
    succeeded,     \* vertices with a vertex/succeeded event
    failed         \* vertices with a vertex/failed event

scopeVars  == <<state, fenced, request, pivot, phase>>
bracketVars == <<bracket, expired>>
queueVars  == <<queued, claimed_by, leased>>
memberVars == <<member, member_by, member_leased>>
logVars    == <<succeeded, failed>>
storeVars  == <<scopeVars, bracketVars, queueVars, memberVars, attempts, logVars>>

States == {"absent", "open", "pivot-inflight", "pivot-passed", "committed",
           "cancelling", "cancelled", "suspended"}
Phases == (States \ {"absent"}) \cup {"unmaterialized", "fenced", "cancel-requested"}
Requests == {"none", "pending", "deferred", "requested", "duplicate", "suspended"}
Operations == {"call", "pivot", "status", "confirm", "inverse"}
BracketStates == {"none", "sealed", "confirmed", "cancelled"}

Brackets == [vertex : Vertex \cup {None}, state : BracketStates]
NoBracket == [vertex |-> None, state |-> "none"]

\* holder is the process that still knows the row's attempt_id, None once it is lost.
Attempts == [vertex : Vertex, op : Operations, holder : Worker \cup {None}]

StoreTypeOK ==
    /\ state \in [Scope -> States]
    /\ fenced \in SUBSET Scope
    /\ request \in [Scope -> Requests]
    /\ pivot \in [Scope -> Vertex \cup {None}]
    /\ phase \in [Scope -> Phases]
    /\ bracket \in [Key -> Brackets]
    /\ expired \in SUBSET Key
    /\ queued \in SUBSET Vertex
    /\ claimed_by \in [Vertex -> Worker \cup {None}]
    /\ leased \in SUBSET Vertex
    /\ member \in [Vertex -> {"none", "todo", "done"}]
    /\ member_by \in [Vertex -> Worker \cup {None}]
    /\ member_leased \in SUBSET Vertex
    /\ attempts \in SUBSET Attempts
    /\ succeeded \in SUBSET Vertex
    /\ failed \in SUBSET Vertex

\* enqueue_vertex_work: every vertex/created of the freeze has queued its row.
StoreInit ==
    /\ state = [s \in Scope |-> "absent"]
    /\ fenced = {}
    /\ request = [s \in Scope |-> "none"]
    /\ pivot = [s \in Scope |-> None]
    /\ phase = [s \in Scope |-> "unmaterialized"]
    /\ bracket = [k \in Key |-> NoBracket]
    /\ expired = {}
    /\ queued = Vertex
    /\ claimed_by = [v \in Vertex |-> None]
    /\ leased = {}
    /\ member = [v \in Vertex |-> "none"]
    /\ member_by = [v \in Vertex |-> None]
    /\ member_leased = {}
    /\ attempts = {}
    /\ succeeded = {}
    /\ failed = {}
-----------------------------------------------------------------------------
(* Reading the tables                                                      *)

Members(s) == {v \in Vertex : ScopeOf[v] = s}

\* required_try_vertices, fixed by ensure_txn_scope.
Required(s) == Try \cap Members(s)

\* BracketOwner: the vertex whose try holds this vertex's key.
BracketOwner(v) == bracket[KeyOf[v]].vertex

Sealed(v) == bracket[KeyOf[v]] = [vertex |-> v, state |-> "sealed"]

SealedIn(s) == {v \in Members(s) : Sealed(v)}

HasExpiredTry(s) == \E v \in SealedIn(s) : KeyOf[v] \in expired

\* Mutant: attempt evidence is not looked at.
Unresolved_Ignored(s) == {a \in attempts : FALSE}

Unresolved(s) == {a \in attempts : ScopeOf[a.vertex] = s}

CancelMembers(s) == {v \in Members(s) : member[v] # "none"}

IncompleteMembers(s) == {v \in Members(s) : member[v] = "todo"}

\* The longest path to v along parent_refs that stays among the members.
DependencyDepth(M) ==
    CHOOSE d \in [M -> 0..Cardinality(M)] :
        \A v \in M : LET above == Parents[v] \cap M
                     IN  IF above = {} THEN d[v] = 0
                         ELSE /\ \E u \in above : d[v] = d[u] + 1
                              /\ \A u \in above : d[v] >= d[u] + 1

\* flory_claim_admissible over flory_scope_claim_state.
ClaimAdmissible(v) ==
    LET s == ScopeOf[v]
    IN  \/ s = None
        \/ s # None /\ state[s] = "absent"
        \/ s # None /\ state[s] = "open" /\ s \notin fenced
        \/ /\ s # None
           /\ state[s] \in {"pivot-passed", "committed"}
           /\ v \notin Try \cup Pivot

\* The states record_attempt_start admits each operation in.
AdmissibleStates(op) ==
    CASE op = "call"    -> {"open", "pivot-passed", "committed"}
      [] op = "pivot"   -> {"pivot-inflight"}
      [] op = "status"  -> {"pivot-inflight"}
      [] op = "confirm" -> {"pivot-passed"}
      [] op = "inverse" -> {"cancelling"}
-----------------------------------------------------------------------------
(* Appending: the log, its Engine-side fold, and the projection triggers   *)

\* scopeCancellations (recovery.ts), one event of one scope.
Fold(p, event) ==
    CASE event = "txn/scope open" -> IF p = "unmaterialized" THEN "open" ELSE p
      [] event = "txn/try" -> IF p = "unmaterialized" THEN "open" ELSE p
      [] event = "txn/scope suspended" -> "suspended"
      [] event = "txn/scope committed" -> "committed"
      [] event = "vertex/started pivot" -> "pivot-inflight"
      [] event = "txn/pivot-passed" -> "pivot-passed"
      [] event = "vertex/failed" -> IF p = "open" THEN "fenced" ELSE p
      [] event = "vertex/failed absent" -> IF p \in {"open", "pivot-inflight"} THEN "fenced" ELSE p
      [] event = "replan/cancel-requested" -> IF p \in {"open", "fenced"} THEN "cancel-requested" ELSE p
      [] event = "txn/cancel requested" -> "cancelling"
      [] event = "txn/cancel completed" -> "cancelled"

Logged(s, event) ==
    phase' = [t \in Scope |-> IF t = s THEN Fold(phase[t], event) ELSE phase[t]]

\* disagreeingScopes: the row read under lock_run_scopes against the fold, a request being a fence.
LogAgrees(s) ==
    LET stored == IF state[s] = "open" /\ s \in fenced THEN "fenced" ELSE state[s]
        folded == IF phase[s] = "cancel-requested" THEN "fenced" ELSE phase[s]
    IN  state[s] = "absent" \/ stored = folded

\* Mutant: the request keeps its outcome when the scope moves.
Answered_Never(s, outcome) == UNCHANGED request

\* The projection answers a pending Engine request on the state change itself.
Answered(s, outcome) ==
    request' = [request EXCEPT ![s] = IF @ \in {"pending", "deferred"} THEN outcome ELSE @]

\* apply_txn_projection on txn/scope: an upsert that never looks at the old state.
CloseScope(s, closing) ==
    /\ state' = [state EXCEPT ![s] = closing]
    /\ IF closing = "suspended" THEN Answered(s, "suspended") ELSE UNCHANGED request
    /\ Logged(s, IF closing = "suspended" THEN "txn/scope suspended" ELSE "txn/scope committed")
    /\ UNCHANGED <<fenced, pivot>>

\* Mutant: a failure is logged and fences nothing.
RecordFailed_NoFence(v, event) ==
    /\ failed' = failed \cup {v}
    /\ Logged(ScopeOf[v], event)
    /\ UNCHANGED <<state, fenced, request, pivot, succeeded>>

\* fence_on_scoped_failure: only an open scope fences.
RecordFailed(v, event) ==
    /\ failed' = failed \cup {v}
    /\ fenced' = fenced \cup {s \in Scope : s = ScopeOf[v] /\ state[s] = "open"}
    /\ Logged(ScopeOf[v], event)
    /\ UNCHANGED <<state, request, pivot, succeeded>>

ensure_txn_scope(s) ==
    IF s \in Scope /\ state[s] = "absent"
    THEN /\ state' = [state EXCEPT ![s] = "open"]
         /\ Logged(s, "txn/scope open")
         /\ UNCHANGED <<fenced, request, pivot>>
    ELSE UNCHANGED scopeVars
-----------------------------------------------------------------------------
(* The work queue and the attempt evidence                                 *)

\* Which of several ready rows is taken follows ready_at, and is left open here.
Claimable(v) ==
    /\ v \in queued \ leased
    /\ Parents[v] \subseteq succeeded
    /\ ClaimAdmissible(v)

claim_ready_work(w, v) ==
    /\ claimed_by' = [claimed_by EXCEPT ![v] = w]
    /\ leased' = leased \cup {v}
    /\ UNCHANGED queued

HoldsRow(w, v) == v \in queued /\ claimed_by[v] = w

DropRows(V) ==
    /\ queued' = queued \ V
    /\ claimed_by' = [v \in Vertex |-> IF v \in V THEN None ELSE claimed_by[v]]
    /\ leased' = leased \ V

\* release_work: the row goes back to the queue with no lease.
release_work(v) ==
    /\ claimed_by' = [claimed_by EXCEPT ![v] = None]
    /\ leased' = leased \ {v}
    /\ UNCHANGED queued

\* record_attempt_start: a live lease of the right kind, in a state that admits the operation.
MayStartAttempt(w, op, v, row) ==
    /\ LET s == ScopeOf[v] IN s = None \/ (s # None /\ state[s] \in AdmissibleStates(op))
    /\ IF op = "inverse"
       THEN member_by[v] = w /\ v \in member_leased
       ELSE HoldsRow(w, row) /\ row \in leased

\* No process will ever resolve what w had started: its attempt ids are gone.
Forget(w) ==
    {[a EXCEPT !.holder = IF @ = w THEN None ELSE @] : a \in attempts}
-----------------------------------------------------------------------------
(* Tries, the pivot and the confirms                                       *)

\* txn/try and vertex/succeeded in one append; the bracket's primary key is the idempotency key.
RecordTry(v) ==
    /\ bracket' = [bracket EXCEPT ![KeyOf[v]] = [vertex |-> v, state |-> "sealed"]]
    /\ succeeded' = succeeded \cup {v}
    /\ Logged(ScopeOf[v], "txn/try")
    /\ UNCHANGED <<state, fenced, request, pivot, expired, failed>>

\* Mutant: the barrier does not count the sealed tries.
PivotAdmissible_NoSeals(s) == state[s] = "open" /\ s \notin fenced

\* Mutant: the barrier does not look at the fence.
PivotAdmissible_NoFence(s) == state[s] = "open" /\ \A v \in Required(s) : Sealed(v)

\* admit_pivot's condition, evaluated under txn_scope FOR UPDATE.
PivotAdmissible(s) ==
    /\ state[s] = "open"
    /\ s \notin fenced
    /\ \A v \in Required(s) : Sealed(v)

admit_pivot(v) ==
    LET s == ScopeOf[v]
    IN  /\ state' = [state EXCEPT ![s] = "pivot-inflight"]
        /\ pivot' = [pivot EXCEPT ![s] = v]
        /\ Logged(s, "vertex/started pivot")
        /\ UNCHANGED <<fenced, request>>

\* What txn/pivot-passed and resolve_pivot_absent both require of the scope row.
PivotInFlight(v) ==
    LET s == ScopeOf[v] IN state[s] = "pivot-inflight" /\ pivot[s] = v

RecordPivotPassed(v) ==
    /\ state' = [state EXCEPT ![ScopeOf[v]] = "pivot-passed"]
    /\ succeeded' = succeeded \cup {v}
    /\ Logged(ScopeOf[v], "txn/pivot-passed")
    /\ UNCHANGED <<fenced, request, pivot, failed>>

\* Reopens the scope already fenced, and appends nothing.
resolve_pivot_absent(v) ==
    LET s == ScopeOf[v]
    IN  /\ state' = [state EXCEPT ![s] = "open"]
        /\ pivot' = [pivot EXCEPT ![s] = None]
        /\ fenced' = fenced \cup {s}
        /\ UNCHANGED <<request, phase>>

RecordConfirm(v) ==
    bracket' = [bracket EXCEPT ![KeyOf[v]].state = "confirmed"]
-----------------------------------------------------------------------------
(* Cancellation                                                            *)

\* register_engine_cancel_request: the request fences too.
RegisterCancelRequest(s) ==
    /\ request' = [request EXCEPT ![s] = "pending"]
    /\ fenced' = fenced \cup {s}
    /\ Logged(s, "replan/cancel-requested")
    /\ UNCHANGED <<state, pivot>>

\* Mutant: the candidate list is trusted, and the state is not read again under the lock.
CancelDecision_StaleState(s, origin) ==
    IF state[s] \in {"cancelling", "cancelled"} THEN "duplicate"
    ELSE IF origin = "timeout" /\ ~HasExpiredTry(s) THEN "ineligible"
    ELSE IF Members(s) \cap leased # {} THEN "deferred"
    ELSE IF Unresolved(s) # {} THEN "suspend"
    ELSE "requested"

\* request_scope_cancel under txn_scope FOR UPDATE: its early returns, in their order.
CancelDecision(s, origin) ==
    LET asked == origin = "engine" /\ request[s] # "none"
    IN  IF state[s] \in {"cancelling", "cancelled"} THEN "duplicate"
        ELSE IF state[s] = "suspended" /\ asked THEN "already-suspended"
        ELSE IF state[s] # "open" \/ (origin = "engine" /\ ~asked) THEN "raise"
        ELSE IF origin = "timeout" /\ ~HasExpiredTry(s) THEN "ineligible"
        ELSE IF Members(s) \cap leased # {} THEN "deferred"
        ELSE IF Unresolved(s) # {} THEN "suspend"
        ELSE "requested"

\* Mutant: only tries with a cancel tool become members.
RecordCancelRequested_TccOnly(s) ==
    /\ state' = [state EXCEPT ![s] = "cancelling"]
    /\ Answered(s, "requested")
    /\ Logged(s, "txn/cancel requested")
    /\ member' = [v \in Vertex |-> IF v \in SealedIn(s) \cap Tcc /\ member[v] = "none" THEN "todo" ELSE member[v]]
    /\ DropRows({v \in Members(s) : v \notin leased})
    /\ UNCHANGED <<fenced, pivot, member_by, member_leased>>

\* txn/cancel {requested}: members are the sealed brackets, and pending rows go with the fence.
RecordCancelRequested(s) ==
    /\ state' = [state EXCEPT ![s] = "cancelling"]
    /\ Answered(s, "requested")
    /\ Logged(s, "txn/cancel requested")
    /\ member' = [v \in Vertex |-> IF v \in SealedIn(s) /\ member[v] = "none" THEN "todo" ELSE member[v]]
    /\ DropRows({v \in Members(s) : v \notin leased})
    /\ UNCHANGED <<fenced, pivot, member_by, member_leased>>

\* claim_cancel_member: deepest first among the members no live lease protects.
ClaimableMembers(s) ==
    LET free  == IncompleteMembers(s) \ member_leased
        depth == DependencyDepth(CancelMembers(s))
    IN  {v \in free : \A u \in free : depth[u] <= depth[v]}

claim_cancel_member(w, v) ==
    /\ member_by' = [member_by EXCEPT ![v] = w]
    /\ member_leased' = member_leased \cup {v}
    /\ UNCHANGED member

complete_cancel_member(v) ==
    /\ member' = [member EXCEPT ![v] = "done"]
    /\ member_by' = [member_by EXCEPT ![v] = None]
    /\ member_leased' = member_leased \ {v}

\* txn/cancel {completed}: every bracket still sealed is marked cancelled with the scope.
RecordCancelCompleted(s) ==
    /\ state' = [state EXCEPT ![s] = "cancelled"]
    /\ bracket' = [k \in Key |->
                      IF \E v \in SealedIn(s) : KeyOf[v] = k
                      THEN [bracket[k] EXCEPT !.state = "cancelled"] ELSE bracket[k]]
    /\ Logged(s, "txn/cancel completed")
    /\ UNCHANGED <<fenced, request, pivot, expired>>
=============================================================================
