------------------------------- MODULE Engine -------------------------------
(***************************************************************************)
(* One run under the Engine: the supervisor's loop over reads, recovery,   *)
(* routers and planners, with the Coordinator beside it.                   *)
(*                                                                         *)
(* Each step of the supervisor is one database transaction or one answer   *)
(* of a tool or a model; between two of them the Coordinator may move any  *)
(* scope.  The supervisor's program counter is sup.at.  An exception ends  *)
(* the process (sup.at = "down"); a later process starts the loop again.   *)
(* The Coordinator is seen as the Engine sees it, one step per change of a *)
(* scope row; module Coordinator has its workers and leases.               *)
(***************************************************************************)
EXTENDS Recovery, Router

CONSTANTS
    ToolView,      \* the resolved tool view: name -> contract
    Seed,          \* the submission that starts the run
    Answers,       \* what a planner may answer: submissions, or Unreadable
    Results,       \* what a read may return: field -> value
    Templates,     \* the published templates, as PublishedRuleTemplate
    Fork,          \* whether the run is a counterfactual one
    MaxTurns,      \* what a model answers before it only fails
    MaxFaults      \* crashes, lost answers, failed models, expiries and suspensions

VARIABLES
    log,           \* the run's events
    rows,          \* txn_scope: scope -> locked row
    brackets,      \* txn_bracket: idempotency key -> state
    queue,         \* work_queue: vertex -> state of its claim
    sup,           \* the supervisor process
    turns, faults

vars == <<log, rows, brackets, queue, sup, turns, faults>>

Idle == [at |-> "reads", v |-> None, todo |-> {}, work |-> <<>>, by |-> None, proposed |-> 0,
         outcome |-> None, moved |-> FALSE, before |-> 0]

Goto(place) == [sup EXCEPT !.at = place]
Throw == [Idle EXCEPT !.at = "down"]

\* Where a planner's turn returns to: the next pass, or the rest of the pass that recovered.
Resumed == [Idle EXCEPT !.at = sup.by, !.moved = sup.by # "reads"]

\* A lifecycle event; the fields the readers look at.
Life(type, v, scope) ==
    Ev(type, v, {}, scope, [attempts |-> 1, matched |-> None, outcome |-> None, phase |-> None, lifted |-> <<>>])

Append1(e) == log' = AppendEvents(log, <<e>>)

VertexOf(v) == CHOOSE c \in CreatedAs(log, v) : TRUE
Succeeded(events) == {e.v : e \in ToSet(OfType(events, "vertex/succeeded"))}
Ready(v) == VertexOf(v).parents \subseteq Succeeded(log)

-----------------------------------------------------------------------------
(* Submission *)

\* bindRouters: by the router's own template_ref, else by its slot.
BoundTemplate(w, v) ==
    {t \in Templates : IF v.ref # None THEN t.ref = v.ref
                       ELSE SlotOf(w, v) # NoSlot /\ t.slot = SlotOf(w, v)}

RouterViolations(w) ==
    LET existing == Snapshots(rows)
    IN UNION {UNION {CheckFreezeAdmission(t.branches, DerivePlacement(existing), Fork, ToolView, existing) :
                        t \in BoundTemplate(w, v)} : v \in {u \in ToSet(w.vertices) : u.kind = "router"}}

FrozenScopes == UNION {ToSet(e.p.scopes) : e \in ToSet(OfType(log, "subgraph/frozen"))}

\* compileVertexDrafts: fresh identifiers, parents first; a root inherits the attach point.
Compile(w, at) ==
    LET order == TopologicalOrder(w)
        idOf(a) == "v" \o ToString(at + SelectInSeq(order, LAMBDA v : v.id = a))
        scopeOf(a) == IF a = None THEN None
                      ELSE "s" \o ToString(Cardinality(FrozenScopes) + SelectInSeq(w.scopes, LAMBDA s : s.id = a))
        contract(v) == ToolView[v.tool]
        payload(v) ==
            IF v.kind # "tool"
            THEN [role |-> v.kind, tool |-> None, effect |-> "none", mode |-> "plain", key |-> NoKey,
                  pin |-> {t.ref : t \in IF v.kind = "router" THEN BoundTemplate(w, v) ELSE {}}]
            ELSE [role |-> "tool", tool |-> v.tool, effect |-> contract(v).effect, mode |-> contract(v).mode,
                  key |-> NextIdempotencyKey(BaseIdempotencyKey(v, contract(v)), brackets), pin |-> {}]
    IN [drafts |-> [i \in DOMAIN order |->
                       Ev("vertex/created", idOf(order[i].id),
                          IF order[i].parents = {} THEN w.attach ELSE {idOf(u) : u \in order[i].parents},
                          scopeOf(order[i].scope), payload(order[i]))],
        scopes |-> [i \in DOMAIN w.scopes |-> scopeOf(w.scopes[i].id)]]

Frozen(w, proposed) ==
    LET made == Compile(w, Tail1(log) + 1)
    IN <<Ev("subgraph/frozen", None, {}, None,
            [proposed |-> proposed, ids |-> {d.v : d \in ToSet(made.drafts)}, scopes |-> made.scopes])>>
       \o made.drafts

\* The enqueue trigger: a row for every tool and every barrier.
Enqueued(drafts) ==
    [v \in {d.v : d \in {x \in ToSet(drafts) : x.type = "vertex/created"
                                               /\ x.p.role \in {"tool", "confirmation-barrier"}}} |-> "free"] @@ queue

\* executor_class: an unscoped tool without effect is the Engine's, the rest the Coordinator's.
EngineWork == {v \in DOMAIN queue : VertexOf(v).p.role = "tool" /\ VertexOf(v).p.effect = "none"
                                    /\ VertexOf(v).scope = None}

\* submit: a malformed workflow throws before anything is recorded.
Propose ==
    /\ sup.at = "submit"
    /\ IF Malformed(sup.work)
       THEN sup' = Throw /\ UNCHANGED log
       ELSE /\ Append1(Ev("subgraph/proposed", None, {}, None, [source |-> sup.work.source]))
            /\ sup' = [sup EXCEPT !.at = "freeze", !.proposed = Tail1(log) + 1,
                                  !.work = NormalizeWorkflow(@)]
    /\ UNCHANGED <<rows, brackets, queue, turns, faults>>

\* What the decision under the scope lock comes to.
FreezeOutcome(w) ==
    IF MissingTools(w, ToolView) # {} \/ CheckScopeAdmission(rows) # {} THEN "rejected"
    ELSE IF Cyclic(w) THEN "throws"
    ELSE IF CheckSubDag(w, ToolView, Snapshots(rows)) # {} \/ RouterViolations(w) # {} THEN "rejected"
    ELSE IF DoesNotCompile(w, ToolView) THEN "throws" ELSE "frozen"

\* freezeUnderScopeLock: the decision and the append are one transaction.
FreezeSubmission ==
    /\ sup.at = "freeze"
    /\ \E outcome \in {FreezeOutcome(sup.work)} :
          CASE outcome = "frozen" ->
                 \E drafts \in {Frozen(sup.work, sup.proposed)} :
                    /\ log' = AppendEvents(log, drafts) /\ queue' = Enqueued(drafts)
                    /\ sup' = [sup EXCEPT !.at = "answered", !.outcome = "frozen"]
            [] outcome = "rejected" -> sup' = Goto("reject") /\ UNCHANGED <<log, queue>>
            [] outcome = "throws" -> sup' = Throw /\ UNCHANGED <<log, queue>>
    /\ UNCHANGED <<rows, brackets, turns, faults>>

Reject ==
    /\ sup.at = "reject"
    /\ Append1(Ev("subgraph/rejected", None, {}, None, [proposed |-> sup.proposed]))
    /\ sup' = [sup EXCEPT !.at = "answered", !.outcome = "rejected"]
    /\ UNCHANGED <<rows, brackets, queue, turns, faults>>

\* A router records its success or failure once its branch is answered; a planner's turn is over.
Answered ==
    /\ sup.at = "answered"
    /\ IF sup.by = "router"
       THEN /\ Append1(IF sup.outcome = "frozen"
                       THEN [Life("vertex/succeeded", sup.v, None) EXCEPT !.p.matched = "condition"]
                       ELSE [Life("vertex/failed", sup.v, None) EXCEPT !.p.outcome = "proposal_rejected"])
            /\ sup' = [Idle EXCEPT !.at = "routers", !.todo = sup.todo, !.moved = TRUE]
       ELSE sup' = Resumed /\ UNCHANGED log
    /\ UNCHANGED <<rows, brackets, queue, turns, faults>>

-----------------------------------------------------------------------------
(* Reads: ReadExecutor.processOne *)

\* claim_ready_read: a free row, or one whose holder's lease is over.
ClaimRead(v) ==
    /\ sup.at = "reads" /\ v \in EngineWork /\ queue[v] \in {"free", "stale"} /\ Ready(v)
    /\ queue' = [queue EXCEPT ![v] = "held"]
    /\ sup' = [Goto("read") EXCEPT !.v = v, !.moved = TRUE]
    /\ UNCHANGED <<log, rows, brackets, turns, faults>>

StartRead ==
    /\ sup.at = "read"
    /\ Append1(Life("vertex/started", sup.v, None)) /\ sup' = Goto("reading")
    /\ UNCHANGED <<rows, brackets, queue, turns, faults>>

\* summarize: the declared log fields that the result has.
Lifted(tool, result) == [f \in ToolView[tool].fields \cap DOMAIN result |-> result[f]]

AnswerRead ==
    /\ sup.at = "reading"
    /\ \/ \E result \in Results :
             Append1([Life("vertex/succeeded", sup.v, None) EXCEPT
                         !.p.lifted = Lifted(VertexOf(sup.v).p.tool, result)])
       \/ Append1([Life("vertex/failed", sup.v, None) EXCEPT !.p.outcome = "permanent-failure"])
    /\ sup' = Goto("complete")
    /\ UNCHANGED <<rows, brackets, queue, turns, faults>>

\* complete_read deletes the row.
CompleteRead ==
    /\ sup.at = "complete"
    /\ queue' = [v \in DOMAIN queue \ {sup.v} |-> queue[v]] /\ sup' = [Goto("reads") EXCEPT !.v = None]
    /\ UNCHANGED <<log, rows, brackets, turns, faults>>

\* No answer, one that could not be recorded, or a row that could not be deleted: release_read puts
\* the row back, due later.
ReleaseRead ==
    /\ sup.at \in {"reading", "complete"} /\ faults < MaxFaults /\ faults' = faults + 1
    /\ queue' = [queue EXCEPT ![sup.v] = "later"] /\ sup' = [Goto("reads") EXCEPT !.v = None]
    /\ UNCHANGED <<log, rows, brackets, turns>>

NoReadLeft ==
    /\ sup.at = "reads" /\ \A v \in EngineWork : queue[v] \in {"free", "stale"} => ~Ready(v)
    /\ sup' = Goto("recover")
    /\ UNCHANGED <<log, rows, brackets, queue, turns, faults>>

\* Time passes: a released row is due again, and the lease of a dead process runs out.
Due(v) ==
    /\ v \in DOMAIN queue /\ queue[v] \in {"later", "lost"}
    /\ queue' = [queue EXCEPT ![v] = IF @ = "later" THEN "free" ELSE "stale"]
    /\ UNCHANGED <<log, rows, brackets, sup, turns, faults>>

-----------------------------------------------------------------------------
(* Recovery: RecoveryLoop.recoverOne *)

\* Mutant: discarded vertices are listed too.
ReadyNonTool_Discarded(role) ==
    {v \in {c.v : c \in ToSet(Created(log))} :
        /\ VertexOf(v).p.role = role /\ Ready(v)
        /\ \A e \in ToSet(log) : ~(e.type = "vertex/started" /\ e.v = v)}

\* Mutant: ready until it has succeeded.
ReadyNonTool_UntilDone(role) ==
    {v \in DOMAIN Surface(log) : VertexOf(v).p.role = role /\ Ready(v) /\ v \notin Succeeded(log)}

\* readyNonTool: active, never started, and every parent succeeded.
ReadyNonTool(role) ==
    {v \in DOMAIN Surface(log) :
        /\ VertexOf(v).p.role = role /\ Ready(v)
        /\ \A e \in ToSet(log) : ~(e.type = "vertex/started" /\ e.v = v)}

\* dequeue_shadowed_work refuses a discard of claimed work, or of work in a scope that is not over.
ShadowRefused(vs) ==
    \E v \in vs :
        \/ v \in DOMAIN queue /\ queue[v] \in {"held", "running", "lost", "stale"}
        \/ VertexOf(v).scope \in DOMAIN rows
           /\ rows[VertexOf(v).scope].state \notin {"cancelled", "committed"}

\* register_engine_cancel_request raises unless each scope is open and unrequested.
RequestRefused(ss) == \E s \in ss : s \notin DOMAIN rows \/ rows[s].state # "open" \/ rows[s].requested

\* Nothing is outstanding in the stream just read, which also lists the routers of this pass.
NothingToRecover ==
    /\ sup.at = "recover" /\ Outstanding(log) = <<>>
    /\ sup' = [Goto("routers") EXCEPT !.todo = ReadyNonTool("router")]
    /\ UNCHANGED <<log, rows, brackets, queue, turns, faults>>

\* One locked transaction decides and records; then the selected planner is asked again.
RecoverOne ==
    /\ sup.at = "recover" /\ Outstanding(log) # <<>>
    /\ \E found \in {FirstDecision(log, rows, Outstanding(log))} :
          IF found = {}
          THEN /\ sup' = [Goto("route") EXCEPT !.moved = FALSE]
               /\ UNCHANGED <<log, rows, queue>>
          ELSE \E d \in found :
                 IF \/ d.action = "record" /\ d.selected # None /\ ShadowRefused(d.shadow)
                    \/ d.action = "request" /\ RequestRefused(d.ask)
                 THEN sup' = Throw /\ UNCHANGED <<log, rows, queue>>
                 ELSE /\ log' = AppendEvents(log, Drafts(log, d))
                      /\ rows' = [s \in DOMAIN rows |->
                                     IF s \in d.ask THEN [rows[s] EXCEPT !.fenced = TRUE, !.requested = TRUE]
                                     ELSE rows[s]]
                      /\ queue' = [v \in DOMAIN queue \ d.shadow |-> queue[v]]
                      /\ sup' = IF d.selected = None THEN [Goto("route") EXCEPT !.moved = TRUE]
                                ELSE [Goto("plan") EXCEPT !.v = d.selected, !.by = "route", !.moved = TRUE]
    /\ UNCHANGED <<brackets, turns, faults>>

-----------------------------------------------------------------------------
(* Routers: RouterExecutor.evaluate *)

\* After a recovery the stream is read again; the routers of one pass are listed once.
ListRouters ==
    /\ sup.at = "route"
    /\ sup' = [Goto("routers") EXCEPT !.todo = ReadyNonTool("router")]
    /\ UNCHANGED <<log, rows, brackets, queue, turns, faults>>

\* bind: by the pin that the freeze recorded.
Branches(v) == UNION {{t.branches} : t \in {x \in Templates : x.ref \in VertexOf(v).p.pin}}

Evaluation(v) ==
    IF Branches(v) = {} THEN [kind |-> "no_match", branch |-> 0]
    ELSE EvaluateRouter(CHOOSE b \in Branches(v) : TRUE, SummaryFacts(log, VertexOf(v).parents))

StartRouter(v) ==
    /\ sup.at = "routers" /\ v \in sup.todo
    /\ Append1(Life("vertex/started", v, None))
    /\ LET o == Evaluation(v)
       IN sup' = [sup EXCEPT
             !.v = v, !.todo = @ \ {v}, !.outcome = o.kind,
             !.at = IF o.kind = "matched" THEN "submit" ELSE "decide", !.by = "router",
             !.work = IF o.kind # "matched" THEN <<>>
                      ELSE [source |-> "router", attach |-> {v}] @@ Emitted((CHOOSE b \in Branches(v) : TRUE)[o.branch].sub)]
    /\ UNCHANGED <<rows, brackets, queue, turns, faults>>

\* No branch: a router that fell through has succeeded, one that could not evaluate has failed.
Decide ==
    /\ sup.at = "decide"
    /\ Append1(IF sup.outcome = "no_match" THEN Life("vertex/succeeded", sup.v, None)
               ELSE [Life("vertex/failed", sup.v, None) EXCEPT !.p.outcome = "evaluation_error"])
    /\ sup' = [Idle EXCEPT !.at = "routers", !.todo = sup.todo, !.moved = TRUE]
    /\ UNCHANGED <<rows, brackets, queue, turns, faults>>

-----------------------------------------------------------------------------
(* Planners: PlannerLoop.advance *)

\* readProposal and bindScopeMembership: what of an answer is a proposal at all.
Readable(a) ==
    LET of(v) == {s \in ToSet(a.scopes) : v.id \in s.members}
    IN /\ a.vertices # <<>> /\ Cardinality(Ids(a)) = Len(a.vertices)
       /\ \A v \in ToSet(a.vertices) :
             /\ v.kind \in {"tool", "planner"} /\ v.parents \subseteq Ids(a)
             /\ Cardinality({s.id : s \in of(v)}) <= 1
             /\ v.scope # None => /\ \E s \in ToSet(a.scopes) : s.id = v.scope
                                 /\ \A s \in of(v) : s.id = v.scope

\* Membership is completed from both sides: a member that names no scope, a scope that omits one.
BindScopeMembership(a) ==
    LET scope(v) == IF v.scope # None THEN v.scope
                    ELSE LET i == SelectInSeq(a.scopes, LAMBDA s : v.id \in s.members)
                         IN IF i = 0 THEN None ELSE a.scopes[i].id
    IN [vertices |-> [i \in DOMAIN a.vertices |-> [a.vertices[i] EXCEPT !.scope = scope(a.vertices[i])]],
        scopes |-> [i \in DOMAIN a.scopes |-> [a.scopes[i] EXCEPT
                       !.members = @ \cup {v.id : v \in {u \in ToSet(a.vertices) : scope(u) = a.scopes[i].id}}]]]

\* A pass that progressed is followed by another; otherwise the Coordinator is waited for.
EndOfPass(moved) == IF moved THEN Idle ELSE [Idle EXCEPT !.at = "settle", !.before = Len(log)]

\* One ready planner per pass.
PickPlanner ==
    /\ sup.at = "routers" /\ sup.todo = {}
    /\ IF ReadyNonTool("planner") = {} THEN sup' = EndOfPass(sup.moved)
       ELSE \E v \in ReadyNonTool("planner") :
              sup' = [Goto("plan") EXCEPT !.v = v, !.by = "reads", !.moved = TRUE]
    /\ UNCHANGED <<log, rows, brackets, queue, turns, faults>>

\* The prompt is composed from the planner's slice, which throws for a discarded planner.
StartPlanner ==
    /\ sup.at = "plan"
    /\ IF sup.v \in DOMAIN Surface(log)
       THEN Append1(Life("vertex/started", sup.v, None)) /\ sup' = Goto("thinking")
       ELSE sup' = Throw /\ UNCHANGED log
    /\ UNCHANGED <<rows, brackets, queue, turns, faults>>

\* The charge and the success are one append.
Think(answer) ==
    /\ sup.at = "thinking" /\ turns < MaxTurns /\ turns' = turns + 1
    /\ log' = AppendEvents(log, <<Ev("budget/charged", sup.v, {}, None, [cost |-> [amount |-> 1, currency |-> "USD"]]),
                                  Life("vertex/succeeded", sup.v, None)>>)
    /\ sup' = IF Readable(answer)
              THEN [Goto("submit") EXCEPT
                       !.work = [source |-> "submitted", attach |-> {sup.v}] @@ BindScopeMembership(answer)]
              ELSE Goto("unreadable")
    /\ UNCHANGED <<rows, brackets, queue, faults>>

\* The model failed: the failure is recorded and rethrown.
ThinkFails ==
    /\ sup.at = "thinking"
    /\ IF turns = MaxTurns THEN UNCHANGED faults ELSE faults < MaxFaults /\ faults' = faults + 1
    /\ Append1(Life("vertex/failed", sup.v, None)) /\ sup' = Throw
    /\ UNCHANGED <<rows, brackets, queue, turns>>

RecordUnreadable ==
    /\ sup.at = "unreadable"
    /\ Append1(Ev("subgraph/unreadable", sup.v, {}, None, [planner |-> sup.v]))
    /\ sup' = Resumed
    /\ UNCHANGED <<rows, brackets, queue, turns, faults>>

-----------------------------------------------------------------------------
(* The loop *)

\* Members of a stopped scope are not waited for.
Stopped(s) == s \in DOMAIN rows /\ (\/ rows[s].state \in {"cancelling", "cancelled", "suspended"}
                                    \/ rows[s].state = "open" /\ rows[s].fenced)

Awaited ==
    {c \in ToSet(Created(log)) :
        /\ c.p.role \in {"tool", "confirmation-barrier"} /\ ~Stopped(c.scope)
        /\ \A e \in ToSet(log) : ~(e.v = c.v /\ e.type \in {"vertex/succeeded", "vertex/failed"})}

Cancelling == \E s \in DOMAIN rows : rows[s].state = "cancelling" \/ (rows[s].requested /\ rows[s].state = "open")

Resolved ==
    \E e \in ToSet(SubSeq(log, sup.before + 1, Len(log))) :
        \/ e.type = "txn/cancel" /\ e.p.phase = "completed"
        \/ e.type = "txn/scope" /\ e.p.state = "suspended"

Settled == (Awaited = {} /\ ~Cancelling) \/ Resolved

\* settle: over when nothing is owed, or a cancellation resolved; without news the run is left.
AfterSettle == IF Len(log) = sup.before THEN [Idle EXCEPT !.at = "done"] ELSE Idle

Settle ==
    /\ sup.at = "settle" /\ Settled /\ sup' = AfterSettle
    /\ UNCHANGED <<log, rows, brackets, queue, turns, faults>>

\* The deadline passes; what is still owed then is not asked about.
SettleTimesOut ==
    /\ sup.at = "settle" /\ ~Settled /\ sup' = AfterSettle
    /\ UNCHANGED <<log, rows, brackets, queue, turns, faults>>

\* Where the process holds what no table does.  Elsewhere a new process reads all of it again.
Volatile == {"submit", "freeze", "reject", "answered", "read", "reading", "complete", "decide", "plan",
             "thinking", "unreadable"}

\* The process dies between two steps; its claim stays until the lease is over.
Crash ==
    /\ sup.at \in Volatile /\ faults < MaxFaults /\ faults' = faults + 1
    /\ sup' = Throw
    /\ UNCHANGED <<log, rows, brackets, queue, turns>>

\* Nothing in the repository starts the loop again on a run it was lost from; somebody may.
Restart ==
    /\ sup.at = "down" /\ sup' = Idle
    /\ queue' = [v \in DOMAIN queue |-> IF queue[v] = "held" THEN "lost" ELSE queue[v]]
    /\ UNCHANGED <<log, rows, brackets, turns, faults>>

Supervise ==
    \/ Propose \/ FreezeSubmission \/ Reject \/ Answered
    \/ StartRead \/ AnswerRead \/ CompleteRead \/ NoReadLeft
    \/ NothingToRecover \/ RecoverOne \/ ListRouters \/ Decide \/ PickPlanner \/ StartPlanner \/ RecordUnreadable
    \/ Settle \/ SettleTimesOut
    \/ \E v \in DOMAIN queue : ClaimRead(v)
    \/ \E v \in sup.todo : StartRouter(v)
    \/ \E a \in Answers : Think(a)

-----------------------------------------------------------------------------
(* The Coordinator, one step per change of a scope row *)

MembersOf(s) == {c.v : c \in {x \in ToSet(Created(log)) : x.scope = s}}
KeyOf(v) == VertexOf(v).p.key
Record(s, drafts) == log' = AppendEvents(log, drafts)
Set(s, row) == rows' = (s :> row) @@ rows
Drop(vs) == queue' = [v \in DOMAIN queue \ vs |-> queue[v]]
InRow(s, states) == s \in DOMAIN rows /\ rows[s].state \in states
ScopeEv(type, v, s, p) == Ev(type, v, {}, s, p)
ScopeState(s, state) == ScopeEv("txn/scope", None, s, [state |-> state, pivot |-> None])

\* ensure_txn_scope, when the first ready member is claimed.
OpenScope(s) ==
    /\ s \notin DOMAIN rows /\ \E v \in MembersOf(s) : v \in DOMAIN queue /\ Ready(v)
    /\ Set(s, [state |-> "open", fenced |-> FALSE, expired |-> FALSE, sealed |-> FALSE, requested |-> FALSE,
               owed |-> None, pivots |-> Cardinality({v \in MembersOf(s) : VertexOf(v).p.effect = "irreversible"})])
    /\ Record(s, <<ScopeState(s, "open")>>)
    /\ UNCHANGED <<brackets, queue, sup, turns, faults>>

Seals(v) == VertexOf(v).p.mode = "tcc"

\* Mutant: the fence is not looked at.
MayRun_Fenced(v, s) == v \in DOMAIN queue /\ queue[v] = "free" /\ Ready(v) /\ InRow(s, {"open"})

\* claim_ready_work hands out no work of a fenced scope, and after the pivot only what neither
\* seals a bracket nor is a pivot itself.
MayRun(v, s) ==
    /\ v \in DOMAIN queue /\ queue[v] = "free" /\ Ready(v)
    /\ \/ InRow(s, {"open"}) /\ ~rows[s].fenced
       \/ InRow(s, {"pivot-passed", "committed"}) /\ ~Seals(v) /\ VertexOf(v).p.effect # "irreversible"

KeyTaken(v) == Seals(v) /\ KeyOf(v) \in DOMAIN brackets

\* A failed member fences its scope, if it is open, in the transaction that records the failure.
FailMember(v, s, events) ==
    /\ Record(s, events \o <<Life("vertex/failed", v, s)>>)
    /\ Set(s, [rows[s] EXCEPT !.fenced = @ \/ rows[s].state = "open"]) /\ Drop({v}) /\ UNCHANGED brackets

\* processRegular: a key that is already taken fails the vertex before it is called.
StartMember(v) ==
    LET s == VertexOf(v).scope
        started == <<Life("vertex/started", v, s)>>
    IN /\ MayRun(v, s) /\ VertexOf(v).p.effect # "irreversible"
       /\ IF KeyTaken(v) THEN FailMember(v, s, started)
          ELSE /\ Record(s, started) /\ queue' = [queue EXCEPT ![v] = "running"]
               /\ UNCHANGED <<rows, brackets>>
       /\ UNCHANGED <<sup, turns, faults>>

\* The call has answered: a try seals its key's bracket with its success, unless the key was
\* taken while it ran.
FinishMember(v) ==
    LET s == VertexOf(v).scope
    IN /\ v \in DOMAIN queue /\ queue[v] = "running"
       /\ \/ /\ ~KeyTaken(v)
             /\ Record(s, (IF Seals(v) THEN <<ScopeEv("txn/try", v, s, <<>>)>> ELSE <<>>)
                           \o <<Life("vertex/succeeded", v, s)>>)
             /\ Set(s, [rows[s] EXCEPT !.sealed = @ \/ Seals(v)])
             /\ brackets' = IF Seals(v) THEN (KeyOf(v) :> "sealed") @@ brackets ELSE brackets
             /\ Drop({v})
          \/ FailMember(v, s, <<>>)
       /\ UNCHANGED <<sup, turns, faults>>

\* admit_pivot.
AdmitPivot(v) ==
    LET s == VertexOf(v).scope
    IN /\ MayRun(v, s) /\ VertexOf(v).p.effect = "irreversible" /\ InRow(s, {"open"})
       /\ \A u \in MembersOf(s) : VertexOf(u).p.mode = "tcc" => u \in Succeeded(log)
       /\ Set(s, [rows[s] EXCEPT !.state = "pivot-inflight"])
       /\ Record(s, <<[Life("vertex/started", v, s) EXCEPT !.p.phase = "pivot"]>>)
       /\ UNCHANGED <<brackets, queue, sup, turns, faults>>

\* processPivot: it happened; or it did not, and the row is reopened before the log says so.
PassPivot(v) ==
    LET s == VertexOf(v).scope
    IN /\ v \in DOMAIN queue /\ VertexOf(v).p.effect = "irreversible" /\ InRow(s, {"pivot-inflight"})
       /\ Set(s, [rows[s] EXCEPT !.state = "pivot-passed"])
       /\ Record(s, <<ScopeEv("txn/pivot-passed", v, s, <<>>), Life("vertex/succeeded", v, s)>>)
       /\ Drop({v}) /\ UNCHANGED <<brackets, sup, turns, faults>>

ReopenAbsent(v) ==
    LET s == VertexOf(v).scope
    IN /\ v \in DOMAIN queue /\ VertexOf(v).p.effect = "irreversible" /\ InRow(s, {"pivot-inflight"})
       /\ Set(s, [rows[s] EXCEPT !.state = "open", !.fenced = TRUE, !.owed = v])
       /\ UNCHANGED <<log, brackets, queue, sup, turns, faults>>

RecordAbsent(s) ==
    /\ s \in DOMAIN rows /\ rows[s].owed # None
    /\ Record(s, <<[Life("vertex/failed", rows[s].owed, s) EXCEPT !.p.outcome = "confirmed-absent"]>>)
    /\ Set(s, [rows[s] EXCEPT !.owed = None]) /\ Drop({rows[s].owed})
    /\ UNCHANGED <<brackets, sup, turns, faults>>

\* The keys that the scope's members sealed, as the transition to `state` leaves them.
Closed(s, state) ==
    brackets' = [k \in DOMAIN brackets |->
        IF brackets[k] = "sealed" /\ \E v \in MembersOf(s) \cap Succeeded(log) : KeyOf(v) = k
        THEN state ELSE brackets[k]]

CommitScope(s) ==
    /\ InRow(s, {"pivot-passed"})
    /\ Set(s, [rows[s] EXCEPT !.state = "committed", !.sealed = FALSE, !.expired = FALSE])
    /\ Closed(s, "confirmed") /\ Record(s, <<ScopeState(s, "committed")>>)
    /\ UNCHANGED <<queue, sup, turns, faults>>

\* request_scope_cancel, asked by the Engine or by the sweep over expired tries, is deferred while
\* a worker holds a member.
CancelDue(s) ==
    /\ InRow(s, {"open"}) /\ (rows[s].requested \/ rows[s].expired)
    /\ rows[s].owed = None /\ \A v \in MembersOf(s) \cap DOMAIN queue : queue[v] # "running"

BeginCancel(s) ==
    /\ CancelDue(s)
    /\ Set(s, [rows[s] EXCEPT !.state = "cancelling"])
    /\ Record(s, <<ScopeEv("txn/cancel", None, s, [phase |-> "requested"])>>)
    /\ Drop(MembersOf(s)) /\ UNCHANGED <<brackets, sup, turns, faults>>

CompleteCancel(s) ==
    /\ InRow(s, {"cancelling"})
    /\ Set(s, [rows[s] EXCEPT !.state = "cancelled", !.sealed = FALSE, !.expired = FALSE])
    /\ Closed(s, "cancelled") /\ Record(s, <<ScopeEv("txn/cancel", None, s, [phase |-> "completed"])>>)
    /\ UNCHANGED <<queue, sup, turns, faults>>

\* A confirmation or an inverse that fails suspends the scope, and so does a request for the
\* cancellation of a scope that holds an attempt nobody knows the outcome of.
SuspendScope(s) ==
    /\ InRow(s, {"cancelling", "pivot-passed"}) \/ CancelDue(s)
    /\ faults < MaxFaults /\ faults' = faults + 1
    /\ Set(s, [rows[s] EXCEPT !.state = "suspended"])
    /\ Record(s, <<ScopeState(s, "suspended")>>)
    /\ UNCHANGED <<brackets, queue, sup, turns>>

\* processPivot: nobody knows whether it happened.
SuspendPivot(v) ==
    LET s == VertexOf(v).scope
    IN /\ v \in DOMAIN queue /\ VertexOf(v).p.effect = "irreversible" /\ InRow(s, {"pivot-inflight"})
       /\ faults < MaxFaults /\ faults' = faults + 1
       /\ Set(s, [rows[s] EXCEPT !.state = "suspended"])
       /\ Record(s, <<[Life("vertex/failed", v, s) EXCEPT !.p.outcome = "unknown"], ScopeState(s, "suspended")>>)
       /\ Drop({v}) /\ UNCHANGED <<brackets, sup, turns>>

\* A sealed try passes its deadline.
Expire(s) ==
    /\ s \in DOMAIN rows /\ rows[s].sealed /\ ~rows[s].expired /\ faults < MaxFaults /\ faults' = faults + 1
    /\ Set(s, [rows[s] EXCEPT !.expired = TRUE])
    /\ UNCHANGED <<log, brackets, queue, sup, turns>>

Coordinate ==
    \/ \E s \in FrozenScopes : \/ OpenScope(s) \/ RecordAbsent(s) \/ CommitScope(s)
                               \/ BeginCancel(s) \/ CompleteCancel(s)
    \/ \E v \in DOMAIN queue : \/ StartMember(v) \/ FinishMember(v) \/ AdmitPivot(v)
                                \/ PassPivot(v) \/ ReopenAbsent(v)

\* The seed is submitted to an empty run.
Init ==
    /\ log = <<[Ev("run/start", None, {}, None, <<>>) EXCEPT !.seq = 1]>>
    /\ rows = <<>> /\ brackets = <<>> /\ queue = <<>>
    /\ sup = [Idle EXCEPT !.at = "submit", !.work = Seed, !.by = "reads"]
    /\ turns = 0 /\ faults = 0

Disturb ==
    \/ ReleaseRead \/ ThinkFails \/ Crash \/ Restart
    \/ \E v \in DOMAIN queue : Due(v) \/ SuspendPivot(v)
    \/ \E s \in FrozenScopes : SuspendScope(s) \/ Expire(s)

Next == Supervise \/ Coordinate \/ Disturb

Spec == Init /\ [][Next]_vars

-----------------------------------------------------------------------------
(* What the steps keep *)

\* A planner's answer declares at most one scope.
ScopeNames == {"s" \o ToString(n) : n \in 1 .. MaxTurns}

TypeOK ==
    /\ \A i \in DOMAIN log : log[i].seq = i
    /\ DOMAIN rows \subseteq ScopeNames
    /\ \A s \in DOMAIN rows : rows[s].state \in {"open", "pivot-inflight", "pivot-passed", "committed",
                                                "cancelling", "cancelled", "suspended"}
    /\ \A k \in DOMAIN brackets : brackets[k] \in {"sealed", "confirmed", "cancelled"}
    /\ \A v \in DOMAIN queue : queue[v] \in {"free", "held", "running", "lost", "stale", "later"}
    /\ sup.at \in Volatile \cup {"reads", "recover", "route", "routers", "settle", "done", "down"}
    /\ turns \in 0 .. MaxTurns /\ faults \in 0 .. MaxFaults

Boundaries == ToSet(OfType(log, "replan/boundary"))
Discards == ToSet(OfType(log, "subgraph/shadowed"))

ScopeRow == INSTANCE ScopeLifecycle WITH
    Scope <- ScopeNames,
    state <- [s \in ScopeNames |-> IF s \in DOMAIN rows THEN rows[s].state ELSE "absent"],
    fenced <- {s \in DOMAIN rows : rows[s].fenced}

\* The scope rows move only as ScopeLifecycle allows, which is also what module Coordinator
\* implements: the Engine's requests and the Coordinator's steps together keep its promise.
KeepsLifecycle == ScopeRow!Spec

\* What the log says of a scope before the event numbered n.
Told(s, n, Says(_)) == \E e \in ToSet(SubSeq(log, 1, n - 1)) : e.scope = s /\ Says(e)
OpenedBefore(s, n) == Told(s, n, LAMBDA e : e.type \in {"txn/scope", "txn/try"})
UndoneBefore(s, n) == Told(s, n, LAMBDA e : e.type = "txn/cancel" /\ e.p.phase = "completed")
ClosedBefore(s, n) == UndoneBefore(s, n) \/ Told(s, n, LAMBDA e : e.type = "txn/scope" /\ e.p.state = "committed")
HeldBefore(s, n) ==
    Told(s, n, LAMBDA e : \/ e.type = "txn/scope" /\ e.p.state = "suspended"
                          \/ e.type = "vertex/started" /\ e.p.phase = "pivot")

\* recoverOne never discards work of a scope that the Coordinator has opened and not closed, never
\* cites a cancellation that has not completed, and never escalates a failure whose own scope
\* could still be cancelled, whatever the Coordinator does between two readings of the log.
CancelBeforeReplan ==
    \A b \in Boundaries :
        /\ \A s \in b.p.cancelled : UndoneBefore(s, b.seq)
        /\ IF b.p.selected # None
           THEN \A v \in log[b.seq + 1].p.ids :
                   OpenedBefore(VertexOf(v).scope, b.seq) => ClosedBefore(VertexOf(v).scope, b.seq)
           ELSE LET s == VertexOf(b.p.failed).scope
                IN OpenedBefore(s, b.seq) => ClosedBefore(s, b.seq) \/ HeldBefore(s, b.seq)

\* A cancellation is asked for once per scope, and the failure it is for is not answered before
\* the scope is cancelled or suspended.
CancelRequestDiscipline ==
    \A a \in ToSet(OfType(log, "replan/cancel-requested")) : \A s \in a.p.asked :
        /\ \A c \in ToSet(OfType(log, "replan/cancel-requested")) : s \in c.p.asked => c = a
        /\ \A b \in Boundaries :
              b.seq > a.seq /\ b.p.failed = a.p.failed =>
                  UndoneBefore(s, b.seq) \/ Told(s, b.seq, LAMBDA e : e.type = "txn/scope" /\ e.p.state = "suspended")

\* The transaction that appends a ladder decision is never refused by the scopes it names: the
\* fold's reading and the locked rows cannot come apart between the decision and the write.
\* Only the claim of a dead process can still refuse a discard.
DecisionIsAccepted ==
    sup.at = "recover" =>
        \A d \in FirstDecision(log, rows, Outstanding(log)) :
            /\ ~RequestRefused(d.ask)
            /\ \A v \in d.shadow : VertexOf(v).scope \in DOMAIN rows =>
                   rows[VertexOf(v).scope].state \in {"cancelled", "committed"}

\* The backtrack floor: no discard names a vertex of a scope whose irreversible step has happened.
PassedPivotsStay ==
    \A d \in Discards : \A e \in ToSet(OfType(SubSeq(log, 1, d.seq), "txn/pivot-passed")) :
        \A v \in d.p.ids : VertexOf(v).scope # e.scope

\* Once discarded, a vertex neither runs nor grows children: its row has left the queue, its scope
\* is closed and the supervisor picks only from the surface.
NothingRunsAfterDiscard ==
    \A d \in Discards : \A e \in ToSet(SubSeq(log, d.seq + 1, Len(log))) :
        /\ e.v \notin d.p.ids
        /\ e.type = "vertex/created" => e.parents \cap d.p.ids = {}

\* Whatever vertex a counterfactual run is forked at, what it inherits is a run: every event of a
\* vertex comes with the creation of the vertex and of its ancestors, exactly the active vertices
\* that do not descend from the fork are active, and the fork's own vertex has yet to run.
ForksAreRuns ==
    \A at \in {c.v : c \in ToSet(Created(log))} : \A child \in {ForkRun(log, at, TRUE, Tail1(log))} :
        LET born == {c.v : c \in ToSet(Created(child))}
        IN /\ at \in born /\ StatusOf(child, at) = None
           /\ \A e \in ToSet(child) : e.parents \subseteq born /\ (e.type \in LifecycleTypes => e.v \in born)
           /\ DOMAIN Surface(child) = DOMAIN Surface(log) \ CausalDescendants(log, at)

\* However often an order is planned again, at most one generation of its key is not cancelled.
OneLiveReservation ==
    \A j, k \in DOMAIN brackets :
        j.base = k.base /\ "cancelled" \notin {brackets[j], brackets[k]} => j = k

\* A router proposes at most one branch, although the process may die between the branch's freeze
\* and the router's own success.
OneBranchPerRouter ==
    \A r \in {c.v : c \in {x \in ToSet(Created(log)) : x.p.role = "router"}} :
        Cardinality({e.seq : e \in {x \in ToSet(log) : x.type = "vertex/started" /\ x.v = r}}) <= 1

Console == INSTANCE ConsoleFold

\* The operator's model and the planner's surface, two folds of one log in two services, show the
\* same vertices as active, with the same last event.
ProjectionsAgree ==
    \A m \in {Console!ConsoleDag(log)}, shown \in {Surface(log)} :
        /\ DOMAIN shown = {v \in DOMAIN m.vertices : m.vertices[v].shadowed = 0}
        /\ \A v \in DOMAIN shown :
              m.vertices[v].status = IF shown[v].status = None THEN "vertex/created" ELSE shown[v].status

\* What a scope waits for the Coordinator to do.
CoordinatorOwes(s) ==
    IF s \in DOMAIN rows
    THEN \/ rows[s].state \in {"pivot-inflight", "pivot-passed", "cancelling"}
         \/ rows[s].state = "open" /\ (rows[s].requested \/ rows[s].expired \/ rows[s].owed # None)
         \/ \E v \in MembersOf(s) : MayRun(v, s) \/ (v \in DOMAIN queue /\ queue[v] = "running")
    ELSE \E v \in MembersOf(s) : v \in DOMAIN queue /\ Ready(v)

\* Nobody waits for ever: the Engine and the Coordinator never wait for each other.  Where the ladder
\* can only wait with every outstanding failure, each scope that it waits for has a step of the
\* Coordinator due.
WaitsAreOwed ==
    \A failures \in {ToSet(Outstanding(log))} : \A ds \in {{SelectBoundary(log, f, rows) : f \in failures}} :
        (\A d \in ds : d.action = "wait") => \A d \in ds : \A s \in d.await : CoordinatorOwes(s)

-----------------------------------------------------------------------------
(* Sentences of the comments that the code does not keep *)

\* oracles.ts: after the failure of a rule's branch a replan that selects a planner, or a planner that
\* starts, is a defect.  The ladder asks who authored the work of each outstanding item by itself: with
\* the rule's failure escalated it goes on to a planner that answered unreadably, and resumes there.
NoModelAfterRuleFails ==
    \A f \in ToSet(OfType(log, "vertex/failed")) : RuleAuthored(log, f.v) =>
        \A e \in ToSet(SubSeq(log, f.seq + 1, Len(log))) :
            /\ e.type = "replan/boundary" => e.p.selected = None
            /\ e.type = "vertex/started" => VertexOf(e.v).p.role # "planner"
=============================================================================
