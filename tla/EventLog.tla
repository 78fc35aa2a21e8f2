------------------------------ MODULE EventLog ------------------------------
(***************************************************************************)
(* One run's event stream as the TypeScript services read it: the stored   *)
(* event, the planner's surface over it, and the slice a fork inherits.    *)
(*                                                                         *)
(* A stream is a sequence of events in run_seq order.  A payload is the    *)
(* record of the fields some reader looks at; text, digests and timestamps *)
(* are left out.                                                           *)
(***************************************************************************)
EXTENDS Integers, FiniteSets, SequencesExt

None == "none"

\* StoredEvent: `seq` is run_seq, `v` is vertex_id, `p` the payload.
Ev(type, v, parents, scope, p) ==
    [seq |-> 0, type |-> type, v |-> v, parents |-> parents, scope |-> scope, p |-> p]

Tail1(log) == IF log = <<>> THEN 0 ELSE Last(log).seq

\* Mutant: the batch starts at the number of the last event.
AppendEvents_Overlap(log, drafts) ==
    log \o [i \in DOMAIN drafts |-> [drafts[i] EXCEPT !.seq = Tail1(log) + i - 1]]

\* append_events numbers a batch from the run's counter, under the run row's lock.
AppendEvents(log, drafts) ==
    log \o [i \in DOMAIN drafts |-> [drafts[i] EXCEPT !.seq = Tail1(log) + i]]

ReadStreamAfter(log, after, limit) ==
    LET rest == SelectSeq(log, LAMBDA e : e.seq > after)
    IN SubSeq(rest, 1, IF Len(rest) < limit THEN Len(rest) ELSE limit)

LifecycleTypes == {"vertex/started", "vertex/succeeded", "vertex/failed", "vertex/retried"}

\* Every vertex that edges reach from S, S included.
RECURSIVE Reach(_, _)
Reach(edges, S) ==
    LET T == S \cup {e[2] : e \in {x \in edges : x[1] \in S}}
    IN IF T = S THEN S ELSE Reach(edges, T)

Created(log) == SelectSeq(log, LAMBDA e : e.type = "vertex/created")

CausalEdges(log) ==
    UNION {{<<u, e.v>> : u \in e.parents} : e \in ToSet(Created(log))}

CausalDescendants(log, v) ==
    Reach(CausalEdges(log), {x[2] : x \in {y \in CausalEdges(log) : y[1] = v}})

\* The vertices a discard named, by identifier.
Shadowed(log) == UNION {e.p.ids : e \in {x \in ToSet(log) : x.type = "subgraph/shadowed"}}

\* The last lifecycle event after the vertex was created, or None.
StatusOf(log, v) ==
    LET i == SelectLastInSeq(log, LAMBDA e : e.v = v /\ e.type \in LifecycleTypes \cup {"vertex/created"})
    IN IF i = 0 \/ log[i].type = "vertex/created" THEN None ELSE log[i].type

\* The condition of the last success that reports one; None for a router that fell through.
MatchedOf(log, v) ==
    LET i == SelectLastInSeq(log, LAMBDA e : e.v = v /\ e.type = "vertex/succeeded")
    IN IF i = 0 THEN None ELSE log[i].p.matched

\* Mutant: a discarded vertex is still shown.
Surface_Uncut(log) ==
    [v \in {e.v : e \in ToSet(Created(log))} |->
        LET c == CHOOSE e \in ToSet(Created(log)) : e.v = v
        IN [parents |-> c.parents, role |-> c.p.role, created |-> c.seq,
            status |-> StatusOf(log, v), matched |-> MatchedOf(log, v)]]

\* surface: the active vertices, a discarded one deleted whenever it was created.
Surface(log) ==
    LET live == SelectSeq(Created(log), LAMBDA e : e.v \notin Shadowed(log))
    IN [v \in {e.v : e \in ToSet(live)} |->
           LET c == CHOOSE e \in ToSet(live) : e.v = v
           IN [parents |-> c.parents, role |-> c.p.role, created |-> c.seq,
               status |-> StatusOf(log, v), matched |-> MatchedOf(log, v)]]

\* slice: a planner and its active ancestors; a path through a discarded vertex is cut there.
SliceOf(view, planner) ==
    Reach(UNION {{<<v, u>> : u \in view[v].parents \cap DOMAIN view} : v \in DOMAIN view}, {planner})

RendersInPlannerPrompt(role, matched) == role # "router" \/ matched # None

\* linearize: what of its slice a planner is shown.
Linearize(view, vs) == {v \in vs : RendersInPlannerPrompt(view[v].role, view[v].matched)}

-----------------------------------------------------------------------------
(* Forks *)

\* Mutant: the run of the divergence vertex is inherited with its creation.
ForkSlice_KeepsRun(log, at, substituted, upTo) ==
    LET window == SelectSeq(log, LAMBDA e : e.seq <= upTo)
        gone == IF substituted THEN CausalDescendants(window, at) ELSE {}
    IN SelectSeq(window, LAMBDA e : e.v \notin gone)

\* computeForkSlice: what a fork inherits of the events up to upTo.  With a substitution the
\* divergence vertex runs again, and everything downstream of it is regenerated.
ForkSlice(log, at, substituted, upTo) ==
    LET window == SelectSeq(log, LAMBDA e : e.seq <= upTo)
        gone == CausalDescendants(window, at)
        invalidated(e) == \/ e.v \in gone
                          \/ e.v = at /\ e.type \in LifecycleTypes \cup {"budget/charged"}
                          \/ e.parents \cap (gone \cup {at}) # {}
    IN SelectSeq(window, LAMBDA e : ~(substituted /\ invalidated(e)))

\* fork: inherited events keep their numbers, the child's own are numbered above upTo.
ForkRun(log, at, substituted, upTo) ==
    Append(ForkSlice(log, at, substituted, upTo),
           [Ev("run/end-seed", None, {}, None, <<>>) EXCEPT !.seq = upTo + 1])
=============================================================================
