------------------------------ MODULE Recovery ------------------------------
(***************************************************************************)
(* The recovery ladder: a pure decision over a run's stream and its locked *)
(* scope rows.  It waits, asks for cancellations, resumes planning at an   *)
(* ancestor planner, or escalates to a person.                             *)
(*                                                                         *)
(* Reasons, candidate lists and prices in currency are left out.  A price  *)
(* counts the context items a planner reads again and the vertices it      *)
(* generates again, each at its own rate.                                  *)
(***************************************************************************)
EXTENDS EventLog

CONSTANTS
    MaxReplansPerPlanner, MaxReplansPerEpisode, ItemRate, VertexRate,
    BudgetRemaining    \* policy.budgetRemaining, or the empty set where the policy has none

ASSUME PolicyAssumption ==
    {MaxReplansPerPlanner, MaxReplansPerEpisode, ItemRate, VertexRate} \cup BudgetRemaining \subseteq Nat

OfType(log, type) == SelectSeq(log, LAMBDA e : e.type = type)
SeqsOf(events) == {e.seq : e \in events}
Latest(S) == Max({0} \cup S)

\* Mutant: no floor.
BacktrackFloor_None(log) == 0

BacktrackFloor(log) == Latest(SeqsOf(ToSet(OfType(log, "txn/pivot-passed"))))

Cancellable == {"open", "fenced", "cancel-requested", "cancelling"}
Unrecoverable == {"suspended", "pivot-inflight", "pivot-passed"}
Transient == {"fenced", "cancel-requested", "cancelling", "pivot-inflight", "pivot-passed"}

\* One event's effect on the phase of the scope it concerns.
PhaseStep(phase, e) ==
    CASE e.type = "replan/cancel-requested" ->
            IF phase \in {"open", "fenced"} THEN "cancel-requested" ELSE phase
      [] e.type = "txn/scope" -> IF e.p.state # "open" THEN e.p.state
                                 ELSE IF phase = "unmaterialized" THEN "open" ELSE phase
      [] e.type = "txn/try" -> IF phase = "unmaterialized" THEN "open" ELSE phase
      [] e.type = "vertex/started" -> IF e.p.phase = "pivot" THEN "pivot-inflight" ELSE phase
      [] e.type = "txn/pivot-passed" -> "pivot-passed"
      [] e.type = "vertex/failed" ->
            IF phase = "open" \/ (phase = "pivot-inflight" /\ e.p.outcome = "confirmed-absent")
            THEN "fenced" ELSE phase
      [] e.type = "txn/cancel" -> IF e.p.phase = "completed" THEN "cancelled" ELSE "cancelling"
      [] OTHER -> phase

Concerns(e, s) ==
    IF e.type = "replan/cancel-requested" THEN s \in e.p.asked ELSE e.scope = s

\* ScopeCancellation: a scope as the log tells it.
ScopeStory(log, s) ==
    LET own == SelectSeq(log, LAMBDA e : Concerns(e, s))
        made == ToSet(Created(own))
        asked == OfType(own, "replan/cancel-requested")
        undone == {e \in ToSet(own) : \/ e.type = "txn/cancel" /\ e.p.phase = "completed"
                                      \/ e.type = "txn/scope" /\ e.p.state = "cancelled"}
    IN [phase |-> FoldLeft(PhaseStep, "unmaterialized", own),
        members |-> {e.v : e \in made},
        first |-> own[1].seq,
        requestedFor |-> IF asked = <<>> THEN None ELSE Last(asked).p.failed,
        cancelledAt |-> Latest(SeqsOf(undone))]

ScopeCancellations(log) == [s \in {e.scope : e \in ToSet(log)} \ {None} |-> ScopeStory(log, s)]

\* disagreeingScopes: the rows say what the fold cannot have read yet.
DisagreeingScopes(scopes, rows) ==
    {s \in DOMAIN rows :
        LET stored == IF rows[s].state = "open" /\ rows[s].fenced THEN "fenced" ELSE rows[s].state
            folded == IF s \in DOMAIN scopes THEN scopes[s].phase ELSE None
        IN (IF folded = "cancel-requested" THEN "fenced" ELSE folded) # stored}

CreatedAs(log, v) ==
    LET i == SelectInSeq(log, LAMBDA e : e.type = "vertex/created" /\ e.v = v)
    IN IF i = 0 THEN {} ELSE {log[i]}

\* ruleAuthored: the freeze before the vertex answers a proposal that a router made.
RuleAuthored(log, v) ==
    \E c \in CreatedAs(log, v) :
        LET frozen == SelectSeq(log, LAMBDA e : e.type = "subgraph/frozen" /\ e.seq < c.seq)
        IN /\ frozen # <<>>
           /\ \E q \in ToSet(OfType(log, "subgraph/proposed")) :
                 q.seq = Last(frozen).p.proposed /\ q.p.source = "router"

SucceededAt(log, v) ==
    Latest(SeqsOf({e \in ToSet(OfType(log, "vertex/succeeded")) : e.v = v}))

\* The generations above v, nearest first, each vertex once at its least distance.
RECURSIVE Above(_, _, _)
Above(log, seen, frontier) ==
    LET fresh == frontier \ seen
    IN IF fresh = {} THEN <<>>
       ELSE <<fresh>> \o Above(log, seen \cup fresh,
                               UNION {UNION {c.parents : c \in CreatedAs(log, u)} : u \in fresh})

\* ancestorPlanners: a succeeded planner itself at depth 0, then by distance, the later one first.
AncestorPlanners(log, v) ==
    LET rows == Above(log, {}, {v})
        at(d) == {[v |-> u, seq |-> SucceededAt(log, u), depth |-> d - 1] :
                    u \in {w \in rows[d] : SucceededAt(log, w) # 0
                                           /\ \E c \in CreatedAs(log, w) : c.p.role = "planner"}}
        found == UNION {at(d) : d \in DOMAIN rows}
        before(x, y) == x.depth < y.depth \/ (x.depth = y.depth /\ x.seq > y.seq)
    IN [i \in 1 .. Cardinality(found) |->
           CHOOSE x \in found : Cardinality({y \in found : before(y, x)}) = i - 1]

\* The vertices of the freeze at position i: the unbroken run of creations after it.
FrozenAt(log, i) ==
    LET after == SubSeq(log, i + 1, Len(log))
        stop == SelectInSeq(after, LAMBDA e : e.type # "vertex/created")
    IN {e.v : e \in ToSet(IF stop = 0 THEN after ELSE SubSeq(after, 1, stop - 1))}

\* replanHistory: an episode ends when every vertex of some later freeze has succeeded.
Episode(log) ==
    LET resolved == {i \in DOMAIN log :
            /\ log[i].type = "subgraph/frozen" /\ FrozenAt(log, i) # {}
            /\ \A v \in FrozenAt(log, i) : SucceededAt(log, v) # 0}
        last == Latest({log[i].seq : i \in resolved})
    IN Len(SelectSeq(log, LAMBDA e : e.type = "replan/boundary" /\ e.seq > last))

ReplansAt(log, planner) ==
    Len(SelectSeq(log, LAMBDA e : e.type = "replan/boundary" /\ e.p.selected = planner))

ShadowSet(log, boundary) == CausalDescendants(log, boundary) \ Shadowed(log)

TouchedScopes(log, boundary, scopes) ==
    {s \in DOMAIN scopes : scopes[s].phase # "unmaterialized"
                           /\ scopes[s].members \cap ShadowSet(log, boundary) # {}}

Price(log, planner) ==
    ItemRate * Cardinality(Linearize(Surface(log), SliceOf(Surface(log), planner)))
    + VertexRate * Cardinality(ShadowSet(log, planner))

FailureSeq(log, v) ==
    Latest(SeqsOf({e \in ToSet(log) : \/ e.type = "vertex/failed" /\ e.v = v
                                      \/ e.type = "subgraph/unreadable" /\ e.p.planner = v}))

RequestFor(log, v) ==
    Latest(SeqsOf({e \in ToSet(OfType(log, "replan/cancel-requested")) : e.p.failed = v}))

ReportedCancellations(log) == UNION {e.p.cancelled : e \in ToSet(OfType(log, "replan/boundary"))}

\* A decision about one failure: what it concerns and, for each action, what it names.
Decision(action, level, failed) ==
    [action |-> action, level |-> level, failed |-> failed, selected |-> None, boundary |-> 0,
     shadow |-> {}, ask |-> {}, await |-> {}, cancelled |-> {}]

UnresolvedRequests(scopes, failed) ==
    {s \in DOMAIN scopes : scopes[s].requestedFor = failed
                           /\ scopes[s].phase \in {"cancel-requested", "cancelling"}}

CancelledFor(log, scopes, failed, relevant) ==
    {s \in DOMAIN scopes :
        /\ scopes[s].phase = "cancelled" /\ scopes[s].cancelledAt > FailureSeq(log, failed)
        /\ s \notin ReportedCancellations(log)
        /\ scopes[s].requestedFor = failed \/ s \in relevant}

\* verdictFor: why a planner may not be resumed, or None.
Verdict(log, scopes, planner, failed) ==
    LET touched == TouchedScopes(log, planner.v, scopes)
        undoes == {s \in touched : \/ scopes[s].phase \in Cancellable
                                   \/ /\ scopes[s].phase = "cancelled"
                                      /\ scopes[s].cancelledAt > FailureSeq(log, failed)}
    IN IF planner.seq < BacktrackFloor(log) THEN "below_floor"
       ELSE IF \E s \in touched : scopes[s].phase \in Unrecoverable THEN "open_bracket"
       ELSE IF \E s \in undoes : scopes[s].first < planner.seq THEN "savepoint_precedes"
       ELSE IF ReplansAt(log, planner.v) >= MaxReplansPerPlanner THEN "failure_counter_exhausted"
       ELSE None

\* Mutant: a person is asked before anything is cancelled.
Terminal_AtOnce(log, scopes, failed, level) == Decision("record", level, failed)

\* Mutant: a suspended scope is waited for, like one that is cancelling.
Terminal_AwaitsSuspended(log, scopes, failed, level) ==
    LET own == {c.scope : c \in CreatedAs(log, failed)} \cap DOMAIN scopes
        awaited == {s \in own : scopes[s].phase \in {"cancel-requested", "cancelling", "pivot-inflight", "suspended"}}
    IN IF \E s \in own : scopes[s].phase \in {"open", "fenced"}
       THEN [Decision("request", "L3", failed) EXCEPT !.ask = own]
       ELSE IF awaited # {} THEN [Decision("wait", level, failed) EXCEPT !.await = awaited]
       ELSE Decision("record", level, failed)

\* Mutant: the cancellation is asked for and not waited for.
Terminal_Impatient(log, scopes, failed, level) ==
    LET own == {c.scope : c \in CreatedAs(log, failed)} \cap DOMAIN scopes
    IN IF \E s \in own : scopes[s].phase \in {"open", "fenced"}
       THEN [Decision("request", "L3", failed) EXCEPT !.ask = own]
       ELSE Decision("record", level, failed)

\* terminal: the failure's own scope is cancelled before a person is asked.
Terminal(log, scopes, failed, level) ==
    LET own == {c.scope : c \in CreatedAs(log, failed)} \cap DOMAIN scopes
        awaited == UnresolvedRequests(scopes, failed) \cup
                   {s \in own : scopes[s].phase \in {"cancel-requested", "cancelling", "pivot-inflight"}}
    IN IF \E s \in own : scopes[s].phase \in {"open", "fenced"}
       THEN [Decision("request", "L3", failed) EXCEPT !.ask = own]
       ELSE IF awaited # {} THEN [Decision("wait", level, failed) EXCEPT !.await = awaited]
       ELSE [Decision("record", level, failed) EXCEPT
                !.cancelled = CancelledFor(log, scopes, failed, own)]

RunBlocks(scopes, rows) ==
    {s \in DOMAIN scopes : scopes[s].phase \in Transient}
    \cup {s \in DOMAIN rows : rows[s].state = "open" /\ rows[s].expired}

\* Of the planners that are legal boundaries within the budget the cheapest, the first in ladder order.
LegalBoundaries(log, scopes, failed) ==
    LET ladder == AncestorPlanners(log, failed)
        legal == {i \in DOMAIN ladder : /\ Verdict(log, scopes, ladder[i], failed) = None
                                        /\ \A budget \in BudgetRemaining : Price(log, ladder[i].v) <= budget}
    IN {ladder[i] : i \in {j \in legal : \A k \in legal :
            LET x == Price(log, ladder[j].v)
                y == Price(log, ladder[k].v)
            IN x < y \/ (x = y /\ j <= k)}}

\* Mutant: the discard does not wait for the scopes it touches.
Resume_AtOnce(log, scopes, rows, failed, planner) ==
    [Decision("record", "L1", failed) EXCEPT
        !.selected = planner.v, !.boundary = planner.seq, !.shadow = ShadowSet(log, planner.v)]

\* The replan that resumes at a legal boundary: cancel what it discards, wait, then record.
Resume(log, scopes, rows, failed, planner) ==
    LET level == IF planner.depth = AncestorPlanners(log, failed)[1].depth THEN "L1" ELSE "L2"
        touched == TouchedScopes(log, planner.v, scopes)
        required == {s \in touched : scopes[s].phase \in Cancellable}
        ask == {s \in required : scopes[s].phase \in {"open", "fenced"}}
        inFlight == required \cup UnresolvedRequests(scopes, failed)
        blocking == RunBlocks(scopes, rows)
    IN IF ask # {} THEN [Decision("request", level, failed) EXCEPT !.ask = ask]
       ELSE IF inFlight # {} THEN [Decision("wait", level, failed) EXCEPT !.await = inFlight]
       ELSE IF blocking # {} THEN [Decision("wait", level, failed) EXCEPT !.await = blocking]
       ELSE [Decision("record", level, failed) EXCEPT
                !.selected = planner.v, !.boundary = planner.seq,
                !.shadow = ShadowSet(log, planner.v),
                !.cancelled = CancelledFor(log, scopes, failed, touched)]

SelectBoundary(log, failed, rows) ==
    LET scopes == ScopeCancellations(log)
        disagree == DisagreeingScopes(scopes, rows)
        own == {c.scope : c \in CreatedAs(log, failed)} \cap DOMAIN scopes
        best == LegalBoundaries(log, scopes, failed)
        last == IF \E s \in own : scopes[s].phase \in Cancellable \cup {"cancelled"} THEN "L3" ELSE "L4"
    IN IF disagree # {} THEN [Decision("wait", "L4", failed) EXCEPT !.await = disagree]
       ELSE IF RuleAuthored(log, failed) THEN Terminal(log, scopes, failed, "L4")
       ELSE IF Episode(log) >= MaxReplansPerEpisode THEN Terminal(log, scopes, failed, "L3")
       ELSE IF \E s \in DOMAIN scopes : scopes[s].phase = "suspended" THEN Terminal(log, scopes, failed, "L4")
       ELSE IF best = {} THEN Terminal(log, scopes, failed, last)
       ELSE Resume(log, scopes, rows, failed, CHOOSE x \in best : TRUE)

\* replanEvents: the decision stands before the discard it authorises.
ReplanEvents(log, d) ==
    <<Ev("replan/boundary", d.selected, {}, None,
         [failed |-> d.failed, selected |-> d.selected, boundary |-> d.boundary, level |-> d.level,
          episode |-> Episode(log) + 1, cancelled |-> d.cancelled, request |-> RequestFor(log, d.failed)])>>
    \o (IF d.selected = None THEN <<>>
        ELSE <<Ev("subgraph/shadowed", None, {}, None,
                  [ids |-> d.shadow, boundary |-> d.boundary, failed |-> d.failed])>>)

CancelRequestEvent(d) ==
    Ev("replan/cancel-requested", None, {}, None, [failed |-> d.failed, asked |-> d.ask])

\* decideRecovery: what the decision appends.
Drafts(log, d) ==
    CASE d.action = "wait" -> <<>>
      [] d.action = "request" -> <<CancelRequestEvent(d)>>
      [] d.action = "record" -> ReplanEvents(log, d)

\* An answer is a discard of the vertex or an escalation that names it.
UnrecoveredFailures(log) ==
    LET answered == Shadowed(log) \cup
            {e.p.failed : e \in {x \in ToSet(OfType(log, "replan/boundary")) : x.p.selected = None}}
        outcome(v) == log[SelectLastInSeq(log, LAMBDA e : e.v = v /\ e.type \in
                             {"vertex/failed", "vertex/succeeded", "vertex/retried"})].type
        open == SelectSeq(OfType(log, "vertex/failed"),
                          LAMBDA e : e.v \notin answered /\ outcome(e.v) = "vertex/failed")
    IN [i \in DOMAIN open |-> open[i].v]

\* stalledPlanners: any boundary that ever named the planner answers it.
StalledPlanners(log) ==
    LET answered == {e.p.failed : e \in ToSet(OfType(log, "replan/boundary"))}
        open == SelectSeq(OfType(log, "subgraph/unreadable"), LAMBDA e :
            /\ e.p.planner \notin answered
            /\ \A c \in ToSet(Created(log)) : c.seq > e.seq => e.p.planner \notin c.parents)
    IN [i \in DOMAIN open |-> open[i].p.planner]

Outstanding(log) == UnrecoveredFailures(log) \o StalledPlanners(log)

\* recoverOne's choice: the first outstanding failure whose decision is not to wait.
RECURSIVE FirstDecision(_, _, _)
FirstDecision(log, rows, failures) ==
    IF failures = <<>> THEN {}
    ELSE UNION {IF d.action # "wait" THEN {d} ELSE FirstDecision(log, rows, Tail(failures)) :
                   d \in {SelectBoundary(log, Head(failures), rows)}}
=============================================================================
