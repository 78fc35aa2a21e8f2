----------------------------- MODULE ConsoleFold -----------------------------
(***************************************************************************)
(* The Console's projection of a run: a fold over the event stream, batch  *)
(* by batch, that yields the operator's model and the deltas a live reader *)
(* is told about.                                                          *)
(*                                                                         *)
(* Vertices and scopes are objects that the fold mutates in place and that *)
(* buffered deltas alias, so a delta names a vertex, a scope or a replan   *)
(* and is resolved against the current model when it is encoded.  Labels,  *)
(* payload bodies and clock values are left out; `done` stands for         *)
(* completed_at being set.                                                 *)
(***************************************************************************)
EXTENDS EventLog

\* A call with no estimated cost.
Unpriced == -1
NoCost == [amount |-> Unpriced, currency |-> None]
NoSpend == [calls |-> 0, amount |-> Unpriced, currency |-> None]

EmptyDag ==
    [kind |-> "production", at |-> 0, vertices |-> <<>>, scopes |-> <<>>, replans |-> <<>>,
     proposals |-> <<>>, cancels |-> <<>>, forks |-> <<>>, spend |-> NoSpend, announced |-> <<>>]

\* Mutant: what was announced is forgotten between two reads.
FoldStart_Forgets(m) ==
    [m |-> [m EXCEPT !.announced = <<>>], deltas |-> <<>>, appended |-> <<>>, patched |-> <<>>, last |-> 0]

\* FoldState: the model being built, the deltas, the vertices this batch created by freeze, the
\* vertices it changed in the order of the first change, and the last sequence it read.
FoldStart(m) == [m |-> m, deltas |-> <<>>, appended |-> <<>>, patched |-> <<>>, last |-> 0]

Has(f, x) == x \in DOMAIN f
With(f, x, y) == (x :> y) @@ f
Without(f, x) == [z \in DOMAIN f \ {x} |-> f[z]] @@ <<>>

CreatedHere(st) == UNION {ToSet(st.appended[g]) : g \in DOMAIN st.appended}

\* touch, for each of vs: a vertex changed, unless this batch created it.
Touch(st, vs) ==
    [st EXCEPT !.patched =
        @ \o SelectSeq(vs, LAMBDA v : v \notin CreatedHere(st) /\ ~Contains(@, v))]

\* The vertex of e as f makes it, and touched; nothing when the model does not hold it.
Change(st, v, f(_)) ==
    IF ~Has(st.m.vertices, v) THEN st
    ELSE Touch([st EXCEPT !.m.vertices[v] = f(@)], <<v>>)

EnsureScope(st, s, seq) ==
    IF Has(st.m.scopes, s) THEN st
    ELSE [st EXCEPT !.m.scopes = With(@, s,
              [state |-> "open", members |-> <<>>, pivot |-> None, passed |-> 0,
               mismatch |-> FALSE, opened |-> seq, closed |-> 0])]

\* closeProposal: the proposal it names, or the last one.
CloseProposal(st, e, outcome) ==
    LET ps == st.m.proposals
        named == SelectInSeq(ps, LAMBDA q : q.proposed = e.p.proposed)
        i == IF named = 0 THEN Len(ps) ELSE named
    IN IF i = 0 THEN st
       ELSE [st EXCEPT !.m.proposals[i].outcome = outcome, !.m.proposals[i].closed = e.seq]

\* freeze: the vertices are announced now and created later, possibly by another read.
Freeze(st, e) ==
    LET closed == CloseProposal(st, e, "frozen")
        told == [closed EXCEPT !.m.announced =
                    [v \in DOMAIN @ \cup e.p.ids |-> IF v \in e.p.ids THEN e.seq ELSE @[v]]]
    IN FoldLeft(LAMBDA acc, s : EnsureScope(acc, s, e.seq), told, e.p.scopes)

\* decidedBy: read off the last proposal.
DecidedBy(st) ==
    LET ps == st.m.proposals
    IN IF ps # <<>> /\ Last(ps).source = "router" /\ Last(ps).outcome = "frozen"
       THEN "router" ELSE "planner"

DepthOf(st, parents) ==
    Max({0} \cup {st.m.vertices[u].depth + 1 : u \in parents \cap DOMAIN st.m.vertices})

NewVertex(st, e) ==
    [id |-> e.v, parents |-> e.parents, role |-> e.p.role, status |-> "vertex/created",
     shadowed |-> 0, decided |-> DecidedBy(st), created |-> e.seq,
     frozenBy |-> IF Has(st.m.announced, e.v) THEN st.m.announced[e.v] ELSE 0,
     depth |-> DepthOf(st, e.parents), scope |-> e.scope, pivot |-> e.p.effect = "irreversible",
     passed |-> FALSE, attempts |-> 0, done |-> FALSE, bracket |-> None,
     outcome |-> IF e.p.role = "router" THEN "pending" ELSE None, stall |-> 0, cost |-> NoCost,
     prompt |-> RendersInPlannerPrompt(e.p.role, None)]

\* create: the vertex, its scope's membership and pivot, and the group its delta belongs to.
Create(st, e) ==
    LET v == NewVertex(st, e)
        group == IF v.frozenBy = 0 THEN v.created ELSE v.frozenBy
        made == [st EXCEPT !.m.vertices = With(@, e.v, v)]
        scoped == IF e.scope = None THEN made
                  ELSE [EnsureScope(made, e.scope, e.seq) EXCEPT
                           !.m.scopes[e.scope].members = IF Contains(@, e.v) THEN @ ELSE Append(@, e.v),
                           !.m.scopes[e.scope].pivot = IF v.pivot THEN e.v ELSE @]
    IN [scoped EXCEPT
           !.m.announced = Without(@, e.v),
           !.appended = With(@, group, IF Has(@, group) THEN Append(@[group], e.v) ELSE <<e.v>>)]

RouterOutcome(e) ==
    CASE e.type = "vertex/failed" -> IF e.p.outcome = "proposal_rejected" THEN "rejected" ELSE "error"
      [] e.type = "vertex/succeeded" -> IF e.p.matched # None THEN "matched" ELSE "fell_through"

\* lifecycle: a router's outcome also decides whether a prompt shows it.
Lifecycle(st, e) ==
    LET ended == e.type \in {"vertex/succeeded", "vertex/failed"}
        step(v) ==
            [v EXCEPT
                !.status = e.type,
                !.done = ended,
                !.attempts = CASE e.type = "vertex/started" -> IF @ = 0 THEN 1 ELSE @
                               [] e.type = "vertex/retried" -> @ + 1
                               [] OTHER -> IF e.p.attempts = 0 THEN @ ELSE e.p.attempts,
                !.outcome = IF v.role = "router" /\ ended THEN RouterOutcome(e) ELSE @,
                !.prompt = IF v.role = "router" /\ ended THEN RouterOutcome(e) = "matched" ELSE @]
    IN Change(st, e.v, step)

Unreadable(st, e) == Change(st, e.p.planner, LAMBDA v : [v EXCEPT !.stall = e.seq])

\* replanFor: one record per boundary, created by whichever event names it first; an escalation
\* names none (0) and gets a record of its own.
Paired(st, e) ==
    SelectInSeq(st.m.replans, LAMBDA r : e.p.boundary # 0 /\ r.boundary = e.p.boundary)

ReplanAt(st, e) == IF Paired(st, e) = 0 THEN Len(st.m.replans) ELSE Paired(st, e)

WithReplan(st, e) ==
    IF Paired(st, e) # 0 THEN st
    ELSE [st EXCEPT !.m.replans = Append(@, [at |-> e.seq, ids |-> {}, boundary |-> e.p.boundary])]

\* The delta is pushed as the event is read: before the appends of its own batch.
TellReplan(st, e) ==
    [st EXCEPT !.deltas = Append(@, [type |-> "subgraph_shadowed", replan |-> ReplanAt(st, e)])]

Boundary(st, e) == TellReplan(WithReplan(st, e), e)

\* shadow: exactly the named vertices, flagged and never deleted.
Shadow(st, e) ==
    LET hid == [st EXCEPT !.m.vertices =
                   [v \in DOMAIN @ |-> IF v \in e.p.ids /\ @[v].shadowed = 0
                                       THEN [@[v] EXCEPT !.shadowed = e.seq] ELSE @[v]]]
        paired == WithReplan(hid, e)
    IN TellReplan([paired EXCEPT !.m.replans[ReplanAt(paired, e)].ids = @ \cup e.p.ids], e)

\* scopeState: a declared pivot is compared with the derived one, never adopted.
ScopeState(st, e) ==
    IF e.scope = None THEN st
    ELSE LET open == EnsureScope(st, e.scope, e.seq)
             row == open.m.scopes[e.scope]
         IN Touch([open EXCEPT
                !.m.scopes[e.scope].state = e.p.state,
                !.m.scopes[e.scope].closed = IF e.p.state \in {"committed", "cancelled"} THEN e.seq ELSE @,
                !.m.scopes[e.scope].mismatch =
                    @ \/ (e.p.pivot # None /\ row.pivot # None /\ e.p.pivot # row.pivot)], row.members)

\* txn/cancel is a scope action: it closes every sealed bracket of the scope at once.
Cancel(st, e) ==
    IF e.scope = None THEN st
    ELSE LET open == EnsureScope(st, e.scope, e.seq)
             members == open.m.scopes[e.scope].members
             done == e.p.phase = "completed"
         IN Touch([open EXCEPT
                !.m.scopes[e.scope].state = IF done THEN "cancelled" ELSE "cancelling",
                !.m.scopes[e.scope].closed = IF done THEN e.seq ELSE @,
                !.m.vertices = [v \in DOMAIN @ |->
                    IF done /\ Contains(members, v) /\ @[v].bracket = "sealed"
                    THEN [@[v] EXCEPT !.bracket = "cancelled"] ELSE @[v]]], members)

Bracket(st, e) ==
    CASE e.type = "txn/try" -> Change(st, e.v, LAMBDA v : [v EXCEPT !.bracket = "sealed"])
      [] e.type = "txn/confirm" ->
            IF Has(st.m.vertices, e.v) /\ st.m.vertices[e.v].bracket # None
            THEN Change(st, e.v, LAMBDA v : [v EXCEPT !.bracket = "confirmed"]) ELSE st
      [] e.type = "txn/cancel" -> Cancel(st, e)

PivotPassed(st, e) ==
    LET open == IF e.scope = None THEN st
                ELSE [EnsureScope(st, e.scope, e.seq) EXCEPT !.m.scopes[e.scope].passed = e.seq]
    IN Change(open, e.v, LAMBDA v : [v EXCEPT !.passed = TRUE])

\* The run's total after one more call: no total when this call has no price, or another currency.
AddCost(spend, cost) ==
    [calls |-> spend.calls + 1,
     amount |-> IF cost.amount = Unpriced \/ spend.currency \notin {None, cost.currency} THEN Unpriced
                ELSE cost.amount + (IF spend.amount = Unpriced THEN 0 ELSE spend.amount),
     currency |-> IF cost.currency = None THEN spend.currency ELSE cost.currency]

Charge(st, e) ==
    Change([st EXCEPT !.m.spend = AddCost(@, e.p.cost)], e.v, LAMBDA v : [v EXCEPT !.cost = e.p.cost])

KnownTypes ==
    LifecycleTypes \cup
    {"run/start", "run/end", "run/end-seed", "fork/created", "subgraph/proposed", "subgraph/rejected",
     "subgraph/frozen", "vertex/created", "subgraph/shadowed", "subgraph/unreadable",
     "replan/boundary", "replan/cancel-requested", "txn/scope", "txn/try", "txn/confirm",
     "txn/cancel", "txn/pivot-passed", "budget/charged", "rule_template/published"}

\* apply throws on an event that this build does not know and that is not marked ignorable.
Refuses(e) == e.type \notin KnownTypes /\ ~e.p.ignorable

\* An unknown event that may be ignored is skipped before the watermark moves.
ApplyEvent(st0, e) ==
    IF e.type \notin KnownTypes THEN st0
    ELSE LET st == [st0 EXCEPT !.last = IF e.seq > @ THEN e.seq ELSE @]
         IN CASE e.type = "run/end-seed" -> [st EXCEPT !.m.kind = "counterfactual"]
              [] e.type = "fork/created" -> [st EXCEPT !.m.forks = Append(@, e.seq)]
              [] e.type = "subgraph/proposed" ->
                    [st EXCEPT !.m.proposals =
                        Append(@, [proposed |-> e.seq, source |-> e.p.source, outcome |-> "open", closed |-> 0])]
              [] e.type = "subgraph/rejected" -> CloseProposal(st, e, "rejected")
              [] e.type = "subgraph/frozen" -> Freeze(st, e)
              [] e.type = "vertex/created" -> Create(st, e)
              [] e.type \in LifecycleTypes -> Lifecycle(st, e)
              [] e.type = "subgraph/shadowed" -> Shadow(st, e)
              [] e.type = "replan/boundary" -> Boundary(st, e)
              [] e.type = "replan/cancel-requested" -> [st EXCEPT !.m.cancels = Append(@, e.seq)]
              [] e.type = "subgraph/unreadable" -> Unreadable(st, e)
              [] e.type = "txn/scope" -> ScopeState(st, e)
              [] e.type \in {"txn/try", "txn/confirm", "txn/cancel"} -> Bracket(st, e)
              [] e.type = "txn/pivot-passed" -> PivotPassed(st, e)
              [] e.type = "budget/charged" -> Charge(st, e)
              [] OTHER -> st

\* The groups of vertices this batch created, in the order of the freezes that announced them.
Groups(st) == SetToSortSeq(DOMAIN st.appended, <)

\* Mutant: an append brings no scope along.
ScopesOf_None(st, vs) == <<>>

ScopesOf(st, vs) ==
    SelectSeq(SetToSeq({st.m.vertices[v].scope : v \in ToSet(vs)}), LAMBDA s : Has(st.m.scopes, s))

\* Mutant: the patches of a batch share one number.
Numbered_Patches(st, all, at) ==
    [i \in DOMAIN all |-> [at |-> at, ord |-> IF all[i].type = "vertex_patched" THEN 0 ELSE i - 1,
                           spend |-> st.m.spend, what |-> all[i]]]

\* A delta carries the watermark of its batch, its place in it and the run's spend.
Numbered(st, all, at) == [i \in DOMAIN all |-> [at |-> at, ord |-> i - 1, spend |-> st.m.spend, what |-> all[i]]]

\* finish: the discards already told, then one append per freeze, then one patch per vertex that
\* changed; all carry the watermark this batch reached and are numbered in send order.
Finish(st) ==
    LET appends == [i \in DOMAIN Groups(st) |->
                       LET vs == st.appended[Groups(st)[i]]
                       IN [type |-> "subgraph_appended", ids |-> vs, scopes |-> ScopesOf(st, vs)]]
        patches == [i \in DOMAIN st.patched |-> [type |-> "vertex_patched", id |-> st.patched[i]]]
        all == st.deltas \o appends \o patches
        at == IF st.last > st.m.at THEN st.last ELSE st.m.at
    IN [model |-> [st.m EXCEPT !.at = at],
        deltas |-> Numbered(st, all, at)]

\* The value of a set of one.
Only(S) == CHOOSE x \in S : TRUE

\* The events of a batch in order, from the i-th on, up to one that throws.
RECURSIVE ApplyFrom(_, _, _)
ApplyFrom(st, batch, i) ==
    IF i > Len(batch) \/ Refuses(batch[i]) THEN st
    ELSE Only({ApplyFrom(next, batch, i + 1) : next \in {ApplyEvent(st, batch[i])}})

AdvanceConsoleDag(m, batch) == Only({Finish(st) : st \in {ApplyFrom(FoldStart(m), batch, 1)}})

\* What a throw leaves behind: the model is not replaced, but the objects that it shares with the
\* abandoned fold are as the events before the throw made them.
Abandoned(m, batch) ==
    LET half == ApplyFrom(FoldStart(m), batch, 1).m
    IN [m EXCEPT !.vertices = [v \in DOMAIN @ |-> half.vertices[v]],
                 !.scopes = [s \in DOMAIN @ |-> half.scopes[s]],
                 !.replans = [i \in DOMAIN @ |-> half.replans[i]],
                 !.proposals = [i \in DOMAIN @ |-> half.proposals[i]]]

ConsoleDag(log) == AdvanceConsoleDag(EmptyDag, log).model

\* The model's vertices in the order the run created them.
Ordered(m) ==
    LET vs == {m.vertices[v] : v \in DOMAIN m.vertices}
    IN [i \in 1 .. Cardinality(vs) |->
           CHOOSE v \in vs : Cardinality({u \in vs : u.created < v.created}) = i - 1]
=============================================================================
