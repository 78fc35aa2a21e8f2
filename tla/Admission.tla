----------------------------- MODULE Admission -----------------------------
(***************************************************************************)
(* Freeze admission, as pure operators: what a submitted subgraph becomes  *)
(* (normalizeWorkflow), the rules it is checked by (checkSubDag and        *)
(* checkFreezeAdmission), and the events it compiles to.                   *)
(*                                                                         *)
(* A submission is [source, attach, vertices, scopes]: a sequence of       *)
(* vertices [id, kind, parents, tool, scope, ref, confirmed, key, arg] and *)
(* a sequence of scopes [id, members].  `ref` is a template_ref, `key` an  *)
(* explicit idempotency key, and `arg` the argument value that the         *)
(* contract's key path and companion mappings read; each may be None.  A   *)
(* tool view is a function from names to contracts.  Messages are left     *)
(* out: a violation is a rule and the vertices it names.                   *)
(***************************************************************************)
EXTENDS EventLog

Bad(rule, vs) == [rule |-> rule, vs |-> vs]

Ids(w) == {v.id : v \in ToSet(w.vertices)}
VertexAt(w, id) == w.vertices[SelectInSeq(w.vertices, LAMBDA v : v.id = id)]
KindOf(w, id) == VertexAt(w, id).kind

-----------------------------------------------------------------------------
(* Normalisation *)

Interposed(id) == id \o "#router"

\* A planner with parents stands behind exactly one router.
NeedsInterposedRouter(w, v) ==
    /\ v.kind = "planner" /\ v.parents # {}
    /\ ~\E u \in v.parents : v.parents = {u} /\ KindOf(w, u) = "router"

\* normalizeWorkflow throws on a parent it does not know and on a router that is already there.
Malformed(w) ==
    \E v \in ToSet(w.vertices) :
        \/ ~(v.parents \subseteq Ids(w))
        \/ NeedsInterposedRouter(w, v) /\ Interposed(v.id) \in Ids(w)

Router(id, parents) ==
    [id |-> id, kind |-> "router", parents |-> parents, tool |-> None, scope |-> None, ref |-> None,
     confirmed |-> FALSE, key |-> None, arg |-> None]

\* Mutant: the planner keeps its own edges beside the router's.
Behind_KeepsEdges(v) ==
    <<Router(Interposed(v.id), v.parents), [v EXCEPT !.parents = @ \cup {Interposed(v.id)}]>>

Behind(v) == <<Router(Interposed(v.id), v.parents), [v EXCEPT !.parents = {Interposed(v.id)}]>>

NormalizeWorkflow(w) ==
    [w EXCEPT !.vertices = FlattenSeq([i \in DOMAIN w.vertices |->
        IF NeedsInterposedRouter(w, w.vertices[i]) THEN Behind(w.vertices[i]) ELSE <<w.vertices[i]>>])]

-----------------------------------------------------------------------------
(* The graph the rules look at *)

Edges(w) == UNION {{<<u, v.id>> : u \in v.parents} : v \in ToSet(w.vertices)}

Before(w) == [id \in Ids(w) |->
    Reach({<<e[2], e[1]>> : e \in Edges(w)}, VertexAt(w, id).parents)]

Cyclic(w) == \E id \in Ids(w) : id \in Before(w)[id]

Tools(w) == {v \in ToSet(w.vertices) : v.kind = "tool"}

\* The graph once for all rules: contracts of the tool vertices, ancestors and pivots.
BuildContext(w, reg) ==
    [tool |-> [id \in {v.id : v \in Tools(w)} |-> reg[VertexAt(w, id).tool]],
     before |-> Before(w),
     scope |-> [id \in Ids(w) |-> VertexAt(w, id).scope],
     pivots |-> {v.id : v \in {t \in Tools(w) : reg[t.tool].effect = "irreversible"}},
     barriers |-> {v \in ToSet(w.vertices) : v.kind = "confirmation-barrier"}]

IsUndoable(t) == t.effect \in {"none", "bufferable"} \/ t.mode = "tcc" \/ t.compensate # None

RetrySafe(reg, name) == name \in DOMAIN reg /\ reg[name].retry

\* ToolRegistry.validate: a saga needs a retry-safe compensation, a TCC tool its two companions
\* and a timeout.
RegistryDefects(reg) ==
    {Bad("R4", {}) : t \in {t \in DOMAIN reg : reg[t].mode = "saga" /\ ~RetrySafe(reg, reg[t].compensate)}}
    \cup {Bad("R6", {}) : t \in {t \in DOMAIN reg : reg[t].mode = "tcc" /\
             ~(RetrySafe(reg, reg[t].confirm) /\ RetrySafe(reg, reg[t].cancel) /\ reg[t].timeout)}}

Unscoped(c) == {Bad("R10", {v}) : v \in {v \in DOMAIN c.tool : c.tool[v].effect # "none" /\ c.scope[v] = None}}

\* Mutant: R3 as an obligation, a scope has exactly one pivot.
ScopeRules_ExactlyOne(c, members) ==
    IF Cardinality(c.pivots \cap members) # 1 THEN {Bad("R3", members)} ELSE {}

\* R3, R2, R1 and R11, for the members a scope lists.
ScopeRules(c, members) ==
    LET own == c.pivots \cap members
        mine == members \cap DOMAIN c.tool
    IN (IF Cardinality(own) > 1 THEN {Bad("R3", own)} ELSE {})
       \cup UNION {
            {Bad("R2", {v, p}) : v \in {v \in mine \cap c.before[p] : ~IsUndoable(c.tool[v])}}
            \cup {Bad("R1", {v, p}) : v \in {v \in mine : p \in c.before[v] /\ ~c.tool[v].retry}}
            \cup {Bad("R11", {v, p}) : v \in {v \in (c.before[p] \cap DOMAIN c.tool) \ members :
                     c.tool[v].effect = "reversible" /\ c.tool[v].footprint \cap c.tool[p].footprint # {}}}
            : p \in own}

\* Only with a router in the graph: no fresh scope inside a half-open one, and R3 across freezes.
PlacementRules(w, c, existing) ==
    LET half == {s \in DOMAIN existing : existing[s].state = "half-open"}
    IN IF \A v \in ToSet(w.vertices) : v.kind # "router" THEN {}
       ELSE UNION {
            (IF half # {} /\ s.id \notin DOMAIN existing THEN {Bad("R12", s.members)} ELSE {})
            \cup (IF s.id \in DOMAIN existing
                     /\ existing[s.id].pivots + Cardinality(c.pivots \cap s.members) > 1
                  THEN {Bad("R3", c.pivots \cap s.members)} ELSE {})
            : s \in ToSet(w.scopes)}

Parallel(c, u, v) == u # v /\ u \notin c.before[v] /\ v \notin c.before[u]

ParallelPivots(c) ==
    {Bad("R5", {x[1], x[2]}) : x \in {y \in c.pivots \X c.pivots :
        /\ Parallel(c, y[1], y[2])
        /\ ~\E b \in c.barriers : Cardinality(b.parents) >= 2
                                   /\ b.id \in c.before[y[1]] \cap c.before[y[2]]}}

\* R7 and R14 speak of edges out of a tool; R12 of who may be a scope member.
EdgeRules(w, c) ==
    {Bad("R7", {e[1], e[2]}) : e \in {e \in Edges(w) :
        /\ e[1] \in DOMAIN c.tool /\ c.tool[e[1]].effect # "none" /\ ~VertexAt(w, e[1]).confirmed
        /\ None \notin {c.scope[e[1]], c.scope[e[2]]} /\ c.scope[e[1]] # c.scope[e[2]]}}
    \cup {Bad("R14", {e[1], e[2]}) : e \in {e \in Edges(w) :
             KindOf(w, e[1]) = "tool" /\ KindOf(w, e[2]) = "planner"}}
    \cup {Bad("R12", {v.id}) : v \in {v \in ToSet(w.vertices) :
             /\ v.kind \in {"planner", "router"}
             /\ v.scope # None \/ \E s \in ToSet(w.scopes) : v.id \in s.members}}

\* R8: a read on the way to something else after the pivot of its own scope.
PostPivotReads(c) ==
    UNION {{Bad("R8", {v, p}) : v \in {v \in DOMAIN c.tool :
                p \in c.before[v] /\ c.scope[v] = c.scope[p] /\ c.tool[v].effect = "none"
                /\ \E x \in DOMAIN c.before : v \in c.before[x]}} : p \in c.pivots}

\* R9: two parallel writes of one thing before, or as, a pivot, with no barrier in between.
ParallelWrites(c) ==
    LET related(u, v) == {p \in c.pivots : p \in {u, v} \/ {u, v} \cap c.before[p] # {}}
        clash(u, v) == /\ Parallel(c, u, v) /\ c.tool[u].writes \cap c.tool[v].writes # {}
                       /\ related(u, v) # {}
                       /\ ~\E b \in c.barriers : /\ {u, v} \subseteq c.before[b.id]
                                                 /\ \A p \in related(u, v) : b.id \in c.before[p]
    IN {Bad("R9", {x[1], x[2]}) : x \in {y \in (DOMAIN c.tool) \X (DOMAIN c.tool) : clash(y[1], y[2])}}

CheckSubDag(w, reg, existing) ==
    LET c == BuildContext(w, reg)
    IN RegistryDefects(reg) \cup Unscoped(c)
       \cup UNION {ScopeRules(c, s.members) : s \in ToSet(w.scopes)}
       \cup PlacementRules(w, c, existing) \cup ParallelPivots(c) \cup EdgeRules(w, c)
       \cup PostPivotReads(c) \cup ParallelWrites(c)

-----------------------------------------------------------------------------
(* Scope rows and rule branches *)

\* snapshotState and admissionBlock, of a locked row.  The fence blocks only while it is open.
SnapshotState(row) ==
    IF row.state \in {"committed", "cancelled"} THEN row.state
    ELSE IF row.sealed THEN "half-open" ELSE "open"

AdmissionBlock(row) ==
    CASE row.state \in {"cancelling", "suspended", "pivot-inflight", "pivot-passed"} -> row.state
      [] row.state = "open" /\ row.fenced -> "fenced"
      [] OTHER -> IF row.expired THEN "expired-try" ELSE None

Snapshots(rows) ==
    [s \in DOMAIN rows |-> [state |-> SnapshotState(rows[s]), pivots |-> rows[s].pivots]]

CheckScopeAdmission(rows) == {s \in DOMAIN rows : AdmissionBlock(rows[s]) # None}

DerivePlacement(existing) ==
    IF \E s \in DOMAIN existing : existing[s].state \in {"open", "half-open"}
    THEN "inside_scope" ELSE "at_savepoint"

EffectOrder == <<"none", "bufferable", "reversible", "irreversible">>
EffectRank(e) == SelectInSeq(EffectOrder, LAMBDA x : x = e)

\* traitsOf: derived from the tools the view knows, never from what the draft says.
TraitsOf(b, reg) ==
    LET effects == {reg[t].effect : t \in {v.tool : v \in Tools(b.sub)} \cap DOMAIN reg} \cup {"none"}
    IN [condition |-> b.condition, sub |-> b.sub, opens |-> b.sub.scopes # <<>>,
        pivot |-> "irreversible" \in effects,
        effect |-> CHOOSE e \in effects : \A f \in effects : EffectRank(f) <= EffectRank(e)]

MissingTools(w, reg) == {Bad("R13", {v.id}) : v \in {t \in Tools(w) : t.tool \notin DOMAIN reg}}

\* Mutant: a branch inside a transaction is taken to open a scope of its own.
BranchViolations_AlwaysOpens(b, placement, fork, reg, existing) ==
    IF placement = "inside_scope" THEN {Bad("R12", {})} ELSE CheckSubDag(b.sub, reg, existing)

\* checkFreezeAdmission of one branch where its router stands.
BranchViolations(b, placement, fork, reg, existing) ==
    LET half == {s \in DOMAIN existing : existing[s].state = "half-open"}
        missing == MissingTools(b.sub, reg)
        second == b.pivot /\ half # {} /\ existing[CHOOSE s \in half : TRUE].pivots > 0
    IN IF fork /\ b.effect # "none" THEN {Bad("R10", {})}
       ELSE IF missing # {} THEN missing
       ELSE CheckSubDag(b.sub, reg, existing)
            \cup (IF placement = "inside_scope"
                  THEN (IF b.opens THEN {Bad("R12", {})} ELSE {}) \cup (IF second THEN {Bad("R3", {})} ELSE {})
                  ELSE IF b.effect # "none" /\ ~b.opens THEN {Bad("R10", {})} ELSE {})

CheckFreezeAdmission(branches, placement, fork, reg, existing) ==
    (IF placement = "at_savepoint" /\ DerivePlacement(existing) = "inside_scope"
     THEN {Bad("R13", {})} ELSE {})
    \cup UNION {BranchViolations(b, placement, fork, reg, existing) : b \in ToSet(branches)}

-----------------------------------------------------------------------------
(* Compilation *)

NoKey == [base |-> None, gen |-> 0]

BaseIdempotencyKey(v, t) ==
    IF v.key # None THEN v.key ELSE IF t.keyed THEN v.tool \o ":" \o v.arg ELSE None

\* Mutant: every plan takes the next generation.
NextIdempotencyKey_AlwaysNext(base, brackets) ==
    IF base = None THEN NoKey
    ELSE [base |-> base, gen |-> Max({0} \cup {k.gen : k \in {j \in DOMAIN brackets : j.base = base}}) + 1]

\* nextIdempotencyKey: a live generation wins; past cancelled ones the next is taken.
NextIdempotencyKey(base, brackets) ==
    LET known == {k \in DOMAIN brackets : k.base = base}
        live == {k \in known : brackets[k] # "cancelled"}
    IN CASE base = None -> NoKey
         [] base # None /\ live # {} -> CHOOSE k \in live : TRUE
         [] OTHER -> [base |-> base, gen |-> Max({0} \cup {k.gen : k \in known}) + 1]

NoSlot == [target |-> None, upstream |-> {}]

\* routerSlotIds: the slot of an interposed router without a template of its own is named by the
\* planner behind it and the tools before it.
SlotOf(w, v) ==
    LET behind == {u \in Ids(w) : v.id = Interposed(u)}
    IN IF v.ref # None \/ behind = {} THEN NoSlot
       ELSE [target |-> CHOOSE u \in behind : TRUE,
             upstream |-> {VertexAt(w, u).tool : u \in {x \in v.parents : KindOf(w, x) = "tool"}}]

\* compileVertexDrafts throws on an undeclared scope, and where the frozen arguments do not carry
\* what the contract's key path or a companion reads.
DoesNotCompile(w, reg) ==
    \/ \E v \in ToSet(w.vertices) : v.scope # None /\ \A s \in ToSet(w.scopes) : s.id # v.scope
    \/ \E v \in Tools(w) : v.arg = None /\ (reg[v.tool].companions \/ (reg[v.tool].keyed /\ v.key = None))

\* Mutant: as submitted.
TopologicalOrder_AsSubmitted(w) == w.vertices

\* topologicalOrder: parents first, otherwise as submitted.
RECURSIVE Placed(_, _, _)
Placed(w, done, todo) ==
    IF todo = <<>> THEN done
    ELSE LET v == Head(todo)
             above == SelectSeq(w.vertices, LAMBDA u : u.id \in v.parents)
         IN IF Contains(done, v) THEN Placed(w, done, Tail(todo))
            ELSE Placed(w, Append(Placed(w, done, above), v), Tail(todo))

TopologicalOrder(w) == Placed(w, <<>>, w.vertices)
=============================================================================
