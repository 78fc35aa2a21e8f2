----------------------------- MODULE Authoring -----------------------------
(***************************************************************************)
(* Every subgraph an author can write, one vertex at a time, against the   *)
(* admission rules.  A vertex is added with parents that are there already *)
(* so each behaviour grows one graph through all its causal prefixes.      *)
(***************************************************************************)
EXTENDS Router

CONSTANTS
    ToolView,      \* the resolved tool view: name -> contract
    Stems,         \* what an author starts from: [graph, add, condition], the number of vertices to
                   \* add and the condition of the rule that the graph is a branch of
    Shapes         \* what a vertex may be: [kind, tool, scope, confirmed]

VARIABLES w, left, condition
vars == <<w, left, condition>>

Joined(scopes, s, id) ==
    LET i == SelectInSeq(scopes, LAMBDA x : x.id = s)
    IN IF s = None THEN scopes
       ELSE IF i = 0 THEN Append(scopes, [id |-> s, members |-> {id}])
       ELSE [scopes EXCEPT ![i].members = @ \cup {id}]

AddVertex(shape, parents) ==
    LET id == "n" \o ToString(Len(w.vertices))
        v == [id |-> id, kind |-> shape.kind, parents |-> parents, tool |-> shape.tool, scope |-> shape.scope,
              ref |-> None, confirmed |-> shape.confirmed, key |-> None, arg |-> id]
    IN /\ left > 0 /\ left' = left - 1
       /\ w' = [w EXCEPT !.vertices = Append(@, v), !.scopes = Joined(@, shape.scope, id)]
       /\ UNCHANGED condition

Init == \E stem \in Stems : w = stem.graph /\ left = stem.add /\ condition = stem.condition
Next == \E shape \in Shapes : \E parents \in SUBSET Ids(w) : AddVertex(shape, parents)
Spec == Init /\ [][Next]_vars

Admissible(x) == CheckSubDag(NormalizeWorkflow(x), ToolView, <<>>) = {}

\* The meta-rule of document 02 section 3.3: every check-rule is a prohibition.  What a freeze
\* refuses, no later vertex makes admissible, so a graph may be extended freeze by freeze.
ExtensionNeverRepairs == [][Admissible(w') => Admissible(w)]_vars

\* normalizeWorkflow is stable, leaves no edge from a tool to a planner (R14) and keeps the order
\* of the vertices the author wrote.
NormalFormIsStable ==
    \A n \in {NormalizeWorkflow(w)} :
        /\ NormalizeWorkflow(n) = n
        /\ \A b \in EdgeRules(n, BuildContext(n, ToolView)) : b.rule # "R14"
        /\ \A u, v \in Ids(w) : u \in Before(w)[v] <=> u \in Before(n)[v]

\* compileVertexDrafts numbers every vertex after its parents, in whatever order they are written.
CompiledParentsFirst ==
    \A order \in {TopologicalOrder([w EXCEPT !.vertices = Reverse(@)])} :
        /\ Len(order) = Len(w.vertices) /\ ToSet(order) = ToSet(w.vertices)
        /\ \A i \in DOMAIN order : order[i].parents \subseteq {order[j].id : j \in 1 .. i - 1}

\* The graph as the only branch of a rule.
Draft == [ref |-> "rule", slot |-> NoSlot, branches |-> <<[condition |-> condition, sub |-> w]>>]

\* Three gates for one branch: publication, the freeze of its router and the submission when it
\* matches.  A published branch passes the freeze at a savepoint.  Its submission is refused for one
\* thing only, R7 on the output of a vertex whose confirmedOutput toSubmittedVertex dropped, and for
\* every such output that another scope reads; and where it is not refused it throws exactly if it
\* calls a tool whose key or companions read the arguments, which were dropped as well.
RefusedOnlyForWhatWasDropped ==
    \A emitted \in {NormalizeWorkflow(Emitted(w))} :
        PublishRuleTemplate(Draft, ToolView) = {} =>
            /\ CheckFreezeAdmission(Published(Draft, ToolView).branches, "at_savepoint", FALSE, ToolView, <<>>) = {}
            /\ CheckSubDag(emitted, ToolView, <<>>) =
                   {Bad("R7", {e[1], e[2]}) : e \in {e \in Edges(w) :
                       /\ VertexAt(w, e[1]).confirmed /\ ToolView[VertexAt(w, e[1]).tool].effect # "none"
                       /\ {None, VertexAt(w, e[1]).scope} \cap {VertexAt(w, e[2]).scope} = {}}}
            /\ DoesNotCompile(emitted, ToolView) <=> \E v \in Tools(w) : ToolView[v.tool].keyed \/ ToolView[v.tool].companions

\* A published rule that only reads and opens no scope may stand anywhere: inside a transaction, with
\* or without a pivot, and in a counterfactual run.
ReadOnlyRuleFitsAnywhere ==
    \A b \in {Published(Draft, ToolView).branches[1]} :
        PublishRuleTemplate(Draft, ToolView) = {} /\ b.effect = "none" /\ ~b.opens =>
            \A pivots \in {0, 1}, fork \in BOOLEAN :
                CheckFreezeAdmission(<<b>>, "inside_scope", fork, ToolView,
                                     [s |-> [state |-> "half-open", pivots |-> pivots]]) = {}
=============================================================================
