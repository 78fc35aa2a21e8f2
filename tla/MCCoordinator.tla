--------------------------- MODULE MCCoordinator ---------------------------
(* Small runs of the Coordinator for TLC: the shapes of sub-DAG they execute.
   Vertices, scopes and keys are strings; only processes are model values. *)
EXTENDS Coordinator, TLC

Symmetry == Permutations(Worker)

OneScope == [v \in Vertex |-> "s1"]
OwnKey == [v \in Vertex |-> v]

\* A reservation, a compensable step that depends on it, then the pivot.
ChainParents == [v \in Vertex |-> CASE v = "t1" -> {} [] v = "t2" -> {"t1"} [] v = "p1" -> {"t1", "t2"}]

\* The pivot depends on the reservation only: the compensable step runs beside it, and admission waits.
ForkParents == [v \in Vertex |-> IF v = "t1" THEN {} ELSE {"t1"}]

\* One reservation, then the pivot.
StrandParents == [v \in Vertex |-> IF v = "p1" THEN {"t1"} ELSE {}]

\* A reservation and a compensable step that depends on it.
LineParents == [v \in Vertex |-> IF v = "t2" THEN {"t1"} ELSE {}]

\* Two scopes.  s1: try, compensable step, barrier, pivot, then a plain call.  s2: a try under the key of the first.
\* q comes last: an irreversible call with no scope, which the Coordinator refuses.
MixedScopeOf == [v \in Vertex |-> CASE v = "t2" -> "s2" [] v = "q" -> None [] OTHER -> "s1"]
MixedKeyOf == [v \in Vertex |-> IF v = "t2" THEN "t1" ELSE v]
MixedParents == [v \in Vertex |-> CASE v = "t3" -> {"t1"} [] v = "b" -> {"t3"} [] v = "p1" -> {"b"}
                                    [] v = "n" -> {"p1"} [] v = "q" -> {"n"} [] OTHER -> {}]

NoParents == [v \in Vertex |-> {}]
=============================================================================
