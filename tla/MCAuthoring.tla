---------------------------- MODULE MCAuthoring ----------------------------
(* The tools of a small shop, and the graphs of up to six vertices over them. *)
EXTENDS Authoring

Contract(effect, mode, retry, writes) ==
    [effect |-> effect, mode |-> mode, retry |-> retry, footprint |-> writes, writes |-> writes,
     compensate |-> None, confirm |-> IF mode = "tcc" THEN "note" ELSE None,
     cancel |-> IF mode = "tcc" THEN "note" ELSE None, timeout |-> mode = "tcc", keyed |-> mode = "tcc",
     companions |-> FALSE, fields |-> IF effect = "none" THEN {"stock"} ELSE {}]

View == [look |-> Contract("none", "plain", TRUE, {}),
         note |-> Contract("bufferable", "plain", TRUE, {}),
         reserve |-> Contract("reversible", "tcc", TRUE, {"stock"}),
         edit |-> Contract("reversible", "plain", FALSE, {"stock"}),
         pay |-> Contract("irreversible", "plain", FALSE, {"stock"})]

Shape(kind, tool, scope) == [kind |-> kind, tool |-> tool, scope |-> scope, confirmed |-> FALSE]
Confirmed(shape) == [shape EXCEPT !.confirmed = TRUE]
ShopShapes == {Shape("tool", "look", None), Shape("tool", "look", "s"), Shape("tool", "reserve", "s"),
               Shape("tool", "edit", "s"), Shape("tool", "pay", "s"), Shape("planner", None, None),
               Shape("confirmation-barrier", None, None)}

Vertex(id, parents, shape) == [id |-> id, parents |-> parents, ref |-> None, key |-> None, arg |-> id] @@ shape
Graph(vertices, scopes) == [source |-> "submitted", attach |-> {}, vertices |-> vertices, scopes |-> scopes]

Reserved(id, scope) == Vertex(id, {}, Shape("tool", "reserve", scope))
Scope(id, members) == [id |-> id, members |-> members]

\* A condition on a field that its tool declares, one of two disjuncts with every kind of clause that
\* publication lets pass, and the empty one.
Low == << <<Clause("look", "stock", "<", Num(1))>> >>
Odd == << <<Clause("look", "stock", "==", Text("none")), Clause("look", "stock", ">", Unsupported)>>,
          <<[Clause("look", "stock", "<=", Num(1)) EXCEPT !.words = {"stock"}]>> >>
Empty == << <<NoClause>> >>

Stem(graph, add, cond) == [graph |-> graph, add |-> add, condition |-> cond]

\* Nothing yet; one reservation; a transaction past its pivot beside one that has begun; two
\* reservations that meet in a barrier before the first of them is paid; and a note and a
\* reservation whose outputs their author calls confirmed.
Starts == {
    Stem(Graph(<<>>, <<>>), 3, Low),
    Stem(Graph(<<Reserved("a", "s")>>, <<Scope("s", {"a"})>>), 3, Odd),
    Stem(Graph(<<Reserved("a", "t"), Vertex("b", {"a"}, Shape("tool", "pay", "t")), Reserved("c", "s")>>,
               <<Scope("t", {"a", "b"}), Scope("s", {"c"})>>), 2, Empty),
    Stem(Graph(<<Reserved("a", "t"), Reserved("b", "s"),
                 Vertex("c", {"a", "b"}, Shape("confirmation-barrier", None, None)),
                 Vertex("d", {"c"}, Shape("tool", "pay", "t"))>>,
               <<Scope("t", {"a", "d"}), Scope("s", {"b"})>>), 2, Low),
    Stem(Graph(<<Vertex("a", {}, Confirmed(Shape("tool", "note", "t"))),
                 Vertex("b", {}, Confirmed(Shape("tool", "reserve", "t")))>>,
               <<Scope("t", {"a", "b"})>>), 2, Low)}
=============================================================================
