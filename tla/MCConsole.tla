----------------------------- MODULE MCConsole -----------------------------
(* Small runs of the Console: the transactions of three short histories. *)
EXTENDS ConsoleStream

Note(type, p) == Ev(type, None, {}, None, p)
New(v, parents, scope, role, effect) ==
    Ev("vertex/created", v, parents, scope, [role |-> role, effect |-> effect])
Did(type, v) == Ev(type, v, {}, None, [attempts |-> 0, matched |-> None, outcome |-> None])
Ran(v) == Did("vertex/succeeded", v)
InScope(type, v, scope, p) == Ev(type, v, {}, scope, p)
Frozen(proposed, ids, scopes) ==
    Note("subgraph/frozen", [proposed |-> proposed, ids |-> ids, scopes |-> scopes])
Charged(v, amount) ==
    Ev("budget/charged", v, {}, None, [cost |-> [amount |-> amount, currency |-> "USD"]])

\* A planner's branch opens a scope, its second call fails, the scope is cancelled and the branch
\* is discarded.
Discarded == <<
    <<Note("run/start", <<>>), New("p", {}, None, "planner", "none")>>,
    <<Did("vertex/started", "p"), Charged("p", 2), Ran("p"),
      Note("subgraph/proposed", [source |-> "planner"])>>,
    <<Frozen(6, {"a", "b"}, <<"s">>), New("a", {"p"}, "s", "tool", "bufferable"),
      New("b", {"p"}, "s", "tool", "irreversible")>>,
    <<InScope("txn/try", "a", "s", <<>>), Did("vertex/failed", "b")>>,
    <<Note("replan/cancel-requested", <<>>),
      InScope("txn/cancel", None, "s", [phase |-> "completed"])>>,
    <<Note("replan/boundary", [boundary |-> 2]),
      Note("subgraph/shadowed", [boundary |-> 2, ids |-> {"a", "b"}]),
      Note("replan/boundary", [boundary |-> 0])>> >>

\* A rule's branch grows beside a planner's, and its pivot commits; a newer writer adds an event
\* this reader may ignore, and the run is forked.
Grown == <<
    <<Note("run/start", <<>>), New("p", {}, None, "planner", "none"),
      Note("subgraph/unreadable", [planner |-> "p"])>>,
    <<Frozen(0, {"r", "n"}, <<>>), New("r", {"p"}, None, "router", "none"),
      New("n", {"r"}, None, "planner", "none"), Note("future/event", [ignorable |-> TRUE])>>,
    <<Note("subgraph/proposed", [source |-> "router"]),
      Frozen(8, {"c", "d"}, <<"s">>), New("c", {"r"}, "s", "tool", "irreversible"),
      New("d", {"p"}, None, "tool", "none"),
      Ev("vertex/succeeded", "r", {}, None, [attempts |-> 1, matched |-> "cond", outcome |-> None])>>,
    <<InScope("txn/scope", None, "s", [state |-> "open", pivot |-> "d"]), Did("vertex/retried", "d"),
      InScope("txn/pivot-passed", "c", "s", <<>>)>>,
    <<InScope("txn/confirm", "c", "s", <<>>), Note("fork/created", <<>>),
      Note("subgraph/rejected", [proposed |-> 8])>> >>

\* A newer Engine writes what this reader may not ignore, between two events it knows.
Newer == <<
    <<Note("run/start", <<>>), New("p", {}, None, "planner", "none")>>,
    <<Did("vertex/started", "p"), Charged("p", 2), Note("future/decision", [ignorable |-> FALSE]), Ran("p")>> >>

Histories == {Discarded, Grown, Newer}
=============================================================================
