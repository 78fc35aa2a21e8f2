------------------------------ MODULE MCEngine ------------------------------
(* A small shop: a look at the stock, a reservation and a payment. *)
EXTENDS Engine

Contract(effect, mode, retry, keyed) ==
    [effect |-> effect, mode |-> mode, retry |-> retry, footprint |-> {}, writes |-> {}, compensate |-> None,
     confirm |-> IF mode = "tcc" THEN "close" ELSE None, cancel |-> IF mode = "tcc" THEN "close" ELSE None,
     timeout |-> mode = "tcc", keyed |-> keyed, companions |-> FALSE,
     fields |-> IF effect = "none" THEN {"stock"} ELSE {}]

View == [peek |-> [Contract("none", "plain", TRUE, FALSE) EXCEPT !.fields = {}],
         look |-> Contract("none", "plain", TRUE, FALSE),
         close |-> Contract("bufferable", "plain", TRUE, FALSE),
         reserve |-> Contract("reversible", "tcc", TRUE, TRUE),
         pay |-> Contract("irreversible", "plain", FALSE, FALSE)]

Vertex(id, kind, parents, tool, arg) ==
    [id |-> id, kind |-> kind, parents |-> parents, tool |-> tool, scope |-> None, ref |-> None,
     confirmed |-> FALSE, key |-> None, arg |-> arg]

Step(tool, planner) ==
    [vertices |-> <<Vertex("r", "tool", {}, tool, None), Vertex(planner, "planner", {"r"}, None, None)>>,
     scopes |-> <<>>]
Buy == [vertices |-> <<Vertex("a", "tool", {}, "reserve", "o1"), Vertex("b", "tool", {"a"}, "pay", None)>>,
        scopes |-> <<[id |-> "s", members |-> {"a", "b"}]>>]
Chain == [vertices |-> Buy.vertices \o <<Vertex("c", "tool", {"b"}, "close", None), Vertex("q", "planner", {"c"}, None, None)>>,
          scopes |-> <<[id |-> "s", members |-> {"a", "b", "c"}]>>]
Both == [vertices |-> Buy.vertices \o <<Vertex("c", "tool", {}, "peek", None)>>, scopes |-> Buy.scopes]
Keyless == [vertices |-> <<[Buy.vertices[1] EXCEPT !.arg = None], Buy.vertices[2]>>, scopes |-> Buy.scopes]
Loose == [vertices |-> <<Vertex("a", "tool", {}, "reserve", "o1")>>, scopes |-> <<>>]
Garbled == [vertices |-> <<>>, scopes |-> <<>>]

Start == [source |-> "submitted", attach |-> {}, vertices |-> <<Vertex("p0", "planner", {}, None, None)>>, scopes |-> <<>>]

\* Where the stock is low a rule adds a look; a look that reports no stock cannot be decided on.
Rules == {[ref |-> "low", slot |-> [target |-> "p", upstream |-> {"look"}],
           branches |-> <<TraitsOf([condition |-> << <<Clause("look", "stock", "<", Num(9))>> >>,
                                    sub |-> [vertices |-> <<Vertex("x", "tool", {}, "peek", None)>>, scopes |-> <<>>]], View)>>]}

Stock == {[stock |-> Num(5)], <<>>}

\* What the model may answer: with orders, or with looks beside an order.
Orders == {Chain, Loose, Garbled}
Lookups == {Both, Step("look", "p"), Garbled, Keyless}
=============================================================================
