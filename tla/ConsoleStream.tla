---------------------------- MODULE ConsoleStream ----------------------------
(***************************************************************************)
(* One run's live feed: the Console server's tailer, which polls the log   *)
(* and folds what it finds; its bounded buffer of deltas; the Server-Sent  *)
(* Events connections; and the browsers, which apply deltas and lay the    *)
(* graph out.                                                              *)
(*                                                                         *)
(* The server is one event loop.  A poll awaits the database, and what     *)
(* follows it (fold, notify the listeners, answer the request that primed  *)
(* the tailer) is one step.  The Engine commits transactions at any time.  *)
(***************************************************************************)
EXTENDS ConsoleFold, DeltaBuffer

CONSTANTS
    Client,        \* browsers watching the run
    Scripts,       \* the transactions the Engine may commit, as sequences
    BatchSize,     \* most events one poll reads
    MaxWire,       \* frames a subscriber may fall behind (backpressureBytes)
    MaxFaults,     \* connections lost, reads of the log failed and servers stopped
    MaxRestarts    \* servers started after the first

VARIABLES
    log,           \* the run's committed events
    rest,          \* the transactions still to come
    tail,          \* the server process: model, buffer, the poll in flight
    client,        \* the browsers and their connections
    faults         \* faults so far

vars == <<log, rest, tail, client, faults>>

Timer == "timer"
Down == "down"
NoCursor == [at |-> -1, ord |-> 0]

CursorOf(d) == [at |-> d.at, ord |-> d.ord]

\* `by` is who awaits the poll in flight, or Down where the process is gone, and
\* `emitted` is a history variable: the cursors of all deltas of this process.
FreshTailer(epoch) ==
    [m |-> EmptyDag, buffer |-> <<>>, dropped |-> FALSE, by |-> None, epoch |-> epoch, emitted |-> <<>>]

Cursors(deltas) == [i \in DOMAIN deltas |-> CursorOf(deltas[i])]

\* Mutant: nothing is evicted.
Push_Unbounded(t, deltas) == [t EXCEPT !.buffer = @ \o deltas, !.emitted = @ \o Cursors(deltas)]

\* DeltaBuffer.push remembers that it evicted.
Push(t, deltas) ==
    [t EXCEPT !.buffer = Kept(@ \o deltas),
              !.dropped = @ \/ Len(t.buffer) + Len(deltas) > BufferSize,
              !.emitted = @ \o Cursors(deltas)]

\* encodeFrame serialises what a delta refers to as it stands when it is sent.
Encode(m, d) ==
    [at |-> d.at, ord |-> d.ord, spend |-> d.spend, type |-> d.what.type,
     body |-> CASE d.what.type = "subgraph_appended" ->
                    [vertices |-> [i \in DOMAIN d.what.ids |-> m.vertices[d.what.ids[i]]],
                     scopes |-> [s \in ToSet(d.what.scopes) |-> m.scopes[s]]]
                [] d.what.type = "subgraph_shadowed" -> m.replans[d.what.replan]
                [] d.what.type = "vertex_patched" -> m.vertices[d.what.id]]

EncodeAll(m, ds) == [i \in DOMAIN ds |-> Encode(m, ds[i])]

\* snapshotOf: the whole model, at ordinal 0 of its watermark.
Snapshot(m) ==
    [at |-> m.at, ord |-> 0, spend |-> m.spend, type |-> "topology_snapshot",
     body |-> [vertices |-> Ordered(m), scopes |-> m.scopes, replans |-> m.replans]]

\* resolveResume: a snapshot unless every delta after the cursor is still in the buffer.
MustSnapshot(t, cursor) ==
    \/ cursor = NoCursor
    \/ cursor.at > t.m.at
    \/ BelowBuffer(t.buffer, t.dropped, cursor)

\* Mutant: a cursor is a watermark without an ordinal.
ResolveResume_ByWatermark(t, cursor) ==
    IF MustSnapshot(t, cursor) THEN <<Snapshot(t.m)>>
    ELSE EncodeAll(t.m, SelectSeq(t.buffer, LAMBDA d : cursor.at < d.at))

ResolveResume(t, cursor) ==
    IF MustSnapshot(t, cursor) THEN <<Snapshot(t.m)>>
    ELSE EncodeAll(t.m, SelectSeq(t.buffer, LAMBDA d : Precedes(cursor, CursorOf(d))))

-----------------------------------------------------------------------------
(* The browser. *)

NoModel == [held |-> FALSE, at |-> 0, ord |-> 0, vertices |-> <<>>, scopes |-> <<>>,
            replans |-> <<>>, spend |-> NoSpend]

NewClient ==
    [conn |-> "connecting", last |-> NoCursor, wire |-> <<>>, ended |-> FALSE,
     cm |-> NoModel, placed |-> <<>>, painted |-> FALSE, epoch |-> 0]

Behind(cm, f) == f.at < cm.at \/ (f.at = cm.at /\ f.ord <= cm.ord)

Knows(cm, v) == \E i \in DOMAIN cm.vertices : cm.vertices[i].id = v

MapVertices(cm, g(_)) == [i \in DOMAIN cm.vertices |-> g(cm.vertices[i])]

\* What a delta changes; the caller has checked that the client knows the vertices it names.
Applied(cm, f) ==
    LET next == [cm EXCEPT !.at = f.at, !.ord = f.ord, !.spend = f.spend]
        mark(v) == IF v.id \in f.body.ids THEN [v EXCEPT !.shadowed = f.body.at] ELSE v
        swap(v) == IF v.id = f.body.id THEN f.body ELSE v
    IN CASE f.type = "topology_snapshot" ->
              [held |-> TRUE, at |-> f.at, ord |-> f.ord, spend |-> f.spend, vertices |-> f.body.vertices,
               scopes |-> f.body.scopes, replans |-> f.body.replans]
         [] f.type = "subgraph_appended" ->
              [next EXCEPT !.vertices = @ \o f.body.vertices,
                           !.scopes = [s \in DOMAIN @ \cup DOMAIN f.body.scopes |->
                                          IF Has(f.body.scopes, s) THEN f.body.scopes[s] ELSE @[s]]]
         [] f.type = "subgraph_shadowed" ->
              [next EXCEPT !.vertices = MapVertices(cm, mark),
                           !.replans = Append(SelectSeq(@, LAMBDA r : r.at # f.body.at), f.body)]
         [] f.type = "vertex_patched" -> [next EXCEPT !.vertices = MapVertices(cm, swap)]

\* applyEvent, in the order of its checks.
Outcome(cm, f) ==
    IF f.type = "topology_snapshot" THEN "applied"
    ELSE IF ~cm.held THEN "resync"
    ELSE IF Behind(cm, f) THEN "ignored"
    ELSE IF \/ f.type = "subgraph_shadowed" /\ \E v \in f.body.ids : ~Knows(cm, v)
            \/ f.type = "vertex_patched" /\ ~Knows(cm, f.body.id) THEN "resync"
    ELSE "applied"

\* layout ranks scopes by first appearance, and unscoped vertices after all of them.
RankOf(vs, s) ==
    LET first(x) == SelectInSeq(vs, LAMBDA v : v.scope = x)
        scopes == {v.scope : v \in ToSet(vs)} \ {None}
    IN IF s = None THEN Cardinality(scopes)
       ELSE Cardinality({x \in scopes : first(x) < first(s)})

\* Mutant: a layer is ordered by scope whatever was there before.
LayerOf_Sorted(vs, placed, layer) ==
    SortSeq(SelectSeq(vs, LAMBDA v : v.depth = layer),
            LAMBDA a, b : RankOf(vs, a.scope) < RankOf(vs, b.scope))

\* One layer, left to right: what is already placed in its old order, then what is new.
LayerOf(vs, placed, layer) ==
    LET old == SelectSeq(vs, LAMBDA v : Has(placed, v.id) /\ placed[v.id].layer = layer)
        new == SelectSeq(vs, LAMBDA v : ~Has(placed, v.id) /\ v.depth = layer)
        byIndex(a, b) == placed[a.id].index < placed[b.id].index
        byScope(a, b) == \/ RankOf(vs, a.scope) < RankOf(vs, b.scope)
                         \/ RankOf(vs, a.scope) = RankOf(vs, b.scope) /\ a.created < b.created
    IN SortSeq(old, byIndex) \o SortSeq(new, byScope)

\* layout: an existing vertex keeps its layer, and its index is its place in the layer.
Layout(vs, placed) ==
    [id \in {v.id : v \in ToSet(vs)} |->
        LET v == CHOOSE x \in ToSet(vs) : x.id = id
            layer == IF Has(placed, id) THEN placed[id].layer ELSE v.depth
        IN [layer |-> layer,
            index |-> SelectLastInSeq(LayerOf(vs, placed, layer), LAMBDA x : x.id = id)]]

\* placeScope and boxHolds: the bounding box of a scope's members, drawn only when it holds
\* nothing else.
InBox(placed, members, id) ==
    LET layers == {placed[v].layer : v \in members}
        columns == {placed[v].index : v \in members}
    IN /\ placed[id].layer \in Min(layers) .. Max(layers)
       /\ placed[id].index \in Min(columns) .. Max(columns)

Drawn(cm, placed, s) ==
    LET members == ToSet(cm.scopes[s].members) \cap DOMAIN placed
    IN /\ members # {}
       /\ \A id \in DOMAIN placed \ members : ~InBox(placed, members, id)

-----------------------------------------------------------------------------
(* The server. *)

Subscribed(c) == c.conn = "live" /\ ~c.ended

\* send: a subscriber that falls too far behind is ended, in the middle of a batch if need be.
Send(c, frames) ==
    FoldLeft(LAMBDA acc, f : IF acc.ended THEN acc
                             ELSE [acc EXCEPT !.wire = Append(@, f), !.ended = Len(acc.wire) >= MaxWire],
             c, frames)

\* serveStream once the tailer is primed: refused when the run has no events, otherwise a
\* snapshot or a replay, and then the subscription.
Serve(c, t) ==
    IF t.m.at = 0 THEN [c EXCEPT !.conn = "closed"]
    ELSE [c EXCEPT !.conn = "live", !.ended = FALSE, !.wire = ResolveResume(t, c.last)]

\* EventSource reopens a lost connection by itself, presenting the last id it was given.
Lost(c) == IF c.conn = "closed" THEN c ELSE [c EXCEPT !.conn = "connecting", !.wire = <<>>, !.ended = FALSE]

Init ==
    /\ \E s \in Scripts : log = AppendEvents(<<>>, s[1]) /\ rest = SubSeq(s, 2, Len(s))
    /\ tail = FreshTailer(1)
    /\ client = [c \in Client |-> NewClient]
    /\ faults = 0

\* The Engine, or the Coordinator, commits a transaction.
Commit ==
    /\ rest # <<>>
    /\ log' = AppendEvents(log, Head(rest)) /\ rest' = SubSeq(rest, 2, Len(rest))
    /\ UNCHANGED <<tail, client, faults>>

\* A request arrives and primes the tailer; pollOnce returns at once when a poll is in flight.
Connect(c) ==
    /\ client[c].conn = "connecting" /\ tail.by # Down
    /\ IF tail.by = None
       THEN tail' = [tail EXCEPT !.by = c] /\ client' = [client EXCEPT ![c].conn = "priming"]
       ELSE client' = [client EXCEPT ![c] = Serve(@, tail)] /\ UNCHANGED tail
    /\ UNCHANGED <<log, rest, faults>>

\* Mutant: a tick that found something does not arm the next one.
Tick_Once ==
    /\ tail.by = None /\ tail.emitted = <<>> /\ \E c \in Client : Subscribed(client[c])
    /\ tail' = [tail EXCEPT !.by = Timer]
    /\ UNCHANGED <<log, rest, client, faults>>

\* The timer is armed while anybody listens.
Tick ==
    /\ tail.by = None /\ \E c \in Client : Subscribed(client[c])
    /\ tail' = [tail EXCEPT !.by = Timer]
    /\ UNCHANGED <<log, rest, client, faults>>

Batch == ReadStreamAfter(log, tail.m.at, BatchSize)
Polling == tail.by \notin {None, Down}

\* The poll returns: fold, buffer, notify the listeners, then answer the request that primed.
PollOnce ==
    /\ Polling /\ ~\E e \in ToSet(Batch) : Refuses(e)
    /\ \E step \in {AdvanceConsoleDag(tail.m, Batch)} :
          LET t == [Push(tail, step.deltas) EXCEPT !.m = step.model, !.by = None]
          IN /\ tail' = t
             /\ client' = [c \in Client |->
                    CASE c = tail.by -> Serve(client[c], t)
                      [] c # tail.by /\ Subscribed(client[c]) ->
                            Send(client[c], EncodeAll(t.m, step.deltas))
                      [] OTHER -> client[c]]
    /\ UNCHANGED <<log, rest, faults>>

\* A frame arrives.  A resync reopens without a cursor, and the canvas goes with the model.
Deliver(c) ==
    LET f == Head(client[c].wire)
        o == Outcome(client[c].cm, f)
        got == [client[c] EXCEPT !.wire = Tail(@), !.last = CursorOf(f)]
    IN /\ client[c].conn = "live" /\ client[c].wire # <<>>
       /\ client' = [client EXCEPT ![c] =
             CASE o = "ignored" -> got
               [] o = "resync" -> NewClient
               [] o = "applied" -> [got EXCEPT !.cm = Applied(@, f), !.painted = FALSE,
                                       !.epoch = IF f.type = "topology_snapshot" THEN tail.epoch ELSE @]]
       /\ UNCHANGED <<log, rest, tail, faults>>

\* React draws the model it holds by now; several frames may share one drawing.
Paint(c) ==
    /\ client[c].cm.held /\ ~client[c].painted
    /\ client' = [client EXCEPT ![c].placed = Layout(client[c].cm.vertices, @), ![c].painted = TRUE]
    /\ UNCHANGED <<log, rest, tail, faults>>

\* The response the server ended is drained.
Hangup(c) ==
    /\ client[c].ended /\ client[c].wire = <<>>
    /\ client' = [client EXCEPT ![c] = Lost(@)]
    /\ UNCHANGED <<log, rest, tail, faults>>

\* The network drops a connection, with whatever was on the wire.
Drop(c) ==
    /\ faults < MaxFaults /\ client[c].conn = "live"
    /\ client' = [client EXCEPT ![c] = Lost(@)] /\ faults' = faults + 1
    /\ UNCHANGED <<log, rest, tail>>

Terminate == tail' = [FreshTailer(tail.epoch) EXCEPT !.by = Down] /\ client' = [c \in Client |-> Lost(client[c])]

\* The server process ends: its model, its buffer and its connections are gone.
Stop ==
    /\ tail.by # Down /\ faults < MaxFaults /\ faults' = faults + 1
    /\ Terminate
    /\ UNCHANGED <<log, rest>>

\* Somebody starts it again.
Restart ==
    /\ tail.by = Down /\ tail.epoch <= MaxRestarts
    /\ tail' = FreshTailer(tail.epoch + 1)
    /\ UNCHANGED <<log, rest, client, faults>>

\* A poll that throws.  A request is answered 500, which EventSource does not retry; a rejected
\* tick is unhandled, and the process ends with it.
PollRejects(m) ==
    IF tail.by = Timer THEN Terminate
    ELSE tail' = [tail EXCEPT !.by = None, !.m = m] /\ client' = [client EXCEPT ![tail.by].conn = "closed"]

\* The log cannot be read.
PollFails ==
    /\ Polling /\ faults < MaxFaults /\ faults' = faults + 1
    /\ PollRejects(tail.m)
    /\ UNCHANGED <<log, rest>>

\* The log holds an event that this build may not ignore.
PollRefuses ==
    /\ Polling /\ \E e \in ToSet(Batch) : Refuses(e)
    /\ PollRejects(Abandoned(tail.m, Batch))
    /\ UNCHANGED <<log, rest, faults>>

Next ==
    \/ Commit \/ Tick \/ PollOnce \/ PollFails \/ PollRefuses \/ Stop \/ Restart
    \/ \E c \in Client : Connect(c) \/ Deliver(c) \/ Paint(c) \/ Hangup(c) \/ Drop(c)

Spec == Init /\ [][Next]_vars

\* Timers fire, polls return, sockets deliver and React draws; nothing says that the Engine commits
\* or that anybody starts the server again.
FairSpec ==
    /\ Spec
    /\ WF_vars(Tick) /\ []<>~Polling
    /\ \A c \in Client : WF_vars(Connect(c)) /\ WF_vars(Deliver(c)) /\ WF_vars(Paint(c)) /\ WF_vars(Hangup(c))

-----------------------------------------------------------------------------
(* Properties. *)

TypeOK ==
    /\ \A i \in DOMAIN log : log[i].seq = i
    /\ tail.by \in Client \cup {Timer, None, Down} /\ tail.epoch \in 1 .. MaxRestarts + 1
    /\ tail.m.at <= Len(log) /\ Len(tail.buffer) <= BufferSize
    /\ \A c \in Client :
          /\ client[c].conn \in {"connecting", "priming", "live", "closed"}
          /\ (client[c].conn = "priming") = (tail.by = c)
          /\ client[c].cm.at <= Len(log)

\* What a canvas shows of a vertex; the two sides date a discard differently.
Shows(vs) == {[v EXCEPT !.shadowed = IF @ = 0 THEN 0 ELSE 1] : v \in vs}

ServerShows(m) == Shows({m.vertices[v] : v \in DOMAIN m.vertices})

\* What a canvas shows of the scopes that have members: where they lie, and how they stand.
Bounds(scopes) == {<<s, ToSet(scopes[s].members), scopes[s].pivot>> : s \in {s \in DOMAIN scopes : scopes[s].members # <<>>}}
States(scopes) == {<<s, scopes[s].state>> : s \in {s \in DOMAIN scopes : scopes[s].members # <<>>}}

\* Nothing is on its way to this client.
Idle(c) == Subscribed(client[c]) /\ client[c].wire = <<>>

\* However the stream was cut into polls, the model is the one a single fold of the same events
\* yields (consoleDag is defined as a fold of advanceConsoleDag), as long as this build knows the
\* events: an abandoned fold has already changed vertices and scopes.
SplitInvariant ==
    (\A e \in ToSet(log) : ~Refuses(e)) => tail.m = ConsoleDag(SelectSeq(log, LAMBDA e : e.seq <= tail.m.at))

\* resolveResume never hands over a gap: a client whose snapshot came from this server process,
\* and that has drained its connection, shows every vertex as the server has it, and the spend,
\* whatever was dropped, ended in the middle of a batch, evicted or resumed before.
NoGapWithinProcess ==
    \A c \in Client : Idle(c) /\ client[c].epoch = tail.epoch =>
        /\ Shows(ToSet(client[c].cm.vertices)) = ServerShows(tail.m)
        /\ client[c].cm.spend = tail.m.spend

Resume == INSTANCE ResumeBuffer WITH
    emitted <- tail.emitted, buffer <- Cursors(tail.buffer), dropped <- tail.dropped

\* The projection numbers its deltas so that the buffer may be resumed from: polls, restarts and
\* evictions are steps of ResumeBuffer, which is proved never to hand over a gap.
ImplementsResumeBuffer == Resume!Spec

Once(vs) == \A i, j \in DOMAIN vs : vs[i].id = vs[j].id => i = j

\* A drawing without holes: every place of a layer up to the last is somebody's.
Compact(placed) ==
    \A v \in DOMAIN placed : \A i \in 1 .. placed[v].index :
        \E u \in DOMAIN placed : placed[u] = [layer |-> placed[v].layer, index |-> i]

\* Motion on the canvas means something: while vertices are only added, and the model lists each
\* of them once, a drawing keeps every vertex that is already placed, and puts no two in one spot.
StablePlacement ==
    [][\A c \in Client :
          LET old == client[c].placed
              new == client'[c].placed
          IN old # new /\ Once(client[c].cm.vertices) /\ Compact(old) /\ DOMAIN old \subseteq DOMAIN new =>
                /\ \A v \in DOMAIN old : new[v] = old[v]
                /\ \A u, v \in DOMAIN new : new[u] = new[v] => u = v]_vars

\* An enclosure tells the truth: a drawn box holds exactly the drawn vertices that say they are
\* in the scope, although membership comes with the scope and the vertex with another delta.
EnclosureTellsTruth ==
    \A c \in Client : client[c].painted =>
        \A s \in DOMAIN client[c].cm.scopes :
            Drawn(client[c].cm, client[c].placed, s) =>
                {v.id : v \in {x \in ToSet(client[c].cm.vertices) : x.scope = s}}
                = {id \in DOMAIN client[c].placed :
                      InBox(client[c].placed, ToSet(client[c].cm.scopes[s].members) \cap DOMAIN client[c].placed, id)}

\* The last event this build knows; an ignorable one after it leaves the watermark where it is.
KnownEnd(events) == Max({0} \cup {e.seq : e \in {x \in ToSet(events) : x.type \in KnownTypes}})

\* Every browser that was not refused ends up showing each vertex and the spend as the log has them,
\* and each scope with its members and its pivot, unless it resumed a cursor of an earlier server
\* process or the server is gone.  What it shows of a scope's state is ResumedShowsWhatFreshShows.
CatchesUp ==
    \A c \in Client :
        <>[](\/ client[c].conn = "closed" \/ tail.by = Down
             \/ client[c].epoch # tail.epoch
             \/ /\ tail.m.at = KnownEnd(log)
                /\ Shows(ToSet(client[c].cm.vertices)) = ServerShows(tail.m)
                /\ client[c].cm.spend = tail.m.spend
                /\ Bounds(client[c].cm.scopes) = Bounds(tail.m.scopes))

-----------------------------------------------------------------------------
(* A sentence of the documents that the code does not keep. *)

\* Document 11 section 3.2: a client that resumed and a fresh one do not diverge, because snapshot and
\* deltas come from one fold.  A drained client shows the vertices and, of each scope it may enclose,
\* the state that a snapshot would show now.
ResumedShowsWhatFreshShows ==
    \A c \in Client : Idle(c) =>
        /\ Shows(ToSet(client[c].cm.vertices)) = ServerShows(tail.m)
        /\ States(client[c].cm.scopes) = States(tail.m.scopes)
=============================================================================
