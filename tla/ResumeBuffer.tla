---------------------------- MODULE ResumeBuffer ----------------------------
(***************************************************************************)
(* What the buffer promises whoever resumes from it, over all the deltas   *)
(* one server process has emitted for a run.  A delta is its cursor here.  *)
(* Module ConsoleStream implements this with the projection, the polls and *)
(* the connections.                                                        *)
(***************************************************************************)
EXTENDS DeltaBuffer

VARIABLES emitted, buffer, dropped

Cursor == [at : Nat, ord : Nat]

\* The total order of the stream: batches by watermark, numbered within a batch.
InOrder(deltas) == \A i, j \in 1 .. Len(deltas) : i < j => Precedes(deltas[i], deltas[j])

Init == emitted = <<>> /\ buffer = <<>> /\ dropped = FALSE

\* A batch goes out: buffered, with the oldest deltas evicted and the eviction remembered.
Push(batch) ==
    /\ batch \in Seq(Cursor)
    /\ emitted' = emitted \o batch /\ InOrder(emitted')
    /\ buffer' = Kept(buffer \o batch)
    /\ dropped' = (dropped \/ Len(buffer \o batch) > BufferSize)

\* A new process remembers nothing.
Reset == emitted' = <<>> /\ buffer' = <<>> /\ dropped' = FALSE

\* The batch is what has been emitted since.
Next == Push(SubSeq(emitted', Len(emitted) + 1, Len(emitted'))) \/ Reset

Spec == Init /\ [][Next]_<<emitted, buffer, dropped>>

\* stream.ts: a gap is never handed to a client.  A cursor that is not below the buffer finds
\* every delta emitted after it still there.
NoGap ==
    \A c \in Cursor : ~BelowBuffer(buffer, dropped, c) =>
        \A i \in 1 .. Len(emitted) : Precedes(c, emitted[i]) =>
            \E j \in 1 .. Len(buffer) : buffer[j] = emitted[i]
=============================================================================
