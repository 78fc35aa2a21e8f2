---------------------------- MODULE DeltaBuffer ----------------------------
(***************************************************************************)
(* The Console server's bounded window of recent deltas, and when it can   *)
(* serve a reader that reconnects with the cursor of the last delta it was *)
(* given.  A cursor is the watermark of a batch and a place in it.         *)
(***************************************************************************)
EXTENDS Integers, Sequences

CONSTANT BufferSize   \* DeltaBuffer.capacity

ASSUME BufferAssumption == BufferSize \in Nat \ {0}

Precedes(a, b) == a.at < b.at \/ (a.at = b.at /\ a.ord < b.ord)

\* DeltaBuffer.push keeps the last BufferSize deltas.
Kept(deltas) ==
    IF Len(deltas) <= BufferSize THEN deltas
    ELSE SubSeq(deltas, Len(deltas) - BufferSize + 1, Len(deltas))

\* resolveResume: something between the cursor and the oldest delta left was evicted.
BelowBuffer(buffer, dropped, cursor) ==
    dropped /\ Precedes(cursor, [at |-> buffer[1].at, ord |-> buffer[1].ord - 1])
=============================================================================
