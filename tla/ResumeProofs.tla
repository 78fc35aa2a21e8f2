---------------------------- MODULE ResumeProofs ----------------------------
(***************************************************************************)
(* The buffer hands nobody a gap, for every capacity and every history.    *)
(***************************************************************************)
EXTENDS ResumeBuffer, SequenceTheorems, TLAPS

\* s is the end of t.
Suffix(s, t) == Len(s) <= Len(t) /\ \A j \in 1 .. Len(s) : s[j] = t[Len(t) - Len(s) + j]

\* The buffer is the end of what was emitted, whole while nothing was evicted, and an eviction
\* leaves it with something.
Window ==
    /\ emitted \in Seq(Cursor) /\ buffer \in Seq(Cursor) /\ dropped \in BOOLEAN
    /\ InOrder(emitted)
    /\ Suffix(buffer, emitted)
    /\ ~dropped => Len(buffer) = Len(emitted)
    /\ dropped => Len(buffer) > 0

\* Kept returns the end of a sequence, all of it or BufferSize of it (DeltaBuffer.push).
LEMMA KeptIsSuffix ==
    ASSUME NEW s \in Seq(Cursor)
    PROVE  /\ Kept(s) \in Seq(Cursor)
           /\ Len(Kept(s)) = IF Len(s) <= BufferSize THEN Len(s) ELSE BufferSize
           /\ Suffix(Kept(s), s)
<1>1. CASE Len(s) <= BufferSize
    BY <1>1, BufferAssumption, LenProperties DEF Kept, Suffix
<1>2. CASE ~(Len(s) <= BufferSize)
    <2> DEFINE m == Len(s) - BufferSize + 1
    <2>1. Len(s) \in Nat /\ m \in 1 .. Len(s) + 1 /\ BufferSize \in Nat
        BY <1>2, BufferAssumption, LenProperties
    <2>2. Kept(s) = SubSeq(s, m, Len(s))
        BY <1>2, ZenonT(60) DEF Kept
    <2>3. /\ SubSeq(s, m, Len(s)) \in Seq(Cursor)
          /\ Len(SubSeq(s, m, Len(s))) = BufferSize
          /\ \A j \in 1 .. BufferSize : SubSeq(s, m, Len(s))[j] = s[m + j - 1]
        BY <2>1, SubSeqProperties, SMTT(30)
    <2> QED BY <1>2, <2>1, <2>2, <2>3 DEF Suffix
<1> QED BY <1>1, <1>2

\* The same batch after both: an end stays an end.
LEMMA SuffixConcat ==
    ASSUME NEW s \in Seq(Cursor), NEW t \in Seq(Cursor), NEW x \in Seq(Cursor), Suffix(s, t)
    PROVE  Suffix(s \o x, t \o x)
<1>1. Len(s) \in Nat /\ Len(t) \in Nat /\ Len(x) \in Nat /\ Len(s) <= Len(t)
    BY LenProperties DEF Suffix
<1>2. Len(s \o x) = Len(s) + Len(x) /\ Len(t \o x) = Len(t) + Len(x)
    BY ConcatProperties
<1>3. ASSUME NEW j \in 1 .. Len(s) + Len(x)
      PROVE  (s \o x)[j] = (t \o x)[Len(t) - Len(s) + j]
    <2>1. CASE j <= Len(s)
        <3>1. (s \o x)[j] = s[j] /\ j \in 1 .. Len(s)
            BY <1>1, <2>1, ConcatProperties
        <3>2. Len(t) - Len(s) + j \in 1 .. Len(t)
            BY <1>1, <2>1
        <3>3. (t \o x)[Len(t) - Len(s) + j] = t[Len(t) - Len(s) + j]
            BY <1>1, <3>2, ConcatProperties
        <3> QED BY <3>1, <3>3 DEF Suffix
    <2>2. CASE j > Len(s)
        <3>1. (s \o x)[j] = x[j - Len(s)]
            BY <1>1, <2>2, ConcatProperties
        <3>2. /\ Len(t) - Len(s) + j \in 1 .. Len(t) + Len(x) /\ Len(t) - Len(s) + j > Len(t)
              /\ (Len(t) - Len(s) + j) - Len(t) = j - Len(s)
            BY <1>1, <2>2
        <3>3. (t \o x)[Len(t) - Len(s) + j] = x[j - Len(s)]
            BY <1>1, <3>2, ConcatProperties
        <3> QED BY <3>1, <3>3
    <2> QED BY <1>1, <2>1, <2>2
<1>4. (Len(t) + Len(x)) - (Len(s) + Len(x)) = Len(t) - Len(s) /\ Len(s) + Len(x) <= Len(t) + Len(x)
    BY <1>1
<1> QED BY <1>2, <1>3, <1>4 DEF Suffix

\* The end of an end.
LEMMA SuffixTransitive ==
    ASSUME NEW r \in Seq(Cursor), NEW s \in Seq(Cursor), NEW t \in Seq(Cursor), Suffix(r, s), Suffix(s, t)
    PROVE  Suffix(r, t)
<1>1. Len(r) \in Nat /\ Len(s) \in Nat /\ Len(t) \in Nat /\ Len(r) <= Len(s) /\ Len(s) <= Len(t)
    BY LenProperties DEF Suffix
<1>2. ASSUME NEW j \in 1 .. Len(r)
      PROVE  r[j] = t[Len(t) - Len(r) + j]
    <2>1. r[j] = s[Len(s) - Len(r) + j] /\ Len(s) - Len(r) + j \in 1 .. Len(s)
        BY <1>1 DEF Suffix
    <2>2. s[Len(s) - Len(r) + j] = t[Len(t) - Len(s) + (Len(s) - Len(r) + j)]
        BY <2>1 DEF Suffix
    <2>3. Len(t) - Len(s) + (Len(s) - Len(r) + j) = Len(t) - Len(r) + j
        BY <1>1
    <2> QED BY <2>1, <2>2, <2>3
<1> QED BY <1>1, <1>2 DEF Suffix

\* A batch x keeps the window: stated of the values before and after (DeltaBuffer.push).
LEMMA PushedWindow ==
    ASSUME NEW e \in Seq(Cursor), NEW b \in Seq(Cursor), NEW x \in Seq(Cursor), Suffix(b, e)
    PROVE  /\ e \o x \in Seq(Cursor) /\ Kept(b \o x) \in Seq(Cursor)
           /\ Suffix(Kept(b \o x), e \o x)
           /\ Len(b) = Len(e) /\ Len(b \o x) <= BufferSize => Len(Kept(b \o x)) = Len(e \o x)
           /\ Len(b) > 0 \/ Len(b \o x) > BufferSize => Len(Kept(b \o x)) > 0
<1>1. b \o x \in Seq(Cursor) /\ e \o x \in Seq(Cursor)
    BY ConcatProperties
<1>2. Len(b \o x) = Len(b) + Len(x) /\ Len(e \o x) = Len(e) + Len(x) /\ Len(b) \in Nat /\ Len(x) \in Nat
    BY ConcatProperties, LenProperties
<1>3. /\ Kept(b \o x) \in Seq(Cursor) /\ Suffix(Kept(b \o x), b \o x)
      /\ Len(Kept(b \o x)) = IF Len(b \o x) <= BufferSize THEN Len(b \o x) ELSE BufferSize
    BY <1>1, KeptIsSuffix, ZenonT(60)
<1>4. Suffix(Kept(b \o x), e \o x)
    BY <1>1, <1>3, SuffixConcat, SuffixTransitive, ZenonT(60)
<1> QED BY <1>1, <1>2, <1>3, <1>4, BufferAssumption

\* Whoever is served from the window misses nothing: an evicted delta precedes the oldest one left,
\* so it does not follow a cursor that resolveResume accepts.
LEMMA WindowHasNoGap ==
    ASSUME Window
    PROVE  NoGap
<1> SUFFICES ASSUME NEW c \in Cursor, ~BelowBuffer(buffer, dropped, c),
                    NEW i \in 1 .. Len(emitted), Precedes(c, emitted[i])
             PROVE  \E j \in 1 .. Len(buffer) : buffer[j] = emitted[i]
    BY DEF NoGap
<1> DEFINE Gone == Len(emitted) - Len(buffer)
<1>1. Len(buffer) \in Nat /\ Len(emitted) \in Nat /\ Gone \in Nat /\ i \in Nat
    BY LenProperties DEF Window, Suffix
<1>2. CASE i > Gone
    <2>1. i - Gone \in 1 .. Len(buffer) /\ Gone + (i - Gone) = i
        BY <1>1, <1>2
    <2>2. buffer[i - Gone] = emitted[i]
        BY <2>1 DEF Window, Suffix
    <2> QED BY <2>1, <2>2
<1>3. CASE i <= Gone
    <2>1. dropped /\ Len(buffer) > 0
        BY <1>1, <1>3 DEF Window
    <2>2. Gone + 1 \in 1 .. Len(emitted) /\ i < Gone + 1
        BY <1>1, <1>3, <2>1
    <2>3. buffer[1] = emitted[Gone + 1]
        BY <1>1, <2>1 DEF Window, Suffix
    <2>4. Precedes(emitted[i], buffer[1])
        BY <2>2, <2>3 DEF Window, InOrder
    <2>5. emitted[i] \in Cursor /\ buffer[1] \in Cursor
        BY <2>2, <2>3, ElementOfSeq DEF Window
    <2>6. ~Precedes(c, [at |-> buffer[1].at, ord |-> buffer[1].ord - 1])
        BY <2>1 DEF BelowBuffer
    <2>7. PICK a, b, e, f \in Nat : emitted[i].at = a /\ emitted[i].ord = b /\ buffer[1].at = e /\ buffer[1].ord = f
        BY <2>5, Zenon DEF Cursor
    <2>8. PICK g, h \in Nat : c.at = g /\ c.ord = h
        BY Zenon DEF Cursor
    <2>9. a < e \/ (a = e /\ b < f)
        BY <2>4, <2>7 DEF Precedes
    <2>10. g < a \/ (g = a /\ h < b)
        BY <2>7, <2>8 DEF Precedes
    <2>11. ~(g < e \/ (g = e /\ h < f - 1))
        BY <2>6, <2>7, <2>8 DEF Precedes
    <2> QED BY <2>7, <2>8, <2>9, <2>10, <2>11
<1> QED BY <1>1, <1>2, <1>3

\* Nothing emitted is a window onto nothing.
LEMMA EmptyWindow ==
    ASSUME NEW e \in Seq(Cursor), NEW b \in Seq(Cursor), Len(e) = 0, Len(b) = 0
    PROVE  Suffix(b, e) /\ InOrder(e)
<1>1. Suffix(b, e)
    BY DEF Suffix
<1>2. InOrder(e)
    BY DEF InOrder
<1> QED BY <1>1, <1>2

\* The window is there from the start and every push, restart or pause keeps it.
LEMMA WindowAlways == Spec => []Window
<1>1. Init => Window
    <2> SUFFICES ASSUME Init PROVE Window
        OBVIOUS
    <2>1. emitted \in Seq(Cursor) /\ buffer \in Seq(Cursor) /\ Len(emitted) = 0 /\ Len(buffer) = 0
        BY EmptySeq DEF Init
    <2>2. Suffix(buffer, emitted) /\ InOrder(emitted)
        BY <2>1, EmptyWindow, ZenonT(60)
    <2>3. dropped = FALSE /\ Len(buffer) = Len(emitted)
        BY <2>1 DEF Init
    <2> QED BY <2>1, <2>2, <2>3, ZenonT(60) DEF Window
<1>2. Window /\ [Next]_<<emitted, buffer, dropped>> => Window'
    <2> SUFFICES ASSUME Window, [Next]_<<emitted, buffer, dropped>> PROVE Window'
        OBVIOUS
    <2>1. CASE Push(SubSeq(emitted', Len(emitted) + 1, Len(emitted')))
        <3> DEFINE x == SubSeq(emitted', Len(emitted) + 1, Len(emitted'))
        <3>1. /\ x \in Seq(Cursor) /\ emitted' = emitted \o x /\ InOrder(emitted') /\ buffer' = Kept(buffer \o x)
              /\ dropped' = (dropped \/ Len(buffer \o x) > BufferSize)
            BY <2>1, ZenonT(60) DEF Push
        <3>2. emitted \in Seq(Cursor) /\ buffer \in Seq(Cursor) /\ Suffix(buffer, emitted)
            BY DEF Window
        <3> HIDE DEF x
        <3>3. /\ emitted \o x \in Seq(Cursor) /\ Kept(buffer \o x) \in Seq(Cursor)
              /\ Suffix(Kept(buffer \o x), emitted \o x)
              /\ Len(buffer) = Len(emitted) /\ Len(buffer \o x) <= BufferSize =>
                     Len(Kept(buffer \o x)) = Len(emitted \o x)
              /\ Len(buffer) > 0 \/ Len(buffer \o x) > BufferSize => Len(Kept(buffer \o x)) > 0
            BY <3>1, <3>2, PushedWindow
        <3>4. Len(buffer \o x) \in Nat /\ dropped \in BOOLEAN
            BY <3>1, <3>2, ConcatProperties, LenProperties DEF Window
        <3>5. emitted' \in Seq(Cursor) /\ buffer' \in Seq(Cursor) /\ Suffix(buffer', emitted')
            BY <3>1, <3>3
        <3>6. ~dropped' => Len(buffer') = Len(emitted')
            <4>1. ~(Len(buffer \o x) > BufferSize) => Len(buffer \o x) <= BufferSize
                BY <3>4, BufferAssumption
            <4>2. ~dropped => Len(buffer) = Len(emitted)
                BY DEF Window
            <4> QED BY <3>1, <3>3, <4>1, <4>2, Zenon
        <3>7. dropped' => Len(buffer') > 0
            BY <3>1, <3>3 DEF Window
        <3>8. dropped' \in BOOLEAN
            BY <3>1, <3>4
        <3> QED BY <3>1, <3>5, <3>6, <3>7, <3>8 DEF Window
    <2>2. CASE Reset
        <3>1. emitted' \in Seq(Cursor) /\ buffer' \in Seq(Cursor) /\ Len(emitted') = 0 /\ Len(buffer') = 0
            BY <2>2, EmptySeq DEF Reset
        <3>2. Suffix(buffer', emitted') /\ InOrder(emitted')
            BY <3>1, EmptyWindow, ZenonT(60)
        <3>3. dropped' = FALSE /\ Len(buffer') = Len(emitted')
            BY <2>2, <3>1 DEF Reset
        <3> QED BY <3>1, <3>2, <3>3, ZenonT(60) DEF Window
    <2>3. CASE UNCHANGED <<emitted, buffer, dropped>>
        BY <2>3 DEF Window, Suffix, InOrder
    <2> QED BY <2>1, <2>2, <2>3 DEF Next
<1> QED BY <1>1, <1>2, PTL DEF Spec

\* stream.ts: a gap is never handed to a client, for every capacity of the buffer, every history of
\* batches and every cursor.
THEOREM ResumeHasNoGap == Spec => []NoGap
<1>1. Window => NoGap
    BY WindowHasNoGap
<1> QED BY <1>1, WindowAlways, PTL
=============================================================================
