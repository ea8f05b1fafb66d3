------------------------ MODULE OutputCollectionProofs ------------------------
(***************************************************************************)
(* Proofs about OutputCollection, for every choice of captured streams,    *)
(* limits, buffer and pipe sizes and for any number of bytes written: what *)
(* is collected is a prefix of what was written, all of it unless it is    *)
(* marked as cut, and no writer meets a broken pipe.                       *)
(***************************************************************************)
EXTENDS OutputCollection, SequenceTheorems, TLAPS

-----------------------------------------------------------------------------
(* The inductive invariant. *)

\* A piece of a stream: the positions that follow a, in order.
From(seq, a) == \A i \in 1..Len(seq) : seq[i] = a + i

\* The messages of a channel cut the stretch of the stream after position a,
\* up to position b, into consecutive pieces.
Cuts(c, a, b, f) ==
  /\ f[0] = a /\ f[Len(c)] = b
  /\ \A i \in 1..Len(c) : From(c[i].bytes, f[i - 1]) /\ f[i] = f[i - 1] + Len(c[i].bytes)
Cut(c, a, b) == \E f \in [0..Len(c) -> 0..b] : Cuts(c, a, b, f)

\* A pipe holds the last bytes that were written.
PipeSound(s) == Len(pipe[s]) <= written[s] /\ From(pipe[s], written[s] - Len(pipe[s]))

\* The end of the stream was seen, and all of it is retained unless it
\* overflowed.
AllRead(s) == ~Open(s) /\ (s \notin overflow => retained[s] = written[s])

\* Until it overflows a reader has lost nothing: what is retained, what is in
\* its buffer and what is in the pipe make up what was written.
ReaderSound(s) ==
  /\ buf[s] \in Seq(Bytes(s))
  /\ retained[s] <= written[s] /\ written[s] <= Writes[s]
  /\ s \in discarding <=> s \in overflow
  /\ s \in overflow => retained[s] = MaxBytes /\ reader[s] \notin {"none", "send"}
  /\ reader[s] = "none" /\ collector = "take" => retained[s] + Len(pipe[s]) = written[s]
  /\ reader[s] = "wait" /\ s \notin overflow => retained[s] + Len(pipe[s]) = written[s]
  /\ reader[s] \in {"check", "send"} /\ s \notin overflow =>
       /\ retained[s] + Len(buf[s]) + Len(pipe[s]) = written[s]
       /\ From(buf[s], retained[s])
  /\ reader[s] = "check" /\ buf[s] = <<>> => ~Open(s) /\ pipe[s] = <<>>
  /\ reader[s] = "overflow" => retained[s] = MaxBytes
  /\ reader[s] \in {"release", "announce", "gone"} /\ s \notin stop \cup rerr => AllRead(s)

\* The channel continues what was received, up to what is retained; its end
\* is announced once, by a reader that is gone.
ChannelSound(s) ==
  /\ From(out[s], 0) /\ Cut(chan[s], Len(out[s]), retained[s])
  /\ \A i \in 1..Len(chan[s]) :
       /\ chan[s][i].kind # "data" => reader[s] = "gone" /\ i = Len(chan[s])
       /\ chan[s][i].kind = "finished" => AllRead(s)
  /\ s \in done => reader[s] = "gone" /\ chan[s] = <<>>
  /\ s \in done \ ferr => AllRead(s)

\* No reader loses its collector before the flags are read, and they are read
\* of streams that can no longer overflow.
CollectorSound ==
  /\ stop # {} => collector \in {"failed", "load", "done"}
  /\ collector = "done" => stop = Capture
  /\ collector \in {"load", "done"} => done \cap stop \cap overflow \subseteq truncated
  /\ collector \in {"load", "done"} /\ ~incomplete => done = Capture /\ ferr = {}

Message == [kind : {"data", "finished", "failed"}, bytes : Seq(Nat)]
Types ==
  /\ child \in {"run", "gone"} /\ held \subseteq Capture
  /\ written \in [Capture -> Nat] /\ pipe \in [Capture -> Seq(Nat)]
  /\ reader \in [Capture -> ReaderSteps] /\ buf \in [Capture -> Seq(Nat)]
  /\ retained \in [Capture -> 0..MaxBytes]
  /\ discarding \subseteq Capture /\ overflow \subseteq Capture
  /\ rerr \subseteq Capture /\ stop \subseteq Capture
  /\ slot \subseteq Capture /\ others \in 0..Others
  /\ chan \in [Capture -> Seq(Message)]
  /\ collector \in {"take", "failed", "session", "collect", "drain", "load", "done"}
  /\ out \in [Capture -> Seq(Nat)]
  /\ done \subseteq Capture /\ ferr \subseteq Capture /\ drained \subseteq Capture
  /\ incomplete \in BOOLEAN /\ truncated \subseteq Capture

Stream(s) == PipeSound(s) /\ ReaderSound(s) /\ ChannelSound(s)
OInv == Types /\ CollectorSound /\ \A s \in Capture : Stream(s)

-----------------------------------------------------------------------------
(* Sequences of positions. *)

\* An empty sequence is a piece of anything, and nothing else has no length.
LEMMA EmptyPiece ==
  /\ <<>> \in Seq(Nat) /\ Len(<<>>) = 0 /\ \A a : From(<<>>, a)
  /\ \A S : \A seq \in Seq(S) : Len(seq) \in Nat /\ (seq = <<>> <=> Len(seq) = 0)
<1>1. \A S : \A seq \in Seq(S) : Len(seq) \in Nat /\ (seq = <<>> <=> Len(seq) = 0)
  BY EmptySeq, LenProperties
<1>2. QED
  BY <1>1, EmptySeq DEF From

\* A piece within 1..n is a sequence over 1..n.
LEMMA PieceTyped ==
  ASSUME NEW seq \in Seq(Nat), NEW a \in Nat, NEW n \in Nat, From(seq, a), a + Len(seq) <= n
  PROVE  seq \in Seq(1..n)
<1>1. Len(seq) \in Nat /\ seq \in [1..Len(seq) -> Nat]
  BY LenProperties
<1>2. \A i \in 1..Len(seq) : seq[i] \in 1..n
  BY <1>1 DEF From
<1>3. seq \in [1..Len(seq) -> 1..n]
  BY <1>1, <1>2
<1>4. QED
  BY <1>1, <1>3, SeqDef

\* The next position continues a piece.
LEMMA PieceGrows ==
  ASSUME NEW seq \in Seq(Nat), NEW a \in Nat, From(seq, a)
  PROVE  LET longer == Append(seq, a + Len(seq) + 1)
         IN  longer \in Seq(Nat) /\ Len(longer) = Len(seq) + 1 /\ From(longer, a)
<1> DEFINE e == a + Len(seq) + 1
<1>1. Len(seq) \in Nat /\ e \in Nat
  BY LenProperties
<1> HIDE DEF e
<1>2. /\ Append(seq, e) \in Seq(Nat) /\ Len(Append(seq, e)) = Len(seq) + 1
      /\ \A i \in 1..Len(seq) : Append(seq, e)[i] = seq[i]
      /\ Append(seq, e)[Len(seq) + 1] = e
  BY <1>1, AppendProperties
<1>3. From(Append(seq, e), a)
  BY <1>1, <1>2 DEF From, e
<1>4. QED
  BY <1>2, <1>3 DEF e

\* A piece falls into two.
LEMMA PieceSplits ==
  ASSUME NEW S, NEW seq \in Seq(S), NEW n \in 0..Len(seq)
  PROVE  /\ SubSeq(seq, 1, n) \in Seq(S) /\ Len(SubSeq(seq, 1, n)) = n
         /\ SubSeq(seq, n + 1, Len(seq)) \in Seq(S) /\ Len(SubSeq(seq, n + 1, Len(seq))) = Len(seq) - n
         /\ \A a \in Nat : From(seq, a) => /\ From(SubSeq(seq, 1, n), a)
                                           /\ From(SubSeq(seq, n + 1, Len(seq)), a + n)
<1>1. Len(seq) \in Nat /\ n \in Int /\ n + 1 \in Int /\ Len(seq) \in Int /\ 1 \in Int
  BY LenProperties
<1>2. \A i \in 1..Len(seq) : seq[i] \in S
  BY ElementOfSeq
<1>3. /\ SubSeq(seq, 1, n) \in Seq(S)
      /\ Len(SubSeq(seq, 1, n)) = IF 1 <= n THEN n - 1 + 1 ELSE 0
      /\ \A i \in 1..n - 1 + 1 : SubSeq(seq, 1, n)[i] = seq[1 + i - 1]
  <2>1. \A i \in 1..n : seq[i] \in S
    BY <1>1, <1>2
  <2>2. QED
    BY <1>1, <2>1, SubSeqProperties
<1>4. /\ SubSeq(seq, n + 1, Len(seq)) \in Seq(S)
      /\ Len(SubSeq(seq, n + 1, Len(seq))) = IF n + 1 <= Len(seq) THEN Len(seq) - (n + 1) + 1 ELSE 0
      /\ \A i \in 1..Len(seq) - (n + 1) + 1 : SubSeq(seq, n + 1, Len(seq))[i] = seq[(n + 1) + i - 1]
  <2>1. \A i \in n + 1..Len(seq) : seq[i] \in S
    BY <1>1, <1>2
  <2> DEFINE m == n + 1
             k == Len(seq)
  <2>2. m \in Int /\ k \in Int /\ \A i \in m..k : seq[i] \in S
    BY <1>1, <2>1
  <2> HIDE DEF m, k
  <2>3. /\ SubSeq(seq, m, k) \in Seq(S)
        /\ Len(SubSeq(seq, m, k)) = IF m <= k THEN k - m + 1 ELSE 0
        /\ \A i \in 1..k - m + 1 : SubSeq(seq, m, k)[i] = seq[m + i - 1]
    BY <2>2, SubSeqProperties
  <2>4. QED
    BY <2>3 DEF m, k
<1>5. Len(SubSeq(seq, 1, n)) = n /\ Len(SubSeq(seq, n + 1, Len(seq))) = Len(seq) - n
  BY <1>1, <1>3, <1>4
<1>6. ASSUME NEW a \in Nat, From(seq, a)
      PROVE  From(SubSeq(seq, 1, n), a) /\ From(SubSeq(seq, n + 1, Len(seq)), a + n)
  <2>1. ASSUME NEW i \in 1..n PROVE SubSeq(seq, 1, n)[i] = a + i
    <3>1. i \in 1..n - 1 + 1 /\ 1 + i - 1 = i /\ i \in 1..Len(seq)
      BY <1>1
    <3>2. QED
      BY <1>3, <1>6, <3>1 DEF From
  <2>2. ASSUME NEW i \in 1..Len(seq) - n PROVE SubSeq(seq, n + 1, Len(seq))[i] = a + n + i
    <3>1. i \in 1..Len(seq) - (n + 1) + 1 /\ (n + 1) + i - 1 = n + i /\ n + i \in 1..Len(seq) /\ a + (n + i) = a + n + i
      BY <1>1
    <3>2. QED
      BY <1>4, <1>6, <3>1 DEF From
  <2>3. QED
    BY <1>5, <2>1, <2>2 DEF From
<1>7. QED
  BY <1>3, <1>4, <1>5, <1>6

\* A piece and the one that follows it.
LEMMA PiecesJoin ==
  ASSUME NEW s \in Seq(Nat), NEW t \in Seq(Nat), NEW a \in Nat, From(s, a), From(t, a + Len(s))
  PROVE  s \o t \in Seq(Nat) /\ Len(s \o t) = Len(s) + Len(t) /\ From(s \o t, a)
<1>1. /\ s \o t \in Seq(Nat) /\ Len(s \o t) = Len(s) + Len(t) /\ Len(s) \in Nat /\ Len(t) \in Nat
      /\ \A i \in 1..Len(s) + Len(t) : (s \o t)[i] = IF i <= Len(s) THEN s[i] ELSE t[i - Len(s)]
  BY ConcatProperties, LenProperties
<1>2. ASSUME NEW i \in 1..Len(s) + Len(t) PROVE (s \o t)[i] = a + i
  <2>1. CASE i <= Len(s)
    BY <1>1, <2>1 DEF From
  <2>2. CASE ~(i <= Len(s))
    <3>1. i - Len(s) \in 1..Len(t)
      BY <1>1, <2>2
    <3>2. t[i - Len(s)] = a + Len(s) + (i - Len(s))
      BY <3>1 DEF From
    <3>3. QED
      BY <1>1, <2>2, <3>2
  <2>3. QED
    BY <2>1, <2>2
<1>3. QED
  BY <1>1, <1>2 DEF From

\* A message continues a channel.
LEMMA CutGrows ==
  ASSUME NEW c \in Seq(Message), NEW a \in Nat, NEW b \in Nat, Cut(c, a, b),
         NEW m \in Message, From(m.bytes, b)
  PROVE  Cut(Append(c, m), a, b + Len(m.bytes))
<1> DEFINE d == Append(c, m)
           z == b + Len(m.bytes)
<1>1. PICK f \in [0..Len(c) -> 0..b] : Cuts(c, a, b, f)
  BY DEF Cut
<1>2. Len(c) \in Nat /\ m.bytes \in Seq(Nat) /\ Len(m.bytes) \in Nat
  BY LenProperties DEF Message
<1>3. /\ Len(d) = Len(c) + 1 /\ \A i \in 1..Len(c) : d[i] = c[i]
      /\ d[Len(c) + 1] = m
  BY AppendProperties
<1> DEFINE g == [i \in 0..Len(d) |-> IF i = Len(c) + 1 THEN z ELSE f[i]]
<1> HIDE DEF d
<1>4. z \in Nat /\ b <= z
  BY <1>2
<1> HIDE DEF z
<1>5. g \in [0..Len(d) -> 0..z]
  <2>1. ASSUME NEW i \in 0..Len(d) PROVE g[i] \in 0..z
    <3>1. CASE i = Len(c) + 1
      BY <1>4, <3>1
    <3>2. CASE i # Len(c) + 1
      <4>1. i \in 0..Len(c)
        BY <1>2, <1>3, <3>2
      <4>2. f[i] \in 0..b
        BY <1>1, <4>1
      <4>3. QED
        BY <1>4, <3>2, <4>2
    <3>3. QED
      BY <3>1, <3>2
  <2>2. QED
    BY <2>1
<1>6. /\ \A i \in 0..Len(c) : g[i] = f[i]
      /\ g[Len(d)] = z /\ Len(c) + 1 = Len(d)
  BY <1>2, <1>3
<1> HIDE DEF g
<1>7. Cuts(d, a, z, g)
  <2>1. g[0] = a
    BY <1>1, <1>2, <1>6 DEF Cuts
  <2>2. ASSUME NEW i \in 1..Len(d) PROVE From(d[i].bytes, g[i - 1]) /\ g[i] = g[i - 1] + Len(d[i].bytes)
    <3>1. CASE i = Len(d)
      <4>1. i - 1 = Len(c) /\ d[i] = m /\ g[i - 1] = b
        BY <1>1, <1>2, <1>3, <1>6, <3>1 DEF Cuts
      <4>2. QED
        BY <1>6, <3>1, <4>1 DEF z
    <3>2. CASE i # Len(d)
      <4>1. i \in 1..Len(c) /\ i - 1 \in 0..Len(c) /\ i \in 0..Len(c)
        BY <1>2, <1>3, <3>2
      <4>2. d[i] = c[i] /\ g[i] = f[i] /\ g[i - 1] = f[i - 1]
        BY <1>3, <1>6, <4>1
      <4>3. QED
        BY <1>1, <4>1, <4>2 DEF Cuts
    <3>3. QED
      BY <3>1, <3>2
  <2>3. QED
    BY <1>6, <2>1, <2>2 DEF Cuts
<1>8. Cut(d, a, z)
  BY <1>5, <1>7 DEF Cut
<1>9. QED
  BY <1>8 DEF d, z

\* The message at the head of a channel is the next piece.
LEMMA CutShrinks ==
  ASSUME NEW c \in Seq(Message), c # <<>>, NEW a \in Nat, NEW b \in Nat, Cut(c, a, b)
  PROVE  /\ From(Head(c).bytes, a) /\ Cut(Tail(c), a + Len(Head(c).bytes), b)
         /\ Head(c) = c[1] /\ c[1] \in Message /\ Tail(c) \in Seq(Message) /\ Len(Tail(c)) = Len(c) - 1
         /\ \A i \in 1..Len(Tail(c)) : Tail(c)[i] = c[i + 1]
<1> DEFINE d == Tail(c)
<1>1. PICK f \in [0..Len(c) -> 0..b] : Cuts(c, a, b, f)
  BY DEF Cut
<1>2. Len(c) \in Nat \ {0} /\ Head(c) = c[1] /\ c[1] \in Message
  <2>1. Len(c) \in Nat \ {0}
    BY EmptySeq
  <2>2. QED
    BY <2>1, ElementOfSeq
<1>3. /\ d \in Seq(Message) /\ Len(d) = Len(c) - 1 /\ \A i \in 1..Len(d) : d[i] = c[i + 1]
  BY HeadTailProperties
<1> HIDE DEF d
<1> DEFINE g == [i \in 0..Len(d) |-> f[i + 1]]
<1>4. g \in [0..Len(d) -> 0..b]
  <2>1. \A i \in 0..Len(d) : i + 1 \in 0..Len(c)
    BY <1>2, <1>3
  <2>2. \A i \in 0..Len(d) : f[i + 1] \in 0..b
    BY <1>1, <2>1
  <2>3. QED
    BY <2>2
<1>5. From(c[1].bytes, a) /\ f[1] = a + Len(c[1].bytes)
  BY <1>1, <1>2 DEF Cuts
<1>6. \A i \in 0..Len(d) : g[i] = f[i + 1]
  OBVIOUS
<1> HIDE DEF g
<1>7. Cuts(d, f[1], b, g)
  <2>1. g[0] = f[1] /\ g[Len(d)] = b
    <3>1. 0 \in 0..Len(d) /\ Len(d) \in 0..Len(d) /\ Len(d) + 1 = Len(c) /\ 0 + 1 = 1
      BY <1>2, <1>3
    <3>2. QED
      BY <1>1, <1>6, <3>1 DEF Cuts
  <2>2. ASSUME NEW i \in 1..Len(d) PROVE From(d[i].bytes, g[i - 1]) /\ g[i] = g[i - 1] + Len(d[i].bytes)
    <3>1. i + 1 \in 1..Len(c) /\ i - 1 \in 0..Len(d) /\ i \in 0..Len(d) /\ (i - 1) + 1 = i /\ (i + 1) - 1 = i
      BY <1>2, <1>3
    <3>2. d[i] = c[i + 1] /\ g[i] = f[i + 1] /\ g[i - 1] = f[i]
      BY <1>3, <1>6, <3>1
    <3>3. From(c[i + 1].bytes, f[i]) /\ f[i + 1] = f[i] + Len(c[i + 1].bytes)
      BY <1>1, <3>1 DEF Cuts
    <3>4. QED
      BY <3>2, <3>3
  <2>3. QED
    BY <2>1, <2>2 DEF Cuts
<1>8. Cut(d, f[1], b)
  BY <1>4, <1>7 DEF Cut
<1>9. QED
  BY <1>2, <1>3, <1>5, <1>8 DEF d

\* A channel goes from what was received to what is retained, and back.
LEMMA CutEnds ==
  ASSUME NEW c \in Seq(Message), NEW a \in Nat, NEW b \in Nat, Cut(c, a, b)
  PROVE  a <= b /\ (c = <<>> => a = b)
<1>1. PICK f \in [0..Len(c) -> 0..b] : Cuts(c, a, b, f)
  BY DEF Cut
<1>2. Len(c) \in Nat /\ (c = <<>> => Len(c) = 0)
  BY EmptyPiece
<1>3. f[0] \in 0..b
  BY <1>1, <1>2
<1>4. QED
  BY <1>1, <1>2, <1>3 DEF Cuts

\* A channel in which nothing was sent.
LEMMA CutNothing == ASSUME NEW a \in Nat PROVE Cut(<<>>, a, a)
<1> DEFINE f == [i \in 0..0 |-> a]
<1>1. f \in [0..Len(<<>>) -> 0..a]
  BY EmptyPiece
<1>2. Cuts(<<>>, a, a, f)
  BY EmptyPiece DEF Cuts
<1>3. QED
  BY <1>1, <1>2 DEF Cut

-----------------------------------------------------------------------------
(* What a step leaves alone. *)

\* The numbers and sequences of a stream.
LEMMA StreamParts ==
  ASSUME Types, NEW s \in Capture
  PROVE  /\ written[s] \in Nat /\ pipe[s] \in Seq(Nat) /\ buf[s] \in Seq(Nat) /\ out[s] \in Seq(Nat)
         /\ chan[s] \in Seq(Message) /\ retained[s] \in Nat /\ retained[s] <= MaxBytes /\ MaxBytes \in Nat
         /\ Len(pipe[s]) \in Nat /\ Len(buf[s]) \in Nat /\ Len(out[s]) \in Nat /\ Len(chan[s]) \in Nat
         /\ reader[s] \in ReaderSteps /\ Writes[s] \in Nat /\ Chunk \in Nat \ {0}
<1>1. /\ written[s] \in Nat /\ pipe[s] \in Seq(Nat) /\ buf[s] \in Seq(Nat) /\ out[s] \in Seq(Nat)
      /\ chan[s] \in Seq(Message) /\ retained[s] \in 0..MaxBytes /\ reader[s] \in ReaderSteps
  BY DEF Types
<1>2. MaxBytes \in Nat /\ Writes[s] \in Nat /\ Chunk \in Nat \ {0}
  BY CollectionAssumption
<1>3. QED
  BY <1>1, <1>2, LenProperties

\* The channel of a stream while nothing is sent or received, up to the end
\* of its reader.
LEMMA ChannelKept ==
  ASSUME NEW s \in Capture, ChannelSound(s),
         chan'[s] = chan[s], out'[s] = out[s], retained'[s] = retained[s],
         s \in done' <=> s \in done, s \in ferr' <=> s \in ferr,
         reader[s] = "gone" => reader'[s] = "gone" /\ (AllRead(s) => AllRead(s)')
  PROVE  ChannelSound(s)'
BY DEF ChannelSound

\* A stream that nothing happened to but that it may have been closed, or
\* have lost its collector.
LEMMA StreamKept ==
  ASSUME NEW s \in Capture, Stream(s),
         pipe'[s] = pipe[s], written'[s] = written[s], reader'[s] = reader[s], buf'[s] = buf[s],
         chan'[s] = chan[s], out'[s] = out[s], retained'[s] = retained[s],
         s \in discarding' <=> s \in discarding, s \in overflow' <=> s \in overflow,
         s \in rerr' <=> s \in rerr, s \in stop => s \in stop',
         s \in done' <=> s \in done, s \in ferr' <=> s \in ferr,
         Open(s)' => Open(s), collector' = "take" => collector = "take"
  PROVE  Stream(s)'
<1>1. AllRead(s) => AllRead(s)'
  BY DEF AllRead
<1>2. PipeSound(s)'
  BY DEF Stream, PipeSound
<1>3. ReaderSound(s)'
  BY <1>1 DEF Stream, ReaderSound, Bytes
<1>4. ChannelSound(s)'
  BY <1>1, ChannelKept DEF Stream
<1>5. QED
  BY <1>2, <1>3, <1>4 DEF Stream

\* A step of one stream.
LEMMA OneStream ==
  ASSUME OInv, NEW s \in Capture, Types', CollectorSound', Stream(s)',
         \A q \in Capture : q # s =>
           /\ pipe'[q] = pipe[q] /\ written'[q] = written[q] /\ reader'[q] = reader[q] /\ buf'[q] = buf[q]
           /\ chan'[q] = chan[q] /\ out'[q] = out[q] /\ retained'[q] = retained[q]
           /\ q \in discarding' <=> q \in discarding
           /\ q \in overflow' <=> q \in overflow
           /\ q \in rerr' <=> q \in rerr
           /\ q \in done' <=> q \in done
           /\ q \in ferr' <=> q \in ferr,
         \A q \in Capture : q \in stop => q \in stop',
         \A q \in Capture : Open(q)' => Open(q), collector' = "take" => collector = "take"
  PROVE  OInv'
<1>1. ASSUME NEW q \in Capture, q # s PROVE Stream(q)'
  BY <1>1, StreamKept DEF OInv
<1>2. QED
  BY <1>1 DEF OInv

-----------------------------------------------------------------------------
(* The child, its descendants and other runs. *)

\* A writer appends the next position to its pipe.
LEMMA WriteKeeps == ASSUME OInv, NEW s \in Capture, WriteByte(s) PROVE OInv'
<1> USE DEF WriteByte, readerv, budget, collv
<1>0. Types /\ Stream(s) /\ CollectorSound
  BY DEF OInv
<1>1. /\ written'[s] = written[s] + 1 /\ pipe'[s] = Append(pipe[s], written[s] + 1)
      /\ \A q \in Capture : q # s => written'[q] = written[q] /\ pipe'[q] = pipe[q]
  BY <1>0 DEF Types
<1>2. /\ pipe'[s] \in Seq(Nat) /\ Len(pipe'[s]) = Len(pipe[s]) + 1
      /\ From(pipe'[s], written[s] - Len(pipe[s]))
  <2>1. written[s] - Len(pipe[s]) \in Nat /\ (written[s] - Len(pipe[s])) + Len(pipe[s]) + 1 = written[s] + 1
    BY <1>0, StreamParts DEF Stream, PipeSound
  <2>2. From(pipe[s], written[s] - Len(pipe[s])) /\ pipe[s] \in Seq(Nat)
    BY <1>0, StreamParts DEF Stream, PipeSound
  <2> DEFINE a == written[s] - Len(pipe[s])
  <2> HIDE DEF a
  <2>3. Append(pipe[s], a + Len(pipe[s]) + 1) = pipe'[s]
    BY <1>1, <2>1 DEF a
  <2>4. QED
    BY <2>1, <2>2, <2>3, PieceGrows DEF a
<1>3. Types'
  <2>1. written' \in [Capture -> Nat] /\ pipe' \in [Capture -> Seq(Nat)]
    <3>1. written[s] + 1 \in Nat /\ Append(pipe[s], written[s] + 1) \in Seq(Nat)
      BY <1>0, <1>1, <1>2, StreamParts
    <3>2. QED
      BY <1>0, <3>1 DEF Types
  <2>2. QED
    BY <1>0, <2>1 DEF Types
<1>4. CollectorSound'
  BY <1>0 DEF CollectorSound
<1>5. Stream(s)'
  <2>1. PipeSound(s)'
    <3>1. written'[s] - Len(pipe'[s]) = written[s] - Len(pipe[s]) /\ Len(pipe'[s]) <= written'[s]
      BY <1>0, <1>1, <1>2, StreamParts DEF Stream, PipeSound
    <3>2. QED
      BY <1>2, <3>1 DEF PipeSound
  <2>2. ReaderSound(s)'
    <3>1. Open(s)' = Open(s) /\ Open(s)
      BY DEF Open
    <3>2. written'[s] <= Writes[s] /\ retained[s] <= written'[s]
      BY <1>0, <1>1, StreamParts DEF Stream, ReaderSound
    <3>3. retained[s] + Len(pipe[s]) = written[s] => retained[s] + Len(pipe'[s]) = written'[s]
      BY <1>0, <1>1, <1>2, StreamParts
    <3>4. retained[s] + Len(buf[s]) + Len(pipe[s]) = written[s] => retained[s] + Len(buf[s]) + Len(pipe'[s]) = written'[s]
      <4> DEFINE x == retained[s] + Len(buf[s])
      <4>1. x \in Nat
        BY <1>0, StreamParts
      <4> HIDE DEF x
      <4>2. x + Len(pipe[s]) = written[s] => x + Len(pipe'[s]) = written'[s]
        BY <1>0, <1>1, <1>2, <4>1, StreamParts
      <4>3. QED
        BY <4>2 DEF x
    <3>5. reader[s] = "release" => s \in stop \cup rerr
      BY <1>0, <3>1 DEF Stream, ReaderSound, AllRead
    <3>6. reader[s] = "check" => buf[s] # <<>>
      BY <1>0, <3>1 DEF Stream, ReaderSound
    <3>7. QED
      BY <1>0, <3>2, <3>3, <3>4, <3>5, <3>6 DEF Stream, ReaderSound, Bytes
  <2>3. ChannelSound(s)'
    BY <1>0, ChannelKept DEF Stream
  <2>4. QED
    BY <2>1, <2>2, <2>3 DEF Stream
<1>6. QED
  BY <1>1, <1>3, <1>4, <1>5, OneStream DEF Open

\* Nothing but the ends of the writers, or the slots of other runs.
LEMMA WorldKeeps ==
  ASSUME OInv, \/ ChildExits \/ OtherReserves \/ OtherReleases
               \/ \E s \in Capture : DescendantCloses(s)
               \/ UNCHANGED vars
  PROVE  OInv'
<1> USE DEF ChildExits, OtherReserves, OtherReleases, DescendantCloses, vars, writer, readerv,
   budget, collv
<1>0. Types /\ CollectorSound /\ \A q \in Capture : Stream(q)
  BY DEF OInv
<1>1. Types'
  <2>1. others' \in 0..Others
    BY <1>0, CollectionAssumption DEF Types
  <2>2. child' \in {"run", "gone"} /\ held' \subseteq Capture /\ slot' \subseteq Capture
    BY <1>0 DEF Types
  <2>3. QED
    BY <1>0, <2>1, <2>2 DEF Types
<1>2. CollectorSound'
  BY <1>0 DEF CollectorSound
<1>3. ASSUME NEW q \in Capture PROVE Stream(q)'
  <2>1. Open(q)' => Open(q)
    BY DEF Open
  <2>2. QED
    BY <1>0, <2>1, StreamKept
<1>4. QED
  BY <1>1, <1>2, <1>3 DEF OInv

-----------------------------------------------------------------------------
(* The reader threads. *)

\* One read: as much of the pipe as fits the buffer.
LEMMA ReadsKeeps == ASSUME OInv, NEW s \in Capture, ReaderReads(s) PROVE OInv'
<1> USE DEF ReaderReads, At, writer, budget, collv
<1> DEFINE n == Least(Chunk, Len(pipe[s]))
<1>0. Types /\ Stream(s) /\ CollectorSound /\ reader[s] = "wait" /\ (pipe[s] # <<>> \/ ~Open(s))
  BY DEF OInv
<1>1. /\ n \in 0..Len(pipe[s]) /\ (n = 0 => Len(pipe[s]) = 0)
  BY <1>0, StreamParts DEF Least
<1>2. /\ buf' = [buf EXCEPT ![s] = SubSeq(pipe[s], 1, n)]
      /\ pipe' = [pipe EXCEPT ![s] = SubSeq(pipe[s], n + 1, Len(pipe[s]))]
      /\ reader' = [reader EXCEPT ![s] = "check"]
  OBVIOUS
<1> HIDE DEF n
<1> DEFINE a == written[s] - Len(pipe[s])
<1>3. a \in Nat /\ From(pipe[s], a) /\ pipe[s] \in Seq(Nat) /\ pipe[s] \in Seq(Bytes(s))
  <2>1. a \in Nat /\ From(pipe[s], a) /\ pipe[s] \in Seq(Nat) /\ a + Len(pipe[s]) <= Writes[s] /\ Writes[s] \in Nat
    BY <1>0, StreamParts DEF Stream, PipeSound, ReaderSound
  <2> HIDE DEF a
  <2>2. QED
    BY <2>1, PieceTyped DEF Bytes
<1>4. /\ SubSeq(pipe[s], 1, n) \in Seq(Nat) /\ SubSeq(pipe[s], 1, n) \in Seq(Bytes(s))
      /\ Len(SubSeq(pipe[s], 1, n)) = n
      /\ SubSeq(pipe[s], n + 1, Len(pipe[s])) \in Seq(Nat)
      /\ Len(SubSeq(pipe[s], n + 1, Len(pipe[s]))) = Len(pipe[s]) - n
      /\ From(SubSeq(pipe[s], 1, n), a) /\ From(SubSeq(pipe[s], n + 1, Len(pipe[s])), a + n)
  <2> HIDE DEF a
  <2>1. SubSeq(pipe[s], 1, n) \in Seq(Bytes(s))
    BY <1>1, <1>3, PieceSplits
  <2>2. QED
    BY <1>1, <1>3, <2>1, PieceSplits
<1>5. /\ buf'[s] = SubSeq(pipe[s], 1, n) /\ pipe'[s] = SubSeq(pipe[s], n + 1, Len(pipe[s]))
      /\ reader'[s] = "check"
      /\ \A q \in Capture : q # s => buf'[q] = buf[q] /\ pipe'[q] = pipe[q] /\ reader'[q] = reader[q]
  BY <1>0, <1>2 DEF Types
<1>6. Types'
  <2>1. buf' \in [Capture -> Seq(Nat)] /\ pipe' \in [Capture -> Seq(Nat)]
    <3>1. buf \in [Capture -> Seq(Nat)] /\ pipe \in [Capture -> Seq(Nat)]
      BY <1>0 DEF Types
    <3>2. buf' \in [Capture -> Seq(Nat)]
      BY <1>2, <1>4, <3>1
    <3>3. pipe' \in [Capture -> Seq(Nat)]
      BY <1>2, <1>4, <3>1
    <3>4. QED
      BY <3>2, <3>3
  <2>2. reader' \in [Capture -> ReaderSteps]
    BY <1>0, <1>2 DEF Types, ReaderSteps
  <2>3. QED
    BY <1>0, <2>1, <2>2 DEF Types
<1>7. CollectorSound'
  BY <1>0 DEF CollectorSound
<1>8. Stream(s)'
  <2>0. /\ Len(buf'[s]) = n /\ Len(pipe'[s]) = Len(pipe[s]) - n /\ From(buf'[s], a) /\ From(pipe'[s], a + n)
        /\ buf'[s] \in Seq(Nat) /\ pipe'[s] \in Seq(Nat) /\ buf'[s] \in Seq(Bytes(s))
    BY <1>4, <1>5
  <2>1. PipeSound(s)'
    <3>1. written[s] - (Len(pipe[s]) - n) = a + n /\ Len(pipe[s]) - n <= written[s]
      BY <1>0, <1>1, StreamParts DEF Stream, PipeSound
    <3>2. QED
      BY <2>0, <3>1 DEF PipeSound
  <2>2. ReaderSound(s)'
    <3>1. s \notin overflow =>
            retained[s] + Len(buf'[s]) + Len(pipe'[s]) = written[s] /\ a = retained[s]
      <4>1. s \notin overflow => retained[s] + Len(pipe[s]) = written[s]
        BY <1>0 DEF Stream, ReaderSound
      <4>2. /\ retained[s] \in Nat /\ Len(pipe[s]) \in Nat /\ written[s] \in Nat /\ n \in Nat
            /\ Len(buf'[s]) = n /\ Len(pipe'[s]) = Len(pipe[s]) - n
        BY <1>0, <1>1, <2>0, StreamParts
      <4> HIDE DEF ReaderReads
      <4>3. QED
        BY <4>1, <4>2
    <3>2. buf'[s] = <<>> => ~Open(s) /\ pipe'[s] = <<>>
      <4>1. buf'[s] = <<>> => n = 0 /\ Len(pipe[s]) = 0 /\ Len(pipe'[s]) = 0
        BY <1>0, <1>1, <2>0, StreamParts, EmptyPiece
      <4>2. QED
        BY <1>0, <1>3, <2>0, <4>1, EmptyPiece
    <3>3. Open(s)' = Open(s)
      BY DEF Open
    <3>4. /\ retained[s] <= written[s] /\ written[s] <= Writes[s] /\ (s \in discarding <=> s \in overflow)
          /\ s \in overflow => retained[s] = MaxBytes
      BY <1>0 DEF Stream, ReaderSound
    <3> HIDE DEF a
    <3>5. QED
      BY <1>5, <2>0, <3>1, <3>2, <3>3, <3>4 DEF ReaderSound, Bytes
  <2>3. ChannelSound(s)'
    BY <1>0, ChannelKept DEF Stream
  <2>4. QED
    BY <2>1, <2>2, <2>3 DEF Stream
<1>9. QED
  BY <1>5, <1>6, <1>7, <1>8, OneStream DEF Open

\* A step of a reader that touches neither its pipe nor its channel.
LEMMA ReaderMoves ==
  ASSUME OInv, NEW s \in Capture, NEW step \in {"wait", "send", "release"}, At(s, step),
         UNCHANGED <<writer, pipe, buf, retained, stop, budget, chan, collv>>,
         reader[s] \in {"wait", "check", "send", "overflow"},
         discarding' \subseteq Capture, overflow' \subseteq Capture, rerr' \subseteq Capture,
         \A q \in Capture : q # s => /\ q \in discarding' <=> q \in discarding
                                     /\ q \in overflow' <=> q \in overflow
                                     /\ q \in rerr' <=> q \in rerr,
         ReaderSound(s)'
  PROVE  OInv'
<1> USE DEF At, writer, budget, collv
<1>0. Types /\ Stream(s) /\ CollectorSound
  BY DEF OInv
<1>1. reader'[s] = step /\ \A q \in Capture : q # s => reader'[q] = reader[q]
  BY <1>0 DEF Types
<1>2. Types'
  <2>1. reader' \in [Capture -> ReaderSteps]
    BY <1>0 DEF Types, ReaderSteps
  <2>2. QED
    BY <1>0, <2>1 DEF Types
<1>3. CollectorSound'
  <2>1. s \notin done
    BY <1>0 DEF Stream, ChannelSound
  <2>2. done \cap stop \cap overflow' = done \cap stop \cap overflow
    BY <1>0, <2>1 DEF Types
  <2>3. QED
    BY <1>0, <2>2 DEF CollectorSound
<1>4. PipeSound(s)'
  BY <1>0 DEF Stream, PipeSound
<1>5. ChannelSound(s)'
  BY <1>0, ChannelKept DEF Stream
<1>6. QED
  BY <1>1, <1>2, <1>3, <1>4, <1>5, OneStream DEF Stream, Open

\* A reader that is told to stop, or whose pipe fails.
LEMMA StopsKeeps == ASSUME OInv, NEW s \in Capture, ReaderStops(s) \/ ReaderErrs(s) PROVE OInv'
<1> USE DEF ReaderStops, ReaderErrs, writer, budget, collv
<1>0. Types /\ Stream(s) /\ reader[s] = "wait"
  BY DEF OInv
<1>1. At(s, "release") /\ reader'[s] = "release"
  BY <1>0 DEF Types, At
<1>2. /\ rerr' \subseteq Capture /\ s \in stop' \cup rerr'
      /\ \A q \in Capture : q # s => (q \in rerr' <=> q \in rerr)
  BY <1>0 DEF Types
<1>3. ReaderSound(s)'
  BY <1>0, <1>1, <1>2 DEF Stream, ReaderSound, Bytes
<1>4. UNCHANGED <<discarding, overflow>> /\ discarding' \subseteq Capture /\ overflow' \subseteq Capture
  BY <1>0 DEF Types
<1>5. QED
  BY <1>0, <1>1, <1>2, <1>3, <1>4, ReaderMoves

\* stop is looked at after the read.
LEMMA ChecksKeeps == ASSUME OInv, NEW s \in Capture, ReaderChecks(s) PROVE OInv'
<1> USE DEF ReaderChecks, writer, budget, collv
<1>0. Types /\ Stream(s) /\ reader[s] = "check"
  BY DEF OInv
<1>1. CASE s \in stop \/ buf[s] = <<>>
  <2>1. At(s, "release")
    BY <1>1 DEF AfterRead
  <2>2. reader'[s] = "release"
    BY <1>0, <2>1 DEF Types, At
  <2>3. s \notin stop \cup rerr => AllRead(s)'
    <3>1. buf[s] = <<>> => ~Open(s) /\ Len(pipe[s]) = 0 /\ Len(buf[s]) = 0
      BY <1>0, EmptyPiece DEF Stream, ReaderSound
    <3>2. buf[s] = <<>> /\ s \notin overflow => retained[s] = written[s]
      BY <1>0, <3>1, StreamParts DEF Stream, ReaderSound
    <3>3. QED
      BY <1>1, <3>1, <3>2 DEF AllRead, Open
  <2>4. ReaderSound(s)'
    BY <1>0, <2>2, <2>3 DEF Stream, ReaderSound, Bytes
  <2>5. QED
    BY <1>0, <2>1, <2>4, ReaderMoves DEF Types
<1>2. CASE s \notin stop /\ buf[s] # <<>> /\ s \in discarding
  <2>1. At(s, "wait")
    BY <1>2 DEF AfterRead
  <2>2. reader'[s] = "wait"
    BY <1>0, <2>1 DEF Types, At
  <2>3. ReaderSound(s)'
    BY <1>0, <1>2, <2>2 DEF Stream, ReaderSound, Bytes
  <2>4. QED
    BY <1>0, <2>1, <2>3, ReaderMoves DEF Types
<1>3. CASE s \notin stop /\ buf[s] # <<>> /\ s \notin discarding
  <2>1. At(s, "send")
    BY <1>3 DEF AfterRead
  <2>2. reader'[s] = "send"
    BY <1>0, <2>1 DEF Types, At
  <2>3. ReaderSound(s)'
    BY <1>0, <1>3, <2>2 DEF Stream, ReaderSound, Bytes
  <2>4. QED
    BY <1>0, <2>1, <2>3, ReaderMoves DEF Types
<1>4. QED
  BY <1>1, <1>2, <1>3

\* More than fits: the stream is marked, and drained without being kept.
LEMMA OverflowsKeeps == ASSUME OInv, NEW s \in Capture, ReaderOverflows(s) PROVE OInv'
<1> USE DEF ReaderOverflows, writer, budget, collv
<1>0. Types /\ Stream(s) /\ reader[s] = "overflow"
  BY DEF OInv
<1>1. At(s, "wait") /\ reader'[s] = "wait"
  BY <1>0 DEF Types, At
<1>2. ReaderSound(s)'
  BY <1>0, <1>1 DEF Stream, ReaderSound, Bytes
<1>3. QED
  BY <1>0, <1>1, <1>2, ReaderMoves DEF Types

\* What is left of max_bytes is kept of a buffer, and sent.
LEMMA SendsKeeps == ASSUME OInv, NEW s \in Capture, ReaderSends(s) PROVE OInv'
<1> DEFINE k == Keep(s)
<1>0. Types /\ Stream(s) /\ CollectorSound /\ reader[s] = "send"
  BY DEF OInv, ReaderSends
<1>1. /\ s \notin overflow /\ retained[s] + Len(buf[s]) + Len(pipe[s]) = written[s] /\ From(buf[s], retained[s])
      /\ \A i \in 1..Len(chan[s]) : chan[s][i].kind = "data"
      /\ s \notin done
  BY <1>0 DEF Stream, ReaderSound, ChannelSound
<1>2. CASE k > 0 /\ s \in stop
  <2>1. At(s, "release") /\ UNCHANGED <<chan, retained>>
    BY <1>2 DEF ReaderSends
  <2>2. UNCHANGED <<writer, pipe, buf, discarding, overflow, rerr, stop, budget, collv>>
    BY DEF ReaderSends
  <2>3. reader'[s] = "release" /\ discarding' \subseteq Capture /\ overflow' \subseteq Capture /\ rerr' \subseteq Capture
    BY <1>0, <2>1, <2>2 DEF Types, At
  <2>4. ReaderSound(s)'
    <3>1. UNCHANGED <<written, pipe, buf, retained, discarding, overflow, rerr, stop>>
      BY <2>1, <2>2 DEF writer
    <3> HIDE DEF k
    <3>2. QED
      BY <1>0, <1>2, <2>3, <3>1 DEF Stream, ReaderSound, Bytes
  <2>5. QED
    BY <1>0, <2>1, <2>2, <2>3, <2>4, ReaderMoves
<1>3. CASE ~(k > 0 /\ s \in stop)
  <2>0. /\ At(s, IF Len(buf[s]) > k THEN "overflow" ELSE "wait")
        /\ retained' = [retained EXCEPT ![s] = @ + k]
        /\ chan' = IF k = 0 THEN chan ELSE [chan EXCEPT ![s] = Append(@, Data(SubSeq(buf[s], 1, k)))]
        /\ UNCHANGED <<writer, pipe, buf, discarding, overflow, rerr, stop, budget, collv>>
    BY <1>3 DEF ReaderSends
  <2>1. /\ k \in 0..Len(buf[s]) /\ retained[s] + k <= MaxBytes
        /\ Len(buf[s]) > k => retained[s] + k = MaxBytes
    BY <1>0, StreamParts DEF Keep, Least
  <2> HIDE DEF k
  <2> USE DEF writer, budget, collv
  <2> DEFINE step == IF Len(buf[s]) > k THEN "overflow" ELSE "wait"
             piece == SubSeq(buf[s], 1, k)
             m == Data(piece)
  <2>2. /\ piece \in Seq(Nat) /\ Len(piece) = k /\ From(piece, retained[s])
    <3>1. retained[s] \in Nat /\ buf[s] \in Seq(Nat) /\ k \in 0..Len(buf[s]) /\ From(buf[s], retained[s])
      BY <1>0, <1>1, <2>1, StreamParts
    <3>2. SubSeq(buf[s], 1, k) \in Seq(Nat) /\ Len(SubSeq(buf[s], 1, k)) = k /\ From(SubSeq(buf[s], 1, k), retained[s])
      BY <3>1, PieceSplits
    <3>3. QED
      BY <3>2
  <2>3. m \in Message /\ m.kind = "data" /\ m.bytes = piece
    BY <2>2 DEF Data, Message
  <2>4. /\ retained'[s] = retained[s] + k /\ \A q \in Capture : q # s => retained'[q] = retained[q]
        /\ reader'[s] = step /\ \A q \in Capture : q # s => reader'[q] = reader[q]
    BY <1>0, <2>0 DEF Types, At
  <2>5. /\ IF k = 0 THEN chan'[s] = chan[s] ELSE chan'[s] = Append(chan[s], m)
        /\ \A q \in Capture : q # s => chan'[q] = chan[q]
    BY <1>0, <2>0 DEF Types
  <2> HIDE DEF m, piece
  <2>6. Types'
    <3>1. retained' \in [Capture -> 0..MaxBytes]
      <4>1. retained[s] + k \in 0..MaxBytes
        BY <1>0, <2>1, StreamParts
      <4>2. QED
        BY <1>0, <2>0, <4>1 DEF Types
    <3>2. reader' \in [Capture -> ReaderSteps]
      BY <1>0, <2>0 DEF Types, At, ReaderSteps
    <3>3. chan' \in [Capture -> Seq(Message)]
      <4>1. CASE k = 0
        BY <1>0, <2>0, <4>1 DEF Types
      <4>2. CASE k # 0
        <5>1. Append(chan[s], m) \in Seq(Message) /\ chan \in [Capture -> Seq(Message)]
          BY <1>0, <2>3, StreamParts, AppendProperties DEF Types
        <5>2. chan' = [chan EXCEPT ![s] = Append(chan[s], m)]
          BY <2>0, <4>2 DEF m, piece
        <5>3. QED
          BY <5>1, <5>2
      <4>3. QED
        BY <4>1, <4>2
    <3>4. QED
      BY <1>0, <2>0, <3>1, <3>2, <3>3 DEF Types
  <2>7. CollectorSound'
    BY <1>0, <2>0 DEF CollectorSound
  <2>8. PipeSound(s)'
    BY <1>0, <2>0 DEF Stream, PipeSound
  <2>9. ReaderSound(s)'
    <3>1. step = "overflow" => retained'[s] = MaxBytes
      BY <2>1, <2>4
    <3>2. step = "wait" => retained'[s] + Len(pipe[s]) = written[s]
      BY <1>0, <1>1, <2>1, <2>4, StreamParts
    <3>3. retained'[s] <= written[s]
      BY <1>0, <1>1, <2>1, <2>4, StreamParts
    <3>4. step \in {"overflow", "wait"}
      OBVIOUS
    <3> HIDE DEF step
    <3>5. QED
      BY <1>0, <1>1, <2>0, <2>4, <3>1, <3>2, <3>3, <3>4 DEF Stream, ReaderSound, Bytes
  <2>10. ChannelSound(s)'
    <3>1. reader'[s] # "gone"
      BY <2>4
    <3>2. From(out'[s], 0) /\ s \notin done'
      BY <1>0, <1>1, <2>0 DEF Stream, ChannelSound
    <3>3. CASE k = 0
      <4>1. retained'[s] = retained[s] /\ chan'[s] = chan[s] /\ out'[s] = out[s]
        BY <1>0, <2>0, <2>4, <2>5, <3>3, StreamParts
      <4>2. QED
        BY <1>0, <1>1, <3>2, <4>1 DEF Stream, ChannelSound
    <3>4. CASE k # 0
      <4>1. chan'[s] = Append(chan[s], m) /\ chan[s] \in Seq(Message) /\ out'[s] = out[s]
        BY <1>0, <2>0, <2>5, <3>4, StreamParts
      <4>2. Cut(chan[s], Len(out[s]), retained[s]) /\ Len(out[s]) \in Nat /\ retained[s] \in Nat
        BY <1>0, StreamParts DEF Stream, ChannelSound
      <4>3. From(m.bytes, retained[s]) /\ Len(m.bytes) = k
        BY <2>2, <2>3
      <4>4. Cut(chan'[s], Len(out'[s]), retained'[s])
        BY <2>3, <2>4, <4>1, <4>2, <4>3, CutGrows
      <4>5. \A i \in 1..Len(chan'[s]) : chan'[s][i].kind = "data"
        <5>1. /\ Len(chan'[s]) = Len(chan[s]) + 1 /\ Len(chan[s]) \in Nat
              /\ \A i \in 1..Len(chan[s]) : chan'[s][i] = chan[s][i]
              /\ chan'[s][Len(chan[s]) + 1] = m
          BY <2>3, <4>1, AppendProperties, LenProperties
        <5>2. QED
          BY <1>1, <2>3, <5>1
      <4>6. QED
        BY <3>2, <4>4, <4>5 DEF ChannelSound
    <3>5. QED
      BY <3>3, <3>4
  <2>11. Stream(s)'
    BY <2>8, <2>9, <2>10 DEF Stream
  <2> HIDE DEF step
  <2>12. QED
    BY <2>0, <2>4, <2>5, <2>6, <2>7, <2>11, OneStream DEF Open
<1>4. QED
  BY <1>2, <1>3

\* The pipe and the slot are given back.
LEMMA ReleasesKeeps == ASSUME OInv, NEW s \in Capture, ReaderReleases(s) PROVE OInv'
<1> USE DEF ReaderReleases, At, writer, budget, collv
<1>0. Types /\ Stream(s) /\ CollectorSound /\ reader[s] = "release"
  BY DEF OInv
<1>1. /\ reader'[s] = "announce" /\ pipe'[s] = <<>>
      /\ \A q \in Capture : q # s => reader'[q] = reader[q] /\ pipe'[q] = pipe[q]
  BY <1>0 DEF Types
<1>2. Types'
  <2>1. reader' \in [Capture -> ReaderSteps]
    BY <1>0 DEF Types, ReaderSteps
  <2>2. pipe' \in [Capture -> Seq(Nat)]
    BY <1>0, EmptyPiece DEF Types
  <2>3. slot' \subseteq Capture
    BY <1>0 DEF Types
  <2>4. QED
    BY <1>0, <2>1, <2>2, <2>3 DEF Types
<1>3. CollectorSound'
  BY <1>0 DEF CollectorSound
<1>4. PipeSound(s)'
  BY <1>0, <1>1, StreamParts, EmptyPiece DEF PipeSound
<1>5. AllRead(s) => AllRead(s)'
  BY DEF AllRead, Open
<1>6. ReaderSound(s)' /\ ChannelSound(s)'
  BY <1>0, <1>1, <1>5, ChannelKept DEF Stream, ReaderSound, Bytes
<1>7. QED
  BY <1>1, <1>2, <1>3, <1>4, <1>6, OneStream DEF Stream, Open

\* The end of a stream is announced, if anybody listens.
LEMMA AnnouncesKeeps == ASSUME OInv, NEW s \in Capture, ReaderAnnounces(s) PROVE OInv'
<1> DEFINE m == IF s \in rerr THEN Failed ELSE Finished
<1> USE DEF At, writer, budget, collv
<1>0. /\ Types /\ Stream(s) /\ CollectorSound /\ reader[s] = "announce"
      /\ UNCHANGED <<writer, pipe, buf, retained, discarding, overflow, rerr, stop, budget, collv>>
  BY DEF OInv, ReaderAnnounces
<1>1. reader' = [reader EXCEPT ![s] = "gone"]
  BY DEF ReaderAnnounces
<1>2. chan' = IF s \in stop THEN chan ELSE [chan EXCEPT ![s] = Append(@, m)]
  BY DEF ReaderAnnounces
<1>3. /\ m \in Message /\ m.bytes = <<>> /\ m.kind # "data" /\ (m.kind = "finished" => s \notin rerr)
  BY EmptyPiece DEF Failed, Finished, Message
<1> HIDE DEF m
<1>4. /\ reader'[s] = "gone" /\ \A q \in Capture : q # s => reader'[q] = reader[q]
      /\ IF s \in stop THEN chan'[s] = chan[s] ELSE chan'[s] = Append(chan[s], m)
      /\ \A q \in Capture : q # s => chan'[q] = chan[q]
  BY <1>0, <1>1, <1>2 DEF Types
<1>5. Types'
  <2>1. reader' \in [Capture -> ReaderSteps]
    BY <1>0, <1>1 DEF Types, ReaderSteps
  <2>2. chan' \in [Capture -> Seq(Message)]
    <3>1. chan \in [Capture -> Seq(Message)] /\ Append(chan[s], m) \in Seq(Message)
      BY <1>0, <1>3, StreamParts, AppendProperties DEF Types
    <3>2. QED
      BY <1>2, <3>1
  <2>3. QED
    BY <1>0, <2>1, <2>2 DEF Types
<1>6. CollectorSound'
  BY <1>0 DEF CollectorSound
<1>7. (AllRead(s) => AllRead(s)') /\ Open(s)' = Open(s)
  BY <1>0 DEF AllRead, Open
<1>8. PipeSound(s)' /\ ReaderSound(s)'
  BY <1>0, <1>4, <1>7 DEF Stream, PipeSound, ReaderSound, Bytes
<1>9. ChannelSound(s)'
  <2>1. CASE s \in stop
    BY <1>0, <1>4, <1>7, <2>1, ChannelKept DEF Stream
  <2>2. CASE s \notin stop
    <3>1. chan'[s] = Append(chan[s], m) /\ chan[s] \in Seq(Message) /\ out'[s] = out[s] /\ retained'[s] = retained[s]
      BY <1>0, <1>4, <2>2, StreamParts
    <3>2. Cut(chan[s], Len(out[s]), retained[s]) /\ Len(out[s]) \in Nat /\ retained[s] \in Nat /\ From(out[s], 0)
      BY <1>0, StreamParts DEF Stream, ChannelSound
    <3>3. From(m.bytes, retained[s]) /\ retained[s] + Len(m.bytes) = retained[s]
      BY <1>3, <3>2, EmptyPiece
    <3>4. Cut(chan'[s], Len(out'[s]), retained'[s])
      BY <1>3, <3>1, <3>2, <3>3, CutGrows
    <3>5. /\ Len(chan'[s]) = Len(chan[s]) + 1 /\ Len(chan[s]) \in Nat
          /\ \A i \in 1..Len(chan[s]) : chan'[s][i] = chan[s][i]
          /\ chan'[s][Len(chan[s]) + 1] = m
      BY <1>3, <3>1, AppendProperties, LenProperties
    <3>6. m.kind = "finished" => AllRead(s)'
      BY <1>0, <1>3, <1>7, <2>2 DEF Stream, ReaderSound
    <3>7. /\ \A i \in 1..Len(chan[s]) : chan[s][i].kind = "data"
          /\ s \notin done
      BY <1>0 DEF Stream, ChannelSound
    <3>8. \A i \in 1..Len(chan'[s]) :
            /\ chan'[s][i].kind # "data" => i = Len(chan'[s])
            /\ chan'[s][i].kind = "finished" => AllRead(s)'
      BY <3>5, <3>6, <3>7
    <3>9. QED
      BY <1>0, <1>4, <3>1, <3>2, <3>4, <3>7, <3>8 DEF ChannelSound
  <2>3. QED
    BY <2>1, <2>2
<1>10. QED
  BY <1>0, <1>4, <1>5, <1>6, <1>8, <1>9, OneStream DEF Stream, Open

-----------------------------------------------------------------------------
(* The run: its readers, the session, the collection. *)

\* A reader starts with everything written so far still in the pipe.
LEMMA TakeKeeps == ASSUME OInv, NEW s \in Capture, TakeReader(s) PROVE OInv'
<1> USE DEF TakeReader, IsNext, writer, collv
<1>0. Types /\ Stream(s) /\ CollectorSound /\ reader[s] = "none" /\ collector = "take"
  BY DEF OInv
<1>1. reader'[s] = "wait" /\ \A q \in Capture : q # s => reader'[q] = reader[q]
  BY <1>0 DEF Types
<1>2. Types'
  <2>1. reader' \in [Capture -> ReaderSteps] /\ slot' \subseteq Capture
    BY <1>0 DEF Types, ReaderSteps
  <2>2. QED
    BY <1>0, <2>1 DEF Types
<1>3. CollectorSound'
  BY <1>0 DEF CollectorSound
<1>4. PipeSound(s)' /\ ReaderSound(s)' /\ ChannelSound(s)'
  BY <1>0, <1>1, ChannelKept DEF Stream, PipeSound, ReaderSound, Bytes
<1>5. QED
  BY <1>1, <1>2, <1>3, <1>4, OneStream DEF Stream, Open

\* No reader could be had: the pipes without one are dropped.
LEMMA TakeFailsKeeps == ASSUME OInv, NEW t \in Capture, TakeFails(t) PROVE OInv'
<1> USE DEF TakeFails, IsNext, readerv, budget
<1>0. Types /\ CollectorSound /\ collector = "take" /\ collector' = "failed" /\ stop' = Capture
  BY DEF OInv
<1>1. ASSUME NEW q \in Capture
      PROVE  pipe'[q] = (IF reader[q] = "none" THEN <<>> ELSE pipe[q]) /\ pipe'[q] \in Seq(Nat)
  BY <1>0, StreamParts, EmptyPiece
<1>2. Types'
  <2>1. pipe' \in [Capture -> Seq(Nat)]
    BY <1>1
  <2>2. child' \in {"run", "gone"} /\ collector' \in {"take", "failed", "session", "collect", "drain", "load", "done"}
    BY <1>0
  <2>3. QED
    BY <1>0, <2>1, <2>2 DEF Types
<1>3. CollectorSound'
  BY <1>0 DEF CollectorSound
<1>4. ASSUME NEW q \in Capture PROVE Stream(q)'
  <2>0. Stream(q) /\ (Open(q)' => Open(q))
    BY DEF OInv, Open
  <2>1. CASE reader[q] = "none"
    <3>1. PipeSound(q)'
      BY <1>0, <1>1, <2>1, StreamParts, EmptyPiece DEF PipeSound
    <3>2. ReaderSound(q)' /\ ChannelSound(q)'
      BY <1>0, <2>0, <2>1, ChannelKept DEF Stream, ReaderSound, Bytes
    <3>3. QED
      BY <3>1, <3>2 DEF Stream
  <2>2. CASE reader[q] # "none"
    BY <1>0, <1>1, <2>0, <2>2, StreamKept
  <2>3. QED
    BY <2>1, <2>2
<1>5. QED
  BY <1>2, <1>3, <1>4 DEF OInv

\* The steps of the collector that move no byte.
LEMMA CollectorKeeps ==
  ASSUME OInv, \/ TakeDone \/ CollectStarts \/ CollectCompletes \/ CollectTimesOut \/ DrainEnds
               \/ \E s \in Capture : DrainLeaves(s) \/ CollectLoads(s)
  PROVE  OInv'
<1> USE DEF TakeDone, CollectStarts, CollectCompletes, CollectTimesOut, DrainEnds, DrainLeaves,
   CollectLoads, writer, readerv, budget
<1>0. Types /\ CollectorSound
  BY DEF OInv
<1>1. /\ UNCHANGED <<writer, pipe, readerv, budget, chan, out, done, ferr>>
      /\ collector' \in {"session", "collect", "load", "drain", "done"}
      /\ stop \subseteq stop' /\ stop' \subseteq Capture /\ drained' \subseteq Capture /\ truncated' \subseteq Capture
  BY <1>0 DEF Types
<1>2. incomplete' \in BOOLEAN
  BY <1>0 DEF Types
<1>3. Types'
  BY <1>0, <1>1, <1>2 DEF Types
<1>4. CollectorSound'
  <2>1. CASE TakeDone \/ CollectStarts \/ \E s \in Capture : DrainLeaves(s)
    BY <1>0, <2>1 DEF CollectorSound
  <2>2. CASE CollectCompletes
    BY <1>0, <2>2 DEF CollectorSound
  <2>3. CASE CollectTimesOut
    BY <1>0, <2>3 DEF CollectorSound
  <2>4. CASE DrainEnds
    BY <1>0, <2>4 DEF CollectorSound, Types
  <2>5. ASSUME NEW s \in Capture, CollectLoads(s) PROVE CollectorSound'
    BY <1>0, <2>5 DEF CollectorSound
  <2>6. QED
    BY <2>1, <2>2, <2>3, <2>4, <2>5
<1>5. ASSUME NEW q \in Capture PROVE Stream(q)'
  <2>1. Stream(q) /\ Open(q)' = Open(q) /\ (q \in stop => q \in stop')
    BY <1>1 DEF OInv, Open
  <2>2. QED
    BY <1>1, <2>1, StreamKept
<1>6. QED
  BY <1>3, <1>4, <1>5 DEF OInv

\* SubprocessOutputStream::accept: the next piece, or the end.
LEMMA ReceiveKeeps == ASSUME OInv, NEW s \in Capture, Receive(s) PROVE OInv'
<1> DEFINE m == Head(chan[s])
<1> USE DEF writer, readerv, budget
<1>0. /\ Types /\ Stream(s) /\ CollectorSound /\ collector \in {"collect", "drain"} /\ s \notin done /\ chan[s] # <<>>
      /\ UNCHANGED <<writer, pipe, readerv, stop, budget, collector, drained, incomplete, truncated>>
  BY DEF OInv, Receive
<1>1. /\ out' = [out EXCEPT ![s] = @ \o m.bytes]
      /\ done' = (IF m.kind = "data" THEN done ELSE done \cup {s})
      /\ ferr' = (IF m.kind = "failed" THEN ferr \cup {s} ELSE ferr)
      /\ chan' = [chan EXCEPT ![s] = Tail(@)]
  BY DEF Receive
<1>2. /\ From(m.bytes, Len(out[s])) /\ Cut(Tail(chan[s]), Len(out[s]) + Len(m.bytes), retained[s])
      /\ m = chan[s][1] /\ m \in Message /\ Tail(chan[s]) \in Seq(Message) /\ Len(Tail(chan[s])) = Len(chan[s]) - 1
      /\ \A i \in 1..Len(Tail(chan[s])) : Tail(chan[s])[i] = chan[s][i + 1]
  <2>1. Cut(chan[s], Len(out[s]), retained[s]) /\ chan[s] \in Seq(Message) /\ Len(out[s]) \in Nat /\ retained[s] \in Nat
    BY <1>0, StreamParts DEF Stream, ChannelSound
  <2>2. QED
    BY <1>0, <2>1, CutShrinks
<1> HIDE DEF m
<1>3. m.bytes \in Seq(Nat) /\ m.kind \in {"data", "finished", "failed"}
  BY <1>2 DEF Message
<1>4. out[s] \o m.bytes \in Seq(Nat) /\ Len(out[s] \o m.bytes) = Len(out[s]) + Len(m.bytes) /\ From(out[s] \o m.bytes, 0)
  <2>1. From(out[s], 0) /\ out[s] \in Seq(Nat) /\ 0 + Len(out[s]) = Len(out[s])
    BY <1>0, StreamParts DEF Stream, ChannelSound
  <2>2. QED
    BY <1>2, <1>3, <2>1, PiecesJoin
<1>5. /\ out'[s] = out[s] \o m.bytes /\ chan'[s] = Tail(chan[s])
      /\ \A q \in Capture : q # s => out'[q] = out[q] /\ chan'[q] = chan[q]
  BY <1>0, <1>1 DEF Types
<1>6. Types'
  <2>1. out \in [Capture -> Seq(Nat)] /\ chan \in [Capture -> Seq(Message)]
    BY <1>0 DEF Types
  <2>2. out' \in [Capture -> Seq(Nat)]
    BY <1>1, <1>4, <2>1
  <2>3. chan' \in [Capture -> Seq(Message)]
    BY <1>1, <1>2, <2>1
  <2>4. done' \subseteq Capture /\ ferr' \subseteq Capture
    BY <1>0, <1>1 DEF Types
  <2>5. QED
    BY <1>0, <2>2, <2>3, <2>4 DEF Types
<1>7. CollectorSound'
  BY <1>0 DEF CollectorSound
<1>8. PipeSound(s)' /\ ReaderSound(s)' /\ (AllRead(s) => AllRead(s)')
  BY <1>0 DEF Stream, PipeSound, ReaderSound, Bytes, AllRead, Open
<1>9. ChannelSound(s)'
  <2>0. Len(chan[s]) \in Nat \ {0} /\ 1 \in 1..Len(chan[s])
    BY <1>0, StreamParts, EmptyPiece
  <2>1. From(out'[s], 0) /\ Cut(chan'[s], Len(out'[s]), retained'[s])
    BY <1>0, <1>2, <1>4, <1>5
  <2>2. ASSUME NEW i \in 1..Len(chan'[s])
        PROVE  /\ chan'[s][i].kind # "data" => reader'[s] = "gone" /\ i = Len(chan'[s])
               /\ chan'[s][i].kind = "finished" => AllRead(s)'
    <3>1. chan'[s][i] = chan[s][i + 1] /\ i + 1 \in 1..Len(chan[s])
          /\ (i + 1 = Len(chan[s]) => i = Len(chan'[s]))
      BY <1>2, <1>5, <2>0
    <3>2. QED
      BY <1>0, <1>8, <3>1 DEF Stream, ChannelSound
  <2>3. s \in done' => reader'[s] = "gone" /\ chan'[s] = <<>>
    <3>1. s \in done' => m.kind # "data"
      BY <1>0, <1>1
    <3>2. m.kind # "data" => reader[s] = "gone" /\ 1 = Len(chan[s])
      BY <1>0, <1>2, <2>0 DEF Stream, ChannelSound
    <3>3. 1 = Len(chan[s]) => chan'[s] = <<>>
      <4>1. chan'[s] \in Seq(Message) /\ (1 = Len(chan[s]) => Len(chan'[s]) = 0)
        BY <1>2, <1>5
      <4>2. QED
        BY <4>1, EmptyPiece
    <3>4. QED
      BY <1>0, <3>1, <3>2, <3>3
  <2>4. s \in done' \ ferr' => AllRead(s)'
    <3>1. s \in done' \ ferr' => m.kind = "finished"
      BY <1>0, <1>1, <1>3
    <3>2. m.kind = "finished" => AllRead(s)
      BY <1>0, <1>2, <2>0 DEF Stream, ChannelSound
    <3>3. QED
      BY <1>8, <3>1, <3>2
  <2>5. QED
    BY <2>1, <2>2, <2>3, <2>4 DEF ChannelSound
<1>10. QED
  BY <1>0, <1>1, <1>5, <1>6, <1>7, <1>8, <1>9, OneStream DEF Stream, Open

-----------------------------------------------------------------------------
(* The invariant is inductive. *)

\* Before anything is written there is nothing to lose.
LEMMA CollectionInit == Init => OInv
<1> SUFFICES ASSUME Init PROVE OInv
  OBVIOUS
<1>1. Types
  <2>1. /\ written \in [Capture -> Nat] /\ pipe \in [Capture -> Seq(Nat)] /\ buf \in [Capture -> Seq(Nat)]
        /\ out \in [Capture -> Seq(Nat)]
    BY EmptyPiece DEF Init
  <2>2. reader \in [Capture -> ReaderSteps] /\ retained \in [Capture -> 0..MaxBytes]
    BY CollectionAssumption DEF Init, ReaderSteps
  <2>3. chan \in [Capture -> Seq(Message)]
    BY EmptySeq DEF Init
  <2>4. others \in 0..Others
    BY CollectionAssumption DEF Init
  <2>5. QED
    BY <2>1, <2>2, <2>3, <2>4 DEF Init, Types
<1>2. CollectorSound
  BY DEF Init, CollectorSound
<1>3. ASSUME NEW s \in Capture PROVE Stream(s)
  <2>1. /\ written[s] = 0 /\ pipe[s] = <<>> /\ buf[s] = <<>> /\ out[s] = <<>> /\ chan[s] = <<>> /\ retained[s] = 0
        /\ reader[s] = "none" /\ Writes[s] \in Nat
    BY CollectionAssumption DEF Init
  <2>2. PipeSound(s)
    BY <2>1, EmptyPiece DEF PipeSound
  <2>3. ReaderSound(s)
    <3>1. buf[s] \in Seq(Bytes(s)) /\ Len(pipe[s]) = 0
      BY <2>1, EmptySeq
    <3>2. s \notin discarding /\ s \notin overflow
      BY DEF Init
    <3>3. retained[s] <= written[s] /\ written[s] <= Writes[s] /\ retained[s] + Len(pipe[s]) = written[s]
      BY <2>1, <3>1
    <3>4. QED
      BY <2>1, <3>1, <3>2, <3>3 DEF ReaderSound
  <2>4. ChannelSound(s)
    BY <2>1, EmptyPiece, CutNothing DEF ChannelSound, Init
  <2>5. QED
    BY <2>2, <2>3, <2>4 DEF Stream
<1>4. QED
  BY <1>1, <1>2, <1>3 DEF OInv

\* Every step of the writers, the readers and the run keeps the invariant.
LEMMA CollectionStep == OInv /\ [Next]_vars => OInv'
<1> SUFFICES ASSUME OInv, [Next]_vars PROVE OInv'
  OBVIOUS
<1>1. CASE \/ ChildExits \/ OtherReserves \/ OtherReleases \/ UNCHANGED vars
           \/ \E s \in Capture : DescendantCloses(s)
  BY <1>1, WorldKeeps
<1>2. ASSUME NEW s \in Capture, WriteByte(s) \/ ReaderStep(s) \/ ReaderErrs(s) PROVE OInv'
  BY <1>2, WriteKeeps, ReadsKeeps, StopsKeeps, ChecksKeeps, SendsKeeps, OverflowsKeeps,
     ReleasesKeeps, AnnouncesKeeps
  DEF ReaderStep
<1>3. CASE CollectorStep
  BY <1>3, TakeKeeps, TakeFailsKeeps, ReceiveKeeps, CollectorKeeps DEF CollectorStep
<1>4. QED
  BY <1>1, <1>2, <1>3 DEF Next

\* The inductive invariant holds in every reachable state.
LEMMA CollectionInvariant == Spec => []OInv
<1>1. QED
  BY CollectionInit, CollectionStep, PTL DEF Spec

-----------------------------------------------------------------------------
(* What the collection promises. *)

\* What is returned of a stream is a prefix of what was written to it, at most
\* max_capture_bytes long, and all of it unless it is marked as incomplete or
\* truncated (drain_pipe_to_channel, SubprocessOutputReaders::collect,
\* drain_queued_output).
THEOREM OutputIsTrue == Spec => []Inv
<1>1. OInv => Inv
  <2> SUFFICES ASSUME OInv PROVE Inv
    OBVIOUS
  <2>0. Types /\ CollectorSound /\ \A s \in Capture : Stream(s)
    BY DEF OInv
  <2>1. ASSUME NEW s \in Capture
        PROVE  /\ Len(out[s]) <= retained[s] /\ (chan[s] = <<>> => Len(out[s]) = retained[s])
               /\ retained[s] <= written[s] /\ written[s] <= Writes[s]
    <3>1. Cut(chan[s], Len(out[s]), retained[s]) /\ chan[s] \in Seq(Message) /\ Len(out[s]) \in Nat /\ retained[s] \in Nat
      BY <2>0, StreamParts DEF Stream, ChannelSound
    <3>2. QED
      BY <2>0, <3>1, CutEnds DEF Stream, ReaderSound
  <2>2. TypeOK
    <3>1. ASSUME NEW s \in Capture
          PROVE  /\ written[s] \in 0..Writes[s]
                 /\ {pipe[s], buf[s], out[s]} \subseteq Seq(Bytes(s))
      <4>1. written[s] \in 0..Writes[s]
        BY <2>0, <2>1, StreamParts
      <4>2. pipe[s] \in Seq(Bytes(s))
        <5>1. /\ pipe[s] \in Seq(Nat) /\ written[s] - Len(pipe[s]) \in Nat /\ Writes[s] \in Nat
              /\ From(pipe[s], written[s] - Len(pipe[s])) /\ (written[s] - Len(pipe[s])) + Len(pipe[s]) <= Writes[s]
          BY <2>0, <2>1, StreamParts DEF Stream, PipeSound
        <5>2. QED
          BY <5>1, PieceTyped DEF Bytes
      <4>3. out[s] \in Seq(Bytes(s))
        <5>1. out[s] \in Seq(Nat) /\ 0 \in Nat /\ Writes[s] \in Nat /\ From(out[s], 0) /\ 0 + Len(out[s]) <= Writes[s]
          BY <2>0, <2>1, StreamParts DEF Stream, ChannelSound
        <5>2. QED
          BY <5>1, PieceTyped DEF Bytes
      <4>4. buf[s] \in Seq(Bytes(s))
        BY <2>0 DEF Stream, ReaderSound
      <4>5. QED
        BY <4>1, <4>2, <4>3, <4>4
    <3>2. ASSUME NEW s \in Capture, NEW i \in DOMAIN chan[s]
          PROVE  chan[s][i].kind \in {"data", "finished", "failed"}
      <4>1. chan[s] \in Seq(Message)
        BY <2>0, StreamParts
      <4>2. chan[s][i] \in Message
        BY <4>1, LenProperties, ElementOfSeq
      <4>3. QED
        BY <4>2 DEF Message
    <3>3. QED
      BY <2>0, <3>1, <3>2 DEF Types, TypeOK
  <2>3. OutputIsPrefix
    <3>1. ASSUME NEW s \in Capture
          PROVE  /\ Len(out[s]) <= MaxBytes
                 /\ out[s] = [i \in 1..Len(out[s]) |-> i] /\ Len(out[s]) <= written[s]
      <4>1. Len(out[s]) <= MaxBytes /\ Len(out[s]) <= written[s]
        BY <2>0, <2>1, StreamParts
      <4>2. out[s] \in [1..Len(out[s]) -> Nat] /\ Len(out[s]) \in Nat
        BY <2>0, StreamParts, LenProperties
      <4>3. \A i \in 1..Len(out[s]) : out[s][i] = i
        <5>1. \A i \in 1..Len(out[s]) : out[s][i] = 0 + i
          BY <2>0 DEF Stream, ChannelSound, From
        <5>2. QED
          BY <4>2, <5>1
      <4>4. QED
        BY <4>1, <4>2, <4>3
    <3>2. QED
      BY <3>1 DEF OutputIsPrefix
  <2>4. CompleteIsAll
    <3>1. SUFFICES ASSUME collector = "done", ~incomplete, NEW s \in Capture, s \notin truncated
                   PROVE  Len(out[s]) = written[s]
      BY DEF CompleteIsAll
    <3>2. done = Capture /\ ferr = {} /\ stop = Capture /\ done \cap stop \cap overflow \subseteq truncated
      BY <2>0, <3>1 DEF CollectorSound
    <3>3. s \notin overflow /\ chan[s] = <<>> /\ AllRead(s)
      BY <2>0, <3>1, <3>2 DEF Stream, ChannelSound
    <3>4. QED
      BY <2>1, <3>3 DEF AllRead
  <2>5. QED
    BY <2>2, <2>3, <2>4 DEF Inv
<1>2. QED
  BY <1>1, CollectionInvariant, PTL

\* While its collector is there a reader leaves its pipe only at the end of
\* the stream: no writer gets a broken pipe (drain_pipe_to_channel).
THEOREM WritersAreDrained == Spec => []NoBrokenPipe
<1>1. OInv => NoBrokenPipe
  BY DEF OInv, Stream, ReaderSound, AllRead, NoBrokenPipe
<1>2. QED
  BY <1>1, CollectionInvariant, PTL

=============================================================================
