-------------------------- MODULE StdioCaptureProofs --------------------------
(***************************************************************************)
(* Proofs about StdioCapture, for any number of runs with any options, any *)
(* limits and any number of writers: stdout and stderr are the host's      *)
(* again after every path out of a run, and a capture is the run's own     *)
(* output.                                                                 *)
(***************************************************************************)
EXTENDS StdioCapture, SequenceTheorems, TLAPS

-----------------------------------------------------------------------------
(* The inductive invariant. *)

Leased == {"prompt", "flush", "open", "script", "restore", "collect"}
Live == Leased \cup {"idle", "lease"}
Early == {"idle", "lease", "prompt", "flush"}
Flushed == {"open", "script", "restore", "collect"}

\* seq is what whole holds after position a.
Piece(seq, whole, a) == \A i \in 1..Len(seq) : seq[i] = whole[a + i]

\* The host prints nothing but what it printed before a run, or during it.
HostPrinted == \A s \in Streams : hostbuf[s] \in {<<>>, <<"before">>, <<"during">>}

\* A lease is held from admission to the end of the scope, and a capturing
\* run holds it alone.
LeaseSound ==
  /\ \A r \in Runs : r \in lease <=> phase[r] \in Leased
  /\ \A r, q \in lease : Captures(r) => q = r

\* A redirected stream is captured by its run, which has not yet restored it
\* and still has a reader for it.
FdSound(s) ==
  fd[s] \in Runs =>
    /\ s \in opts[fd[s]].streams /\ phase[fd[s]] \in {"open", "script", "restore"}
    /\ rdr[<<fd[s], s>>] = "reading" \/ <<fd[s], s>> \in failed

\* Where a run's streams are, by its phase.
RunSound(r) ==
  \A s \in opts[r].streams :
    /\ phase[r] \in Early => rdr[<<r, s>>] = "none"
    /\ phase[r] = "open" /\ Open(r, s) => fd[s] = r
    /\ phase[r] \in {"script", "restore"} => fd[s] = r
    /\ phase[r] \in Flushed => hostbuf[s] # <<"before">>
    /\ phase[r] \in {"restore", "collect"} => outcome[r] \notin {"none", "refused", "dropped"}
    /\ r \notin terminal[s]

\* Blocks that were kept of a stream, collected or still in the channel.
Kept(p) == Len(out[p]) + Len(chan[p])

\* Until it overflows or fails a reader has lost nothing: what is collected,
\* what is in the channel and what is in the pipe make up what was sent.
FlowSound(p) ==
  /\ Piece(out[p], sent[p], 0) /\ Piece(chan[p], sent[p], Len(out[p]))
  /\ Kept(p) <= MaxBytes /\ Kept(p) <= Len(sent[p])
  /\ rdr[p] = "none" => /\ sent[p] = <<>> /\ pipe[p] = <<>> /\ total[p] = 0
                        /\ p \notin child \cup discarding \cup failed \cup overflow
  /\ rdr[p] = "reading" =>
       /\ p \notin failed /\ (p \in discarding <=> p \in overflow)
       /\ Len(pipe[p]) <= Len(sent[p]) /\ Piece(pipe[p], sent[p], Len(sent[p]) - Len(pipe[p]))
       /\ p \notin overflow => /\ total[p] = Kept(p)
                               /\ total[p] + Len(pipe[p]) = Len(sent[p])
  /\ rdr[p] \in {"closing", "gone"} /\ p \notin overflow \cup failed =>
       /\ Kept(p) = Len(sent[p])
       /\ fd[p[2]] # p[1] /\ p \notin child

\* What was collected of a stream once its collection is over.
ResultSound(p) ==
  /\ outcome[p[1]] = "ok" => Len(out[p]) = Len(sent[p])
  /\ outcome[p[1]] \in {"ok", "truncated"} =>
       /\ Piece(out[p], sent[p], 0) /\ Len(out[p]) <= Len(sent[p]) /\ Len(out[p]) <= MaxBytes

\* A captured stream of a run that has not returned.
PairSound(p) ==
  phase[p[1]] \in Live /\ p[2] \in opts[p[1]].streams =>
    /\ \A i \in 1..Len(sent[p]) : sent[p][i] # "before"
    /\ IF p \in stop THEN phase[p[1]] = "collect" /\ ResultSound(p) ELSE FlowSound(p)

SInv == /\ TypeOK /\ HostPrinted /\ LeaseSound
        /\ \A s \in Streams : FdSound(s)
        /\ \A r \in Runs : RunSound(r)
        /\ \A p \in Pairs : PairSound(p)

-----------------------------------------------------------------------------
(* Pieces of what was sent. *)

\* The empty sequence is a piece of anything.
LEMMA EmptyPiece ==
  /\ \A whole, a : Piece(<<>>, whole, a)
  /\ Len(<<>>) = 0
  /\ \A S : \A seq \in Seq(S) : Len(seq) \in Nat /\ (seq = <<>> <=> Len(seq) = 0)
<1>1. \A S : \A seq \in Seq(S) : Len(seq) \in Nat /\ (seq = <<>> <=> Len(seq) = 0)
  BY EmptySeq, LenProperties
<1>2. QED
  BY <1>1, EmptySeq DEF Piece

\* What is a piece stays one while more is sent.
LEMMA PieceStays ==
  ASSUME NEW whole \in Seq(Block), NEW more \in Seq(Block), NEW seq \in Seq(Block), NEW a \in Nat,
         Piece(seq, whole, a), a + Len(seq) <= Len(whole)
  PROVE  Piece(seq, whole \o more, a)
<1>1. /\ Len(whole) \in Nat /\ Len(more) \in Nat /\ Len(seq) \in Nat
      /\ \A i \in 1..Len(whole) + Len(more) :
           (whole \o more)[i] = IF i <= Len(whole) THEN whole[i] ELSE more[i - Len(whole)]
  BY ConcatProperties, LenProperties
<1>2. ASSUME NEW i \in 1..Len(seq) PROVE seq[i] = (whole \o more)[a + i]
  <2>1. a + i \in 1..Len(whole) /\ a + i \in 1..Len(whole) + Len(more)
    BY <1>1
  <2>2. QED
    BY <1>1, <2>1 DEF Piece
<1>3. QED
  BY <1>2 DEF Piece

\* What is sent is appended to what the pipe holds.
LEMMA PipeGrows ==
  ASSUME NEW whole \in Seq(Block), NEW more \in Seq(Block), NEW seq \in Seq(Block),
         Len(seq) <= Len(whole), Piece(seq, whole, Len(whole) - Len(seq))
  PROVE  /\ seq \o more \in Seq(Block) /\ whole \o more \in Seq(Block)
         /\ Len(seq \o more) = Len(seq) + Len(more) /\ Len(whole \o more) = Len(whole) + Len(more)
         /\ Len(seq \o more) <= Len(whole \o more)
         /\ Piece(seq \o more, whole \o more, Len(whole \o more) - Len(seq \o more))
<1>1. /\ Len(whole) \in Nat /\ Len(more) \in Nat /\ Len(seq) \in Nat
      /\ seq \o more \in Seq(Block) /\ whole \o more \in Seq(Block)
      /\ Len(seq \o more) = Len(seq) + Len(more) /\ Len(whole \o more) = Len(whole) + Len(more)
      /\ \A i \in 1..Len(whole) + Len(more) :
           (whole \o more)[i] = IF i <= Len(whole) THEN whole[i] ELSE more[i - Len(whole)]
      /\ \A i \in 1..Len(seq) + Len(more) :
           (seq \o more)[i] = IF i <= Len(seq) THEN seq[i] ELSE more[i - Len(seq)]
  BY ConcatProperties, LenProperties
<1>2. Len(whole \o more) - Len(seq \o more) = Len(whole) - Len(seq)
  BY <1>1
<1>3. ASSUME NEW i \in 1..Len(seq) + Len(more)
      PROVE (seq \o more)[i] = (whole \o more)[(Len(whole) - Len(seq)) + i]
  <2> DEFINE j == (Len(whole) - Len(seq)) + i
  <2>1. j \in 1..Len(whole) + Len(more)
    BY <1>1
  <2>2. CASE i <= Len(seq)
    <3>1. i \in 1..Len(seq) /\ j <= Len(whole)
      BY <1>1, <2>2
    <3>2. seq[i] = whole[j]
      BY <3>1 DEF Piece
    <3>3. QED
      BY <1>1, <2>1, <2>2, <3>1, <3>2
  <2>3. CASE ~(i <= Len(seq))
    <3>1. ~(j <= Len(whole)) /\ j - Len(whole) = i - Len(seq)
      BY <1>1, <2>3
    <3>2. QED
      BY <1>1, <2>1, <2>3, <3>1
  <2>4. QED
    BY <2>2, <2>3
<1>4. QED
  BY <1>1, <1>2, <1>3 DEF Piece

\* A reader takes n blocks from the pipe and keeps the first k.
LEMMA PieceRead ==
  ASSUME NEW whole \in Seq(Block), NEW seq \in Seq(Block), NEW n \in 0..Len(seq), NEW k \in 0..n,
         Len(seq) <= Len(whole), Piece(seq, whole, Len(whole) - Len(seq))
  PROVE  /\ SubSeq(seq, 1, k) \in Seq(Block) /\ Len(SubSeq(seq, 1, k)) = k
         /\ Piece(SubSeq(seq, 1, k), whole, Len(whole) - Len(seq))
         /\ SubSeq(seq, n + 1, Len(seq)) \in Seq(Block) /\ Len(SubSeq(seq, n + 1, Len(seq))) = Len(seq) - n
         /\ Piece(SubSeq(seq, n + 1, Len(seq)), whole, (Len(whole) - Len(seq)) + n)
<1>1. Len(seq) \in Nat /\ Len(whole) \in Nat /\ n \in Int /\ k \in Int /\ n + 1 \in Int /\ 1 \in Int
      /\ Len(seq) \in Int
  BY LenProperties
<1>2. \A i \in 1..Len(seq) : seq[i] \in Block
  BY ElementOfSeq
<1>3. /\ SubSeq(seq, 1, k) \in Seq(Block)
      /\ Len(SubSeq(seq, 1, k)) = IF 1 <= k THEN k - 1 + 1 ELSE 0
      /\ \A i \in 1..k - 1 + 1 : SubSeq(seq, 1, k)[i] = seq[1 + i - 1]
  <2>1. \A i \in 1..k : seq[i] \in Block
    BY <1>1, <1>2
  <2>2. QED
    BY <1>1, <2>1, SubSeqProperties
<1>4. /\ SubSeq(seq, n + 1, Len(seq)) \in Seq(Block)
      /\ Len(SubSeq(seq, n + 1, Len(seq))) = IF n + 1 <= Len(seq) THEN Len(seq) - (n + 1) + 1 ELSE 0
      /\ \A i \in 1..Len(seq) - (n + 1) + 1 : SubSeq(seq, n + 1, Len(seq))[i] = seq[(n + 1) + i - 1]
  <2> DEFINE m == n + 1
             l == Len(seq)
  <2>1. m \in Int /\ l \in Int /\ \A i \in m..l : seq[i] \in Block
    BY <1>1, <1>2
  <2> HIDE DEF m, l
  <2>2. /\ SubSeq(seq, m, l) \in Seq(Block)
        /\ Len(SubSeq(seq, m, l)) = IF m <= l THEN l - m + 1 ELSE 0
        /\ \A i \in 1..l - m + 1 : SubSeq(seq, m, l)[i] = seq[m + i - 1]
    BY <2>1, SubSeqProperties
  <2>3. QED
    BY <2>2 DEF m, l
<1>5. Len(SubSeq(seq, 1, k)) = k /\ Len(SubSeq(seq, n + 1, Len(seq))) = Len(seq) - n
  BY <1>1, <1>3, <1>4
<1> DEFINE a == Len(whole) - Len(seq)
<1>6. ASSUME NEW i \in 1..k PROVE SubSeq(seq, 1, k)[i] = whole[a + i]
  <2>1. i \in 1..k - 1 + 1 /\ 1 + i - 1 = i /\ i \in 1..Len(seq)
    BY <1>1
  <2>2. QED
    BY <1>3, <2>1 DEF Piece
<1>7. ASSUME NEW i \in 1..Len(seq) - n PROVE SubSeq(seq, n + 1, Len(seq))[i] = whole[(a + n) + i]
  <2>1. i \in 1..Len(seq) - (n + 1) + 1 /\ (n + 1) + i - 1 = n + i /\ n + i \in 1..Len(seq)
        /\ a + (n + i) = (a + n) + i
    BY <1>1
  <2>2. seq[n + i] = whole[a + (n + i)]
    BY <2>1 DEF Piece
  <2>3. QED
    BY <1>4, <2>1, <2>2
<1>8. QED
  BY <1>3, <1>4, <1>5, <1>6, <1>7 DEF Piece

\* Two pieces, one after the other.
LEMMA PiecesJoin ==
  ASSUME NEW whole, NEW seq \in Seq(Block), NEW next \in Seq(Block), NEW a \in Nat,
         Piece(seq, whole, a), Piece(next, whole, a + Len(seq))
  PROVE  /\ seq \o next \in Seq(Block) /\ Len(seq \o next) = Len(seq) + Len(next)
         /\ Piece(seq \o next, whole, a)
<1>1. /\ seq \o next \in Seq(Block) /\ Len(seq \o next) = Len(seq) + Len(next)
      /\ Len(seq) \in Nat /\ Len(next) \in Nat
      /\ \A i \in 1..Len(seq) + Len(next) :
           (seq \o next)[i] = IF i <= Len(seq) THEN seq[i] ELSE next[i - Len(seq)]
  BY ConcatProperties, LenProperties
<1>2. ASSUME NEW i \in 1..Len(seq) + Len(next) PROVE (seq \o next)[i] = whole[a + i]
  <2>1. CASE i <= Len(seq)
    BY <1>1, <2>1 DEF Piece
  <2>2. CASE ~(i <= Len(seq))
    <3>1. i - Len(seq) \in 1..Len(next) /\ (a + Len(seq)) + (i - Len(seq)) = a + i
      BY <1>1, <2>2
    <3>2. next[i - Len(seq)] = whole[a + i]
      BY <3>1 DEF Piece
    <3>3. QED
      BY <1>1, <2>2, <3>2
  <2>3. QED
    BY <2>1, <2>2
<1>3. QED
  BY <1>1, <1>2 DEF Piece

\* The collector takes the first block of the channel.
LEMMA PieceMoves ==
  ASSUME NEW whole, NEW o \in Seq(Block), NEW c \in Seq(Block), c # <<>>,
         Piece(o, whole, 0), Piece(c, whole, Len(o))
  PROVE  /\ Append(o, Head(c)) \in Seq(Block) /\ Len(Append(o, Head(c))) = Len(o) + 1
         /\ Tail(c) \in Seq(Block) /\ Len(Tail(c)) = Len(c) - 1
         /\ Piece(Append(o, Head(c)), whole, 0) /\ Piece(Tail(c), whole, Len(o) + 1)
<1>1. Len(o) \in Nat /\ Len(c) \in Nat \ {0} /\ Head(c) = c[1] /\ c[1] \in Block
  <2>1. Len(o) \in Nat /\ Len(c) \in Nat \ {0}
    BY EmptyPiece
  <2>2. QED
    BY <2>1, ElementOfSeq
<1>2. /\ Tail(c) \in Seq(Block) /\ Len(Tail(c)) = Len(c) - 1
      /\ \A i \in 1..Len(Tail(c)) : Tail(c)[i] = c[i + 1]
  BY HeadTailProperties
<1> DEFINE e == Head(c)
<1>3. e \in Block /\ e = whole[Len(o) + 1]
  BY <1>1 DEF Piece
<1> HIDE DEF e
<1>4. /\ Append(o, e) \in Seq(Block) /\ Len(Append(o, e)) = Len(o) + 1
      /\ \A i \in 1..Len(o) : Append(o, e)[i] = o[i]
      /\ Append(o, e)[Len(o) + 1] = e
  BY <1>3, AppendProperties
<1>5. ASSUME NEW i \in 1..Len(o) + 1 PROVE Append(o, e)[i] = whole[0 + i]
  <2>1. CASE i = Len(o) + 1
    BY <1>1, <1>3, <1>4, <2>1
  <2>2. CASE i # Len(o) + 1
    <3>1. i \in 1..Len(o)
      BY <1>1, <2>2
    <3>2. QED
      BY <1>4, <3>1 DEF Piece
  <2>3. QED
    BY <2>1, <2>2
<1>6. ASSUME NEW i \in 1..Len(Tail(c)) PROVE Tail(c)[i] = whole[(Len(o) + 1) + i]
  <2>1. i + 1 \in 1..Len(c) /\ Len(o) + (i + 1) = (Len(o) + 1) + i
    BY <1>1, <1>2
  <2>2. c[i + 1] = whole[Len(o) + (i + 1)]
    BY <2>1 DEF Piece
  <2>3. QED
    BY <1>2, <2>1, <2>2
<1>7. QED
  BY <1>2, <1>4, <1>5, <1>6 DEF Piece, e

\* A piece from the beginning is a prefix.
LEMMA PieceIsPrefix ==
  ASSUME NEW whole \in Seq(Block), NEW seq \in Seq(Block), Piece(seq, whole, 0), Len(seq) <= Len(whole)
  PROVE  /\ seq = SubSeq(whole, 1, Len(seq))
         /\ Len(seq) = Len(whole) => seq = whole
<1>1. Len(seq) \in Nat /\ Len(whole) \in Nat /\ Len(seq) \in Int /\ 1 \in Int
  BY LenProperties
<1> DEFINE l == Len(seq)
<1>2. \A i \in 1..l : whole[i] \in Block
  <2>1. \A i \in 1..l : i \in 1..Len(whole)
    BY <1>1
  <2>2. QED
    BY <2>1, ElementOfSeq
<1>3. \A i \in 1..l : seq[i] = whole[i]
  BY <1>1 DEF Piece
<1>4. l \in Nat /\ l \in Int
  BY <1>1
<1> HIDE DEF l
<1>5. /\ SubSeq(whole, 1, l) \in Seq(Block)
      /\ Len(SubSeq(whole, 1, l)) = IF 1 <= l THEN l - 1 + 1 ELSE 0
      /\ \A i \in 1..l - 1 + 1 : SubSeq(whole, 1, l)[i] = whole[1 + i - 1]
  BY <1>2, <1>4, SubSeqProperties
<1>6. Len(SubSeq(whole, 1, l)) = l
  BY <1>4, <1>5
<1>7. ASSUME NEW i \in 1..l PROVE seq[i] = SubSeq(whole, 1, l)[i]
  <2>1. i \in 1..l - 1 + 1 /\ 1 + i - 1 = i
    BY <1>4
  <2>2. QED
    BY <1>3, <1>5, <2>1
<1>8. seq = SubSeq(whole, 1, l)
  <2>1. Len(seq) = Len(SubSeq(whole, 1, l))
    BY <1>6 DEF l
  <2>2. \A i \in 1..Len(seq) : seq[i] = SubSeq(whole, 1, l)[i]
    BY <1>7 DEF l
  <2>3. QED
    BY <1>5, <2>1, <2>2, SeqEqual
<1>9. ASSUME Len(seq) = Len(whole) PROVE seq = whole
  <2>1. \A i \in 1..Len(seq) : seq[i] = whole[i]
    BY <1>3 DEF l
  <2>2. QED
    BY <1>9, <2>1, SeqEqual
<1>10. QED
  BY <1>8, <1>9 DEF l

-----------------------------------------------------------------------------
(* Types. *)

\* What a run's options may be.
LEMMA OptionsTyped ==
  ASSUME TypeOK, NEW r \in Runs
  PROVE  opts[r].streams \subseteq Streams /\ Host \notin Runs /\ r \notin {"before", "during"}
<1>1. opts \in [Runs -> [streams : SUBSET {1, 2}, prompt : BOOLEAN, async : BOOLEAN]]
  BY CaptureAssumption DEF TypeOK
<1>2. opts[r].streams \in SUBSET {1, 2}
  BY <1>1
<1>3. Host \notin Runs /\ r \notin {"before", "during"}
  BY CaptureAssumption
<1>4. QED
  BY <1>2, <1>3 DEF Streams

\* A pair is a run and a stream.
LEMMA PairParts ==
  /\ \A r \in Runs, s \in Streams : <<r, s>> \in Pairs
  /\ \A p \in Pairs : p[1] \in Runs /\ p[2] \in Streams /\ p = <<p[1], p[2]>>
BY DEF Pairs

\* What is kept of a pair is typed.
LEMMA PairTyped ==
  ASSUME TypeOK, NEW p \in Pairs
  PROVE  /\ pipe[p] \in Seq(Block) /\ chan[p] \in Seq(Block) /\ out[p] \in Seq(Block)
         /\ sent[p] \in Seq(Block) /\ total[p] \in Nat
         /\ Len(pipe[p]) \in Nat /\ Len(chan[p]) \in Nat /\ Len(out[p]) \in Nat /\ Len(sent[p]) \in Nat
<1>1. /\ pipe[p] \in Seq(Block) /\ chan[p] \in Seq(Block) /\ out[p] \in Seq(Block)
      /\ sent[p] \in Seq(Block) /\ total[p] \in Nat
  BY DEF TypeOK
<1>2. QED
  BY <1>1, LenProperties

\* The blocks of a sequence of blocks are blocks.
LEMMA BlocksTyped ==
  /\ \A r \in Runs : r \in Block /\ <<r>> \in Seq(Block)
  /\ <<>> \in Seq(Block) /\ <<"before">> \in Seq(Block) /\ <<"during">> \in Seq(Block)
<1>1. \A b \in Block : <<b>> \in Seq(Block)
  OBVIOUS
<1>2. <<>> \in Seq(Block)
  BY EmptySeq
<1>3. "before" \in Block /\ "during" \in Block /\ Runs \subseteq Block
  BY DEF Block
<1>4. QED
  BY <1>1, <1>2, <1>3

\* The end of a scope keeps the types of what it touches.
LEMMA ExitTyped ==
  ASSUME TypeOK, NEW r \in Runs, NEW how, Exit(r, how),
         how \in {"none", "refused", "ok", "truncated", "script_error", "capture_error", "dropped"}
  PROVE  /\ lease' \subseteq Runs /\ async' \in Runs \cup {Host}
         /\ outcome' \in [Runs -> {"none", "refused", "ok", "truncated", "script_error", "capture_error",
                                   "dropped"}]
         /\ out' \in [Pairs -> Seq(Block)] /\ sent' \in [Pairs -> Seq(Block)]
<1>1. lease' \subseteq Runs /\ async' \in Runs \cup {Host}
  BY DEF Exit, TypeOK
<1>2. outcome' \in [Runs -> {"none", "refused", "ok", "truncated", "script_error", "capture_error",
                             "dropped"}]
  BY DEF Exit, TypeOK
<1>3. out' \in [Pairs -> Seq(Block)] /\ sent' \in [Pairs -> Seq(Block)]
  BY BlocksTyped DEF Exit, TypeOK
<1>4. QED
  BY <1>1, <1>2, <1>3

\* So does the drop of redirected streams.
LEMMA DropTyped ==
  ASSUME TypeOK, NEW r \in Runs, DropStreams(r)
  PROVE  /\ fd' \in [Streams -> Runs \cup {Host}] /\ hostbuf' \in [Streams -> Seq(Block)]
         /\ terminal' = terminal /\ stop' \subseteq Pairs
         /\ chan' \in [Pairs -> Seq(Block)] /\ pipe' \in [Pairs -> Seq(Block)]
<1> DEFINE S == {s \in opts[r].streams : Open(r, s) /\ fd[s] = r}
<1>1. /\ \E lost \in SUBSET S : RestoreStreams(S, lost)
      /\ stop' = stop \cup Of(r, S)
      /\ chan' = [p \in Pairs |-> IF p \in Of(r, S) THEN << >> ELSE chan[p]]
      /\ pipe' = [p \in Pairs |-> IF p \in Of(r, S) THEN << >> ELSE pipe[p]]
  BY DEF DropStreams
<1> HIDE DEF S
<1>2. fd' \in [Streams -> Runs \cup {Host}] /\ hostbuf' \in [Streams -> Seq(Block)] /\ terminal' = terminal
  BY <1>1, BlocksTyped DEF RestoreStreams, TypeOK
<1>3. stop' \subseteq Pairs
  BY <1>1 DEF Of, TypeOK
<1>4. chan' \in [Pairs -> Seq(Block)] /\ pipe' \in [Pairs -> Seq(Block)]
  BY <1>1, BlocksTyped DEF TypeOK
<1>5. QED
  BY <1>2, <1>3, <1>4

\* A write goes to the terminal or into a pipe.
LEMMA LandsTyped ==
  ASSUME TypeOK, NEW r \in Runs, NEW s \in Streams, Lands(r, s)
  PROVE  terminal' \in [Streams -> SUBSET Runs] /\ pipe' \in [Pairs -> Seq(Block)]
<1>1. CASE fd[s] = Host
  <2>1. terminal' = [terminal EXCEPT ![s] = @ \cup {r}] /\ pipe' = pipe
    BY <1>1 DEF Lands
  <2>2. QED
    BY <2>1 DEF TypeOK
<1>2. CASE fd[s] # Host
  <2> DEFINE p == <<fd[s], s>>
  <2>1. pipe' = [pipe EXCEPT ![p] = Append(@, r)] \/ pipe' = pipe
    BY <1>2 DEF Lands
  <2>2. terminal' = terminal
    BY <1>2 DEF Lands
  <2>3. fd[s] \in Runs
    BY <1>2 DEF TypeOK
  <2>4. p \in Pairs
    BY <2>3, PairParts
  <2> HIDE DEF p
  <2>5. Append(pipe[p], r) \in Seq(Block)
    BY <2>4, PairTyped, BlocksTyped, AppendProperties
  <2>6. QED
    BY <2>1, <2>2, <2>5 DEF TypeOK
<1>3. QED
  BY <1>1, <1>2

\* Steps that admit a run, refuse it, or set up its streams.
LEMMA OpensTyped == ASSUME TypeOK, NEW r \in Runs, Opens(r) PROVE TypeOK'
<1>1. CASE EnterGuard(r) \/ TakeLease(r) \/ CheckPrompt(r)
  <2>1. UNCHANGED <<opts, stdio, streamVars, outcome>>
    BY <1>1 DEF EnterGuard, TakeLease, CheckPrompt
  <2>2. lease' \subseteq Runs /\ async' \in Runs \cup {Host}
    BY <1>1 DEF EnterGuard, TakeLease, CheckPrompt, TypeOK
  <2>3. phase' \in [Runs -> Phases]
    BY <1>1 DEF EnterGuard, TakeLease, CheckPrompt, TypeOK, Phases
  <2>4. QED
    BY <2>1, <2>2, <2>3 DEF TypeOK, stdio, streamVars, reader, count
<1>2. CASE Refuse(r)
  BY <1>2 DEF Refuse, TypeOK, Phases, stdio, streamVars, reader, count
<1>3. CASE Flush(r)
  <2>1. hostbuf' \in [Streams -> Seq(Block)]
    BY <1>3, BlocksTyped DEF Flush, FlushHost, TypeOK
  <2>2. QED
    BY <1>3, <2>1 DEF Flush, TypeOK, Phases, streamVars, reader, count
<1>8. ASSUME NEW s \in Streams, FlushFails(r, s) PROVE TypeOK'
  <2>1. /\ hostbuf' \in [Streams -> Seq(Block)]
        /\ Exit(r, "capture_error") /\ phase' = [phase EXCEPT ![r] = "done"]
        /\ UNCHANGED <<opts, fd, terminal, pipe, child, reader, chan, overflow, stop>>
    BY <1>8, BlocksTyped DEF FlushFails, FlushHost, TypeOK
  <2>2. QED
    BY <2>1, ExitTyped DEF TypeOK, Phases, reader, count
<1>4. CASE StartScript(r)
  BY <1>4 DEF StartScript, TypeOK, Phases, stdio, streamVars, reader, count
<1>5. ASSUME NEW s \in Streams, OpenStream(r, s) PROVE TypeOK'
  BY <1>5, PairParts DEF OpenStream, TypeOK, reader, count
<1>6. ASSUME NEW s \in Streams, OpenFails(r, s) PROVE TypeOK'
  <2>1. DropStreams(r) /\ Exit(r, "capture_error")
    BY <1>6 DEF OpenFails
  <2>2. /\ phase' = [phase EXCEPT ![r] = "done"] /\ opts' = opts /\ child' = child /\ rdr' = rdr
        /\ total' = total /\ discarding' = discarding /\ failed' = failed /\ overflow' = overflow
    BY <1>6 DEF OpenFails, reader, count
  <2>3. QED
    BY <2>1, <2>2, DropTyped, ExitTyped DEF TypeOK, Phases
<1>7. QED
  BY <1>1, <1>2, <1>3, <1>4, <1>5, <1>6, <1>8 DEF Opens

\* Steps of scripts, descendants and the host.
LEMMA WorldTyped == ASSUME TypeOK, NEW r \in Runs, NEW s \in Streams PROVE
  /\ ScriptWrites(r, s) => TypeOK'
  /\ HostPrints(r, s) => TypeOK'
  /\ SpawnChild(r, s) => TypeOK'
  /\ ChildWrites(r, s) => TypeOK'
  /\ ChildExits(r, s) => TypeOK'
<1>0. <<r, s>> \in Pairs /\ <<r>> \in Seq(Block) /\ r \in Block
  BY PairParts, BlocksTyped
<1> DEFINE p == <<r, s>>
<1>1. Append(sent[p], r) \in Seq(Block) /\ Append(pipe[p], r) \in Seq(Block)
  BY <1>0, PairTyped, AppendProperties
<1>2. ASSUME ScriptWrites(r, s) PROVE TypeOK'
  <2>1. Lands(r, s) /\ sent' = [sent EXCEPT ![p] = Append(@, r)]
    BY <1>2 DEF ScriptWrites
  <2>2. terminal' \in [Streams -> SUBSET Runs] /\ pipe' \in [Pairs -> Seq(Block)]
    BY <1>0, <2>1, LandsTyped
  <2>3. sent' \in [Pairs -> Seq(Block)]
    BY <1>0, <1>1, <2>1 DEF TypeOK
  <2>4. QED
    BY <1>2, <2>2, <2>3 DEF ScriptWrites, TypeOK, reader, count
<1>3. ASSUME HostPrints(r, s) PROVE TypeOK'
  BY <1>3, BlocksTyped DEF HostPrints, TypeOK, streamVars, reader, count
<1>4. ASSUME SpawnChild(r, s) PROVE TypeOK'
  <2>1. /\ child' = child \cup {p}
        /\ UNCHANGED <<opts, stdio, lease, async, phase, pipe, reader, chan, overflow, stop, out, outcome>>
    BY <1>4 DEF SpawnChild
  <2>2. QED
    BY <2>1, <1>0 DEF TypeOK, stdio, reader, count
<1>5. ASSUME ChildWrites(r, s) PROVE TypeOK'
  <2>1. sent' = [sent EXCEPT ![p] = Append(@, r)] /\ pipe' = [pipe EXCEPT ![p] = Append(@, r)]
    BY <1>5 DEF ChildWrites
  <2>2. sent' \in [Pairs -> Seq(Block)] /\ pipe' \in [Pairs -> Seq(Block)]
    BY <1>0, <1>1, <2>1 DEF TypeOK
  <2>3. QED
    BY <1>5, <2>2 DEF ChildWrites, TypeOK, reader, count
<1>6. ASSUME ChildExits(r, s) PROVE TypeOK'
  BY <1>6 DEF ChildExits, TypeOK, stdio, reader, count
<1>7. QED
  BY <1>2, <1>3, <1>4, <1>5, <1>6

\* What a reader takes out of its pipe, and what it keeps.
LEMMA ReadSplits ==
  ASSUME TypeOK, NEW p \in Pairs, NEW n \in 1..Len(pipe[p]), total[p] <= MaxBytes
  PROVE  /\ Keep(total[p], n) \in 0..n /\ total[p] + Keep(total[p], n) <= MaxBytes
         /\ total[p] + n <= MaxBytes => Keep(total[p], n) = n
<1>1. total[p] \in Nat /\ MaxBytes \in Nat /\ n \in Nat
  BY PairTyped, CaptureAssumption
<1>2. QED
  BY <1>1 DEF Keep

\* Any part of a sequence of blocks is one.
LEMMA PartTyped ==
  ASSUME NEW seq \in Seq(Block), NEW m \in Nat \ {0}, NEW n \in Int, n <= Len(seq)
  PROVE  SubSeq(seq, m, n) \in Seq(Block)
<1>1. Len(seq) \in Nat
  BY LenProperties
<1>2. \A i \in m..n : i \in 1..Len(seq)
  BY <1>1
<1>3. \A i \in m..n : seq[i] \in Block
  BY <1>2, ElementOfSeq
<1>4. m \in Int
  OBVIOUS
<1>5. QED
  BY <1>3, <1>4, SubSeqProperties

\* Steps of a reader.
LEMMA ReaderTyped == ASSUME TypeOK, NEW r \in Runs, NEW s \in Streams PROVE
  /\ ReaderReads(r, s) => TypeOK'
  /\ ReaderEof(r, s) \/ ReaderStops(r, s) \/ ReaderFails(r, s) => TypeOK'
  /\ ReaderGone(r, s) => TypeOK'
<1> DEFINE p == <<r, s>>
<1>0. p \in Pairs
  BY PairParts
<1>1. ASSUME ReaderReads(r, s) PROVE TypeOK'
  <2>1. PICK n \in 1..Len(pipe[p]) :
          /\ pipe' = [pipe EXCEPT ![p] = SubSeq(@, n + 1, Len(@))]
          /\ \/ UNCHANGED <<count, chan, overflow>>
             \/ /\ total' = [total EXCEPT ![p] = @ + n]
                /\ chan' = [chan EXCEPT ![p] = @ \o SubSeq(pipe[p], 1, Keep(total[p], n))]
                /\ discarding' = discarding \cup {p} \/ discarding' = discarding
                /\ overflow' = overflow \cup {p} \/ overflow' = overflow
    BY <1>1 DEF ReaderReads
  <2> HIDE DEF p
  <2>2. Len(pipe[p]) \in Nat /\ pipe[p] \in Seq(Block) /\ chan[p] \in Seq(Block) /\ total[p] \in Nat
    BY <1>0, PairTyped
  <2>3. Keep(total[p], n) \in Int /\ Keep(total[p], n) <= Len(pipe[p])
    BY <2>2, CaptureAssumption DEF Keep
  <2>4. SubSeq(pipe[p], n + 1, Len(pipe[p])) \in Seq(Block)
    <3>1. n + 1 \in Nat \ {0} /\ Len(pipe[p]) \in Int /\ Len(pipe[p]) <= Len(pipe[p])
      BY <2>2
    <3>2. QED
      BY <2>2, <3>1, PartTyped
  <2>5. SubSeq(pipe[p], 1, Keep(total[p], n)) \in Seq(Block)
    BY <2>2, <2>3, PartTyped
  <2>6. chan[p] \o SubSeq(pipe[p], 1, Keep(total[p], n)) \in Seq(Block)
    BY <2>2, <2>5, ConcatProperties
  <2>7. pipe' \in [Pairs -> Seq(Block)]
    BY <1>0, <2>1, <2>4 DEF TypeOK
  <2>8. /\ chan' \in [Pairs -> Seq(Block)] /\ total' \in [Pairs -> Nat]
        /\ discarding' \subseteq Pairs /\ overflow' \subseteq Pairs
    <3>1. CASE UNCHANGED <<count, chan, overflow>>
      BY <3>1 DEF TypeOK, count
    <3>2. CASE /\ total' = [total EXCEPT ![p] = @ + n]
               /\ chan' = [chan EXCEPT ![p] = @ \o SubSeq(pipe[p], 1, Keep(total[p], n))]
               /\ discarding' = discarding \cup {p} \/ discarding' = discarding
               /\ overflow' = overflow \cup {p} \/ overflow' = overflow
      <4>1. total[p] + n \in Nat
        BY <2>2
      <4>2. QED
        BY <1>0, <2>6, <3>2, <4>1 DEF TypeOK
    <3>3. QED
      BY <2>1, <3>1, <3>2
  <2>9. /\ UNCHANGED <<opts, stdio, lease, async, phase, child, rdr, failed, stop, out, outcome>>
    BY <1>1 DEF ReaderReads
  <2>10. QED
    BY <2>7, <2>8, <2>9 DEF TypeOK, stdio
<1>2. ASSUME ReaderEof(r, s) \/ ReaderStops(r, s) \/ ReaderFails(r, s) PROVE TypeOK'
  <2>1. ReaderBreaks(r, s) /\ (failed' = failed \/ failed' = failed \cup {p})
    BY <1>2 DEF ReaderEof, ReaderStops, ReaderFails
  <2>2. QED
    BY <1>0, <2>1, BlocksTyped DEF ReaderBreaks, TypeOK, stdio
<1>3. ASSUME ReaderGone(r, s) PROVE TypeOK'
  BY <1>3, <1>0 DEF ReaderGone, TypeOK, stdio, count
<1>4. QED
  BY <1>1, <1>2, <1>3

\* Steps at the end of a run.
LEMMA EndsTyped == ASSUME TypeOK, NEW r \in Runs PROVE
  /\ ScriptEnds(r) => TypeOK'
  /\ Collector(r) => TypeOK'
  /\ DropFuture(r) => TypeOK'
  /\ DropCollecting(r) => TypeOK'
<1>1. ASSUME ScriptEnds(r) PROVE TypeOK'
  BY <1>1 DEF ScriptEnds, TypeOK, Phases, stdio, streamVars, reader, count
<1>2. ASSUME Restore(r) PROVE TypeOK'
  <2> DEFINE S == opts[r].streams
  <2>1. fd' \in [Streams -> Runs \cup {Host}] /\ hostbuf' \in [Streams -> Seq(Block)] /\ terminal' = terminal
    <3>1. \E lost : RestoreStreams(S, lost)
      BY <1>2 DEF Restore
    <3> HIDE DEF S
    <3>2. QED
      BY <3>1, BlocksTyped DEF RestoreStreams, TypeOK
  <2>2. \A p \in Pairs : sent[p] \o hostbuf[p[2]] \in Seq(Block) /\ pipe[p] \o hostbuf[p[2]] \in Seq(Block)
    <3>1. \A p \in Pairs : hostbuf[p[2]] \in Seq(Block)
      BY PairParts DEF TypeOK
    <3>2. QED
      BY <3>1, PairTyped, ConcatProperties
  <2>3. sent' \in [Pairs -> Seq(Block)] /\ pipe' \in [Pairs -> Seq(Block)]
    BY <1>2, <2>2 DEF Restore, TypeOK
  <2>4. phase' = [phase EXCEPT ![r] = "collect"]
        /\ UNCHANGED <<opts, lease, async, child, reader, chan, overflow, stop, out>>
    BY <1>2 DEF Restore
  <2>6. outcome' = outcome \/ outcome' = [outcome EXCEPT ![r] = "capture_error"]
    BY <1>2 DEF Restore, TypeOK
  <2> HIDE DEF S
  <2>5. QED
    BY <2>1, <2>3, <2>4, <2>6 DEF TypeOK, Phases, reader, count
<1>3. ASSUME Finish(r) PROVE TypeOK'
  <2>1. Exit(r, outcome[r]) /\ phase' = [phase EXCEPT ![r] = "done"]
        /\ UNCHANGED <<opts, fd, hostbuf, terminal, pipe, child, reader, chan, overflow, stop>>
    BY <1>3 DEF Finish
  <2>2. outcome[r] \in {"none", "refused", "ok", "truncated", "script_error", "capture_error", "dropped"}
    BY DEF TypeOK
  <2>3. QED
    BY <2>1, <2>2, ExitTyped DEF TypeOK, Phases, reader, count
<1>4. ASSUME NEW s \in Streams, CollectBlock(r, s) PROVE TypeOK'
  <2> DEFINE p == <<r, s>>
  <2>0. p \in Pairs /\ chan[p] # <<>>
    BY <1>4, PairParts DEF CollectBlock
  <2>1. Append(out[p], Head(chan[p])) \in Seq(Block) /\ Tail(chan[p]) \in Seq(Block)
    BY <2>0, PairTyped, HeadTailProperties, AppendProperties
  <2>2. QED
    BY <1>4, <2>0, <2>1 DEF CollectBlock, TypeOK, stdio, reader, count
<1>5. ASSUME NEW s \in Streams, NEW how \in {"ok", "truncated", "capture_error"}, Collects(r, s, how)
      PROVE TypeOK'
  <2>0. <<r, s>> \in Pairs
    BY PairParts
  <2>1. QED
    BY <1>5, <2>0, BlocksTyped DEF Collects, TypeOK, stdio, reader, count
<1>6. ASSUME NEW s \in Streams, CollectEnds(r, s) \/ CollectTimesOut(r, s) PROVE TypeOK'
  <2>1. \E how \in {"ok", "truncated", "capture_error"} : Collects(r, s, how)
    BY <1>6 DEF CollectEnds, CollectTimesOut
  <2>2. QED
    BY <1>5, <2>1
<1>7. ASSUME DropFuture(r) PROVE TypeOK'
  <2>1. DropStreams(r) /\ Exit(r, "dropped") /\ phase' = [phase EXCEPT ![r] = "done"]
        /\ UNCHANGED <<opts, child, reader, overflow>>
    BY <1>7 DEF DropFuture
  <2>2. QED
    BY <2>1, DropTyped, ExitTyped DEF TypeOK, Phases, reader, count
<1>8. ASSUME DropCollecting(r) PROVE TypeOK'
  <2>1. Exit(r, "dropped") /\ phase' = [phase EXCEPT ![r] = "abandoned"]
        /\ UNCHANGED <<opts, fd, hostbuf, terminal, pipe, child, reader, chan, overflow, stop>>
    BY <1>8 DEF DropCollecting
  <2>2. QED
    BY <2>1, ExitTyped DEF TypeOK, Phases, reader, count
<1>9. QED
  BY <1>1, <1>2, <1>3, <1>4, <1>6, <1>7, <1>8 DEF Collector

-----------------------------------------------------------------------------
(* The descriptors, the host's buffers and the lease. *)

StdSound == /\ HostPrinted /\ LeaseSound
            /\ \A s \in Streams : FdSound(s)
            /\ \A r \in Runs : RunSound(r)

\* A step that touches none of it.
LEMMA StdKept ==
  ASSUME StdSound, opts' = opts, fd' = fd, hostbuf' = hostbuf, terminal' = terminal, lease' = lease,
         phase' = phase, rdr' = rdr, failed' = failed, outcome' = outcome
  PROVE  StdSound'
BY DEF StdSound, HostPrinted, LeaseSound, FdSound, RunSound, Captures, Open

\* A run that captures and holds the lease holds it alone.
LEMMA Alone ==
  ASSUME TypeOK, StdSound, NEW r \in Runs, phase[r] \in Leased, NEW s \in opts[r].streams,
         NEW q \in Runs, phase[q] \in Leased
  PROVE  q = r
BY DEF StdSound, LeaseSound, Captures

\* The end of a scope gives the lease back.
LEMMA LeaseGivenBack ==
  ASSUME TypeOK, LeaseSound, NEW r \in Runs, NEW how, Exit(r, how), opts' = opts,
         NEW end \in {"done", "abandoned"}, phase' = [phase EXCEPT ![r] = end]
  PROVE  LeaseSound'
<1>1. lease' = lease \ {r} /\ phase \in [Runs -> Phases]
  BY DEF Exit, TypeOK
<1>2. \A q \in Runs : q \in lease' <=> phase'[q] \in Leased
  BY <1>1 DEF LeaseSound, Leased
<1>3. \A q, p \in lease' : Captures(q)' => p = q
  BY <1>1 DEF LeaseSound, Captures
<1>4. QED
  BY <1>2, <1>3 DEF LeaseSound

\* Admission, and the flush before anything is redirected.
LEMMA AdmitStd == ASSUME TypeOK, StdSound, NEW r \in Runs PROVE
  /\ EnterGuard(r) \/ CheckPrompt(r) => StdSound'
  /\ TakeLease(r) => StdSound'
  /\ Refuse(r) => StdSound'
  /\ Flush(r) => StdSound'
  /\ StartScript(r) => StdSound'
<1>0. phase \in [Runs -> Phases]
      /\ outcome \in [Runs -> {"none", "refused", "ok", "truncated", "script_error", "capture_error",
                               "dropped"}]
      /\ lease \subseteq Runs
  BY DEF TypeOK
<1>5. ASSUME EnterGuard(r) \/ CheckPrompt(r) PROVE StdSound'
  <2>1. /\ \/ phase[r] = "idle" /\ phase' = [phase EXCEPT ![r] = "lease"]
           \/ phase[r] = "prompt" /\ phase' = [phase EXCEPT ![r] = "flush"]
        /\ lease' = lease /\ outcome' = outcome
        /\ opts' = opts /\ fd' = fd /\ hostbuf' = hostbuf /\ terminal' = terminal
        /\ rdr' = rdr /\ failed' = failed
    BY <1>5 DEF EnterGuard, CheckPrompt, stdio, streamVars, reader
  <2>2. LeaseSound'
    BY <1>0, <2>1 DEF StdSound, LeaseSound, Leased, Captures
  <2>3. \A s \in Streams : FdSound(s)'
    BY <1>0, <2>1 DEF StdSound, FdSound
  <2>4. ASSUME NEW q \in Runs PROVE RunSound(q)'
    <3>1. CASE q = r
      <4>1. /\ phase[q] \in Early
            /\ phase'[q] \in {"lease", "flush"}
        BY <1>0, <2>1, <3>1 DEF Early
      <4>2. QED
        BY <2>1, <4>1 DEF StdSound, RunSound, Flushed, Early
    <3>2. CASE q # r
      <4>1. phase'[q] = phase[q]
        BY <1>0, <2>1, <3>2
      <4>2. QED
        BY <2>1, <4>1 DEF StdSound, RunSound, Open
    <3>3. QED
      BY <3>1, <3>2
  <2>5. HostPrinted'
    BY <2>1 DEF StdSound, HostPrinted
  <2>6. QED
    BY <2>2, <2>3, <2>4, <2>5 DEF StdSound
<1>1. ASSUME TakeLease(r) PROVE StdSound'
  <2>1. /\ phase[r] = "lease" /\ LeaseFree(r) /\ lease' = lease \cup {r}
        /\ phase' = [phase EXCEPT ![r] = "prompt"] /\ outcome' = outcome
        /\ opts' = opts /\ fd' = fd /\ hostbuf' = hostbuf /\ terminal' = terminal
        /\ rdr' = rdr /\ failed' = failed
    BY <1>1 DEF TakeLease, stdio, streamVars, reader
  <2>2. LeaseSound'
    <3>1. \A q \in Runs : q \in lease' <=> phase'[q] \in Leased
      BY <1>0, <2>1 DEF StdSound, LeaseSound, Leased
    <3>2. \A q, p \in lease' : Captures(q)' => p = q
      BY <2>1 DEF StdSound, LeaseSound, Captures, LeaseFree
    <3>3. QED
      BY <3>1, <3>2 DEF LeaseSound
  <2>3. \A s \in Streams : FdSound(s)'
    BY <1>0, <2>1 DEF StdSound, FdSound
  <2>4. \A q \in Runs : RunSound(q)'
    BY <1>0, <2>1 DEF StdSound, RunSound, Open, Flushed, Early
  <2>5. HostPrinted'
    BY <2>1 DEF StdSound, HostPrinted
  <2>6. QED
    BY <2>2, <2>3, <2>4, <2>5 DEF StdSound
<1>2. ASSUME Refuse(r) PROVE StdSound'
  <2>1. /\ phase[r] \in {"idle", "lease", "prompt"} /\ lease' = lease \ {r}
        /\ phase' = [phase EXCEPT ![r] = "done"] /\ outcome' = [outcome EXCEPT ![r] = "refused"]
        /\ opts' = opts /\ fd' = fd /\ hostbuf' = hostbuf /\ terminal' = terminal
        /\ rdr' = rdr /\ failed' = failed
    BY <1>2 DEF Refuse, stdio, streamVars, reader
  <2>2. LeaseSound'
    BY <1>0, <2>1 DEF StdSound, LeaseSound, Leased, Captures
  <2>3. \A s \in Streams : FdSound(s)'
    BY <1>0, <2>1 DEF StdSound, FdSound
  <2>4. \A q \in Runs : RunSound(q)'
    BY <1>0, <2>1 DEF StdSound, RunSound, Open, Flushed, Early
  <2>5. HostPrinted'
    BY <2>1 DEF StdSound, HostPrinted
  <2>6. QED
    BY <2>2, <2>3, <2>4, <2>5 DEF StdSound
<1>3. ASSUME Flush(r) PROVE StdSound'
  <2>1. /\ phase[r] = "flush" /\ lease' = lease /\ FlushHost(opts[r].streams)
        /\ phase' = [phase EXCEPT ![r] = "open"] /\ outcome' = outcome
        /\ opts' = opts /\ fd' = fd /\ terminal' = terminal /\ rdr' = rdr /\ failed' = failed
    BY <1>3 DEF Flush, stdio, streamVars, reader
  <2>2. LeaseSound'
    BY <1>0, <2>1 DEF StdSound, LeaseSound, Leased, Captures
  <2>3. \A s \in Streams : FdSound(s)'
    BY <1>0, <2>1 DEF StdSound, FdSound
  <2>4. \A s \in Streams : hostbuf'[s] = <<>> \/ (hostbuf'[s] = hostbuf[s] /\ s \notin opts[r].streams)
    BY <2>1 DEF FlushHost
  <2>5. HostPrinted'
    BY <2>4 DEF StdSound, HostPrinted
  <2>6. ASSUME NEW q \in Runs PROVE RunSound(q)'
    <3>1. opts[q].streams \subseteq Streams
      BY OptionsTyped
    <3>2. <<>> # <<"before">>
      <4>1. Len(<<"before">>) = 1 /\ Len(<<>>) = 0
        BY EmptyPiece
      <4>2. QED
        BY <4>1
    <3>3. QED
      BY <1>0, <2>1, <2>4, <3>1, <3>2 DEF StdSound, RunSound, Open, Flushed, Early
  <2>7. QED
    BY <2>2, <2>3, <2>5, <2>6 DEF StdSound
<1>4. ASSUME StartScript(r) PROVE StdSound'
  <2>1. /\ phase[r] = "open" /\ \A s \in opts[r].streams : Open(r, s)
        /\ phase' = [phase EXCEPT ![r] = "script"] /\ lease' = lease /\ outcome' = outcome
        /\ opts' = opts /\ fd' = fd /\ hostbuf' = hostbuf /\ terminal' = terminal
        /\ rdr' = rdr /\ failed' = failed
    BY <1>4 DEF StartScript, stdio, streamVars, reader
  <2>2. LeaseSound'
    BY <1>0, <2>1 DEF StdSound, LeaseSound, Leased, Captures
  <2>3. \A s \in Streams : FdSound(s)'
    BY <1>0, <2>1 DEF StdSound, FdSound
  <2>4. \A q \in Runs : RunSound(q)'
    BY <1>0, <2>1 DEF StdSound, RunSound, Open, Flushed, Early
  <2>5. HostPrinted'
    BY <2>1 DEF StdSound, HostPrinted
  <2>6. QED
    BY <2>2, <2>3, <2>4, <2>5 DEF StdSound
<1>6. QED
  BY <1>1, <1>2, <1>3, <1>4, <1>5

\* A flush that fails ends the run, before anything is redirected.
LEMMA FlushFailsStd ==
  ASSUME TypeOK, StdSound, NEW r \in Runs, NEW s \in Streams, FlushFails(r, s)
  PROVE  StdSound'
<1>0. /\ phase \in [Runs -> Phases] /\ phase[r] = "flush" /\ Exit(r, "capture_error")
      /\ phase' = [phase EXCEPT ![r] = "done"]
      /\ opts' = opts /\ fd' = fd /\ terminal' = terminal /\ rdr' = rdr /\ failed' = failed
  BY DEF FlushFails, TypeOK, reader
<1>1. \A t \in Streams : hostbuf'[t] = <<>> \/ hostbuf'[t] = hostbuf[t]
  BY DEF FlushFails, FlushHost
<1>2. LeaseSound'
  BY <1>0, LeaseGivenBack DEF StdSound
<1>3. \A t \in Streams : FdSound(t)'
  BY <1>0 DEF StdSound, FdSound
<1>4. HostPrinted'
  BY <1>1 DEF StdSound, HostPrinted
<1>5. \A q \in Runs : q # r => outcome'[q] = outcome[q]
  <2>1. outcome' = [outcome EXCEPT ![r] = "capture_error"]
    BY <1>0 DEF Exit
  <2>2. DOMAIN outcome = Runs
    BY DEF TypeOK
  <2>3. QED
    BY <2>1, <2>2
<1>6. <<>> # <<"before">>
  <2>1. Len(<<"before">>) = 1 /\ Len(<<>>) = 0
    BY EmptyPiece
  <2>2. QED
    BY <2>1
<1>7. ASSUME NEW q \in Runs PROVE RunSound(q)'
  <2>1. opts[q].streams \subseteq Streams
    BY OptionsTyped
  <2>2. CASE q = r
    BY <1>0, <2>2 DEF StdSound, RunSound, Flushed, Early
  <2>3. CASE q # r
    <3>1. phase'[q] = phase[q] /\ outcome'[q] = outcome[q]
      BY <1>0, <1>5, <2>3
    <3>2. QED
      BY <1>0, <1>1, <1>6, <2>1, <3>1 DEF StdSound, RunSound, Open
  <2>4. QED
    BY <2>2, <2>3
<1>8. QED
  BY <1>2, <1>3, <1>4, <1>7 DEF StdSound

\* A stream is redirected.
LEMMA OpenStreamStd ==
  ASSUME TypeOK, StdSound, NEW r \in Runs, NEW s \in Streams, OpenStream(r, s)
  PROVE  StdSound'
<1> DEFINE p == <<r, s>>
<1>0. /\ phase[r] = "open" /\ s \in opts[r].streams /\ p \in Pairs
      /\ fd' = [fd EXCEPT ![s] = r] /\ rdr' = [rdr EXCEPT ![p] = "reading"]
      /\ opts' = opts /\ hostbuf' = hostbuf /\ terminal' = terminal /\ lease' = lease /\ phase' = phase
      /\ failed' = failed /\ outcome' = outcome
  BY PairParts DEF OpenStream, NextToOpen
<1>1. fd \in [Streams -> Runs \cup {Host}] /\ rdr \in [Pairs -> {"none", "reading", "closing", "gone"}]
      /\ fd' \in [Streams -> Runs \cup {Host}]
  BY <1>0 DEF TypeOK
<1>2. HostPrinted' /\ LeaseSound'
  BY <1>0 DEF StdSound, HostPrinted, LeaseSound, Captures
<1>3. ASSUME NEW t \in Streams PROVE FdSound(t)'
  <2>1. CASE t = s
    BY <1>0, <1>1, <2>1 DEF FdSound
  <2>2. CASE t # s
    <3>1. fd[t] \in Runs => rdr'[<<fd[t], t>>] = rdr[<<fd[t], t>>]
      <4>1. fd[t] \in Runs => <<fd[t], t>> \in Pairs /\ <<fd[t], t>> # p
        BY <2>2, PairParts
      <4>2. QED
        BY <1>0, <1>1, <2>2, <4>1
    <3>2. fd'[t] = fd[t]
      BY <1>0, <1>1, <2>2
    <3>3. QED
      BY <1>0, <3>1, <3>2 DEF StdSound, FdSound
  <2>3. QED
    BY <2>1, <2>2
<1>4. ASSUME NEW q \in Runs PROVE RunSound(q)'
  <2>1. CASE q = r
    <3>1. ASSUME NEW t \in opts[r].streams PROVE Open(r, t)' => fd'[t] = r
      <4>1. CASE t = s
        BY <1>0, <1>1, <4>1
      <4>2. CASE t # s
        <5>1. <<r, t>> # p /\ t \in Streams /\ <<r, t>> \in Pairs
          BY <4>2, OptionsTyped, PairParts
        <5>2. rdr'[<<r, t>>] = rdr[<<r, t>>] /\ fd'[t] = fd[t]
          BY <1>0, <1>1, <4>2, <5>1
        <5>3. QED
          BY <1>0, <5>2 DEF StdSound, RunSound, Open
      <4>3. QED
        BY <4>1, <4>2
    <3>2. QED
      BY <1>0, <2>1, <3>1 DEF StdSound, RunSound, Flushed, Early
  <2>2. CASE q # r
    <3>1. phase[q] \notin Leased
      <4>1. phase[r] \in Leased
        BY <1>0 DEF Leased
      <4>2. QED
        BY <1>0, <2>2, <4>1, Alone
    <3>2. ASSUME NEW t \in opts[q].streams PROVE rdr'[<<q, t>>] = rdr[<<q, t>>]
      <4>1. <<q, t>> # p /\ <<q, t>> \in Pairs
        BY <2>2, OptionsTyped, PairParts
      <4>2. QED
        BY <1>0, <1>1, <4>1
    <3>3. QED
      BY <1>0, <3>1, <3>2 DEF StdSound, RunSound, Flushed, Leased
  <2>3. QED
    BY <2>1, <2>2
<1>5. QED
  BY <1>2, <1>3, <1>4 DEF StdSound

\* A set of a run's streams goes back to the host.
LEMMA RestoredStd ==
  ASSUME TypeOK, StdSound, NEW r \in Runs, NEW S, NEW lost, RestoreStreams(S, lost), opts' = opts,
         S = {s \in opts[r].streams : fd[s] = r},
         NEW end \in {"collect", "done"}, phase' = [phase EXCEPT ![r] = end],
         end = "collect" => outcome'[r] \notin {"none", "refused", "dropped"} /\ phase[r] \in Flushed,
         rdr' = rdr, failed' = failed, \A q \in Runs : q # r => outcome'[q] = outcome[q],
         LeaseSound'
  PROVE  StdSound'
<1>0. /\ phase \in [Runs -> Phases]
      /\ fd \in [Streams -> Runs \cup {Host}] /\ Host \notin Runs /\ opts[r].streams \subseteq Streams
  BY OptionsTyped DEF TypeOK
<1>1. /\ fd' = [s \in Streams |-> IF s \in S THEN Host ELSE fd[s]]
      /\ hostbuf' = [s \in Streams |-> IF s \in S \ lost THEN << >> ELSE hostbuf[s]]
      /\ terminal' = terminal
  BY DEF RestoreStreams
<1>2. HostPrinted'
  BY <1>1 DEF StdSound, HostPrinted
<1>3. ASSUME NEW t \in Streams PROVE FdSound(t)'
  <2>1. CASE fd'[t] \notin Runs
    BY <2>1 DEF FdSound
  <2>2. CASE fd'[t] \in Runs
    <3>1. t \notin S /\ fd'[t] = fd[t]
      BY <1>0, <1>1, <2>2
    <3>2. fd[t] # r
      BY <2>2, <3>1 DEF StdSound, FdSound
    <3>3. phase'[fd[t]] = phase[fd[t]]
      BY <1>0, <2>2, <3>1, <3>2
    <3>4. QED
      BY <2>2, <3>1, <3>3 DEF StdSound, FdSound
  <2>3. QED
    BY <2>1, <2>2
<1>4. <<>> # <<"before">>
  <2>1. Len(<<"before">>) = 1 /\ Len(<<>>) = 0
    BY EmptyPiece
  <2>2. QED
    BY <2>1
<1>5. ASSUME NEW q \in Runs PROVE RunSound(q)'
  <2>0. opts[q].streams \subseteq Streams
    BY OptionsTyped
  <2>1. CASE q = r
    <3>1. phase'[r] = end
      BY <1>0
    <3>3. ASSUME NEW t \in opts[r].streams, end = "collect" PROVE hostbuf'[t] # <<"before">>
      <4>1. CASE t \in S \ lost
        BY <1>0, <1>1, <1>4, <4>1
      <4>2. CASE t \notin S \ lost
        <5>1. phase[r] \in Flushed
          BY <3>3
        <5>2. QED
          BY <1>0, <1>1, <4>2, <5>1 DEF StdSound, RunSound, Flushed
      <4>3. QED
        BY <4>1, <4>2
    <3>4. QED
      BY <1>0, <1>1, <2>1, <3>1, <3>3 DEF StdSound, RunSound, Flushed, Early
  <2>2. CASE q # r
    <3>1. phase'[q] = phase[q] /\ outcome'[q] = outcome[q]
      BY <1>0, <2>2
    <3>2. \A t \in opts[q].streams : fd[t] = q => fd'[t] = q
      <4>1. \A t \in opts[q].streams : fd[t] = q => t \notin S
        BY <2>2
      <4>2. QED
        BY <1>1, <2>0, <4>1
    <3>3. \A t \in opts[q].streams : hostbuf'[t] = hostbuf[t] \/ hostbuf'[t] = <<>>
      BY <1>1, <2>0
    <3>4. SUFFICES ASSUME NEW t \in opts[q].streams
                   PROVE  /\ phase[q] \in Early => rdr[<<q, t>>] = "none"
                          /\ phase[q] = "open" /\ rdr[<<q, t>>] # "none" => fd'[t] = q
                          /\ phase[q] \in {"script", "restore"} => fd'[t] = q
                          /\ phase[q] \in Flushed => hostbuf'[t] # <<"before">>
                          /\ phase[q] \in {"restore", "collect"} => outcome[q] \notin {"none", "refused", "dropped"}
                          /\ q \notin terminal[t]
      BY <1>1, <3>1 DEF RunSound, Open
    <3>5. RunSound(q)
      BY DEF StdSound
    <3>6. phase[q] \in Flushed => hostbuf'[t] # <<"before">>
      BY <1>4, <3>3, <3>5 DEF RunSound
    <3>7. QED
      BY <3>2, <3>5, <3>6 DEF RunSound, Open
  <2>3. QED
    BY <2>1, <2>2
<1>6. QED
  BY <1>2, <1>3, <1>5 DEF StdSound

\* Redirected streams that are dropped are all that a run redirected.
LEMMA DroppedStd ==
  ASSUME TypeOK, StdSound, NEW r \in Runs, DropStreams(r), NEW how, Exit(r, how), opts' = opts,
         phase' = [phase EXCEPT ![r] = "done"], rdr' = rdr, failed' = failed,
         \A s \in Streams : fd[s] = r /\ <<r, s>> \in failed => Open(r, s)
  PROVE  StdSound' /\ \A s \in Streams : fd'[s] # r
<1> DEFINE S == {s \in opts[r].streams : Open(r, s) /\ fd[s] = r}
           T == {s \in opts[r].streams : fd[s] = r}
<1>1. PICK lost : RestoreStreams(S, lost)
  BY DEF DropStreams
<1>2. opts[r].streams \subseteq Streams
  BY OptionsTyped
<1>3. S = T
  <2>1. ASSUME NEW s \in opts[r].streams, fd[s] = r PROVE Open(r, s)
    <3>1. rdr[<<r, s>>] = "reading" \/ <<r, s>> \in failed
      BY <1>2, <2>1 DEF StdSound, FdSound
    <3>2. QED
      BY <1>2, <2>1, <3>1 DEF Open
  <2>2. QED
    BY <2>1
<1> HIDE DEF S
<1>4. LeaseSound'
  BY LeaseGivenBack DEF StdSound
<1>5. \A q \in Runs : q # r => outcome'[q] = outcome[q]
  BY DEF Exit, TypeOK
<1>6. StdSound'
  BY <1>1, <1>3, <1>4, <1>5, RestoredStd
<1>7. \A s \in Streams : fd'[s] # r
  <2>1. fd' = [s \in Streams |-> IF s \in S THEN Host ELSE fd[s]]
    BY <1>1 DEF RestoreStreams
  <2>2. Host # r
    BY OptionsTyped
  <2>3. \A s \in Streams : fd[s] = r => s \in opts[r].streams
    BY DEF StdSound, FdSound
  <2>4. QED
    BY <1>3, <2>1, <2>2, <2>3
<1>8. QED
  BY <1>6, <1>7

\* Setups that fail and futures that are dropped.
LEMMA DropsStd ==
  ASSUME TypeOK, StdSound, NEW r \in Runs, \A s \in Streams : fd[s] = r /\ <<r, s>> \in failed => Open(r, s)
  PROVE  /\ \A s \in Streams : OpenFails(r, s) => StdSound' /\ \A t \in Streams : fd'[t] # r
         /\ DropFuture(r) => StdSound' /\ \A t \in Streams : fd'[t] # r
<1>1. ASSUME NEW s \in Streams, OpenFails(r, s) PROVE StdSound' /\ \A t \in Streams : fd'[t] # r
  <2>1. /\ DropStreams(r) /\ Exit(r, "capture_error") /\ phase' = [phase EXCEPT ![r] = "done"]
        /\ opts' = opts /\ rdr' = rdr /\ failed' = failed
    BY <1>1 DEF OpenFails, reader
  <2>2. QED
    BY <2>1, DroppedStd
<1>2. ASSUME DropFuture(r) PROVE StdSound' /\ \A t \in Streams : fd'[t] # r
  <2>1. /\ DropStreams(r) /\ Exit(r, "dropped") /\ phase' = [phase EXCEPT ![r] = "done"]
        /\ opts' = opts /\ rdr' = rdr /\ failed' = failed
    BY <1>2 DEF DropFuture, reader
  <2>2. QED
    BY <2>1, DroppedStd
<1>3. QED
  BY <1>1, <1>2

\* Scripts, descendants and the host.
LEMMA WorldStd == ASSUME TypeOK, StdSound, NEW r \in Runs, NEW s \in Streams PROVE
  /\ ScriptWrites(r, s) => StdSound'
  /\ HostPrints(r, s) => StdSound'
  /\ SpawnChild(r, s) \/ ChildWrites(r, s) \/ ChildExits(r, s) => StdSound'
<1>1. ASSUME ScriptWrites(r, s) PROVE StdSound'
  <2>1. /\ phase[r] = "script" /\ Lands(r, s)
        /\ opts' = opts /\ fd' = fd /\ hostbuf' = hostbuf /\ lease' = lease /\ phase' = phase
        /\ rdr' = rdr /\ failed' = failed /\ outcome' = outcome
    BY <1>1 DEF ScriptWrites, reader
  <2>2. ASSUME NEW q \in Runs, NEW t \in opts[q].streams, q \notin terminal[t] PROVE q \notin terminal'[t]
    <3>0. t \in Streams /\ opts[r].streams \subseteq Streams /\ Host \notin Runs
      BY OptionsTyped
    <3>1. CASE fd[s] = Host
      <4>1. terminal' = [terminal EXCEPT ![s] = @ \cup {r}]
        BY <2>1, <3>1 DEF Lands
      <4>2. q = r => t # s
        BY <2>1, <3>0, <3>1 DEF StdSound, RunSound
      <4>3. QED
        BY <2>2, <3>0, <4>1, <4>2 DEF TypeOK
    <3>2. CASE fd[s] # Host
      <4>1. terminal' = terminal
        BY <2>1, <3>2 DEF Lands
      <4>2. QED
        BY <2>2, <4>1
    <3>3. QED
      BY <3>1, <3>2
  <2>3. \A q \in Runs : RunSound(q)'
    BY <2>1, <2>2 DEF StdSound, RunSound, Open
  <2>4. QED
    BY <2>1, <2>3 DEF StdSound, HostPrinted, LeaseSound, FdSound, Captures
<1>2. ASSUME HostPrints(r, s) PROVE StdSound'
  <2>1. /\ hostbuf' = [hostbuf EXCEPT ![s] = <<"during">>]
        /\ opts' = opts /\ fd' = fd /\ terminal' = terminal /\ lease' = lease /\ phase' = phase
        /\ rdr' = rdr /\ failed' = failed /\ outcome' = outcome
    BY <1>2 DEF HostPrints, streamVars, reader
  <2>2. <<"during">> # <<"before">>
    <3>1. <<"during">>[1] = "during" /\ <<"before">>[1] = "before" /\ "during" # "before"
      OBVIOUS
    <3>2. QED
      BY <3>1
  <2>3. \A t \in Streams : hostbuf'[t] = hostbuf[t] \/ hostbuf'[t] = <<"during">>
    BY <2>1 DEF TypeOK
  <2>4. HostPrinted'
    BY <2>3 DEF StdSound, HostPrinted
  <2>5. ASSUME NEW q \in Runs PROVE RunSound(q)'
    <3>1. opts[q].streams \subseteq Streams
      BY OptionsTyped
    <3>2. QED
      BY <2>1, <2>2, <2>3, <3>1 DEF StdSound, RunSound, Open
  <2>6. QED
    BY <2>1, <2>4, <2>5 DEF StdSound, LeaseSound, FdSound, Captures
<1>3. ASSUME SpawnChild(r, s) \/ ChildWrites(r, s) \/ ChildExits(r, s) PROVE StdSound'
  <2>1. UNCHANGED <<opts, fd, hostbuf, terminal, lease, async, phase, reader, outcome>>
    BY <1>3 DEF SpawnChild, ChildWrites, ChildExits, stdio
  <2>2. QED
    BY <2>1, StdKept DEF reader
<1>4. QED
  BY <1>1, <1>2, <1>3

\* Readers: the one of a redirected stream ends with an error only.
LEMMA ReaderStd ==
  ASSUME TypeOK, StdSound, NEW r \in Runs, NEW s \in Streams,
         fd[s] = r => <<r, s>> \notin stop
  PROVE  /\ ReaderReads(r, s) => StdSound'
         /\ ReaderEof(r, s) \/ ReaderStops(r, s) \/ ReaderFails(r, s) => StdSound'
         /\ ReaderGone(r, s) => StdSound'
<1> DEFINE p == <<r, s>>
<1>0. p \in Pairs /\ rdr \in [Pairs -> {"none", "reading", "closing", "gone"}]
  BY PairParts DEF TypeOK
<1>1. ASSUME ReaderReads(r, s) PROVE StdSound'
  <2>1. UNCHANGED <<opts, stdio, lease, phase, rdr, failed, outcome>>
    BY <1>1 DEF ReaderReads
  <2>2. QED
    BY <2>1, StdKept DEF stdio
<1>2. ASSUME NEW next \in {"closing", "gone"}, rdr[p] \in {"reading", "closing"},
             rdr' = [rdr EXCEPT ![p] = next], failed \subseteq failed',
             fd[s] = r => p \in failed' \/ rdr[p] = "closing",
             opts' = opts, fd' = fd, hostbuf' = hostbuf, terminal' = terminal, lease' = lease,
             phase' = phase, outcome' = outcome
      PROVE  StdSound'
  <2>1. \A q \in Pairs : q # p => rdr'[q] = rdr[q]
    BY <1>0, <1>2
  <2>2. rdr'[p] # "none"
    BY <1>0, <1>2
  <2>3. ASSUME NEW t \in Streams PROVE FdSound(t)'
    <3>1. CASE fd[t] = r /\ t = s
      <4>1. p \in failed'
        BY <1>2, <3>1 DEF StdSound, FdSound
      <4>2. QED
        BY <1>2, <3>1, <4>1 DEF StdSound, FdSound
    <3>2. CASE fd[t] \in Runs /\ ~(fd[t] = r /\ t = s)
      <4>1. <<fd[t], t>> \in Pairs /\ <<fd[t], t>> # p
        BY <3>2, PairParts
      <4>2. rdr'[<<fd[t], t>>] = rdr[<<fd[t], t>>]
        BY <2>1, <4>1
      <4>3. QED
        BY <1>2, <3>2, <4>2 DEF StdSound, FdSound
    <3>3. QED
      BY <1>2, <3>1, <3>2 DEF FdSound
  <2>4. ASSUME NEW q \in Runs PROVE RunSound(q)'
    <3>1. \A t \in opts[q].streams : rdr'[<<q, t>>] = "none" <=> rdr[<<q, t>>] = "none"
      <4>1. \A t \in opts[q].streams : <<q, t>> \in Pairs
        BY OptionsTyped, PairParts
      <4>2. QED
        BY <1>2, <2>1, <2>2, <4>1
    <3>2. QED
      BY <1>2, <3>1 DEF StdSound, RunSound, Open
  <2>5. QED
    BY <1>2, <2>3, <2>4 DEF StdSound, HostPrinted, LeaseSound, Captures
<1>3. ASSUME ReaderEof(r, s) \/ ReaderStops(r, s) \/ ReaderFails(r, s) PROVE StdSound'
  <2>1. /\ rdr[p] = "reading" /\ rdr' = [rdr EXCEPT ![p] = "closing"]
        /\ opts' = opts /\ fd' = fd /\ hostbuf' = hostbuf /\ terminal' = terminal /\ lease' = lease
        /\ phase' = phase /\ outcome' = outcome
    BY <1>3 DEF ReaderEof, ReaderStops, ReaderFails, ReaderBreaks, stdio
  <2>2. failed \subseteq failed' /\ (fd[s] = r => p \in failed')
    BY <1>3 DEF ReaderEof, ReaderStops, ReaderFails, WriteEndOpen
  <2>3. QED
    BY <1>2, <2>1, <2>2
<1>4. ASSUME ReaderGone(r, s) PROVE StdSound'
  <2>1. /\ rdr[p] = "closing" /\ rdr' = [rdr EXCEPT ![p] = "gone"] /\ failed' = failed
        /\ opts' = opts /\ fd' = fd /\ hostbuf' = hostbuf /\ terminal' = terminal /\ lease' = lease
        /\ phase' = phase /\ outcome' = outcome
    BY <1>4 DEF ReaderGone, stdio
  <2>2. QED
    BY <1>2, <2>1
<1>5. QED
  BY <1>1, <1>3, <1>4

\* The end of a script, of a collection, and of a scope.
LEMMA EndsStd == ASSUME TypeOK, StdSound, NEW r \in Runs PROVE
  /\ ScriptEnds(r) => StdSound'
  /\ Restore(r) => StdSound'
  /\ Finish(r) \/ DropCollecting(r) => StdSound'
  /\ \A s \in Streams : CollectBlock(r, s) => StdSound'
  /\ \A s \in Streams, how \in {"ok", "truncated", "capture_error"} :
       Collecting(r, s) /\ Collects(r, s, how) => StdSound'
<1>0. phase \in [Runs -> Phases]
      /\ outcome \in [Runs -> {"none", "refused", "ok", "truncated", "script_error", "capture_error",
                               "dropped"}]
      /\ opts[r].streams \subseteq Streams
  BY OptionsTyped DEF TypeOK
<1>1. ASSUME ScriptEnds(r) PROVE StdSound'
  <2>1. PICK how \in {"ok", "script_error"} : outcome' = [outcome EXCEPT ![r] = how]
    BY <1>1 DEF ScriptEnds
  <2>2. /\ phase[r] = "script" /\ phase' = [phase EXCEPT ![r] = "restore"]
        /\ opts' = opts /\ fd' = fd /\ hostbuf' = hostbuf /\ terminal' = terminal /\ lease' = lease
        /\ rdr' = rdr /\ failed' = failed
    BY <1>1 DEF ScriptEnds, stdio, streamVars, reader
  <2>3. HostPrinted' /\ LeaseSound'
    BY <1>0, <2>2 DEF StdSound, HostPrinted, LeaseSound, Leased, Captures
  <2>4. \A s \in Streams : FdSound(s)'
    BY <1>0, <2>2 DEF StdSound, FdSound
  <2>5. \A q \in Runs : RunSound(q)'
    BY <1>0, <2>1, <2>2 DEF StdSound, RunSound, Open, Flushed, Early
  <2>6. QED
    BY <2>3, <2>4, <2>5 DEF StdSound
<1>2. ASSUME Restore(r) PROVE StdSound'
  <2> DEFINE S == opts[r].streams
             T == {s \in opts[r].streams : fd[s] = r}
  <2>1. /\ phase[r] = "restore" /\ phase' = [phase EXCEPT ![r] = "collect"]
        /\ opts' = opts /\ lease' = lease /\ rdr' = rdr /\ failed' = failed
    BY <1>2 DEF Restore, reader
  <2>7. PICK lost \in SUBSET S :
          /\ RestoreStreams(S, lost)
          /\ outcome' = [outcome EXCEPT ![r] = IF @ = "ok" /\ lost # {} THEN "capture_error" ELSE @]
    BY <1>2 DEF Restore
  <2>8. /\ \A q \in Runs : q # r => outcome'[q] = outcome[q]
        /\ S = {} => outcome' = outcome
        /\ outcome'[r] \in {outcome[r], "capture_error"}
    BY <1>0, <2>7
  <2>2. S = T
    BY <2>1 DEF StdSound, RunSound
  <2>3. LeaseSound'
    BY <1>0, <2>1 DEF StdSound, LeaseSound, Leased, Captures
  <2>4. CASE S = {}
    <3>1. HostPrinted' /\ fd' = fd /\ hostbuf' = hostbuf /\ terminal' = terminal
      <4>1. fd' = [s \in Streams |-> fd[s]] /\ hostbuf' = [s \in Streams |-> hostbuf[s]] /\ terminal' = terminal
        BY <2>7, <2>4 DEF RestoreStreams
      <4>2. fd' = fd /\ hostbuf' = hostbuf
        BY <4>1 DEF TypeOK
      <4>3. QED
        BY <4>1, <4>2 DEF StdSound, HostPrinted
    <3>2. \A s \in Streams : FdSound(s)'
      BY <1>0, <2>1, <2>4, <3>1 DEF StdSound, FdSound
    <3>3. \A q \in Runs : RunSound(q)'
      BY <1>0, <2>1, <2>4, <2>8, <3>1 DEF StdSound, RunSound, Open, Flushed, Early
    <3>4. QED
      BY <2>3, <3>1, <3>2, <3>3 DEF StdSound
  <2>5. CASE S # {}
    <3>1. outcome'[r] \notin {"none", "refused", "dropped"} /\ phase[r] \in Flushed
      BY <2>1, <2>5, <2>8 DEF StdSound, RunSound, Flushed
    <3>2. RestoreStreams(T, lost)
      BY <2>2, <2>7
    <3>3. \A q \in Runs : q # r => outcome'[q] = outcome[q]
      BY <2>8
    <3>4. QED
      BY <2>1, <2>3, <3>1, <3>2, <3>3, RestoredStd
  <2>6. QED
    BY <2>4, <2>5
<1>3. ASSUME Finish(r) \/ DropCollecting(r) PROVE StdSound'
  <2>1. PICK how \in {"dropped", outcome[r]}, end \in {"done", "abandoned"} : 
          Exit(r, how) /\ phase' = [phase EXCEPT ![r] = end]
    BY <1>3 DEF Finish, DropCollecting
  <2>2. /\ phase[r] = "collect" /\ opts' = opts /\ fd' = fd /\ hostbuf' = hostbuf /\ terminal' = terminal
        /\ rdr' = rdr /\ failed' = failed
    BY <1>3 DEF Finish, DropCollecting, reader
  <2>3. LeaseSound'
    BY <2>1, <2>2, LeaseGivenBack DEF StdSound
  <2>4. \A s \in Streams : FdSound(s)'
    BY <1>0, <2>1, <2>2 DEF StdSound, FdSound
  <2>5. \A q \in Runs : q # r => outcome'[q] = outcome[q]
    BY <1>0, <2>1 DEF Exit
  <2>6. ASSUME NEW q \in Runs PROVE RunSound(q)'
    <3>1. CASE q = r
      <4>1. phase'[q] \in {"done", "abandoned"}
        BY <1>0, <2>1, <3>1
      <4>2. QED
        BY <2>2, <4>1 DEF StdSound, RunSound, Flushed, Early
    <3>2. CASE q # r
      <4>1. phase'[q] = phase[q] /\ outcome'[q] = outcome[q]
        BY <1>0, <2>1, <2>5, <3>2
      <4>2. QED
        BY <2>2, <4>1 DEF StdSound, RunSound, Open
    <3>3. QED
      BY <3>1, <3>2
  <2>7. QED
    BY <2>2, <2>3, <2>4, <2>6 DEF StdSound, HostPrinted
<1>4. ASSUME NEW s \in Streams, CollectBlock(r, s) PROVE StdSound'
  <2>1. UNCHANGED <<opts, stdio, lease, phase, reader, outcome>>
    BY <1>4 DEF CollectBlock
  <2>2. QED
    BY <2>1, StdKept DEF stdio, reader
<1>5. ASSUME NEW s \in Streams, NEW how \in {"ok", "truncated", "capture_error"}, Collecting(r, s),
             Collects(r, s, how)
      PROVE  StdSound'
  <2>1. /\ outcome' = [outcome EXCEPT ![r] =
                         IF @ \in {"script_error", "capture_error", "dropped"} \/ how = "ok" THEN @ ELSE how]
        /\ opts' = opts /\ fd' = fd /\ hostbuf' = hostbuf /\ terminal' = terminal /\ lease' = lease
        /\ phase' = phase /\ rdr' = rdr /\ failed' = failed
    BY <1>5 DEF Collects, stdio, reader
  <2>2. \A q \in Runs : outcome[q] \notin {"none", "refused", "dropped"} =>
                        outcome'[q] \notin {"none", "refused", "dropped"}
    BY <1>0, <2>1
  <2>3. \A q \in Runs : RunSound(q)'
    BY <2>1, <2>2 DEF StdSound, RunSound, Open
  <2>4. QED
    BY <2>1, <2>3 DEF StdSound, HostPrinted, LeaseSound, FdSound, Captures
<1>6. QED
  BY <1>1, <1>2, <1>3, <1>4, <1>5

-----------------------------------------------------------------------------
(* The output of a pair. *)

\* A pair that a step does not touch, but that its write end may be closed.
LEMMA PairKept ==
  ASSUME NEW p \in Pairs, PairSound(p), opts' = opts,
         phase'[p[1]] \in Live => phase[p[1]] \in Live,
         phase'[p[1]] \in Live /\ phase[p[1]] = "collect" /\ p \in stop =>
           phase'[p[1]] = "collect" /\ outcome'[p[1]] = outcome[p[1]],
         p \in stop' <=> p \in stop,
         sent'[p] = sent[p], out'[p] = out[p], chan'[p] = chan[p], pipe'[p] = pipe[p],
         rdr'[p] = rdr[p], total'[p] = total[p],
         p \in child' => p \in child, p \in discarding' <=> p \in discarding,
         p \in failed' <=> p \in failed, p \in overflow' <=> p \in overflow,
         fd'[p[2]] = p[1] => fd[p[2]] = p[1]
  PROVE  PairSound(p)'
<1>1. FlowSound(p) => FlowSound(p)'
  BY DEF FlowSound, Kept
<1>2. CASE p \in stop
  BY <1>2 DEF PairSound, ResultSound
<1>3. CASE p \notin stop
  BY <1>1, <1>3 DEF PairSound
<1>4. QED
  BY <1>2, <1>3

\* The pairs of a run that returns are no longer of interest.
LEMMA PairReturned ==
  ASSUME NEW p \in Pairs, phase'[p[1]] \in {"done", "abandoned"}
  PROVE  PairSound(p)'
BY DEF PairSound, Live, Leased

\* A step of the pairs of one run, or of one of them.
LEMMA OtherPair ==
  ASSUME NEW r \in Runs, NEW s \in Streams, NEW p \in Pairs, p # <<r, s>>
  PROVE  p[1] # r \/ p[2] # s
BY PairParts

\* The pipe grows by what is sent.
LEMMA SumsGrow ==
  ASSUME TypeOK, NEW p \in Pairs, NEW more \in Seq(Block)
  PROVE  total[p] + Len(pipe[p]) = Len(sent[p]) => total[p] + Len(pipe[p] \o more) = Len(sent[p] \o more)
<1>1. /\ total[p] \in Nat /\ Len(pipe[p]) \in Nat /\ Len(sent[p]) \in Nat /\ Len(more) \in Nat
      /\ Len(pipe[p] \o more) = Len(pipe[p]) + Len(more) /\ Len(sent[p] \o more) = Len(sent[p]) + Len(more)
  BY PairTyped, ConcatProperties, LenProperties
<1>2. QED
  BY <1>1

\* How much was kept.
LEMMA KeptTyped ==
  ASSUME TypeOK, NEW p \in Pairs
  PROVE  Kept(p) \in Nat /\ Len(out[p]) <= Kept(p)
<1> DEFINE n == Len(out[p])
           m == Len(chan[p])
<1>1. n \in Nat /\ m \in Nat
  BY PairTyped
<1> HIDE DEF n, m
<1>2. n + m \in Nat /\ n <= n + m
  BY <1>1
<1>3. QED
  BY <1>2 DEF Kept, n, m

\* More is sent: into the pipe while its reader reads, else to nobody.
LEMMA FlowGrows ==
  ASSUME TypeOK, NEW p \in Pairs, FlowSound(p), NEW more \in Seq(Block),
         rdr[p] = "reading" \/ p \in failed, rdr[p] # "none",
         sent'[p] = sent[p] \o more,
         rdr[p] = "reading" => pipe'[p] = pipe[p] \o more,
         out'[p] = out[p], chan'[p] = chan[p], rdr'[p] = rdr[p], total'[p] = total[p],
         p \in discarding' <=> p \in discarding,
         p \in failed' <=> p \in failed, p \in overflow' <=> p \in overflow
  PROVE  FlowSound(p)'
<1>1. /\ pipe[p] \in Seq(Block) /\ chan[p] \in Seq(Block) /\ out[p] \in Seq(Block)
      /\ sent[p] \in Seq(Block) /\ total[p] \in Nat
      /\ Len(pipe[p]) \in Nat /\ Len(chan[p]) \in Nat /\ Len(out[p]) \in Nat /\ Len(sent[p]) \in Nat
  BY PairTyped
<1>2. Len(sent[p] \o more) = Len(sent[p]) + Len(more) /\ Len(more) \in Nat
  BY <1>1, ConcatProperties, LenProperties
<1>3. Kept(p) \in Nat /\ Len(out[p]) <= Kept(p) /\ Kept(p)' = Kept(p)
  BY KeptTyped DEF Kept
<1>4. Kept(p) <= MaxBytes /\ Kept(p) <= Len(sent[p])
  BY DEF FlowSound
<1>5. Piece(out[p], sent[p] \o more, 0)
  <2>1. Piece(out[p], sent[p], 0)
    BY DEF FlowSound
  <2>2. 0 + Len(out[p]) <= Len(sent[p])
    BY <1>1, <1>3, <1>4
  <2>3. QED
    BY <1>1, <2>1, <2>2, PieceStays
<1>6. Piece(chan[p], sent[p] \o more, Len(out[p]))
  <2>1. Piece(chan[p], sent[p], Len(out[p]))
    BY DEF FlowSound
  <2>2. Len(out[p]) + Len(chan[p]) <= Len(sent[p])
    BY <1>4 DEF Kept
  <2>3. QED
    BY <1>1, <2>1, <2>2, PieceStays
<1> DEFINE w == sent[p] \o more
           q == pipe[p] \o more
<1>7. Kept(p) <= Len(w)
  BY <1>1, <1>2, <1>3, <1>4
<1>8. CASE rdr[p] = "reading"
  <2>1. Len(pipe[p]) <= Len(sent[p]) /\ Piece(pipe[p], sent[p], Len(sent[p]) - Len(pipe[p]))
    BY <1>8 DEF FlowSound
  <2>2. /\ Len(q) = Len(pipe[p]) + Len(more)
        /\ Len(q) <= Len(w) /\ Piece(q, w, Len(w) - Len(q))
    BY <1>1, <2>1, PipeGrows
  <2>3. /\ p \notin failed /\ (p \in discarding <=> p \in overflow)
        /\ p \notin overflow => total[p] = Kept(p) /\ total[p] + Len(pipe[p]) = Len(sent[p])
    BY <1>8 DEF FlowSound
  <2>4. total[p] + Len(pipe[p]) = Len(sent[p]) => total[p] + Len(q) = Len(w)
    BY SumsGrow
  <2>5. sent'[p] = w /\ pipe'[p] = q
    BY <1>8
  <2> HIDE DEF w, q
  <2>6. QED
    BY <1>3, <1>4, <1>5, <1>6, <1>7, <1>8, <2>2, <2>3, <2>4, <2>5 DEF FlowSound, w
<1>9. CASE rdr[p] # "reading"
  <2>1. p \in failed
    BY <1>9
  <2>2. sent'[p] = w
    OBVIOUS
  <2> HIDE DEF w, q
  <2>3. QED
    BY <1>3, <1>4, <1>5, <1>6, <1>7, <1>9, <2>1, <2>2 DEF FlowSound, w
<1>10. QED
  BY <1>8, <1>9

\* What is appended is not what the host printed before the run.
LEMMA NothingBefore ==
  ASSUME NEW whole \in Seq(Block), NEW more \in Seq(Block), \A i \in 1..Len(whole) : whole[i] # "before",
         \A i \in 1..Len(more) : more[i] # "before"
  PROVE  \A i \in 1..Len(whole \o more) : (whole \o more)[i] # "before"
<1>1. /\ Len(whole) \in Nat /\ Len(more) \in Nat /\ Len(whole \o more) = Len(whole) + Len(more)
      /\ \A i \in 1..Len(whole) + Len(more) :
           (whole \o more)[i] = IF i <= Len(whole) THEN whole[i] ELSE more[i - Len(whole)]
  BY ConcatProperties, LenProperties
<1>2. ASSUME NEW i \in 1..Len(whole) + Len(more) PROVE (whole \o more)[i] # "before"
  <2>1. CASE i <= Len(whole)
    BY <1>1, <2>1
  <2>2. CASE ~(i <= Len(whole))
    <3>1. i - Len(whole) \in 1..Len(more)
      BY <1>1, <2>2
    <3>2. QED
      BY <1>1, <2>2, <3>1
  <2>3. QED
    BY <2>1, <2>2
<1>3. QED
  BY <1>1, <1>2

\* Single blocks.
LEMMA OneBlock ==
  /\ \A b : Len(<<b>>) = 1 /\ <<b>>[1] = b
  /\ \A S : \A seq \in Seq(S), b \in S : Append(seq, b) = seq \o <<b>>
<1>1. \A b : Len(<<b>>) = 1 /\ <<b>>[1] = b
  OBVIOUS
<1>2. \A S : \A seq \in Seq(S), b \in S : Append(seq, b) = seq \o <<b>>
  BY AppendIsConcat
<1>3. QED
  BY <1>1, <1>2

\* Admission, and the end of a script: no output moves.
LEMMA PhasePairs ==
  ASSUME SInv, NEW r \in Runs,
         \/ EnterGuard(r) \/ TakeLease(r) \/ CheckPrompt(r) \/ Refuse(r) \/ Flush(r)
         \/ StartScript(r) \/ ScriptEnds(r)
  PROVE  \A p \in Pairs : PairSound(p)'
<1>0. phase \in [Runs -> Phases]
      /\ outcome \in [Runs -> {"none", "refused", "ok", "truncated", "script_error", "capture_error",
                               "dropped"}]
      /\ \A p \in Pairs : PairSound(p)
  BY DEF SInv, TypeOK
<1>1. UNCHANGED <<opts, fd, sent, streamVars>>
  BY DEF EnterGuard, TakeLease, CheckPrompt, Refuse, Flush, StartScript, ScriptEnds, stdio
<1>2. /\ phase[r] \in Live \ {"collect"}
      /\ \E next \in {"lease", "prompt", "flush", "done", "open", "script", "restore"} : phase' = [phase EXCEPT ![r] = next]
      /\ outcome' = outcome \/ \E how \in {"refused", "ok", "script_error"} : outcome' = [outcome EXCEPT ![r] = how]
  BY DEF EnterGuard, TakeLease, CheckPrompt, Refuse, Flush, StartScript, ScriptEnds, Live, Leased
<1>3. ASSUME NEW p \in Pairs PROVE PairSound(p)'
  <2>0. p[1] \in Runs /\ PairSound(p)
    BY <1>0, PairParts
  <2>1. p[1] = r => phase[p[1]] \in Live \ {"collect"}
    BY <1>2
  <2>2. p[1] # r => phase'[p[1]] = phase[p[1]] /\ outcome'[p[1]] = outcome[p[1]]
    BY <1>0, <1>2, <2>0
  <2>3. UNCHANGED <<opts, fd, sent, pipe, child, rdr, total, discarding, failed, chan, overflow,
     stop, out>>
    BY <1>1 DEF streamVars, reader, count
  <2>4. QED
    BY <2>0, <2>1, <2>2, <2>3, PairKept
<1>4. QED
  BY <1>3

\* The sum of two lengths that is none.
LEMMA NothingKept ==
  ASSUME TypeOK, NEW p \in Pairs, Kept(p) <= 0
  PROVE  Len(out[p]) = 0 /\ Len(chan[p]) = 0 /\ out[p] = <<>> /\ chan[p] = <<>>
<1> DEFINE n == Len(out[p])
           m == Len(chan[p])
<1>1. n \in Nat /\ m \in Nat
  BY PairTyped
<1>2. n + m <= 0
  BY DEF Kept
<1> HIDE DEF n, m
<1>3. n = 0 /\ m = 0
  BY <1>1, <1>2
<1>4. QED
  BY <1>3, PairTyped, EmptyPiece DEF n, m

\* A stream of which nothing was sent begins to be read.
LEMMA OpenStreamPairs ==
  ASSUME SInv, NEW r \in Runs, NEW s \in Streams, OpenStream(r, s)
  PROVE  \A p \in Pairs : PairSound(p)'
<1> DEFINE o == <<r, s>>
<1>0. /\ phase[r] = "open" /\ s \in opts[r].streams /\ rdr[o] = "none" /\ o \in Pairs
      /\ fd' = [fd EXCEPT ![s] = r] /\ rdr' = [rdr EXCEPT ![o] = "reading"]
      /\ UNCHANGED <<opts, sent, phase, pipe, child, count, failed, chan, overflow, stop, out, outcome>>
  BY PairParts DEF OpenStream, NextToOpen, Open
<1>1. TypeOK /\ fd \in [Streams -> Runs \cup {Host}] /\ rdr \in [Pairs -> {"none", "reading", "closing", "gone"}]
      /\ \A p \in Pairs : PairSound(p)
  BY DEF SInv, TypeOK
<1>2. ASSUME NEW p \in Pairs, p # o PROVE PairSound(p)'
  <2>1. rdr'[p] = rdr[p] /\ p[1] \in Runs /\ p[2] \in Streams /\ Host \notin Runs
    BY <1>0, <1>1, <1>2, PairParts, OptionsTyped
  <2>2. fd'[p[2]] = p[1] => fd[p[2]] = p[1]
    <3>1. CASE p[2] = s
      <4>1. p[1] # r
        BY <1>2, <3>1, OtherPair
      <4>2. QED
        BY <1>0, <1>1, <3>1, <4>1
    <3>2. CASE p[2] # s
      BY <1>0, <1>1, <2>1, <3>2
    <3>3. QED
      BY <3>1, <3>2
  <2>3. UNCHANGED <<opts, sent, phase, pipe, child, total, discarding, failed, chan, overflow,
     stop, out, outcome>>
    BY <1>0 DEF count
  <2>4. QED
    BY <1>1, <2>1, <2>2, <2>3, PairKept
<1>3. ASSUME NEW q \in Pairs, q = o PROVE PairSound(q)'
  <2>0. q[1] = r /\ q[2] = s
    BY <1>3
  <2>6. rdr[q] = "none" /\ rdr'[q] = "reading"
    BY <1>0, <1>1, <1>3
  <2>1. /\ q \notin stop /\ FlowSound(q) /\ \A i \in 1..Len(sent[q]) : sent[q][i] # "before"
    BY <1>0, <1>1, <2>0 DEF PairSound, Live, Leased
  <2>2. /\ sent[q] = <<>> /\ pipe[q] = <<>> /\ total[q] = 0 /\ q \notin child \cup discarding \cup failed \cup overflow
    BY <2>6, <2>1 DEF FlowSound
  <2>3. Len(sent[q]) = 0 /\ Len(pipe[q]) = 0
    BY <2>2, EmptyPiece
  <2>4. out[q] = <<>> /\ chan[q] = <<>> /\ Len(out[q]) = 0 /\ Len(chan[q]) = 0
    <3>1. Kept(q) <= 0
      BY <2>1, <2>3 DEF FlowSound
    <3>2. QED
      BY <1>0, <1>1, <3>1, NothingKept
  <2>5. UNCHANGED <<opts, sent, phase, pipe, child, total, discarding, failed, chan, overflow,
     stop, out, outcome>>
    BY <1>0 DEF count
  <2>7. Kept(q)' = 0 /\ 0 <= MaxBytes
    <3>1. Kept(q)' = Len(out[q]) + Len(chan[q])
      BY <2>5 DEF Kept
    <3>2. Len(out[q]) + Len(chan[q]) = 0
      BY <2>4
    <3>3. 0 <= MaxBytes
      BY CaptureAssumption
    <3>4. QED
      BY <3>1, <3>2, <3>3, Zenon
  <2>8. FlowSound(q)'
    <3>1. Piece(out'[q], sent'[q], 0) /\ Piece(chan'[q], sent'[q], Len(out'[q]))
          /\ Piece(pipe'[q], sent'[q], Len(sent'[q]) - Len(pipe'[q]))
      BY <2>2, <2>4, <2>5, EmptyPiece
    <3>2. Kept(q)' <= MaxBytes /\ Kept(q)' <= Len(sent'[q]) /\ Len(pipe'[q]) <= Len(sent'[q])
          /\ total'[q] = Kept(q)' /\ total'[q] + Len(pipe'[q]) = Len(sent'[q])
      BY <2>2, <2>3, <2>5, <2>7
    <3>3. q \notin failed' /\ q \notin discarding' /\ q \notin overflow'
      BY <2>2, <2>5
    <3>4. QED
      BY <2>6, <3>1, <3>2, <3>3 DEF FlowSound
  <2>9. QED
    BY <2>1, <2>5, <2>8 DEF PairSound
<1>4. QED
  BY <1>2, <1>3

\* A step after which a run has returned, and that touches no other.
LEMMA ReturnPairs ==
  ASSUME SInv, NEW r \in Runs, NEW how, Exit(r, how), NEW end \in {"done", "abandoned"},
         phase' = [phase EXCEPT ![r] = end], opts' = opts, child' = child, UNCHANGED reader, overflow' = overflow,
         \A p \in Pairs : p[1] # r => chan'[p] = chan[p] /\ pipe'[p] = pipe[p] /\ (p \in stop' <=> p \in stop),
         \A s \in Streams : fd'[s] = fd[s] \/ fd'[s] = Host
  PROVE  \A p \in Pairs : PairSound(p)'
<1>0. phase \in [Runs -> Phases]
      /\ outcome \in [Runs -> {"none", "refused", "ok", "truncated", "script_error", "capture_error",
                               "dropped"}]
      /\ \A p \in Pairs : PairSound(p)
  BY DEF SInv, TypeOK
<1>1. ASSUME NEW p \in Pairs PROVE PairSound(p)'
  <2>0. p[1] \in Runs /\ p[2] \in Streams /\ PairSound(p) /\ Host \notin Runs
    BY <1>0, PairParts, CaptureAssumption
  <2>1. CASE p[1] = r
    <3>1. phase'[p[1]] \in {"done", "abandoned"}
      BY <1>0, <2>1
    <3>2. QED
      BY <3>1, PairReturned
  <2>2. CASE p[1] # r
    <3>1. phase'[p[1]] = phase[p[1]]
      BY <1>0, <2>0, <2>2
    <3>2. outcome'[p[1]] = outcome[p[1]] /\ sent'[p] = sent[p] /\ out'[p] = out[p]
      BY <1>0, <2>0, <2>2 DEF Exit
    <3>3. fd'[p[2]] = p[1] => fd[p[2]] = p[1]
      BY <2>0
    <3>4. UNCHANGED <<opts, child, rdr, total, discarding, failed, overflow>>
      BY DEF reader, count
    <3>5. chan'[p] = chan[p] /\ pipe'[p] = pipe[p] /\ (p \in stop' <=> p \in stop)
      BY <2>2
    <3>6. QED
      BY <2>0, <3>1, <3>2, <3>3, <3>4, <3>5, PairKept
  <2>3. QED
    BY <2>1, <2>2
<1>2. QED
  BY <1>1

\* The ways out of a run.
LEMMA ExitPairs ==
  ASSUME SInv, NEW r \in Runs,
         \/ \E s \in Streams : OpenFails(r, s) \/ FlushFails(r, s)
         \/ DropFuture(r) \/ Finish(r) \/ DropCollecting(r)
  PROVE  \A p \in Pairs : PairSound(p)'
<1>1. CASE (\E s \in Streams : OpenFails(r, s)) \/ DropFuture(r)
  <2>1. PICK how \in {"capture_error", "dropped"} : Exit(r, how)
    BY <1>1 DEF OpenFails, DropFuture
  <2>2. DropStreams(r) /\ phase' = [phase EXCEPT ![r] = "done"] /\ UNCHANGED <<opts, child, reader, overflow>>
    BY <1>1 DEF OpenFails, DropFuture
  <2> DEFINE S == {s \in opts[r].streams : Open(r, s) /\ fd[s] = r}
  <2>3. /\ \E lost : RestoreStreams(S, lost)
        /\ stop' = stop \cup Of(r, S)
        /\ chan' = [p \in Pairs |-> IF p \in Of(r, S) THEN << >> ELSE chan[p]]
        /\ pipe' = [p \in Pairs |-> IF p \in Of(r, S) THEN << >> ELSE pipe[p]]
    BY <2>2 DEF DropStreams
  <2> HIDE DEF S
  <2>4. \A p \in Pairs : p[1] # r => chan'[p] = chan[p] /\ pipe'[p] = pipe[p] /\ (p \in stop' <=> p \in stop)
    BY <2>3 DEF Of
  <2>5. \A s \in Streams : fd'[s] = fd[s] \/ fd'[s] = Host
    BY <2>3 DEF RestoreStreams
  <2>6. QED
    BY <2>1, <2>2, <2>4, <2>5, ReturnPairs
<1>2. CASE Finish(r) \/ DropCollecting(r)
  <2>1. PICK how \in {"dropped", outcome[r]}, end \in {"done", "abandoned"} :
          Exit(r, how) /\ phase' = [phase EXCEPT ![r] = end]
    BY <1>2 DEF Finish, DropCollecting
  <2>2. UNCHANGED <<opts, fd, pipe, child, reader, chan, overflow, stop>>
    BY <1>2 DEF Finish, DropCollecting
  <2>3. QED
    BY <2>1, <2>2, ReturnPairs
<1>3. CASE \E s \in Streams : FlushFails(r, s)
  <2>1. /\ Exit(r, "capture_error") /\ phase' = [phase EXCEPT ![r] = "done"]
        /\ UNCHANGED <<opts, fd, pipe, child, reader, chan, overflow, stop>>
    BY <1>3 DEF FlushFails
  <2>2. QED
    BY <2>1, ReturnPairs
<1>4. QED
  BY <1>1, <1>2, <1>3

\* A write by the script or by a descendant, and the life of descendants.
LEMMA WorldPairs ==
  ASSUME SInv, NEW r \in Runs, NEW s \in Streams
  PROVE  /\ ScriptWrites(r, s) => \A p \in Pairs : PairSound(p)'
         /\ HostPrints(r, s) => \A p \in Pairs : PairSound(p)'
         /\ SpawnChild(r, s) => \A p \in Pairs : PairSound(p)'
         /\ ChildWrites(r, s) => \A p \in Pairs : PairSound(p)'
         /\ ChildExits(r, s) => \A p \in Pairs : PairSound(p)'
<1> DEFINE o == <<r, s>>
<1>0. /\ TypeOK /\ o \in Pairs /\ o[1] = r /\ o[2] = s /\ r \in Block /\ <<r>> \in Seq(Block)
      /\ Host \notin Runs /\ r # "before"
      /\ \A p \in Pairs : PairSound(p)
  BY PairParts, BlocksTyped, OptionsTyped DEF SInv
<1>a. sent \in [Pairs -> Seq(Block)] /\ pipe \in [Pairs -> Seq(Block)] /\ fd \in [Streams -> Runs \cup {Host}]
  BY <1>0 DEF TypeOK
<1>1. /\ Append(sent[o], r) = sent[o] \o <<r>> /\ Append(pipe[o], r) = pipe[o] \o <<r>>
      /\ sent[o] \in Seq(Block) /\ pipe[o] \in Seq(Block)
  BY <1>0, PairTyped, OneBlock
<1>2. \A i \in 1..Len(<<r>>) : <<r>>[i] # "before"
  BY <1>0
\* A pair of which more is sent.
<1>3. ASSUME NEW p \in Pairs, p = o, s \in opts[r].streams, phase[r] \in Live, o \notin stop,
             rdr[o] = "reading" \/ o \in failed, rdr[o] # "none",
             sent' = [sent EXCEPT ![o] = Append(@, r)],
             rdr[o] = "reading" => pipe'[o] = pipe[o] \o <<r>>,
             UNCHANGED <<opts, fd, phase, child, reader, chan, overflow, stop, out, outcome>>
      PROVE  PairSound(p)'
  <2>1. sent'[p] = sent[p] \o <<r>>
    BY <1>a, <1>1, <1>3
  <2>2. FlowSound(p) /\ \A i \in 1..Len(sent[p]) : sent[p][i] # "before"
    BY <1>0, <1>3 DEF PairSound
  <2>3. UNCHANGED <<opts, fd, phase, child, rdr, total, discarding, failed, chan, overflow,
     stop, out, outcome>>
    BY <1>3 DEF reader, count
  <2>4. FlowSound(p)'
    BY <1>0, <1>3, <2>1, <2>2, <2>3, FlowGrows
  <2>5. \A i \in 1..Len(sent'[p]) : sent'[p][i] # "before"
    BY <1>0, <1>1, <1>2, <1>3, <2>1, <2>2, NothingBefore
  <2>6. QED
    BY <1>0, <1>3, <2>3, <2>4, <2>5 DEF PairSound
<1>4. ASSUME ScriptWrites(r, s) PROVE \A p \in Pairs : PairSound(p)'
  <2>1. /\ phase[r] = "script" /\ Lands(r, s) /\ sent' = [sent EXCEPT ![o] = Append(@, r)]
        /\ UNCHANGED <<opts, fd, phase, child, reader, chan, overflow, stop, out, outcome>>
    BY <1>4 DEF ScriptWrites
  <2>2. fd[s] \in Runs => fd[s] = r /\ s \in opts[r].streams
    <3>1. ASSUME fd[s] \in Runs PROVE fd[s] = r
      <4>1. s \in opts[fd[s]].streams /\ phase[fd[s]] \in Leased
        BY <3>1 DEF SInv, FdSound, Leased
      <4>2. phase[r] \in Leased
        BY <2>1 DEF Leased
      <4>3. QED
        BY <1>0, <3>1, <4>1, <4>2, Alone DEF SInv, StdSound
    <3>2. QED
      BY <3>1 DEF SInv, FdSound
  <2>3. s \in opts[r].streams => fd[s] = r
    BY <2>1 DEF SInv, RunSound
  <2>4. fd[s] = r => rdr[o] = "reading" \/ o \in failed
    BY DEF SInv, FdSound
  <2>5. pipe' = pipe \/ (fd[s] = r /\ rdr[o] = "reading" /\ pipe' = [pipe EXCEPT ![o] = Append(@, r)])
    <3>1. CASE fd[s] = Host
      BY <2>1, <3>1 DEF Lands
    <3>2. CASE fd[s] # Host
      <4>1. fd[s] = r
        BY <1>a, <2>2, <3>2
      <4>2. QED
        BY <2>1, <3>2, <4>1 DEF Lands
    <3>3. QED
      BY <3>1, <3>2
  <2>6. ASSUME NEW p \in Pairs PROVE PairSound(p)'
    <3>1. CASE p # o
      <4>1. sent'[p] = sent[p] /\ pipe'[p] = pipe[p]
        BY <1>a, <2>1, <2>5, <3>1
      <4>2. UNCHANGED <<opts, fd, phase, child, rdr, total, discarding, failed, chan, overflow,
         stop, out, outcome>>
        BY <2>1 DEF reader, count
      <4>3. QED
        BY <1>0, <4>1, <4>2, PairKept
    <3>2. CASE p = o /\ s \in opts[r].streams
      <4>1. fd[s] = r /\ phase[r] \in Live /\ phase[r] # "collect"
        BY <2>1, <2>3, <3>2 DEF Live, Leased
      <4>2. o \notin stop /\ FlowSound(o)
        BY <1>0, <3>2, <4>1 DEF PairSound
      <4>3. rdr[o] # "none"
        BY <2>4, <4>1, <4>2 DEF FlowSound
      <4>4. rdr[o] = "reading" => pipe'[o] = pipe[o] \o <<r>>
        <5>1. rdr[o] = "reading" => pipe' = [pipe EXCEPT ![o] = Append(@, r)]
          BY <1>0, <2>1, <4>1 DEF Lands
        <5>2. QED
          BY <1>0, <1>1, <1>a, <5>1
      <4>5. QED
        BY <1>3, <2>1, <2>4, <3>2, <4>1, <4>2, <4>3, <4>4
    <3>3. CASE p = o /\ s \notin opts[r].streams
      BY <1>0, <2>1, <3>3 DEF PairSound
    <3>4. QED
      BY <3>1, <3>2, <3>3
  <2>7. QED
    BY <2>6
<1>5. ASSUME HostPrints(r, s) PROVE \A p \in Pairs : PairSound(p)'
  <2>1. UNCHANGED <<opts, fd, sent, phase, pipe, child, rdr, total, discarding, failed, chan,
     overflow, stop, out,
                    outcome>>
    BY <1>5 DEF HostPrints, streamVars, reader, count
  <2>2. QED
    BY <1>0, <2>1, PairKept
<1>6. ASSUME SpawnChild(r, s) PROVE \A p \in Pairs : PairSound(p)'
  <2>1. /\ phase[r] = "script" /\ fd[s] = r /\ child' = child \cup {o}
        /\ UNCHANGED <<opts, fd, sent, phase, pipe, rdr, total, discarding, failed, chan, overflow, stop, out, outcome>>
    BY <1>6 DEF SpawnChild, stdio, reader, count
  <2>2. ASSUME NEW p \in Pairs PROVE PairSound(p)'
    <3>1. CASE p # o
      BY <1>0, <2>1, <3>1, PairKept
    <3>2. CASE p = o
      <4>0. p[1] = r /\ p[2] = s
        BY <1>0, <3>2
      <4>1. s \in opts[r].streams /\ (rdr[p] = "reading" \/ p \in failed)
        BY <2>1, <3>2 DEF SInv, FdSound
      <4>2. p \notin stop /\ FlowSound(p) /\ \A i \in 1..Len(sent[p]) : sent[p][i] # "before"
        BY <1>0, <2>1, <4>0, <4>1 DEF PairSound, Live, Leased
      <4>3. rdr[p] # "none" /\ (rdr[p] \in {"closing", "gone"} => p \in overflow \cup failed)
        BY <2>1, <4>0, <4>1, <4>2 DEF FlowSound
      <4>4. FlowSound(p)'
        BY <2>1, <4>2, <4>3 DEF FlowSound, Kept
      <4>5. QED
        BY <2>1, <4>2, <4>4 DEF PairSound
    <3>3. QED
      BY <3>1, <3>2
  <2>3. QED
    BY <2>2
<1>7. ASSUME ChildWrites(r, s) PROVE \A p \in Pairs : PairSound(p)'
  <2>1. /\ o \notin stop /\ rdr[o] = "reading"
        /\ sent' = [sent EXCEPT ![o] = Append(@, r)] /\ pipe' = [pipe EXCEPT ![o] = Append(@, r)]
        /\ UNCHANGED <<opts, fd, phase, child, reader, chan, overflow, stop, out, outcome>>
    BY <1>7 DEF ChildWrites
  <2>2. ASSUME NEW p \in Pairs PROVE PairSound(p)'
    <3>1. CASE p # o
      <4>1. sent'[p] = sent[p] /\ pipe'[p] = pipe[p]
        BY <1>a, <2>1, <3>1
      <4>2. UNCHANGED <<opts, fd, phase, child, rdr, total, discarding, failed, chan, overflow,
         stop, out, outcome>>
        BY <2>1 DEF reader, count
      <4>3. QED
        BY <1>0, <4>1, <4>2, PairKept
    <3>2. CASE p = o /\ s \in opts[r].streams /\ phase[r] \in Live
      <4>1. pipe'[o] = pipe[o] \o <<r>>
        BY <1>0, <1>1, <1>a, <2>1
      <4>2. QED
        BY <1>3, <2>1, <3>2, <4>1
    <3>3. CASE p = o /\ ~(s \in opts[r].streams /\ phase[r] \in Live)
      BY <1>0, <2>1, <3>3 DEF PairSound
    <3>4. QED
      BY <3>1, <3>2, <3>3
  <2>3. QED
    BY <2>2
<1>8. ASSUME ChildExits(r, s) PROVE \A p \in Pairs : PairSound(p)'
  <2>1. /\ child' = child \ {o}
        /\ UNCHANGED <<opts, fd, sent, phase, pipe, rdr, total, discarding, failed, chan, overflow, stop, out, outcome>>
    BY <1>8 DEF ChildExits, stdio, reader, count
  <2>2. QED
    BY <1>0, <2>1, PairKept
<1>9. QED
  BY <1>4, <1>5, <1>6, <1>7, <1>8

\* The restoration writes out what the host printed during the run.
LEMMA RestorePairs == ASSUME SInv, NEW r \in Runs, Restore(r) PROVE \A p \in Pairs : PairSound(p)'
<1> DEFINE back == opts[r].streams
<1>0. /\ phase[r] = "restore" /\ phase' = [phase EXCEPT ![r] = "collect"]
      /\ UNCHANGED <<opts, child, rdr, total, discarding, failed, chan, overflow, stop, out>>
  BY DEF Restore, reader, count
<1>5. PICK lost \in SUBSET back :
        /\ RestoreStreams(back, lost)
        /\ sent' = [p \in Pairs |-> IF p \in Of(r, back \ lost) THEN sent[p] \o hostbuf[p[2]] ELSE sent[p]]
        /\ pipe' = [p \in Pairs |-> IF p \in Of(r, back \ lost) /\ rdr[p] = "reading"
                                    THEN pipe[p] \o hostbuf[p[2]] ELSE pipe[p]]
        /\ outcome' = [outcome EXCEPT ![r] = IF @ = "ok" /\ lost # {} THEN "capture_error" ELSE @]
  BY DEF Restore
<1> DEFINE S == back \ lost
<1>1. /\ TypeOK /\ back \subseteq Streams /\ S \subseteq back /\ Host \notin Runs
      /\ phase \in [Runs -> Phases]
      /\ \A p \in Pairs : PairSound(p)
  BY OptionsTyped DEF SInv, TypeOK
<1>2. fd' = [s \in Streams |-> IF s \in back THEN Host ELSE fd[s]]
  BY <1>5 DEF RestoreStreams
<1>6. \A q \in Runs : q # r => outcome'[q] = outcome[q]
  BY <1>5 DEF SInv, TypeOK
<1>3. ASSUME NEW p \in Pairs PROVE PairSound(p)'
  <2>0. p[1] \in Runs /\ p[2] \in Streams /\ PairSound(p)
    BY <1>1, PairParts
  <2>1. CASE p \notin Of(r, S)
    <3>1. sent'[p] = sent[p] /\ pipe'[p] = pipe[p]
      BY <1>5, <2>1
    <3>2. fd'[p[2]] = p[1] => fd[p[2]] = p[1]
      BY <1>1, <1>2, <2>0
    <3>3. CASE p[1] = r
      <4>1. phase[p[1]] = "restore" /\ phase'[p[1]] = "collect"
        BY <1>0, <1>1, <3>3
      <4>2. QED
        BY <1>0, <2>0, <3>1, <3>2, <4>1, PairKept DEF Live, Leased
    <3>4. CASE p[1] # r
      <4>1. phase'[p[1]] = phase[p[1]]
        BY <1>0, <1>1, <2>0, <3>4
      <4>2. QED
        BY <1>0, <1>6, <2>0, <3>1, <3>2, <3>4, <4>1, PairKept
    <3>5. QED
      BY <3>3, <3>4
  <2>2. CASE p \in Of(r, S)
    <3>0. p[1] = r /\ p[2] \in opts[r].streams /\ p = <<r, p[2]>>
      BY <1>1, <2>2, PairParts DEF Of
    <3> DEFINE more == hostbuf[p[2]]
    <3>1. more \in Seq(Block) /\ \A i \in 1..Len(more) : more[i] # "before"
      <4>1. more \in Seq(Block)
        BY <1>1, <2>0 DEF TypeOK
      <4>2. more \in {<<>>, <<"during">>}
        BY <1>0, <2>0, <3>0 DEF SInv, HostPrinted, RunSound, Flushed
      <4>3. Len(<<"during">>) = 1 /\ <<"during">>[1] = "during" /\ Len(<<>>) = 0
        BY OneBlock, EmptyPiece
      <4> HIDE DEF more
      <4>4. ASSUME NEW i \in 1..Len(more) PROVE more[i] # "before"
        <5>1. CASE more = <<>>
          BY <4>3, <5>1
        <5>2. CASE more = <<"during">>
          BY <4>3, <5>2
        <5>3. QED
          BY <4>2, <5>1, <5>2
      <4>5. QED
        BY <4>1, <4>4
    <3>2. p \notin stop /\ FlowSound(p) /\ \A i \in 1..Len(sent[p]) : sent[p][i] # "before"
      BY <1>0, <2>0, <3>0 DEF PairSound, Live, Leased
    <3>3. rdr[p] = "reading" \/ p \in failed
      <4>1. fd[p[2]] = r
        BY <1>0, <3>0 DEF SInv, RunSound
      <4>2. rdr[<<r, p[2]>>] = "reading" \/ <<r, p[2]>> \in failed
        BY <2>0, <4>1 DEF SInv, FdSound
      <4>3. QED
        BY <3>0, <4>2
    <3>4. rdr[p] # "none"
      BY <3>2, <3>3 DEF FlowSound
    <3>5. sent'[p] = sent[p] \o more /\ (rdr[p] = "reading" => pipe'[p] = pipe[p] \o more)
      BY <1>5, <2>2
    <3> HIDE DEF more
    <3>6. FlowSound(p)'
      BY <1>0, <1>1, <3>1, <3>2, <3>3, <3>4, <3>5, FlowGrows
    <3>7. \A i \in 1..Len(sent'[p]) : sent'[p][i] # "before"
      BY <1>1, <3>1, <3>2, <3>5, NothingBefore, PairTyped
    <3>8. QED
      BY <1>0, <3>2, <3>6, <3>7 DEF PairSound
  <2>3. QED
    BY <2>1, <2>2
<1>4. QED
  BY <1>3

\* Sums of lengths, regrouped.
LEMMA Regroup == \A i, j, k \in Nat : i + (j + k) = (i + j) + k
OBVIOUS

\* The first m of n blocks of a pipe go into the channel.
LEMMA ChannelGrows ==
  ASSUME NEW seq \in Seq(Block), NEW c \in Seq(Block), NEW n \in 1..Len(seq), NEW m \in 0..n
  PROVE  Len(c \o SubSeq(seq, 1, m)) = Len(c) + m
<1>1. Piece(seq, seq, Len(seq) - Len(seq)) /\ Len(seq) <= Len(seq) /\ n \in 0..Len(seq)
  BY LenProperties DEF Piece
<1> DEFINE block == SubSeq(seq, 1, m)
<1>2. block \in Seq(Block) /\ Len(block) = m
  BY <1>1, PieceRead
<1> HIDE DEF block
<1>3. Len(c \o block) = Len(c) + Len(block)
  BY <1>2, ConcatProperties
<1>4. QED
  BY <1>2, <1>3 DEF block

\* What a channel holds after the first m blocks of a pipe were sent.
LEMMA ChannelReads ==
  ASSUME NEW whole \in Seq(Block), NEW seq \in Seq(Block), NEW o \in Seq(Block), NEW c \in Seq(Block),
         NEW n \in 1..Len(seq), NEW m \in 0..n, NEW kept \in Nat,
         kept = Len(o) + Len(c), kept + Len(seq) = Len(whole),
         Piece(seq, whole, Len(whole) - Len(seq)), Piece(c, whole, Len(o))
  PROVE  Piece(c \o SubSeq(seq, 1, m), whole, Len(o))
<1>1. Len(seq) \in Nat /\ Len(whole) \in Nat /\ Len(o) \in Nat /\ Len(c) \in Nat /\ m \in Nat
  BY LenProperties
<1>2. n \in 0..Len(seq) /\ Len(seq) <= Len(whole) /\ Len(whole) - Len(seq) = Len(o) + Len(c)
  BY <1>1
<1> DEFINE block == SubSeq(seq, 1, m)
<1>3. block \in Seq(Block) /\ Len(block) = m /\ Piece(block, whole, Len(whole) - Len(seq))
  BY <1>2, PieceRead
<1> HIDE DEF block
<1>4. Piece(block, whole, Len(o) + Len(c))
  BY <1>2, <1>3
<1>5. Len(c \o block) = Len(c) + Len(block) /\ Piece(c \o block, whole, Len(o))
  <2> DEFINE a == Len(o)
  <2>1. a \in Nat /\ Piece(c, whole, a) /\ Piece(block, whole, a + Len(c)) /\ block \in Seq(Block)
    BY <1>1, <1>3, <1>4
  <2> HIDE DEF a
  <2>2. Len(c \o block) = Len(c) + Len(block) /\ Piece(c \o block, whole, a)
    BY <2>1, PiecesJoin
  <2>3. QED
    BY <2>2 DEF a
<1>6. QED
  BY <1>3, <1>5 DEF block

\* A reader sends what fits, and drops the rest once it is over the limit.
LEMMA ReadsPairs ==
  ASSUME SInv, NEW r \in Runs, NEW s \in Streams, ReaderReads(r, s)
  PROVE  \A p \in Pairs : PairSound(p)'
<1> DEFINE o == <<r, s>>
<1>1. PICK n \in 1..Len(pipe[o]) :
        /\ pipe' = [pipe EXCEPT ![o] = SubSeq(@, n + 1, Len(@))]
        /\ \/ o \in discarding /\ UNCHANGED <<count, chan, overflow>>
           \/ /\ o \notin discarding /\ total' = [total EXCEPT ![o] = @ + n]
              /\ chan' = [chan EXCEPT ![o] = @ \o SubSeq(pipe[o], 1, Keep(total[o], n))]
              /\ discarding' = IF total[o] + n > MaxBytes THEN discarding \cup {o} ELSE discarding
              /\ overflow' = IF total[o] + n > MaxBytes THEN overflow \cup {o} ELSE overflow
  BY DEF ReaderReads
<1>2. /\ rdr[o] = "reading" /\ o \notin stop
      /\ UNCHANGED <<opts, fd, sent, phase, child, rdr, failed, stop, out, outcome>>
  BY DEF ReaderReads, stdio, Collected
<1>3. /\ TypeOK /\ o \in Pairs /\ \A p \in Pairs : PairSound(p)
      /\ pipe \in [Pairs -> Seq(Block)] /\ chan \in [Pairs -> Seq(Block)] /\ total \in [Pairs -> Nat]
  BY PairParts DEF SInv, TypeOK
<1> HIDE DEF o
<1>4. ASSUME NEW p \in Pairs, p # o PROVE PairSound(p)'
  <2>1. pipe'[p] = pipe[p]
    BY <1>1, <1>3, <1>4
  <2>2. chan'[p] = chan[p] /\ total'[p] = total[p] /\ (p \in discarding' <=> p \in discarding)
        /\ (p \in overflow' <=> p \in overflow)
    BY <1>1, <1>3, <1>4 DEF count
  <2>3. QED
    BY <1>2, <1>3, <2>1, <2>2, PairKept
<1>5. ASSUME NEW p \in Pairs, p = o, p[2] \in opts[p[1]].streams, phase[p[1]] \in Live
      PROVE FlowSound(p)'
  <2>0. rdr[p] = "reading" /\ p \notin stop /\ FlowSound(p)
    BY <1>2, <1>3, <1>5 DEF PairSound
  <2>1. PICK k \in 1..Len(pipe[p]) :
          /\ pipe'[p] = SubSeq(pipe[p], k + 1, Len(pipe[p]))
          /\ \/ p \in discarding /\ UNCHANGED <<count, chan, overflow>>
             \/ /\ p \notin discarding /\ total'[p] = total[p] + k
                /\ chan'[p] = chan[p] \o SubSeq(pipe[p], 1, Keep(total[p], k))
                /\ discarding' = IF total[p] + k > MaxBytes THEN discarding \cup {p} ELSE discarding
                /\ overflow' = IF total[p] + k > MaxBytes THEN overflow \cup {p} ELSE overflow
    BY <1>1, <1>3, <1>5
  <2>2. /\ sent[p] \in Seq(Block) /\ pipe[p] \in Seq(Block) /\ chan[p] \in Seq(Block) /\ out[p] \in Seq(Block)
        /\ Len(sent[p]) \in Nat /\ Len(pipe[p]) \in Nat /\ Len(chan[p]) \in Nat /\ Len(out[p]) \in Nat
        /\ total[p] \in Nat /\ MaxBytes \in Nat /\ k \in Nat
    BY <1>3, <2>1, PairTyped, CaptureAssumption
  <2>3. /\ p \notin failed /\ (p \in discarding <=> p \in overflow)
        /\ Len(pipe[p]) <= Len(sent[p]) /\ Piece(pipe[p], sent[p], Len(sent[p]) - Len(pipe[p]))
        /\ p \notin overflow => total[p] = Kept(p) /\ total[p] + Len(pipe[p]) = Len(sent[p])
        /\ Kept(p) <= MaxBytes /\ Kept(p) <= Len(sent[p])
        /\ Piece(out[p], sent[p], 0) /\ Piece(chan[p], sent[p], Len(out[p]))
    BY <2>0 DEF FlowSound
  <2> DEFINE rest == SubSeq(pipe[p], k + 1, Len(pipe[p]))
  <2>4. Len(rest) = Len(pipe[p]) - k /\ Piece(rest, sent[p], (Len(sent[p]) - Len(pipe[p])) + k) /\ rest \in Seq(Block)
    <3>1. k \in 0..Len(pipe[p]) /\ 0 \in 0..k
      BY <2>1, <2>2
    <3>2. QED
      BY <2>2, <2>3, <3>1, PieceRead
  <2> HIDE DEF rest
  <2>5. pipe'[p] = rest /\ Len(rest) <= Len(sent[p]) /\ Piece(rest, sent[p], Len(sent[p]) - Len(rest))
    <3>1. pipe'[p] = rest
      BY <2>1 DEF rest
    <3>2. Len(rest) <= Len(sent[p]) /\ Len(sent[p]) - Len(rest) = (Len(sent[p]) - Len(pipe[p])) + k
      BY <2>1, <2>2, <2>3, <2>4
    <3>3. QED
      BY <2>4, <3>1, <3>2
  <2>6. CASE p \in discarding /\ UNCHANGED <<count, chan, overflow>>
    <3>1. UNCHANGED <<total, discarding, chan, overflow>>
      BY <2>6 DEF count
    <3>2. Kept(p)' = Kept(p)
      BY <1>2, <3>1 DEF Kept
    <3>3. QED
      BY <1>2, <2>0, <2>3, <2>5, <2>6, <3>1, <3>2 DEF FlowSound
  <2>7. CASE /\ p \notin discarding /\ total'[p] = total[p] + k
             /\ chan'[p] = chan[p] \o SubSeq(pipe[p], 1, Keep(total[p], k))
             /\ discarding' = IF total[p] + k > MaxBytes THEN discarding \cup {p} ELSE discarding
             /\ overflow' = IF total[p] + k > MaxBytes THEN overflow \cup {p} ELSE overflow
    <3> DEFINE m == Keep(total[p], k)
               block == SubSeq(pipe[p], 1, m)
    <3>1. total[p] = Kept(p) /\ total[p] + Len(pipe[p]) = Len(sent[p])
      BY <2>3, <2>7
    <3>2. m \in 0..k /\ total[p] + m <= MaxBytes /\ (total[p] + k <= MaxBytes => m = k)
      BY <2>2, <2>3, <3>1 DEF Keep
    <3> HIDE DEF m
    <3>3. Kept(p) = Len(out[p]) + Len(chan[p]) /\ Kept(p) + Len(pipe[p]) = Len(sent[p]) /\ Kept(p) \in Nat
      BY <1>3, <3>1, KeptTyped DEF Kept
    <3>4. /\ Piece(chan[p] \o block, sent[p], Len(out[p]))
          /\ Len(chan[p] \o block) = Len(chan[p]) + m
      <4>1. /\ sent[p] \in Seq(Block) /\ pipe[p] \in Seq(Block) /\ out[p] \in Seq(Block) /\ chan[p] \in Seq(Block)
            /\ k \in 1..Len(pipe[p]) /\ m \in 0..k /\ Kept(p) \in Nat
        BY <2>1, <2>2, <3>2, <3>3
      <4>2. Piece(pipe[p], sent[p], Len(sent[p]) - Len(pipe[p])) /\ Piece(chan[p], sent[p], Len(out[p]))
        BY <2>3
      <4>3. Kept(p) = Len(out[p]) + Len(chan[p]) /\ Kept(p) + Len(pipe[p]) = Len(sent[p])
        BY <3>3
      <4>4. Piece(chan[p] \o SubSeq(pipe[p], 1, m), sent[p], Len(out[p]))
        BY <4>1, <4>2, <4>3, ChannelReads
      <4>5. Len(chan[p] \o SubSeq(pipe[p], 1, m)) = Len(chan[p]) + m
        BY <4>1, ChannelGrows, Zenon
      <4>6. QED
        BY <4>4, <4>5
    <3>5. chan'[p] = chan[p] \o block
      BY <2>7 DEF m
    <3> HIDE DEF block
    <3>6. Piece(chan'[p], sent[p], Len(out[p]))
      BY <3>4, <3>5
    <3>7. Kept(p)' = total[p] + m
      <4>1. Kept(p)' = Len(out[p]) + Len(chan'[p])
        BY <1>2 DEF Kept
      <4>2. Len(out[p]) + (Len(chan[p]) + m) = (Len(out[p]) + Len(chan[p])) + m
        <5>1. Len(out[p]) \in Nat /\ Len(chan[p]) \in Nat /\ m \in Nat
          BY <2>2, <3>2
        <5>2. QED
          BY <5>1, Regroup, Zenon
      <4>3. Len(chan'[p]) = Len(chan[p]) + m
        BY <3>4, <3>5
      <4>4. Len(out[p]) + Len(chan[p]) = total[p]
        BY <3>1, <3>3
      <4>5. QED
        BY <4>1, <4>2, <4>3, <4>4, Zenon
    <3>8. Kept(p)' <= MaxBytes /\ Kept(p)' <= Len(sent[p])
      BY <2>1, <2>2, <3>1, <3>2, <3>7
    <3>9. p \in discarding' <=> p \in overflow'
      BY <2>3, <2>7
    <3>10. p \notin overflow' => total'[p] = Kept(p)' /\ total'[p] + Len(rest) = Len(sent[p])
      <4>1. p \notin overflow' => total[p] + k <= MaxBytes
        BY <2>2, <2>7
      <4>2. (total[p] + k) + Len(rest) = Len(sent[p])
        BY <2>2, <2>4, <3>1
      <4>3. QED
        BY <2>7, <3>2, <3>7, <4>1, <4>2
    <3>11. QED
      BY <1>2, <2>0, <2>3, <2>5, <3>6, <3>8, <3>9, <3>10 DEF FlowSound
  <2>8. QED
    BY <2>1, <2>6, <2>7
<1>6. ASSUME NEW p \in Pairs, p = o PROVE PairSound(p)'
  BY <1>2, <1>3, <1>5, <1>6 DEF PairSound
<1>7. QED
  BY <1>4, <1>6

\* A reader ends: at the end of its file nothing was lost, unless it overflowed
\* or failed; one that is stopped belongs to a stream already collected.
LEMMA BreaksPairs ==
  ASSUME SInv, NEW r \in Runs, NEW s \in Streams, ReaderEof(r, s) \/ ReaderStops(r, s) \/ ReaderFails(r, s)
  PROVE  \A p \in Pairs : PairSound(p)'
<1> DEFINE o == <<r, s>>
<1>0. /\ TypeOK /\ o \in Pairs /\ o[1] = r /\ o[2] = s /\ \A p \in Pairs : PairSound(p)
      /\ rdr \in [Pairs -> {"none", "reading", "closing", "gone"}] /\ total \in [Pairs -> Nat]
      /\ pipe \in [Pairs -> Seq(Block)]
  BY PairParts DEF SInv, TypeOK
<1>1. /\ rdr[o] = "reading" /\ rdr' = [rdr EXCEPT ![o] = "closing"] /\ total' = [total EXCEPT ![o] = 0]
      /\ discarding' = discarding \ {o} /\ pipe' = [pipe EXCEPT ![o] = <<>>]
      /\ failed' = failed \/ failed' = failed \cup {o}
      /\ UNCHANGED <<opts, fd, sent, phase, child, chan, overflow, stop, out, outcome>>
  BY DEF ReaderEof, ReaderStops, ReaderFails, ReaderBreaks, stdio
<1>2. \/ pipe[o] = <<>> /\ fd[s] # r /\ o \notin child
      \/ o \in stop
      \/ o \in failed'
  BY DEF ReaderEof, ReaderStops, ReaderFails, WriteEndOpen
<1> HIDE DEF o
<1>3. ASSUME NEW p \in Pairs, p # o PROVE PairSound(p)'
  <2>1. rdr'[p] = rdr[p] /\ total'[p] = total[p] /\ pipe'[p] = pipe[p]
    BY <1>0, <1>1, <1>3
  <2>2. (p \in discarding' <=> p \in discarding) /\ (p \in failed' <=> p \in failed)
    BY <1>1, <1>3
  <2>3. QED
    BY <1>0, <1>1, <2>1, <2>2, PairKept
<1>4. ASSUME NEW p \in Pairs, p = o, p \notin stop, FlowSound(p) PROVE FlowSound(p)'
  <2>1. rdr'[p] = "closing" /\ rdr[p] = "reading" /\ Kept(p)' = Kept(p)
    BY <1>0, <1>1, <1>4 DEF Kept
  <2>2. /\ Piece(out[p], sent[p], 0) /\ Piece(chan[p], sent[p], Len(out[p]))
        /\ Kept(p) <= MaxBytes /\ Kept(p) <= Len(sent[p])
        /\ p \notin overflow => total[p] = Kept(p) /\ total[p] + Len(pipe[p]) = Len(sent[p])
    BY <1>4, <2>1 DEF FlowSound
  <2>3. ASSUME p \notin overflow \cup failed'
        PROVE  Kept(p) = Len(sent[p]) /\ fd[p[2]] # p[1] /\ p \notin child
    <3>1. pipe[p] = <<>> /\ fd[p[2]] # p[1] /\ p \notin child
      BY <1>0, <1>2, <1>4, <2>3
    <3>2. total[p] = Kept(p) /\ total[p] + Len(pipe[p]) = Len(sent[p])
      BY <2>2, <2>3
    <3>3. Len(pipe[p]) = 0 /\ total[p] \in Nat
      BY <1>0, <3>1, EmptyPiece
    <3>4. total[p] = Len(sent[p])
      BY <3>2, <3>3
    <3>5. QED
      BY <3>1, <3>2, <3>4
  <2>4. QED
    BY <1>1, <2>1, <2>2, <2>3 DEF FlowSound
<1>5. ASSUME NEW p \in Pairs, p = o PROVE PairSound(p)'
  <2>1. CASE p \in stop
    BY <1>0, <1>1, <2>1 DEF PairSound, ResultSound
  <2>2. CASE p \notin stop
    BY <1>0, <1>1, <1>4, <1>5, <2>2 DEF PairSound
  <2>3. QED
    BY <2>1, <2>2
<1>6. QED
  BY <1>3, <1>5

\* The channel of a reader is closed after its read end.
LEMMA GonePairs ==
  ASSUME SInv, NEW r \in Runs, NEW s \in Streams, ReaderGone(r, s)
  PROVE  \A p \in Pairs : PairSound(p)'
<1> DEFINE o == <<r, s>>
<1>0. /\ o \in Pairs /\ \A p \in Pairs : PairSound(p)
      /\ rdr \in [Pairs -> {"none", "reading", "closing", "gone"}]
  BY PairParts DEF SInv, TypeOK
<1>1. /\ rdr[o] = "closing" /\ rdr' = [rdr EXCEPT ![o] = "gone"]
      /\ UNCHANGED <<opts, fd, sent, phase, pipe, child, total, discarding, failed, chan, overflow, stop, out,
                     outcome>>
  BY DEF ReaderGone, stdio, count
<1> HIDE DEF o
<1>2. ASSUME NEW p \in Pairs, p # o PROVE PairSound(p)'
  <2>1. rdr'[p] = rdr[p]
    BY <1>0, <1>1, <1>2
  <2>2. QED
    BY <1>0, <1>1, <2>1, PairKept
<1>3. ASSUME NEW p \in Pairs, p = o PROVE PairSound(p)'
  <2>1. rdr'[p] = "gone" /\ rdr[p] = "closing" /\ Kept(p)' = Kept(p)
    BY <1>0, <1>1, <1>3 DEF Kept
  <2>2. FlowSound(p) => FlowSound(p)'
    BY <1>1, <2>1 DEF FlowSound
  <2>3. CASE p \in stop
    BY <1>0, <1>1, <2>3 DEF PairSound, ResultSound
  <2>4. CASE p \notin stop
    BY <1>0, <1>1, <2>2, <2>4 DEF PairSound
  <2>5. QED
    BY <2>3, <2>4
<1>4. QED
  BY <1>2, <1>3

\* The collector takes a block from the channel.
LEMMA CollectPairs ==
  ASSUME SInv, NEW r \in Runs, NEW s \in Streams, CollectBlock(r, s)
  PROVE  \A p \in Pairs : PairSound(p)'
<1> DEFINE o == <<r, s>>
<1>0. /\ TypeOK /\ o \in Pairs /\ \A p \in Pairs : PairSound(p)
      /\ chan \in [Pairs -> Seq(Block)] /\ out \in [Pairs -> Seq(Block)]
  BY PairParts DEF SInv, TypeOK
<1>1. /\ chan[o] # <<>> /\ o \notin stop
      /\ out' = [out EXCEPT ![o] = Append(@, Head(chan[o]))] /\ chan' = [chan EXCEPT ![o] = Tail(@)]
      /\ UNCHANGED <<opts, fd, sent, phase, pipe, child, rdr, total, discarding, failed, overflow, stop, outcome>>
  BY DEF CollectBlock, Collecting, stdio, reader, count
<1> HIDE DEF o
<1>2. ASSUME NEW p \in Pairs, p # o PROVE PairSound(p)'
  <2>1. chan'[p] = chan[p] /\ out'[p] = out[p]
    BY <1>0, <1>1, <1>2
  <2>2. QED
    BY <1>0, <1>1, <2>1, PairKept
<1>3. ASSUME NEW p \in Pairs, p = o, FlowSound(p) PROVE FlowSound(p)'
  <2>1. out'[p] = Append(out[p], Head(chan[p])) /\ chan'[p] = Tail(chan[p]) /\ chan[p] # <<>>
    BY <1>0, <1>1, <1>3
  <2>2. chan[p] \in Seq(Block) /\ out[p] \in Seq(Block)
    BY <1>0
  <2>3. Piece(out[p], sent[p], 0) /\ Piece(chan[p], sent[p], Len(out[p]))
    BY <1>3 DEF FlowSound
  <2>4. /\ Len(out'[p]) = Len(out[p]) + 1 /\ Len(chan'[p]) = Len(chan[p]) - 1
        /\ Piece(out'[p], sent[p], 0) /\ Piece(chan'[p], sent[p], Len(out[p]) + 1)
    BY <2>1, <2>2, <2>3, PieceMoves
  <2>5. Kept(p)' = Kept(p)
    <3>1. Len(out[p]) \in Nat /\ Len(chan[p]) \in Nat
      BY <2>2, LenProperties
    <3>2. \A i, j \in Nat : (i + 1) + (j - 1) = i + j
      OBVIOUS
    <3>3. (Len(out[p]) + 1) + (Len(chan[p]) - 1) = Len(out[p]) + Len(chan[p])
      BY <3>1, <3>2, Zenon
    <3>4. QED
      BY <2>4, <3>3, Zenon DEF Kept
  <2>6. Piece(chan'[p], sent[p], Len(out'[p]))
    BY <2>4
  <2>7. QED
    BY <1>1, <1>3, <2>4, <2>5, <2>6 DEF FlowSound
<1>4. ASSUME NEW p \in Pairs, p = o PROVE PairSound(p)'
  BY <1>0, <1>1, <1>3, <1>4 DEF PairSound
<1>5. QED
  BY <1>2, <1>4

\* The result of a run only gets worse.
LEMMA ResultWorsens ==
  ASSUME TypeOK, NEW r \in Runs, outcome[r] \notin {"none", "refused", "dropped"},
         NEW how \in {"ok", "truncated", "capture_error"},
         outcome' = [outcome EXCEPT ![r] =
                       IF @ \in {"script_error", "capture_error", "dropped"} \/ how = "ok" THEN @ ELSE how]
  PROVE  /\ outcome'[r] = "ok" => outcome[r] = "ok" /\ how = "ok"
         /\ outcome'[r] \in {"ok", "truncated"} => outcome[r] \in {"ok", "truncated"}
         /\ outcome'[r] \notin {"none", "refused", "dropped"}
         /\ \A q \in Runs : q # r => outcome'[q] = outcome[q]
<1>1. outcome \in [Runs -> {"none", "refused", "ok", "truncated", "script_error", "capture_error", "dropped"}]
  BY DEF TypeOK
<1>2. outcome'[r] = IF outcome[r] \in {"script_error", "capture_error", "dropped"} \/ how = "ok"
                    THEN outcome[r] ELSE how
  BY <1>1
<1>3. outcome[r] \in {"ok", "truncated", "script_error", "capture_error"}
  BY <1>1
<1>4. QED
  BY <1>1, <1>2, <1>3

\* A stream is collected: to its end, or what arrived in time.
LEMMA CollectsPairs ==
  ASSUME SInv, NEW r \in Runs, NEW s \in Streams, CollectEnds(r, s) \/ CollectTimesOut(r, s)
  PROVE  \A p \in Pairs : PairSound(p)'
<1> DEFINE o == <<r, s>>
<1>0. /\ TypeOK /\ o \in Pairs /\ o[1] = r /\ o[2] = s /\ \A p \in Pairs : PairSound(p)
      /\ chan \in [Pairs -> Seq(Block)] /\ pipe \in [Pairs -> Seq(Block)]
      /\ outcome \in [Runs -> {"none", "refused", "ok", "truncated", "script_error", "capture_error",
                               "dropped"}]
  BY PairParts DEF SInv, TypeOK
<1>1. PICK how \in {"ok", "truncated", "capture_error"} :
        /\ Collects(r, s, how)
        /\ how = "ok" => chan[o] = <<>> /\ rdr[o] = "gone" /\ o \notin failed \cup overflow
  <2>1. CASE CollectEnds(r, s)
    <3> DEFINE how == IF o \in failed THEN "capture_error" ELSE IF o \in overflow THEN "truncated" ELSE "ok"
    <3>1. /\ Collects(r, s, how) /\ chan[o] = <<>> /\ rdr[o] = "gone"
      BY <2>1 DEF CollectEnds
    <3>2. how \in {"ok", "truncated", "capture_error"} /\ (how = "ok" => o \notin failed \cup overflow)
      OBVIOUS
    <3> HIDE DEF how
    <3>3. QED
      BY <3>1, <3>2
  <2>2. CASE CollectTimesOut(r, s)
    BY <2>2 DEF CollectTimesOut
  <2>3. QED
    BY <2>1, <2>2
<1>2. /\ o \notin stop /\ phase[r] \in {"collect", "abandoned"} /\ s \in opts[r].streams
  BY DEF CollectEnds, CollectTimesOut, Collecting
<1>3. /\ stop' = stop \cup {o} /\ chan' = [chan EXCEPT ![o] = <<>>] /\ pipe' = [pipe EXCEPT ![o] = <<>>]
      /\ overflow' = overflow \ {o}
      /\ outcome' = [outcome EXCEPT ![r] =
                       IF @ \in {"script_error", "capture_error", "dropped"} \/ how = "ok" THEN @ ELSE how]
      /\ UNCHANGED <<opts, fd, sent, phase, child, rdr, total, discarding, failed, out>>
  BY <1>1 DEF Collects, stdio, reader, count
<1> HIDE DEF o
<1>4. \A q \in Runs : q # r => outcome'[q] = outcome[q]
  BY <1>0, <1>3
<1>5. ASSUME NEW p \in Pairs, p # o PROVE PairSound(p)'
  <2>0. p[1] \in Runs
    BY PairParts
  <2>1. chan'[p] = chan[p] /\ pipe'[p] = pipe[p]
    BY <1>0, <1>3, <1>5
  <2>2. (p \in stop' <=> p \in stop) /\ (p \in overflow' <=> p \in overflow)
    BY <1>3, <1>5
  <2>3. CASE p[1] = r /\ phase[r] = "collect" /\ p[2] \in opts[r].streams /\ p \in stop
    <3>1. outcome[r] \notin {"none", "refused", "dropped"}
      BY <2>3 DEF SInv, RunSound
    <3>2. /\ outcome'[r] = "ok" => outcome[r] = "ok"
          /\ outcome'[r] \in {"ok", "truncated"} => outcome[r] \in {"ok", "truncated"}
      BY <1>0, <1>3, <3>1, ResultWorsens
    <3>3. ResultSound(p) /\ \A i \in 1..Len(sent[p]) : sent[p][i] # "before"
      BY <1>0, <2>3 DEF PairSound, Live, Leased
    <3>4. ResultSound(p)'
      BY <1>3, <2>3, <3>2, <3>3 DEF ResultSound
    <3>5. QED
      BY <1>3, <2>3, <3>3, <3>4 DEF PairSound
  <2>4. CASE p[1] # r
    BY <1>0, <1>3, <1>4, <2>0, <2>1, <2>2, <2>4, PairKept
  <2>5. CASE p[1] = r /\ p[2] \in opts[r].streams /\ p \notin stop
    <3>1. Kept(p)' = Kept(p)
      BY <1>3, <2>1 DEF Kept
    <3>2. FlowSound(p) => FlowSound(p)'
      BY <1>3, <2>1, <2>2, <3>1 DEF FlowSound
    <3>3. QED
      BY <1>0, <1>3, <2>2, <2>5, <3>2 DEF PairSound
  <2>6. CASE p[1] = r /\ ~(phase[r] = "collect" /\ p[2] \in opts[r].streams)
    <3>1. ~(phase'[p[1]] \in Live /\ p[2] \in opts'[p[1]].streams)
      BY <1>2, <1>3, <2>6 DEF Live, Leased
    <3>2. QED
      BY <3>1 DEF PairSound
  <2>7. QED
    BY <2>3, <2>4, <2>5, <2>6
<1>6. ASSUME NEW p \in Pairs, p = o PROVE PairSound(p)'
  <2>0. p[1] = r /\ p[2] = s /\ p \in stop'
    BY <1>0, <1>3, <1>6
  <2>1. CASE phase[r] = "collect"
    <3>1. FlowSound(p) /\ \A i \in 1..Len(sent[p]) : sent[p][i] # "before"
      BY <1>0, <1>2, <1>6, <2>0, <2>1 DEF PairSound, Live, Leased
    <3>2. outcome[r] \notin {"none", "refused", "dropped"}
      BY <1>2, <2>1 DEF SInv, RunSound
    <3>3. outcome'[r] = "ok" => how = "ok"
      BY <1>0, <1>3, <3>2, ResultWorsens
    <3>4. Kept(p) \in Nat /\ Len(out[p]) \in Nat /\ Len(out[p]) <= Kept(p) /\ MaxBytes \in Nat
          /\ Len(sent[p]) \in Nat
      BY <1>0, KeptTyped, PairTyped, CaptureAssumption
    <3>5. Piece(out[p], sent[p], 0) /\ Kept(p) <= MaxBytes /\ Kept(p) <= Len(sent[p])
      BY <3>1 DEF FlowSound
    <3>6. Len(out[p]) <= Len(sent[p]) /\ Len(out[p]) <= MaxBytes
      BY <3>4, <3>5
    <3>7. ASSUME how = "ok" PROVE Len(out[p]) = Len(sent[p])
      <4>1. Kept(p) = Len(sent[p])
        BY <1>1, <1>6, <3>1, <3>7 DEF FlowSound
      <4>2. Len(chan[p]) = 0
        BY <1>1, <1>6, <3>7, EmptyPiece
      <4>3. \A i \in Nat : i + 0 = i
        OBVIOUS
      <4>4. QED
        BY <3>4, <4>1, <4>2, <4>3, Zenon DEF Kept
    <3>8. ResultSound(p)'
      BY <1>3, <2>0, <3>3, <3>5, <3>6, <3>7 DEF ResultSound
    <3>9. QED
      BY <1>3, <2>0, <2>1, <3>1, <3>8 DEF PairSound
  <2>2. CASE phase[r] # "collect"
    BY <1>2, <1>3, <2>0, <2>2 DEF PairSound, Live, Leased
  <2>3. QED
    BY <2>1, <2>2
<1>7. QED
  BY <1>5, <1>6

-----------------------------------------------------------------------------
(* The invariant holds. *)

\* Before the first run nothing is redirected.
LEMMA InitSound == Init => SInv
<1> SUFFICES ASSUME Init PROVE SInv
  OBVIOUS
<1>0. Host \notin Runs /\ <<"before">> \in Seq(Block) /\ <<>> \in Seq(Block)
  BY CaptureAssumption, EmptySeq DEF Block
<1>1. TypeOK
  <2>1. /\ opts \in RunOptions /\ fd \in [Streams -> Runs \cup {Host}]
        /\ terminal \in [Streams -> SUBSET Runs] /\ lease \subseteq Runs /\ async \in Runs \cup {Host}
        /\ rdr \in [Pairs -> {"none", "reading", "closing", "gone"}] /\ total \in [Pairs -> Nat]
        /\ child \cup discarding \cup failed \cup overflow \cup stop \subseteq Pairs
    BY DEF Init
  <2>2. /\ phase \in [Runs -> Phases]
        /\ outcome \in [Runs -> {"none", "refused", "ok", "truncated", "script_error", "capture_error", "dropped"}]
    BY DEF Init, Phases
  <2>3. /\ hostbuf \in [Streams -> Seq(Block)]
        /\ pipe \in [Pairs -> Seq(Block)] /\ chan \in [Pairs -> Seq(Block)]
        /\ out \in [Pairs -> Seq(Block)] /\ sent \in [Pairs -> Seq(Block)]
    BY <1>0 DEF Init
  <2>4. QED
    BY <2>1, <2>2, <2>3 DEF TypeOK
<1>2. HostPrinted
  BY DEF Init, HostPrinted
<1>3. LeaseSound
  BY DEF Init, LeaseSound, Leased
<1>4. \A s \in Streams : FdSound(s)
  BY <1>0 DEF Init, FdSound
<1>5. ASSUME NEW r \in Runs PROVE RunSound(r)
  <2>1. opts[r].streams \subseteq Streams
    BY <1>1, OptionsTyped
  <2>2. ASSUME NEW s \in opts[r].streams PROVE rdr[<<r, s>>] = "none" /\ terminal[s] = {} /\ phase[r] = "idle"
    BY <2>1, PairParts DEF Init
  <2>3. QED
    BY <2>2 DEF RunSound, Flushed
<1>6. ASSUME NEW p \in Pairs PROVE PairSound(p)
  <2>1. /\ out[p] = <<>> /\ chan[p] = <<>> /\ sent[p] = <<>> /\ pipe[p] = <<>> /\ total[p] = 0 /\ rdr[p] = "none"
        /\ p \notin child \cup discarding \cup failed \cup overflow /\ p \notin stop
    BY DEF Init
  <2>2. Len(<<>>) = 0 /\ \A whole, a : Piece(<<>>, whole, a)
    BY EmptyPiece
  <2>3. Kept(p) = 0 /\ MaxBytes \in Nat
    BY <2>1, <2>2, CaptureAssumption DEF Kept
  <2>4. Kept(p) <= MaxBytes /\ Kept(p) <= Len(sent[p])
    <3>1. Len(sent[p]) = 0
      BY <2>1, <2>2
    <3>2. QED
      BY <2>3, <3>1
  <2>5. FlowSound(p)
    BY <2>1, <2>2, <2>4 DEF FlowSound
  <2>6. \A i \in 1..Len(sent[p]) : sent[p][i] # "before"
    <3>1. Len(sent[p]) = 0
      BY <2>1, <2>2
    <3>2. QED
      BY <3>1
  <2>7. QED
    BY <2>1, <2>5, <2>6 DEF PairSound
<1>7. QED
  BY <1>1, <1>2, <1>3, <1>4, <1>5, <1>6 DEF SInv

\* The reader of a redirected stream is neither stopped, nor failed before it
\* began.
LEMMA Redirected ==
  ASSUME SInv, NEW r \in Runs, NEW s \in Streams, fd[s] = r
  PROVE  <<r, s>> \notin stop /\ (<<r, s>> \in failed => Open(r, s))
<1>1. s \in opts[r].streams /\ phase[r] \in {"open", "script", "restore"}
  BY DEF SInv, FdSound
<1> DEFINE p == <<r, s>>
<1>2. p \in Pairs /\ p[1] = r /\ p[2] = s /\ PairSound(p)
  BY PairParts DEF SInv
<1>3. p \notin stop /\ FlowSound(p)
  BY <1>1, <1>2 DEF PairSound, Live, Leased
<1>4. QED
  BY <1>3 DEF FlowSound, Open

\* Every step keeps the invariant.
LEMMA StepSound == SInv /\ [Next]_vars => SInv'
<1> SUFFICES ASSUME SInv, [Next]_vars PROVE SInv'
  OBVIOUS
<1>0. TypeOK /\ StdSound
  BY DEF SInv, StdSound
<1>1. SUFFICES TypeOK' /\ StdSound' /\ \A p \in Pairs : PairSound(p)'
  BY DEF SInv, StdSound
<1>2. ASSUME NEW r \in Runs, EnterGuard(r) \/ TakeLease(r) \/ CheckPrompt(r) \/ Refuse(r) \/ Flush(r) \/ StartScript(r)
      PROVE  TypeOK' /\ StdSound' /\ \A p \in Pairs : PairSound(p)'
  BY <1>0, <1>2, OpensTyped, AdmitStd, PhasePairs DEF Opens
<1>3. ASSUME NEW r \in Runs, NEW s \in Streams, OpenStream(r, s)
      PROVE  TypeOK' /\ StdSound' /\ \A p \in Pairs : PairSound(p)'
  BY <1>0, <1>3, OpensTyped, OpenStreamStd, OpenStreamPairs DEF Opens
<1>4. ASSUME NEW r \in Runs, (\E s \in Streams : OpenFails(r, s)) \/ DropFuture(r)
      PROVE  TypeOK' /\ StdSound' /\ \A p \in Pairs : PairSound(p)'
  <2>1. \A s \in Streams : fd[s] = r /\ <<r, s>> \in failed => Open(r, s)
    BY Redirected
  <2>2. TypeOK'
    BY <1>0, <1>4, OpensTyped, EndsTyped DEF Opens
  <2>3. StdSound'
    BY <1>0, <1>4, <2>1, DropsStd
  <2>4. QED
    BY <1>4, <2>2, <2>3, ExitPairs
<1>5. ASSUME NEW r \in Runs, World(r)
      PROVE  TypeOK' /\ StdSound' /\ \A p \in Pairs : PairSound(p)'
  BY <1>0, <1>5, WorldTyped, WorldStd, WorldPairs DEF World
<1>6. ASSUME NEW r \in Runs, NEW s \in Streams, Reader(r, s) \/ ReaderFails(r, s)
      PROVE  TypeOK' /\ StdSound' /\ \A p \in Pairs : PairSound(p)'
  <2>1. TypeOK'
    BY <1>0, <1>6, ReaderTyped DEF Reader
  <2>2. StdSound'
    BY <1>0, <1>6, Redirected, ReaderStd DEF Reader
  <2>3. QED
    BY <1>6, <2>1, <2>2, ReadsPairs, BreaksPairs, GonePairs DEF Reader
<1>7. ASSUME NEW r \in Runs, ScriptEnds(r) \/ Restore(r) \/ Finish(r) \/ DropCollecting(r)
      PROVE  TypeOK' /\ StdSound' /\ \A p \in Pairs : PairSound(p)'
  <2>1. TypeOK'
    BY <1>0, <1>7, EndsTyped DEF Collector
  <2>2. StdSound'
    BY <1>0, <1>7, EndsStd
  <2>3. QED
    BY <1>7, <2>1, <2>2, PhasePairs, RestorePairs, ExitPairs
<1>8. ASSUME NEW r \in Runs, NEW s \in Streams, CollectBlock(r, s) \/ CollectEnds(r, s) \/ CollectTimesOut(r, s)
      PROVE  TypeOK' /\ StdSound' /\ \A p \in Pairs : PairSound(p)'
  <2>1. TypeOK'
    BY <1>0, <1>8, EndsTyped DEF Collector
  <2>2. CollectEnds(r, s) \/ CollectTimesOut(r, s) =>
          \E how \in {"ok", "truncated", "capture_error"} : Collecting(r, s) /\ Collects(r, s, how)
    BY DEF CollectEnds, CollectTimesOut
  <2>3. StdSound'
    BY <1>0, <1>8, <2>2, EndsStd
  <2>4. QED
    BY <1>8, <2>1, <2>3, CollectPairs, CollectsPairs
<1>10. ASSUME NEW r \in Runs, NEW s \in Streams, FlushFails(r, s)
      PROVE  TypeOK' /\ StdSound' /\ \A p \in Pairs : PairSound(p)'
  BY <1>0, <1>10, OpensTyped, FlushFailsStd, ExitPairs DEF Opens
<1>9. ASSUME UNCHANGED vars PROVE TypeOK' /\ StdSound' /\ \A p \in Pairs : PairSound(p)'
  <2>1. UNCHANGED <<opts, fd, hostbuf, terminal, sent, lease, async, phase, pipe, child, rdr, total,
                    discarding, failed, chan, overflow, stop, out, outcome>>
    BY <1>9 DEF vars
  <2>2. TypeOK'
    BY <1>0, <2>1 DEF TypeOK
  <2>3. StdSound'
    BY <1>0, <2>1, StdKept
  <2>4. \A p \in Pairs : PairSound(p)'
    BY <2>1, PairKept DEF SInv
  <2>5. QED
    BY <2>2, <2>3, <2>4
<1>11. QED
  <2>1. CASE UNCHANGED vars
    BY <1>9, <2>1
  <2>2. CASE Next
    <3>1. PICK r \in Runs : \/ Opens(r) \/ World(r) \/ ScriptEnds(r) \/ Collector(r)
                            \/ DropFuture(r) \/ DropCollecting(r)
                            \/ \E s \in Streams : Reader(r, s) \/ ReaderFails(r, s)
      BY <2>2 DEF Next
    <3>2. CASE Opens(r)
      BY <1>2, <1>3, <1>4, <1>10, <3>2 DEF Opens
    <3>3. CASE Collector(r)
      BY <1>7, <1>8, <3>3 DEF Collector
    <3>4. QED
      BY <1>4, <1>5, <1>6, <1>7, <3>1, <3>2, <3>3
  <2>3. QED
    BY <2>1, <2>2

\* SInv is an invariant of the specification.
LEMMA CaptureInvariant == Spec => []SInv
BY InitSound, StepSound, PTL DEF Spec

\* stdout and stderr are the host's again after every path out of a run: a
\* stream that is redirected belongs to the one run that holds the lease, and
\* has a reader, unless that reader failed (output.rs 56-115, 640-655).
THEOREM StdioIsGivenBack == Spec => []Inv
<1>1. SInv => Inv
  <2> SUFFICES ASSUME SInv PROVE Inv
    OBVIOUS
  <2>0. TypeOK /\ StdSound
    BY DEF SInv, StdSound
  <2>1. ASSUME NEW s \in Streams, fd[s] # Host
        PROVE  /\ lease = {fd[s]} /\ s \in opts[fd[s]].streams
               /\ rdr[<<fd[s], s>>] = "reading" \/ <<fd[s], s>> \in failed
    <3>1. fd[s] \in Runs
      BY <2>0, <2>1 DEF TypeOK
    <3>2. /\ s \in opts[fd[s]].streams /\ phase[fd[s]] \in Leased
          /\ rdr[<<fd[s], s>>] = "reading" \/ <<fd[s], s>> \in failed
      BY <3>1 DEF SInv, FdSound, Leased
    <3>3. lease = {fd[s]}
      BY <2>0, <3>1, <3>2 DEF StdSound, LeaseSound, Captures, TypeOK
    <3>4. QED
      BY <3>2, <3>3
  <2>2. QED
    BY <2>0, <2>1 DEF Inv, StdioRestored
<1>2. QED
  BY <1>1, CaptureInvariant, PTL

\* A capture is the run's own output: all of it when the run succeeds, the
\* first blocks of it when it is truncated, nothing the host printed before,
\* and nothing of it on the host's own stdout or stderr (output.rs 452-520).
THEOREM OutputIsOwn == Spec => []CaptureIsOwn
<1>1. SInv => CaptureIsOwn
  <2> SUFFICES ASSUME SInv PROVE CaptureIsOwn
    OBVIOUS
  <2>1. ASSUME NEW r \in Runs, NEW s \in Streams, phase[r] = "collect", AllCollected(r), s \in opts[r].streams
        PROVE  /\ outcome[r] = "ok" => out[<<r, s>>] = sent[<<r, s>>] /\ Len(out[<<r, s>>]) <= MaxBytes
               /\ outcome[r] = "truncated" =>
                    out[<<r, s>>] = SubSeq(sent[<<r, s>>], 1, Len(out[<<r, s>>])) /\ Len(out[<<r, s>>]) <= MaxBytes
               /\ outcome[r] \in {"ok", "truncated"} => ~Contains(out[<<r, s>>], "before")
    <3> DEFINE p == <<r, s>>
    <3>1. p \in Pairs /\ p[1] = r /\ p[2] = s /\ PairSound(p) /\ TypeOK /\ p \in stop
      BY <2>1, PairParts DEF SInv, AllCollected
    <3>2. ResultSound(p) /\ \A i \in 1..Len(sent[p]) : sent[p][i] # "before"
      BY <2>1, <3>1 DEF PairSound, Live, Leased
    <3>3. out[p] \in Seq(Block) /\ sent[p] \in Seq(Block) /\ Len(out[p]) \in Nat /\ Len(sent[p]) \in Nat
      BY <3>1, PairTyped
    <3> HIDE DEF p
    <3>4. ASSUME outcome[r] \in {"ok", "truncated"}
          PROVE  /\ Len(out[p]) <= MaxBytes /\ Piece(out[p], sent[p], 0) /\ Len(out[p]) <= Len(sent[p])
                 /\ out[p] = SubSeq(sent[p], 1, Len(out[p]))
                 /\ Len(out[p]) = Len(sent[p]) => out[p] = sent[p]
      <4>1. Piece(out[p], sent[p], 0) /\ Len(out[p]) <= Len(sent[p]) /\ Len(out[p]) <= MaxBytes
        BY <3>1, <3>2, <3>4 DEF ResultSound
      <4>2. QED
        BY <3>3, <4>1, PieceIsPrefix
    <3>5. ASSUME outcome[r] \in {"ok", "truncated"} PROVE ~Contains(out[p], "before")
      <4>1. ASSUME NEW i \in 1..Len(out[p]) PROVE out[p][i] # "before"
        <5>1. out[p][i] = sent[p][0 + i]
          BY <3>4, <3>5 DEF Piece
        <5>2. 0 + i = i /\ i \in 1..Len(sent[p])
          BY <3>3, <3>4, <3>5
        <5>3. QED
          BY <3>2, <5>1, <5>2
      <4>2. QED
        BY <4>1 DEF Contains
    <3>6. outcome[r] = "ok" => Len(out[p]) = Len(sent[p])
      BY <3>1, <3>2 DEF ResultSound
    <3>7. QED
      BY <3>4, <3>5, <3>6 DEF p
  <2>2. \A s \in Streams, r \in Runs : s \in opts[r].streams => r \notin terminal[s]
    BY DEF SInv, RunSound
  <2>3. QED
    BY <2>1, <2>2 DEF CaptureIsOwn
<1>2. QED
  BY <1>1, CaptureInvariant, PTL

=============================================================================
