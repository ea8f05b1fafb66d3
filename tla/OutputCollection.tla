-------------------------- MODULE OutputCollection --------------------------
(***************************************************************************)
(* The output of a child process (src/subprocess.rs, src/pipe_read.rs,     *)
(* src/budget.rs): one detached reader thread per captured stream drains   *)
(* its pipe into a channel, at most max_bytes of it, and the run collects  *)
(* the channels within a time limit once the child is gone.  A descendant  *)
(* of the child may have inherited the write end of a pipe and keep it     *)
(* open, so a reader is never joined: it holds a slot of a process-wide    *)
(* budget until it notices that its collector is gone.                     *)
(* A byte is its position in the stream, so that lost, repeated or         *)
(* reordered bytes show.                                                   *)
(***************************************************************************)
EXTENDS Naturals, Sequences, FiniteSets

CONSTANTS Capture,      \* the captured streams
          MaxBytes,     \* max_capture_bytes per stream
          Chunk,        \* size of a reader's buffer
          PipeCap,      \* capacity of a pipe
          Slots,        \* MAX_ACTIVE_SUBPROCESS_OUTPUT_READERS
          Deadlines,    \* whether collect may have an effective deadline, or none
          Faults,       \* whether a read or the start of a reader may fail
          Writes,       \* bytes written to each stream (a bound)
          Others        \* slots other runs may use (a bound)

ASSUME CollectionAssumption ==
  /\ Capture \subseteq {"stdout", "stderr"}
  /\ {MaxBytes, Others} \subseteq Nat /\ Writes \in [Capture -> Nat]
  /\ {Chunk, PipeCap, Slots} \subseteq Nat \ {0}
  /\ Deadlines \subseteq BOOLEAN /\ Faults \in BOOLEAN

VARIABLES
  child, held,     \* the direct child; streams a descendant keeps open
  written, pipe,   \* bytes written to each stream; bytes in its pipe
  reader, buf,     \* control point of each reader; what it has read
  retained, discarding, overflow, rerr,  \* of each reader
  stop,            \* readers whose collector is gone
  slot, others,    \* readers that hold a slot; slots of other runs
  chan,            \* messages from each reader
  collector,       \* control point of the run
  out, done, ferr, drained,              \* SubprocessOutputStream
  incomplete, truncated                  \* SubprocessOutputCapture

writer  == <<child, held, written>>
readerv == <<reader, buf, retained, discarding, overflow, rerr>>
budget  == <<slot, others>>
collv   == <<collector, out, done, ferr, drained, incomplete, truncated>>
vars    == <<writer, pipe, readerv, stop, budget, chan, collv>>

Active == Cardinality(slot) + others
Least(a, b) == IF a < b THEN a ELSE b
Finished == [kind |-> "finished", bytes |-> <<>>]
Failed   == [kind |-> "failed", bytes |-> <<>>]
Data(b)  == [kind |-> "data", bytes |-> b]

Init ==
  /\ child = "run" /\ held \in SUBSET Capture
  /\ written = [s \in Capture |-> 0] /\ pipe = [s \in Capture |-> <<>>]
  /\ reader = [s \in Capture |-> "none"] /\ buf = [s \in Capture |-> <<>>]
  /\ retained = [s \in Capture |-> 0]
  /\ discarding = {} /\ overflow = {} /\ rerr = {} /\ stop = {}
  /\ slot = {} /\ others = 0
  /\ chan = [s \in Capture |-> <<>>]
  /\ collector = "take"
  /\ out = [s \in Capture |-> <<>>] /\ done = {} /\ ferr = {} /\ drained = {}
  /\ incomplete = FALSE /\ truncated = {}

-----------------------------------------------------------------------------
(* The child and its descendants. *)

Open(s) == child = "run" \/ s \in held

\* A full pipe blocks the writer; one whose reader is gone is broken.
WriteByte(s) ==
  /\ Open(s) /\ written[s] < Writes[s] /\ Len(pipe[s]) < PipeCap
  /\ reader[s] \notin {"announce", "gone"}
  /\ reader[s] = "none" => collector = "take"
  /\ written' = [written EXCEPT ![s] = @ + 1]
  /\ pipe' = [pipe EXCEPT ![s] = Append(@, written[s] + 1)]
  /\ UNCHANGED <<child, held, readerv, stop, budget, chan, collv>>

ChildExits ==
  /\ child = "run"
  /\ child' = "gone"
  /\ UNCHANGED <<held, written, pipe, readerv, stop, budget, chan, collv>>

DescendantCloses(s) ==
  /\ s \in held
  /\ held' = held \ {s}
  /\ UNCHANGED <<child, written, pipe, readerv, stop, budget, chan, collv>>

\* Captures of other runs come and go.
OtherReserves ==
  /\ Active < Slots /\ others < Others
  /\ others' = others + 1
  /\ UNCHANGED <<writer, pipe, readerv, stop, slot, chan, collv>>

OtherReleases ==
  /\ others > 0
  /\ others' = others - 1
  /\ UNCHANGED <<writer, pipe, readerv, stop, slot, chan, collv>>

-----------------------------------------------------------------------------
(* SubprocessOutputReaders::take: stdout first. *)

SlotFree == Active < Slots

IsNext(s) == /\ collector = "take" /\ reader[s] = "none"
             /\ s = "stderr" /\ "stdout" \in Capture => reader["stdout"] # "none"

TakeReader(s) ==
  /\ IsNext(s) /\ SlotFree
  /\ reader' = [reader EXCEPT ![s] = "wait"]
  /\ slot' = slot \cup {s}
  /\ UNCHANGED <<writer, pipe, buf, retained, discarding, overflow, rerr, stop,
                 others, chan, collv>>

\* No slot, or no thread: the child is killed, the pipe without a reader is dropped, and a
\* reader that exists loses its collector.
TakeFails(s) ==
  /\ IsNext(s) /\ (~SlotFree \/ Faults)
  /\ collector' = "failed"
  /\ child' = "gone"
  /\ stop' = Capture
  /\ pipe' = [t \in Capture |-> IF reader[t] = "none" THEN <<>> ELSE pipe[t]]
  /\ UNCHANGED <<held, written, readerv, budget, chan, out, done, ferr,
                 drained, incomplete, truncated>>

TakeDone ==
  /\ collector = "take" /\ \A s \in Capture : reader[s] # "none"
  /\ collector' = "session"
  /\ UNCHANGED <<writer, pipe, readerv, stop, budget, chan, out, done, ferr,
                 drained, incomplete, truncated>>

-----------------------------------------------------------------------------
(* drain_pipe_to_channel. *)

At(s, step) == reader' = [reader EXCEPT ![s] = step]

\* wait_readable returns true, then read: a buffer of bytes, or none at the end.
ReaderReadsLate(s) ==
  /\ reader[s] = "wait" /\ (pipe[s] # <<>> \/ ~Open(s))
  /\ collector \notin {"take", "session"}
  /\ LET n == Least(Chunk, Len(pipe[s])) IN
       /\ buf' = [buf EXCEPT ![s] = SubSeq(pipe[s], 1, n)]
       /\ pipe' = [pipe EXCEPT ![s] = SubSeq(@, n + 1, Len(@))]
  /\ At(s, "check")
  /\ UNCHANGED <<writer, retained, discarding, overflow, rerr, stop, budget, chan,
                 collv>>
ReaderReads(s) ==
  /\ reader[s] = "wait" /\ (pipe[s] # <<>> \/ ~Open(s))
  /\ LET n == Least(Chunk, Len(pipe[s])) IN
       /\ buf' = [buf EXCEPT ![s] = SubSeq(pipe[s], 1, n)]
       /\ pipe' = [pipe EXCEPT ![s] = SubSeq(@, n + 1, Len(@))]
  /\ At(s, "check")
  /\ UNCHANGED <<writer, retained, discarding, overflow, rerr, stop, budget, chan,
                 collv>>

\* wait_readable looks at stop in slices, so a silent pipe cannot pin it.
ReaderStopsBlocked(s) ==
  /\ reader[s] = "wait" /\ s \in stop /\ pipe[s] # <<>>
  /\ At(s, "release")
  /\ UNCHANGED <<writer, pipe, buf, retained, discarding, overflow, rerr, stop,
                 budget, chan, collv>>
ReaderStops(s) ==
  /\ reader[s] = "wait" /\ s \in stop
  /\ At(s, "release")
  /\ UNCHANGED <<writer, pipe, buf, retained, discarding, overflow, rerr, stop,
                 budget, chan, collv>>

ReaderErrs(s) ==
  /\ reader[s] = "wait" /\ Faults
  /\ At(s, "release") /\ rerr' = rerr \cup {s}
  /\ UNCHANGED <<writer, pipe, buf, retained, discarding, overflow, stop, budget,
                 chan, collv>>

\* stop is looked at after the read, so that an active run keeps draining.
AfterRead(s) ==
  CASE s \in stop \/ buf[s] = <<>> -> "release"
    [] s \notin stop /\ buf[s] # <<>> /\ s \in discarding -> "wait"
    [] OTHER -> "send"

ReaderChecks(s) ==
  /\ reader[s] = "check"
  /\ At(s, AfterRead(s))
  /\ UNCHANGED <<writer, pipe, buf, retained, discarding, overflow, rerr, stop,
                 budget, chan, collv>>

\* What is left of max_bytes is kept; a send to a collector that is gone ends
\* the reader.
Keep(s) == Least(MaxBytes - retained[s], Len(buf[s]))

ReaderSends(s) ==
  /\ reader[s] = "send"
  /\ IF Keep(s) > 0 /\ s \in stop
       THEN At(s, "release") /\ UNCHANGED <<chan, retained>>
       ELSE /\ At(s, IF Len(buf[s]) > Keep(s) THEN "overflow" ELSE "wait")
            /\ retained' = [retained EXCEPT ![s] = @ + Keep(s)]
            /\ chan' = IF Keep(s) = 0 THEN chan
                       ELSE [chan EXCEPT ![s] =
                               Append(@, Data(SubSeq(buf[s], 1, Keep(s))))]
  /\ UNCHANGED <<writer, pipe, buf, discarding, overflow, rerr, stop, budget, collv>>

\* More than was kept: remember it, and from now on drain without keeping.
ReaderOverflowsUnmarked(s) ==
  /\ reader[s] = "overflow"
  /\ At(s, "wait")
  /\ overflow' = IF Keep(s) > 0 THEN overflow \cup {s} ELSE overflow
  /\ discarding' = discarding \cup {s}
  /\ UNCHANGED <<writer, pipe, buf, retained, rerr, stop, budget, chan, collv>>
ReaderOverflowsQuits(s) ==
  /\ reader[s] = "overflow"
  /\ At(s, "release")
  /\ overflow' = overflow \cup {s} /\ discarding' = discarding \cup {s}
  /\ UNCHANGED <<writer, pipe, buf, retained, rerr, stop, budget, chan, collv>>
ReaderOverflows(s) ==
  /\ reader[s] = "overflow"
  /\ At(s, "wait")
  /\ overflow' = overflow \cup {s} /\ discarding' = discarding \cup {s}
  /\ UNCHANGED <<writer, pipe, buf, retained, rerr, stop, budget, chan, collv>>

\* The pipe and the slot are given back before the end is announced.
ReaderReleases(s) ==
  /\ reader[s] = "release"
  /\ At(s, "announce")
  /\ pipe' = [pipe EXCEPT ![s] = <<>>] /\ slot' = slot \ {s}
  /\ UNCHANGED <<writer, buf, retained, discarding, overflow, rerr, stop, others,
                 chan, collv>>

ReaderAnnounces(s) ==
  /\ reader[s] = "announce"
  /\ At(s, "gone")
  /\ chan' = IF s \in stop THEN chan
             ELSE [chan EXCEPT ![s] =
                     Append(@, IF s \in rerr THEN Failed ELSE Finished)]
  /\ UNCHANGED <<writer, pipe, buf, retained, discarding, overflow, rerr, stop,
                 budget, collv>>

-----------------------------------------------------------------------------
(* SubprocessOutputReaders::collect. *)

\* The session is over and the child reaped.
CollectStarts ==
  /\ collector = "session" /\ child = "gone"
  /\ collector' = "collect"
  /\ UNCHANGED <<writer, pipe, readerv, stop, budget, chan, out, done, ferr,
                 drained, incomplete, truncated>>

\* SubprocessOutputStream::accept.
Receive(s) ==
  /\ collector \in {"collect", "drain"} /\ s \notin done \cup drained
  /\ chan[s] # <<>>
  /\ LET m == Head(chan[s]) IN
       /\ out' = [out EXCEPT ![s] = @ \o m.bytes]
       /\ done' = IF m.kind = "data" THEN done ELSE done \cup {s}
       /\ ferr' = IF m.kind = "failed" THEN ferr \cup {s} ELSE ferr
  /\ chan' = [chan EXCEPT ![s] = Tail(@)]
  /\ UNCHANGED <<writer, pipe, readerv, stop, budget, collector, drained,
                 incomplete, truncated>>

CollectCompletes ==
  /\ collector = "collect" /\ done = Capture
  /\ collector' = "load" /\ incomplete' = (ferr # {})
  /\ UNCHANGED <<writer, pipe, readerv, stop, budget, chan, out, done, ferr,
                 drained, truncated>>

\* The time is up.  With an effective deadline what is queued is still taken.
CollectTimesOut ==
  /\ collector = "collect" /\ done # Capture
  /\ \E has_deadline \in Deadlines :
       /\ collector' = IF has_deadline THEN "drain" ELSE "load"
       /\ incomplete' = ~has_deadline
  /\ UNCHANGED <<writer, pipe, readerv, stop, budget, chan, out, done, ferr,
                 drained, truncated>>

\* drain_queued_output leaves a stream when its channel is empty.
DrainLeaves(s) ==
  /\ collector = "drain" /\ s \notin done \cup drained /\ chan[s] = <<>>
  /\ drained' = drained \cup {s}
  /\ UNCHANGED <<writer, pipe, readerv, stop, budget, chan, collector, out, done,
                 ferr, incomplete, truncated>>

DrainEnds ==
  /\ collector = "drain" /\ done \cup drained = Capture
  /\ collector' = "load" /\ incomplete' = (drained # {} \/ ferr # {})
  /\ UNCHANGED <<writer, pipe, readerv, stop, budget, chan, out, done, ferr,
                 drained, truncated>>

\* The overflow flag is read, then the reader and its channel are dropped.
CollectLoads(s) ==
  /\ collector = "load" /\ s \notin stop
  /\ truncated' = truncated \cup (overflow \cap {s})
  /\ stop' = stop \cup {s}
  /\ collector' = IF stop' = Capture THEN "done" ELSE "load"
  /\ UNCHANGED <<writer, pipe, readerv, budget, chan, out, done, ferr, drained,
                 incomplete>>

-----------------------------------------------------------------------------
ReaderStep(s) ==
  \/ ReaderReads(s) \/ ReaderStops(s) \/ ReaderChecks(s) \/ ReaderSends(s)
  \/ ReaderOverflows(s) \/ ReaderReleases(s) \/ ReaderAnnounces(s)

CollectorStep ==
  \/ TakeDone \/ CollectStarts \/ CollectCompletes \/ CollectTimesOut \/ DrainEnds
  \/ \E s \in Capture : TakeReader(s) \/ TakeFails(s) \/ Receive(s)
                        \/ DrainLeaves(s) \/ CollectLoads(s)

Next ==
  \/ ChildExits \/ OtherReserves \/ OtherReleases \/ CollectorStep
  \/ \E s \in Capture : \/ WriteByte(s) \/ DescendantCloses(s)
                        \/ ReaderStep(s) \/ ReaderErrs(s)

Spec == Init /\ [][Next]_vars

\* Readers and the collector are scheduled; nobody forces a descendant to
\* write, to close its end or to end.
LiveSpec ==
  Spec /\ WF_vars(CollectorStep) /\ \A s \in Capture : WF_vars(ReaderStep(s))

-----------------------------------------------------------------------------
(* Properties. *)

Bytes(s) == 1..Writes[s]
ReaderSteps == {"none", "wait", "check", "send", "overflow", "release", "announce",
                "gone"}

\* Type invariant; a reader never retains more than max_capture_bytes.
TypeOK ==
  /\ child \in {"run", "gone"} /\ held \subseteq Capture
  /\ \A s \in Capture :
       /\ written[s] \in 0..Writes[s]
       /\ {pipe[s], buf[s], out[s]} \subseteq Seq(Bytes(s))
  /\ reader \in [Capture -> ReaderSteps]
  /\ retained \in [Capture -> 0..MaxBytes]
  /\ discarding \subseteq Capture /\ overflow \subseteq Capture
  /\ rerr \subseteq Capture /\ stop \subseteq Capture
  /\ slot \subseteq Capture /\ others \in 0..Others
  /\ \A s \in Capture : \A i \in DOMAIN chan[s] :
       chan[s][i].kind \in {"data", "finished", "failed"}
  /\ collector \in {"take", "failed", "session", "collect", "drain", "load", "done"}
  /\ done \subseteq Capture /\ ferr \subseteq Capture /\ drained \subseteq Capture
  /\ incomplete \in BOOLEAN /\ truncated \subseteq Capture

\* What is returned of a stream is a prefix of what was written to it, never
\* longer than max_capture_bytes: no byte is lost in the middle, none repeated.
OutputIsPrefix ==
  \A s \in Capture :
    /\ Len(out[s]) <= MaxBytes
    /\ out[s] = [i \in 1..Len(out[s]) |-> i] /\ Len(out[s]) <= written[s]

\* Output that is neither incomplete nor truncated is all of the output: the
\* flag of a stream that overflowed cannot be missed once its end was received.
CompleteIsAll ==
  collector = "done" /\ ~incomplete =>
    \A s \in Capture \ truncated : Len(out[s]) = written[s]

\* The collected output is well typed, a prefix, and complete unless it is
\* marked as cut.
Inv == TypeOK /\ OutputIsPrefix /\ CompleteIsAll

\* As long as the collector is there a reader keeps its pipe until the end of
\* the stream, past max_capture_bytes too: a writer gets no broken pipe.
NoBrokenPipe ==
  \A s \in Capture :
    reader[s] \in {"release", "announce", "gone"} /\ Open(s) =>
      s \in stop \cup rerr

\* Every slot comes back once the run is over, even when a descendant keeps
\* the pipe open in silence for ever.
SlotsComeBack == collector \in {"done", "failed"} ~> slot = {}

\* No writer stays blocked on a full pipe while the collector is there: again
\* and again no captured stream is full (Writes is bounded, so that one that
\* is full for ever would show).
WriterUnblocked ==
  []<>(\A s \in Capture : Len(pipe[s]) < PipeCap \/ s \in stop)

=============================================================================
