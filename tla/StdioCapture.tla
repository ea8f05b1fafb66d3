----------------------------- MODULE StdioCapture -----------------------------
(***************************************************************************)
(* In-process output capture (output.rs) under the run lease and the async *)
(* guard (lib.rs): fds 1 and 2 of the whole process are pointed at pipes   *)
(* for the length of one run, drained by detached reader threads, restored *)
(* and collected, on every path out of the run.                            *)
(*                                                                         *)
(* Output is a sequence of blocks, each the name of who wrote it: a run    *)
(* (its script or a descendant), or the host, "before" a capture or        *)
(* "during" it.  Both runs live in one process; async runs share a thread. *)
(***************************************************************************)
EXTENDS Naturals, Sequences, FiniteSets, SequencesExt

CONSTANTS Runs,        \* run calls, each made once
          RunOptions,  \* per run [streams : SUBSET Streams, prompt, async : BOOLEAN]
          MaxBytes,    \* max_capture_bytes, in blocks
          MaxWrites,   \* bound: blocks each run and its descendants write
          MaxChildren, \* bound: descendants alive at a time
          MaxReaders,  \* MAX_ACTIVE_CAPTURE_READERS
          Host         \* the original target of both fds

ASSUME CaptureAssumption ==
  /\ MaxBytes \in Nat /\ MaxWrites \in Nat /\ MaxReaders \in Nat
  /\ Runs \cap {Host, "before", "during"} = {}
  /\ RunOptions \subseteq [Runs -> [streams : SUBSET {1, 2}, prompt : BOOLEAN, async : BOOLEAN]]

VARIABLES
  opts,     \* per run
  fd,       \* per stream: Host, or the run whose pipe it is
  hostbuf,  \* per stream: blocks in the host's own stdio buffer
  terminal, \* ghost, per stream: the runs whose blocks reached the original target
  sent,     \* ghost, per run and stream: every block meant for it, in order
  lease,    \* runs that hold a RunLease
  async,    \* RUN_ASYNC_IN_PROGRESS of the thread async runs share: a run or Host
  phase,    \* per run
  pipe,     \* per run and stream: blocks in the pipe
  child,    \* pairs of run and stream whose write end a descendant holds
  rdr,      \* per run and stream: where the reader thread is
  total,    \* per run and stream: blocks the reader has seen
  discarding, failed,  \* pairs whose reader drains only, or ends with an error
  chan,     \* per run and stream: blocks the reader has sent
  overflow, stop,      \* pairs: the flags shared with the reader that are up
  out,      \* per run and stream: blocks collected
  outcome   \* per run: "none", "ok", "truncated", "script_error", "capture_error", ...

vars == <<opts, fd, hostbuf, terminal, sent, lease, async, phase, pipe, child, rdr, total,
          discarding, failed, chan, overflow, stop, out, outcome>>

Streams == {1, 2}
Pairs == Runs \X Streams
Captures(r) == opts[r].streams # {}
Open(r, s) == rdr[<<r, s>>] # "none"
Written(r) == Len(sent[<<r, 1>>]) + Len(sent[<<r, 2>>])
Slots == Cardinality({p \in Pairs : rdr[p] = "reading"})

Init ==
  /\ opts \in RunOptions
  /\ fd = [s \in Streams |-> Host]
  /\ hostbuf = [s \in Streams |-> <<"before">>]
  /\ terminal = [s \in Streams |-> {}]
  /\ sent = [p \in Pairs |-> << >>]
  /\ lease = {} /\ async = Host
  /\ phase = [r \in Runs |-> "idle"]
  /\ pipe = [p \in Pairs |-> << >>]
  /\ child = {} /\ discarding = {} /\ failed = {} /\ overflow = {} /\ stop = {}
  /\ rdr = [p \in Pairs |-> "none"] /\ total = [p \in Pairs |-> 0]
  /\ chan = [p \in Pairs |-> << >>]
  /\ out = [p \in Pairs |-> << >>]
  /\ outcome = [r \in Runs |-> "none"]

count == <<total, discarding>>
reader == <<rdr, count, failed>>
streamVars == <<pipe, child, reader, chan, overflow, stop, out>>
stdio == <<fd, hostbuf, terminal, sent>>

-----------------------------------------------------------------------------
(* Admission: async guard, lease, and the options that cannot be combined. *)

LeaseFree(r) == IF Captures(r) THEN lease = {} ELSE \A q \in lease : ~Captures(q)
AsyncFree(r) == opts[r].async => async = Host
PromptOk(r) == ~(opts[r].prompt /\ 2 \in opts[r].streams)

EnterGuard(r) ==
  /\ phase[r] = "idle" /\ AsyncFree(r)
  /\ async' = IF opts[r].async THEN r ELSE async
  /\ phase' = [phase EXCEPT ![r] = "lease"]
  /\ UNCHANGED <<opts, stdio, lease, streamVars, outcome>>

TakeLease(r) ==
  /\ phase[r] = "lease" /\ LeaseFree(r)
  /\ lease' = lease \cup {r}
  /\ phase' = [phase EXCEPT ![r] = "prompt"]
  /\ UNCHANGED <<opts, stdio, async, streamVars, outcome>>

CheckPrompt(r) ==
  /\ phase[r] = "prompt" /\ PromptOk(r)
  /\ phase' = [phase EXCEPT ![r] = "flush"]
  /\ UNCHANGED <<opts, stdio, lease, async, streamVars, outcome>>

\* Whatever was taken before the refusal is dropped on the way out.
Refuse(r) ==
  /\ \/ phase[r] = "idle" /\ ~AsyncFree(r)
     \/ phase[r] = "lease" /\ ~LeaseFree(r)
     \/ phase[r] = "prompt" /\ ~PromptOk(r)
  /\ phase' = [phase EXCEPT ![r] = "done"]
  /\ outcome' = [outcome EXCEPT ![r] = "refused"]
  /\ lease' = lease \ {r}
  /\ async' = IF async = r THEN Host ELSE async
  /\ UNCHANGED <<opts, stdio, streamVars>>

\* The end of the scope: what was collected is returned, the lease and the
\* guard are dropped.
Exit(r, how) ==
  /\ lease' = lease \ {r}
  /\ async' = IF async = r THEN Host ELSE async
  /\ outcome' = [outcome EXCEPT ![r] = how]
  /\ out' = [p \in Pairs |-> IF p[1] = r THEN << >> ELSE out[p]]
  /\ sent' = [p \in Pairs |-> IF p[1] = r THEN << >> ELSE sent[p]]

-----------------------------------------------------------------------------
(* OutputCapture::new.                                                     *)

\* A block that run r writes to stream s lands where its fd points; with the
\* read end closed the write fails.
Lands(r, s) ==
  IF fd[s] = Host THEN terminal' = [terminal EXCEPT ![s] = @ \cup {r}] /\ UNCHANGED pipe
  ELSE /\ pipe' = IF rdr[<<fd[s], s>>] = "reading" THEN [pipe EXCEPT ![<<fd[s], s>>] = Append(@, r)] ELSE pipe
       /\ UNCHANGED terminal

\* Mutant: the host's buffers are left as they are.
FlushHostNot(S) == UNCHANGED hostbuf

\* The host's buffers are flushed, to its own target, before anything is
\* redirected.
FlushHost(S) == hostbuf' = [s \in Streams |-> IF s \in S THEN << >> ELSE hostbuf[s]]

Flush(r) ==
  /\ phase[r] = "flush"
  /\ FlushHost(opts[r].streams)
  /\ phase' = [phase EXCEPT ![r] = "open"]
  /\ UNCHANGED <<opts, fd, terminal, sent, lease, async, streamVars, outcome>>

\* The flush of stream s fails, after those before it.
FlushFails(r, s) ==
  /\ phase[r] = "flush" /\ s \in opts[r].streams
  /\ FlushHost({t \in opts[r].streams : t < s})
  /\ Exit(r, "capture_error")
  /\ phase' = [phase EXCEPT ![r] = "done"]
  /\ UNCHANGED <<opts, fd, terminal, pipe, child, reader, chan, overflow, stop>>

\* StreamCapture::new, stdout first: a slot, a pipe, the redirection, a reader.
NextToOpen(r, s) == /\ phase[r] = "open" /\ s \in opts[r].streams /\ ~Open(r, s)
                    /\ \A t \in opts[r].streams : t < s => Open(r, t)

OpenStream(r, s) ==
  /\ NextToOpen(r, s) /\ Slots < MaxReaders
  /\ fd' = [fd EXCEPT ![s] = r]
  /\ rdr' = [rdr EXCEPT ![<<r, s>>] = "reading"]
  /\ UNCHANGED <<opts, hostbuf, terminal, sent, lease, async, phase, pipe, child, count, failed, chan,
                 overflow, stop, out, outcome>>

Of(r, S) == {p \in Pairs : p[1] = r /\ p[2] \in S}

\* StreamCapture::restore of a set of streams: what the host printed during
\* the run is flushed while the redirection still stands, then fds go back.
\* A flush that fails leaves its stream's buffer as it is.
RestoreStreams(S, unflushed) ==
  /\ fd' = [s \in Streams |-> IF s \in S THEN Host ELSE fd[s]]
  /\ hostbuf' = [s \in Streams |-> IF s \in S \ unflushed THEN << >> ELSE hostbuf[s]]
  /\ UNCHANGED terminal

\* Mutant: a capture that is not finished is only stopped.
DropStreamsRedirected(r) ==
  LET S == {s \in opts[r].streams : Open(r, s) /\ fd[s] = r}
  IN  /\ stop' = stop \cup Of(r, S)
      /\ chan' = [p \in Pairs |-> IF p \in Of(r, S) THEN << >> ELSE chan[p]]
      /\ UNCHANGED <<fd, hostbuf, terminal, pipe>>

\* Drop of an OutputCapture that was not finished.
DropStreams(r) ==
  LET S == {s \in opts[r].streams : Open(r, s) /\ fd[s] = r}
  IN  /\ \E unflushed \in SUBSET S : RestoreStreams(S, unflushed)
      /\ stop' = stop \cup Of(r, S)
      /\ chan' = [p \in Pairs |-> IF p \in Of(r, S) THEN << >> ELSE chan[p]]
      /\ pipe' = [p \in Pairs |-> IF p \in Of(r, S) THEN << >> ELSE pipe[p]]

\* The budget is exhausted, or a system call or the spawn failed; a stream
\* that is already redirected goes back to the host.
OpenFails(r, s) ==
  /\ NextToOpen(r, s)
  /\ DropStreams(r)
  /\ Exit(r, "capture_error")
  /\ phase' = [phase EXCEPT ![r] = "done"]
  /\ UNCHANGED <<opts, child, reader, overflow>>

StartScript(r) ==
  /\ phase[r] = "open" /\ \A s \in opts[r].streams : Open(r, s)
  /\ phase' = [phase EXCEPT ![r] = "script"]
  /\ UNCHANGED <<opts, stdio, lease, async, streamVars, outcome>>

-----------------------------------------------------------------------------
(* While the script runs.                                                  *)

ScriptWrites(r, s) ==
  /\ phase[r] = "script" /\ Written(r) < MaxWrites
  /\ Lands(r, s)
  /\ sent' = [sent EXCEPT ![<<r, s>>] = Append(@, r)]
  /\ UNCHANGED <<opts, fd, hostbuf, lease, async, phase, child, reader, chan, overflow, stop, out, outcome>>

\* Other threads of the host print while the capture is set up or stands.
HostPrints(r, s) ==
  /\ phase[r] \in {"open", "script"} /\ s \in opts[r].streams
  /\ \A t \in opts[r].streams : hostbuf[t] = << >>
  /\ hostbuf' = [hostbuf EXCEPT ![s] = <<"during">>]
  /\ UNCHANGED <<opts, fd, terminal, sent, lease, async, phase, streamVars, outcome>>

\* A detached child inherits the captured stream.
SpawnChild(r, s) ==
  /\ phase[r] = "script" /\ fd[s] = r /\ <<r, s>> \notin child
  /\ Cardinality(child) < MaxChildren
  /\ child' = child \cup {<<r, s>>}
  /\ UNCHANGED <<opts, stdio, lease, async, phase, pipe, reader, chan, overflow, stop, out, outcome>>

\* The read end is open as long as the reader reads, a later write is EPIPE;
\* once the stop flag is up nobody reads what is written.
ChildWrites(r, s) ==
  /\ <<r, s>> \in child \ stop /\ Written(r) < MaxWrites /\ rdr[<<r, s>>] = "reading"
  /\ pipe' = [pipe EXCEPT ![<<r, s>>] = Append(@, r)]
  /\ sent' = [sent EXCEPT ![<<r, s>>] = Append(@, r)]
  /\ UNCHANGED <<opts, fd, hostbuf, terminal, lease, async, phase, child, reader, chan, overflow, stop,
                 out, outcome>>

ChildExits(r, s) ==
  /\ <<r, s>> \in child
  /\ child' = child \ {<<r, s>>}
  /\ UNCHANGED <<opts, stdio, lease, async, phase, pipe, reader, chan, overflow, stop, out, outcome>>

-----------------------------------------------------------------------------
(* The reader thread.                                                      *)

WriteEndOpen(r, s) == fd[s] = r \/ <<r, s>> \in child
Collected(r, s) == <<r, s>> \in stop      \* the receiver is dropped with its stream

\* Of n more blocks after those it has seen, the reader keeps what fits under the cap.
Keep(seen, n) == IF seen + n > MaxBytes THEN MaxBytes - seen ELSE n

\* Past the cap the reader keeps draining, so that the script's writes never
\* fail while it runs.
ReaderReads(r, s) ==
  /\ rdr[<<r, s>>] = "reading" /\ pipe[<<r, s>>] # << >> /\ ~Collected(r, s)
  /\ \E n \in 1..Len(pipe[<<r, s>>]) :
       LET over == total[<<r, s>>] + n > MaxBytes
       IN  /\ pipe' = [pipe EXCEPT ![<<r, s>>] = SubSeq(@, n + 1, Len(@))]
           /\ IF <<r, s>> \in discarding THEN UNCHANGED <<count, chan, overflow>>
              ELSE /\ total' = [total EXCEPT ![<<r, s>>] = @ + n]
                   /\ chan' = [chan EXCEPT ![<<r, s>>] =
                                 @ \o SubSeq(pipe[<<r, s>>], 1, Keep(total[<<r, s>>], n))]
                   /\ discarding' = IF over THEN discarding \cup {<<r, s>>} ELSE discarding
                   /\ overflow' = IF over THEN overflow \cup {<<r, s>>} ELSE overflow
  /\ UNCHANGED <<opts, stdio, lease, async, phase, child, rdr, failed, stop, out, outcome>>

\* End of file, the stop flag, or an error: the read end is closed and the
\* slot given back, before the channel is.
ReaderBreaks(r, s) ==
  /\ rdr[<<r, s>>] = "reading"
  /\ rdr' = [rdr EXCEPT ![<<r, s>>] = "closing"]
  /\ total' = [total EXCEPT ![<<r, s>>] = 0] /\ discarding' = discarding \ {<<r, s>>}
  /\ pipe' = [pipe EXCEPT ![<<r, s>>] = << >>]
  /\ UNCHANGED <<opts, stdio, lease, async, phase, child, chan, overflow, stop, out, outcome>>

ReaderEof(r, s) == pipe[<<r, s>>] = << >> /\ ~WriteEndOpen(r, s) /\ ReaderBreaks(r, s) /\ UNCHANGED failed
\* Mutant: a blocking read notices the stop flag only when there is data.
ReaderStopsBlocked(r, s) ==
  <<r, s>> \in stop /\ pipe[<<r, s>>] # << >> /\ ReaderBreaks(r, s) /\ UNCHANGED failed
ReaderStops(r, s) == <<r, s>> \in stop /\ ReaderBreaks(r, s) /\ UNCHANGED failed
ReaderFails(r, s) == <<r, s>> \notin stop /\ ReaderBreaks(r, s) /\ failed' = failed \cup {<<r, s>>}

ReaderGone(r, s) ==
  /\ rdr[<<r, s>>] = "closing"
  /\ rdr' = [rdr EXCEPT ![<<r, s>>] = "gone"]
  /\ UNCHANGED <<opts, stdio, lease, async, phase, pipe, child, count, failed, chan, overflow, stop, out,
                 outcome>>

-----------------------------------------------------------------------------
(* finish_capture: restore both fds, then collect stdout, then stderr.     *)

ScriptEnds(r) ==
  /\ phase[r] = "script"
  /\ \E how \in {"ok", "script_error"} : outcome' = [outcome EXCEPT ![r] = how]
  /\ phase' = [phase EXCEPT ![r] = "restore"]
  /\ UNCHANGED <<opts, stdio, lease, async, streamVars>>

\* A stream's flush_error is reported by its collection; the run's own error
\* stands.
Restore(r) ==
  /\ phase[r] = "restore"
  /\ \E unflushed \in SUBSET opts[r].streams :
       LET Flushed == Of(r, opts[r].streams \ unflushed)
       IN  /\ RestoreStreams(opts[r].streams, unflushed)
           /\ sent' = [p \in Pairs |-> IF p \in Flushed THEN sent[p] \o hostbuf[p[2]] ELSE sent[p]]
           /\ pipe' = [p \in Pairs |-> IF p \in Flushed /\ rdr[p] = "reading"
                                       THEN pipe[p] \o hostbuf[p[2]] ELSE pipe[p]]
           /\ outcome' = [outcome EXCEPT ![r] = IF @ = "ok" /\ unflushed # {} THEN "capture_error" ELSE @]
  /\ phase' = [phase EXCEPT ![r] = "collect"]
  /\ UNCHANGED <<opts, lease, async, child, reader, chan, overflow, stop, out>>

Collecting(r, s) == /\ phase[r] \in {"collect", "abandoned"} /\ s \in opts[r].streams /\ <<r, s>> \notin stop
                    /\ \A t \in opts[r].streams : t < s => <<r, t>> \in stop

CollectBlock(r, s) ==
  /\ Collecting(r, s) /\ chan[<<r, s>>] # << >>
  /\ out' = [out EXCEPT ![<<r, s>>] = Append(@, Head(chan[<<r, s>>]))]
  /\ chan' = [chan EXCEPT ![<<r, s>>] = Tail(@)]
  /\ UNCHANGED <<opts, stdio, lease, async, phase, pipe, child, reader, overflow, stop, outcome>>

\* collect consumes the stream: its drop raises the stop flag.  The run's own
\* error stands; a capture error replaces a success only.
Collects(r, s, how) ==
  /\ stop' = stop \cup {<<r, s>>}
  /\ chan' = [chan EXCEPT ![<<r, s>>] = << >>]
  /\ pipe' = [pipe EXCEPT ![<<r, s>>] = << >>]
  /\ overflow' = overflow \ {<<r, s>>}
  /\ outcome' = [outcome EXCEPT ![r] =
                   IF @ \in {"script_error", "capture_error", "dropped"} \/ how = "ok" THEN @ ELSE how]
  /\ UNCHANGED <<opts, stdio, lease, async, phase, child, reader, out>>

CollectEnds(r, s) ==
  /\ Collecting(r, s) /\ chan[<<r, s>>] = << >> /\ rdr[<<r, s>>] = "gone"
  /\ Collects(r, s, IF <<r, s>> \in failed THEN "capture_error"
                    ELSE IF <<r, s>> \in overflow THEN "truncated" ELSE "ok")

\* The 500 ms of the collection have passed.
CollectTimesOut(r, s) == Collecting(r, s) /\ Collects(r, s, "capture_error")

AllCollected(r) == \A s \in opts[r].streams : <<r, s>> \in stop

Finish(r) ==
  /\ phase[r] = "collect" /\ AllCollected(r)
  /\ Exit(r, outcome[r])
  /\ phase' = [phase EXCEPT ![r] = "done"]
  /\ UNCHANGED <<opts, fd, hostbuf, terminal, pipe, child, reader, chan, overflow, stop>>

\* An async run's future is dropped while the script runs ...
DropFuture(r) ==
  /\ phase[r] = "script" /\ opts[r].async
  /\ DropStreams(r)
  /\ Exit(r, "dropped")
  /\ phase' = [phase EXCEPT ![r] = "done"]
  /\ UNCHANGED <<opts, child, reader, overflow>>

\* ... or while the blocking pool collects, which then goes on unattended.
DropCollecting(r) ==
  /\ phase[r] = "collect" /\ opts[r].async
  /\ Exit(r, "dropped")
  /\ phase' = [phase EXCEPT ![r] = "abandoned"]
  /\ UNCHANGED <<opts, fd, hostbuf, terminal, pipe, child, reader, chan, overflow, stop>>

-----------------------------------------------------------------------------
Opens(r) == \/ EnterGuard(r) \/ TakeLease(r) \/ CheckPrompt(r) \/ Refuse(r) \/ Flush(r) \/ StartScript(r)
            \/ \E s \in Streams : FlushFails(r, s) \/ OpenStream(r, s) \/ OpenFails(r, s)
World(r) == \E s \in Streams : \/ ScriptWrites(r, s) \/ HostPrints(r, s) \/ SpawnChild(r, s)
                               \/ ChildWrites(r, s) \/ ChildExits(r, s)
Reader(r, s) == ReaderReads(r, s) \/ ReaderEof(r, s) \/ ReaderStops(r, s) \/ ReaderGone(r, s)
Collector(r) == \/ Restore(r) \/ Finish(r)
                \/ \E s \in Streams : CollectBlock(r, s) \/ CollectEnds(r, s) \/ CollectTimesOut(r, s)

Next == \E r \in Runs : \/ Opens(r) \/ World(r) \/ ScriptEnds(r) \/ Collector(r)
                        \/ DropFuture(r) \/ DropCollecting(r)
                        \/ \E s \in Streams : Reader(r, s) \/ ReaderFails(r, s)

\* Threads run and the collection's clock advances; neither scripts nor
\* descendants need ever end.
Fairness == \A r \in Runs : /\ WF_vars(Collector(r))
                            /\ \A s \in Streams : WF_vars(Reader(r, s))
Spec == Init /\ [][Next]_vars /\ Fairness

-----------------------------------------------------------------------------
Block == Runs \cup {"before", "during"}
Phases == {"idle", "lease", "prompt", "flush", "open", "script", "restore", "collect", "abandoned", "done"}
TypeOK ==
  /\ opts \in RunOptions
  /\ fd \in [Streams -> Runs \cup {Host}]
  /\ hostbuf \in [Streams -> Seq(Block)] /\ terminal \in [Streams -> SUBSET Runs]
  /\ lease \subseteq Runs /\ async \in Runs \cup {Host}
  /\ phase \in [Runs -> Phases]
  /\ pipe \in [Pairs -> Seq(Block)] /\ chan \in [Pairs -> Seq(Block)]
  /\ out \in [Pairs -> Seq(Block)] /\ sent \in [Pairs -> Seq(Block)]
  /\ rdr \in [Pairs -> {"none", "reading", "closing", "gone"}] /\ total \in [Pairs -> Nat]
  /\ child \cup discarding \cup failed \cup overflow \cup stop \subseteq Pairs
  /\ outcome \in [Runs -> {"none", "refused", "ok", "truncated", "script_error", "capture_error", "dropped"}]

\* fds 1 and 2 belong to the host again on every path out of a captured run
\* (output.rs 56-115, 640-655): while a stream is redirected, its run holds
\* the lease alone, and its read end is open, so that neither a second run's
\* output is swallowed nor a write fails; only a reader that itself failed
\* leaves the script without one.
StdioRestored ==
  \A s \in Streams : fd[s] # Host =>
    /\ lease = {fd[s]} /\ s \in opts[fd[s]].streams
    /\ rdr[<<fd[s], s>>] = "reading" \/ <<fd[s], s>> \in failed

Inv == TypeOK /\ StdioRestored

\* A capture returns the run's own output and loses none (output.rs
\* 452-520, 590-635): a success has every block of the run, a truncated one
\* the first max_capture_bytes; nothing the host printed before the run is in
\* it, and nothing of a captured stream shows on the host's own stdout or
\* stderr.
CaptureIsOwn ==
  /\ \A r \in Runs, s \in Streams :
       phase[r] = "collect" /\ AllCollected(r) /\ s \in opts[r].streams =>
         /\ outcome[r] = "ok" => out[<<r, s>>] = sent[<<r, s>>] /\ Len(out[<<r, s>>]) <= MaxBytes
         /\ outcome[r] = "truncated" =>
              out[<<r, s>>] = SubSeq(sent[<<r, s>>], 1, Len(out[<<r, s>>])) /\ Len(out[<<r, s>>]) <= MaxBytes
         /\ outcome[r] \in {"ok", "truncated"} => ~Contains(out[<<r, s>>], "before")
  /\ \A s \in Streams, r \in Runs : s \in opts[r].streams => r \notin terminal[s]

\* Detached readers retire and their slots come back, whatever a descendant
\* does with the write end it inherited (output.rs 640-655, pipe_read.rs):
\* again and again, no reader of a run that has returned is left.
ReadersRetire ==
  []<>(\A r \in Runs, s \in Streams :
         phase[r] \in {"done", "abandoned"} => rdr[<<r, s>>] \in {"none", "gone"})
=============================================================================
