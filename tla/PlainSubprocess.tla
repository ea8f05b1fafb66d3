---------------------------- MODULE PlainSubprocess ----------------------------
(***************************************************************************)
(* A script run in a plain child process (subprocess.rs): the request is   *)
(* written to the child's stdin by a detached thread from a process-wide   *)
(* budget, the child reads it on a thread of its own, authenticates it,    *)
(* runs the script under the limits of module RunTermination, and exits    *)
(* with its code.  The same module also runs a script in this process,     *)
(* where every option of RunTermination applies.                           *)
(*                                                                         *)
(* The request is a number of chunks; the pipe holds PipeCap of them.      *)
(***************************************************************************)
EXTENDS RunTermination

CONSTANTS Sizes,         \* chunks a serialized request may have
          MaxRequest,    \* MAX_CHILD_REQUEST_BYTES, in chunks
          PipeCap,       \* chunks the stdin pipe holds
          MaxWriters,    \* MAX_ACTIVE_HANDSHAKE_WRITERS
          MaxOthers      \* bound: writer slots other calls use

ASSUME HandshakeAssumption ==
  /\ Sizes \subseteq Nat \ {0} /\ MaxRequest \in Nat
  /\ PipeCap \in Nat \ {0} /\ MaxWriters \in Nat \ {0} /\ MaxOthers \in Nat

VARIABLES
  call,     \* the caller: "here" (in-process), or its place in run_in_subprocess
  size,     \* chunks of the request
  host,     \* the executable: does its main call maybe_handle_child_mode()?
  proc,     \* child process: "none", "running", "exited", "reaped"
  kid,      \* main thread of the child
  env,      \* LIBDENO_CHILD_MODE and LIBDENO_CHILD_TOKEN are set in the child
  stdin,    \* the pipe: [sent, held, readers]
  rd,       \* chunks the child's reader has got, and whether it has sent them
  wr,       \* the writer thread
  wres,     \* result of its write_all
  slots,    \* ACTIVE_HANDSHAKE_WRITERS
  others,   \* slots of other calls
  code,     \* exit status of the child: "none", "script", "one", "own"
  ret,      \* what the call returns
  nested    \* ghost: run_in_subprocess was called in the child and spawned

pvars == <<call, size, host, proc, kid, env, stdin, rd, wr, wres, slots, others, code, ret, nested>>
vars == <<tvars, pvars>>

InThisProcess == call = "here"
ChildOptions(o) == o.via = "call"
HoldsSlot == wr \in {"write", "close", "release"}
WriteEndOpen == wr \in {"write", "close"}

Init ==
  /\ TInit
  /\ call \in {"here", "idle"} /\ (call = "idle" => ChildOptions(opts))
  /\ size \in IF call = "here" THEN {0} ELSE Sizes
  /\ host \in IF call = "here" THEN {"servicing"} ELSE {"servicing", "mute"}
  /\ proc = "none" /\ kid = "none" /\ env = FALSE
  /\ stdin = [sent |-> 0, held |-> 0, readers |-> {}]
  /\ rd = [got |-> 0, done |-> FALSE]
  /\ wr = "none" /\ wres = "none" /\ slots = 0 /\ others = 0
  /\ code = "none" /\ ret = "none" /\ nested = "none"

-----------------------------------------------------------------------------
(* spawn_child_request.                                                    *)

Returns(r) == call' = "returned" /\ ret' = r

\* Whatever the child would refuse is refused before it exists.
RejectRequest ==
  /\ call = "idle"
  /\ Returns("refused")
  /\ UNCHANGED <<tvars, size, host, proc, kid, env, stdin, rd, wr, wres, slots, others, code, nested>>

MayBeValid == opts.deadline # "zero" /\ size <= MaxRequest

SpawnChild ==
  /\ call = "idle" /\ MayBeValid
  /\ call' = "reserve" /\ proc' = "running" /\ kid' = "main" /\ env' = TRUE
  /\ stdin' = [stdin EXCEPT !.readers = {"child"}]
  /\ UNCHANGED <<tvars, size, host, rd, wr, wres, slots, others, code, ret, nested>>

-----------------------------------------------------------------------------
(* run_in_subprocess_with_output, then write_child_request.                *)

\* kill and wait: the process is gone, and with it its threads and its end of
\* the pipe.
KillAndReap ==
  /\ proc' = "reaped" /\ kid' = "dead"
  /\ code' = IF proc = "exited" THEN code ELSE "one"
  /\ stdin' = [stdin EXCEPT !.readers = @ \ {"child"}]

\* The readers of a captured run are started before the request is written
\* (module OutputCollection), and may be refused.
TakeReadersFails ==
  /\ call = "reserve"
  /\ KillAndReap /\ Returns("io")
  /\ UNCHANGED <<tvars, size, host, env, rd, wr, wres, slots, others, nested>>

Reserve ==
  /\ call = "reserve" /\ slots < MaxWriters
  /\ slots' = slots + 1 /\ wr' = "write" /\ call' = "recv"
  /\ UNCHANGED <<tvars, size, host, proc, kid, env, stdin, rd, wres, others, code, ret, nested>>

ReserveFails ==
  /\ call = "reserve" /\ slots >= MaxWriters
  /\ KillAndReap /\ Returns("budget")
  /\ UNCHANGED <<tvars, size, host, env, rd, wr, wres, slots, others, nested>>

\* The closure is dropped: stdin is closed, the slot given back.
WriterSpawnFails ==
  /\ call = "reserve" /\ slots < MaxWriters
  /\ wr' = "gone" /\ wres' = "error" /\ call' = "failed"
  /\ UNCHANGED <<tvars, size, host, proc, kid, env, stdin, rd, slots, others, code, ret, nested>>

WriterWrites ==
  /\ wr = "write" /\ stdin.readers # {} /\ stdin.held < PipeCap /\ stdin.sent < size
  /\ stdin' = [stdin EXCEPT !.sent = @ + 1, !.held = @ + 1]
  /\ UNCHANGED <<tvars, call, size, host, proc, kid, env, rd, wr, wres, slots, others, code, ret, nested>>

WriterEnds ==
  /\ wr = "write"
  /\ \/ stdin.sent = size /\ wres' = "ok"
     \/ stdin.sent < size /\ stdin.readers = {} /\ wres' = "error"
  /\ wr' = "close"
  /\ UNCHANGED <<tvars, call, size, host, proc, kid, env, stdin, rd, slots, others, code, ret, nested>>

\* Nothing is reported before the handle is closed and the slot is back.
WriterCloses ==
  /\ wr = "close" /\ wr' = "release"
  /\ UNCHANGED <<tvars, call, size, host, proc, kid, env, stdin, rd, wres, slots, others, code, ret, nested>>

WriterReleases ==
  /\ wr = "release" /\ wr' = "send" /\ slots' = slots - 1
  /\ UNCHANGED <<tvars, call, size, host, proc, kid, env, stdin, rd, wres, others, code, ret, nested>>

WriterSends ==
  /\ wr = "send" /\ wr' = "gone"
  /\ UNCHANGED <<tvars, call, size, host, proc, kid, env, stdin, rd, wres, slots, others, code, ret, nested>>

ReceiveResult ==
  /\ call = "recv" /\ wr = "gone"
  /\ call' = IF wres = "ok" THEN "wait" ELSE "failed"
  /\ UNCHANGED <<tvars, size, host, proc, kid, env, stdin, rd, wr, wres, slots, others, code, ret, nested>>

\* Mutant: a plain recv.
ReceiveTimesOutNever == FALSE /\ UNCHANGED vars

\* The 10 s of recv_timeout; the writer may be anywhere before its send.
ReceiveTimesOut ==
  /\ call = "recv" /\ wr # "gone"
  /\ call' = "failed" /\ ret' = "timeout"
  /\ UNCHANGED <<tvars, size, host, proc, kid, env, stdin, rd, wr, wres, slots, others, code, nested>>

\* Mutant: the error is returned with the child as it is.
CleanUpChildAlive ==
  /\ call = "failed"
  /\ ret' = IF ret = "none" THEN "io" ELSE ret
  /\ call' = "cleanup"
  /\ UNCHANGED <<tvars, size, host, proc, kid, env, stdin, rd, wr, wres, slots, others, code, nested>>

\* try_wait first: a child that is already gone explains the failure.
CleanUpChild ==
  /\ call = "failed"
  /\ KillAndReap
  /\ ret' = IF proc = "exited" THEN "child_exited" ELSE IF ret = "none" THEN "io" ELSE ret
  /\ call' = "cleanup"
  /\ UNCHANGED <<tvars, size, host, env, rd, wr, wres, slots, others, nested>>

\* At most HANDSHAKE_WRITER_CLEANUP_TIMEOUT for the writer, then it is left.
CleanUpEnds ==
  /\ call = "cleanup"
  /\ call' = "returned"
  /\ UNCHANGED <<tvars, size, host, proc, kid, env, stdin, rd, wr, wres, slots, others, code, ret, nested>>

\* run_in_subprocess_inner: child.wait().
WaitChild ==
  /\ call = "wait" /\ proc = "exited"
  /\ proc' = "reaped" /\ Returns("ok")
  /\ UNCHANGED <<tvars, size, host, kid, env, stdin, rd, wr, wres, slots, others, code, nested>>

-----------------------------------------------------------------------------
(* The other side: maybe_handle_child_mode.                                *)

KidAt(k) == proc = "running" /\ kid = k
ExitWith(c) == /\ proc' = "exited" /\ kid' = "dead" /\ code' = c
               /\ stdin' = [stdin EXCEPT !.readers = @ \ {"child"}]

\* A host that services child mode starts the reader; any other goes on with
\* its own main.
ChildMain ==
  /\ KidAt("main")
  /\ kid' = IF host = "servicing" THEN "await" ELSE "own"
  /\ UNCHANGED <<tvars, call, size, host, proc, env, stdin, rd, wr, wres, slots, others, code, ret, nested>>

ReaderReads ==
  /\ KidAt("await") /\ stdin.held > 0
  /\ stdin' = [stdin EXCEPT !.held = @ - 1]
  /\ rd' = [rd EXCEPT !.got = @ + 1]
  /\ UNCHANGED <<tvars, call, size, host, proc, kid, env, wr, wres, slots, others, code, ret, nested>>

ReaderEof ==
  /\ KidAt("await") /\ ~rd.done /\ stdin.held = 0 /\ ~WriteEndOpen /\ wr # "none"
  /\ rd' = [got |-> rd.got, done |-> TRUE]
  /\ UNCHANGED <<tvars, call, size, host, proc, kid, env, stdin, wr, wres, slots, others, code, ret, nested>>

\* The 10 s of the child.
ChildTimesOut ==
  /\ KidAt("await") /\ ~rd.done
  /\ ExitWith("one")
  /\ UNCHANGED <<tvars, call, size, host, env, rd, wr, wres, slots, others, ret, nested>>

\* Mutant: the end of the stream is taken for the end of the request.
CompleteAtEof == rd.done

\* A request parses, and carries the token, only as a whole.
Complete == rd.got = size

ChildRefuses ==
  /\ KidAt("await") /\ rd.done /\ ~Complete
  /\ ExitWith("one")
  /\ UNCHANGED <<tvars, call, size, host, env, rd, wr, wres, slots, others, ret, nested>>

\* The markers are removed before the script runs.
ChildAccepts ==
  /\ KidAt("await") /\ rd.done /\ Complete
  /\ env' = FALSE /\ kid' = "run"
  /\ UNCHANGED <<tvars, call, size, host, proc, stdin, rd, wr, wres, slots, others, code, ret, nested>>

ChildRunEnds ==
  /\ KidAt("run") /\ drv = "end"
  /\ ExitWith(IF verdict = "ok" THEN "script" ELSE "one")
  /\ UNCHANGED <<tvars, call, size, host, env, rd, wr, wres, slots, others, ret, nested>>

\* The main of a host that never serviced child mode ends, or never does.
HostEnds ==
  /\ KidAt("own")
  /\ ExitWith("own")
  /\ UNCHANGED <<tvars, call, size, host, env, rd, wr, wres, slots, others, ret, nested>>

\* It may start processes that inherit stdin and outlive it.
HostForks ==
  /\ KidAt("own") /\ "descendant" \notin stdin.readers
  /\ stdin' = [stdin EXCEPT !.readers = @ \cup {"descendant"}]
  /\ UNCHANGED <<tvars, call, size, host, proc, kid, env, rd, wr, wres, slots, others, code, ret, nested>>

DescendantEnds ==
  /\ "descendant" \in stdin.readers
  /\ stdin' = [stdin EXCEPT !.readers = @ \ {"descendant"}]
  /\ UNCHANGED <<tvars, call, size, host, proc, kid, env, rd, wr, wres, slots, others, code, ret, nested>>

\* spawn_child_request in the child itself: refused while both markers are set.
MayNest == ~env

ChildNests ==
  /\ KidAt("own") \/ (KidAt("run") /\ script = "busy")
  /\ MayNest /\ nested = "none"
  /\ nested' = kid
  /\ UNCHANGED <<tvars, call, size, host, proc, kid, env, stdin, rd, wr, wres, slots, others, code, ret>>

-----------------------------------------------------------------------------
(* Faults, and the other calls of this process.                            *)

\* A hard failure of the runtime, or a signal.
ChildCrashes ==
  /\ proc = "running"
  /\ ExitWith("one")
  /\ UNCHANGED <<tvars, call, size, host, env, rd, wr, wres, slots, others, ret, nested>>

\* The parent process dies: the write end of the pipe closes with it.
ParentDies ==
  /\ call \in {"reserve", "recv", "wait"}
  /\ call' = "dead" /\ wr' = "gone"
  /\ slots' = IF HoldsSlot THEN slots - 1 ELSE slots
  /\ UNCHANGED <<tvars, size, host, proc, kid, env, stdin, rd, wres, others, code, ret, nested>>

OtherReserves ==
  /\ call \in {"idle", "reserve", "recv"} /\ slots < MaxWriters /\ others < MaxOthers
  /\ slots' = slots + 1 /\ others' = others + 1
  /\ UNCHANGED <<tvars, call, size, host, proc, kid, env, stdin, rd, wr, wres, code, ret, nested>>

OtherReleases ==
  /\ others > 0
  /\ slots' = slots - 1 /\ others' = others - 1
  /\ UNCHANGED <<tvars, call, size, host, proc, kid, env, stdin, rd, wr, wres, code, ret, nested>>

-----------------------------------------------------------------------------
(* The run itself: RunTermination, in this process or in the child.        *)

InRun(A) == (InThisProcess \/ KidAt("run")) /\ A /\ UNCHANGED pvars

Caller == \/ TakeReadersFails \/ Reserve \/ ReserveFails \/ WriterSpawnFails \/ ReceiveResult
          \/ ReceiveTimesOut \/ CleanUpChild \/ CleanUpEnds \/ WaitChild
Writer == WriterWrites \/ WriterEnds \/ WriterCloses \/ WriterReleases \/ WriterSends
Kid == \/ ChildMain \/ ReaderReads \/ ReaderEof \/ ChildTimesOut \/ ChildRefuses \/ ChildAccepts
       \/ ChildRunEnds
World == \/ HostEnds \/ HostForks \/ DescendantEnds \/ ChildNests \/ ChildCrashes \/ ParentDies
         \/ OtherReserves \/ OtherReleases

Next == \/ RejectRequest \/ SpawnChild \/ Caller \/ Writer \/ Kid \/ World
        \/ InRun(Requests) \/ InRun(Terminator) \/ InRun(Script) \/ InRun(Clocks) \/ InRun(Driver)

Spec == Init /\ [][Next]_vars

\* Threads run and timers fire, in both processes; a call of
\* terminate_execution is seen at the next stack check, and system calls
\* return.  Neither a script nor a host's own main need end by itself, and
\* descendants may keep the pipe for ever.
Fairness ==
  /\ WF_vars(Caller) /\ WF_vars(Writer) /\ WF_vars(Kid)
  /\ WF_vars(InRun(Driver)) /\ WF_vars(InRun(Terminator)) /\ WF_vars(InRun(ScriptUnwinds))
  /\ WF_vars(InRun(SyscallReturns)) /\ WF_vars(InRun(ScriptGoes("ready", "busy")))
  /\ \A c \in Callers : /\ WF_vars(InRun(RaiseFlag(c))) /\ WF_vars(InRun(FindRegistered(c)))
                       /\ WF_vars(InRun(TerminateFound(c)))
FairSpec == Spec /\ Fairness

-----------------------------------------------------------------------------
TypeOK ==
  /\ TTypeOK
  /\ call \in {"here", "idle", "reserve", "recv", "failed", "cleanup", "wait", "returned", "dead"}
  /\ size \in Nat /\ host \in {"servicing", "mute"}
  /\ proc \in {"none", "running", "exited", "reaped"}
  /\ kid \in {"none", "main", "await", "own", "run", "dead"}
  /\ env \in BOOLEAN
  /\ stdin \in [sent : 0..size, held : 0..PipeCap, readers : SUBSET {"child", "descendant"}]
  /\ rd \in [got : 0..size, done : BOOLEAN]
  /\ wr \in {"none", "write", "close", "release", "send", "gone"}
  /\ wres \in {"none", "ok", "error"}
  /\ slots \in 0..MaxWriters /\ others \in 0..MaxOthers
  /\ code \in {"none", "script", "one", "own"}
  /\ ret \in {"none", "refused", "budget", "io", "timeout", "child_exited", "ok"}
  /\ nested \in {"none", "own", "run"}

\* Whichever way a call ends, its child has been reaped, and the budget counts
\* the writers that are really alive, also one that was left behind blocked
\* (subprocess.rs 361-371, 412-440).
NothingLeftBehind ==
  /\ call = "returned" => proc \in {"none", "reaped"}
  /\ slots = others + (IF HoldsSlot THEN 1 ELSE 0)

Inv == TypeOK /\ NothingOutlivesRun /\ NothingLeftBehind

\* The script of a child runs only for a request that arrived as a whole and
\* was valid for the parent, and outside of child mode, so that whatever it
\* spawns is an ordinary process, while a host that never serviced the request
\* cannot spawn itself again; the caller takes for the script's exit code
\* only the code of a script that ended by itself (subprocess.rs 291-310,
\* 421-431, 665-715).
RequestHonest ==
  /\ ~InThisProcess /\ script # "none" => /\ Complete /\ stdin.sent = size /\ size <= MaxRequest
                                          /\ ~env /\ opts.deadline # "zero"
  /\ nested # "own"
  /\ ret = "ok" => /\ stdin.sent = size
                   /\ code = "script" => verdict = "ok" /\ script \in {"finished", "exited"}

\* The handshake is bounded whatever the host does, a child that has exited is
\* noticed, and a writer that the call left behind keeps its slot only as long
\* as a descendant holds the read end of its pipe (subprocess.rs 385-412,
\* 430-440).
HandshakeEnds ==
  /\ call \in {"reserve", "recv", "failed", "cleanup"} ~> call \in {"wait", "returned", "dead"}
  /\ proc = "exited" ~> call \in {"returned", "dead"}
  /\ []<>(HoldsSlot /\ call = "returned" => "descendant" \in stdin.readers)

\* Callers of request_with_reason that hold a clone of the isolate's handle.
HoldHandle == {c \in Callers : req[c] = "terminate"}

\* A run that has returned is left alone: what it returned stays, nobody finds
\* its isolate any more, and the only call of terminate_execution that can still
\* come is that of a cancelling user who found the handle before the run took it
\* out; the threads of the run itself have been joined (limits.rs 88-95,
\* 524-532, 180-210).
EndedRunLeftAlone ==
  [][drv = "end" => /\ UNCHANGED <<verdict, script>>
                    /\ HoldHandle' \subseteq HoldHandle
                    /\ kill' # kill => /\ HoldHandle = {"user"}
                                      /\ kill' = kill \cup {"late"}]_vars

\* A run that is cancelled, or whose deadline passes, ends: also if the
\* request fell between the registration's check and its handle, if the
\* script is an endless loop, or if its event loop is parked for ever; unless
\* its process is killed first (limits.rs 405-535).
InterruptedRunEnds == (ctx.requested \/ late.run) ~> (drv = "end" \/ kid = "dead")
=============================================================================
