------------------------ MODULE PlainSubprocessProofs ------------------------
(***************************************************************************)
(* Proofs about RunTermination and PlainSubprocess, for every set of       *)
(* deadlines, every size of a request and of the pipe, and every budget.   *)
(***************************************************************************)
EXTENDS PlainSubprocess, TLAPS

-----------------------------------------------------------------------------
(* The inductive invariant of a run. *)

Before   == {"execute", "guard", "boot", "register"}
Choosing == {"stop", "join", "clear"}
Watched  == {"select", "grace"} \cup Choosing
Decided  == {"workers", "end"}

\* Up to the V8 boundary nothing of the isolate exists.
NotStarted ==
  drv \in Before => /\ script = "none" /\ wd = "none" /\ kill = {} /\ ~ctx.isolate
                    /\ ~fired.cancel /\ ~fired.deadline

\* A run is decided once, and only then; a zero deadline never passes the
\* first checkpoint.
Progress ==
  /\ verdict # "none" <=> drv \in Decided
  /\ drv \in {"execute", "guard"} => boot = 1
  /\ drv = "register" => boot = Checkpoints
  /\ boot > 1 \/ script # "none" => opts.deadline # "zero"

\* Who may be doing what while the script is in which state.
ScriptPlace ==
  /\ script \in OnStack \cup {"idle"} => drv \in {"select", "grace"}
  /\ script = "ready" => drv \notin Choosing
  /\ script \in Over \cup {"dropped"} => drv \in Watched \cup Decided
  /\ drv \in Choosing => script \in Over \cup {"dropped"}
  /\ script = "unwound" => kill \ {"late"} # {}

\* The select's choice is what happened.
ResultSound ==
  /\ drv \in Choosing => result # "none"
  /\ result \in Over => script = result
  /\ result = "deadline" => late.run
  /\ result = "cancelled" => ctx.requested
  /\ drv = "grace" => ctx.requested

\* The terminator lives as long as the driver waits for it, and kills for the
\* reason its flags give.
TerminatorSound ==
  /\ wd \in {"loop", "cancel", "deadline"} => drv \in Watched /\ drv # "clear"
  /\ wd = "cancel" => fired.cancel
  /\ wd = "deadline" => fired.deadline
  /\ fired.cancel => ctx.requested /\ Cancellable
  /\ fired.deadline => late.run
  /\ "cancel" \in kill => fired.cancel
  /\ "deadline" \in kill => fired.deadline
  /\ "request" \in kill => ctx.requested /\ Cancellable
  /\ drv = "clear" /\ ~saw => "request" \notin kill /\ ~fired.cancel
  /\ "late" \in kill => drv \in AfterSelect

\* A request comes from somebody who may cancel, and the isolate is registered
\* only while it can be terminated.
RequestSound ==
  /\ \A c \in Callers : /\ req[c] \in {"isolate", "terminate", "done"} => ctx.requested
                        /\ req[c] \in {"flag", "isolate", "terminate", "done", "waiting"} => Cancellable
                        /\ req[c] = "terminate" => drv \notin Before
  /\ saw => ctx.requested /\ Cancellable
  /\ ctx.isolate => drv \in {"register_kill", "spawn"} \cup Watched
  /\ drv = "end" => req["guard"] \in {"idle", "done", "stopped"}
  /\ drv = "execute" => req["guard"] = "idle"

TInv == /\ TTypeOK /\ NotStarted /\ Progress /\ ScriptPlace /\ ResultSound
        /\ TerminatorSound /\ RequestSound /\ VerdictHonest

\* A run starts in its invariant.
LEMMA TInitInv == TInit => TInv
<1> SUFFICES ASSUME TInit PROVE TInv
  OBVIOUS
<1>1. /\ opts \in [deadline : {"none", "zero", "finite"}, request : {"none", "finite"}, via : Entrances]
      /\ drv \in {"execute", "guard"}
      /\ req = [c \in Callers |-> "idle"] /\ kill = {}
      /\ req \in [Callers -> {"idle", "waiting", "flag", "isolate", "terminate", "done", "stopped"}]
  BY DeadlinesAssumption DEF TInit, Options, Entrances
<1>2. /\ ~ctx.requested /\ ~ctx.isolate /\ ~fired.cancel /\ ~fired.deadline /\ ~late.run
      /\ ctx \in [requested : BOOLEAN, isolate : BOOLEAN]
      /\ fired \in [cancel : BOOLEAN, deadline : BOOLEAN]
      /\ late \in [run : BOOLEAN, abs : BOOLEAN]
  BY DEF TInit
<1>3. done \in BOOLEAN /\ saw \in BOOLEAN /\ ~saw
  BY DEF TInit
<1>4. boot = 1 /\ script = "none" /\ wd = "none" /\ result = "none" /\ verdict = "none"
  BY DEF TInit
<1>5. QED
  BY <1>1, <1>2, <1>3, <1>4 DEF TInv, TTypeOK, NotStarted, Progress, ScriptPlace, ResultSound,
     TerminatorSound, RequestSound, VerdictHonest, Callers, Checkpoints, Over, OnStack, Before,
     Watched, Choosing, AfterSelect, Decided, Cancellable

\* Neither a caller's request nor the guard's breaks it.
LEMMA RequestsInv == TInv /\ Requests => TInv'
<1> SUFFICES ASSUME TInv, Requests PROVE TInv'
  OBVIOUS
<1> USE DEF TInv, TTypeOK, NotStarted, Progress, ScriptPlace, ResultSound, TerminatorSound,
  RequestSound, VerdictHonest, Options, Entrances, Callers, Checkpoints, Over, OnStack, Before,
     Watched, Choosing, AfterSelect, Decided, Cancellable
<1>1. CASE UserCancels
  BY <1>1 DEF UserCancels
<1>2. CASE GuardFires
  BY <1>2 DEF GuardFires
<1>3. ASSUME NEW c \in Callers, RaiseFlag(c) PROVE TInv'
  BY <1>3 DEF RaiseFlag
<1>4. ASSUME NEW c \in Callers, FindRegistered(c) PROVE TInv'
  BY <1>4 DEF FindRegistered
<1>5. ASSUME NEW c \in Callers, TerminateFound(c) PROVE TInv'
  BY <1>5 DEF TerminateFound
<1>6. QED
  BY <1>1, <1>2, <1>3, <1>4, <1>5 DEF Requests

\* Nor does the terminator thread.
LEMMA TerminatorInv == TInv /\ Terminator => TInv'
<1> SUFFICES ASSUME TInv, Terminator PROVE TInv'
  OBVIOUS
<1> USE DEF TInv, TTypeOK, NotStarted, Progress, ScriptPlace, ResultSound, TerminatorSound,
  RequestSound, VerdictHonest, Entrances, Callers, Checkpoints, Over, OnStack, Before, Watched,
     Choosing, AfterSelect, Decided, Cancellable
<1>1. CASE TerminatorSeesCancel
  BY <1>1 DEF TerminatorSeesCancel
<1>2. CASE TerminatorSeesDeadline
  BY <1>2 DEF TerminatorSeesDeadline
<1>3. CASE TerminatorKills
  BY <1>3 DEF TerminatorKills
<1>4. CASE TerminatorStops
  BY <1>4 DEF TerminatorStops
<1>5. QED
  BY <1>1, <1>2, <1>3, <1>4 DEF Terminator

\* Nor does the script, or the heap limit that ends it.
LEMMA ScriptInv == TInv /\ Script => TInv'
<1> SUFFICES ASSUME TInv, Script PROVE TInv'
  OBVIOUS
<1> USE DEF TInv, TTypeOK, NotStarted, Progress, ScriptPlace, ResultSound, TerminatorSound,
  RequestSound, VerdictHonest, Entrances, Callers, Checkpoints, Over, OnStack, Before, Watched,
     Choosing, AfterSelect, Decided, Cancellable
<1>1. CASE ScriptRuns
  <2>1. CASE ScriptGoes("ready", "busy")
    BY <2>1 DEF ScriptGoes, Polled
  <2>2. CASE ScriptGoes("idle", "busy")
    BY <2>2 DEF ScriptGoes, Polled
  <2>3. QED
    BY <1>1, <2>1, <2>2 DEF ScriptRuns
<1>2. CASE ScriptSettles
  BY <1>2 DEF ScriptSettles, ScriptGoes, Polled
<1>3. CASE ScriptParks
  BY <1>3 DEF ScriptParks, ScriptGoes, Polled
<1>4. CASE SyscallReturns
  BY <1>4 DEF SyscallReturns, ScriptGoes, Polled
<1>5. CASE ScriptUnwinds
  BY <1>5 DEF ScriptUnwinds, ScriptGoes, Polled
<1>6. CASE HeapLimit
  BY <1>6 DEF HeapLimit
<1>7. QED
  BY <1>1, <1>2, <1>3, <1>4, <1>5, <1>6 DEF Script

\* Nor does a clock.
LEMMA ClocksInv == TInv /\ Clocks => TInv'
<1> SUFFICES ASSUME TInv, Clocks PROVE TInv'
  OBVIOUS
<1> USE DEF TInv, TTypeOK, NotStarted, Progress, ScriptPlace, ResultSound, TerminatorSound,
  RequestSound, VerdictHonest, Entrances, Callers, Checkpoints, Over, OnStack, Before, Watched,
     Choosing, AfterSelect, Decided, Cancellable
<1>1. CASE AbsolutePasses
  BY <1>1 DEF AbsolutePasses
<1>2. CASE DeadlinePasses
  BY <1>2 DEF DeadlinePasses
<1>3. QED
  BY <1>1, <1>2 DEF Clocks

\* Nor does the thread that drives the run.
LEMMA DriverInv == TInv /\ Driver => TInv'
<1> SUFFICES ASSUME TInv, Driver PROVE TInv'
  OBVIOUS
<1> USE DEF TInv, TTypeOK, NotStarted, Progress, ScriptPlace, ResultSound, TerminatorSound,
  RequestSound, VerdictHonest, Entrances, Callers, Checkpoints, Over, OnStack, Before, Watched,
     Choosing, AfterSelect, Decided, Cancellable
<1>1. CASE Execute
  BY <1>1 DEF Execute, Refused, ExecuteSubmission, ExecuteNormalized, MinDeadline
<1>2. CASE StartGuard
  BY <1>2 DEF StartGuard, Absolute
<1>3. CASE Checkpoint
  BY <1>3 DEF Checkpoint, Ends
<1>4. CASE RegisterReads
  BY <1>4 DEF RegisterReads, Bounded
<1>5. CASE RegisterPuts
  BY <1>5 DEF RegisterPuts
<1>6. CASE RegisterKills
  BY <1>6 DEF RegisterKills
<1>7. CASE SpawnTerminator
  BY <1>7 DEF SpawnTerminator
<1>8. CASE SpawnTerminatorFails
  BY <1>8 DEF SpawnTerminatorFails, ClearContext, Ends
<1>9. CASE SelectCompletes
  BY <1>9 DEF SelectCompletes, Leaves, Polled
<1>10. CASE SelectTimesOut
  BY <1>10 DEF SelectTimesOut, Leaves
<1>11. CASE SelectCancelled
  BY <1>11 DEF SelectCancelled
<1>12. CASE GraceTimesOut
  BY <1>12 DEF GraceTimesOut, Leaves
<1>13. CASE StopTerminator
  BY <1>13 DEF StopTerminator
<1>14. CASE JoinTerminator
  <2>1. saw' \in BOOLEAN /\ (saw' <=> Cancellable /\ ctx.requested)
    BY <1>14, Zenon DEF JoinTerminator, TInv, TTypeOK, Cancellable
  <2>2. /\ drv = "join" /\ wd \in {"none", "done"} /\ drv' = "clear"
        /\ UNCHANGED <<opts, boot, script, ctx, kill, wd, fired, done, late, req, result, verdict>>
    BY <1>14 DEF JoinTerminator
  <2>3. "request" \in kill \/ fired.cancel => ctx.requested /\ Cancellable
    OBVIOUS
  <2>4. TTypeOK'
    BY <2>1, <2>2
  <2>5. NotStarted' /\ Progress' /\ ScriptPlace' /\ ResultSound'
    BY <2>2
  <2>6. TerminatorSound'
    BY <2>1, <2>2, <2>3
  <2>7. RequestSound'
    BY <2>1, <2>2
  <2>8. VerdictHonest'
    BY <2>2
  <2>9. QED
    BY <2>4, <2>5, <2>6, <2>7, <2>8
<1>15. CASE Decide
  BY <1>15 DEF Decide, ClearContext, Ends, Verdict, OfResult
<1>16. CASE DropGuard
  BY <1>16 DEF DropGuard
<1>17. QED
  BY <1>1, <1>2, <1>3, <1>4, <1>5, <1>6, <1>7, <1>8, <1>9, <1>10, <1>11, <1>12, <1>13, <1>14,
     <1>15, <1>16 DEF Driver

\* So no step of a run does.
LEMMA TNextInv == TInv /\ [TNext]_tvars => TInv'
<1> SUFFICES ASSUME TInv, [TNext]_tvars PROVE TInv'
  OBVIOUS
<1>1. CASE TNext
  BY <1>1, RequestsInv, TerminatorInv, ScriptInv, ClocksInv, DriverInv DEF TNext
<1>2. CASE UNCHANGED tvars
  BY <1>2 DEF tvars, TInv, TTypeOK, NotStarted, Progress, ScriptPlace, ResultSound, TerminatorSound,
    RequestSound, VerdictHonest, Cancellable
<1>3. QED
  BY <1>1, <1>2

-----------------------------------------------------------------------------
(* The inductive invariant of the handshake and of the child. *)

Live == {"main", "await", "own", "run"}

\* What the reader has got is a prefix of what was written, the rest is in the
\* pipe.
Stream == stdin.sent = stdin.held + rd.got

\* The child's main thread and its process live and die together, and no call
\* returns before the process is reaped.
ChildPlace ==
  /\ proc = "none" <=> kid = "none"
  /\ proc = "running" <=> kid \in Live
  /\ proc = "none" => call \in {"here", "idle", "returned"} /\ code = "none"
  /\ call \in {"here", "idle"} => proc = "none" /\ ret = "none"
  /\ call = "cleanup" => proc = "reaped"
  /\ proc # "none" => size <= MaxRequest

\* The writer thread: it exists once a slot is reserved, and a success is
\* reported only for what was written as a whole.
WriterPlace ==
  /\ call \in {"here", "idle", "reserve"} => wr = "none"
  /\ wres = "ok" => stdin.sent = size
  /\ call = "wait" => wres = "ok" /\ wr = "gone"
  /\ ret = "ok" => wres = "ok" /\ wr = "gone" /\ call = "returned"

\* Child mode ends with the acceptance of a whole request, and only after it
\* does the script start.
ChildMode ==
  /\ kid \in {"main", "await", "own"} => env
  /\ kid = "run" => ~env /\ rd.got = size
  /\ call # "here" /\ script # "none" => kid \in {"run", "dead"} /\ rd.got = size /\ ~env
  /\ nested # "own"
  /\ code = "script" => kid = "dead" /\ verdict = "ok"

PInv == TInv /\ TypeOK /\ NothingLeftBehind /\ Stream /\ ChildPlace /\ WriterPlace /\ ChildMode

\* The handshake starts in its invariant, in this process or before the spawn.
LEMMA PInitInv == Init => PInv
<1> SUFFICES ASSUME Init PROVE PInv
  OBVIOUS
<1>1. TInv
  BY TInitInv DEF Init
<1>2. rd.got = 0 /\ rd \in [got : {0}, done : BOOLEAN] /\ env \in BOOLEAN
  BY DEF Init
<1>3. QED
  BY <1>1, <1>2, HandshakeAssumption DEF Init, TInit, PInv, TInv, TypeOK, NothingLeftBehind,
     Stream, ChildPlace, WriterPlace, ChildMode, Live, HoldsSlot

\* A step of the run changes nothing of the handshake, and happens in this
\* process or in a child that has accepted its request.
LEMMA InRunInv == PInv /\ InRun(TNext) => PInv'
<1> SUFFICES ASSUME PInv, InRun(TNext) PROVE PInv'
  OBVIOUS
<1>1. TInv'
  BY TNextInv DEF PInv, InRun
<1>2. /\ UNCHANGED <<call, size, host, proc, kid, env, stdin, rd, wr, wres, slots, others, code, ret, nested>>
      /\ call = "here" \/ (proc = "running" /\ kid = "run")
  BY DEF InRun, InThisProcess, KidAt, pvars
<1>3. QED
  BY <1>1, <1>2 DEF PInv, TInv, TypeOK, NothingLeftBehind, Stream, ChildPlace, WriterPlace,
     ChildMode, Live, HoldsSlot

\* The caller, from the reservation of a writer to the wait for the child.
LEMMA CallerInv == PInv /\ Caller => PInv'
<1> SUFFICES ASSUME PInv, Caller PROVE PInv'
  OBVIOUS
<1>0. TInv' /\ UNCHANGED <<script, verdict>>
  <2>1. UNCHANGED tvars
    BY DEF Caller, TakeReadersFails, Reserve, ReserveFails, WriterSpawnFails, ReceiveResult, ReceiveTimesOut,
       CleanUpChild, CleanUpEnds, WaitChild
  <2>2. QED
    BY <2>1, TNextInv DEF PInv, tvars
<1> USE <1>0, HandshakeAssumption DEF PInv, TInv, TypeOK, NothingLeftBehind, Stream, ChildPlace,
   WriterPlace, ChildMode, Live, HoldsSlot
<1>1. CASE TakeReadersFails
  BY <1>1 DEF TakeReadersFails, KillAndReap, Returns
<1>2. CASE Reserve
  BY <1>2 DEF Reserve
<1>3. CASE ReserveFails
  BY <1>3 DEF ReserveFails, KillAndReap, Returns
<1>4. CASE WriterSpawnFails
  BY <1>4 DEF WriterSpawnFails
<1>5. CASE ReceiveResult
  BY <1>5 DEF ReceiveResult
<1>6. CASE ReceiveTimesOut
  BY <1>6 DEF ReceiveTimesOut
<1>7. CASE CleanUpChild
  BY <1>7 DEF CleanUpChild, KillAndReap
<1>8. CASE CleanUpEnds
  BY <1>8 DEF CleanUpEnds
<1>9. CASE WaitChild
  BY <1>9 DEF WaitChild, Returns
<1>20. QED
  BY <1>1, <1>2, <1>3, <1>4, <1>5, <1>6, <1>7, <1>8, <1>9 DEF Caller

\* The detached writer, also one that the caller has left behind.
LEMMA WriterInv == PInv /\ Writer => PInv'
<1> SUFFICES ASSUME PInv, Writer PROVE PInv'
  OBVIOUS
<1>0. TInv' /\ UNCHANGED <<script, verdict>>
  <2>1. UNCHANGED tvars
    BY DEF Writer, WriterWrites, WriterEnds, WriterCloses, WriterReleases, WriterSends
  <2>2. QED
    BY <2>1, TNextInv DEF PInv, tvars
<1> USE <1>0, HandshakeAssumption DEF PInv, TInv, TypeOK, NothingLeftBehind, Stream, ChildPlace,
   WriterPlace, ChildMode, Live, HoldsSlot
<1>1. CASE WriterWrites
  <2>1. stdin' = [sent |-> stdin.sent + 1, held |-> stdin.held + 1, readers |-> stdin.readers]
    BY <1>1, Zenon DEF WriterWrites
  <2>2. /\ stdin.held < PipeCap /\ stdin.sent < size /\ wr = "write"
        /\ UNCHANGED <<call, size, host, proc, kid, env, rd, wr, wres, slots, others, code, ret, nested>>
    BY <1>1 DEF WriterWrites
  <2>3. QED
    BY <2>1, <2>2
<1>2. CASE WriterEnds
  BY <1>2 DEF WriterEnds
<1>3. CASE WriterCloses
  BY <1>3 DEF WriterCloses
<1>4. CASE WriterReleases
  BY <1>4 DEF WriterReleases
<1>5. CASE WriterSends
  BY <1>5 DEF WriterSends
<1>6. QED
  BY <1>1, <1>2, <1>3, <1>4, <1>5 DEF Writer

\* The child, from its main to its exit.
LEMMA KidInv == PInv /\ Kid => PInv'
<1> SUFFICES ASSUME PInv, Kid PROVE PInv'
  OBVIOUS
<1>0. TInv' /\ UNCHANGED <<script, verdict>>
  <2>1. UNCHANGED tvars
    BY DEF Kid, ChildMain, ReaderReads, ReaderEof, ChildTimesOut, ChildRefuses, ChildAccepts,
       ChildRunEnds
  <2>2. QED
    BY <2>1, TNextInv DEF PInv, tvars
<1> USE <1>0, HandshakeAssumption DEF PInv, TInv, TypeOK, NothingLeftBehind, Stream, ChildPlace,
   WriterPlace, ChildMode, Live, HoldsSlot
<1>1. CASE ChildMain
  BY <1>1 DEF ChildMain, KidAt
<1>2. CASE ReaderReads
  BY <1>2 DEF ReaderReads, KidAt
<1>3. CASE ReaderEof
  BY <1>3 DEF ReaderEof, KidAt, WriteEndOpen
<1>4. CASE ChildTimesOut
  BY <1>4 DEF ChildTimesOut, KidAt, ExitWith
<1>5. CASE ChildRefuses
  BY <1>5 DEF ChildRefuses, KidAt, ExitWith
<1>6. CASE ChildAccepts
  <2>1. ~env' /\ env' \in BOOLEAN
    BY <1>6, Zenon DEF ChildAccepts
  <2>2. QED
    BY <1>6, <2>1 DEF ChildAccepts, KidAt, Complete
<1>7. CASE ChildRunEnds
  BY <1>7 DEF ChildRunEnds, KidAt, ExitWith
<1>8. QED
  BY <1>1, <1>2, <1>3, <1>4, <1>5, <1>6, <1>7 DEF Kid

\* The rest of the host, the faults, and the other calls of the process.
LEMMA WorldInv == PInv /\ World => PInv'
<1> SUFFICES ASSUME PInv, World PROVE PInv'
  OBVIOUS
<1>0. TInv' /\ UNCHANGED <<script, verdict>>
  <2>1. UNCHANGED tvars
    BY DEF World, HostEnds, HostForks, DescendantEnds, ChildNests, ChildCrashes, ParentDies,
       OtherReserves, OtherReleases
  <2>2. QED
    BY <2>1, TNextInv DEF PInv, tvars
<1> USE <1>0, HandshakeAssumption DEF PInv, TInv, TypeOK, NothingLeftBehind, Stream, ChildPlace,
   WriterPlace, ChildMode, Live, HoldsSlot
<1>1. CASE HostEnds
  BY <1>1 DEF HostEnds, KidAt, ExitWith
<1>2. CASE HostForks
  BY <1>2 DEF HostForks, KidAt
<1>3. CASE DescendantEnds
  BY <1>3 DEF DescendantEnds
<1>4. CASE ChildNests
  BY <1>4 DEF ChildNests, KidAt, MayNest
<1>5. CASE ChildCrashes
  BY <1>5 DEF ChildCrashes, ExitWith
<1>6. CASE ParentDies
  BY <1>6 DEF ParentDies
<1>7. CASE OtherReserves
  BY <1>7 DEF OtherReserves
<1>8. CASE OtherReleases
  BY <1>8 DEF OtherReleases
<1>9. QED
  BY <1>1, <1>2, <1>3, <1>4, <1>5, <1>6, <1>7, <1>8 DEF World

\* The only two steps of the caller before there is a child.
LEMMA SpawnInv == PInv /\ (RejectRequest \/ SpawnChild) => PInv'
<1> SUFFICES ASSUME PInv, RejectRequest \/ SpawnChild PROVE PInv'
  OBVIOUS
<1>0. TInv' /\ UNCHANGED <<script, verdict>>
  <2>1. UNCHANGED tvars
    BY DEF RejectRequest, SpawnChild
  <2>2. QED
    BY <2>1, TNextInv DEF PInv, tvars
<1> USE <1>0, HandshakeAssumption DEF PInv, TInv, TypeOK, NothingLeftBehind, Stream, ChildPlace,
   WriterPlace, ChildMode, Live, HoldsSlot
<1>1. CASE RejectRequest
  BY <1>1 DEF RejectRequest, Returns
<1>2. CASE SpawnChild
  <2>1. env' /\ env' \in BOOLEAN
    BY <1>2, Zenon DEF SpawnChild
  <2>2. /\ stdin' = [stdin EXCEPT !.readers = {"child"}]
        /\ call = "idle" /\ size <= MaxRequest
        /\ call' = "reserve" /\ proc' = "running" /\ kid' = "main"
        /\ UNCHANGED <<size, host, rd, wr, wres, slots, others, code, ret, nested>>
    BY <1>2 DEF SpawnChild, MayBeValid
  <2>3. QED
    BY <2>1, <2>2
<1>3. QED
  BY <1>1, <1>2

\* The invariant of the handshake is inductive.
LEMMA PNextInv == PInv /\ [Next]_vars => PInv'
<1> SUFFICES ASSUME PInv, [Next]_vars PROVE PInv'
  OBVIOUS
<1>1. CASE Next
  <2>1. InRun(Requests) \/ InRun(Terminator) \/ InRun(Script) \/ InRun(Clocks) \/ InRun(Driver) => InRun(TNext)
    BY DEF InRun, TNext
  <2>2. QED
    BY <1>1, <2>1, SpawnInv, CallerInv, WriterInv, KidInv, WorldInv, InRunInv DEF Next
<1>2. CASE UNCHANGED vars
  <2>1. TInv'
    BY <1>2, TNextInv DEF PInv, vars
  <2>2. QED
    BY <1>2, <2>1 DEF vars, tvars, pvars, PInv, TInv, TypeOK, NothingLeftBehind, Stream,
       ChildPlace, WriterPlace, ChildMode, Live, HoldsSlot
<1>3. QED
  BY <1>1, <1>2

\* The inductive invariant implies what the run checks.
LEMMA PInvImplies == PInv => Inv /\ RequestHonest /\ VerdictHonest
<1> SUFFICES ASSUME PInv PROVE Inv /\ RequestHonest /\ VerdictHonest
  OBVIOUS
<1>1. NothingOutlivesRun
  BY DEF PInv, TInv, TTypeOK, NothingOutlivesRun, TerminatorSound, RequestSound, Watched, Choosing
<1>2. RequestHonest
  BY HandshakeAssumption DEF PInv, TInv, TypeOK, VerdictHonest, RequestHonest, Progress, Stream,
     ChildPlace, WriterPlace, ChildMode, InThisProcess, Complete
<1>3. QED
  BY <1>1, <1>2 DEF PInv, TInv, Inv

\* It holds in every reachable state.
LEMMA PInvariant == Spec => []PInv
BY PInitInv, PNextInv, PTL DEF Spec

(* A finished run leaves no terminator, guard thread or isolate handle       *)
(* behind; a call that has returned leaves no child process, and the budget  *)
(* counts the writers that are alive (limits.rs 180-210, 500-520, 574-583,   *)
(* subprocess.rs 361-371, 412-440).                                          *)
THEOREM NothingIsLeft == Spec => []Inv
BY PInvariant, PInvImplies, PTL

(* A child's script runs only for a valid request that arrived as a whole,   *)
(* outside of child mode, and the exit code the caller takes for the         *)
(* script's is the script's (subprocess.rs 291-310, 421-431, 665-715).       *)
THEOREM ChildRunsWholeRequest == Spec => []RequestHonest
BY PInvariant, PInvImplies, PTL

(* A run is reported as what happened to it: success, its own error, its     *)
(* deadline or a request to cancel it (limits.rs 575-609, lib.rs 1326-1352). *)
THEOREM VerdictIsTrue == Spec => []VerdictHonest
BY PInvariant, PInvImplies, PTL

\* Every step of the program is one of the run or leaves the run alone.
LEMMA StepOfRun == [Next]_vars => [TNext]_tvars
BY DEF vars, Next, RejectRequest, SpawnChild, Caller, TakeReadersFails, Reserve, ReserveFails,
   WriterSpawnFails, ReceiveResult, ReceiveTimesOut, CleanUpChild, CleanUpEnds, WaitChild, Writer,
   WriterWrites, WriterEnds, WriterCloses, WriterReleases, WriterSends, Kid, ChildMain,
   ReaderReads, ReaderEof, ChildTimesOut, ChildRefuses, ChildAccepts, ChildRunEnds, World,
   HostEnds, HostForks, DescendantEnds, ChildNests, ChildCrashes, ParentDies, OtherReserves,
   OtherReleases, InRun, TNext

\* After the end of a run a request finds no isolate, and the guard's thread
\* holds no handle.
LEMMA EndedHandles == PInv /\ drv = "end" => ~ctx.isolate /\ HoldHandle \subseteq {"user"}
BY DEF PInv, TInv, TTypeOK, RequestSound, Watched, Choosing, HoldHandle, Callers

(* What a run returned stays; once it has returned nobody finds its isolate  *)
(* any more, and nobody terminates it but a user whose request had found the *)
(* handle before the run took it out (limits.rs 88-95, 524-532, 180-210).    *)
THEOREM EndedRunIsLeftAlone == Spec => EndedRunLeftAlone
<1> DEFINE Kept == /\ UNCHANGED <<verdict, script>>
                   /\ HoldHandle' \subseteq HoldHandle
                   /\ kill' # kill => /\ HoldHandle = {"user"}
                                     /\ kill' = kill \cup {"late"}
<1>1. ASSUME PInv, [Next]_vars, drv = "end" PROVE Kept
  <2>1. CASE UNCHANGED tvars
    BY <2>1 DEF tvars, HoldHandle
  <2>2. CASE Requests
    <3>0. ~ctx.isolate /\ HoldHandle \subseteq {"user"} /\ DOMAIN req = Callers
      BY <1>1, EndedHandles DEF PInv, TInv, TTypeOK
    <3>1. CASE UserCancels
      BY <3>0, <3>1 DEF UserCancels, HoldHandle
    <3>2. CASE GuardFires
      BY <3>0, <3>2 DEF GuardFires, HoldHandle
    <3>3. ASSUME NEW c \in Callers, RaiseFlag(c) PROVE Kept
      BY <3>0, <3>3 DEF RaiseFlag, HoldHandle
    <3>4. ASSUME NEW c \in Callers, FindRegistered(c) PROVE Kept
      BY <3>0, <3>4 DEF FindRegistered, HoldHandle
    <3>5. ASSUME NEW c \in Callers, TerminateFound(c) PROVE Kept
      BY <1>1, <3>0, <3>5 DEF TerminateFound, HoldHandle, AfterSelect
    <3>6. QED
      BY <2>2, <3>1, <3>2, <3>3, <3>4, <3>5 DEF Requests
  <2>3. CASE Terminator
    BY <1>1, <2>3 DEF PInv, TInv, TerminatorSound, Watched, Choosing, Terminator,
       TerminatorSeesCancel, TerminatorSeesDeadline, TerminatorKills, TerminatorStops, HoldHandle
  <2>4. CASE Script
    BY <1>1, <2>4 DEF PInv, TInv, ScriptPlace, OnStack, Script, ScriptRuns, ScriptSettles,
       ScriptParks, SyscallReturns, ScriptUnwinds, HeapLimit, ScriptGoes, Polled
  <2>5. CASE Clocks
    BY <2>5 DEF Clocks, AbsolutePasses, DeadlinePasses, HoldHandle
  <2>6. CASE Driver
    BY <1>1, <2>6 DEF Driver, Execute, StartGuard, Checkpoint, RegisterReads, RegisterPuts,
       RegisterKills, SpawnTerminator, SpawnTerminatorFails, SelectCompletes, SelectTimesOut,
       SelectCancelled, GraceTimesOut, StopTerminator, JoinTerminator, Decide, DropGuard, Polled
  <2>7. QED
    BY <1>1, <2>1, <2>2, <2>3, <2>4, <2>5, <2>6, StepOfRun DEF TNext
<1>2. PInv /\ [Next]_vars => [drv = "end" => Kept]_vars
  BY <1>1
<1>3. QED
  BY <1>2, PInvariant, PTL DEF Spec, EndedRunLeftAlone
=============================================================================
