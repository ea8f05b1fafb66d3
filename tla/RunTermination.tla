---------------------------- MODULE RunTermination ----------------------------
(***************************************************************************)
(* How one in-process run is bounded (limits.rs): the cancellation context *)
(* that any thread may raise, the guard thread of an executor's absolute   *)
(* deadline, the checkpoints of the bootstrap (lib.rs), the registration   *)
(* of the isolate, the terminator thread, and the select over completion,  *)
(* timeout and cancellation that decides what the run is reported as.      *)
(*                                                                         *)
(* The script and the driver share a thread: while JavaScript executes, or *)
(* is stuck in a system call, nothing of the driver is polled.             *)
(***************************************************************************)
EXTENDS Naturals, FiniteSets

CONSTANTS Deadlines      \* execution_deadline: a subset of {"none", "zero", "finite"}

ASSUME DeadlinesAssumption == Deadlines \subseteq {"none", "zero", "finite"}

VARIABLES
  opts,     \* [deadline, request : {"none","zero","finite"}, via : Entrances]
  drv,      \* program counter of the driving thread
  boot,     \* cancellation checkpoints passed (1 .. Checkpoints)
  script,   \* what the isolate is doing, or how it ended
  ctx,      \* CancellationContext: [requested, isolate]
  kill,     \* who has called terminate_execution on the isolate; "late" is a
            \* request that reaches it when its future is no longer polled
  wd,       \* terminator thread: "none", "loop", "cancel", "deadline", "done"
  fired,    \* its two flags: [cancel, deadline]
  done,     \* the run told the terminator to stop
  late,     \* clocks: [run |-> deadline passed, abs |-> absolute instant passed]
  req,      \* request_with_reason, per caller: "idle","flag","isolate",
            \* "terminate" (with a clone of the handle),"done","stopped"
  saw,      \* local of the driver: is_requested() as it has read it last
  result,   \* local: how the future ended, or the termination select chose
  verdict   \* what run_inner returns, "none" before

tvars == <<opts, drv, boot, script, ctx, kill, wd, fired, done, late, req, saw, result, verdict>>

\* Who asks for the run: a call of run or run_with, Executor::execute, a task
\* submitted to the admission scheduler, or the child of a supervised session.
\* Only a submission has a deadline of its own, the request's.
Entrances == {"call", "execute", "submit", "child"}
Options == {o \in [deadline : Deadlines, request : {"none", "finite"}, via : Entrances] :
              o.request = "finite" => o.via = "submit"}
Cancellable == opts.via \in {"submit", "child"}

\* absolute_execution_deadline: the earlier of what the request and the options
\* say, for a submission only.
Absolute == opts.via = "submit" /\ (opts.request # "none" \/ opts.deadline # "none")

\* min_deadline: what the run itself is given.
MinDeadline(o) == IF o.deadline = "none" THEN o.request ELSE o.deadline

Checkpoints == 4
Callers == {"user", "guard"}
Over == {"finished", "threw", "exited", "unwound"}     \* the future is ready
OnStack == {"busy", "blocked"}                         \* the thread is inside the isolate
AfterSelect == {"stop", "join", "clear", "workers", "end"}

TInit ==
  /\ opts \in Options
  /\ drv = (IF opts.via \in {"execute", "submit"} THEN "execute" ELSE "guard") /\ boot = 1 /\ script = "none"
  /\ ctx = [requested |-> FALSE, isolate |-> FALSE]
  /\ kill = {} /\ wd = "none" /\ fired = [cancel |-> FALSE, deadline |-> FALSE]
  /\ done = FALSE /\ late = [run |-> FALSE, abs |-> FALSE]
  /\ req = [c \in Callers |-> "idle"]
  /\ saw = FALSE /\ result = "none" /\ verdict = "none"

-----------------------------------------------------------------------------
(* CancellationContext::request_with_reason: the flag (and with it the     *)
(* wakeup of wait_requested), then the handle is cloned under its lock,    *)
(* then the isolate is terminated with the lock released.                  *)

RaiseFlag(c) ==
  /\ req[c] = "flag"
  /\ ctx' = [requested |-> TRUE, isolate |-> ctx.isolate]
  /\ req' = [req EXCEPT ![c] = "isolate"]
  /\ UNCHANGED <<opts, drv, boot, script, kill, wd, fired, done, late, saw, result, verdict>>

FindRegistered(c) ==
  /\ req[c] = "isolate"
  /\ req' = [req EXCEPT ![c] = IF ctx.isolate THEN "terminate" ELSE "done"]
  /\ UNCHANGED <<opts, drv, boot, script, ctx, kill, wd, fired, done, late, saw, result, verdict>>

TerminateFound(c) ==
  /\ req[c] = "terminate"
  /\ kill' = kill \cup {IF drv \in AfterSelect THEN "late" ELSE "request"}
  /\ req' = [req EXCEPT ![c] = "done"]
  /\ UNCHANGED <<opts, drv, boot, script, ctx, wd, fired, done, late, saw, result, verdict>>

UserCancels ==
  /\ Cancellable /\ req["user"] = "idle"
  /\ req' = [req EXCEPT !["user"] = "flag"]
  /\ UNCHANGED <<opts, drv, boot, script, ctx, kill, wd, fired, done, late, saw, result, verdict>>

\* AbsoluteDeadlineGuard: the thread's recv_timeout runs out.
GuardFires ==
  /\ req["guard"] = "waiting" /\ late.abs
  /\ req' = [req EXCEPT !["guard"] = "flag"]
  /\ UNCHANGED <<opts, drv, boot, script, ctx, kill, wd, fired, done, late, saw, result, verdict>>

\* Before the call the request's deadline is the only one that runs.
AbsolutePasses ==
  /\ Absolute /\ ~late.abs /\ (drv = "execute" => opts.request # "none")
  /\ late' = [run |-> late.run, abs |-> TRUE]
  /\ UNCHANGED <<opts, drv, boot, script, ctx, kill, wd, fired, done, req, saw, result, verdict>>

DeadlinePasses ==
  /\ opts.deadline = "finite" /\ ~late.run
  /\ drv \in {"select", "grace", "stop", "join"}
  /\ late' = [run |-> TRUE, abs |-> late.abs]
  /\ UNCHANGED <<opts, drv, boot, script, ctx, kill, wd, fired, done, req, saw, result, verdict>>

-----------------------------------------------------------------------------
(* Up to the V8 boundary.                                                  *)

\* normalize_options: a request that does not fit the executor, or an
\* asynchronous one outside of a runtime.
Refused == drv' = "end" /\ verdict' = "error" /\ UNCHANGED opts

\* execute_submission: a submission whose time is up, on either clock, is not
\* dispatched.
ExecuteSubmission ==
  /\ opts.via = "submit"
  /\ IF late.abs \/ opts.deadline = "zero"
       THEN drv' = "end" /\ verdict' = "deadline" /\ UNCHANGED opts
       ELSE /\ opts' = [opts EXCEPT !.deadline = MinDeadline(opts)]
            /\ drv' = "guard" /\ UNCHANGED verdict

\* execute and execute_async go on to the run as it was asked for.
ExecuteNormalized == opts.via = "execute" /\ drv' = "guard" /\ UNCHANGED <<opts, verdict>>

Execute ==
  /\ drv = "execute"
  /\ Refused \/ ExecuteSubmission \/ ExecuteNormalized
  /\ UNCHANGED <<boot, script, ctx, kill, wd, fired, done, late, req, saw, result>>

\* An absolute deadline that has passed is requested by the caller itself,
\* otherwise by a thread.
StartGuard ==
  /\ drv = "guard"
  /\ \/ /\ ~Absolute
        /\ drv' = "boot" /\ UNCHANGED <<req, verdict>>
     \/ /\ Absolute /\ late.abs /\ req["guard"] = "idle"
        /\ req' = [req EXCEPT !["guard"] = "flag"] /\ UNCHANGED <<drv, verdict>>
     \/ /\ Absolute /\ ~late.abs /\ req["guard"] = "idle"
        /\ req' = [req EXCEPT !["guard"] = "waiting"] /\ drv' = "boot" /\ UNCHANGED verdict
     \/ /\ Absolute /\ req["guard"] = "done"
        /\ drv' = "boot" /\ UNCHANGED <<req, verdict>>
     \/ /\ Absolute /\ ~late.abs /\ req["guard"] = "idle"     \* the thread cannot be spawned
        /\ drv' = "end" /\ verdict' = "infrastructure" /\ UNCHANGED req
  /\ UNCHANGED <<opts, boot, script, ctx, kill, wd, fired, done, late, saw, result>>

Ends(v) == drv' = "workers" /\ verdict' = v

\* cancellation_checkpoint, with the zero-deadline check of the first one and
\* the fallible construction between them.
Checkpoint ==
  /\ drv = "boot"
  /\ \/ ctx.requested /\ Cancellable /\ Ends("cancelled") /\ UNCHANGED boot
     \/ /\ ~(ctx.requested /\ Cancellable)
        /\ \/ boot = 1 /\ opts.deadline = "zero" /\ Ends("deadline") /\ UNCHANGED boot
           \/ Ends("error") /\ UNCHANGED boot
           \/ ~(boot = 1 /\ opts.deadline = "zero") /\ boot < Checkpoints
              /\ boot' = boot + 1 /\ UNCHANGED <<drv, verdict>>
           \/ boot = Checkpoints /\ drv' = "register" /\ UNCHANGED <<boot, verdict>>
  /\ UNCHANGED <<opts, script, ctx, kill, wd, fired, done, late, req, saw, result>>

Bounded == opts.deadline # "none" \/ Cancellable

\* CancellationContext::register: flag, isolate, then the kill.
RegisterReads ==
  /\ drv = "register"
  /\ saw' = (Cancellable /\ ctx.requested)
  /\ drv' = IF Bounded THEN (IF Cancellable THEN "register_put" ELSE "spawn") ELSE "select"
  /\ script' = "ready"
  /\ UNCHANGED <<opts, boot, ctx, kill, wd, fired, done, late, req, result, verdict>>

RegisterPuts ==
  /\ drv = "register_put"
  /\ ctx' = [requested |-> ctx.requested, isolate |-> TRUE]
  /\ drv' = "register_kill"
  /\ UNCHANGED <<opts, boot, script, kill, wd, fired, done, late, req, saw, result, verdict>>

RegisterKills ==
  /\ drv = "register_kill"
  /\ kill' = IF saw THEN kill \cup {"request"} ELSE kill
  /\ drv' = "spawn"
  /\ UNCHANGED <<opts, boot, script, ctx, wd, fired, done, late, req, saw, result, verdict>>

SpawnTerminator ==
  /\ drv = "spawn"
  /\ wd' = "loop" /\ drv' = "select"
  /\ UNCHANGED <<opts, boot, script, ctx, kill, fired, done, late, req, saw, result, verdict>>

ClearContext == ctx' = [requested |-> ctx.requested, isolate |-> FALSE]

SpawnTerminatorFails ==
  /\ drv = "spawn"
  /\ ClearContext
  /\ Ends("infrastructure")
  /\ UNCHANGED <<opts, boot, script, kill, wd, fired, done, late, req, saw, result>>

-----------------------------------------------------------------------------
(* The terminator thread.                                                  *)

\* Mutant: the terminator leaves a request to the handle its caller found.
TerminatorSeesCancelNever == FALSE /\ UNCHANGED tvars

\* Every wait is at most 10 ms, so the flag is polled whatever it missed.
TerminatorSeesCancel ==
  /\ wd = "loop" /\ Cancellable /\ ctx.requested
  /\ wd' = "cancel" /\ fired' = [cancel |-> TRUE, deadline |-> fired.deadline]
  /\ UNCHANGED <<opts, drv, boot, script, ctx, kill, done, late, req, saw, result, verdict>>

TerminatorSeesDeadline ==
  /\ wd = "loop" /\ late.run /\ ~done
  /\ wd' = "deadline" /\ fired' = [cancel |-> fired.cancel, deadline |-> TRUE]
  /\ UNCHANGED <<opts, drv, boot, script, ctx, kill, done, late, req, saw, result, verdict>>

TerminatorKills ==
  /\ wd \in {"cancel", "deadline"}
  /\ kill' = kill \cup {wd} /\ wd' = "done"
  /\ UNCHANGED <<opts, drv, boot, script, ctx, fired, done, late, req, saw, result, verdict>>

TerminatorStops ==
  /\ wd = "loop" /\ done
  /\ wd' = "done"
  /\ UNCHANGED <<opts, drv, boot, script, ctx, kill, fired, done, late, req, saw, result, verdict>>

-----------------------------------------------------------------------------
(* The script, which the select polls.                                     *)

Polled == drv \in {"select", "grace"}
ScriptGoes(from, to) ==
  /\ Polled /\ script = from /\ script' = to
  /\ UNCHANGED <<opts, drv, boot, ctx, kill, wd, fired, done, late, req, saw, result, verdict>>

ScriptRuns == ScriptGoes("ready", "busy") \/ ScriptGoes("idle", "busy")
\* Native code between two stack checks may still end the run; a pending
\* termination is seen at the next one, so it no longer parks.
ScriptSettles == \E to \in {"finished", "threw", "exited"} : ScriptGoes("busy", to)
ScriptParks == kill = {} /\ (ScriptGoes("busy", "idle") \/ ScriptGoes("busy", "blocked"))
SyscallReturns == ScriptGoes("blocked", "busy")
ScriptUnwinds == kill # {} /\ ScriptGoes("busy", "unwound")

\* install_heap_limit_guard: the near-heap-limit callback.
HeapLimit ==
  /\ script = "busy" /\ "heap" \notin kill
  /\ kill' = kill \cup {"heap"}
  /\ UNCHANGED <<opts, drv, boot, script, ctx, wd, fired, done, late, req, saw, result, verdict>>

-----------------------------------------------------------------------------
(* run_with_termination's select, polled only when the thread has left the *)
(* isolate.                                                                *)

Leaves(r) == result' = r /\ drv' = "stop"

SelectCompletes ==
  /\ Polled /\ script \in Over
  /\ Leaves(script)
  /\ UNCHANGED <<opts, boot, script, ctx, kill, wd, fired, done, late, req, saw, verdict>>

\* deadline + GRACE: the event loop was idle when the deadline came.
SelectTimesOut ==
  /\ drv = "select" /\ script = "idle" /\ late.run
  /\ Leaves("deadline") /\ script' = "dropped"
  /\ UNCHANGED <<opts, boot, ctx, kill, wd, fired, done, late, req, saw, verdict>>

SelectCancelled ==
  /\ drv = "select" /\ Cancellable /\ ctx.requested /\ script \notin OnStack
  /\ drv' = "grace"
  /\ UNCHANGED <<opts, boot, script, ctx, kill, wd, fired, done, late, req, saw, result, verdict>>

GraceTimesOut ==
  /\ drv = "grace" /\ script \in {"idle", "ready"}
  /\ Leaves("cancelled") /\ script' = "dropped"
  /\ UNCHANGED <<opts, boot, ctx, kill, wd, fired, done, late, req, saw, verdict>>

StopTerminator ==
  /\ drv = "stop"
  /\ done' = TRUE /\ drv' = "join"
  /\ UNCHANGED <<opts, boot, script, ctx, kill, wd, fired, late, req, saw, result, verdict>>

OfResult(r) == CASE r \in {"finished", "exited"} -> "ok"
                 [] r \in {"threw", "unwound"} -> "error"
                 [] OTHER -> r

\* Mutant: what the future returned is believed.
VerdictOfFuture == OfResult(result)

\* A request seen after the join wins, then the termination the select chose,
\* then the flags, then the script's own result.
Verdict == IF saw THEN "cancelled"
           ELSE IF result \in {"deadline", "cancelled"} THEN result
           ELSE IF fired.cancel THEN "cancelled"
           ELSE IF fired.deadline THEN "deadline"
           ELSE OfResult(result)

JoinTerminator ==
  /\ drv = "join" /\ wd \in {"none", "done"}
  /\ saw' = (Cancellable /\ ctx.requested)
  /\ drv' = "clear"
  /\ UNCHANGED <<opts, boot, script, ctx, kill, wd, fired, done, late, req, result, verdict>>

Decide ==
  /\ drv = "clear"
  /\ ClearContext
  /\ Ends(Verdict)
  /\ UNCHANGED <<opts, boot, script, kill, wd, fired, done, late, req, saw, result>>

\* Mutant: the guard thread is told to stop and left behind.
DropGuardUnjoined ==
  /\ drv = "workers"
  /\ drv' = "end"
  /\ req' = IF req["guard"] = "waiting" THEN [req EXCEPT !["guard"] = "stopped"] ELSE req
  /\ UNCHANGED <<opts, boot, script, ctx, kill, wd, fired, done, late, saw, result, verdict>>

\* The run's workers are closed and awaited (module RunAdmission), then the
\* guard of the absolute deadline is dropped: stop, and join its thread.
DropGuard ==
  /\ drv = "workers"
  /\ \/ /\ req["guard"] \in {"idle", "done", "stopped"}
        /\ drv' = "end" /\ UNCHANGED req
     \/ /\ req["guard"] = "waiting"
        /\ req' = [req EXCEPT !["guard"] = "stopped"] /\ UNCHANGED drv
  /\ UNCHANGED <<opts, boot, script, ctx, kill, wd, fired, done, late, saw, result, verdict>>

-----------------------------------------------------------------------------
Requests == \/ UserCancels \/ GuardFires
            \/ \E c \in Callers : RaiseFlag(c) \/ FindRegistered(c) \/ TerminateFound(c)
Terminator == TerminatorSeesCancel \/ TerminatorSeesDeadline \/ TerminatorKills \/ TerminatorStops
Script == ScriptRuns \/ ScriptSettles \/ ScriptParks \/ SyscallReturns \/ ScriptUnwinds \/ HeapLimit
Clocks == AbsolutePasses \/ DeadlinePasses
Driver == \/ Execute \/ StartGuard \/ Checkpoint \/ RegisterReads \/ RegisterPuts \/ RegisterKills
          \/ SpawnTerminator \/ SpawnTerminatorFails \/ SelectCompletes \/ SelectTimesOut
          \/ SelectCancelled \/ GraceTimesOut \/ StopTerminator \/ JoinTerminator \/ Decide
          \/ DropGuard

TNext == Requests \/ Terminator \/ Script \/ Clocks \/ Driver

-----------------------------------------------------------------------------
TTypeOK ==
  /\ opts \in [deadline : {"none", "zero", "finite"}, request : {"none", "finite"}, via : Entrances]
  /\ drv \in {"execute", "guard", "boot", "register", "register_put", "register_kill", "spawn", "select",
              "grace"} \cup AfterSelect
  /\ boot \in 1..Checkpoints
  /\ script \in {"none", "ready", "idle", "dropped"} \cup OnStack \cup Over
  /\ ctx \in [requested : BOOLEAN, isolate : BOOLEAN]
  /\ kill \subseteq {"request", "late", "cancel", "deadline", "heap"}
  /\ wd \in {"none", "loop", "cancel", "deadline", "done"}
  /\ fired \in [cancel : BOOLEAN, deadline : BOOLEAN]
  /\ done \in BOOLEAN /\ saw \in BOOLEAN
  /\ late \in [run : BOOLEAN, abs : BOOLEAN]
  /\ req \in [Callers -> {"idle", "waiting", "flag", "isolate", "terminate", "done", "stopped"}]
  /\ result \in {"none", "deadline", "cancelled"} \cup Over
  /\ verdict \in {"none", "ok", "error", "deadline", "cancelled", "infrastructure"}

\* What a run is reported as is what happened to it (limits.rs 575-609,
\* lib.rs 1326-1352): success only for a script that ended by itself, a
\* timeout only after its deadline, a cancellation only after a request, and
\* an isolate that was terminated from outside while its script was polled is
\* never reported as the script's own error: only the heap limit is.
VerdictHonest ==
  /\ verdict = "ok" => script \in {"finished", "exited"}
  /\ verdict = "deadline" => late.run \/ opts.deadline = "zero" \/ (script = "none" /\ late.abs)
  /\ verdict = "cancelled" => ctx.requested
  /\ verdict = "error" /\ script = "unwound" => kill \ {"late"} = {"heap"}
  /\ opts.deadline = "zero" => script = "none"

\* Nothing of a run outlives it: when it has returned, its terminator and its
\* guard thread are gone, and the context holds no isolate handle that a late
\* request could find (limits.rs 180-210, 524-532).
NothingOutlivesRun ==
  drv = "end" => /\ wd \in {"none", "done"}
                 /\ req["guard"] \in {"idle", "done", "stopped"}
                 /\ ~ctx.isolate

=============================================================================
