# A TLA+ model of libdeno

libdeno runs JavaScript and TypeScript inside a Rust process. Most of what it
computes is Deno's; what is its own, and hard, is who may run when, how a run is
stopped, and what its caller is told. This directory models that part, checks it
with TLC, and proves its safety with TLAPS: every invariant, and every action
property and refinement that a passing run checks, is also a theorem for every
value of the constants. Liveness is model-checked.

## Inventory

Paths are relative to the repository; all Rust files are under `src/`.

| part | state | operations | what is hard |
|---|---|---|---|
| admission scheduler (`executor.rs`) | deques `queue` and `ready`, map `active`, `accepting`, `manager_started`, a `TaskControl` and a `ResultCell` per task | `submit`, `cancel`, `shutdown`, manager pass, dispatch, task thread | a mutex, a condition variable, a lock per task and an atomic, taken by five kinds of thread; deadlines; threads that cannot be spawned |
| supervised session (`subprocess.rs`, `supervisor.rs`, `limits.rs`) | parent and child state machines, the cancellation context, one TCP stream | handshake, START barrier, CANCEL, TERMINAL, reap, mapping to a result | four threads in two processes, cancellation and deadline at any moment, crash and hang of the child |
| output collection (`subprocess.rs`, `budget.rs`, `pipe_read.rs`) | a reader thread, a pipe and a channel per stream, process-wide slots | `take`, drain, `collect` | descendants that inherit the pipe, detached threads, limits, timeouts |
| run lease and worker registry (`lib.rs`, `worker_lifecycle.rs`, `worker_factory.rs`) | `RUN_STATE`, `ACTIVE_WORKERS`, a registry per run | acquire, drop, reserve, attach, close, wait | two atomics that have to be read together, workers built while their run closes |
| run termination (`limits.rs`) | watchdog thread, fired flags | deadline, cancel, complete | three racing ends of a run |
| plain subprocess (`subprocess.rs`, `token.rs`) | request writer thread, its budget | handshake, run, status | detached writer, child that does not read |
| resolver runtime (`runtime.rs`, `services.rs`, `npm_cache.rs`) | shared stack, generations, rebuild gate, snapshot cache | probe, rebuild, publish, `refresh` | stale stacks, builds that race with edits |
| in-process capture (`output.rs`) | saved descriptors, readers, budget | redirect, restore, collect | process-global descriptors, dropped futures |
| permission broker (`permission_broker.rs`) | installed broker, hook thread, socket directory | install, serve | exclusive installation, checks that cannot be interrupted |
| module loading (`module_loader.rs`, `graph.rs`), analysis cache (`analysis_cache.rs`) | a graph per isolate, the lockfile, a bounded cache | `prepare_load`, `load`; get, insert | imports that interleave at awaits, failed builds, revocation, hung fetches |
| worker messaging (`thread_messaging.rs`) | a map of channels | register, post, unregister | identity of entries |
| HTTP, permission syntax, guards, timing, snapshot build, Python binding | mostly none | | adapters to Deno crates |

How they interact: the executor admits a task and runs it on a task thread, in
this process (which takes a run lease) or in a supervised subprocess (a session
and an output collection). A cancellation goes from a handle, a deadline or a
shutdown into the task's control, from there into a `CancellationContext`, and
then to the watchdog of the run or to the control worker of the session. An
in-process run takes the resolver stack of its runtime, redirects the process's
output if it captures, loads its modules, and closes and awaits its workers before
it drops the lease; an installed broker decides every permission check of all runs.

What makes each part correct: the scheduler keeps its limits and its order, loses no
task, and answers every handle once, after the permit is back; a session runs user code
only after an authorized START and tells the truth about how it ended; collected output
is a prefix of what was written, and a slot is never lost; a captured run is alone in
the process, gets its own output and gives the descriptors back; a run is reported as
what happened to it and an interrupted run ends; a resolver stack is made of inputs that
existed together, while its run waited; and an isolate loads only what its own
permissions and the lockfile admit. `PROJECT.json` lists under `hazards` the places in
the code where this could go wrong, and the properties that would show it.

## Modules

| module | models | runs |
|---|---|---|
| `AdmissionScheduler` | `executor.rs` | `admission_safety`, `admission_shutdown`, `admission_live`, `admission_hung`, `admission_report` |
| `SupervisorSession` | one supervised run (`subprocess.rs`, `supervisor.rs`) | `session` |
| `RunTermination` | deadline, cancellation and watchdog of a run in this process | |
| `PlainSubprocess` | EXTENDS it: the same run, here or in a plain child | `subprocess` |
| `RunAdmission` | leases and workers | |
| `PermissionBroker`, `MCPermissionBroker` (its bounds) | EXTENDS it: installation of broker or hook, and checks | `run_admission` |
| `OutputCollection`, `MCOutputCollection` | capture of a child's output | `output` |
| `StdioCapture`, `MCStdioCapture` | capture of the process's own output | `capture` |
| `ResolverContract` | what a runtime promises its runs | |
| `ResolverRuntime` | the resolver stack runs share; implements it | `resolver` |
| `ModuleLoading`, `MCModuleLoading` | graphs, lockfile and analysis cache of a run | `loading` |
| `AdmissionSchedulerProofs`, `SupervisorSessionProofs`, `PlainSubprocessProofs`, `PermissionBrokerProofs`, `OutputCollectionProofs`, `StdioCaptureProofs`, `ResolverRuntimeProofs`, `ModuleLoadingProofs` | theorems about the module of that name and those it extends | |

A definition named `XOffByOne`, `XSkipped` or the like, directly above `X`, is `X`
with a plausible mistake. No specification uses it; the `mutants` of
`PROJECT.json` put it in the place of `X` to show that a property notices.

### AdmissionScheduler

Variables carry the names of `SchedulerState` and `ControlState`. A task is its
id. The code moves a `TaskOwner` from hand to hand; here `owner[t]` says who has
it (a deque, the manager, a task thread, a caller that is about to end it) and
`step[t]` how far that holder is in `send_terminal`: mark the control terminal,
release the permit, notify, publish. `sub`, `mgr` and `shut` are the control
points of a caller of `submit`, of the manager and of a caller of `shutdown`.

Atomicity follows the locks. A critical section of the scheduler mutex is one
action when it looks at each task control at most once. The manager's pass and
the scan of `shutdown` look at many controls, which task threads change without
the scheduler mutex; they are split into one action per control and `lock`
remembers who holds the mutex. What happens outside the mutex (control
updates, `notify_one`, `notify_all`, `publish`, the compare-exchange on
`manager_started`, the spawn of a thread) is a separate action.

Time: `passed` is the set of ids whose deadline is over; the manager's pass uses
the clock it read at its beginning (`now`), its wait ends when the first of the
deadlines it waits for passes, or at any moment when there is none (the code
polls every 100 ms).

Bounds: `MaxId` submissions; one call of `shutdown`; `Cancellers` are the
handles that may be cancelled. With one permit, three submissions are enough to
have a running, a ready or promoted, and a queued task at once, which is what
order and wakeups need; shutdown is explored with two.

### SupervisorSession

`drv` and `worker` are the parent's driver and control worker, `child` and
`control` the child's main and control threads; `pstate`, `p_reason`,
`cancel_sent`, `started_received`, `p_terminal` are the fields of
`SupervisorParentSession`; `reason` and `requested` the two halves of the
`CancellationContext`, which the executor sets in two steps. A frame is its kind
and a reason or outcome. The link delivers in order until an end closes; a child
that exits with a frame unread resets it, and then what was in flight to the
parent may be lost.

Timeouts: `due` says that the effective deadline is over. `Slow` allows any
timeout of a frame to fire although the peer is alive; without it the only
timeouts are the deadline, the grace of a cancelled START and the grace of the
control worker. `Faults` allows the child to die and the system to refuse a
spawn, a kill or a wait. A peer that fails HELLO, by its content or its
slowness, is a `Stranger`. What the system may refuse the driver is refused where
the code asks for it: the readers of the child's output (the child is killed and
reaped), a connection, and the control worker, whose thread is spawned after START
has been sent.

`result` is the class of what the caller gets: `Timeout` and `Cancelled` are
the plain errors, `SupervisorTimeout`, `ChildCrash` and `Infrastructure` the
categories, `Mismatch` the error about an exit status that contradicts TERMINAL.

Left out: the encoding of frames and partial reads, the captured output (in
`OutputCollection`; its deadline enters here as `won`), and duplicates of
TERMINAL, which this child does not send.

### RunTermination and PlainSubprocess

`RunTermination` is one run of a script: `drv` is the thread that drives it,
`script` what the isolate does, `wd` the terminator thread, `ctx` the
`CancellationContext`. JavaScript and the driver share a thread, so nothing of the
select is polled while `script` is `busy` or `blocked` in a system call; only a
`terminate_execution`, recorded in `kill` with its author, gets it out.
`request_with_reason` is three steps (raise the flag, clone the handle under its lock,
terminate after unlocking) and `register` three (flag, handle, kill), which is where
they can miss each other; the driver joins the terminator and reads the flag in one
step and withdraws the handle in the next. A termination that arrives after the select
is recorded as `late`: the script is over, but nothing stops the call. `opts.via` is the
entrance: a direct call, `Executor::execute`, a submission to the scheduler (with
the guard thread of its absolute deadline), or the child of a session. The four
cancellation checkpoints of the bootstrap are a counter; everything that may fail
between two of them is one choice.

`PlainSubprocess` adds the process around it, from the spawn of the child, whose
output readers may be refused before the request is written. `call = "here"` is a run in this
process, with every entrance. Otherwise the request travels: `wr` is the detached
writer with its slot, `stdin` the pipe (chunks sent and held, and who still has the
read end), `rd` the child's reader thread, `kid` the child's main thread. `host`
says whether the executable services child mode at all; a `mute` one runs its own
`main`, may call `run_in_subprocess` itself and must be refused. Once the child
accepts, the same `drv`, `script` and `wd` are its run, and its exit code comes from
their verdict. Bounds: a pipe of one chunk, requests of up to three where two are
allowed, one slot, which another call may have: a writer can block, be killed in
the middle of a request, and meet an exhausted budget.

### RunAdmission and PermissionBroker

Every load and compare-exchange on the two atomics is a step. A section under
the mutex of a registry is one step. `stopping` holds the stops that were decided
under the mutex and are delivered after it. A worker that is refused is built and
terminated without running. Worker ids are unique, as the runtime hands them
out.

`PermissionBroker` composes the lease with its client that needs it most:
installation takes `INSTALL_LOCK`, the exclusive lease, and then, step by step, the
socket directory, the connection, the bridge thread, `set_broker` and the start
signal, each of which may fail. `ask` is the check under way (upstream serializes
them); a thread whose check is with the hook is parked: it can neither end nor be
stopped. `alive` turns false where upstream exits the process.

Bounds: three threads and two workers that belong to one run or to two: enough for
a failed exchange, for a worker left behind between the two loads of an exclusive
owner, for a worker that creates another while its run closes, and for two
installations next to a run. `MCAsks` names the four combinations of requests.

### OutputCollection

A byte is its position in the stream, so that a lost, repeated or reordered byte
is visible. A reader is a sequence of steps (wait, check, send, overflow,
release, announce), because the collector may give up between any two. The child,
its descendants and the slots of other runs are the environment. Bounds: pipes
of two bytes, chunks of two, one byte kept, three written to stdout and one to
stderr: a chunk may straddle the limit, follow it, and a writer may block.
`Deadlines` is `{TRUE, FALSE}`, since only the end of the collection time
distinguishes a run with an effective deadline from one without.

### StdioCapture

Output is a sequence of blocks that carry the name of their author, so that a block in
the wrong place shows. `fd` says where stdout and stderr of the process point, `hostbuf`
is what the host has printed and not flushed, `terminal` who has reached the original
target. A capture is the order of the code: async guard, lease and prompt check, each
with its refusal, then flush, then per stream a slot, a pipe, the redirection and a
reader; any of it may fail, a flush or a second stream after the first was redirected.
The host may print as soon as its buffers have been flushed, so also between the flush
and the redirection. Restore writes out what was buffered, unless that flush fails,
points the descriptors back and leaves collection to a deadline. A future may be dropped
before, during or after it. Bounds: two runs, a limit of one block, one block per run
and one descendant at a time, two reader slots. `MCOptions` pairs a capture of both
streams with one that its prompt excludes, two captures of stdout from a thread and from
a future, and a capture with an ordinary run. With one block written and one kept, a
capture overflows in these bounds only through what the host printed and restore
flushed; `OutputIsOwn` is proved for every limit.

### ResolverRuntime and ResolverContract

An input is a version number: equal versions are equal contents, a fingerprint is the
version it was taken of, and an edit never brings an old version back. So a history in
which an input changes and changes back is outside the model. `run[r]` holds a run's
place in `shared_for_run` and in the construction: discover, read `.npmrc` and
environment, probe, reparse and compare, assemble, check stability, publish. Each of
these reads the disk at a moment of its own, and an edit may fall between any two. A
probe fingerprints file by file in the code and all at once here: with versions that
only grow, a probe that spans an edit is told by the next comparison as well.
`SnapshotKey` stands for the parsed configuration: the versions of the configuration, of
the `.npmrc` and of the environment it refers to. Where two versions would parse alike,
the code may share a snapshot that the model resolves again. `state` is the
`RuntimeState` behind its mutex, `gate` the rebuild lock, `cache` the process-wide
snapshot cache in insertion order.

`ResolverContract` is the abstract specification: a waiting run is served in one
step. `ServesContract` is the refinement, with ghosts (`seen`, `floor`,
`refreshed`) that record what lay on disk while a run waited and what the last
refresh promised. It says that the code's dozen separate reads look like one, also
with credentials in the `.npmrc` or in `JSR_URL`, where the environment is not
fingerprinted and reuse is refused instead. Bounds: two runs, two edits in all, one refresh, one
cache entry; versions that carry credentials, have a lockfile or select BYONM are
each within reach of one or two edits.

### ModuleLoading

Every isolate has a `graph` and a permission container; the lockfile and the
analysis cache are shared. An import is `prepare_load` (wait for the graph mutex,
take the shortcut or build, fetch and analyse module by module, validate) and then
`load`; `task[t].had` remembers what was readable when it began, `registered[t]` what
it has put into its isolate's module map. With a frozen lockfile a build works on a
candidate, otherwise in the graph itself, where a dropped or failed build leaves its
traces. `LockfileChanged` is the refusal when resolving a package has added to a frozen
lockfile, before or after a build; the manifests of JSR packages enter the analysis
cache without a lookup (`CacheModuleInfo`). What `walk` visits is the least set that
holds the root and the imports of every loaded member (`Walk`).

The code calls `load` once per module, and so the permission of a dynamic import is
checked module by module. `CheckLoad` checks all of an import at once: each check is of
a module of its own, and what is granted only shrinks. A broker, if one is installed,
may refuse anything it is asked. When it does, or a permission is gone, the import
fails, but the modules that were loaded before the refusal stay registered (any part of
the walk that is connected without the refused ones); they count for `OnlyAdmitted`,
and only those of successful imports are executed.

Bounds: a main module that may `import()` a file and a remote module or npm package the
file imports too; three imports by a main isolate and a worker; the remote module
changes once, the file may be revoked, and the cache holds two analyses.

## What the runs show

* `admission_safety`: the inductive invariant (the limits, one place per owner, in
  submission order, permits, controls and results in agreement with it) and
  dispatch in order. `admission_shutdown`: one manager that neither sleeps over nor
  leaves behind work (`ManagerKeepsUp`), result after release, no success after a
  cancellation, no start after shutdown.
* `admission_live`: every handle resolves if backends return. `admission_hung`:
  without that, deadlines are enforced and a shutdown with a representable grace
  returns. The two differ in their fairness and are kept small: the cost of
  checking them is the number of strong-fairness conditions.
* `session`: the START barrier (in `Inv`), one reason across both processes, no false
  protocol errors, an honest result, no orphan; cancelled runs end even if the
  child hangs, and every run whose user code ends, ends.
* `subprocess`: the verdict is what happened (`VerdictHonest`), a script runs only for
  a whole and valid request and only its own exit code passes for it
  (`RequestHonest`), no thread, handle or child outlives its run (`Inv`), the
  handshake is bounded, a cancelled or late run ends even if the request fell
  between the steps of the registration, and a run that has returned is left alone,
  except by a cancelling user who found its isolate before it was withdrawn
  (`EndedRunLeftAlone`).
* `run_admission`: an exclusive owner is alone, both atomics are exact, there is one
  broker and it is served, a run keeps the authority it began with (all in `Inv`), no
  worker is left behind, `close_and_wait` returns.
* `output`: prefix and completeness (`Inv`), no broken pipe, no writer blocked for
  ever, slots come back.
* `capture`: stdout and stderr are the host's again after every path (`Inv`), a
  capture is the run's own output (`CaptureIsOwn`), readers retire.
* `resolver`: the published stack and the snapshot cache are sound (`Inv`), the
  refinement `ServesContract`, and that no run waits for ever.
* `loading`: an analysis is that of the source it is used for and one build at a time
  owns a graph (`Inv`), only what is granted, on record and readable is loaded
  (`OnlyAdmitted`), and closing the run ends every import.

One run is expected to find a violation, a disagreement between the code and what
the repository says of it: `admission_report`. `shutdown` reads a task's state and
cancels it in two critical sections of the control. A task that starts in between
is cancelled without grace and counted as "not reached `Started`".

Four more observations have no run. A child that dies during the handshake is
reported as `ChildCrash` (`subprocess.rs:2051`), which `docs/api.md:915` reserves for a
death after START. A deadline that passes at the top of the handshake loop
(`subprocess.rs:1852`) is reported as an infrastructure failure, where
`docs/api.md:491` promises a timeout. And `request_with_reason` stores the reason
before it raises the flag, and the handshake looks at the reason while the failure
category looks at the flag: a session that is cancelled in between is reported as
`Infrastructure`. `ResultIsHonest` allows all three. The last is about comments:
`output.rs:16` and `output.rs:492` still describe readers that stay blocked in `read()`
while a descendant holds the pipe; the code, `output.rs:422` and `docs/api.md:95` have them
stop when collection gives up, which is what `ReadersRetire` checks.

All runs say `CHECK_DEADLOCK FALSE`: every model ends when its bounded work is
done. That nobody waits for ever is what the liveness properties are for.

## Fairness

Weak fairness for every thread that can go on, none for callers. Where it is
stronger or weaker than that:

* `AdmissionScheduler`: the manager polls for ever, so a thread that waits for
  the mutex finds it free again and again, never continuously; those threads have
  strong fairness, which says that the mutex does not starve them between two
  polls 100 ms apart. `HungSpec` assumes nothing of backends, `LiveSpec` that
  they return. Deadlines pass, and the grace of a shutdown ends however often
  its caller is woken before (`GraceEnds`): it is one fixed instant.
* `SupervisorSession`: `HungSpec` assumes nothing of the child. `SessionEnds`
  has the scheduling of the child, and the end of its user code, as a premise.
* `PermissionBroker`: a stopped worker ends (V8 terminates it) unless its check is
  with the hook, and the hook returns; a worker nobody stopped may run for ever,
  and so may a main module.
* `PlainSubprocess`: threads of both processes run, timers fire, system calls return
  and a termination is seen at the next stack check. Scripts, hosts and descendants
  need not end.
* `StdioCapture`: readers and the collector. `ResolverRuntime`: a run that waits is
  polled and the gate is fair (tokio's mutex queues); nobody edits for ever, since
  edits are bounded, and the builder gives up after two attempts in any case.
* `ModuleLoading`: of the imports that are ready, some one is polled, no more. A fetch
  may hang, so nothing of a build is
  fair: `ClosingEndsImports` rests on the lifecycle arm of the select alone.
* `OutputCollection`: readers and collector only. `wait_readable` returns in
  slices, and the collection timeout fires.

## What is proved

Every theorem has the form `Spec => []P`, or `Spec => [][A]_vars`, or is a refinement.
The proofs use nothing but the named assumptions of the modules: sets of runs, workers
and modules are finite where the code counts them, limits and sizes are natural
numbers, positive where the code refuses or never uses zero, and the name for nobody is
nobody's. No theorem bounds the number of submissions, runs, workers, imports, bytes or edits; the
bounds of the configurations are there for TLC only.

Each module has one inductive invariant, which TLC checked on the configurations
before it was proved, and one lemma per group of actions that keeps it. The wanted
properties are not inductive alone; what had to be added says why the code works:

| theorems | invariant | what had to be added |
|---|---|---|
| `AdmissionSchedulerProofs`: `IndInvariant`, `LimitsHold`, `FifoHolds`, `PermitsHold`, `ResultAfterReleaseHolds`, `NeverEndedTwiceHolds`, `CancelledNeverCompletesHolds` | `IndInv` | that `active` stays within its limit needs to know that a promoted task was not active, hence where every owner is (`Places`); that a result comes after the release, the progress of its holder (`StepOfOwner`); that the holder never finds its task ended, the control state of each place (`ControlOfOwner`). Order rests on lemmas about ascending sequences |
| `ManagerKeepsUpHolds` | `ManagerSound`, `NoLostWakeup` | a started manager exists or is being spawned, one that exits has nothing to leave behind, and who makes work for a sleeping manager is about to notify it |
| `DispatchInOrderHolds`, `NoStartAfterShutdownHolds` | `IndInv`, `Scanned` | only a task the scan of `shutdown` has not reached, or is looking at, can still start |
| `SupervisorSessionProofs`: `StartBarrierKept`, `FirstReasonWins`, `NoFalseAccusation`, `ResultIsTrue`, `RecordedCancelWins`, `TakenTerminalExplains`, `NoChildLeft` | `SInv` | which frames may be in flight in each direction at each place of the four threads (`Upward`, `Downward`), and what a TERMINAL stands for (`OutcomeSound`); channels hold at most two frames, so they are treated by their shapes |
| `PlainSubprocessProofs`: `VerdictIsTrue`, `ChildRunsWholeRequest`, `NothingIsLeft`, `EndedRunIsLeftAlone` | `TInv`, `PInv` | every flag that may decide a verdict has its cause (`ResultSound`, `TerminatorSound`), an isolate is registered only while it can be terminated and who holds its handle found it then (`RequestSound`), the threads of a run are joined before it returns, so that only a user's call can come late, and a child reads what its writer has sent (`Stream`) |
| `PermissionBrokerProofs`: `ProcessIsShared`, `AwaitedRunIsClean`, `BrokerIsForEver` | `BrokerInv` | the exact value of both atomics (`LeaseExact`, `CountExact`); past the second look at `ACTIVE_WORKERS` every registration is the owner's; what `has_broker` said stays true under `INSTALL_LOCK` |
| `OutputCollectionProofs`: `OutputIsTrue`, `WritersAreDrained` | `OInv` | until it overflows a reader has lost nothing: what it retained, buffers and has in the pipe make up what was written, and the messages of the channel cut it into consecutive pieces |
| `StdioCaptureProofs`: `StdioIsGivenBack`, `OutputIsOwn` | `SInv` | the same for pipes of the own process, and that a redirected descriptor belongs to the run that holds the lease |
| `ResolverRuntimeProofs`: `ResolverIsSound` | `RInv` | see below |
| `ModuleLoadingProofs`: `GraphsAreSound`, `OnlyAdmittedHolds` | `LInv` | what was accepted stays, in the graph and in every candidate that may replace it (`Stays`, `CandidateKeeps`); the import of a main module has its isolate for itself (`FirstAlone`), so that its files were readable although `load` does not ask again |

`RuntimeServesContract` is the refinement: `Spec => ServesContract`. The initial state
of `ResolverRuntime` is one of `ResolverContract`, publication or the end of a fitting
probe is the abstract step that serves the run, and all other steps are edits,
refreshes, arrivals or stutters. The proof has to produce one instant at which
everything the stack was made of lay on disk together, though the code reads each
input at a moment of its own: since versions only grow, an input read twice with
the same result did not change in between, and what the construction reads in the
middle of two such pairs pins the instant (`InstantOf`). A second attempt exists only
because an edit fell into the first (`AttemptSince`), and the unprobed inputs are
covered by the generation of `refresh()` (`Recent`).

`ModuleLoadingProofs` reasons about walks by what defines them, closure and leastness:
`WalkKept` (a walk depends on the states of its own modules only) and `RetryMisses` (a
build retries nothing of a walk that is valid) carry the argument that interleaved
imports never invalidate each other.

Only model-checked: liveness under fairness (`EveryHandleResolves`, `DeadlineEnforced`,
`ShutdownReturns`, `CancelledRunEnds`, `SessionEnds`, `WaitEnds`, `SlotsComeBack`,
`WriterUnblocked`, `RunsAreServed`, `HandshakeEnds`, `InterruptedRunEnds`, `ReadersRetire`,
`ClosingEndsImports`), which is out of the prover's reach together with ENABLED, and
`CountedBeforeStart`, which the code violates. The theorems are about `Spec`; where a
run checks a variant (`LiveSpec`, `HungSpec`, `FairSpec`), that is `Spec` with more
fairness, so they hold of it too.

## Plan

What remains worth doing:

1. State the action properties that follow from the invariants and have no run: that a
   session's result is final, that a module map only grows, that a collected prefix is
   only extended.
2. `RunTermination` on its own, so that its theorems can be read without the process
   around it.
3. A composition of a session with the collection of its output, which now meet in
   `won` only.

## Not modelled

* Worker thread messaging: a map of channels under one mutex. Each operation is one
  critical section on one entry, and what could go wrong beyond that (a message to a
  thread that is ending, a transferred port) is in V8's event loops and Deno's ports.
* How a specifier resolves, CommonJS translation and its analysis cache, external
  assets, npm installation: computed by Deno's crates. A fetch in `ModuleLoading`
  succeeds, fails or hangs.
* HTTP, permission syntax, runtime guards, timing, snapshot build and the Python
  binding: sequential adapters without concurrent state of their own.
* The encoding of frames, requests and broker lines; hash collisions.
* Windows: its pipes and handles follow the same order of steps; the Unix code is the
  one modelled where they differ.
* Memory ordering: the atomics are sequentially consistent here; the one relaxed
  store (`overflow`) is ordered by the channel message that follows it.
