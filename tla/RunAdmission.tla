---------------------------- MODULE RunAdmission ----------------------------
(***************************************************************************)
(* Who may run in this process at the same time: RunLease (src/lib.rs) and *)
(* the worker registry of every run (src/worker_lifecycle.rs).  Ordinary   *)
(* runs share the process; a captured run and the installation of a        *)
(* permission broker need it for themselves, and a worker that outlives    *)
(* its run keeps them out.                                                 *)
(* RUN_STATE and ACTIVE_WORKERS are two process-global atomics: every load *)
(* and every compare-exchange is a step of its own.  A section under the   *)
(* mutex of a registry is one step; that is sound for the counter it       *)
(* updates because a registry that is not closing implies its run still    *)
(* holds its lease, and closing takes the same mutex.                      *)
(***************************************************************************)
EXTENDS Naturals, FiniteSets

CONSTANTS Runs,      \* threads that run a script or install a broker, once each
          Workers,   \* web workers that may be created in all
          Asks,      \* per thread: what it asks for, an Init choice
          Owners,    \* per worker: the run it may belong to, an Init choice
          UsizeMax   \* usize::MAX, beyond any number of concurrent runs

ASSUME AdmissionAssumption ==
  /\ IsFiniteSet(Runs) /\ IsFiniteSet(Workers)
  /\ Asks \subseteq [Runs -> {"run", "capture", "broker", "hook"}]
  /\ Owners \subseteq [Workers -> Runs]
  /\ UsizeMax \in Nat /\ UsizeMax > Cardinality(Runs) + 1

CAPTURE_MARKER == UsizeMax
BROKER_INSTALL_MARKER == UsizeMax - 1
Markers == {CAPTURE_MARKER, BROKER_INSTALL_MARKER}
Installs == {"broker", "hook"}
Marker(k) == IF k \in Installs THEN BROKER_INSTALL_MARKER ELSE CAPTURE_MARKER

VARIABLES
  RUN_STATE,       \* a number of ordinary runs, or a marker
  ACTIVE_WORKERS,  \* registered workers of all runs
  pc, kind, cur,   \* of each thread; cur is the value it loaded
  abandoned,       \* runs whose future was dropped before it was done
  closing,         \* of the registry of each run
  worker, owner,   \* life of each worker; the run it belongs to
  stopping         \* workers whose stop is decided and not delivered yet

lease    == <<RUN_STATE, pc, kind, cur, abandoned>>
registry == <<ACTIVE_WORKERS, closing, worker, owner, stopping>>

Registered(r) == {w \in Workers : owner[w] = r
                                   /\ worker[w] \in {"reserved", "running", "stopped"}}
Alive(r)      == {w \in Workers : owner[w] = r /\ worker[w] \in {"running", "stopped"}}
Holding(r)    == pc[r] \in {"run", "wait", "drop"}
Exclusive(r)  == Holding(r) /\ kind[r] # "run"

AInit ==
  /\ RUN_STATE = 0 /\ ACTIVE_WORKERS = 0
  /\ kind \in Asks
  /\ pc = [r \in Runs |-> IF kind[r] \in Installs THEN "lock" ELSE "idle"]
  /\ cur = [r \in Runs |-> 0]
  /\ abandoned = {}
  /\ closing = [r \in Runs |-> FALSE]
  /\ worker = [w \in Workers |-> "none"]
  /\ owner \in Owners
  /\ stopping = {}

Go(r, to) == pc' = [pc EXCEPT ![r] = to]

-----------------------------------------------------------------------------
(* RunLease::acquire of an ordinary run. *)

LoadState(r) ==
  /\ pc[r] = "idle" /\ kind[r] = "run"
  /\ IF RUN_STATE \in Markers
       THEN Go(r, "refused") /\ UNCHANGED cur
       ELSE Go(r, "cas") /\ cur' = [cur EXCEPT ![r] = RUN_STATE]
  /\ UNCHANGED <<RUN_STATE, kind, abandoned, registry>>

IncrementState(r) ==
  /\ pc[r] = "cas" /\ kind[r] = "run"
  /\ IF RUN_STATE = cur[r]
       THEN RUN_STATE' = cur[r] + 1 /\ Go(r, "run")
       ELSE Go(r, "idle") /\ UNCHANGED RUN_STATE
  /\ UNCHANGED <<kind, cur, abandoned, registry>>

(* RunLease::acquire_exclusive. *)

CheckWorkers(r) ==
  /\ pc[r] = "idle" /\ kind[r] # "run"
  /\ Go(r, IF ACTIVE_WORKERS = 0 THEN "cas" ELSE "refused")
  /\ UNCHANGED <<RUN_STATE, kind, cur, abandoned, registry>>

MarkState(r) ==
  /\ pc[r] = "cas" /\ kind[r] # "run"
  /\ IF RUN_STATE = 0
       THEN RUN_STATE' = Marker(kind[r]) /\ Go(r, "recheck")
       ELSE Go(r, "refused") /\ UNCHANGED RUN_STATE
  /\ UNCHANGED <<kind, cur, abandoned, registry>>

\* A worker may have been left behind between the first load and the exchange.
RecheckWorkersSkipped(r) ==
  /\ pc[r] = "recheck"
  /\ Go(r, "run")
  /\ UNCHANGED <<RUN_STATE, kind, cur, abandoned, registry>>
RecheckWorkers(r) ==
  /\ pc[r] = "recheck"
  /\ IF ACTIVE_WORKERS = 0
       THEN Go(r, "run") /\ UNCHANGED RUN_STATE
       ELSE Go(r, "refused") /\ RUN_STATE' = 0
  /\ UNCHANGED <<kind, cur, abandoned, registry>>

(* Drop of RunLease. *)
DropLease(r) ==
  /\ pc[r] = "drop"
  /\ Go(r, "done")
  /\ RUN_STATE' = IF kind[r] = "run" THEN RUN_STATE - 1 ELSE 0
  /\ UNCHANGED <<kind, cur, abandoned, registry>>

-----------------------------------------------------------------------------
(* A run and its workers. *)

\* `new Worker` in the main module, or in a worker of the run: the thread of the
\* new worker exists, and has not reserved its place yet.
NewWorker(w) ==
  /\ worker[w] = "none" /\ kind[owner[w]] \notin Installs
  /\ pc[owner[w]] = "run" \/ Alive(owner[w]) # {}
  /\ worker' = [worker EXCEPT ![w] = "spawned"]
  /\ UNCHANGED <<lease, ACTIVE_WORKERS, closing, owner, stopping>>

\* WorkerLifecycleRegistry::reserve on the worker's thread.  A worker that is
\* refused is built and terminated before it runs anything.
MayReserveAlways(w) == TRUE
MayReserve(w) == ~closing[owner[w]]

Reserve(w) ==
  /\ worker[w] = "spawned"
  /\ IF MayReserve(w)
       THEN /\ worker' = [worker EXCEPT ![w] = "reserved"]
            /\ ACTIVE_WORKERS' = ACTIVE_WORKERS + 1
       ELSE /\ worker' = [worker EXCEPT ![w] = "refused"]
            /\ UNCHANGED ACTIVE_WORKERS
  /\ UNCHANGED <<lease, closing, owner, stopping>>

\* attach: the stop of a registry that is closing reaches this worker now.
StopOnAttachNever(w) == {}
StopOnAttach(w) == IF closing[owner[w]] THEN {w} ELSE {}

Attach(w) ==
  /\ worker[w] = "reserved"
  /\ worker' = [worker EXCEPT ![w] = "running"]
  /\ stopping' = stopping \cup StopOnAttach(w)
  /\ UNCHANGED <<lease, ACTIVE_WORKERS, closing, owner>>

\* close under the mutex: no reservation from now on, and a stop for every
\* worker that is attached.
Close(r) ==
  /\ closing' = [closing EXCEPT ![r] = TRUE]
  /\ stopping' = stopping \cup {w \in Registered(r) : worker[w] # "reserved"}

\* request_stop: the isolate is terminated.
RequestStop(w) ==
  /\ w \in stopping
  /\ stopping' = stopping \ {w}
  /\ worker' = [worker EXCEPT ![w] = IF @ = "running" THEN "stopped" ELSE @]
  /\ UNCHANGED <<lease, ACTIVE_WORKERS, closing, owner>>

\* The worker ends, by itself or stopped, and its registration is dropped.
Unregister(w) ==
  /\ worker[w] \in {"running", "stopped"}
  /\ worker' = [worker EXCEPT ![w] = "ended"]
  /\ ACTIVE_WORKERS' = ACTIVE_WORKERS - 1
  /\ UNCHANGED <<lease, closing, owner, stopping>>

\* The watchdog closes the registry when the deadline or a cancellation ends
\* the run; the run itself goes on to close_and_wait.
WatchdogCloses(r) ==
  /\ pc[r] = "run" /\ kind[r] \notin Installs /\ ~closing[r]
  /\ Close(r)
  /\ UNCHANGED <<lease, ACTIVE_WORKERS, worker, owner>>

\* The main module is done: close_and_wait.
CloseAndWait(r) ==
  /\ pc[r] = "run" /\ kind[r] \notin Installs
  /\ Go(r, "wait") /\ Close(r)
  /\ UNCHANGED <<RUN_STATE, kind, cur, abandoned, ACTIVE_WORKERS, worker, owner>>

WorkersGone(r) ==
  /\ pc[r] = "wait" /\ Registered(r) = {}
  /\ Go(r, "drop")
  /\ UNCHANGED <<RUN_STATE, kind, cur, abandoned, registry>>

\* The future of an async run is dropped: WorkerLifecycleOwner closes the
\* registry and nobody waits for the workers.
Abandon(r) ==
  /\ pc[r] \in {"run", "wait"} /\ kind[r] \notin Installs
  /\ Go(r, "drop") /\ Close(r)
  /\ abandoned' = abandoned \cup {r}
  /\ UNCHANGED <<RUN_STATE, kind, cur, ACTIVE_WORKERS, worker, owner>>

-----------------------------------------------------------------------------
LeaseSteps(r) == LoadState(r) \/ CheckWorkers(r) \/ MarkState(r) \/ DropLease(r)
RunSteps(r) == WatchdogCloses(r) \/ WorkersGone(r)
WorkerSteps(w) == NewWorker(w) \/ Reserve(w) \/ Attach(w) \/ RequestStop(w)

-----------------------------------------------------------------------------
(* Properties. *)

\* Type invariant; neither of the two atomics of RunLease ever wraps around.
TypeOK ==
  /\ RUN_STATE \in 0..UsizeMax
  /\ ACTIVE_WORKERS \in Nat
  /\ pc \in [Runs -> {"lock", "idle", "cas", "recheck", "run", "wait", "drop", "done",
                      "refused"}]
  /\ kind \in Asks
  /\ cur \in [Runs -> Nat]
  /\ abandoned \subseteq Runs
  /\ closing \in [Runs -> BOOLEAN]
  /\ worker \in [Workers -> {"none", "spawned", "reserved", "refused", "running",
                             "stopped", "ended"}]
  /\ owner \in [Workers -> Runs]
  /\ stopping \subseteq Workers

\* While a captured run or a broker installation holds the process, no other
\* lease is held and no worker of another run executes: its output cannot be
\* stolen, its permission checks cannot change under it.
ExclusiveAlone ==
  \A r, q \in Runs :
    Exclusive(r) /\ q # r => ~Holding(q) /\ Alive(q) = {}

\* The two atomics say what they stand for: RUN_STATE the ordinary leases, or
\* the marker of the one exclusive owner, and ACTIVE_WORKERS the registrations.
Accounting ==
  /\ ACTIVE_WORKERS = Cardinality(UNION {Registered(r) : r \in Runs})
  /\ RUN_STATE \notin Markers => RUN_STATE = Cardinality({r \in Runs : Holding(r)})
  /\ RUN_STATE \in Markers =>
       \E r \in Runs : /\ Exclusive(r) \/ pc[r] = "recheck"
                       /\ RUN_STATE = Marker(kind[r])

\* A run that was awaited to its end leaves no worker behind, whatever its
\* workers created while it was closing.
NoWorkerLeftBehind ==
  \A r \in Runs : pc[r] = "done" /\ r \notin abandoned => Registered(r) = {}

=============================================================================
