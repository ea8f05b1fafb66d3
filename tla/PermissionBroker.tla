--------------------------- MODULE PermissionBroker ---------------------------
(***************************************************************************)
(* The permission broker and the in-process hook (permission_broker.rs):   *)
(* installed once per process, under INSTALL_LOCK and an exclusive lease   *)
(* (module RunAdmission), and from then on the authority for every check.  *)
(* The hook is served by a bridge thread over a local socket, one check at *)
(* a time: upstream holds a mutex around request and response, and a       *)
(* thread whose check is with the hook can neither end nor be stopped.     *)
(***************************************************************************)
EXTENDS RunAdmission

CONSTANT NoOne   \* no thread

ASSUME BrokerAssumption == NoOne \notin Runs \cup Workers

VARIABLES
  INSTALL_LOCK,  \* the installing thread, or NoOne
  BROKER,        \* what has_broker() and the checks see: "none", "broker", "hook"
  stage,         \* how far the installation has come
  sockdir,       \* the private directory of the hook's socket exists
  bridge,        \* the hook thread: "none", "parked", "serving", "closed"
  ask,           \* the check under way: [by, st, line, said, reply]
  under,         \* ghost, per run: BROKER when its lease was granted
  alive          \* the process; upstream ends it with exit(87)

bvars == <<INSTALL_LOCK, BROKER, stage, sockdir, bridge, ask, under, alive>>
vars  == <<lease, registry, bvars>>

\* A line of the protocol: a request, one that is oversized or malformed with
\* a readable id, or one whose id cannot be told.
Lines == {"request", "with_id", "without_id"}
NoAsk == [by |-> NoOne, st |-> "none", line |-> "request", said |-> "none", reply |-> "none"]

Init ==
  /\ AInit
  /\ INSTALL_LOCK = NoOne /\ BROKER = "none" /\ stage = "start" /\ sockdir = FALSE
  /\ bridge = "none" /\ ask = NoAsk /\ alive = TRUE
  /\ under = [r \in Runs |-> "none"]

-----------------------------------------------------------------------------
(* Installation. *)

InstallLockFree == INSTALL_LOCK = NoOne

\* The lock, then has_broker(); what follows is RunLease::acquire_exclusive.
TakeInstallLock(r) ==
  /\ pc[r] = "lock" /\ InstallLockFree
  /\ INSTALL_LOCK' = r
  /\ Go(r, IF BROKER = "none" THEN "idle" ELSE "refused")
  /\ UNCHANGED <<RUN_STATE, kind, cur, abandoned, registry, BROKER, stage, sockdir, bridge, ask,
                 under, alive>>

ReleaseInstallLock(r) ==
  /\ INSTALL_LOCK = r /\ pc[r] \in {"refused", "done"}
  /\ INSTALL_LOCK' = NoOne
  /\ UNCHANGED <<lease, registry, BROKER, stage, sockdir, bridge, ask, under, alive>>

Installing(r, k, s) == pc[r] = "run" /\ kind[r] = k /\ stage = s
InstallGoes(to) == stage' = to
                   /\ UNCHANGED <<lease, registry, INSTALL_LOCK, BROKER, ask, under>>

\* Every way out of the installation removes the socket directory and goes on
\* to drop the lease, then the lock.
InstallEnds(r) ==
  /\ Go(r, "drop") /\ stage' = "start" /\ sockdir' = FALSE
  /\ UNCHANGED <<RUN_STATE, kind, cur, abandoned, registry, INSTALL_LOCK, ask, under, alive>>

\* The private directory and the listener in it.
BindSocket(r) ==
  /\ Installing(r, "hook", "start")
  /\ sockdir' = TRUE /\ InstallGoes("connect") /\ UNCHANGED <<bridge, alive>>

\* PermissionBroker::new connects, or exits the process.
Connect(r) ==
  /\ Installing(r, "broker", "start") \/ Installing(r, "hook", "connect")
  /\ InstallGoes(IF kind[r] = "hook" THEN "accept" ELSE "publish")
  /\ UNCHANGED <<sockdir, bridge, alive>>

ConnectExits(r) ==
  /\ Installing(r, "broker", "start") \/ Installing(r, "hook", "connect")
  /\ alive' = FALSE
  /\ UNCHANGED <<lease, registry, INSTALL_LOCK, BROKER, stage, sockdir, bridge, ask, under>>

\* The accepted connection belongs to a thread that waits for the start signal.
SpawnHookThread(r) ==
  /\ Installing(r, "hook", "accept")
  /\ bridge' = "parked" /\ InstallGoes("publish") /\ UNCHANGED <<sockdir, alive>>

\* The directory, the bind, the accept or the thread fails.
InstallFails(r) ==
  /\ Installing(r, "hook", "start") \/ Installing(r, "hook", "accept")
  /\ InstallEnds(r) /\ UNCHANGED <<BROKER, bridge>>

\* set_broker, which asserts that there is none.
SetBroker(r) ==
  /\ pc[r] = "run" /\ kind[r] \in Installs /\ stage = "publish"
  /\ BROKER' = kind[r]
  /\ IF kind[r] = "broker"
       THEN InstallEnds(r)
       ELSE /\ stage' = "commit"
            /\ UNCHANGED <<lease, registry, INSTALL_LOCK, sockdir, ask, under, alive>>
  /\ UNCHANGED bridge

\* BrokerThreadGuard::commit: the start signal.
Commit(r) ==
  /\ Installing(r, "hook", "commit")
  /\ bridge' = "serving" /\ InstallEnds(r) /\ UNCHANGED BROKER

-----------------------------------------------------------------------------
(* Checks under the hook. *)

\* The main module of a run, or one of its workers, needs a permission.
Running(x) == (x \in Runs /\ pc[x] = "run" /\ kind[x] \notin Installs)
              \/ (x \in Workers /\ worker[x] = "running")
Parked(x) == ask.by = x

Ask(x) ==
  /\ Running(x) /\ BROKER = "hook" /\ ask = NoAsk
  /\ \E line \in Lines : ask' = [NoAsk EXCEPT !.by = x, !.st = "sent", !.line = line]
  /\ UNCHANGED <<lease, registry, INSTALL_LOCK, BROKER, stage, sockdir, bridge, under, alive>>

\* serve_broker_connection reads a line: a request goes to the hook, a line
\* with an id is denied, one without ends the connection.
ReadLine ==
  /\ bridge = "serving" /\ ask.st = "sent"
  /\ CASE ask.line = "request" -> ask' = [ask EXCEPT !.st = "hook"] /\ UNCHANGED bridge
       [] ask.line = "with_id" -> /\ ask' = [ask EXCEPT !.st = "replied", !.reply = "deny"]
                                  /\ UNCHANGED bridge
       [] OTHER -> bridge' = "closed" /\ UNCHANGED ask
  /\ UNCHANGED <<lease, registry, INSTALL_LOCK, BROKER, stage, sockdir, under, alive>>

\* The hook returns, or unwinds and is caught.
HookReturns ==
  /\ ask.st = "hook"
  /\ \E said \in {"allow", "deny", "panic"} :
       ask' = [ask EXCEPT !.st = "replied", !.said = said,
                          !.reply = IF said = "allow" THEN "allow" ELSE "deny"]
  /\ UNCHANGED <<lease, registry, INSTALL_LOCK, BROKER, stage, sockdir, bridge, under, alive>>

CheckReturns ==
  /\ ask.st = "replied" /\ ask' = NoAsk
  /\ UNCHANGED <<lease, registry, INSTALL_LOCK, BROKER, stage, sockdir, bridge, under, alive>>

\* Upstream ends the process when the bridge is gone.
BridgeLost ==
  /\ bridge = "closed" /\ ask.st = "sent" /\ alive' = FALSE
  /\ UNCHANGED <<lease, registry, INSTALL_LOCK, BROKER, stage, sockdir, bridge, ask, under>>

-----------------------------------------------------------------------------
(* The steps of a run that the broker has a part in. *)

\* A lease is granted under the authority of the moment.
GrantLease(r) ==
  /\ IncrementState(r) \/ RecheckWorkers(r)
  /\ under' = IF pc'[r] = "run" THEN [under EXCEPT ![r] = BROKER] ELSE under
  /\ UNCHANGED <<INSTALL_LOCK, BROKER, stage, sockdir, bridge, ask, alive>>

\* A thread whose check is out is in a blocking read.
ThreadEnds ==
  /\ \/ \E r \in Runs : ~Parked(r) /\ (CloseAndWait(r) \/ Abandon(r))
     \/ \E w \in Workers : ~Parked(w) /\ Unregister(w)
  /\ UNCHANGED bvars

InstallSteps(r) ==
  \/ TakeInstallLock(r) \/ ReleaseInstallLock(r) \/ BindSocket(r) \/ Connect(r)
  \/ ConnectExits(r) \/ SpawnHookThread(r) \/ InstallFails(r) \/ SetBroker(r) \/ Commit(r)

Alone(A) == A /\ UNCHANGED bvars

Next ==
  /\ alive
  /\ \/ \E r \in Runs : InstallSteps(r) \/ GrantLease(r) \/ Alone(LeaseSteps(r) \/ RunSteps(r))
     \/ \E w \in Workers : Alone(WorkerSteps(w))
     \/ ThreadEnds
     \/ \E x \in Runs \cup Workers : Ask(x)
     \/ ReadLine \/ HookReturns \/ CheckReturns \/ BridgeLost

Spec == Init /\ [][Next]_vars

\* Threads are scheduled, a stopped worker ends unless its check is out, and
\* the hook returns; a worker nobody stops may run for ever, and so may a main
\* module.
Step(A) == alive /\ A
LiveSpec ==
  /\ Spec
  /\ \A r \in Runs : WF_vars(Step(Alone(WorkersGone(r)))) /\ WF_vars(Step(Alone(DropLease(r))))
  /\ \A w \in Workers :
       /\ WF_vars(Step(Alone(Reserve(w)))) /\ WF_vars(Step(Alone(Attach(w))))
       /\ WF_vars(Step(Alone(RequestStop(w))))
       /\ WF_vars(Step(Alone(worker[w] = "stopped" /\ ~Parked(w) /\ Unregister(w))))
  /\ WF_vars(Step(ReadLine)) /\ WF_vars(Step(HookReturns))
  /\ WF_vars(Step(CheckReturns)) /\ WF_vars(Step(BridgeLost))

-----------------------------------------------------------------------------
(* Properties. *)

BTypeOK ==
  /\ INSTALL_LOCK \in Runs \cup {NoOne} /\ BROKER \in {"none"} \cup Installs
  /\ stage \in {"start", "connect", "accept", "publish", "commit"}
  /\ sockdir \in BOOLEAN /\ alive \in BOOLEAN
  /\ bridge \in {"none", "parked", "serving", "closed"}
  /\ ask \in [by : Runs \cup Workers \cup {NoOne}, st : {"none", "sent", "hook", "replied"},
              line : Lines, said : {"none", "allow", "deny", "panic"},
              reply : {"none", "allow", "deny"}]
  /\ under \in [Runs -> {"none"} \cup Installs]

\* Install-once without the upstream assertion ever failing, and a hook that is
\* published is served: by the time anything can ask, its thread has started
\* (permission_broker.rs 55-57, 87-105, 245-262).
InstalledOnce ==
  /\ stage = "publish" => BROKER = "none"
  /\ BROKER = "hook" /\ stage # "commit" => bridge \in {"serving", "closed"}
  /\ ask # NoAsk => bridge \in {"serving", "closed"}
  /\ sockdir => \E r \in Runs : INSTALL_LOCK = r /\ kind[r] = "hook" /\ pc[r] = "run"

\* All checks of a run and of its workers are decided by one authority: no
\* broker is published while a run, or a worker it left behind, is alive.
AuthorityFixed ==
  \A r \in Runs : kind[r] \notin Installs /\ (Holding(r) \/ Alive(r) # {}) => under[r] = BROKER

\* Fail closed: only the hook's own `true` for a request it was shown allows.
HookDecides == ask.reply = "allow" => ask.line = "request" /\ ask.said = "allow"

\* RunLease, the registry and the broker are exact: well typed, exclusive
\* owners alone, both atomics equal to what they count, one broker and that
\* one served, one authority for a run.
Inv == /\ TypeOK /\ BTypeOK
       /\ ExclusiveAlone /\ Accounting
       /\ InstalledOnce /\ AuthorityFixed /\ HookDecides

\* A run that waits for its workers returns, if the process lives: close and
\* attach cannot miss each other, and no check keeps a stopped worker for ever.
WaitEnds == \A r \in Runs : pc[r] = "wait" ~> (pc[r] = "done" \/ ~alive)

=============================================================================
