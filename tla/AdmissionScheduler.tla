------------------------- MODULE AdmissionScheduler -------------------------
(***************************************************************************)
(* The admission scheduler of src/executor.rs (feature execution-control): *)
(* callers submit executions and get a handle; at most ActiveLimit of them *)
(* hold an active permit, at most QueueLimit wait in `queue`; one manager  *)
(* thread expires deadlines, promotes queued owners and dispatches ready   *)
(* ones to task threads; handles cancel; shutdown drains.                  *)
(*                                                                         *)
(* Atomicity follows the locks.  A critical section of the scheduler mutex *)
(* that touches no task control, or touches each one once, is one action.  *)
(* The manager's pass and shutdown's linearization loop over controls that *)
(* task threads change without the scheduler mutex, so their iterations    *)
(* are actions of their own and `lock` names the holder meanwhile.  Steps  *)
(* outside the mutex (control updates, notify, publish) are actions.       *)
(***************************************************************************)
EXTENDS Integers, FiniteSets, Sequences, SequencesExt

CONSTANTS MaxId,         \* submissions of a behaviour: ids 1..MaxId (a bound)
          ActiveLimit,   \* AdmissionConfig::active_limit, NonZeroUsize
          QueueLimit,    \* AdmissionConfig::queue_limit
          Timed,         \* ids submitted with a request_timeout
          Supervised,    \* TRUE: backend Subprocess, FALSE: InProcess
          BoundedGrace,  \* FALSE: the shutdown grace overflows Instant
          Cancellers,    \* ids whose handle may be cancelled
          ShutdownUsed,  \* whether the embedder may call shutdown
          SpawnMayFail   \* whether the OS may refuse a thread

Ids == 1..MaxId

ASSUME LimitsAssumption ==
  /\ MaxId \in Nat \ {0}
  /\ ActiveLimit \in Nat \ {0}
  /\ QueueLimit \in Nat
  /\ Timed \subseteq Ids
  /\ Supervised \in BOOLEAN
  /\ Cancellers \subseteq Ids
  /\ {BoundedGrace, ShutdownUsed, SpawnMayFail} \subseteq BOOLEAN

VARIABLES
  queue, ready,      \* SchedulerState: the two deques of task owners, by id
  active,            \* SchedulerState: keys of the map of active controls
  accepting,         \* SchedulerState
  next_id,           \* SchedulerState
  lock,              \* holder of the scheduler mutex across actions
  manager_started,   \* the AtomicBool
  lifecycle,         \* TaskControl: ControlState.lifecycle of each id
  cancel_reason,     \* TaskControl: ControlState.cancel_reason of each id
  outcome,           \* the result the owner of each id is about to publish
  result,            \* ResultCell.completion of each id
  owner,             \* who holds the TaskOwner of each id
  step,              \* progress of the holder's send_terminal
  sub,               \* control point of the caller of submit, by id
  passed,            \* ids whose deadline is over
  mgr,               \* control point of the manager thread
  now,               \* the deadlines the manager's pass found to be over
  wait_until,        \* the deadlines the manager's wait_timeout is bounded by
  shut,              \* control point of the caller of shutdown
  todo,              \* controls shutdown has still to look at
  checked,           \* the control shutdown saw as AcceptedNotStarted
  not_started,       \* ids in accepted_not_started_cancelled
  requested          \* ids in active_cancel_requested

sched  == <<queue, ready, active, accepting, next_id>>
ctl    == <<lifecycle, cancel_reason>>
own    == <<owner, step, outcome>>
mgrv   == <<mgr, now, wait_until>>
shutv  == <<shut, todo, checked, not_started, requested>>
vars   == <<sched, lock, manager_started, ctl, result, own, sub, passed,
            mgrv, shutv>>

Terminal == {"Terminated", "Completed", "Failed"}
Lifecycles == {"Queued", "AcceptedNotStarted", "Started", "Cancelling"}
                \cup Terminal
Reasons == {"none", "User", "Deadline", "Shutdown"}
Results == {"none", "Ok", "Cancelled", "Timeout", "Error"}

\* Holders that end an owner with send_terminal outside the scheduler mutex.
Enders == {"expired", "unspawned", "cancel", "shutdown", "fail", "dead"}
Owners == {"none", "queue", "ready", "dispatch", "thread", "run", "gone"}
            \cup Enders
Steps  == {"live", "mark", "release", "notify", "publish", "done"}

-----------------------------------------------------------------------------
(* Helpers. *)

\* TaskControl::is_terminal
IsTerminal(t) == lifecycle[t] \in Terminal

\* active.len() < active_limit
HasSlot == Cardinality(active) < ActiveLimit

\* submit's test for direct admission: a released slot and an older queued
\* task can coexist while the manager is waking.
AdmitsDirectlyBypass == HasSlot
AdmitsDirectly == HasSlot /\ queue = <<>>

\* has_dispatchable_pending
HasDispatchablePending == ready # <<>> \/ (queue # <<>> /\ HasSlot)

\* The three collections that keep a manager alive are empty.
AllEmptyPending == queue = <<>> /\ ready = <<>>
AllEmpty == active = {} /\ queue = <<>> /\ ready = <<>>

\* The admitted tasks the end of the grace interval cancels.
StartedActiveNone == {}
StartedActive == {t \in active : lifecycle[t] = "Started"}

\* mark_cancelling on each id of S: the first reason wins, a terminal control
\* is left alone.
Cancellable(t) == ~IsTerminal(t) /\ cancel_reason[t] = "none"

MarkCancelling(S, reason) ==
  /\ lifecycle' = [t \in Ids |-> IF t \in S /\ Cancellable(t)
                                   THEN "Cancelling" ELSE lifecycle[t]]
  /\ cancel_reason' = [t \in Ids |-> IF t \in S /\ Cancellable(t)
                                       THEN reason ELSE cancel_reason[t]]

\* Condvar::notify_all and notify_one on `wake`.  The manager and the caller
\* of shutdown wait on the same condition variable.
NotifyShutdownOnly ==
  /\ UNCHANGED <<mgr, wait_until>>
  /\ shut' = IF shut = "wait" THEN "loop" ELSE shut
NotifyAll ==
  /\ mgr' = IF mgr = "wait" THEN "top" ELSE mgr
  /\ wait_until' = {}
  /\ shut' = IF shut = "wait" THEN "loop" ELSE shut

NotifyOne ==
  \/ /\ mgr = "wait"
     /\ mgr' = "top" /\ wait_until' = {}
     /\ UNCHANGED shut
  \/ /\ shut = "wait"
     /\ shut' = "loop"
     /\ UNCHANGED <<mgr, wait_until>>
  \/ /\ mgr # "wait" /\ shut # "wait"
     /\ UNCHANGED <<mgr, wait_until, shut>>

\* next_deadline: the deadlines the manager's wait takes the minimum of.  The
\* wait ends by timeout when the first of them passes; with none it is 100 ms.
NextDeadline ==
  {t \in Timed : \/ owner[t] \in {"queue", "ready"}
                 \/ /\ t \in active
                    /\ lifecycle[t] \in {"AcceptedNotStarted", "Started"}}

-----------------------------------------------------------------------------
Init ==
  /\ queue = <<>> /\ ready = <<>> /\ active = {}
  /\ accepting = TRUE /\ next_id = 1
  /\ lock = "free" /\ manager_started = FALSE
  /\ lifecycle = [t \in Ids |-> "Queued"]
  /\ cancel_reason = [t \in Ids |-> "none"]
  /\ outcome = [t \in Ids |-> "none"]
  /\ result = [t \in Ids |-> "none"]
  /\ owner = [t \in Ids |-> "none"]
  /\ step = [t \in Ids |-> "live"]
  /\ sub = [t \in Ids |-> "none"]
  /\ passed = {}
  /\ mgr = "none" /\ now = {} /\ wait_until = {}
  /\ shut = "none" /\ todo = {} /\ checked = {} /\ not_started = {}
  /\ requested = {}

-----------------------------------------------------------------------------
(* submit: InvalidTimeout and Shutdown return before any state changes.  An *)
(* id is consumed even when the queue is full.                              *)

SubmitDirect(t) ==
  /\ lock = "free" /\ accepting /\ t = next_id
  /\ AdmitsDirectly
  /\ next_id' = next_id + 1
  /\ lifecycle' = [lifecycle EXCEPT ![t] = "AcceptedNotStarted"]
  /\ active' = active \cup {t}
  /\ ready' = Append(ready, t)
  /\ owner' = [owner EXCEPT ![t] = "ready"]
  /\ sub' = [sub EXCEPT ![t] = "notify"]
  /\ UNCHANGED <<queue, accepting, lock, manager_started, cancel_reason, result,
                 step, outcome, passed, mgrv, shutv>>

SubmitQueued(t) ==
  /\ lock = "free" /\ accepting /\ t = next_id
  /\ ~AdmitsDirectly
  /\ Len(queue) < QueueLimit
  /\ next_id' = next_id + 1
  /\ queue' = Append(queue, t)
  /\ owner' = [owner EXCEPT ![t] = "queue"]
  /\ sub' = [sub EXCEPT ![t] = "notify"]
  /\ UNCHANGED <<ready, active, accepting, lock, manager_started, ctl, result,
                 step, outcome, passed, mgrv, shutv>>

SubmitFull(t) ==
  /\ lock = "free" /\ accepting /\ t = next_id
  /\ ~AdmitsDirectly
  /\ Len(queue) >= QueueLimit
  /\ next_id' = next_id + 1
  /\ sub' = [sub EXCEPT ![t] = "err"]
  /\ UNCHANGED <<queue, ready, active, accepting, lock, manager_started, ctl,
                 result, own, passed, mgrv, shutv>>

SubmitNotify(t) ==
  /\ sub[t] = "notify"
  /\ sub' = [sub EXCEPT ![t] = "ensure"]
  /\ NotifyOne
  /\ UNCHANGED <<sched, lock, manager_started, ctl, result, own, passed, now,
                 todo, checked, not_started, requested>>

\* ensure_manager: the compare_exchange on manager_started.
EnsureManager(t) ==
  /\ sub[t] = "ensure"
  /\ sub' = [sub EXCEPT ![t] = IF manager_started THEN "ok" ELSE "spawn"]
  /\ manager_started' = TRUE
  /\ UNCHANGED <<sched, lock, ctl, result, own, passed, mgrv, shutv>>

SpawnManager(t) ==
  /\ sub[t] = "spawn"
  /\ sub' = [sub EXCEPT ![t] = "ok"]
  /\ mgr' = "top"
  /\ UNCHANGED <<sched, lock, manager_started, ctl, result, own, passed, now,
                 wait_until, shutv>>

\* The OS refuses the thread: the flag is released, then fail_pending runs.
SpawnManagerFailsSet(t) ==
  /\ SpawnMayFail /\ sub[t] = "spawn"
  /\ sub' = [sub EXCEPT ![t] = "failing"]
  /\ UNCHANGED <<sched, lock, manager_started, ctl, result, own, passed, mgrv,
                 shutv>>
SpawnManagerFails(t) ==
  /\ SpawnMayFail /\ sub[t] = "spawn"
  /\ sub' = [sub EXCEPT ![t] = "failing"]
  /\ manager_started' = FALSE
  /\ UNCHANGED <<sched, lock, ctl, result, own, passed, mgrv, shutv>>

\* fail_pending drains both deques, whoever submitted their owners.
FailPending(t) ==
  /\ sub[t] = "failing" /\ lock = "free"
  /\ sub' = [sub EXCEPT ![t] = "err"]
  /\ queue' = <<>> /\ ready' = <<>>
  /\ owner' = [u \in Ids |-> IF owner[u] \in {"queue", "ready"}
                               THEN "fail" ELSE owner[u]]
  /\ step' = [u \in Ids |-> IF owner[u] \in {"queue", "ready"}
                              THEN "mark" ELSE step[u]]
  /\ UNCHANGED <<active, accepting, next_id, lock, manager_started, ctl,
                 result, outcome, passed, mgrv, shutv>>

-----------------------------------------------------------------------------
(* The end of a task.  send_terminal: mark_terminal, then publish_terminal, *)
(* which drops the permit (release_active: remove under the mutex, then     *)
(* notify_all) before it publishes the result.  A holder of several owners  *)
(* ends them one after the other, once it has left the mutex.               *)

InTurn(t) ==
  /\ owner[t] = "expired" => mgr # "pass"
  /\ owner[t] = "shutdown" => shut = "drain"
  /\ owner[t] \in {"expired", "shutdown"} =>
       \A u \in Ids : owner[u] = owner[t] => step[u] = "mark"

\* publish_terminal: an active permit goes back before the result goes out.
AfterMarkLeak(t) == "publish"
AfterMark(t) == IF t \in active THEN "release" ELSE "publish"

MarkTerminal(t) ==
  /\ step[t] = "mark" /\ ~IsTerminal(t) /\ InTurn(t)
  /\ lifecycle' = [lifecycle EXCEPT ![t] =
       IF owner[t] \in {"fail", "unspawned"} THEN "Failed" ELSE "Terminated"]
  /\ outcome' = [outcome EXCEPT ![t] =
       CASE owner[t] \in {"fail", "unspawned"}    -> "Error"
         [] owner[t] = "expired"                  -> "Timeout"
         [] owner[t] \in {"cancel", "shutdown"}   -> "Cancelled"
         [] OTHER ->
              CASE cancel_reason[t] = "Deadline"  -> "Timeout"
                [] cancel_reason[t] = "none"      -> "Error"
                [] OTHER                          -> "Cancelled"]
  /\ step' = [step EXCEPT ![t] = AfterMark(t)]
  /\ UNCHANGED <<sched, lock, manager_started, cancel_reason, result, owner,
                 sub, passed, mgrv, shutv>>

\* release_active
ReleaseActive(t) ==
  /\ step[t] = "release" /\ lock = "free"
  /\ active' = active \ {t}
  /\ step' = [step EXCEPT ![t] = "notify"]
  /\ UNCHANGED <<queue, ready, accepting, next_id, lock, manager_started, ctl,
                 result, owner, outcome, sub, passed, mgrv, shutv>>

ReleaseNotify(t) ==
  /\ step[t] = "notify"
  /\ step' = [step EXCEPT ![t] = "publish"]
  /\ NotifyAll
  /\ UNCHANGED <<sched, lock, manager_started, ctl, result, owner, outcome,
                 sub, passed, now, todo, checked, not_started, requested>>

\* ResultCell::publish stores the first result only.  request_cancel ends
\* with a notify_all of its own.
Publish(t) ==
  /\ step[t] = "publish"
  /\ result' = [result EXCEPT ![t] =
                  IF result[t] = "none" THEN outcome[t] ELSE result[t]]
  /\ step' = [step EXCEPT ![t] = "done"]
  /\ owner' = [owner EXCEPT ![t] = "gone"]
  /\ IF owner[t] = "cancel" THEN NotifyAll
                            ELSE UNCHANGED <<mgr, wait_until, shut>>
  /\ UNCHANGED <<sched, lock, manager_started, ctl, outcome, sub, passed, now,
                 todo, checked, not_started, requested>>

-----------------------------------------------------------------------------
(* ExecutionHandle::cancel, and request_cancel in general. *)

RequestCancelPending(t, reason) ==
  /\ \/ \E i \in 1..Len(queue) : /\ queue[i] = t
                                 /\ queue' = RemoveAt(queue, i)
                                 /\ UNCHANGED ready
     \/ \E i \in 1..Len(ready) : /\ ready[i] = t
                                 /\ ready' = RemoveAt(ready, i)
                                 /\ UNCHANGED queue
  /\ MarkCancelling({t}, reason)
  /\ owner' = [owner EXCEPT ![t] = "cancel"]
  /\ step' = [step EXCEPT ![t] = "mark"]
  /\ UNCHANGED <<active, mgr, wait_until, shut>>

RequestCancelOwned(t, reason) ==
  /\ owner[t] \notin {"queue", "ready"}
  /\ MarkCancelling({t}, reason)
  /\ NotifyAll
  /\ UNCHANGED <<queue, ready, active, owner, step>>

\* The handle exists once submit returned Ok; AlreadyTerminal changes nothing.
Cancel(t) ==
  /\ t \in Cancellers /\ sub[t] = "ok" /\ lock = "free" /\ ~IsTerminal(t)
  /\ RequestCancelPending(t, "User") \/ RequestCancelOwned(t, "User")
  /\ UNCHANGED <<accepting, next_id, lock, manager_started, outcome, result,
                 sub, passed, now, todo, checked, not_started, requested>>

-----------------------------------------------------------------------------
(* The task thread: TaskOwner::run. *)

\* begin_start; without it the thread goes on to send_terminal.
BeginStart(t) ==
  /\ owner[t] = "thread"
  /\ IF Cancellable(t) /\ t \notin passed
       THEN /\ lifecycle' = [lifecycle EXCEPT ![t] =
                               IF Supervised THEN lifecycle[t] ELSE "Started"]
            /\ owner' = [owner EXCEPT ![t] = "run"]
            /\ UNCHANGED <<cancel_reason, step>>
       ELSE /\ MarkCancelling({t}, "Deadline")
            /\ owner' = [owner EXCEPT ![t] = "dead"]
            /\ step' = [step EXCEPT ![t] = "mark"]
  /\ UNCHANGED <<sched, lock, manager_started, result, outcome, sub, passed,
                 mgrv, shutv>>

\* The child's STARTED frame: the on_started callback, mark_started.
MarkStartedAlways(t) ==
  /\ Supervised /\ owner[t] = "run" /\ step[t] = "live"
  /\ ~IsTerminal(t)
  /\ lifecycle' = [lifecycle EXCEPT ![t] = "Started"]
  /\ UNCHANGED <<sched, lock, manager_started, cancel_reason, result, own, sub,
                 passed, mgrv, shutv>>
MarkStarted(t) ==
  /\ Supervised /\ owner[t] = "run" /\ step[t] = "live"
  /\ lifecycle[t] = "AcceptedNotStarted" /\ cancel_reason[t] = "none"
  /\ lifecycle' = [lifecycle EXCEPT ![t] = "Started"]
  /\ UNCHANGED <<sched, lock, manager_started, cancel_reason, result, own, sub,
                 passed, mgrv, shutv>>

\* What execute_submission may return; a panic of the backend is an Error.
BackendResults == {"Ok", "Timeout", "Error"} \cup
                  (IF Supervised THEN {"SupervisorTimeout", "Infrastructure"}
                                 ELSE {})

\* resolve_backend_result: a supervisor verdict outranks a cancellation,
\* which outranks the backend's own result.
ResolvedOutcomeOkWins(b, reason) ==
  CASE b = "SupervisorTimeout"           -> "Timeout"
    [] b = "Infrastructure"              -> "Error"
    [] b = "Ok"                          -> "Ok"
    [] reason = "Deadline"               -> "Timeout"
    [] reason \in {"User", "Shutdown"}   -> "Cancelled"
    [] OTHER                             -> b
ResolvedOutcome(b, reason) ==
  CASE b = "SupervisorTimeout"           -> "Timeout"
    [] b = "Infrastructure"              -> "Error"
    [] reason = "Deadline"               -> "Timeout"
    [] reason \in {"User", "Shutdown"}   -> "Cancelled"
    [] OTHER                             -> b

StateOfOutcome(o) == CASE o = "Ok"    -> "Completed"
                       [] o = "Error" -> "Failed"
                       [] OTHER       -> "Terminated"

Resolve(t, b) ==
  /\ owner[t] = "run" /\ step[t] = "live" /\ ~IsTerminal(t)
  /\ LET o == ResolvedOutcome(b, cancel_reason[t])
     IN  /\ outcome' = [outcome EXCEPT ![t] = o]
         /\ lifecycle' = [lifecycle EXCEPT ![t] = StateOfOutcome(o)]
  /\ step' = [step EXCEPT ![t] = "release"]
  /\ UNCHANGED <<sched, lock, manager_started, cancel_reason, result, owner,
                 sub, passed, mgrv, shutv>>

\* Time: the deadline of a live submission is over.
DeadlinePasses(t) ==
  /\ t \in Timed \ passed /\ owner[t] \notin {"none", "gone"}
  /\ passed' = passed \cup {t}
  /\ UNCHANGED <<sched, lock, manager_started, ctl, result, own, sub, mgrv,
                 shutv>>

-----------------------------------------------------------------------------
(* manager_loop.  One pass under the mutex: expire queue and ready, cancel   *)
(* overdue active controls, promote while there is a slot, pop one owner.    *)

\* The manager has ended every owner it removed or failed to spawn.
MgrFree == \A t \in Ids : owner[t] \notin {"expired", "unspawned"}

MgrLock ==
  /\ mgr = "top" /\ lock = "free" /\ MgrFree
  /\ mgr' = "pass" /\ lock' = "manager" /\ now' = passed
  /\ UNCHANGED <<sched, manager_started, ctl, result, own, sub, passed,
                 wait_until, shutv>>

\* First overdue index of a deque, in the order the pass pops it.
FirstDue(deque, i) ==
  /\ i \in 1..Len(deque) /\ deque[i] \in now
  /\ \A j \in 1..(i - 1) : deque[j] \notin now

NoneDue(deque) == \A i \in 1..Len(deque) : deque[i] \notin now

Overdue(t) == t \in active \cap now
              /\ lifecycle[t] \in {"AcceptedNotStarted", "Started"}

Expire(t) ==
  /\ MarkCancelling({t}, "Deadline")
  /\ owner' = [owner EXCEPT ![t] = "expired"]
  /\ step' = [step EXCEPT ![t] = "mark"]
  /\ UNCHANGED <<active, accepting, next_id, lock, manager_started, outcome,
                 result, sub, passed, mgrv, shutv>>

MgrExpireQueue(i) ==
  /\ mgr = "pass" /\ FirstDue(queue, i)
  /\ queue' = RemoveAt(queue, i) /\ UNCHANGED ready
  /\ Expire(queue[i])

MgrExpireReady(i) ==
  /\ mgr = "pass" /\ NoneDue(queue) /\ FirstDue(ready, i)
  /\ ready' = RemoveAt(ready, i) /\ UNCHANGED queue
  /\ Expire(ready[i])

MgrMarkDeadline(t) ==
  /\ mgr = "pass" /\ NoneDue(queue) /\ NoneDue(ready) /\ Overdue(t)
  /\ MarkCancelling({t}, "Deadline")
  /\ UNCHANGED <<sched, lock, manager_started, result, own, sub, passed, mgrv,
                 shutv>>

PassClean == NoneDue(queue) /\ NoneDue(ready) /\ \A t \in Ids : ~Overdue(t)

MgrPromote ==
  /\ mgr = "pass" /\ PassClean
  /\ HasSlot /\ queue # <<>>
  /\ LET t == Head(queue)
     IN  /\ queue' = Tail(queue)
         /\ active' = active \cup {t}
         /\ ready' = Append(ready, t)
         /\ owner' = [owner EXCEPT ![t] = "ready"]
         /\ lifecycle' = [lifecycle EXCEPT ![t] =
              IF @ = "Queued" THEN "AcceptedNotStarted" ELSE @]
  /\ UNCHANGED <<accepting, next_id, lock, manager_started, cancel_reason,
                 result, step, outcome, sub, passed, mgrv, shutv>>

\* The end of the pass: pop one ready owner, or decide to exit or to idle.
MgrPop ==
  /\ mgr = "pass" /\ PassClean
  /\ ~(HasSlot /\ queue # <<>>)
  /\ lock' = "free" /\ now' = {}
  /\ IF ready # <<>>
       THEN /\ owner' = [owner EXCEPT ![Head(ready)] = "dispatch"]
            /\ ready' = Tail(ready)
            /\ mgr' = "spawn"
       ELSE /\ mgr' = IF ~accepting /\ AllEmpty THEN "exit" ELSE "idle"
            /\ UNCHANGED <<owner, ready>>
  /\ UNCHANGED <<queue, active, accepting, next_id, manager_started, ctl,
                 result, step, outcome, sub, passed, wait_until, shutv>>

\* should_exit: the flag is stored without the mutex.
MgrExit ==
  /\ mgr = "exit" /\ MgrFree
  /\ mgr' = "none" /\ manager_started' = FALSE
  /\ UNCHANGED <<sched, lock, ctl, result, own, sub, passed, now, wait_until,
                 shutv>>

\* Nothing to dispatch: under the mutex again, return, retry or sleep.
MgrIdle ==
  /\ mgr = "idle" /\ MgrFree /\ lock = "free"
  /\ \/ /\ AllEmpty
        /\ mgr' = "none" /\ manager_started' = FALSE
        /\ UNCHANGED wait_until
     \/ /\ ~AllEmpty /\ HasDispatchablePending
        /\ mgr' = "top"
        /\ UNCHANGED <<manager_started, wait_until>>
     \/ /\ ~AllEmpty /\ ~HasDispatchablePending
        /\ mgr' = "wait" /\ wait_until' = NextDeadline
        /\ UNCHANGED manager_started
  /\ UNCHANGED <<sched, lock, ctl, result, own, sub, passed, now, shutv>>

\* wait_timeout runs out.
MgrTimeout ==
  /\ mgr = "wait"
  /\ wait_until = {} \/ wait_until \cap passed # {}
  /\ mgr' = "top" /\ wait_until' = {}
  /\ UNCHANGED <<sched, lock, manager_started, ctl, result, own, sub, passed,
                 now, shutv>>

\* spawn_task: the OS may refuse the thread; the manager then ends the owner.
MgrSpawn(t) ==
  /\ mgr = "spawn" /\ MgrFree /\ owner[t] = "dispatch"
  /\ mgr' = "top"
  /\ \/ /\ owner' = [owner EXCEPT ![t] = "thread"]
        /\ UNCHANGED step
     \/ /\ SpawnMayFail
        /\ owner' = [owner EXCEPT ![t] = "unspawned"]
        /\ step' = [step EXCEPT ![t] = "mark"]
  /\ UNCHANGED <<sched, lock, manager_started, ctl, outcome, result, sub,
                 passed, now, wait_until, shutv>>

-----------------------------------------------------------------------------
(* shutdown(grace). *)

\* Under the mutex: stop admission, drain both deques, cancel ready owners.
ShutdownBegin ==
  /\ ShutdownUsed /\ shut = "none" /\ lock = "free"
  /\ shut' = "scan" /\ lock' = "shutdown"
  /\ accepting' = FALSE
  /\ queue' = <<>> /\ ready' = <<>>
  /\ owner' = [t \in Ids |-> IF owner[t] \in {"queue", "ready"}
                               THEN "shutdown" ELSE owner[t]]
  /\ step' = [t \in Ids |-> IF owner[t] \in {"queue", "ready"}
                              THEN "mark" ELSE step[t]]
  /\ MarkCancelling({t \in Ids : owner[t] = "ready"}, "Shutdown")
  /\ not_started' = {t \in Ids : owner[t] = "ready"}
  /\ todo' = active
  /\ UNCHANGED <<active, next_id, manager_started, outcome, result, sub,
                 passed, mgrv, checked, requested>>

\* `control.state() == AcceptedNotStarted`: the control lock is taken and
\* released here, and taken again by mark_cancelling.
ShutdownCheck(t) ==
  /\ shut = "scan" /\ checked = {} /\ t \in todo
  /\ todo' = todo \ {t}
  /\ checked' = IF lifecycle[t] = "AcceptedNotStarted" THEN {t} ELSE {}
  /\ UNCHANGED <<sched, lock, manager_started, ctl, result, own, sub, passed,
                 mgrv, shut, not_started, requested>>

ShutdownMark(t) ==
  /\ shut = "scan" /\ t \in checked
  /\ MarkCancelling({t}, "Shutdown")
  /\ not_started' = IF Cancellable(t) THEN not_started \cup {t}
                                      ELSE not_started
  /\ checked' = {}
  /\ UNCHANGED <<sched, lock, manager_started, result, own, sub, passed, mgrv,
                 shut, todo, requested>>

ShutdownUnlock ==
  /\ shut = "scan" /\ todo = {} /\ checked = {}
  /\ shut' = "drain" /\ lock' = "free"
  /\ UNCHANGED <<sched, manager_started, ctl, result, own, sub, passed, mgrv,
                 todo, checked, not_started, requested>>

\* Every drained owner has been ended; notify_all.
ShutdownDrained ==
  /\ shut = "drain" /\ \A t \in Ids : owner[t] # "shutdown"
  /\ shut' = "loop"
  /\ mgr' = IF mgr = "wait" THEN "top" ELSE mgr
  /\ wait_until' = {}
  /\ UNCHANGED <<sched, lock, manager_started, ctl, result, own, sub, passed,
                 now, todo, checked, not_started, requested>>

\* One turn of the grace loop.
ShutdownLoop ==
  /\ shut = "loop" /\ lock = "free"
  /\ \/ active = {} /\ shut' = "done"
     \/ active # {} /\ shut' = "wait"
     \/ active # {} /\ BoundedGrace /\ shut' = "collect"
  /\ UNCHANGED <<sched, lock, manager_started, ctl, result, own, sub, passed,
                 mgrv, todo, checked, not_started, requested>>

ShutdownTimeout ==
  /\ shut = "wait" /\ BoundedGrace
  /\ shut' = "collect"
  /\ UNCHANGED <<sched, lock, manager_started, ctl, result, own, sub, passed,
                 mgrv, todo, checked, not_started, requested>>

ShutdownCollect ==
  /\ shut = "collect" /\ lock = "free"
  /\ shut' = "cancel"
  /\ todo' = StartedActive
  /\ UNCHANGED <<sched, lock, manager_started, ctl, result, own, sub, passed,
                 mgrv, checked, not_started, requested>>

\* request_cancel(Shutdown), unless the task ended or was cancelled meanwhile.
ShutdownCancel(t) ==
  /\ shut = "cancel" /\ lock = "free" /\ t \in todo
  /\ todo' = todo \ {t}
  /\ IF ~IsTerminal(t)
       THEN /\ RequestCancelOwned(t, "Shutdown")
            /\ requested' = IF Cancellable(t) THEN requested \cup {t}
                                              ELSE requested
       ELSE UNCHANGED <<queue, ready, active, ctl, owner, step, mgr,
                        wait_until, shut, requested>>
  /\ UNCHANGED <<accepting, next_id, lock, manager_started, outcome, result,
                 sub, passed, now, checked, not_started>>

ShutdownReturn ==
  /\ shut = "cancel" /\ todo = {}
  /\ shut' = "done"
  /\ UNCHANGED <<sched, lock, manager_started, ctl, result, own, sub, passed,
                 mgrv, todo, checked, not_started, requested>>

-----------------------------------------------------------------------------
Submitter(t) ==
  \/ SubmitDirect(t) \/ SubmitQueued(t) \/ SubmitFull(t)
  \/ SubmitNotify(t) \/ EnsureManager(t)
  \/ SpawnManager(t) \/ SpawnManagerFails(t) \/ FailPending(t)

\* The steps of a submit call after the owner is in a deque.
SubmitRest(t) ==
  \/ SubmitNotify(t) \/ EnsureManager(t)
  \/ SpawnManager(t) \/ SpawnManagerFails(t) \/ FailPending(t)

Finish(t) ==
  MarkTerminal(t) \/ ReleaseActive(t) \/ ReleaseNotify(t) \/ Publish(t)

Backend(t) == \E b \in BackendResults : Resolve(t, b)

Manager ==
  \/ MgrLock \/ MgrPromote \/ MgrPop \/ MgrExit \/ MgrIdle \/ MgrTimeout
  \/ \E i \in Ids : MgrExpireQueue(i) \/ MgrExpireReady(i)
  \/ \E t \in Ids : MgrMarkDeadline(t) \/ MgrSpawn(t)

ShutdownRest ==
  \/ ShutdownUnlock \/ ShutdownDrained \/ ShutdownLoop \/ ShutdownTimeout
  \/ ShutdownCollect \/ ShutdownReturn
  \/ \E t \in Ids : ShutdownCheck(t) \/ ShutdownMark(t) \/ ShutdownCancel(t)

\* The grace is one fixed deadline, however often shutdown is woken before it.
GraceEnds == (ShutdownLoop \/ ShutdownTimeout) /\ shut' = "collect"

Next ==
  \/ \E t \in Ids : \/ Submitter(t) \/ Cancel(t) \/ Finish(t)
                    \/ BeginStart(t) \/ MarkStarted(t) \/ Backend(t)
                    \/ DeadlinePasses(t)
  \/ Manager
  \/ ShutdownBegin \/ ShutdownRest

Spec == Init /\ [][Next]_vars

\* Every thread that can go on does, and time passes.  Callers need not
\* submit, cancel or shut down, and a backend need not return.  The manager
\* may poll for ever (every 100 ms), so a thread that blocks on the mutex needs
\* strong fairness: the mutex does not starve it between two polls.
Fairness ==
  /\ WF_vars(Manager)
  /\ SF_vars(ShutdownRest) /\ SF_vars(GraceEnds)
  /\ \A t \in Ids : /\ SF_vars(SubmitRest(t)) /\ SF_vars(Finish(t))
                    /\ WF_vars(BeginStart(t)) /\ WF_vars(DeadlinePasses(t))

HungSpec == Spec /\ Fairness

\* As above, and every backend call returns.
LiveSpec == HungSpec /\ \A t \in Ids : WF_vars(Backend(t))

-----------------------------------------------------------------------------
(* Properties. *)

\* Type invariant: SchedulerState, the control of every task, and the progress
\* of every thread that works on them.
TypeOK ==
  /\ queue \in Seq(Ids) /\ ready \in Seq(Ids) /\ active \subseteq Ids
  /\ accepting \in BOOLEAN /\ next_id \in 1..(MaxId + 1)
  /\ lock \in {"free", "manager", "shutdown"}
  /\ manager_started \in BOOLEAN
  /\ lifecycle \in [Ids -> Lifecycles]
  /\ cancel_reason \in [Ids -> Reasons]
  /\ outcome \in [Ids -> Results] /\ result \in [Ids -> Results]
  /\ owner \in [Ids -> Owners] /\ step \in [Ids -> Steps]
  /\ sub \in [Ids -> {"none", "notify", "ensure", "spawn", "failing", "ok",
                      "err"}]
  /\ passed \subseteq Ids
  /\ mgr \in {"none", "top", "pass", "idle", "wait", "spawn", "exit"}
  /\ now \subseteq Ids /\ wait_until \subseteq Ids
  /\ shut \in {"none", "scan", "drain", "loop", "wait", "collect", "cancel",
               "done"}
  /\ todo \subseteq Ids /\ checked \subseteq Ids
  /\ not_started \subseteq Ids /\ requested \subseteq Ids

\* AdmissionConfig's promise: never more than active_limit permits (counting
\* tasks between removal from `ready` and the drop of their permit), never
\* more than queue_limit queued owners, whatever the interleaving of submit,
\* promotion, expiry, cancellation and shutdown.
AdmissionLimits ==
  /\ Cardinality(active) <= ActiveLimit
  /\ Len(queue) <= QueueLimit

\* publish_terminal's promise to who awaits a result: once it is observable
\* the task is terminal, its permit is back, and the observed value agrees
\* with the lifecycle state.
ResultAfterRelease ==
  \A t \in Ids : result[t] # "none" =>
    /\ t \notin active
    /\ lifecycle[t] = StateOfOutcome(result[t])

\* A permit belongs to exactly the tasks that were admitted and have not
\* released it: none leaks when a task ends on an error path, none is given
\* back early.
PermitsMatchOwners ==
  \A t \in Ids :
    /\ owner[t] \in {"ready", "dispatch", "thread", "run", "unspawned", "dead"}
         /\ step[t] \in {"live", "mark", "release"} => t \in active
    /\ owner[t] \in {"none", "queue", "gone"} => t \notin active
    /\ step[t] \in {"notify", "publish", "done"} => t \notin active

In(t, deque) == \E i \in 1..Len(deque) : deque[i] = t

Ascending(deque) ==
  \A i, j \in 1..Len(deque) : i < j => deque[i] < deque[j]

\* The comment in submit ("Keep the new task behind that queue"): the owners
\* waiting for a thread are, ready first, in the order of their submission.
FifoPending ==
  /\ Ascending(ready) /\ Ascending(queue)
  /\ \A r, q \in Ids : In(r, ready) /\ In(q, queue) => r < q

\* No owner is dispatched while one submitted earlier is still waiting.
DispatchInOrder ==
  [][\A t \in Ids : owner[t] # "dispatch" /\ owner'[t] = "dispatch" =>
       \A u \in 1..(t - 1) : owner'[u] \notin {"queue", "ready"}]_vars

\* manager_started and its release under the mutex: a manager thread is only
\* started when none is alive, and a live one holds the flag.
SingleManager ==
  /\ \A t \in Ids : sub[t] = "spawn" =>
       /\ mgr = "none" /\ manager_started
       /\ \A u \in Ids : sub[u] = "spawn" => u = t
  /\ mgr # "none" => manager_started

\* manager_loop's exit protocol: whenever an owner waits in a deque, or holds
\* a permit on the dispatch path, a manager is there to expire and dispatch it,
\* or a submitter is on its way to start one or to fail the pending work.
NoStrandedWork ==
  (\/ queue # <<>> \/ ready # <<>>
   \/ \E t \in active : owner[t] \notin {"fail", "shutdown", "cancel"})
  => \/ mgr \notin {"none", "exit"}
     \/ \E t \in Ids : sub[t] \in {"notify", "ensure", "spawn", "failing"}

\* The manager never sleeps on `wake` over work it could dispatch, unless
\* somebody is about to notify it.
NoLostWakeup ==
  mgr = "wait" /\ HasDispatchablePending =>
    \E t \in Ids : sub[t] = "notify" \/ step[t] = "notify"

\* The manager thread (ensure_manager, manager_loop): there is at most one, it
\* is there while there is work for it, and it does not sleep over that work.
ManagerKeepsUp == SingleManager /\ NoStrandedWork /\ NoLostWakeup

\* send_terminal and resolve_backend_result give up silently on a control that
\* is already terminal, which would leave the result unpublished forever: the
\* one holder of an owner never finds its task already ended.
NeverEndedTwice ==
  \A t \in Ids : step[t] \in {"live", "mark"} => ~IsTerminal(t)

\* An accepted cancellation is never answered by a successful result, and a
\* deadline or cancellation never reaches a task still waiting in a deque.
CancelledNeverCompletes ==
  \A t \in Ids :
    /\ cancel_reason[t] # "none" => lifecycle[t] # "Completed"
    /\ owner[t] \in {"queue", "ready"} => cancel_reason[t] = "none"

\* "so they do not ... start user code": once shutdown has released the mutex
\* no task starts.
NoStartAfterShutdown ==
  [][shut \notin {"none", "scan"} =>
       \A t \in Ids : lifecycle'[t] = "Started" => lifecycle[t] = "Started"]_vars

\* Every submission that returned a handle gets a result, if backends return.
EveryHandleResolves ==
  \A t \in Ids : (sub[t] = "ok") ~> (result[t] # "none")

\* Deadlines are enforced even if every backend call hangs: the manager stays
\* and ends the overdue submission, or at least cancels it if it is admitted.
DeadlineEnforced ==
  \A t \in Timed : (t \in passed) ~>
    (result[t] # "none" \/ (t \in active /\ cancel_reason[t] # "none"))

\* With a representable grace shutdown returns even if backends hang, and no
\* admitted task is left without a cancellation.
ShutdownReturns ==
  (shut = "scan") ~> (shut = "done" /\
     \A t \in active : cancel_reason[t] # "none" \/ IsTerminal(t))

\* ShutdownReport::accepted_not_started_cancelled: "accepted tasks that had
\* not reached `Started`".
CountedBeforeStart ==
  [][\A t \in not_started' \ not_started : lifecycle[t] # "Started"]_vars

-----------------------------------------------------------------------------
(* The inductive invariant behind the safety properties: what every owner in *)
(* each place looks like.                                                    *)

\* The deques and the `owner` map agree; ids not yet given out are untouched.
Places ==
  /\ \A t \in Ids :
       /\ owner[t] = "queue" <=> In(t, queue)
       /\ owner[t] = "ready" <=> In(t, ready)
       /\ owner[t] # "none" => t < next_id
       /\ sub[t] \in {"notify", "ensure", "spawn", "failing", "ok"} =>
            owner[t] # "none"
       /\ t \in todo \cup checked => owner[t] # "none"
       /\ ~accepting => owner[t] \notin {"queue", "ready"}
  /\ shut # "none" => ~accepting

\* How far the holder of an owner can be in send_terminal.
StepOfOwner ==
  \A t \in Ids :
    /\ owner[t] \in {"none", "queue", "ready", "dispatch", "thread"} =>
         step[t] = "live"
    /\ owner[t] = "run" => step[t] \in {"live", "release", "notify", "publish"}
    /\ owner[t] \in Enders =>
         step[t] \in {"mark", "release", "notify", "publish"}
    /\ owner[t] = "gone" => step[t] = "done"

\* The control state that goes with the owner's place and progress.
ControlOfOwner ==
  \A t \in Ids :
    /\ owner[t] \in {"none", "queue"} =>
         lifecycle[t] = "Queued" /\ cancel_reason[t] = "none"
    /\ owner[t] = "ready" =>
         lifecycle[t] = "AcceptedNotStarted" /\ cancel_reason[t] = "none"
    /\ owner[t] = "dead" => cancel_reason[t] # "none"
    /\ cancel_reason[t] # "none" =>
         lifecycle[t] \in {"Cancelling", "Terminated", "Failed"}
    /\ step[t] \in {"live", "mark"} => ~IsTerminal(t)
    /\ step[t] \notin {"live", "mark"} =>
         outcome[t] # "none" /\ lifecycle[t] = StateOfOutcome(outcome[t])
    /\ result[t] = IF step[t] = "done" THEN outcome[t] ELSE "none"

\* The inductive invariant: the line of owners is in order, every owner is in
\* one place, and control state, permit and result agree with that place.
IndInv ==
  /\ TypeOK /\ FifoPending /\ Places /\ StepOfOwner /\ ControlOfOwner
  /\ PermitsMatchOwners /\ AdmissionLimits

=============================================================================
