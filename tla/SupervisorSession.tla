-------------------------- MODULE SupervisorSession --------------------------
(***************************************************************************)
(* One supervised subprocess run (src/subprocess.rs over the protocol of   *)
(* src/supervisor.rs).  Four threads in two processes:                     *)
(*   drv     the parent's driver: spawn the child, handshake, authorize    *)
(*           START or cancel, read STARTED and TERMINAL, reap, map result  *)
(*   worker  the parent's control worker: turns a cancellation or the      *)
(*           deadline into CANCEL, then closes the peer after a grace      *)
(*   child   the child's main thread: REQUEST, ACCEPTED, START barrier,    *)
(*           STARTED, user code, TERMINAL                                  *)
(*   control the child's control reader: CANCEL or EOF while user code runs*)
(* and the executor, which may request cancellation at any moment.  The    *)
(* link is a TCP stream: FIFO and reliable until an end closes.            *)
(* Every critical section of the session mutex is one action.  A write     *)
(* checks for cancellation before and after it sends, so it is two.        *)
(***************************************************************************)
EXTENDS Naturals, Sequences

CONSTANTS CancelReasons,  \* reasons the executor may cancel this run with
          HasDeadline,    \* whether the run has an effective deadline
          Slow,           \* whether a peer may exceed a frame timeout
          Faults,         \* whether the child may crash, a spawn or reap fail
          Strangers       \* unauthenticated peers that connect (a bound)

ASSUME SessionAssumption ==
  /\ CancelReasons \subseteq {"User", "Deadline", "Shutdown"}
  /\ {HasDeadline, Slow, Faults} \subseteq BOOLEAN
  /\ Strangers \in Nat

VARIABLES
  executor,          \* progress of the executor's request_with_reason
  reason, requested, \* the parent's CancellationContext
  due,               \* the effective deadline is over
  peers,             \* unauthenticated peers still to connect
  drv, err,          \* control point of the driver; kind of its error
  pstate, p_reason, cancel_sent, started_received, p_terminal,
                     \* SupervisorParentSession
  worker, stop, terminal_seen,       \* SupervisorControlWorker
  to_child, to_parent,               \* frames in flight
  pclosed, cclosed,                  \* the parent's, the child's end is closed
  child, control, c_reason, rt,      \* the child's threads, its context, and
                                     \* what its runtime call returned
  ran,                               \* user code was entered
  status,                            \* exit status of the child
  cleanup,                           \* reap_supervisor_child
  result                             \* what the supervised run returns

ctx     == <<reason, requested>>
session == <<pstate, p_reason, cancel_sent, started_received, p_terminal>>
drvv    == <<drv, err, cleanup, result>>
workerv == <<worker, stop, terminal_seen>>
link    == <<to_child, to_parent, pclosed, cclosed>>
childv  == <<child, control, c_reason, rt, ran, status>>
vars    == <<executor, ctx, due, peers, drvv, session, workerv, link, childv>>

Frame(kind, arg) == [kind |-> kind, arg |-> arg]
Has(channel, kind) == channel # <<>> /\ Head(channel).kind = kind

Outcomes == {"Completed", "Failed", "Cancelled", "Deadline"}

\* The outcome that goes with a cancellation reason.
OutcomeOf(r) == IF r = "Deadline" THEN "Deadline" ELSE "Cancelled"

Init ==
  /\ executor = "idle" /\ reason = "none" /\ requested = FALSE /\ due = FALSE
  /\ peers = Strangers
  /\ drv = "begin" /\ err = "none" /\ cleanup = "none" /\ result = "none"
  /\ pstate = "AwaitHello" /\ p_reason = "none" /\ cancel_sent = FALSE
  /\ started_received = FALSE /\ p_terminal = "none"
  /\ worker = "none" /\ stop = FALSE /\ terminal_seen = FALSE
  /\ to_child = <<>> /\ to_parent = <<>> /\ pclosed = FALSE /\ cclosed = FALSE
  /\ child = "none" /\ control = "none" /\ c_reason = "none" /\ rt = "none"
  /\ ran = FALSE /\ status = "none"

-----------------------------------------------------------------------------
(* CancellationContext::request_with_reason: the first reason stays, then   *)
(* the flag is raised.  The executor's two steps are visible to the other   *)
(* threads; a thread of the run that calls it takes both at once.           *)

FirstReasonLast(old, new) == new
FirstReason(old, new) == IF old = "none" THEN new ELSE old

Request(r) == reason' = FirstReason(reason, r) /\ requested' = TRUE

ExecutorStore(r) ==
  /\ executor = "idle" /\ r \in CancelReasons /\ (r = "Deadline" => due)
  /\ executor' = "stored"
  /\ reason' = FirstReason(reason, r)
  /\ UNCHANGED <<requested, due, peers, drvv, session, workerv, link, childv>>

ExecutorRaise ==
  /\ executor = "stored"
  /\ executor' = "done"
  /\ requested' = TRUE
  /\ UNCHANGED <<reason, due, peers, drvv, session, workerv, link, childv>>

DeadlinePasses ==
  /\ HasDeadline /\ ~due /\ result = "none"
  /\ due' = TRUE
  /\ UNCHANGED <<executor, ctx, peers, drvv, session, workerv, link, childv>>

\* The process of the child ends, with all its threads.
ChildGone(s) ==
  /\ child' = "exited" /\ status' = s /\ cclosed' = TRUE
  /\ control' = IF control = "none" THEN "none" ELSE "done"

-----------------------------------------------------------------------------
(* The driver: run_supervised_subprocess... and drive_supervisor_session.   *)

\* spawn_supervisor_child, with the listener it will connect to.
SpawnSupervisorChild == drv' = "accept" /\ child' = "boot" /\ UNCHANGED <<ctx, result>>

\* A cancellation or an expired deadline wins before anything is spawned.
DrvBegin ==
  /\ drv = "begin"
  /\ \/ /\ reason # "none"
        /\ drv' = "end" /\ UNCHANGED <<ctx, child>>
        /\ result' = IF reason = "Deadline" THEN "Timeout" ELSE "Cancelled"
     \/ /\ reason = "none" /\ due
        /\ Request("Deadline")
        /\ drv' = "end" /\ result' = "Timeout" /\ UNCHANGED child
     \/ /\ reason = "none" /\ ~due
        /\ SpawnSupervisorChild
     \/ /\ reason = "none" /\ ~due /\ Faults
        /\ drv' = "end" /\ result' = "Infrastructure" /\ UNCHANGED <<ctx, child>>
  /\ UNCHANGED <<executor, due, peers, err, cleanup, session, workerv, link,
                 control, c_reason, rt, ran, status>>

\* SubprocessOutputReaders::take fails: the child, just spawned, is killed before
\* anybody listens to it, and what the kill and the wait return is ignored.
DrvTakeFails ==
  /\ drv = "begin" /\ reason = "none" /\ ~due /\ Faults
  /\ drv' = "end" /\ result' = "Infrastructure" /\ pclosed' = TRUE
  /\ \/ ChildGone("disagrees") /\ cleanup' = "killed"
     \/ child' = "boot" /\ cleanup' = "error" /\ UNCHANGED <<control, status, cclosed>>
  /\ UNCHANGED <<executor, ctx, due, peers, err, session, workerv, to_child,
                 to_parent, c_reason, rt, ran>>

\* The session ends with an error before the worker exists: the stream and the
\* listener are dropped.
Fail(kind) ==
  /\ err' = kind /\ drv' = "reap" /\ pclosed' = TRUE
  /\ UNCHANGED <<executor, due, peers, cleanup, result, session, workerv,
                 to_child, to_parent, cclosed, childv>>

\* A read or write that ran into its deadline requests Deadline if that was
\* the effective deadline and nothing was requested before.
TimedOutRequest == IF due /\ reason = "none" THEN Request("Deadline")
                                             ELSE UNCHANGED ctx

\* A peer that fails HELLO is dropped and the listener keeps waiting.
DrvRejectPeer ==
  /\ drv = "accept" /\ reason = "none" /\ peers > 0
  /\ peers' = peers - 1
  /\ UNCHANGED <<executor, ctx, due, drvv, session, workerv, link, childv>>

DrvHello ==
  /\ drv = "accept" /\ reason = "none" /\ Has(to_parent, "HELLO")
  /\ to_parent' = Tail(to_parent)
  /\ pstate' = "AwaitAccepted" /\ drv' = "request"
  /\ UNCHANGED <<executor, ctx, due, peers, err, cleanup, result, p_reason,
                 cancel_sent, started_received, p_terminal, workerv, to_child,
                 pclosed, cclosed, childv>>

\* accept_supervisor_peer reads the reason, not the flag, and requests Deadline
\* when its wait runs out; the loop around it only reports the expiry.  The
\* listener, or a peer just accepted, may fail as well.
DrvAcceptFails ==
  /\ drv = "accept"
  /\ \/ reason # "none" /\ UNCHANGED ctx /\ Fail("interrupted")
     \/ /\ due \/ Slow
        /\ IF due THEN Request("Deadline") ELSE UNCHANGED ctx
        /\ Fail("timeout")
     \/ (due \/ Slow) /\ UNCHANGED ctx /\ Fail("protocol")
     \/ Faults /\ UNCHANGED ctx /\ Fail("io")

\* write_supervisor_frame(frame): from control point `at` over `sent` to next.
Write(at, sent, frame) ==
  /\ drv = at /\ ~requested /\ ~due
  /\ to_child' = Append(to_child, frame)
  /\ drv' = sent
  /\ UNCHANGED <<executor, ctx, due, peers, err, cleanup, result, session,
                 workerv, to_parent, pclosed, cclosed, childv>>

WriteFails(at, sent) ==
  /\ drv \in {at, sent}
  /\ \/ requested /\ UNCHANGED ctx /\ Fail("interrupted")
     \/ ~requested /\ (due \/ Slow) /\ TimedOutRequest /\ Fail("timeout")
     \/ ~requested /\ cclosed /\ UNCHANGED ctx /\ Fail("eof")

DrvRequest == Write("request", "requestSent", Frame("REQUEST", "none"))
DrvRequestFails == WriteFails("request", "requestSent")

DrvRequestSent ==
  /\ drv = "requestSent" /\ ~requested /\ ~due
  /\ drv' = "awaitAccepted"
  /\ UNCHANGED <<executor, ctx, due, peers, err, cleanup, result, session,
                 workerv, link, childv>>

\* read_supervisor_handshake_frame, receive_child_frame(ACCEPTED).
DrvAccepted ==
  /\ drv = "awaitAccepted" /\ ~requested /\ Has(to_parent, "ACCEPTED")
  /\ to_parent' = Tail(to_parent)
  /\ pstate' = "Accepted" /\ drv' = "authorize"
  /\ UNCHANGED <<executor, ctx, due, peers, err, cleanup, result, p_reason,
                 cancel_sent, started_received, p_terminal, workerv, to_child,
                 pclosed, cclosed, childv>>

DrvAcceptedFails ==
  /\ drv = "awaitAccepted"
  /\ \/ requested /\ UNCHANGED ctx /\ Fail("interrupted")
     \/ ~requested /\ (due \/ Slow) /\ TimedOutRequest /\ Fail("timeout")
     \/ ~requested /\ cclosed /\ to_parent = <<>> /\ UNCHANGED ctx /\ Fail("eof")

\* cancellation_reason_if_due, then authorize_start under the session mutex.
DueReason == IF reason = "none" /\ due THEN "Deadline" ELSE reason

DrvAuthorizeAnyway ==
  /\ drv = "authorize"
  /\ IF reason = "none" /\ due THEN Request("Deadline") ELSE UNCHANGED ctx
  /\ pstate' = IF DueReason = "none" THEN "AwaitStarted"
                                     ELSE "CancellingBeforeStart"
  /\ p_reason' = DueReason
  /\ drv' = "start"
  /\ UNCHANGED <<executor, due, peers, err, cleanup, result, cancel_sent,
                 started_received, p_terminal, workerv, link, childv>>
DrvAuthorize ==
  /\ drv = "authorize"
  /\ IF reason = "none" /\ due THEN Request("Deadline") ELSE UNCHANGED ctx
  /\ IF DueReason = "none"
       THEN pstate' = "AwaitStarted" /\ drv' = "start"
       ELSE pstate' = "CancellingBeforeStart" /\ drv' = "cancel"
  /\ p_reason' = DueReason
  /\ UNCHANGED <<executor, due, peers, err, cleanup, result, cancel_sent,
                 started_received, p_terminal, workerv, link, childv>>

DrvStart == Write("start", "startSent", Frame("START", "none"))
DrvStartFails == WriteFails("start", "startSent")

\* START is out: the control worker is spawned and owns cancellation.
DrvSpawnWorker ==
  /\ drv = "startSent" /\ ~requested /\ ~due
  /\ drv' = "read" /\ worker' = "poll"
  /\ UNCHANGED <<executor, ctx, due, peers, err, cleanup, result, session,
                 stop, terminal_seen, link, childv>>

\* Its stream cannot be cloned or its thread not be spawned.
DrvSpawnWorkerFails ==
  /\ drv = "startSent" /\ ~requested /\ ~due /\ Faults
  /\ UNCHANGED ctx /\ Fail("io")

\* send_supervisor_cancel on a session authorize_start has cancelled.
DrvCancel ==
  /\ drv = "cancel"
  /\ cancel_sent' = TRUE
  /\ \/ /\ to_child' = Append(to_child, Frame("CANCEL", p_reason))
        /\ drv' = "read" /\ UNCHANGED <<err, pclosed>>
     \/ /\ cclosed \/ Slow
        /\ drv' = "reap" /\ err' = IF cclosed THEN "eof" ELSE "timeout"
        /\ pclosed' = TRUE /\ UNCHANGED to_child
  /\ UNCHANGED <<executor, ctx, due, peers, cleanup, result, pstate, p_reason,
                 started_received, p_terminal, workerv, to_parent, cclosed,
                 childv>>

-----------------------------------------------------------------------------
(* read_supervisor_terminal. *)

\* receive_child_frame(STARTED): while AwaitStarted, and once while a
\* cancellation that came after START is in progress.
TakesStartedStrict == pstate = "AwaitStarted"
TakesStarted == \/ pstate = "AwaitStarted"
                \/ pstate = "Cancelling" /\ ~started_received

DrvStarted ==
  /\ drv = "read" /\ Has(to_parent, "STARTED")
  /\ to_parent' = Tail(to_parent)
  /\ IF TakesStarted
       THEN /\ started_received' = TRUE
            /\ pstate' = IF pstate = "AwaitStarted" THEN "Started" ELSE pstate
            /\ UNCHANGED <<drv, err>>
       ELSE /\ drv' = "failed" /\ err' = "protocol"
            /\ UNCHANGED <<started_received, pstate>>
  /\ UNCHANGED <<executor, ctx, due, peers, cleanup, result, p_reason,
                 cancel_sent, p_terminal, workerv, to_child, pclosed, cclosed,
                 childv>>

\* receive_child_frame(TERMINAL): a cancelled START only takes the outcome of
\* its reason.
TakesTerminal(o) ==
  \/ pstate \in {"Started", "Cancelling"}
  \/ pstate = "CancellingBeforeStart" /\ o = OutcomeOf(p_reason)

DrvTerminal ==
  /\ drv = "read" /\ Has(to_parent, "TERMINAL")
  /\ to_parent' = Tail(to_parent)
  /\ IF TakesTerminal(Head(to_parent).arg)
       THEN /\ p_terminal' = Head(to_parent).arg
            /\ pstate' = "Terminal"
            /\ drv' = "duplicate" /\ UNCHANGED err
       ELSE /\ drv' = "failed" /\ err' = "protocol"
            /\ UNCHANGED <<p_terminal, pstate>>
  /\ UNCHANGED <<executor, ctx, due, peers, cleanup, result, p_reason,
                 cancel_sent, started_received, workerv, to_child, pclosed,
                 cclosed, childv>>

\* Frames in flight may be lost when this end was shut down, or when the child
\* closed with a frame unread (the kernel resets the connection).
Broken == pclosed \/ (cclosed /\ to_child # <<>>)

\* STARTED has a frame timeout of its own, and a cancelled START the grace.
DrvReadFails ==
  /\ drv = "read" /\ drv' = "failed"
  /\ \/ /\ Broken \/ (cclosed /\ to_parent = <<>>)
        /\ err' = "eof" /\ UNCHANGED ctx
     \/ /\ Slow /\ TakesStarted
        /\ err' = "timeout" /\ TimedOutRequest
     \/ /\ pstate = "CancellingBeforeStart"
        /\ err' = "timeout" /\ UNCHANGED ctx
  /\ UNCHANGED <<executor, due, peers, cleanup, result, session, workerv, link,
                 childv>>

\* The window for a duplicate TERMINAL ends; the worker, if any, is told.
DrvDuplicateEndsSilently ==
  /\ drv = "duplicate"
  /\ drv' = "join"
  /\ UNCHANGED <<executor, ctx, due, peers, err, cleanup, result, session,
                 workerv, link, childv>>
DrvDuplicateEnds ==
  /\ drv = "duplicate"
  /\ drv' = "join"
  /\ terminal_seen' = TRUE /\ stop' = TRUE
  /\ UNCHANGED <<executor, ctx, due, peers, err, cleanup, result, session,
                 worker, link, childv>>

\* A reset in that window is an error, although TERMINAL was taken.
DrvDuplicateReset ==
  /\ drv = "duplicate" /\ cclosed /\ to_child # <<>>
  /\ drv' = "failed" /\ err' = "eof"
  /\ UNCHANGED <<executor, ctx, due, peers, cleanup, result, session, workerv,
                 link, childv>>

\* After an error the worker is stopped, unless a cancellation is requested:
\* then it finishes its grace and closes the peer itself.
DrvFailed ==
  /\ drv = "failed"
  /\ drv' = "join"
  /\ stop' = ~requested
  /\ UNCHANGED <<executor, ctx, due, peers, err, cleanup, result, session,
                 worker, terminal_seen, link, childv>>

\* The worker is joined and the session's streams are dropped.
DrvJoinedEarly ==
  /\ drv = "join"
  /\ drv' = "reap" /\ pclosed' = TRUE
  /\ UNCHANGED <<executor, ctx, due, peers, err, cleanup, result, session,
                 workerv, to_child, to_parent, cclosed, childv>>
DrvJoined ==
  /\ drv = "join" /\ worker \in {"none", "ok", "error"}
  /\ drv' = "reap" /\ pclosed' = TRUE
  /\ UNCHANGED <<executor, ctx, due, peers, err, cleanup, result, session,
                 workerv, to_child, to_parent, cclosed, childv>>

-----------------------------------------------------------------------------
(* supervisor_control_loop. *)

WorkerStops ==
  /\ worker \in {"poll", "grace"} /\ (stop \/ terminal_seen)
  /\ worker' = "ok"
  /\ UNCHANGED <<executor, ctx, due, peers, drvv, session, stop, terminal_seen,
                 link, childv>>

\* The worker may have looked at stop just before it was set.
WorkerNotices ==
  /\ worker = "poll"
  /\ \/ requested /\ UNCHANGED ctx
     \/ ~requested /\ due /\ Request("Deadline")
  /\ worker' = "send"
  /\ UNCHANGED <<executor, due, peers, drvv, session, stop, terminal_seen, link,
                 childv>>

\* SupervisorParentSession::send_cancel: a reason that conflicts is an error; a
\* TERMINAL that came first leaves nothing to send.
RecordCancelLate == p_reason' = reason
RecordCancel == p_reason' = IF pstate = "Terminal" THEN p_reason ELSE reason

WorkerSendCancel ==
  /\ worker = "send"
  /\ IF terminal_seen \/ p_reason \notin {"none", reason}
       THEN /\ worker' = IF terminal_seen THEN "ok" ELSE "error"
            /\ UNCHANGED session
       ELSE /\ RecordCancel
            /\ worker' = IF pstate = "Terminal" THEN "grace" ELSE "write"
            /\ cancel_sent' = (pstate # "Terminal")
            /\ pstate' = IF pstate = "Terminal" THEN pstate ELSE "Cancelling"
            /\ UNCHANGED <<started_received, p_terminal>>
  /\ UNCHANGED <<executor, ctx, due, peers, drvv, stop, terminal_seen, link,
                 childv>>

WorkerWrites ==
  /\ worker = "write"
  /\ \/ /\ to_child' = Append(to_child, Frame("CANCEL", p_reason))
        /\ worker' = "grace" /\ UNCHANGED pclosed
     \/ /\ cclosed \/ Slow
        /\ worker' = "error" /\ pclosed' = TRUE /\ UNCHANGED to_child
  /\ UNCHANGED <<executor, ctx, due, peers, drvv, session, stop, terminal_seen,
                 to_parent, cclosed, childv>>

\* The cancellation grace is over, which is looked at before stop: the peer is
\* shut down.
WorkerGraceEndsOpen ==
  /\ worker = "grace"
  /\ worker' = "ok"
  /\ UNCHANGED <<executor, ctx, due, peers, drvv, session, stop, terminal_seen,
                 link, childv>>
WorkerGraceEnds ==
  /\ worker = "grace"
  /\ worker' = "ok" /\ pclosed' = TRUE
  /\ UNCHANGED <<executor, ctx, due, peers, drvv, session, stop, terminal_seen,
                 to_child, to_parent, cclosed, childv>>

-----------------------------------------------------------------------------
(* The child process: run_supervisor_child and its control thread.          *)

ChildHello ==
  /\ child = "boot" /\ ~pclosed
  /\ child' = "awaitRequest"
  /\ to_parent' = Append(to_parent, Frame("HELLO", "none"))
  /\ UNCHANGED <<executor, ctx, due, peers, drvv, session, workerv, to_child,
                 pclosed, cclosed, control, c_reason, rt, ran, status>>

ChildRequest ==
  /\ child = "awaitRequest" /\ Has(to_child, "REQUEST")
  /\ child' = "awaitStart"
  /\ to_child' = Tail(to_child)
  /\ to_parent' = Append(to_parent, Frame("ACCEPTED", "none"))
  /\ UNCHANGED <<executor, ctx, due, peers, drvv, session, workerv, pclosed,
                 cclosed, control, c_reason, rt, ran, status>>

\* CANCEL in place of START: TERMINAL without any user code.
ChildCancelled ==
  /\ child = "awaitStart" /\ Has(to_child, "CANCEL")
  /\ child' = "exiting"
  /\ to_child' = Tail(to_child)
  /\ to_parent' = Append(to_parent,
                         Frame("TERMINAL", OutcomeOf(Head(to_child).arg)))
  /\ UNCHANGED <<executor, ctx, due, peers, drvv, session, workerv, pclosed,
                 cclosed, control, c_reason, rt, ran, status>>

\* START: the control thread exists before STARTED is written.
ChildStart ==
  /\ child = "awaitStart" /\ Has(to_child, "START")
  /\ child' = "starting" /\ control' = "poll"
  /\ to_child' = Tail(to_child)
  /\ UNCHANGED <<executor, ctx, due, peers, drvv, session, workerv, to_parent,
                 pclosed, cclosed, c_reason, rt, ran, status>>

\* User code is entered only after STARTED was written.
ChildStarted ==
  /\ child = "starting"
  /\ child' = "run" /\ ran' = TRUE
  /\ to_parent' = Append(to_parent, Frame("STARTED", "none"))
  /\ UNCHANGED <<executor, ctx, due, peers, drvv, session, workerv, to_child,
                 pclosed, cclosed, control, c_reason, rt, status>>

\* A read or write of the handshake, or of TERMINAL, fails: exit code 1.
ChildFails ==
  /\ child \in {"boot", "awaitRequest", "awaitStart", "starting"}
     \/ (child = "stopping" /\ control = "done")
  /\ pclosed \/ Slow
  /\ ChildGone("disagrees")
  /\ UNCHANGED <<executor, ctx, due, peers, drvv, session, workerv, to_child,
                 to_parent, pclosed, c_reason, rt, ran>>

\* The runtime call returns and the control thread is told to stop.
ChildRunEnds ==
  /\ child = "run"
  /\ child' = "stopping"
  /\ rt' \in {"ok", "error"} \cup (IF due THEN {"timeout"} ELSE {})
  /\ UNCHANGED <<executor, ctx, due, peers, drvv, session, workerv, link,
                 control, c_reason, ran, status>>

\* The control thread: the first reason stays, a conflict ends the thread.
ControlCancel ==
  /\ control = "poll" /\ Has(to_child, "CANCEL")
  /\ to_child' = Tail(to_child)
  /\ c_reason' = FirstReason(c_reason, Head(to_child).arg)
  /\ control' = IF c_reason \in {"none", Head(to_child).arg} THEN "poll"
                                                            ELSE "done"
  /\ UNCHANGED <<executor, ctx, due, peers, drvv, session, workerv, to_parent,
                 pclosed, cclosed, child, rt, ran, status>>

\* End of the stream cancels the user code, as if the user had asked for it.
ControlEof ==
  /\ control = "poll" /\ pclosed
  /\ control' = "done"
  /\ c_reason' = FirstReason(c_reason, "User")
  /\ UNCHANGED <<executor, ctx, due, peers, drvv, session, workerv, link, child,
                 rt, ran, status>>

ControlStop ==
  /\ control = "poll" /\ child = "stopping"
  /\ control' = "done"
  /\ UNCHANGED <<executor, ctx, due, peers, drvv, session, workerv, link, child,
                 c_reason, rt, ran, status>>

\* The outcome of a run: a cancellation wins over what the runtime returned.
ChildOutcome ==
  CASE c_reason # "none" -> OutcomeOf(c_reason)
    [] c_reason = "none" /\ rt = "ok" -> "Completed"
    [] c_reason = "none" /\ rt = "timeout" -> "Deadline"
    [] OTHER -> "Failed"

\* The control thread is joined before the reason is read.
ChildTerminal ==
  /\ child = "stopping" /\ control = "done"
  /\ child' = "exiting"
  /\ to_parent' = Append(to_parent, Frame("TERMINAL", ChildOutcome))
  /\ UNCHANGED <<executor, ctx, due, peers, drvv, session, workerv, to_child,
                 pclosed, cclosed, control, c_reason, rt, ran, status>>

\* The exit code is the one TERMINAL announced.
ChildExit ==
  /\ child = "exiting"
  /\ ChildGone("agrees")
  /\ UNCHANGED <<executor, ctx, due, peers, drvv, session, workerv, to_child,
                 to_parent, pclosed, c_reason, rt, ran>>

ChildCrash ==
  /\ Faults /\ child \notin {"none", "exited"}
  /\ ChildGone("disagrees")
  /\ UNCHANGED <<executor, ctx, due, peers, drvv, session, workerv, to_child,
                 to_parent, pclosed, c_reason, rt, ran>>

-----------------------------------------------------------------------------
(* reap_supervisor_child and the mapping to the result. *)

\* A child that exits within the grace is reaped, any other is killed.
DrvReap ==
  /\ drv = "reap" /\ drv' = "finish"
  /\ \/ /\ child = "exited"
        /\ cleanup' = "natural" /\ UNCHANGED <<child, control, status, cclosed>>
     \/ /\ child # "exited"
        /\ cleanup' = "killed" /\ ChildGone("disagrees")
  /\ UNCHANGED <<executor, ctx, due, peers, err, result, session, workerv,
                 to_child, to_parent, pclosed, c_reason, rt, ran>>

\* Inspecting the child fails; the kill and the wait may fail as well.
DrvReapError ==
  /\ drv = "reap" /\ Faults
  /\ drv' = "finish" /\ cleanup' = "error"
  /\ ChildGone("disagrees") \/ UNCHANGED <<child, control, status, cclosed>>
  /\ UNCHANGED <<executor, ctx, due, peers, err, result, session, workerv,
                 to_child, to_parent, pclosed, c_reason, rt, ran>>

\* supervisor_session_failure_category: what a session that ended with an error
\* is reported as.  A cancellation explains it before anything else.
FailureCategoryCrashFirst ==
  IF cleanup = "error" THEN "Infrastructure"
  ELSE IF cleanup = "natural" /\ err \in {"eof", "timeout"} THEN "ChildCrash"
  ELSE IF requested THEN IF reason = "Deadline" THEN "SupervisorTimeout"
                                                ELSE "Cancelled"
  ELSE IF err = "timeout" THEN "SupervisorTimeout"
  ELSE "Infrastructure"
FailureCategory ==
  IF cleanup = "error" THEN "Infrastructure"
  ELSE IF requested THEN IF reason = "Deadline" THEN "SupervisorTimeout"
                                                ELSE "Cancelled"
  ELSE IF cleanup = "natural" /\ err \in {"eof", "timeout"} THEN "ChildCrash"
  ELSE IF err = "timeout" THEN "SupervisorTimeout"
  ELSE "Infrastructure"

\* validate_supervisor_terminal_status: not asked of a child that was killed.
StatusDisagrees == cleanup = "natural" /\ status = "disagrees"

\* collection_deadline_error: the script completed, but the deadline passed
\* while its output was collected; a cancellation requested meanwhile wins.
CollectionDeadlineError ==
  IF reason \in {"User", "Shutdown"} THEN "Cancelled" ELSE "SupervisorTimeout"

\* map_supervisor_terminal_with_cancellation and the categories around it.  A
\* cancellation recorded before TERMINAL wins over its outcome; won says that
\* the deadline passed while the output was collected.  Mismatch is an error
\* about the exit status that carries no category.
TerminalResultOutcomeOnly(won) ==
  IF cleanup = "error" \/ StatusDisagrees THEN "Infrastructure"
  ELSE IF p_terminal = "Completed" THEN IF won THEN "SupervisorTimeout" ELSE "Ok"
  ELSE IF p_terminal = "Deadline" THEN "SupervisorTimeout" ELSE p_terminal
TerminalResult(won) ==
  IF cleanup = "error" THEN "Infrastructure"
  ELSE IF StatusDisagrees
    THEN IF p_reason \in {"User", "Shutdown"} \/ p_terminal = "Cancelled"
           THEN "Mismatch" ELSE "Infrastructure"
  ELSE IF p_reason \in {"User", "Shutdown"} THEN "Cancelled"
  ELSE IF p_terminal = "Deadline" THEN "SupervisorTimeout"
  ELSE IF p_reason = "Deadline" THEN "Timeout"
  ELSE IF p_terminal # "Completed" THEN p_terminal
  ELSE IF won THEN CollectionDeadlineError ELSE "Ok"

DrvFinish ==
  /\ drv = "finish" /\ drv' = "end"
  /\ \E won \in {FALSE, due} :
       result' = IF err # "none" THEN FailureCategory ELSE TerminalResult(won)
  /\ UNCHANGED <<executor, ctx, due, peers, err, cleanup, session, workerv, link,
                 childv>>

-----------------------------------------------------------------------------
Driver ==
  \/ DrvBegin \/ DrvHello \/ DrvAcceptFails
  \/ DrvRequest \/ DrvRequestSent \/ DrvRequestFails
  \/ DrvAccepted \/ DrvAcceptedFails \/ DrvAuthorize
  \/ DrvStart \/ DrvSpawnWorker \/ DrvStartFails \/ DrvCancel
  \/ DrvStarted \/ DrvTerminal \/ DrvReadFails
  \/ DrvDuplicateEnds \/ DrvFailed \/ DrvJoined \/ DrvReap \/ DrvFinish

Worker ==
  \/ WorkerStops \/ WorkerNotices \/ WorkerSendCancel \/ WorkerWrites
  \/ WorkerGraceEnds

Child ==
  \/ ChildHello \/ ChildRequest \/ ChildCancelled \/ ChildStart \/ ChildStarted
  \/ ChildRunEnds \/ ChildTerminal \/ ChildExit

Control == ControlCancel \/ ControlEof \/ ControlStop

Next ==
  \/ \E r \in CancelReasons : ExecutorStore(r)
  \/ ExecutorRaise \/ DeadlinePasses
  \/ DrvTakeFails \/ DrvRejectPeer \/ Driver \/ DrvSpawnWorkerFails \/ DrvDuplicateReset
  \/ DrvReapError
  \/ Worker
  \/ Child \/ ChildFails \/ ChildCrash
  \/ Control

Spec == Init /\ [][Next]_vars

\* Threads of the parent are scheduled and its timeouts fire; the child may
\* hang at any point, in its boot, in the handshake or in user code.
ParentFairness ==
  WF_vars(Driver) /\ WF_vars(Worker) /\ WF_vars(ExecutorRaise)

HungSpec == Spec /\ ParentFairness

-----------------------------------------------------------------------------
(* Properties. *)

Reasons == {"User", "Deadline", "Shutdown"}
ToChild  == {Frame(k, "none") : k \in {"REQUEST", "START"}}
            \cup {Frame("CANCEL", r) : r \in Reasons}
ToParent == {Frame(k, "none") : k \in {"HELLO", "ACCEPTED", "STARTED"}}
            \cup {Frame("TERMINAL", o) : o \in Outcomes}

\* Type invariant: the state of the session, of both processes and of the link
\* between them; a CANCEL carries a reason and a TERMINAL an outcome.
TypeOK ==
  /\ executor \in {"idle", "stored", "done"}
  /\ reason \in Reasons \cup {"none"} /\ requested \in BOOLEAN /\ due \in BOOLEAN
  /\ peers \in 0..Strangers
  /\ drv \in {"begin", "accept", "request", "requestSent", "awaitAccepted",
              "authorize", "start", "startSent", "cancel", "read", "duplicate",
              "failed", "join", "reap", "finish", "end"}
  /\ err \in {"none", "interrupted", "timeout", "eof", "io", "protocol"}
  /\ pstate \in {"AwaitHello", "AwaitAccepted", "Accepted", "AwaitStarted",
                 "Started", "CancellingBeforeStart", "Cancelling", "Terminal"}
  /\ p_reason \in Reasons \cup {"none"}
  /\ cancel_sent \in BOOLEAN /\ started_received \in BOOLEAN
  /\ stop \in BOOLEAN /\ terminal_seen \in BOOLEAN
  /\ p_terminal \in Outcomes \cup {"none"}
  /\ worker \in {"none", "poll", "send", "write", "grace", "ok", "error"}
  /\ to_child \in Seq(ToChild) /\ to_parent \in Seq(ToParent)
  /\ pclosed \in BOOLEAN /\ cclosed \in BOOLEAN /\ ran \in BOOLEAN
  /\ child \in {"none", "boot", "awaitRequest", "awaitStart", "starting", "run",
                "stopping", "exiting", "exited"}
  /\ control \in {"none", "poll", "done"}
  /\ c_reason \in Reasons \cup {"none"}
  /\ rt \in {"none", "ok", "error", "timeout"}
  /\ status \in {"none", "agrees", "disagrees"}
  /\ cleanup \in {"none", "natural", "killed", "error"}
  /\ result \in {"none", "Ok", "Failed", "Cancelled", "Timeout",
                 "SupervisorTimeout", "ChildCrash", "Infrastructure", "Mismatch"}

\* The START barrier: user code is entered only when the parent authorized
\* START, so never in a run it cancelled instead; and the parent does not take
\* the TERMINAL of a run that entered user code without having seen STARTED.
StartBarrier ==
  ran => /\ pstate \in {"AwaitStarted", "Started", "Cancelling", "Terminal"}
         /\ p_terminal # "none" => started_received

\* The session is well typed and keeps the START barrier.
Inv == TypeOK /\ StartBarrier

\* First reason wins across two processes: the reason recorded in the session,
\* every CANCEL frame in flight, and the reason the child stops its runtime for
\* are the one reason of the parent's context.  Only after the parent closed
\* the stream may the child have made up its own (User).
ReasonsAgree ==
  /\ p_reason \in {"none", reason}
  /\ \A i \in DOMAIN to_child :
       to_child[i].kind = "CANCEL" => to_child[i].arg = reason
  /\ c_reason \in {"none", reason} \/ (pclosed /\ c_reason = "User")

\* A child that follows the protocol is never accused of breaking it: however
\* a cancellation races with STARTED and TERMINAL, the parent's state machine
\* takes them.  The one protocol error is a handshake nobody completed.
NoFalseProtocolError == err = "protocol" => pstate = "AwaitHello"

\* Ok means that the user code completed and no cancellation was recorded
\* before TERMINAL; Failed that it failed; Cancelled that somebody cancelled; a
\* timeout that the deadline or a frame timeout passed.  And a completed run is
\* reported as completed unless CANCEL went out before its TERMINAL was taken,
\* the deadline is over or the cleanup failed: a cancellation that comes after
\* TERMINAL changes nothing.
ResultIsHonest ==
  /\ result = "Ok" => rt = "ok" /\ started_received /\ p_reason = "none"
  /\ result = "Failed" => rt = "error" /\ p_reason = "none"
  /\ result = "Cancelled" => reason \in {"User", "Shutdown"}
  /\ result \in {"Timeout", "SupervisorTimeout"} => due \/ err = "timeout"
  /\ p_terminal = "Completed" /\ result \notin {"none", "Ok"} =>
       cancel_sent \/ due \/ cleanup = "error" \/ StatusDisagrees

\* A cancellation the control worker recorded after START is what the run is
\* reported as, whatever the child answered and however the session ended.
CancelAfterStartWins ==
  worker # "none" /\ p_reason \in {"User", "Shutdown"} /\ cleanup # "error"
    => result \in {"none", "Cancelled"} \/ StatusDisagrees

\* A TERMINAL that was taken explains the run: it is not reported as a crash
\* or an infrastructure failure, even when the child's exit resets the link in
\* the window for duplicates (a CANCEL it did not read).
TerminalAuthoritative ==
  p_terminal # "none" /\ cleanup # "error" /\ ~StatusDisagrees
    => result \notin {"ChildCrash", "Infrastructure"}

\* No orphan: when the run returns, the child it spawned is gone (unless the
\* system refused to kill it), no control worker runs and the link is closed.
NoOrphan ==
  result # "none" /\ child # "none" =>
    /\ child = "exited" \/ cleanup = "error"
    /\ worker \in {"none", "ok", "error"}
    /\ pclosed

\* A cancelled or expired run ends, even if the child hangs for ever.
CancelledRunEnds == (reason # "none" \/ due) ~> (result # "none")

\* If the child is scheduled as well and its user code ends, the run ends: no
\* thread of the two processes waits for another for ever.
SessionEnds == WF_vars(Child) /\ WF_vars(Control) => <>(result # "none")

=============================================================================
