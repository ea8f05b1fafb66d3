----------------------- MODULE SupervisorSessionProofs -----------------------
(***************************************************************************)
(* Proofs about SupervisorSession: the safety properties of a supervised   *)
(* run, for every set of reasons, with and without a deadline, slow peers, *)
(* faults and any number of strangers.                                     *)
(***************************************************************************)
EXTENDS SupervisorSession, SequenceTheorems, TLAPS

-----------------------------------------------------------------------------
(* What is in flight.  The protocol is a lock step up to START, so a        *)
(* channel never holds more than two frames, and its shape says which.      *)

Kinds == {"REQUEST", "START", "CANCEL", "HELLO", "ACCEPTED", "STARTED", "TERMINAL"}
Frames == [kind : Kinds, arg : {"none"} \cup Reasons \cup Outcomes]

Shape(s) == IF Len(s) = 0 THEN "empty"
            ELSE IF Len(s) = 1 THEN s[1].kind
            ELSE IF Len(s) = 2 /\ s[1].kind = "START" /\ s[2].kind = "CANCEL" THEN "START_CANCEL"
            ELSE IF Len(s) = 2 /\ s[1].kind = "STARTED" /\ s[2].kind = "TERMINAL" THEN "STARTED_TERMINAL"
            ELSE "other"
LastArg(s) == s[Len(s)].arg

down    == Shape(to_child)
downArg == LastArg(to_child)
up      == Shape(to_parent)
upArg   == LastArg(to_parent)

\* What a shape says.
ShapeFacts(s) ==
  /\ Shape(s) = "empty" <=> Len(s) = 0
  /\ \A k \in Kinds : Shape(s) = k <=> Len(s) = 1 /\ s[1].kind = k
  /\ Shape(s) = "START_CANCEL" <=> Len(s) = 2 /\ s[1].kind = "START" /\ s[2].kind = "CANCEL"
  /\ Shape(s) = "STARTED_TERMINAL" <=> Len(s) = 2 /\ s[1].kind = "STARTED" /\ s[2].kind = "TERMINAL"

\* It says it of every sequence of frames.
LEMMA ShapeCases ==
  ASSUME NEW s \in Seq(Frames)
  PROVE  ShapeFacts(s)
<1> DEFINE n == Len(s)
           p == s[1].kind
           q == s[2].kind
<1>1. n \in Nat /\ (n = 1 => p \in Kinds)
  <2>1. n \in Nat /\ (n = 1 => s[1] \in Frames)
    OBVIOUS
  <2>2. \A f \in Frames : f.kind \in Kinds
    BY DEF Frames
  <2>3. QED
    BY <2>1, <2>2
<1>2. Shape(s) = IF n = 0 THEN "empty"
                 ELSE IF n = 1 THEN p
                 ELSE IF n = 2 /\ p = "START" /\ q = "CANCEL" THEN "START_CANCEL"
                 ELSE IF n = 2 /\ p = "STARTED" /\ q = "TERMINAL" THEN "STARTED_TERMINAL"
                 ELSE "other"
  BY DEF Shape
<1> HIDE DEF n, p, q
<1>3. /\ Shape(s) = "empty" <=> n = 0
      /\ \A k \in Kinds : Shape(s) = k <=> n = 1 /\ p = k
      /\ Shape(s) = "START_CANCEL" <=> n = 2 /\ p = "START" /\ q = "CANCEL"
      /\ Shape(s) = "STARTED_TERMINAL" <=> n = 2 /\ p = "STARTED" /\ q = "TERMINAL"
  BY <1>1, <1>2 DEF Kinds
<1>4. QED
  BY <1>3 DEF n, p, q, ShapeFacts

\* A channel has no frame exactly when its shape is empty.
LEMMA ShapeEmpty ==
  ASSUME NEW s \in Seq(Frames)
  PROVE  s = <<>> <=> Shape(s) = "empty"
BY ShapeCases, EmptySeq DEF ShapeFacts

\* What a write adds.
LEMMA ShapeAppend ==
  ASSUME NEW s \in Seq(Frames), NEW k \in Kinds, NEW a, Frame(k, a) \in Frames
  PROVE  LET t == Append(s, Frame(k, a))
         IN  /\ LastArg(t) = a
             /\ Shape(s) = "empty" => Shape(t) = k
             /\ Shape(s) = "START" /\ k = "CANCEL" => Shape(t) = "START_CANCEL"
             /\ Shape(s) = "STARTED" /\ k = "TERMINAL" => Shape(t) = "STARTED_TERMINAL"
<1> DEFINE t == Append(s, Frame(k, a))
<1>1. /\ Len(s) \in Nat /\ Len(t) = Len(s) + 1 /\ t[Len(s) + 1] = Frame(k, a)
      /\ \A i \in 1..Len(s) : t[i] = s[i]
      /\ t \in Seq(Frames)
  OBVIOUS
<1>2. Frame(k, a).kind = k /\ Frame(k, a).arg = a
  BY DEF Frame
<1> HIDE DEF t
<1>3. ShapeFacts(s) /\ ShapeFacts(t)
  BY <1>1, ShapeCases
<1>4. LastArg(t) = a
  BY <1>1, <1>2 DEF LastArg
<1>5. Shape(s) = "empty" => Shape(t) = k
  <2>1. ASSUME Shape(s) = "empty" PROVE Len(t) = 1 /\ t[1] = Frame(k, a)
    BY <1>1, <1>3, <2>1 DEF ShapeFacts
  <2>2. QED
    BY <1>2, <1>3, <2>1 DEF ShapeFacts
<1>6. ASSUME Shape(s) \in {"START", "STARTED"}
      PROVE  Len(t) = 2 /\ t[1].kind = Shape(s) /\ t[2].kind = k
  <2>1. Len(s) = 1 /\ s[1].kind = Shape(s)
    BY <1>3, <1>6 DEF ShapeFacts, Kinds
  <2>2. QED
    BY <1>1, <1>2, <2>1
<1>7. QED
  BY <1>3, <1>4, <1>5, <1>6 DEF t, ShapeFacts

\* What a read takes.
LEMMA ShapeTail ==
  ASSUME NEW s \in Seq(Frames), NEW k \in Kinds, Has(s, k), Shape(s) # "other"
  PROVE  /\ Shape(s) \in {k, "START_CANCEL", "STARTED_TERMINAL"}
         /\ Shape(s) = k => Shape(Tail(s)) = "empty" /\ Head(s).arg = LastArg(s)
         /\ Shape(s) = "START_CANCEL" =>
              k = "START" /\ Shape(Tail(s)) = "CANCEL" /\ LastArg(Tail(s)) = LastArg(s)
         /\ Shape(s) = "STARTED_TERMINAL" =>
              k = "STARTED" /\ Shape(Tail(s)) = "TERMINAL" /\ LastArg(Tail(s)) = LastArg(s)
<1> DEFINE t == Tail(s)
<1>1. Len(s) \in Nat /\ Len(s) > 0 /\ Head(s) = s[1] /\ s[1].kind = k
  BY EmptySeq DEF Has
<1>2. /\ Len(t) = Len(s) - 1 /\ \A i \in 1..(Len(s) - 1) : t[i] = s[i + 1]
      /\ t \in Seq(Frames)
  BY <1>1, EmptySeq
<1> HIDE DEF t
<1>3. ShapeFacts(s) /\ ShapeFacts(t)
  BY <1>2, ShapeCases
<1>4. Shape(s) \in {k, "START_CANCEL", "STARTED_TERMINAL"}
  BY <1>1 DEF Shape
<1>5. Shape(s) = k => Shape(t) = "empty" /\ Head(s).arg = LastArg(s)
  <2>1. Shape(s) = k => Len(s) = 1
    BY <1>3 DEF ShapeFacts
  <2>2. QED
    BY <1>1, <1>2, <1>3, <2>1 DEF LastArg, ShapeFacts
<1>6. ASSUME Shape(s) \in {"START_CANCEL", "STARTED_TERMINAL"}
      PROVE  Len(s) = 2 /\ Len(t) = 1 /\ t[1] = s[2]
  BY <1>1, <1>2, <1>3, <1>6 DEF ShapeFacts
<1>7. Shape(s) = "START_CANCEL" => k = "START" /\ Shape(t) = "CANCEL" /\ LastArg(t) = LastArg(s)
  BY <1>1, <1>3, <1>6 DEF LastArg, ShapeFacts, Kinds
<1>8. Shape(s) = "STARTED_TERMINAL" => k = "STARTED" /\ Shape(t) = "TERMINAL" /\ LastArg(t) = LastArg(s)
  BY <1>1, <1>3, <1>6 DEF LastArg, ShapeFacts, Kinds
<1>9. QED
  BY <1>4, <1>5, <1>7, <1>8 DEF t

-----------------------------------------------------------------------------
(* The inductive invariant. *)

Opening == {"begin", "accept", "request", "requestSent", "awaitAccepted", "authorize", "start", "startSent", "cancel"}
Closing == {"reap", "finish", "end"}
Handshake == {"request", "requestSent", "awaitAccepted"}
AfterAccepted == {"authorize", "start", "startSent", "cancel", "read", "duplicate", "failed", "join"}
StartPath == {"AwaitStarted", "Started", "Cancelling"}

\* The driver: its place fixes the state of the session, whether there is an
\* error, a result, a child and a worker.
DriverPlace ==
  /\ drv = "begin" => child = "none"
  /\ child = "none" => drv \in {"begin", "end"}
  /\ result # "none" <=> drv = "end"
  /\ drv \in {"begin", "accept"} => pstate = "AwaitHello"
  /\ drv \in Handshake => pstate = "AwaitAccepted"
  /\ drv = "authorize" => pstate = "Accepted"
  /\ drv \in {"start", "startSent"} => pstate = "AwaitStarted"
  /\ drv = "cancel" => pstate = "CancellingBeforeStart"
  /\ drv = "read" => pstate \in StartPath \cup {"CancellingBeforeStart"}
  /\ drv = "duplicate" => pstate = "Terminal"
  /\ drv \in Opening \cup {"read", "duplicate"} => err = "none"
  /\ drv = "failed" => err # "none"
  /\ drv \in {"join", "reap", "finish"} /\ err = "none" => p_terminal # "none"
  /\ result \in {"Ok", "Failed"} => p_terminal # "none"
  /\ drv \in Closing /\ child # "none" => pclosed
  /\ drv \in {"finish", "end"} /\ child \notin {"none", "exited"} => cleanup = "error"
  /\ drv = "end" /\ child = "none" => worker = "none" /\ err = "none" /\ p_terminal = "none" /\ p_reason = "none"

\* The control worker exists once START is out, and is gone when it was joined.
WorkerPlace ==
  /\ worker # "none" => drv \notin Opening /\ pstate \in StartPath \cup {"Terminal"}
  /\ drv \in Closing => worker \in {"none", "ok", "error"}
  /\ drv = "read" /\ pstate \in StartPath => worker # "none"
  /\ worker \in {"poll", "send"} => p_reason = "none" /\ ~cancel_sent
  /\ worker = "send" => requested
  /\ worker = "write" => p_reason # "none"
  /\ worker = "grace" /\ pstate # "Terminal" => p_reason # "none"
  /\ worker # "none" /\ p_reason # "none" => requested
  /\ pclosed => drv \in Closing \/ worker \in {"ok", "error"}
  /\ pclosed /\ drv = "read" => p_reason # "none"

\* The reasons, and the clock behind a Deadline.
ReasonSound ==
  /\ requested \/ executor = "stored" => reason # "none"
  /\ reason = "Deadline" => due
  /\ p_reason \in {"none", reason}
  /\ c_reason \in {"none", reason} \/ (pclosed /\ c_reason = "User")
  /\ c_reason # "none" => control # "none" /\ (p_reason # "none" \/ pclosed)
  /\ pstate \in {"CancellingBeforeStart", "Cancelling"} => p_reason # "none"
  /\ pstate \in {"AwaitHello", "AwaitAccepted", "Accepted", "AwaitStarted", "Started"} => p_reason = "none"
  /\ p_reason # "none" /\ drv # "cancel" => cancel_sent
  /\ cancel_sent => p_reason # "none"
  /\ rt = "timeout" => due

\* The child's two threads.
ChildPlace ==
  /\ child \in {"none", "boot", "awaitRequest", "awaitStart"} => control = "none"
  /\ child \in {"starting", "run", "stopping"} => control # "none"
  /\ child = "starting" => ~ran
  /\ child \in {"run", "stopping"} => ran
  /\ child = "stopping" => rt # "none"
  /\ control = "poll" => child \in {"starting", "run", "stopping"}
  /\ rt # "none" => ran
  /\ ran => control # "none"
  /\ child \in {"exiting", "starting", "run"} /\ control = "none" => ~ran
  /\ control # "none" => pstate \in StartPath \cup {"Terminal"}

\* What the child has sent and the parent not yet read.
Upward ==
  /\ up \in {"empty", "HELLO", "ACCEPTED", "STARTED", "TERMINAL", "STARTED_TERMINAL"}
  /\ child \in {"none", "boot", "starting"} => up = "empty"
  /\ child = "awaitRequest" => up \in {"empty", "HELLO"}
  /\ child = "awaitStart" => up \in {"empty", "ACCEPTED"}
  /\ child \in {"run", "stopping"} => up \in {"empty", "STARTED"}
  /\ child = "exiting" => up \in {"empty", "TERMINAL", "STARTED_TERMINAL"}
  /\ drv \in {"request", "authorize", "start", "cancel"} => up = "empty"
  /\ drv \in {"requestSent", "awaitAccepted"} => up \in {"empty", "ACCEPTED"}
  /\ drv \in AfterAccepted => up \notin {"HELLO", "ACCEPTED"}
  /\ up = "HELLO" => child \in {"awaitRequest", "exited"} /\ control = "none"
  /\ up = "ACCEPTED" => child \in {"awaitStart", "exited"} /\ control = "none"
  /\ up \in {"STARTED", "STARTED_TERMINAL"} => ran /\ ~started_received
  /\ up \in {"empty", "TERMINAL"} /\ ran => started_received
  /\ started_received => ran
  /\ pstate = "Started" => started_received
  /\ pstate = "AwaitStarted" => ~started_received
  /\ up \in {"TERMINAL", "STARTED_TERMINAL"} => child \in {"exiting", "exited"}
  /\ up = "TERMINAL" /\ ~ran => pstate = "CancellingBeforeStart" /\ upArg = OutcomeOf(p_reason) /\ down = "empty"

\* What the parent has sent and the child not yet read.
Downward ==
  /\ down \in {"empty", "REQUEST", "START", "CANCEL", "START_CANCEL"}
  /\ drv \in {"begin", "accept", "request", "authorize", "start", "cancel"} => down = "empty"
  /\ drv \in {"requestSent", "awaitAccepted"} => down \in {"empty", "REQUEST"}
  /\ drv \in AfterAccepted => down # "REQUEST" /\ child \notin {"none", "boot", "awaitRequest"}
  /\ drv \in Handshake => child \notin {"none", "boot"}
  /\ drv = "request" => child \in {"awaitRequest", "exited"} /\ control = "none"
  /\ drv \in {"authorize", "start", "cancel"} => child \in {"awaitStart", "exited"} /\ control = "none"
  /\ down = "REQUEST" => child \in {"awaitRequest", "exited"} /\ up = "empty" /\ control = "none"
  /\ up = "ACCEPTED" => down = "empty"
  /\ child \in {"none", "boot"} => down = "empty"
  /\ down \in {"START", "START_CANCEL"} =>
       child \in {"awaitStart", "exited"} /\ control = "none" /\ up = "empty" /\ pstate \in {"AwaitStarted", "Cancelling"}
  /\ down = "CANCEL" /\ control = "none" =>
       child \in {"awaitStart", "exited"} /\ up = "empty" /\ pstate = "CancellingBeforeStart"
  /\ down \in {"CANCEL", "START_CANCEL"} => downArg = p_reason /\ p_reason # "none" /\ cancel_sent
  /\ down = "START_CANCEL" \/ (down = "CANCEL" /\ control # "none") => worker \in {"grace", "ok", "error"}
  /\ drv = "startSent" \/ worker \in {"poll", "send", "write"} =>
       down = "START" \/ (down = "empty" /\ control # "none")

\* An outcome says what happened to the user code.
OutcomeSound(o) ==
  /\ o = "Completed" => rt = "ok"
  /\ o = "Failed" => rt = "error"
  /\ o = "Cancelled" => c_reason \in {"User", "Shutdown"} \/ p_reason \in {"User", "Shutdown"}
  /\ o = "Deadline" => due

\* A TERMINAL in flight, and one that was taken.
TerminalSound ==
  /\ up \in {"TERMINAL", "STARTED_TERMINAL"} => upArg \in Outcomes /\ OutcomeSound(upArg)
  /\ p_terminal # "none" <=> pstate = "Terminal"
  /\ p_terminal # "none" => OutcomeSound(p_terminal) /\ child \in {"exiting", "exited"} /\ down \in {"empty", "CANCEL"} /\ up = "empty"
  /\ p_terminal = "Cancelled" => p_reason # "none"
  /\ p_terminal # "none" /\ ran => started_received
  /\ p_terminal # "none" /\ control # "none" => ran /\ worker # "none"
  /\ p_terminal # "none" /\ down = "CANCEL" => control # "none"
  /\ p_terminal # "none" /\ err # "none" => requested /\ cancel_sent

Places == DriverPlace /\ WorkerPlace /\ ReasonSound /\ ChildPlace /\ Upward /\ Downward /\ TerminalSound
Promises == NoFalseProtocolError /\ ResultIsHonest /\ CancelAfterStartWins /\ TerminalAuthoritative
SInv == TypeOK /\ Places /\ Promises

\* The Booleans of the state, which the provers take apart from the rest.
Flags ==
  /\ requested \in BOOLEAN /\ due \in BOOLEAN /\ cancel_sent \in BOOLEAN /\ started_received \in BOOLEAN
  /\ stop \in BOOLEAN /\ terminal_seen \in BOOLEAN /\ pclosed \in BOOLEAN /\ cclosed \in BOOLEAN /\ ran \in BOOLEAN

\* The frames of a direction are frames.
LEMMA Directions ==
  /\ ToChild \subseteq Frames /\ ToParent \subseteq Frames
  /\ \A t \in Seq(ToChild) : t \in Seq(Frames)
  /\ \A t \in Seq(ToParent) : t \in Seq(Frames)
<1>1. ToChild \subseteq Frames
  <2>1. \A k \in {"REQUEST", "START"} : Frame(k, "none") \in Frames
    BY DEF Frames, Frame, Kinds
  <2>2. \A r \in Reasons : Frame("CANCEL", r) \in Frames
    BY DEF Frames, Frame, Kinds
  <2>3. QED
    BY <2>1, <2>2 DEF ToChild
<1>2. ToParent \subseteq Frames
  <2>1. \A k \in {"HELLO", "ACCEPTED", "STARTED"} : Frame(k, "none") \in Frames
    BY DEF Frames, Frame, Kinds
  <2>2. \A o \in Outcomes : Frame("TERMINAL", o) \in Frames
    BY DEF Frames, Frame, Kinds
  <2>3. QED
    BY <2>1, <2>2 DEF ToParent
<1>3. QED
  BY <1>1, <1>2

\* A step that leaves a channel alone leaves its shape alone.
LEMMA SameChannels ==
  /\ UNCHANGED to_child => UNCHANGED <<down, downArg>>
  /\ UNCHANGED to_parent => UNCHANGED <<up, upArg>>
BY DEF down, downArg, up, upArg

\* The parent writes a frame.
LEMMA SendDown ==
  ASSUME TypeOK, NEW k \in {"REQUEST", "START", "CANCEL"}, NEW a, Frame(k, a) \in ToChild,
         to_child' = Append(to_child, Frame(k, a))
  PROVE  /\ to_child' \in Seq(ToChild) /\ downArg' = a
         /\ down = "empty" => down' = k
         /\ down = "START" /\ k = "CANCEL" => down' = "START_CANCEL"
<1>1. to_child \in Seq(ToChild) /\ to_child \in Seq(Frames) /\ Frame(k, a) \in Frames /\ k \in Kinds
  BY Directions DEF TypeOK, Kinds
<1>2. QED
  BY <1>1, ShapeAppend DEF down, downArg

\* The child writes a frame.
LEMMA SendUp ==
  ASSUME TypeOK, NEW k \in {"HELLO", "ACCEPTED", "STARTED", "TERMINAL"}, NEW a, Frame(k, a) \in ToParent,
         to_parent' = Append(to_parent, Frame(k, a))
  PROVE  /\ to_parent' \in Seq(ToParent) /\ upArg' = a
         /\ up = "empty" => up' = k
         /\ up = "STARTED" /\ k = "TERMINAL" => up' = "STARTED_TERMINAL"
<1>1. to_parent \in Seq(ToParent) /\ to_parent \in Seq(Frames) /\ Frame(k, a) \in Frames /\ k \in Kinds
  BY Directions DEF TypeOK, Kinds
<1>2. QED
  BY <1>1, ShapeAppend DEF up, upArg

\* The child reads a frame.
LEMMA TakeDown ==
  ASSUME TypeOK, Downward, NEW k \in {"REQUEST", "START", "CANCEL"}, Has(to_child, k), to_child' = Tail(to_child)
  PROVE  /\ to_child' \in Seq(ToChild)
         /\ down \in {k, "START_CANCEL"}
         /\ down = k => down' = "empty" /\ Head(to_child).arg = downArg
         /\ down = "START_CANCEL" => k = "START" /\ down' = "CANCEL" /\ downArg' = downArg
<1>1. to_child \in Seq(ToChild) /\ to_child \in Seq(Frames) /\ k \in Kinds /\ to_child # <<>>
  BY Directions DEF TypeOK, Kinds, Has
<1>2. Shape(to_child) \notin {"other", "STARTED_TERMINAL"}
  BY DEF Downward, down
<1>3. QED
  BY <1>1, <1>2, ShapeTail DEF down, downArg

\* The parent reads a frame.
LEMMA TakeUp ==
  ASSUME TypeOK, Upward, NEW k \in {"HELLO", "ACCEPTED", "STARTED", "TERMINAL"}, Has(to_parent, k),
         to_parent' = Tail(to_parent)
  PROVE  /\ to_parent' \in Seq(ToParent)
         /\ up \in {k, "STARTED_TERMINAL"}
         /\ up = k => up' = "empty" /\ Head(to_parent).arg = upArg
         /\ up = "STARTED_TERMINAL" => k = "STARTED" /\ up' = "TERMINAL" /\ upArg' = upArg
<1>1. to_parent \in Seq(ToParent) /\ to_parent \in Seq(Frames) /\ k \in Kinds /\ to_parent # <<>>
  BY Directions DEF TypeOK, Kinds, Has
<1>2. Shape(to_parent) \notin {"other", "START_CANCEL"}
  BY DEF Upward, up
<1>3. QED
  BY <1>1, <1>2, ShapeTail DEF up, upArg

\* The session starts in its invariant.
LEMMA SInitInv == Init => SInv
<1> SUFFICES ASSUME Init PROVE SInv
  OBVIOUS
<1>1. to_child = <<>> /\ to_parent = <<>>
  BY DEF Init
<1>2. to_child \in Seq(ToChild) /\ to_parent \in Seq(ToParent) /\ down = "empty" /\ up = "empty"
  BY <1>1 DEF down, up, Shape
<1>3. TypeOK
  <2>1. Flags
    BY DEF Init, Flags
  <2>2. QED
    BY <1>2, <2>1, SessionAssumption DEF Init, TypeOK, Flags
<1>4. Places
  BY <1>2 DEF Init, Places, DriverPlace, WorkerPlace, ReasonSound, ChildPlace, Upward, Downward,
     TerminalSound, Opening, Closing, Handshake, AfterAccepted, StartPath
<1>5. Promises
  BY DEF Init, Promises, NoFalseProtocolError, ResultIsHonest, CancelAfterStartWins,
     TerminalAuthoritative
<1>6. QED
  BY <1>3, <1>4, <1>5 DEF SInv

\* The executor and the clock.
LEMMA ExecutorInv ==
  ASSUME SInv,
         \/ (\E r \in CancelReasons : ExecutorStore(r)) \/ ExecutorRaise \/ DeadlinePasses
  PROVE  SInv'
<1> USE SessionAssumption DEF SInv, ctx, session, drvv, workerv, link, childv, TypeOK, Flags,
   Reasons, Outcomes, Places, DriverPlace, WorkerPlace, ReasonSound, ChildPlace, Upward, Downward,
   TerminalSound, OutcomeSound, Opening, Closing, Handshake, AfterAccepted, StartPath, Promises,
   NoFalseProtocolError, ResultIsHonest, CancelAfterStartWins, TerminalAuthoritative,
   StatusDisagrees
<1>1. ASSUME NEW r \in CancelReasons, ExecutorStore(r) PROVE SInv'
  <2>1. UNCHANGED <<down, downArg, up, upArg, to_child, to_parent>>
    BY <1>1, SameChannels DEF ExecutorStore, FirstReason
  <2>2. Flags'
    BY <1>1 DEF ExecutorStore, FirstReason
  <2>3. QED
    BY <1>1, <2>1, <2>2 DEF ExecutorStore, FirstReason
<1>2. CASE ExecutorRaise
  <2>1. UNCHANGED <<down, downArg, up, upArg, to_child, to_parent>>
    BY <1>2, SameChannels DEF ExecutorRaise
  <2>2. Flags'
    BY <1>2 DEF ExecutorRaise
  <2>3. QED
    BY <1>2, <2>1, <2>2 DEF ExecutorRaise
<1>3. CASE DeadlinePasses
  <2>1. UNCHANGED <<down, downArg, up, upArg, to_child, to_parent>>
    BY <1>3, SameChannels DEF DeadlinePasses
  <2>2. Flags'
    BY <1>3 DEF DeadlinePasses
  <2>3. QED
    BY <1>3, <2>1, <2>2 DEF DeadlinePasses
<1>4. QED
  BY <1>1, <1>2, <1>3

\* The driver before and during the handshake.
LEMMA OpeningInv ==
  ASSUME SInv,
         \/ DrvBegin \/ DrvTakeFails \/ DrvRejectPeer \/ DrvHello \/ DrvAcceptFails \/ DrvRequest \/ DrvRequestSent
         \/ DrvRequestFails \/ DrvAccepted \/ DrvAcceptedFails
  PROVE  SInv'
<1> USE SessionAssumption DEF SInv, ctx, session, drvv, workerv, link, childv, TypeOK, Flags,
   Reasons, Outcomes, Places, DriverPlace, WorkerPlace, ReasonSound, ChildPlace, Upward, Downward,
   TerminalSound, OutcomeSound, Opening, Closing, Handshake, AfterAccepted, StartPath, Promises,
   NoFalseProtocolError, ResultIsHonest, CancelAfterStartWins, TerminalAuthoritative,
   StatusDisagrees
<1>0. CASE DrvTakeFails
  <2>1. UNCHANGED <<down, downArg, up, upArg, to_child, to_parent>>
    BY <1>0, SameChannels DEF DrvTakeFails, ChildGone
  <2>2. Flags'
    <3>1. Flags
      OBVIOUS
    <3> HIDE DEF SInv
    <3>2. UNCHANGED <<requested, due, cancel_sent, started_received, stop, terminal_seen, ran>>
      BY <1>0 DEF DrvTakeFails
    <3>3. (cclosed' = cclosed \/ cclosed' = TRUE) /\ pclosed' = TRUE
      BY <1>0 DEF DrvTakeFails, ChildGone
    <3>4. QED
      BY <3>1, <3>2, <3>3
  <2>3. QED
    BY <1>0, <2>1, <2>2 DEF DrvTakeFails, ChildGone
<1>1. CASE DrvBegin
  <2>1. UNCHANGED <<down, downArg, up, upArg, to_child, to_parent>>
    BY <1>1, SameChannels DEF DrvBegin, SpawnSupervisorChild, Request, FirstReason
  <2>2. Flags'
    BY <1>1 DEF DrvBegin, SpawnSupervisorChild, Request, FirstReason
  <2>3. QED
    BY <1>1, <2>1, <2>2 DEF DrvBegin, SpawnSupervisorChild, Request, FirstReason
<1>2. CASE DrvRejectPeer
  <2>1. UNCHANGED <<down, downArg, up, upArg, to_child, to_parent>>
    BY <1>2, SameChannels DEF DrvRejectPeer
  <2>2. Flags'
    BY <1>2 DEF DrvRejectPeer
  <2>3. QED
    BY <1>2, <2>1, <2>2 DEF DrvRejectPeer
<1>3. CASE DrvHello
  <2>1. /\ UNCHANGED <<down, downArg, to_child>> /\ to_parent' \in Seq(ToParent)
        /\ up = "HELLO" /\ up' = "empty" /\ Head(to_parent).arg = upArg
    <3>1. UNCHANGED to_child /\ Has(to_parent, "HELLO") /\ to_parent' = Tail(to_parent)
      BY <1>3 DEF DrvHello
    <3>2. QED
      BY <3>1, SameChannels, TakeUp DEF Places
  <2>2. Flags'
    BY <1>3 DEF DrvHello
  <2>3. TypeOK'
    BY <1>3, <2>1, <2>2 DEF DrvHello
  <2>4. Places'
    BY <1>3, <2>1, <2>2 DEF DrvHello
  <2>5. Promises'
    BY <1>3, <2>1, <2>2 DEF DrvHello
  <2>6. QED
    BY <2>3, <2>4, <2>5
<1>4. CASE DrvAcceptFails
  <2>1. UNCHANGED <<down, downArg, up, upArg, to_child, to_parent>>
    BY <1>4, SameChannels DEF DrvAcceptFails, Fail, Request, FirstReason
  <2>2. Flags'
    BY <1>4 DEF DrvAcceptFails, Fail, Request, FirstReason
  <2>3. QED
    BY <1>4, <2>1, <2>2 DEF DrvAcceptFails, Fail, Request, FirstReason
<1>5. CASE DrvRequest
  <2>1. /\ UNCHANGED <<up, upArg, to_parent>> /\ to_child' \in Seq(ToChild)
        /\ down' = "REQUEST" /\ downArg' = "none"
    <3>1. UNCHANGED to_parent /\ to_child' = Append(to_child, Frame("REQUEST", "none")) /\ down = "empty"
      BY <1>5 DEF DrvRequest, Write, Places, Downward
    <3>2. Frame("REQUEST", "none") \in ToChild
      BY DEF ToChild
    <3>3. QED
      BY <3>1, <3>2, SameChannels, SendDown
  <2>2. Flags'
    BY <1>5 DEF DrvRequest, Write
  <2>3. TypeOK'
    BY <1>5, <2>1, <2>2 DEF DrvRequest, Write
  <2>4. Places'
    BY <1>5, <2>1, <2>2 DEF DrvRequest, Write
  <2>5. Promises'
    BY <1>5, <2>1, <2>2 DEF DrvRequest, Write
  <2>6. QED
    BY <2>3, <2>4, <2>5
<1>6. CASE DrvRequestSent
  <2>1. UNCHANGED <<down, downArg, up, upArg, to_child, to_parent>>
    BY <1>6, SameChannels DEF DrvRequestSent
  <2>2. Flags'
    BY <1>6 DEF DrvRequestSent
  <2>3. QED
    BY <1>6, <2>1, <2>2 DEF DrvRequestSent
<1>7. CASE DrvRequestFails
  <2>1. UNCHANGED <<down, downArg, up, upArg, to_child, to_parent>>
    BY <1>7, SameChannels DEF DrvRequestFails, WriteFails, Fail, TimedOutRequest, Request,
       FirstReason
  <2>2. Flags'
    BY <1>7 DEF DrvRequestFails, WriteFails, Fail, TimedOutRequest, Request, FirstReason
  <2>3. QED
    BY <1>7, <2>1, <2>2 DEF DrvRequestFails, WriteFails, Fail, TimedOutRequest, Request, FirstReason
<1>8. CASE DrvAccepted
  <2>1. /\ UNCHANGED <<down, downArg, to_child>> /\ to_parent' \in Seq(ToParent)
        /\ up = "ACCEPTED" /\ up' = "empty" /\ Head(to_parent).arg = upArg
    <3>1. UNCHANGED to_child /\ Has(to_parent, "ACCEPTED") /\ to_parent' = Tail(to_parent)
      BY <1>8 DEF DrvAccepted
    <3>2. QED
      BY <3>1, SameChannels, TakeUp DEF Places
  <2>2. Flags'
    BY <1>8 DEF DrvAccepted
  <2>3. TypeOK'
    BY <1>8, <2>1, <2>2 DEF DrvAccepted
  <2>4. Places'
    BY <1>8, <2>1, <2>2 DEF DrvAccepted
  <2>5. Promises'
    BY <1>8, <2>1, <2>2 DEF DrvAccepted
  <2>6. QED
    BY <2>3, <2>4, <2>5
<1>9. CASE DrvAcceptedFails
  <2>1. UNCHANGED <<down, downArg, up, upArg, to_child, to_parent>>
    BY <1>9, SameChannels DEF DrvAcceptedFails, Fail, TimedOutRequest, Request, FirstReason
  <2>2. Flags'
    BY <1>9 DEF DrvAcceptedFails, Fail, TimedOutRequest, Request, FirstReason
  <2>3. QED
    BY <1>9, <2>1, <2>2 DEF DrvAcceptedFails, Fail, TimedOutRequest, Request, FirstReason
<1>10. QED
  BY <1>0, <1>1, <1>2, <1>3, <1>4, <1>5, <1>6, <1>7, <1>8, <1>9

\* The driver at the START barrier.
LEMMA StartInv ==
  ASSUME SInv,
         \/ DrvAuthorize \/ DrvStart \/ DrvStartFails \/ DrvSpawnWorker \/ DrvSpawnWorkerFails
         \/ DrvCancel
  PROVE  SInv'
<1> USE SessionAssumption DEF SInv, ctx, session, drvv, workerv, link, childv, TypeOK, Flags,
   Reasons, Outcomes, Places, DriverPlace, WorkerPlace, ReasonSound, ChildPlace, Upward, Downward,
   TerminalSound, OutcomeSound, Opening, Closing, Handshake, AfterAccepted, StartPath, Promises,
   NoFalseProtocolError, ResultIsHonest, CancelAfterStartWins, TerminalAuthoritative,
   StatusDisagrees
<1>1. CASE DrvAuthorize
  <2>1. UNCHANGED <<down, downArg, up, upArg, to_child, to_parent>>
    BY <1>1, SameChannels DEF DrvAuthorize, DueReason, Request, FirstReason
  <2>2. Flags'
    BY <1>1 DEF DrvAuthorize, DueReason, Request, FirstReason
  <2>3. QED
    BY <1>1, <2>1, <2>2 DEF DrvAuthorize, DueReason, Request, FirstReason
<1>2. CASE DrvStart
  <2>1. /\ UNCHANGED <<up, upArg, to_parent>> /\ to_child' \in Seq(ToChild)
        /\ down' = "START" /\ downArg' = "none"
    <3>1. UNCHANGED to_parent /\ to_child' = Append(to_child, Frame("START", "none")) /\ down = "empty"
      BY <1>2 DEF DrvStart, Write, Places, Downward
    <3>2. Frame("START", "none") \in ToChild
      BY DEF ToChild
    <3>3. QED
      BY <3>1, <3>2, SameChannels, SendDown
  <2>2. Flags'
    BY <1>2 DEF DrvStart, Write
  <2>3. TypeOK'
    BY <1>2, <2>1, <2>2 DEF DrvStart, Write
  <2>4. Places'
    BY <1>2, <2>1, <2>2 DEF DrvStart, Write
  <2>5. Promises'
    BY <1>2, <2>1, <2>2 DEF DrvStart, Write
  <2>6. QED
    BY <2>3, <2>4, <2>5
<1>3. CASE DrvStartFails
  <2>1. UNCHANGED <<down, downArg, up, upArg, to_child, to_parent>>
    BY <1>3, SameChannels DEF DrvStartFails, WriteFails, Fail, TimedOutRequest, Request, FirstReason
  <2>2. Flags'
    BY <1>3 DEF DrvStartFails, WriteFails, Fail, TimedOutRequest, Request, FirstReason
  <2>3. QED
    BY <1>3, <2>1, <2>2 DEF DrvStartFails, WriteFails, Fail, TimedOutRequest, Request, FirstReason
<1>4. CASE DrvSpawnWorker
  <2>1. UNCHANGED <<down, downArg, up, upArg, to_child, to_parent>>
    BY <1>4, SameChannels DEF DrvSpawnWorker
  <2>2. Flags'
    BY <1>4 DEF DrvSpawnWorker
  <2>3. QED
    BY <1>4, <2>1, <2>2 DEF DrvSpawnWorker
<1>5. CASE DrvSpawnWorkerFails
  <2>1. UNCHANGED <<down, downArg, up, upArg, to_child, to_parent>>
    BY <1>5, SameChannels DEF DrvSpawnWorkerFails, Fail
  <2>2. Flags'
    BY <1>5 DEF DrvSpawnWorkerFails, Fail
  <2>3. QED
    BY <1>5, <2>1, <2>2 DEF DrvSpawnWorkerFails, Fail
<1>6. CASE DrvCancel
  <2>1. /\ UNCHANGED <<up, upArg, to_parent>> /\ to_child' \in Seq(ToChild)
        /\ \/ drv' = "read" /\ down' = "CANCEL" /\ downArg' = p_reason
           \/ drv' = "reap" /\ UNCHANGED <<to_child, down, downArg>>
    <3>1. UNCHANGED to_parent /\ down = "empty" /\ p_reason \in Reasons
      BY <1>6 DEF DrvCancel, TypeOK, Places, DriverPlace, ReasonSound, Downward
    <3>2. Frame("CANCEL", p_reason) \in ToChild
      BY <3>1 DEF ToChild
    <3>3. CASE to_child' = Append(to_child, Frame("CANCEL", p_reason)) /\ drv' = "read"
      BY <3>1, <3>2, <3>3, SameChannels, SendDown
    <3>4. CASE UNCHANGED to_child /\ drv' = "reap"
      BY <3>1, <3>4, SameChannels DEF TypeOK
    <3>5. QED
      BY <1>6, <3>3, <3>4 DEF DrvCancel
  <2>2. Flags'
    BY <1>6 DEF DrvCancel
  <2>3. TypeOK'
    BY <1>6, <2>1, <2>2 DEF DrvCancel
  <2>4. Places'
    BY <1>6, <2>1, <2>2 DEF DrvCancel
  <2>5. Promises'
    BY <1>6, <2>1, <2>2 DEF DrvCancel
  <2>6. QED
    BY <2>3, <2>4, <2>5
<1>7. QED
  BY <1>1, <1>2, <1>3, <1>4, <1>5, <1>6

\* The driver reads STARTED and TERMINAL.
LEMMA ReadInv ==
  ASSUME SInv,
         \/ DrvStarted \/ DrvTerminal \/ DrvReadFails \/ DrvDuplicateEnds \/ DrvDuplicateReset
         \/ DrvFailed \/ DrvJoined
  PROVE  SInv'
<1> USE SessionAssumption DEF SInv, ctx, session, drvv, workerv, link, childv, TypeOK, Flags,
   Reasons, Outcomes, Places, DriverPlace, WorkerPlace, ReasonSound, ChildPlace, Upward, Downward,
   TerminalSound, OutcomeSound, Opening, Closing, Handshake, AfterAccepted, StartPath, Promises,
   NoFalseProtocolError, ResultIsHonest, CancelAfterStartWins, TerminalAuthoritative,
   StatusDisagrees
<1>1. CASE DrvStarted
  <2>1. /\ UNCHANGED <<down, downArg, to_child>> /\ to_parent' \in Seq(ToParent)
        /\ \/ up = "STARTED" /\ up' = "empty"
           \/ up = "STARTED_TERMINAL" /\ up' = "TERMINAL" /\ upArg' = upArg
    <3>1. UNCHANGED to_child /\ Has(to_parent, "STARTED") /\ to_parent' = Tail(to_parent)
      BY <1>1 DEF DrvStarted, TakesStarted
    <3>2. QED
      BY <3>1, SameChannels, TakeUp DEF Places
  <2>2. Flags'
    BY <1>1 DEF DrvStarted, TakesStarted
  <2>3. TypeOK'
    BY <1>1, <2>1, <2>2 DEF DrvStarted, TakesStarted
  <2>4. Places'
    BY <1>1, <2>1, <2>2 DEF DrvStarted, TakesStarted
  <2>5. Promises'
    BY <1>1, <2>1, <2>2 DEF DrvStarted, TakesStarted
  <2>6. QED
    BY <2>3, <2>4, <2>5
<1>2. CASE DrvTerminal
  <2>1. /\ UNCHANGED <<down, downArg, to_child>> /\ to_parent' \in Seq(ToParent)
        /\ up = "TERMINAL" /\ up' = "empty" /\ Head(to_parent).arg = upArg
    <3>1. UNCHANGED to_child /\ Has(to_parent, "TERMINAL") /\ to_parent' = Tail(to_parent)
      BY <1>2 DEF DrvTerminal, TakesTerminal
    <3>2. QED
      BY <3>1, SameChannels, TakeUp DEF Places
  <2>2. Flags'
    BY <1>2 DEF DrvTerminal, TakesTerminal
  <2>3. TypeOK'
    BY <1>2, <2>1, <2>2 DEF DrvTerminal, TakesTerminal
  <2>4. Places'
    BY <1>2, <2>1, <2>2 DEF DrvTerminal, TakesTerminal
  <2>5. Promises'
    BY <1>2, <2>1, <2>2 DEF DrvTerminal, TakesTerminal
  <2>6. QED
    BY <2>3, <2>4, <2>5
<1>3. CASE DrvReadFails
  <2>1. UNCHANGED <<down, downArg, up, upArg, to_child, to_parent>>
    BY <1>3, SameChannels DEF DrvReadFails, TimedOutRequest, Request, FirstReason
  <2>2. Flags'
    BY <1>3 DEF DrvReadFails, TimedOutRequest, Request, FirstReason
  <2>3. QED
    BY <1>3, <2>1, <2>2 DEF DrvReadFails, TimedOutRequest, Request, FirstReason
<1>4. CASE DrvDuplicateEnds
  <2>1. UNCHANGED <<down, downArg, up, upArg, to_child, to_parent>>
    BY <1>4, SameChannels DEF DrvDuplicateEnds
  <2>2. Flags'
    BY <1>4 DEF DrvDuplicateEnds
  <2>3. QED
    BY <1>4, <2>1, <2>2 DEF DrvDuplicateEnds
<1>5. CASE DrvDuplicateReset
  <2>1. UNCHANGED <<down, downArg, up, upArg, to_child, to_parent>> /\ down # "empty"
    <3>1. to_child \in Seq(Frames)
      BY Directions DEF TypeOK
    <3>2. QED
      BY <1>5, <3>1, SameChannels, ShapeEmpty DEF DrvDuplicateReset, down
  <2>2. Flags'
    BY <1>5 DEF DrvDuplicateReset
  <2>3. TypeOK'
    BY <1>5, <2>1, <2>2 DEF DrvDuplicateReset
  <2>4. Places'
    BY <1>5, <2>1, <2>2 DEF DrvDuplicateReset
  <2>5. Promises'
    BY <1>5, <2>1, <2>2 DEF DrvDuplicateReset
  <2>6. QED
    BY <2>3, <2>4, <2>5
<1>6. CASE DrvFailed
  <2>1. UNCHANGED <<down, downArg, up, upArg, to_child, to_parent>>
    BY <1>6, SameChannels DEF DrvFailed
  <2>2. Flags'
    BY <1>6 DEF DrvFailed
  <2>3. QED
    BY <1>6, <2>1, <2>2 DEF DrvFailed
<1>7. CASE DrvJoined
  <2>1. UNCHANGED <<down, downArg, up, upArg, to_child, to_parent>>
    BY <1>7, SameChannels DEF DrvJoined
  <2>2. Flags'
    BY <1>7 DEF DrvJoined
  <2>3. QED
    BY <1>7, <2>1, <2>2 DEF DrvJoined
<1>8. QED
  BY <1>1, <1>2, <1>3, <1>4, <1>5, <1>6, <1>7

\* The control worker.
LEMMA WorkerInv ==
  ASSUME SInv,
         \/ Worker
  PROVE  SInv'
<1> USE SessionAssumption DEF SInv, ctx, session, drvv, workerv, link, childv, TypeOK, Flags,
   Reasons, Outcomes, Places, DriverPlace, WorkerPlace, ReasonSound, ChildPlace, Upward, Downward,
   TerminalSound, OutcomeSound, Opening, Closing, Handshake, AfterAccepted, StartPath, Promises,
   NoFalseProtocolError, ResultIsHonest, CancelAfterStartWins, TerminalAuthoritative,
   StatusDisagrees
<1>1. CASE WorkerStops
  <2>1. UNCHANGED <<down, downArg, up, upArg, to_child, to_parent>>
    BY <1>1, SameChannels DEF WorkerStops
  <2>2. Flags'
    BY <1>1 DEF WorkerStops
  <2>3. QED
    BY <1>1, <2>1, <2>2 DEF WorkerStops
<1>2. CASE WorkerNotices
  <2>1. UNCHANGED <<down, downArg, up, upArg, to_child, to_parent>>
    BY <1>2, SameChannels DEF WorkerNotices, Request, FirstReason
  <2>2. Flags'
    BY <1>2 DEF WorkerNotices, Request, FirstReason
  <2>3. QED
    BY <1>2, <2>1, <2>2 DEF WorkerNotices, Request, FirstReason
<1>3. CASE WorkerSendCancel
  <2>1. UNCHANGED <<down, downArg, up, upArg, to_child, to_parent>>
    BY <1>3, SameChannels DEF WorkerSendCancel, RecordCancel
  <2>2. Flags'
    BY <1>3 DEF WorkerSendCancel, RecordCancel
  <2>3. QED
    BY <1>3, <2>1, <2>2 DEF WorkerSendCancel, RecordCancel
<1>4. CASE WorkerWrites
  <2>1. /\ UNCHANGED <<up, upArg, to_parent>> /\ to_child' \in Seq(ToChild)
        /\ \/ /\ worker' = "grace" /\ downArg' = p_reason
              /\ \/ down = "START" /\ down' = "START_CANCEL"
                 \/ down = "empty" /\ control # "none" /\ down' = "CANCEL"
           \/ worker' = "error" /\ UNCHANGED <<to_child, down, downArg>>
    <3>1. UNCHANGED to_parent /\ p_reason \in Reasons /\ (down = "START" \/ (down = "empty" /\ control # "none"))
      BY <1>4 DEF WorkerWrites, TypeOK, Places, WorkerPlace, Downward
    <3>2. Frame("CANCEL", p_reason) \in ToChild
      BY <3>1 DEF ToChild
    <3>3. CASE to_child' = Append(to_child, Frame("CANCEL", p_reason)) /\ worker' = "grace"
      BY <3>1, <3>2, <3>3, SameChannels, SendDown
    <3>4. CASE UNCHANGED to_child /\ worker' = "error"
      BY <3>1, <3>4, SameChannels DEF TypeOK
    <3>5. QED
      BY <1>4, <3>3, <3>4 DEF WorkerWrites
  <2>2. Flags'
    BY <1>4 DEF WorkerWrites
  <2>3. TypeOK'
    BY <1>4, <2>1, <2>2 DEF WorkerWrites
  <2>4. Places'
    BY <1>4, <2>1, <2>2 DEF WorkerWrites
  <2>5. Promises'
    BY <1>4, <2>1, <2>2 DEF WorkerWrites
  <2>6. QED
    BY <2>3, <2>4, <2>5
<1>5. CASE WorkerGraceEnds
  <2>1. UNCHANGED <<down, downArg, up, upArg, to_child, to_parent>>
    BY <1>5, SameChannels DEF WorkerGraceEnds
  <2>2. Flags'
    BY <1>5 DEF WorkerGraceEnds
  <2>3. QED
    BY <1>5, <2>1, <2>2 DEF WorkerGraceEnds
<1>6. QED
  BY <1>1, <1>2, <1>3, <1>4, <1>5 DEF Worker

\* The main thread of the child.
LEMMA ChildInv ==
  ASSUME SInv,
         \/ Child \/ ChildFails \/ ChildCrash
  PROVE  SInv'
<1> USE SessionAssumption DEF SInv, ctx, session, drvv, workerv, link, childv, TypeOK, Flags,
   Reasons, Outcomes, Places, DriverPlace, WorkerPlace, ReasonSound, ChildPlace, Upward, Downward,
   TerminalSound, OutcomeSound, Opening, Closing, Handshake, AfterAccepted, StartPath, Promises,
   NoFalseProtocolError, ResultIsHonest, CancelAfterStartWins, TerminalAuthoritative,
   StatusDisagrees
<1>1. CASE ChildHello
  <2>1. /\ UNCHANGED <<down, downArg, to_child>> /\ to_parent' \in Seq(ToParent)
        /\ up = "empty" /\ up' = "HELLO"
    <3>1. UNCHANGED to_child /\ to_parent' = Append(to_parent, Frame("HELLO", "none")) /\ up = "empty"
      BY <1>1 DEF ChildHello, Places, Upward
    <3>2. Frame("HELLO", "none") \in ToParent
      BY DEF ToParent
    <3>3. QED
      BY <3>1, <3>2, SameChannels, SendUp
  <2>2. Flags'
    BY <1>1 DEF ChildHello
  <2>3. TypeOK'
    BY <1>1, <2>1, <2>2 DEF ChildHello
  <2>4. Places'
    BY <1>1, <2>1, <2>2 DEF ChildHello
  <2>5. Promises'
    BY <1>1, <2>1, <2>2 DEF ChildHello
  <2>6. QED
    BY <2>3, <2>4, <2>5
<1>2. CASE ChildRequest
  <2>1. /\ to_child' \in Seq(ToChild) /\ to_parent' \in Seq(ToParent)
        /\ down = "REQUEST" /\ down' = "empty" /\ up = "empty" /\ up' = "ACCEPTED"
    <3>1. /\ Has(to_child, "REQUEST") /\ to_child' = Tail(to_child)
          /\ to_parent' = Append(to_parent, Frame("ACCEPTED", "none"))
      BY <1>2 DEF ChildRequest
    <3>2. to_child' \in Seq(ToChild) /\ down = "REQUEST" /\ down' = "empty"
      BY <3>1, TakeDown DEF Places
    <3>3. up = "empty" /\ Frame("ACCEPTED", "none") \in ToParent
      BY <3>2 DEF ToParent, Places, Downward
    <3>4. QED
      BY <3>1, <3>2, <3>3, SendUp
  <2>2. Flags'
    BY <1>2 DEF ChildRequest
  <2>3. TypeOK'
    BY <1>2, <2>1, <2>2 DEF ChildRequest
  <2>4. Places'
    BY <1>2, <2>1, <2>2 DEF ChildRequest
  <2>5. Promises'
    BY <1>2, <2>1, <2>2 DEF ChildRequest
  <2>6. QED
    BY <2>3, <2>4, <2>5
<1>3. CASE ChildCancelled
  <2>1. /\ to_child' \in Seq(ToChild) /\ to_parent' \in Seq(ToParent)
        /\ down = "CANCEL" /\ down' = "empty" /\ up = "empty" /\ up' = "TERMINAL"
        /\ upArg' = OutcomeOf(p_reason) /\ OutcomeOf(p_reason) \in Outcomes
    <3>1. /\ Has(to_child, "CANCEL") /\ to_child' = Tail(to_child)
          /\ to_parent' = Append(to_parent, Frame("TERMINAL", OutcomeOf(Head(to_child).arg)))
          /\ child = "awaitStart"
      BY <1>3 DEF ChildCancelled
    <3>2. to_child' \in Seq(ToChild) /\ down = "CANCEL" /\ down' = "empty" /\ Head(to_child).arg = downArg
      BY <3>1, TakeDown DEF Places
    <3>3. up = "empty" /\ downArg = p_reason
      BY <3>1, <3>2 DEF Places, Downward, ChildPlace
    <3>4. OutcomeOf(p_reason) \in Outcomes /\ Frame("TERMINAL", OutcomeOf(p_reason)) \in ToParent
      BY DEF OutcomeOf, Outcomes, ToParent
    <3>5. QED
      BY <3>1, <3>2, <3>3, <3>4, SendUp
  <2>2. Flags'
    BY <1>3 DEF ChildCancelled
  <2>3. TypeOK'
    BY <1>3, <2>1, <2>2 DEF ChildCancelled, OutcomeOf
  <2>4. Places'
    BY <1>3, <2>1, <2>2 DEF ChildCancelled, OutcomeOf
  <2>5. Promises'
    BY <1>3, <2>1, <2>2 DEF ChildCancelled, OutcomeOf
  <2>6. QED
    BY <2>3, <2>4, <2>5
<1>4. CASE ChildStart
  <2>1. /\ UNCHANGED <<up, upArg, to_parent>> /\ to_child' \in Seq(ToChild)
        /\ \/ down = "START" /\ down' = "empty"
           \/ down = "START_CANCEL" /\ down' = "CANCEL" /\ downArg' = downArg
    <3>1. UNCHANGED to_parent /\ Has(to_child, "START") /\ to_child' = Tail(to_child)
      BY <1>4 DEF ChildStart
    <3>2. QED
      BY <3>1, SameChannels, TakeDown DEF Places
  <2>2. Flags'
    BY <1>4 DEF ChildStart
  <2>3. TypeOK'
    BY <1>4, <2>1, <2>2 DEF ChildStart
  <2>4. Places'
    BY <1>4, <2>1, <2>2 DEF ChildStart
  <2>5. Promises'
    BY <1>4, <2>1, <2>2 DEF ChildStart
  <2>6. QED
    BY <2>3, <2>4, <2>5
<1>5. CASE ChildStarted
  <2>1. /\ UNCHANGED <<down, downArg, to_child>> /\ to_parent' \in Seq(ToParent)
        /\ up = "empty" /\ up' = "STARTED"
    <3>1. UNCHANGED to_child /\ to_parent' = Append(to_parent, Frame("STARTED", "none")) /\ up = "empty"
      BY <1>5 DEF ChildStarted, Places, Upward
    <3>2. Frame("STARTED", "none") \in ToParent
      BY DEF ToParent
    <3>3. QED
      BY <3>1, <3>2, SameChannels, SendUp
  <2>2. Flags'
    BY <1>5 DEF ChildStarted
  <2>3. TypeOK'
    BY <1>5, <2>1, <2>2 DEF ChildStarted
  <2>4. Places'
    BY <1>5, <2>1, <2>2 DEF ChildStarted
  <2>5. Promises'
    BY <1>5, <2>1, <2>2 DEF ChildStarted
  <2>6. QED
    BY <2>3, <2>4, <2>5
<1>6. CASE ChildRunEnds
  <2>1. UNCHANGED <<down, downArg, up, upArg, to_child, to_parent>>
    BY <1>6, SameChannels DEF ChildRunEnds
  <2>2. Flags'
    BY <1>6 DEF ChildRunEnds
  <2>3. QED
    BY <1>6, <2>1, <2>2 DEF ChildRunEnds
<1>7. CASE ChildTerminal
  <2>1. /\ UNCHANGED <<down, downArg, to_child>> /\ to_parent' \in Seq(ToParent)
        /\ upArg' = ChildOutcome /\ ChildOutcome \in Outcomes
        /\ \/ up = "empty" /\ up' = "TERMINAL"
           \/ up = "STARTED" /\ up' = "STARTED_TERMINAL"
    <3>1. /\ UNCHANGED to_child /\ child = "stopping"
          /\ to_parent' = Append(to_parent, Frame("TERMINAL", ChildOutcome))
      BY <1>7 DEF ChildTerminal
    <3>2. up \in {"empty", "STARTED"}
      BY <3>1 DEF Places, Upward
    <3>3. ChildOutcome \in Outcomes /\ Frame("TERMINAL", ChildOutcome) \in ToParent
      BY DEF ChildOutcome, OutcomeOf, Outcomes, ToParent
    <3>4. QED
      BY <3>1, <3>2, <3>3, SameChannels, SendUp
  <2>2. Flags'
    BY <1>7 DEF ChildTerminal
  <2>3. TypeOK'
    BY <1>7, <2>1, <2>2 DEF ChildTerminal, ChildOutcome, OutcomeOf
  <2>4. Places'
    BY <1>7, <2>1, <2>2 DEF ChildTerminal, ChildOutcome, OutcomeOf
  <2>5. Promises'
    BY <1>7, <2>1, <2>2 DEF ChildTerminal, ChildOutcome, OutcomeOf
  <2>6. QED
    BY <2>3, <2>4, <2>5
<1>8. CASE ChildExit
  <2>1. UNCHANGED <<down, downArg, up, upArg, to_child, to_parent>>
    BY <1>8, SameChannels DEF ChildExit, ChildGone
  <2>2. Flags'
    BY <1>8 DEF ChildExit, ChildGone
  <2>3. QED
    BY <1>8, <2>1, <2>2 DEF ChildExit, ChildGone
<1>9. CASE ChildFails
  <2>1. UNCHANGED <<down, downArg, up, upArg, to_child, to_parent>>
    BY <1>9, SameChannels DEF ChildFails, ChildGone
  <2>2. Flags'
    BY <1>9 DEF ChildFails, ChildGone
  <2>3. QED
    BY <1>9, <2>1, <2>2 DEF ChildFails, ChildGone
<1>10. CASE ChildCrash
  <2>1. UNCHANGED <<down, downArg, up, upArg, to_child, to_parent>>
    BY <1>10, SameChannels DEF ChildCrash, ChildGone
  <2>2. Flags'
    BY <1>10 DEF ChildCrash, ChildGone
  <2>3. QED
    BY <1>10, <2>1, <2>2 DEF ChildCrash, ChildGone
<1>11. QED
  BY <1>1, <1>2, <1>3, <1>4, <1>5, <1>6, <1>7, <1>8, <1>9, <1>10 DEF Child

\* The control reader of the child.
LEMMA ControlInv ==
  ASSUME SInv,
         \/ Control
  PROVE  SInv'
<1> USE SessionAssumption DEF SInv, ctx, session, drvv, workerv, link, childv, TypeOK, Flags,
   Reasons, Outcomes, Places, DriverPlace, WorkerPlace, ReasonSound, ChildPlace, Upward, Downward,
   TerminalSound, OutcomeSound, Opening, Closing, Handshake, AfterAccepted, StartPath, Promises,
   NoFalseProtocolError, ResultIsHonest, CancelAfterStartWins, TerminalAuthoritative,
   StatusDisagrees
<1>1. CASE ControlCancel
  <2>1. /\ UNCHANGED <<up, upArg, to_parent>> /\ to_child' \in Seq(ToChild)
        /\ down = "CANCEL" /\ down' = "empty" /\ Head(to_child).arg = p_reason /\ p_reason \in Reasons
    <3>1. UNCHANGED to_parent /\ Has(to_child, "CANCEL") /\ to_child' = Tail(to_child)
      BY <1>1 DEF ControlCancel, FirstReason
    <3>2. to_child' \in Seq(ToChild) /\ down = "CANCEL" /\ down' = "empty" /\ Head(to_child).arg = downArg
      BY <3>1, TakeDown DEF Places
    <3>3. QED
      BY <3>1, <3>2, SameChannels DEF Places, Downward, TypeOK
  <2>2. Flags'
    BY <1>1 DEF ControlCancel, FirstReason
  <2>3. TypeOK'
    BY <1>1, <2>1, <2>2 DEF ControlCancel, FirstReason
  <2>4. Places'
    BY <1>1, <2>1, <2>2 DEF ControlCancel, FirstReason
  <2>5. Promises'
    BY <1>1, <2>1, <2>2 DEF ControlCancel, FirstReason
  <2>6. QED
    BY <2>3, <2>4, <2>5
<1>2. CASE ControlEof
  <2>1. UNCHANGED <<down, downArg, up, upArg, to_child, to_parent>>
    BY <1>2, SameChannels DEF ControlEof, FirstReason
  <2>2. Flags'
    BY <1>2 DEF ControlEof, FirstReason
  <2>3. QED
    BY <1>2, <2>1, <2>2 DEF ControlEof, FirstReason
<1>3. CASE ControlStop
  <2>1. UNCHANGED <<down, downArg, up, upArg, to_child, to_parent>>
    BY <1>3, SameChannels DEF ControlStop
  <2>2. Flags'
    BY <1>3 DEF ControlStop
  <2>3. QED
    BY <1>3, <2>1, <2>2 DEF ControlStop
<1>4. QED
  BY <1>1, <1>2, <1>3 DEF Control

\* The child is reaped and the result is decided.
LEMMA ReapInv ==
  ASSUME SInv,
         \/ DrvReap \/ DrvReapError \/ DrvFinish
  PROVE  SInv'
<1> USE SessionAssumption DEF SInv, ctx, session, drvv, workerv, link, childv, TypeOK, Flags,
   Reasons, Outcomes, Places, DriverPlace, WorkerPlace, ReasonSound, ChildPlace, Upward, Downward,
   TerminalSound, OutcomeSound, Opening, Closing, Handshake, AfterAccepted, StartPath, Promises,
   NoFalseProtocolError, ResultIsHonest, CancelAfterStartWins, TerminalAuthoritative,
   StatusDisagrees
<1>1. CASE DrvReap
  <2>1. UNCHANGED <<down, downArg, up, upArg, to_child, to_parent>>
    BY <1>1, SameChannels DEF DrvReap, ChildGone
  <2>2. Flags'
    <3>1. Flags
      OBVIOUS
    <3> HIDE DEF SInv
    <3>2. UNCHANGED <<requested, due, cancel_sent, started_received, stop, terminal_seen,
       pclosed, ran>>
      BY <1>1 DEF DrvReap
    <3>3. cclosed' = cclosed \/ cclosed' = TRUE
      BY <1>1 DEF DrvReap, ChildGone
    <3>4. QED
      BY <3>1, <3>2, <3>3
  <2>3. QED
    BY <1>1, <2>1, <2>2 DEF DrvReap, ChildGone
<1>2. CASE DrvReapError
  <2>1. UNCHANGED <<down, downArg, up, upArg, to_child, to_parent>>
    BY <1>2, SameChannels DEF DrvReapError, ChildGone
  <2>2. Flags'
    <3>1. Flags
      OBVIOUS
    <3> HIDE DEF SInv
    <3>2. UNCHANGED <<requested, due, cancel_sent, started_received, stop, terminal_seen,
       pclosed, ran>>
      BY <1>2 DEF DrvReapError
    <3>3. cclosed' = cclosed \/ cclosed' = TRUE
      BY <1>2 DEF DrvReapError, ChildGone
    <3>4. QED
      BY <3>1, <3>2, <3>3
  <2>3. QED
    BY <1>2, <2>1, <2>2 DEF DrvReapError, ChildGone
<1>3. CASE DrvFinish
  <2>1. UNCHANGED <<down, downArg, up, upArg, to_child, to_parent>>
    BY <1>3, SameChannels DEF DrvFinish
  <2>2. Flags'
    BY <1>3 DEF DrvFinish, TypeOK, Flags
  <2>3. \/ result' = IF err # "none" THEN FailureCategory ELSE TerminalResult(FALSE)
        \/ due /\ result' = IF err # "none" THEN FailureCategory ELSE TerminalResult(TRUE)
    BY <1>3, Zenon DEF DrvFinish, TypeOK
  <2>4. /\ drv = "finish" /\ drv' = "end"
        /\ UNCHANGED <<executor, ctx, due, peers, err, cleanup, session, workerv, link, childv>>
    BY <1>3 DEF DrvFinish
  <2>5. QED
    BY <2>1, <2>2, <2>3, <2>4 DEF FailureCategory, TerminalResult, CollectionDeadlineError, Flags,
       TypeOK, Reasons, Outcomes, Places, DriverPlace, WorkerPlace, ReasonSound, ChildPlace,
       Upward, Downward, TerminalSound, OutcomeSound, Opening, Closing, Handshake, AfterAccepted,
       StartPath, Promises, NoFalseProtocolError, ResultIsHonest, CancelAfterStartWins,
       TerminalAuthoritative, StatusDisagrees
<1>4. QED
  BY <1>1, <1>2, <1>3

\* The invariant is inductive.
LEMMA SNextInv == SInv /\ [Next]_vars => SInv'
<1> SUFFICES ASSUME SInv, [Next]_vars PROVE SInv'
  OBVIOUS
<1>1. CASE Next
  BY <1>1, ExecutorInv, OpeningInv, StartInv, ReadInv, WorkerInv, ChildInv, ControlInv,
     ReapInv DEF Next, Driver
<1>2. CASE UNCHANGED vars
  <2>1. UNCHANGED <<down, downArg, up, upArg>>
    BY <1>2, SameChannels DEF vars, link
  <2>2. QED
    BY <1>2, <2>1 DEF vars, ctx, session, drvv, workerv, link, childv, SInv, TypeOK, Places,
       DriverPlace, WorkerPlace, ReasonSound, ChildPlace, Upward, Downward, TerminalSound,
       OutcomeSound, Opening, Closing, Handshake, AfterAccepted, StartPath, Promises,
       NoFalseProtocolError, ResultIsHonest, CancelAfterStartWins, TerminalAuthoritative,
       StatusDisagrees
<1>3. QED
  BY <1>1, <1>2

\* It holds in every reachable state.
LEMMA SInvariant == Spec => []SInv
BY SInitInv, SNextInv, PTL DEF Spec

\* It implies what is left of what the run checks.
LEMMA SInvImplies == SInv => Inv /\ ReasonsAgree /\ NoOrphan
<1> SUFFICES ASSUME SInv PROVE Inv /\ ReasonsAgree /\ NoOrphan
  OBVIOUS
<1>1. Inv
  BY DEF SInv, Inv, StartBarrier, Places, ChildPlace, TerminalSound, StartPath
<1>2. ASSUME NEW i \in DOMAIN to_child, to_child[i].kind = "CANCEL"
      PROVE  to_child[i].arg = reason
  <2>1. to_child \in Seq(Frames) /\ i \in 1..Len(to_child)
    BY <1>2, Directions DEF SInv, TypeOK
  <2>2. ShapeFacts(to_child) /\ down \in {"empty", "REQUEST", "START", "CANCEL", "START_CANCEL"}
    BY <2>1, ShapeCases DEF SInv, Places, Downward
  <2>3. /\ down \in {"REQUEST", "START", "CANCEL"} => Len(to_child) = 1 /\ to_child[1].kind = down
        /\ down = "empty" => Len(to_child) = 0
        /\ down = "START_CANCEL" => Len(to_child) = 2 /\ to_child[1].kind = "START"
    BY <2>2 DEF ShapeFacts, down, Kinds
  <2>4. down \in {"CANCEL", "START_CANCEL"} /\ i = Len(to_child)
    <3>1. Len(to_child) \in Nat /\ i \in Nat /\ 1 <= i /\ i <= Len(to_child)
      BY <2>1
    <3>2. CASE down \in {"REQUEST", "START"}
      <4>1. i = 1 /\ to_child[1].kind \in {"REQUEST", "START"}
        BY <2>3, <3>1, <3>2
      <4>2. QED
        BY <1>2, <4>1
    <3>3. CASE down = "CANCEL"
      BY <2>3, <3>1, <3>3
    <3>4. CASE down = "START_CANCEL"
      <4>1. Len(to_child) = 2 /\ to_child[1].kind = "START"
        BY <2>3, <3>4
      <4>2. i # 1
        BY <1>2, <4>1
      <4>3. QED
        BY <3>1, <3>4, <4>1, <4>2
    <3>5. QED
      BY <2>2, <2>3, <3>1, <3>2, <3>3, <3>4
  <2>5. QED
    BY <2>4 DEF SInv, Places, Downward, ReasonSound, downArg, LastArg
<1>3. ReasonsAgree
  BY <1>2 DEF ReasonsAgree, SInv, Places, ReasonSound
<1>4. NoOrphan
  BY DEF SInv, NoOrphan, Places, DriverPlace, WorkerPlace, Closing
<1>5. QED
  BY <1>1, <1>3, <1>4

(* The START barrier: user code runs only in a session whose START the       *)
(* parent authorized, and a TERMINAL of such a run is taken only after its   *)
(* STARTED (supervisor.rs SupervisorParentSession, subprocess.rs             *)
(* run_supervisor_child).                                                    *)
THEOREM StartBarrierKept == Spec => []Inv
BY SInvariant, SInvImplies, PTL

(* First reason wins across the two processes: the session, the frames in    *)
(* flight and the child all carry the one reason of the parent's context     *)
(* (limits.rs CancellationContext::request_with_reason, supervisor.rs        *)
(* send_cancel).                                                             *)
THEOREM FirstReasonWins == Spec => []ReasonsAgree
BY SInvariant, SInvImplies, PTL

(* However a cancellation races with STARTED and TERMINAL, a child that      *)
(* follows the protocol is not accused of breaking it (supervisor.rs         *)
(* receive_child_frame).                                                     *)
THEOREM NoFalseAccusation == Spec => []NoFalseProtocolError
BY SInvariant, PTL DEF SInv, Promises

(* What a supervised run returns is what happened to it (subprocess.rs       *)
(* map_supervisor_terminal_with_cancellation,                                *)
(* supervisor_session_failure_category).                                     *)
THEOREM ResultIsTrue == Spec => []ResultIsHonest
BY SInvariant, PTL DEF SInv, Promises

(* A cancellation that the control worker recorded after START is what the   *)
(* run is reported as (supervisor.rs send_cancel, subprocess.rs              *)
(* supervisor_control_loop).                                                 *)
THEOREM RecordedCancelWins == Spec => []CancelAfterStartWins
BY SInvariant, PTL DEF SInv, Promises

(* A TERMINAL that was taken is never reported as a crash or a failure of    *)
(* the infrastructure, also if the child's exit resets the link              *)
(* (subprocess.rs read_supervisor_terminal).                                 *)
THEOREM TakenTerminalExplains == Spec => []TerminalAuthoritative
BY SInvariant, PTL DEF SInv, Promises

(* A run that returns leaves no child, no control worker and no open link    *)
(* behind (subprocess.rs reap_supervisor_child).                             *)
THEOREM NoChildLeft == Spec => []NoOrphan
BY SInvariant, SInvImplies, PTL
=============================================================================
