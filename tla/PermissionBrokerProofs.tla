----------------------- MODULE PermissionBrokerProofs -----------------------
(***************************************************************************)
(* Proofs about RunAdmission and PermissionBroker: leases, registries and  *)
(* the installation of a broker, for every number of threads and workers   *)
(* and whatever each of them asks for.                                     *)
(***************************************************************************)
EXTENDS PermissionBroker, FiniteSetTheorems, TLAPS

-----------------------------------------------------------------------------
(* The inductive invariant. *)

Claims(r) == kind[r] # "run" /\ pc[r] \in {"recheck", "run", "wait", "drop"}
Holders   == {r \in Runs : Holding(r)}
OnBooks   == {"reserved", "running", "stopped"}
Booked    == {w \in Workers : worker[w] \in OnBooks}

\* Who can be at which point of acquire and of the run.
ThreadPlace ==
  \A r \in Runs :
    /\ pc[r] = "recheck" => kind[r] # "run"
    /\ pc[r] = "lock" => kind[r] \in Installs
    /\ pc[r] = "wait" => kind[r] \notin Installs
    /\ pc[r] = "cas" /\ kind[r] = "run" => cur[r] \notin Markers

\* A marker has one owner, and he is alone from the exchange on, before the
\* registries were looked at again; a number counts the leases.
LeaseExact ==
  /\ RUN_STATE \in Markers =>
       \E o \in Runs : /\ Claims(o) /\ RUN_STATE = Marker(kind[o])
                       /\ \A q \in Runs : q # o => ~Holding(q) /\ ~Claims(q)
  /\ RUN_STATE \notin Markers =>
       (\A r \in Runs : ~Claims(r)) /\ RUN_STATE = Cardinality(Holders)

\* ACTIVE_WORKERS counts the registrations of all registries.
CountExact == ACTIVE_WORKERS = Cardinality(Booked)

\* Only a run that had its lease has workers, and a registry that is not
\* closing belongs to a run that still has it.
WorkerPlace ==
  /\ \A w \in Workers : worker[w] # "none" =>
       kind[owner[w]] \notin Installs /\ pc[owner[w]] \in {"run", "wait", "drop", "done"}
  /\ \A r \in Runs :
       pc[r] \in {"wait", "drop", "done"} /\ kind[r] \notin Installs => closing[r]

\* Past the second look at ACTIVE_WORKERS, every registration is the owner's.
ExclusiveBooks ==
  \A r \in Runs : Exclusive(r) => \A w \in Booked : owner[w] = r

\* A run that waited has no registration from then on.
WaitedOut ==
  \A r \in Runs : pc[r] \in {"drop", "done"} /\ r \notin abandoned =>
    \A w \in Booked : owner[w] # r

AdmissionInv == /\ TypeOK /\ ThreadPlace /\ LeaseExact /\ CountExact
                /\ WorkerPlace /\ ExclusiveBooks /\ WaitedOut

\* An installer has INSTALL_LOCK from the check of has_broker to its end, and
\* only it is past the start of an installation.
LockHeld ==
  /\ \A r \in Runs : kind[r] \in Installs /\ pc[r] \in {"idle", "cas", "recheck", "run", "drop"}
       => INSTALL_LOCK = r
  /\ stage # "start" => /\ INSTALL_LOCK \in Runs /\ pc[INSTALL_LOCK] = "run"
                        /\ kind[INSTALL_LOCK] \in Installs
  /\ stage \in {"connect", "accept", "commit"} => kind[INSTALL_LOCK] = "hook"
  /\ sockdir => stage # "start" /\ kind[INSTALL_LOCK] = "hook"

\* What has_broker said still holds while the installation is under way.
NotYetSet ==
  /\ \A r \in Runs :
       kind[r] \in Installs /\ pc[r] \in {"idle", "cas", "recheck", "run"} /\ stage # "commit"
         => BROKER = "none"
  /\ stage = "commit" => BROKER = "hook"
  /\ BROKER = "hook" /\ stage # "commit" => bridge \in {"serving", "closed"}

\* A check is under way only once the hook is served.
AskServed ==
  /\ ask # NoAsk => BROKER = "hook" /\ stage # "commit"
  /\ ask.st = "hook" => ask.line = "request"

\* A run, and every worker on its books, is under the present authority.
Under ==
  \A r \in Runs : kind[r] \notin Installs /\ (Holding(r) \/ \E w \in Booked : owner[w] = r)
                    => under[r] = BROKER

BrokerInv == /\ AdmissionInv /\ BTypeOK /\ LockHeld /\ NotYetSet /\ AskServed /\ Under
             /\ HookDecides

-----------------------------------------------------------------------------
(* Counting. *)

\* Both counted sets are finite, and no number of leases is a marker.
LEMMA Counted ==
  /\ IsFiniteSet(Holders) /\ Cardinality(Holders) \in Nat
  /\ Cardinality(Holders) <= Cardinality(Runs)
  /\ IsFiniteSet(Booked) /\ Cardinality(Booked) \in Nat
<1>1. IsFiniteSet(Runs) /\ IsFiniteSet(Workers)
  BY AdmissionAssumption
<1>2. Holders \subseteq Runs /\ Booked \subseteq Workers
  BY DEF Holders, Booked
<1>3. QED
  BY <1>1, <1>2, FS_Subset, FS_CardinalityType

\* The constants: markers lie above every number of leases.
LEMMA MarkerGap ==
  /\ UsizeMax \in Nat /\ Cardinality(Runs) \in Nat
  /\ \A n \in Nat : n <= Cardinality(Runs) => n \notin Markers
  /\ \A k : Marker(k) \in Markers
  /\ Markers \subseteq 0..UsizeMax
  /\ 0 \notin Markers
<1>1. Cardinality(Runs) \in Nat
  BY AdmissionAssumption, FS_CardinalityType
<1>2. QED
  BY <1>1, AdmissionAssumption DEF Markers, Marker, CAPTURE_MARKER, BROKER_INSTALL_MARKER

-----------------------------------------------------------------------------
(* Leases and registries. *)

\* A step that touches neither leaves what is said of them.
LEMMA AdmissionStutter == AdmissionInv /\ UNCHANGED <<lease, registry>> => AdmissionInv'
<1> SUFFICES ASSUME AdmissionInv, UNCHANGED <<lease, registry>> PROVE AdmissionInv'
  OBVIOUS
<1> USE DEF AdmissionInv, lease, registry
<1>1. TypeOK' /\ ThreadPlace' /\ CountExact' /\ WorkerPlace'
  BY DEF TypeOK, ThreadPlace, CountExact, WorkerPlace, Booked
<1>2. LeaseExact' /\ ExclusiveBooks' /\ WaitedOut'
  BY DEF LeaseExact, ExclusiveBooks, WaitedOut, Claims, Holders, Booked, Holding, Exclusive
<1>3. QED
  BY <1>1, <1>2

\* The process starts with nobody in it.
LEMMA AdmissionInit == AInit => AdmissionInv
<1> SUFFICES ASSUME AInit PROVE AdmissionInv
  OBVIOUS
<1>1. Holders = {} /\ Booked = {}
  BY AdmissionAssumption DEF AInit, Holders, Booked, Holding, OnBooks, Installs
<1>2. TypeOK
  <2>1. closing \in [Runs -> BOOLEAN]
    BY DEF AInit
  <2>2. QED
    BY <2>1, AdmissionAssumption DEF AInit, TypeOK, Installs
<1>3. LeaseExact /\ CountExact
  BY <1>1, FS_EmptySet, MarkerGap, AdmissionAssumption DEF AInit, LeaseExact, CountExact,
     Claims, Installs
<1>4. ThreadPlace /\ WorkerPlace /\ ExclusiveBooks /\ WaitedOut
  BY <1>1, AdmissionAssumption
    DEF AInit, ThreadPlace, WorkerPlace, ExclusiveBooks, WaitedOut, Exclusive, Holding, Installs
<1>5. QED
  BY <1>2, <1>3, <1>4 DEF AdmissionInv

\* A thread that moves between two points outside the lease, or between two
\* points inside it that are alike for everybody else, disturbs nothing.
LEMMA AdmissionLease ==
  ASSUME AdmissionInv, NEW r \in Runs, UNCHANGED registry,
         \/ LoadState(r) \/ CheckWorkers(r) \/ MarkState(r) \/ DropLease(r)
         \/ IncrementState(r) \/ RecheckWorkers(r) \/ WorkersGone(r)
  PROVE  AdmissionInv'
<1> USE DEF AdmissionInv, Go, lease, registry
<1>1. CASE LoadState(r)
  <2> USE <1>1 DEF LoadState
  <2>1. TypeOK'
    BY DEF TypeOK
  <2>2. Holders' = Holders /\ Booked' = Booked
    BY DEF TypeOK, Holders, Holding, Booked
  <2>3. ThreadPlace'
    BY DEF TypeOK, ThreadPlace
  <2>4. LeaseExact' /\ CountExact'
    BY <2>2 DEF TypeOK, LeaseExact, CountExact, Claims, Holding
  <2>5. WorkerPlace' /\ ExclusiveBooks' /\ WaitedOut'
    BY <2>2 DEF TypeOK, WorkerPlace, ExclusiveBooks, WaitedOut, Exclusive, Holding
  <2>6. QED
    BY <2>1, <2>3, <2>4, <2>5
<1>2. CASE CheckWorkers(r)
  <2> USE <1>2 DEF CheckWorkers
  <2>1. TypeOK'
    BY DEF TypeOK
  <2>2. Holders' = Holders /\ Booked' = Booked
    BY DEF TypeOK, Holders, Holding, Booked
  <2>3. ThreadPlace'
    BY DEF TypeOK, ThreadPlace
  <2>4. LeaseExact' /\ CountExact'
    BY <2>2 DEF TypeOK, LeaseExact, CountExact, Claims, Holding
  <2>5. WorkerPlace' /\ ExclusiveBooks' /\ WaitedOut'
    BY <2>2 DEF TypeOK, WorkerPlace, ExclusiveBooks, WaitedOut, Exclusive, Holding
  <2>6. QED
    BY <2>1, <2>3, <2>4, <2>5
<1>3. CASE MarkState(r)
  <2> USE <1>3 DEF MarkState
  <2>1. TypeOK'
    BY MarkerGap DEF TypeOK
  <2>2. Holders' = Holders /\ Booked' = Booked
    BY DEF TypeOK, Holders, Holding, Booked
  <2>3. ThreadPlace'
    BY DEF TypeOK, ThreadPlace
  <2>4. LeaseExact' /\ CountExact'
    <3>1. CASE RUN_STATE = 0
      <4>1. Holders = {}
        BY <3>1, MarkerGap, Counted, FS_EmptySet DEF LeaseExact
      <4>2. RUN_STATE' = Marker(kind[r]) /\ RUN_STATE' \in Markers
        BY <3>1, MarkerGap
      <4>3. Claims(r)' /\ \A q \in Runs : q # r => ~Holding(q)' /\ ~Claims(q)'
        BY <3>1, <4>1, MarkerGap DEF TypeOK, LeaseExact, Claims, Holders, Holding
      <4>4. QED
        BY <4>2, <4>3, <2>2 DEF LeaseExact, CountExact
    <3>2. CASE RUN_STATE # 0
      BY <2>2, <3>2 DEF TypeOK, LeaseExact, CountExact, Claims, Holding
    <3>3. QED
      BY <3>1, <3>2
  <2>5. WorkerPlace' /\ ExclusiveBooks' /\ WaitedOut'
    BY <2>2 DEF TypeOK, WorkerPlace, ExclusiveBooks, WaitedOut, Exclusive, Holding
  <2>6. QED
    BY <2>1, <2>3, <2>4, <2>5
<1>4. CASE DropLease(r)
  <2> USE <1>4 DEF DropLease
  <2>1. Holders' = Holders \ {r} /\ r \in Holders /\ Booked' = Booked
    BY DEF TypeOK, Holders, Holding, Booked
  <2>2. Cardinality(Holders') = Cardinality(Holders) - 1
    BY <2>1, Counted, FS_RemoveElement
  <2>3. kind[r] = "run" => RUN_STATE \notin Markers
    BY <2>1 DEF LeaseExact, Claims, Holders
  <2>4. kind[r] # "run" => RUN_STATE \in Markers /\ Holders' = {}
    BY <2>1 DEF LeaseExact, Claims, Holders
  <2>5. TypeOK'
    <3>1. RUN_STATE \notin Markers => RUN_STATE \in Nat /\ RUN_STATE = Cardinality(Holders) /\ RUN_STATE # 0
      BY <2>1, Counted, FS_EmptySet DEF LeaseExact
    <3>2. RUN_STATE' \in 0..UsizeMax
      BY <2>3, <3>1, MarkerGap DEF TypeOK
    <3>3. QED
      BY <3>2 DEF TypeOK
  <2>6. ThreadPlace'
    BY DEF TypeOK, ThreadPlace
  <2>7. LeaseExact' /\ CountExact'
    <3>1. CASE kind[r] = "run"
      <4>1. RUN_STATE' = Cardinality(Holders') /\ RUN_STATE' \notin Markers
        BY <3>1, <2>2, <2>3, Counted, MarkerGap DEF LeaseExact
      <4>2. QED
        BY <3>1, <4>1, <2>1, <2>3 DEF TypeOK, LeaseExact, CountExact, Claims
    <3>2. CASE kind[r] # "run"
      BY <3>2, <2>1, <2>4, FS_EmptySet, MarkerGap DEF TypeOK, LeaseExact, CountExact, Claims
    <3>3. QED
      BY <3>1, <3>2
  <2>8. WorkerPlace' /\ ExclusiveBooks' /\ WaitedOut'
    BY <2>1 DEF TypeOK, WorkerPlace, ExclusiveBooks, WaitedOut, Exclusive, Holding
  <2>9. QED
    BY <2>5, <2>6, <2>7, <2>8
<1>5. CASE IncrementState(r)
  <2> USE <1>5 DEF IncrementState
  <2>1. Booked' = Booked
    BY DEF Booked
  <2>2. CASE RUN_STATE = cur[r]
    <3>1. RUN_STATE \notin Markers
      BY <2>2 DEF ThreadPlace
    <3>2. Holders' = Holders \cup {r} /\ r \notin Holders
      BY <2>2 DEF TypeOK, Holders, Holding
    <3>3. Cardinality(Holders') = Cardinality(Holders) + 1
      BY <3>2, Counted, FS_AddElement
    <3>4. Cardinality(Holders') <= Cardinality(Runs)
      <4>1. Holders' \subseteq Runs
        BY <3>2 DEF Holders
      <4>2. QED
        BY <4>1, FS_Subset, AdmissionAssumption
    <3>5. RUN_STATE' = Cardinality(Holders') /\ RUN_STATE' \notin Markers /\ RUN_STATE' \in 0..UsizeMax
      BY <2>2, <3>1, <3>3, <3>4, Counted, MarkerGap, AdmissionAssumption DEF LeaseExact
    <3>6. TypeOK'
      BY <2>2, <3>5 DEF TypeOK
    <3>7. ThreadPlace'
      BY <2>2 DEF TypeOK, ThreadPlace
    <3>8. LeaseExact' /\ CountExact'
      BY <2>2, <2>1, <3>1, <3>5 DEF TypeOK, LeaseExact, CountExact, Claims
    <3>9. WorkerPlace' /\ ExclusiveBooks' /\ WaitedOut'
      BY <2>1, <2>2 DEF TypeOK, WorkerPlace, ExclusiveBooks, WaitedOut, Exclusive, Holding
    <3>10. QED
      BY <3>6, <3>7, <3>8, <3>9
  <2>3. CASE RUN_STATE # cur[r]
    <3>1. Holders' = Holders
      BY <2>3 DEF TypeOK, Holders, Holding
    <3>2. TypeOK'
      BY <2>3 DEF TypeOK
    <3>3. ThreadPlace'
      BY <2>3 DEF TypeOK, ThreadPlace
    <3>4. LeaseExact' /\ CountExact'
      BY <2>3, <2>1, <3>1 DEF TypeOK, LeaseExact, CountExact, Claims, Holding
    <3>5. WorkerPlace' /\ ExclusiveBooks' /\ WaitedOut'
      BY <2>1, <2>3 DEF TypeOK, WorkerPlace, ExclusiveBooks, WaitedOut, Exclusive, Holding
    <3>6. QED
      BY <3>2, <3>3, <3>4, <3>5
  <2>4. QED
    BY <2>2, <2>3
<1>6. CASE RecheckWorkers(r)
  <2> USE <1>6 DEF RecheckWorkers
  <2>1. Booked' = Booked /\ kind[r] # "run" /\ Claims(r)
    BY DEF Booked, ThreadPlace, Claims
  <2>2. RUN_STATE \in Markers /\ RUN_STATE = Marker(kind[r]) /\ \A q \in Runs : q # r => ~Holding(q) /\ ~Claims(q)
    BY <2>1 DEF LeaseExact
  <2>3. TypeOK'
    BY MarkerGap DEF TypeOK
  <2>4. ThreadPlace'
    BY DEF TypeOK, ThreadPlace
  <2>5. CASE ACTIVE_WORKERS = 0
    <3>1. Booked = {}
      BY <2>5, Counted, FS_EmptySet DEF CountExact
    <3>2. LeaseExact' /\ CountExact'
      BY <2>1, <2>2, <2>5 DEF TypeOK, LeaseExact, CountExact, Claims, Holding
    <3>3. WorkerPlace' /\ ExclusiveBooks' /\ WaitedOut'
      BY <2>1, <2>5, <3>1 DEF TypeOK, WorkerPlace, ExclusiveBooks, WaitedOut, Exclusive, Holding
    <3>4. QED
      BY <2>3, <2>4, <3>2, <3>3
  <2>6. CASE ACTIVE_WORKERS # 0
    <3>1. Holders' = {}
      BY <2>2, <2>6 DEF TypeOK, Holders, Holding
    <3>2. LeaseExact' /\ CountExact'
      BY <2>1, <2>2, <2>6, <3>1, FS_EmptySet, MarkerGap DEF TypeOK, LeaseExact, CountExact,
         Claims, Holding
    <3>3. WorkerPlace' /\ ExclusiveBooks' /\ WaitedOut'
      BY <2>1, <2>6 DEF TypeOK, WorkerPlace, ExclusiveBooks, WaitedOut, Exclusive, Holding
    <3>4. QED
      BY <2>3, <2>4, <3>2, <3>3
  <2>7. QED
    BY <2>5, <2>6
<1>7. CASE WorkersGone(r)
  <2> USE <1>7 DEF WorkersGone
  <2>1. TypeOK'
    BY DEF TypeOK
  <2>2. Holders' = Holders /\ Booked' = Booked
    BY DEF TypeOK, Holders, Holding, Booked
  <2>3. ThreadPlace'
    BY DEF TypeOK, ThreadPlace
  <2>4. LeaseExact' /\ CountExact'
    BY <2>2 DEF TypeOK, LeaseExact, CountExact, Claims, Holding
  <2>5. \A w \in Booked : owner[w] # r
    BY DEF Booked, OnBooks, Registered
  <2>6. WorkerPlace' /\ ExclusiveBooks' /\ WaitedOut'
    BY <2>2, <2>5 DEF TypeOK, WorkerPlace, ExclusiveBooks, WaitedOut, Exclusive, Holding
  <2>7. QED
    BY <2>1, <2>3, <2>4, <2>6
<1>8. QED
  BY <1>1, <1>2, <1>3, <1>4, <1>5, <1>6, <1>7

\* Workers come and go within the books of their registries.
LEMMA AdmissionWorker ==
  ASSUME AdmissionInv, NEW w \in Workers, UNCHANGED lease,
         NewWorker(w) \/ Reserve(w) \/ Attach(w) \/ RequestStop(w) \/ Unregister(w)
  PROVE  AdmissionInv'
<1> USE DEF AdmissionInv, lease, registry
<1>1. Holders' = Holders /\ ThreadPlace' /\ LeaseExact'
  BY DEF Holders, Holding, ThreadPlace, LeaseExact, Claims
<1>2. owner[w] \in Runs /\ UNCHANGED <<owner, closing>>
  BY DEF TypeOK, NewWorker, Reserve, Attach, RequestStop, Unregister
<1>3. CASE NewWorker(w)
  <2> USE <1>3 DEF NewWorker
  <2>1. TypeOK'
    BY DEF TypeOK
  <2>2. Booked' = Booked
    BY DEF TypeOK, Booked, OnBooks
  <2>3. pc[owner[w]] \in {"run", "wait", "drop", "done"}
    BY DEF WorkerPlace, Alive
  <2>4. CountExact' /\ WorkerPlace' /\ ExclusiveBooks' /\ WaitedOut'
    BY <2>2, <2>3 DEF TypeOK, CountExact, WorkerPlace, ExclusiveBooks, WaitedOut, Exclusive, Holding
  <2>5. QED
    BY <1>1, <2>1, <2>4
<1>4. CASE Reserve(w) /\ ~closing[owner[w]]
  <2> USE <1>4 DEF Reserve, MayReserve
  <2>1. pc[owner[w]] = "run" /\ kind[owner[w]] \notin Installs
    BY <1>2 DEF TypeOK, WorkerPlace
  <2>2. TypeOK'
    BY DEF TypeOK
  <2>3. Booked' = Booked \cup {w} /\ w \notin Booked
    BY DEF TypeOK, Booked, OnBooks
  <2>4. CountExact'
    BY <2>3, Counted, FS_AddElement DEF CountExact
  <2>5. \A o \in Runs : Exclusive(o) => owner[w] = o
    BY <1>2, <2>1 DEF LeaseExact, Exclusive, Claims, Holding
  <2>6. WorkerPlace' /\ ExclusiveBooks' /\ WaitedOut'
    BY <1>2, <2>1, <2>3, <2>5 DEF TypeOK, WorkerPlace, ExclusiveBooks, WaitedOut, Exclusive, Holding
  <2>7. QED
    BY <1>1, <2>2, <2>4, <2>6
<1>5. CASE Reserve(w) /\ closing[owner[w]]
  <2> USE <1>5 DEF Reserve, MayReserve
  <2>1. TypeOK'
    BY DEF TypeOK
  <2>2. Booked' = Booked
    BY DEF TypeOK, Booked, OnBooks
  <2>3. CountExact' /\ WorkerPlace' /\ ExclusiveBooks' /\ WaitedOut'
    BY <2>2 DEF TypeOK, CountExact, WorkerPlace, ExclusiveBooks, WaitedOut, Exclusive, Holding
  <2>4. QED
    BY <1>1, <2>1, <2>3
<1>6. CASE Attach(w)
  <2> USE <1>6 DEF Attach
  <2>1. TypeOK'
    BY DEF TypeOK, StopOnAttach
  <2>2. Booked' = Booked
    BY DEF TypeOK, Booked, OnBooks
  <2>3. CountExact' /\ WorkerPlace' /\ ExclusiveBooks' /\ WaitedOut'
    BY <2>2 DEF TypeOK, CountExact, WorkerPlace, ExclusiveBooks, WaitedOut, Exclusive, Holding
  <2>4. QED
    BY <1>1, <2>1, <2>3
<1>7. CASE RequestStop(w)
  <2> USE <1>7 DEF RequestStop
  <2>1. TypeOK'
    BY DEF TypeOK
  <2>2. Booked' = Booked
    BY DEF TypeOK, Booked, OnBooks
  <2>3. CountExact' /\ WorkerPlace' /\ ExclusiveBooks' /\ WaitedOut'
    BY <2>2 DEF TypeOK, CountExact, WorkerPlace, ExclusiveBooks, WaitedOut, Exclusive, Holding
  <2>4. QED
    BY <1>1, <2>1, <2>3
<1>8. CASE Unregister(w)
  <2> USE <1>8 DEF Unregister
  <2>1. Booked' = Booked \ {w} /\ w \in Booked
    BY DEF TypeOK, Booked, OnBooks
  <2>2. CountExact' /\ ACTIVE_WORKERS' \in Nat
    <3>1. IsFiniteSet(Booked') /\ Cardinality(Booked') = Cardinality(Booked) - 1
      BY <2>1, Counted, FS_RemoveElement
    <3>2. Cardinality(Booked') \in Nat
      BY <3>1, FS_CardinalityType
    <3>3. QED
      BY <3>1, <3>2 DEF CountExact
  <2>3. TypeOK'
    BY <2>2 DEF TypeOK
  <2>4. WorkerPlace' /\ ExclusiveBooks' /\ WaitedOut'
    BY <2>1 DEF TypeOK, WorkerPlace, ExclusiveBooks, WaitedOut, Exclusive, Holding
  <2>5. QED
    BY <1>1, <2>2, <2>3, <2>4
<1>9. QED
  BY <1>3, <1>4, <1>5, <1>6, <1>7, <1>8 DEF Reserve, MayReserve

\* A registry is closed, and the run goes on, waits, or is dropped.
LEMMA AdmissionClose ==
  ASSUME AdmissionInv, NEW r \in Runs,
         \/ WatchdogCloses(r) \/ CloseAndWait(r) \/ Abandon(r)
  PROVE  AdmissionInv'
<1> USE DEF AdmissionInv, lease, registry, Go
<1>1. /\ closing' \in [Runs -> BOOLEAN] /\ closing'[r]
      /\ \A q \in Runs : closing[q] => closing'[q]
  BY Zenon DEF TypeOK, WatchdogCloses, CloseAndWait, Abandon, Close
<1>2. /\ UNCHANGED <<RUN_STATE, kind, cur, ACTIVE_WORKERS, worker, owner>>
      /\ stopping' \subseteq Workers
      /\ pc[r] \in {"run", "wait"} /\ kind[r] \notin Installs
      /\ \/ pc' = pc /\ abandoned' = abandoned
         \/ pc' = [pc EXCEPT ![r] = "wait"] /\ abandoned' = abandoned
         \/ pc' = [pc EXCEPT ![r] = "drop"] /\ abandoned' = abandoned \cup {r}
  BY DEF TypeOK, WatchdogCloses, CloseAndWait, Abandon, Close, Registered
<1>3. TypeOK'
  BY <1>1, <1>2 DEF TypeOK
<1>4. Holders' = Holders /\ Booked' = Booked
  BY <1>2 DEF TypeOK, Holders, Holding, Booked
<1>5. ThreadPlace'
  BY <1>2 DEF TypeOK, ThreadPlace
<1>6. LeaseExact' /\ CountExact'
  BY <1>2, <1>4 DEF TypeOK, LeaseExact, CountExact, Claims, Holding
<1>7. WorkerPlace' /\ ExclusiveBooks' /\ WaitedOut'
  BY <1>1, <1>2, <1>4 DEF TypeOK, WorkerPlace, ExclusiveBooks, WaitedOut, Exclusive, Holding
<1>8. QED
  BY <1>3, <1>5, <1>6, <1>7

\* An installer takes the lock, and ends its installation.
LEMMA AdmissionInstall ==
  ASSUME AdmissionInv, NEW r \in Runs, TakeInstallLock(r) \/ (InstallEnds(r) /\ pc[r] = "run" /\ kind[r] \in Installs)
  PROVE  AdmissionInv'
<1> USE DEF AdmissionInv, lease, registry, Go
<1>1. /\ UNCHANGED <<RUN_STATE, kind, cur, abandoned, registry>>
      /\ \/ pc[r] = "lock" /\ \E to \in {"idle", "refused"} : pc' = [pc EXCEPT ![r] = to]
         \/ pc[r] = "run" /\ pc' = [pc EXCEPT ![r] = "drop"] /\ kind[r] \in Installs
  BY DEF TakeInstallLock, InstallEnds
<1>2. TypeOK'
  BY <1>1 DEF TypeOK
<1>3. Holders' = Holders /\ Booked' = Booked
  BY <1>1 DEF TypeOK, Holders, Holding, Booked
<1>4. ThreadPlace'
  BY <1>1 DEF TypeOK, ThreadPlace, Installs
<1>5. LeaseExact' /\ CountExact'
  BY <1>1, <1>3 DEF TypeOK, LeaseExact, CountExact, Claims, Holding
<1>6. \A w \in Booked : owner[w] # r
  BY <1>1 DEF WorkerPlace, Booked, OnBooks
<1>7. WorkerPlace' /\ ExclusiveBooks' /\ WaitedOut'
  BY <1>1, <1>3, <1>6 DEF TypeOK, WorkerPlace, ExclusiveBooks, WaitedOut, Exclusive, Holding
<1>8. QED
  BY <1>2, <1>4, <1>5, <1>7

-----------------------------------------------------------------------------
(* The installation of a broker, and the checks it decides. *)

\* No broker, no check, no installation.
LEMMA BrokerInit == Init => BrokerInv
<1> SUFFICES ASSUME Init PROVE BrokerInv
  OBVIOUS
<1>1. AdmissionInv
  BY AdmissionInit DEF Init
<1>2. BTypeOK
  BY DEF Init, BTypeOK, NoAsk, Lines, Installs
<1>3. LockHeld /\ NotYetSet
  BY <1>1 DEF Init, AInit, LockHeld, NotYetSet, AdmissionInv, TypeOK, Installs
<1>4. AskServed /\ HookDecides /\ Under
  BY DEF Init, AskServed, HookDecides, Under, NoAsk
<1>5. QED
  BY <1>1, <1>2, <1>3, <1>4 DEF BrokerInv

\* The owner of an installation is alone: no other lease, no registered worker.
LEMMA InstallerAlone ==
  ASSUME BrokerInv, NEW r \in Runs, pc[r] = "run", kind[r] \in Installs
  PROVE  /\ Exclusive(r) /\ Booked = {} /\ \A q \in Runs : q # r => ~Holding(q)
         /\ INSTALL_LOCK = r
<1>1. kind[r] # "run" /\ Claims(r) /\ Exclusive(r)
  BY DEF Installs, Claims, Exclusive, Holding
<1>2. \A q \in Runs : q # r => ~Holding(q)
  BY <1>1 DEF BrokerInv, AdmissionInv, LeaseExact
<1>3. Booked = {}
  BY <1>1 DEF BrokerInv, AdmissionInv, ExclusiveBooks, WorkerPlace, Booked, OnBooks
<1>4. QED
  BY <1>1, <1>2, <1>3 DEF BrokerInv, LockHeld

\* Each step of an installation.
LEMMA BrokerInstall ==
  ASSUME BrokerInv, NEW r \in Runs, InstallSteps(r)
  PROVE  BrokerInv'
<1> USE DEF BrokerInv
<1>1. CASE TakeInstallLock(r)
  <2> USE <1>1 DEF TakeInstallLock, InstallLockFree, Go
  <2>1. AdmissionInv'
    BY AdmissionInstall
  <2>2. stage = "start" /\ ~sockdir
    BY BrokerAssumption DEF LockHeld
  <2>3. BTypeOK'
    BY DEF BTypeOK
  <2>4. LockHeld' /\ NotYetSet'
    BY <2>2, BrokerAssumption DEF LockHeld, NotYetSet, AdmissionInv, TypeOK, Installs
  <2>5. AskServed' /\ HookDecides'
    BY DEF AskServed, HookDecides
  <2>6. Under'
    BY DEF Under, AdmissionInv, TypeOK, Holding, Booked, registry
  <2>7. QED
    BY <2>1, <2>3, <2>4, <2>5, <2>6
<1>2. CASE ReleaseInstallLock(r)
  <2> USE <1>2 DEF ReleaseInstallLock, lease, registry
  <2>1. AdmissionInv'
    BY AdmissionStutter
  <2>2. BTypeOK' /\ LockHeld'
    BY DEF BTypeOK, LockHeld, AdmissionInv, TypeOK
  <2>3. NotYetSet' /\ AskServed' /\ HookDecides' /\ Under'
    BY DEF NotYetSet, AskServed, HookDecides, Under, Holding, Booked
  <2>4. QED
    BY <2>1, <2>2, <2>3
<1>3. CASE BindSocket(r) \/ Connect(r) \/ ConnectExits(r) \/ SpawnHookThread(r)
  <2> USE <1>3 DEF BindSocket, Connect, ConnectExits, SpawnHookThread, Installing, InstallGoes,
     lease, registry
  <2>1. AdmissionInv'
    BY AdmissionStutter
  <2>2. INSTALL_LOCK = r /\ kind[r] \in Installs /\ BROKER = "none"
    BY InstallerAlone DEF NotYetSet, Installs
  <2>3. BTypeOK'
    BY DEF BTypeOK
  <2>4. LockHeld' /\ NotYetSet'
    BY <2>2 DEF LockHeld, NotYetSet
  <2>5. AskServed' /\ HookDecides' /\ Under'
    BY <2>2 DEF AskServed, HookDecides, Under, Holding, Booked
  <2>6. QED
    BY <2>1, <2>3, <2>4, <2>5
<1>4. CASE InstallFails(r) \/ SetBroker(r) \/ Commit(r)
  <2> USE <1>4
  <2>1. pc[r] = "run" /\ kind[r] \in Installs
    BY DEF InstallFails, SetBroker, Commit, Installing, Installs
  <2>2. Booked = {} /\ INSTALL_LOCK = r /\ \A q \in Runs : q # r => ~Holding(q)
    BY <2>1, InstallerAlone
  <2>3. UNCHANGED <<kind, worker>>
    BY DEF InstallFails, SetBroker, Commit, InstallEnds, lease, registry
  <2>4. Booked' = {}
    BY <2>2, <2>3 DEF Booked
  <2>5. AdmissionInv'
    <3>1. CASE InstallEnds(r)
      BY <3>1, <2>1, AdmissionInstall
    <3>2. CASE UNCHANGED <<lease, registry>>
      BY <3>2, AdmissionStutter
    <3>3. QED
      BY <3>1, <3>2 DEF InstallFails, SetBroker, Commit
  <2>6. /\ INSTALL_LOCK' = r /\ UNCHANGED <<ask, under, alive>>
        /\ \/ stage' = "start" /\ sockdir' = FALSE /\ pc' = [pc EXCEPT ![r] = "drop"]
           \/ stage' = "commit" /\ UNCHANGED <<sockdir, pc>> /\ kind[r] = "hook" /\ BROKER' = "hook" /\ stage = "publish"
    BY <2>1, <2>2 DEF InstallFails, SetBroker, Commit, InstallEnds, Go, Installs, lease, registry
  <2>7. \/ BROKER' = BROKER /\ bridge' = bridge /\ stage' = "start" /\ stage # "commit"
        \/ BROKER = "none" /\ BROKER' = kind[r] /\ bridge' = bridge /\ (BROKER' = "hook" => stage' = "commit")
        \/ BROKER' = BROKER /\ bridge' = "serving" /\ stage = "commit" /\ BROKER = "hook"
    BY <2>1 DEF InstallFails, SetBroker, Commit, Installing, Installs, NotYetSet, InstallEnds
  <2>8. BTypeOK'
    <3>1. sockdir' \in BOOLEAN /\ alive' \in BOOLEAN
      BY <2>6, Zenon DEF BTypeOK
    <3>2. BROKER' \in {"none"} \cup Installs /\ bridge' \in {"none", "parked", "serving", "closed"}
      BY <2>1, <2>7 DEF BTypeOK
    <3>3. QED
      BY <2>6, <3>1, <3>2 DEF BTypeOK
  <2>9. \A q \in Runs : kind[q] \in Installs /\ pc'[q] \in {"idle", "cas", "recheck", "run", "drop"} => q = r
    BY <2>2, <2>6 DEF LockHeld, AdmissionInv, TypeOK
  <2>10. LockHeld'
    BY <2>1, <2>2, <2>3, <2>6, <2>9 DEF LockHeld, AdmissionInv, TypeOK, Installs
  <2>11. NotYetSet'
    BY <2>1, <2>3, <2>6, <2>7, <2>9 DEF NotYetSet, AdmissionInv, TypeOK
  <2>12. AskServed' /\ HookDecides'
    BY <2>6, <2>7 DEF AskServed, HookDecides
  <2>13. Under'
    BY <2>1, <2>2, <2>3, <2>4, <2>6 DEF Under, Holding, AdmissionInv, TypeOK
  <2>14. QED
    BY <2>5, <2>8, <2>10, <2>11, <2>12, <2>13
<1>5. QED
  BY <1>1, <1>2, <1>3, <1>4 DEF InstallSteps

\* A lease is granted under the broker there is; the threads of a run, its
\* watchdog and its workers leave the broker alone.
LEMMA BrokerRun ==
  ASSUME BrokerInv,
         \/ \E r \in Runs : GrantLease(r) \/ Alone(LeaseSteps(r) \/ RunSteps(r))
         \/ \E w \in Workers : Alone(WorkerSteps(w))
         \/ ThreadEnds
  PROVE  BrokerInv'
<1> USE DEF BrokerInv
<1>1. ASSUME NEW r \in Runs, GrantLease(r) PROVE BrokerInv'
  <2> USE <1>1 DEF GrantLease
  <2>1. UNCHANGED <<registry, kind>>
    BY DEF IncrementState, RecheckWorkers
  <2>2. AdmissionInv'
    BY <2>1, AdmissionLease
  <2>3. pc[r] \in {"cas", "recheck"} /\ \E to \in {"idle", "run", "refused"} : pc' = [pc EXCEPT ![r] = to]
    BY DEF IncrementState, RecheckWorkers, Go
  <2>4. kind[r] \in Installs => pc[r] = "recheck" /\ pc'[r] \in {"run", "refused"}
    BY DEF IncrementState, RecheckWorkers, Go, Installs, AdmissionInv, TypeOK
  <2>5. BTypeOK'
    BY DEF BTypeOK
  <2>6. LockHeld' /\ NotYetSet'
    BY <2>1, <2>3, <2>4 DEF LockHeld, NotYetSet, AdmissionInv, TypeOK
  <2>7. AskServed' /\ HookDecides'
    BY DEF AskServed, HookDecides
  <2>8. Under'
    <3>1. \A q \in Runs : q # r => Holding(q)' = Holding(q) /\ under'[q] = under[q]
      BY <2>3 DEF Holding, AdmissionInv, TypeOK, BTypeOK
    <3>2. pc'[r] = "run" => under'[r] = BROKER'
      BY DEF BTypeOK
    <3>3. pc'[r] # "run" => under' = under /\ ~Holding(r)'
      BY <2>3 DEF Holding, AdmissionInv, TypeOK
    <3>4. Booked' = Booked /\ owner' = owner /\ BROKER' = BROKER
      BY <2>1 DEF Booked, registry
    <3>5. QED
      BY <2>1, <3>1, <3>2, <3>3, <3>4 DEF Under
  <2>9. QED
    BY <2>2, <2>5, <2>6, <2>7, <2>8
<1>2. ASSUME NEW r \in Runs, Alone(LeaseSteps(r) \/ RunSteps(r)) PROVE BrokerInv'
  <2> USE <1>2 DEF Alone, LeaseSteps, RunSteps, bvars
  <2>1. AdmissionInv'
    <3>1. CASE WatchdogCloses(r)
      BY <3>1, AdmissionClose
    <3>2. CASE LeaseSteps(r) \/ WorkersGone(r)
      <4>1. UNCHANGED registry
        BY <3>2 DEF LoadState, CheckWorkers, MarkState, DropLease, WorkersGone
      <4>2. QED
        BY <3>2, <4>1, AdmissionLease
    <3>3. QED
      BY <3>1, <3>2
  <2>2. UNCHANGED <<kind, worker, owner>>
    BY DEF LoadState, CheckWorkers, MarkState, DropLease, WorkersGone, WatchdogCloses, lease,
       registry
  <2>3. \/ pc' = pc
        \/ pc[r] = "idle" /\ \E to \in {"cas", "refused"} : pc' = [pc EXCEPT ![r] = to]
        \/ pc[r] = "cas" /\ \E to \in {"recheck", "refused"} : pc' = [pc EXCEPT ![r] = to]
        \/ pc[r] = "wait" /\ pc' = [pc EXCEPT ![r] = "drop"]
        \/ pc[r] = "drop" /\ pc' = [pc EXCEPT ![r] = "done"]
    BY DEF LoadState, CheckWorkers, MarkState, DropLease, WorkersGone, WatchdogCloses, lease, Go
  <2>4. BTypeOK' /\ AskServed' /\ HookDecides'
    BY DEF BTypeOK, AskServed, HookDecides
  <2>5. LockHeld' /\ NotYetSet'
    BY <2>2, <2>3 DEF LockHeld, NotYetSet, AdmissionInv, TypeOK, ThreadPlace
  <2>6. Under'
    BY <2>2, <2>3 DEF Under, Holding, Booked, AdmissionInv, TypeOK
  <2>7. QED
    BY <2>1, <2>4, <2>5, <2>6
<1>3. ASSUME NEW w \in Workers, Alone(WorkerSteps(w)) \/ (Unregister(w) /\ UNCHANGED bvars) PROVE BrokerInv'
  <2> USE <1>3 DEF Alone, WorkerSteps, bvars
  <2>1. UNCHANGED lease /\ UNCHANGED owner
    BY DEF NewWorker, Reserve, Attach, RequestStop, Unregister
  <2>2. AdmissionInv'
    BY <2>1, AdmissionWorker
  <2>3. BTypeOK' /\ AskServed' /\ HookDecides' /\ LockHeld' /\ NotYetSet'
    BY <2>1 DEF BTypeOK, AskServed, HookDecides, LockHeld, NotYetSet, lease
  <2>4. \A v \in Booked' : v \in Booked \/ pc[owner[v]] = "run"
    BY DEF Booked, OnBooks, NewWorker, Reserve, Attach, RequestStop, Unregister, MayReserve,
       WorkerPlace, AdmissionInv, TypeOK
  <2>5. Under'
    BY <2>1, <2>4 DEF Under, Holding, lease
  <2>6. QED
    BY <2>2, <2>3, <2>5
<1>4. ASSUME NEW r \in Runs, CloseAndWait(r) \/ Abandon(r), UNCHANGED bvars PROVE BrokerInv'
  <2> USE <1>4 DEF bvars
  <2>1. AdmissionInv'
    BY AdmissionClose
  <2>2. /\ UNCHANGED <<kind, worker, owner>> /\ kind[r] \notin Installs /\ Holding(r)
        /\ \E to \in {"wait", "drop"} : pc' = [pc EXCEPT ![r] = to]
    BY DEF CloseAndWait, Abandon, Go, Holding
  <2>3. BTypeOK' /\ AskServed' /\ HookDecides'
    BY DEF BTypeOK, AskServed, HookDecides
  <2>4. LockHeld' /\ NotYetSet'
    BY <2>2 DEF LockHeld, NotYetSet, AdmissionInv, TypeOK
  <2>5. Under'
    BY <2>2 DEF Under, Holding, Booked, AdmissionInv, TypeOK
  <2>6. QED
    BY <2>1, <2>3, <2>4, <2>5
<1>5. QED
  BY <1>1, <1>2, <1>3, <1>4 DEF ThreadEnds

\* A check is sent, read, decided and answered.
LEMMA BrokerAsk ==
  ASSUME BrokerInv,
         (\E x \in Runs \cup Workers : Ask(x)) \/ ReadLine \/ HookReturns \/ CheckReturns \/ BridgeLost
  PROVE  BrokerInv'
<1> USE DEF BrokerInv
<1>1. /\ UNCHANGED <<lease, registry, INSTALL_LOCK, BROKER, stage, sockdir, under>>
      /\ bridge' = bridge \/ (bridge = "serving" /\ bridge' = "closed")
  BY DEF Ask, ReadLine, HookReturns, CheckReturns, BridgeLost
<1>2. AdmissionInv'
  BY <1>1, AdmissionStutter
<1>3. LockHeld' /\ NotYetSet' /\ Under'
  BY <1>1 DEF LockHeld, NotYetSet, Under, Holding, Booked, lease, registry
<1>4. BTypeOK' /\ AskServed' /\ HookDecides'
  <2>1. ASSUME NEW x \in Runs \cup Workers, Ask(x) PROVE BTypeOK' /\ AskServed' /\ HookDecides'
    <3> USE <2>1 DEF Ask
    <3>1. PICK line \in Lines : ask' = [by |-> x, st |-> "sent", line |-> line, said |-> "none", reply |-> "none"]
      BY DEF NoAsk
    <3>2. BTypeOK'
      BY <3>1 DEF BTypeOK
    <3>3. stage # "commit"
      <4>1. SUFFICES ASSUME stage = "commit" PROVE FALSE
        OBVIOUS
      <4>2. Booked = {} /\ \A q \in Runs : Holding(q) => kind[q] \in Installs
        BY <4>1, InstallerAlone DEF LockHeld
      <4>3. QED
        BY <4>2 DEF Running, Booked, OnBooks, Holding
    <3>4. AskServed' /\ HookDecides'
      BY <3>1, <3>3 DEF AskServed, HookDecides
    <3>5. QED
      BY <3>2, <3>4
  <2>2. CASE ReadLine
    <3> USE <2>2
    <3>1. ask.st = "sent" /\ ask # NoAsk /\ UNCHANGED <<INSTALL_LOCK, BROKER, stage, sockdir, under, alive>>
      BY DEF ReadLine, NoAsk
    <3>2. CASE ask.line = "request"
      <4>1. ask' = [ask EXCEPT !.st = "hook"] /\ bridge' = bridge
        BY <3>2, Zenon DEF ReadLine
      <4>2. QED
        BY <3>1, <3>2, <4>1 DEF BTypeOK, AskServed, HookDecides
    <3>3. CASE ask.line = "with_id"
      <4>1. ask' = [[ask EXCEPT !.st = "replied"] EXCEPT !.reply = "deny"] /\ bridge' = bridge
        BY <3>3, Zenon DEF ReadLine
      <4>2. QED
        BY <3>1, <3>3, <4>1 DEF BTypeOK, AskServed, HookDecides
    <3>4. CASE ask.line \notin {"request", "with_id"}
      <4>1. ask' = ask /\ bridge' = "closed"
        BY <3>4, Zenon DEF ReadLine
      <4>2. QED
        BY <3>1, <4>1 DEF BTypeOK, AskServed, HookDecides
    <3>5. QED
      BY <3>2, <3>3, <3>4
  <2>3. CASE HookReturns
    <3> USE <2>3
    <3>1. /\ ask.st = "hook" /\ ask # NoAsk
          /\ UNCHANGED <<INSTALL_LOCK, BROKER, stage, sockdir, bridge, under, alive>>
      BY DEF HookReturns, NoAsk
    <3>2. PICK said \in {"allow", "deny", "panic"} :
            ask' = [ask EXCEPT !.st = "replied", !.said = said,
                               !.reply = IF said = "allow" THEN "allow" ELSE "deny"]
      BY Zenon DEF HookReturns
    <3>3. PICK reply \in {"allow", "deny"} :
            /\ ask' = [ask EXCEPT !.st = "replied", !.said = said, !.reply = reply]
            /\ reply = "allow" => said = "allow"
      BY <3>2, Zenon
    <3>4. /\ ask' = [by |-> ask.by, st |-> "replied", line |-> ask.line, said |-> said, reply |-> reply]
          /\ ask.by \in Runs \cup Workers \cup {NoOne} /\ ask.line \in Lines
      BY <3>3 DEF BTypeOK
    <3>5. QED
      BY <3>1, <3>3, <3>4 DEF BTypeOK, AskServed, HookDecides
  <2>4. CASE CheckReturns
    BY <2>4 DEF CheckReturns, BTypeOK, AskServed, HookDecides, NoAsk, Lines
  <2>5. CASE BridgeLost
    BY <2>5 DEF BridgeLost, BTypeOK, AskServed, HookDecides
  <2>6. QED
    BY <2>1, <2>2, <2>3, <2>4, <2>5
<1>5. QED
  BY <1>2, <1>3, <1>4

\* The invariant is inductive.
LEMMA BrokerStep == BrokerInv /\ [Next]_vars => BrokerInv'
<1> SUFFICES ASSUME BrokerInv, [Next]_vars PROVE BrokerInv'
  OBVIOUS
<1>1. CASE Next
  BY <1>1, BrokerInstall, BrokerRun, BrokerAsk DEF Next
<1>2. CASE UNCHANGED vars
  <2>1. AdmissionInv'
    BY <1>2, AdmissionStutter DEF vars, BrokerInv
  <2>2. BTypeOK' /\ LockHeld' /\ NotYetSet'
    BY <1>2 DEF vars, bvars, lease, registry, BrokerInv, BTypeOK, LockHeld, NotYetSet
  <2>3. AskServed' /\ Under' /\ HookDecides'
    BY <1>2 DEF vars, bvars, lease, registry, BrokerInv, AskServed, Under, HookDecides, Holding,
       Booked
  <2>4. QED
    BY <2>1, <2>2, <2>3 DEF BrokerInv
<1>3. QED
  BY <1>1, <1>2

\* Every reachable state satisfies it.
LEMMA BrokerInvariant == Spec => []BrokerInv
<1>1. QED
  BY BrokerInit, BrokerStep, PTL DEF Spec

-----------------------------------------------------------------------------
(* What the process promises to its runs. *)

\* Leases, registries and the broker are exact (RunLease::acquire,
\* acquire_exclusive, WorkerLifecycleRegistry::reserve, install): an exclusive
\* owner is alone, RUN_STATE and ACTIVE_WORKERS count what they stand for, a
\* broker is installed once and served before it is asked, and every check of a
\* run is decided by the authority its lease was granted under.
THEOREM ProcessIsShared == Spec => []Inv
<1>1. BrokerInv => Inv
  <2> SUFFICES ASSUME BrokerInv PROVE Inv
    OBVIOUS
  <2> USE DEF BrokerInv, AdmissionInv
  <2>1. Booked = UNION {Registered(r) : r \in Runs}
    BY DEF Booked, OnBooks, Registered, TypeOK
  <2>2. \A r \in Runs : Alive(r) \subseteq {w \in Booked : owner[w] = r}
    BY DEF Alive, Booked, OnBooks
  <2>3. ExclusiveAlone
    <3> SUFFICES ASSUME NEW r \in Runs, NEW q \in Runs, Exclusive(r), q # r PROVE ~Holding(q) /\ Alive(q) = {}
      BY DEF ExclusiveAlone
    <3>1. Claims(r)
      BY DEF Exclusive, Holding, Claims
    <3>2. ~Holding(q)
      BY <3>1 DEF LeaseExact
    <3>3. QED
      BY <3>2, <2>2 DEF ExclusiveBooks
  <2>4. Accounting
    BY <2>1 DEF Accounting, LeaseExact, CountExact, Claims, Exclusive, Holding, Holders
  <2>5. InstalledOnce
    BY DEF InstalledOnce, LockHeld, NotYetSet, AskServed
  <2>6. AuthorityFixed
    BY <2>2 DEF AuthorityFixed, Under
  <2>7. QED
    BY <2>3, <2>4, <2>5, <2>6 DEF Inv
<1>2. QED
  BY <1>1, BrokerInvariant, PTL

\* A run awaited to its end leaves no registered worker (close_and_wait against
\* reserve and attach on the workers' own threads).
THEOREM AwaitedRunIsClean == Spec => []NoWorkerLeftBehind
<1>1. BrokerInv => NoWorkerLeftBehind
  BY DEF BrokerInv, AdmissionInv, WaitedOut, NoWorkerLeftBehind, Registered, Booked, OnBooks
<1>2. QED
  BY <1>1, BrokerInvariant, PTL

\* A broker, once published, is never replaced or taken away: set_broker is
\* only reached while there is none.
THEOREM BrokerIsForEver == Spec => [][BROKER # "none" => BROKER' = BROKER]_vars
<1>1. BrokerInv /\ [Next]_vars => [BROKER # "none" => BROKER' = BROKER]_vars
  <2> SUFFICES ASSUME BrokerInv, Next, BROKER # "none" PROVE BROKER' = BROKER
    OBVIOUS
  <2>1. ASSUME NEW r \in Runs, InstallSteps(r) PROVE BROKER' = BROKER
    BY <2>1 DEF InstallSteps, TakeInstallLock, ReleaseInstallLock, BindSocket, Connect,
       ConnectExits, SpawnHookThread, InstallFails, SetBroker, Commit, InstallGoes, BrokerInv,
       NotYetSet
  <2>2. ASSUME NEW r \in Runs, GrantLease(r) PROVE BROKER' = BROKER
    BY <2>2 DEF GrantLease
  <2>3. QED
    BY <2>1, <2>2 DEF Next, Alone, ThreadEnds, bvars, Ask, ReadLine, HookReturns, CheckReturns,
       BridgeLost
<1>2. QED
  BY <1>1, BrokerInvariant, PTL DEF Spec

=============================================================================
