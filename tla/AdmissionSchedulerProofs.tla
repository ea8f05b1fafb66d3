---------------------- MODULE AdmissionSchedulerProofs ----------------------
(***************************************************************************)
(* Proofs about AdmissionScheduler for every value of its constants.       *)
(***************************************************************************)
EXTENDS AdmissionScheduler, SequenceTheorems, FiniteSetTheorems, TLAPS

(* The owner at position i leaves a deque: VecDeque::remove and the retained *)
(* deque of the manager's pass keep the others, in order.                    *)
LEMMA RemoveAtProperties ==
  ASSUME NEW S, NEW s \in Seq(S), NEW i \in 1..Len(s)
  PROVE  /\ RemoveAt(s, i) \in Seq(S)
         /\ Len(RemoveAt(s, i)) = Len(s) - 1
         /\ \A j \in 1..(Len(s) - 1) :
              RemoveAt(s, i)[j] = IF j < i THEN s[j] ELSE s[j + 1]
<1> DEFINE p == SubSeq(s, 1, i - 1)
           q == SubSeq(s, i + 1, Len(s))
<1>1. Len(s) \in Nat /\ i \in Nat
  OBVIOUS
<1>2. /\ p \in Seq(S) /\ Len(p) = i - 1
      /\ \A j \in 1..(i - 1) : p[j] = s[j]
  BY <1>1, SubSeqProperties
<1>3. /\ q \in Seq(S) /\ Len(q) = Len(s) - i
      /\ \A j \in 1..(Len(s) - i) : q[j] = s[i + j]
  BY <1>1, SubSeqProperties
<1>4. RemoveAt(s, i) = p \o q
  BY DEF RemoveAt
<1> HIDE DEF p, q
<1>5. /\ Len(p \o q) = Len(s) - 1
      /\ p \o q \in Seq(S)
  <2>1. p \o q \in Seq(S) /\ Len(p \o q) = Len(p) + Len(q)
    BY <1>2, <1>3, ConcatProperties
  <2>2. QED
    BY <1>1, <1>2, <1>3, <2>1
<1>6. ASSUME NEW j \in 1..(Len(s) - 1)
      PROVE  (p \o q)[j] = IF j < i THEN s[j] ELSE s[j + 1]
  <2>1. (p \o q)[j] = IF j <= Len(p) THEN p[j] ELSE q[j - Len(p)]
    BY <1>1, <1>2, <1>3, <1>6, ConcatProperties
  <2>2. CASE j < i
    BY <1>1, <1>2, <2>1, <2>2
  <2>3. CASE ~(j < i)
    <3>1. j - (i - 1) \in 1..(Len(s) - i)
      BY <1>1, <2>3
    <3>2. (p \o q)[j] = q[j - (i - 1)]
      BY <1>1, <1>2, <2>1, <2>3
    <3>3. q[j - (i - 1)] = s[i + (j - (i - 1))]
      BY <1>3, <3>1
    <3>4. i + (j - (i - 1)) = j + 1
      BY <1>1
    <3>5. QED
      BY <2>3, <3>2, <3>3, <3>4
  <2>4. QED
    BY <2>2, <2>3
<1>7. QED
  BY <1>4, <1>5, <1>6
(* Removing a position of an ascending deque keeps it ascending and removes  *)
(* exactly that element.                                                     *)
LEMMA RemoveAtAscending ==
  ASSUME NEW s \in Seq(Ids), Ascending(s), NEW i \in 1..Len(s)
  PROVE  /\ RemoveAt(s, i) \in Seq(Ids)
         /\ Len(RemoveAt(s, i)) = Len(s) - 1
         /\ Ascending(RemoveAt(s, i))
         /\ \A x \in Ids : In(x, RemoveAt(s, i)) <=> In(x, s) /\ x # s[i]
<1> DEFINE r == RemoveAt(s, i)
<1>1. /\ r \in Seq(Ids) /\ Len(r) = Len(s) - 1
      /\ \A j \in 1..(Len(s) - 1) : r[j] = IF j < i THEN s[j] ELSE s[j + 1]
  BY RemoveAtProperties
<1>2. Len(s) \in Nat /\ i \in 1..Len(s) /\ \A j \in 1..Len(s) : s[j] \in Int
  BY LimitsAssumption DEF Ids
<1> HIDE DEF r
<1>3. Ascending(r)
  <2> SUFFICES ASSUME NEW j \in 1..Len(r), NEW k \in 1..Len(r), j < k
               PROVE  r[j] < r[k]
    BY DEF Ascending
  <2>1. r[j] = IF j < i THEN s[j] ELSE s[j + 1]
    BY <1>1
  <2>2. r[k] = IF k < i THEN s[k] ELSE s[k + 1]
    BY <1>1
  <2>3. QED
    BY <1>1, <1>2, <2>1, <2>2 DEF Ascending
<1>4. ASSUME NEW x \in Ids, In(x, r) PROVE In(x, s) /\ x # s[i]
  <2>1. PICK j \in 1..Len(r) : r[j] = x
    BY <1>4 DEF In
  <2>2. CASE j < i
    BY <1>1, <1>2, <2>1, <2>2 DEF In, Ascending
  <2>3. CASE ~(j < i)
    <3>1. j + 1 \in 1..Len(s) /\ x = s[j + 1] /\ i < j + 1
      BY <1>1, <1>2, <2>1, <2>3
    <3>2. s[i] < s[j + 1]
      BY <1>2, <3>1 DEF Ascending
    <3>3. QED
      BY <1>2, <3>1, <3>2 DEF In
  <2>4. QED
    BY <2>2, <2>3
<1>5. ASSUME NEW x \in Ids, In(x, s), x # s[i] PROVE In(x, r)
  <2>1. PICK j \in 1..Len(s) : s[j] = x
    BY <1>5 DEF In
  <2>2. CASE j < i
    BY <1>1, <1>2, <2>1, <2>2 DEF In
  <2>3. CASE i < j
    <3>1. j - 1 \in 1..Len(r) /\ ~(j - 1 < i) /\ (j - 1) + 1 = j
      BY <1>1, <1>2, <2>3
    <3>2. r[j - 1] = s[j]
      BY <1>1, <3>1
    <3>3. QED
      BY <2>1, <3>1, <3>2 DEF In
  <2>4. QED
    BY <1>2, <1>5, <2>1, <2>2, <2>3
<1>6. QED
  BY <1>1, <1>3, <1>4, <1>5 DEF r

(* pop_front of an ascending deque takes its least element. *)
LEMMA PopAscending ==
  ASSUME NEW s \in Seq(Ids), Ascending(s), s # <<>>
  PROVE  /\ Tail(s) \in Seq(Ids) /\ Len(Tail(s)) = Len(s) - 1
         /\ Head(s) \in Ids /\ In(Head(s), s)
         /\ Ascending(Tail(s))
         /\ \A x \in Ids : In(x, Tail(s)) <=> In(x, s) /\ x # Head(s)
         /\ \A x \in Ids : In(x, s) => Head(s) <= x
<1>1. /\ 1 \in 1..Len(s) /\ Head(s) = s[1] /\ Len(s) \in Nat /\ Head(s) \in Ids
      /\ \A j \in 1..Len(s) : s[j] \in Int
  BY LimitsAssumption DEF Ids
<1>2. /\ Tail(s) \in Seq(Ids) /\ Len(Tail(s)) = Len(s) - 1
      /\ \A j \in 1..(Len(s) - 1) : Tail(s)[j] = s[j + 1]
  BY HeadTailProperties
<1>3. Ascending(Tail(s))
  BY <1>1, <1>2 DEF Ascending
<1>4. ASSUME NEW x \in Ids, In(x, Tail(s)) PROVE In(x, s) /\ x # Head(s)
  <2>1. PICK j \in 1..Len(Tail(s)) : Tail(s)[j] = x
    BY <1>4 DEF In
  <2>2. j + 1 \in 1..Len(s) /\ x = s[j + 1] /\ 1 < j + 1
    BY <1>1, <1>2, <2>1
  <2>3. s[1] < s[j + 1]
    BY <1>1, <2>2 DEF Ascending
  <2>4. QED
    BY <1>1, <2>2, <2>3 DEF In
<1>5. ASSUME NEW x \in Ids, In(x, s), x # Head(s) PROVE In(x, Tail(s))
  <2>1. PICK j \in 1..Len(s) : s[j] = x
    BY <1>5 DEF In
  <2>2. j - 1 \in 1..(Len(s) - 1) /\ (j - 1) + 1 = j
    BY <1>1, <1>5, <2>1
  <2>3. Tail(s)[j - 1] = x
    BY <1>2, <2>1, <2>2
  <2>4. QED
    BY <1>2, <2>2, <2>3 DEF In
<1>6. ASSUME NEW x \in Ids, In(x, s) PROVE Head(s) <= x
  BY <1>1, <1>6 DEF In, Ascending
<1>7. In(Head(s), s)
  BY <1>1 DEF In
<1>8. QED
  BY <1>1, <1>2, <1>3, <1>4, <1>5, <1>6, <1>7

(* push_back of an id larger than all others. *)
LEMMA PushAscending ==
  ASSUME NEW s \in Seq(Ids), Ascending(s), NEW n \in Ids,
         \A x \in Ids : In(x, s) => x < n
  PROVE  /\ Append(s, n) \in Seq(Ids) /\ Len(Append(s, n)) = Len(s) + 1
         /\ Ascending(Append(s, n))
         /\ \A x \in Ids : In(x, Append(s, n)) <=> In(x, s) \/ x = n
<1> DEFINE r == Append(s, n)
<1>1. /\ r \in Seq(Ids) /\ Len(r) = Len(s) + 1 /\ r[Len(s) + 1] = n
      /\ \A j \in 1..Len(s) : r[j] = s[j] /\ In(s[j], s) /\ s[j] \in Ids
  BY AppendProperties DEF In
<1>2. Len(s) \in Nat /\ \A x \in Ids : x \in Int
  BY LimitsAssumption DEF Ids
<1> HIDE DEF r
<1>3. ASSUME NEW j \in 1..Len(r)
      PROVE  \/ j \in 1..Len(s) /\ r[j] = s[j] /\ r[j] < n
             \/ j = Len(s) + 1 /\ r[j] = n
  BY <1>1, <1>2
<1>4. Ascending(r)
  <2> SUFFICES ASSUME NEW j \in 1..Len(r), NEW k \in 1..Len(r), j < k
               PROVE  r[j] < r[k]
    BY DEF Ascending
  <2>1. CASE k \in 1..Len(s)
    <3>1. j \in 1..Len(s)
      BY <1>2, <2>1
    <3>2. s[j] < s[k]
      BY <2>1, <3>1 DEF Ascending
    <3>3. QED
      BY <1>1, <2>1, <3>1, <3>2
  <2>2. CASE k = Len(s) + 1
    <3>1. r[k] = n
      BY <1>1, <2>2
    <3>2. j # Len(s) + 1
      BY <1>1, <1>2, <2>2
    <3>3. QED
      BY <1>3, <3>1, <3>2
  <2>3. QED
    BY <1>3, <2>1, <2>2
<1>5. ASSUME NEW x \in Ids PROVE In(x, r) <=> In(x, s) \/ x = n
  <2>1. ASSUME In(x, r) PROVE In(x, s) \/ x = n
    <3>1. PICK j \in 1..Len(r) : r[j] = x
      BY <2>1 DEF In
    <3>2. QED
      BY <1>1, <1>3, <3>1
  <2>2. ASSUME In(x, s) PROVE In(x, r)
    <3>1. PICK j \in 1..Len(s) : s[j] = x
      BY <2>2 DEF In
    <3>2. j \in 1..Len(r) /\ r[j] = x
      BY <1>1, <1>2, <3>1
    <3>3. QED
      BY <3>2 DEF In
  <2>3. In(n, r)
    <3>1. Len(s) + 1 \in 1..Len(r)
      BY <1>1, <1>2
    <3>2. QED
      BY <1>1, <3>1 DEF In
  <2>4. QED
    BY <2>1, <2>2, <2>3
<1>6. QED
  BY <1>1, <1>4, <1>5 DEF r

(* An empty deque holds nothing. *)
LEMMA EmptyDeque == Ascending(<<>>) /\ \A x : ~In(x, <<>>)
  BY DEF Ascending, In

-----------------------------------------------------------------------------
(* Type correctness. *)

(* The initial state is well typed. *)
LEMMA TypeInit == Init => TypeOK
<1>1. <<>> \in Seq(Ids)
  OBVIOUS
<1> SUFFICES ASSUME Init PROVE TypeOK
  OBVIOUS
<1>2. /\ queue \in Seq(Ids) /\ ready \in Seq(Ids) /\ active \subseteq Ids
      /\ accepting \in BOOLEAN /\ manager_started \in BOOLEAN
      /\ passed \subseteq Ids /\ now \subseteq Ids /\ wait_until \subseteq Ids
      /\ todo \subseteq Ids /\ checked \subseteq Ids
      /\ not_started \subseteq Ids /\ requested \subseteq Ids
  BY <1>1 DEF Init
<1>3. next_id \in 1..(MaxId + 1)
  BY LimitsAssumption DEF Init
<1>4. /\ lifecycle \in [Ids -> Lifecycles] /\ cancel_reason \in [Ids -> Reasons]
      /\ outcome \in [Ids -> Results] /\ result \in [Ids -> Results]
      /\ owner \in [Ids -> Owners] /\ step \in [Ids -> Steps]
  BY DEF Init, Lifecycles, Reasons, Results, Owners, Steps
<1>5. QED
  BY <1>2, <1>3, <1>4 DEF Init, TypeOK

(* Every step of the scheduler, of its callers and of its task threads *)
(* preserves the type invariant.                                       *)
LEMMA TypeStep == TypeOK /\ [Next]_vars => TypeOK'
<1> SUFFICES ASSUME TypeOK, [Next]_vars PROVE TypeOK'
  OBVIOUS
<1> USE LimitsAssumption DEF TypeOK, Lifecycles, Terminal, Reasons, Results, Owners, Enders, Steps,
   sched, ctl, own, mgrv, shutv
<1>1. ASSUME NEW t \in Ids, SubmitDirect(t) PROVE TypeOK'
  BY <1>1 DEF SubmitDirect, Ids
<1>2. ASSUME NEW t \in Ids, SubmitQueued(t) PROVE TypeOK'
  BY <1>2 DEF SubmitQueued, Ids
<1>3. ASSUME NEW t \in Ids, SubmitFull(t) PROVE TypeOK'
  BY <1>3 DEF SubmitFull, Ids
<1>4. ASSUME NEW t \in Ids, SubmitNotify(t) PROVE TypeOK'
  BY <1>4 DEF SubmitNotify, NotifyOne
<1>5. ASSUME NEW t \in Ids, EnsureManager(t) PROVE TypeOK'
  BY <1>5 DEF EnsureManager
<1>6. ASSUME NEW t \in Ids, SpawnManager(t) PROVE TypeOK'
  BY <1>6 DEF SpawnManager
<1>7. ASSUME NEW t \in Ids, SpawnManagerFails(t) PROVE TypeOK'
  BY <1>7 DEF SpawnManagerFails
<1>8. ASSUME NEW t \in Ids, FailPending(t) PROVE TypeOK'
  BY <1>8 DEF FailPending, Enders
<1>9. ASSUME NEW t \in Ids, Cancel(t) PROVE TypeOK'
  <2>1. \A i \in 1..Len(queue) : RemoveAt(queue, i) \in Seq(Ids)
    BY RemoveAtProperties
  <2>2. \A i \in 1..Len(ready) : RemoveAt(ready, i) \in Seq(Ids)
    BY RemoveAtProperties
  <2>3. QED
    BY <1>9, <2>1, <2>2 DEF Cancel, RequestCancelPending, RequestCancelOwned, MarkCancelling,
       NotifyAll
<1>10. ASSUME NEW t \in Ids, MarkTerminal(t) PROVE TypeOK'
  BY <1>10 DEF MarkTerminal, AfterMark
<1>11. ASSUME NEW t \in Ids, ReleaseActive(t) PROVE TypeOK'
  BY <1>11 DEF ReleaseActive
<1>12. ASSUME NEW t \in Ids, ReleaseNotify(t) PROVE TypeOK'
  BY <1>12 DEF ReleaseNotify, NotifyAll
<1>13. ASSUME NEW t \in Ids, Publish(t) PROVE TypeOK'
  BY <1>13 DEF Publish, NotifyAll
<1>14. ASSUME NEW t \in Ids, BeginStart(t) PROVE TypeOK'
  BY <1>14 DEF BeginStart, MarkCancelling
<1>15. ASSUME NEW t \in Ids, MarkStarted(t) PROVE TypeOK'
  BY <1>15 DEF MarkStarted
<1>16. ASSUME NEW t \in Ids, DeadlinePasses(t) PROVE TypeOK'
  BY <1>16 DEF DeadlinePasses
<1>17. ASSUME NEW t \in Ids, MgrMarkDeadline(t) PROVE TypeOK'
  BY <1>17 DEF MgrMarkDeadline, MarkCancelling
<1>18. ASSUME NEW t \in Ids, MgrSpawn(t) PROVE TypeOK'
  BY <1>18 DEF MgrSpawn
<1>19. ASSUME NEW t \in Ids, ShutdownCheck(t) PROVE TypeOK'
  BY <1>19 DEF ShutdownCheck
<1>20. ASSUME NEW t \in Ids, ShutdownMark(t) PROVE TypeOK'
  BY <1>20 DEF ShutdownMark, MarkCancelling
<1>21. ASSUME NEW t \in Ids, ShutdownCancel(t) PROVE TypeOK'
  BY <1>21 DEF ShutdownCancel, RequestCancelOwned, MarkCancelling, NotifyAll
<1>22. ASSUME NEW t \in Ids, NEW b \in BackendResults, Resolve(t, b)
       PROVE  TypeOK'
  BY <1>22 DEF Resolve, BackendResults, ResolvedOutcome, StateOfOutcome
<1>23. ASSUME NEW i \in Ids, MgrExpireQueue(i) PROVE TypeOK'
  <2>1. i \in 1..Len(queue) /\ queue[i] \in Ids
    BY <1>23 DEF MgrExpireQueue, FirstDue
  <2>2. RemoveAt(queue, i) \in Seq(Ids)
    BY <2>1, RemoveAtProperties
  <2>3. QED
    BY <1>23, <2>1, <2>2 DEF MgrExpireQueue, Expire, MarkCancelling
<1>24. ASSUME NEW i \in Ids, MgrExpireReady(i) PROVE TypeOK'
  <2>1. i \in 1..Len(ready) /\ ready[i] \in Ids
    BY <1>24 DEF MgrExpireReady, FirstDue
  <2>2. RemoveAt(ready, i) \in Seq(Ids)
    BY <2>1, RemoveAtProperties
  <2>3. QED
    BY <1>24, <2>1, <2>2 DEF MgrExpireReady, Expire, MarkCancelling
<1>25. CASE MgrLock
  BY <1>25 DEF MgrLock
<1>26. CASE MgrPromote
  BY <1>26 DEF MgrPromote
<1>27. CASE MgrPop
  <2>1. ready # <<>> => Head(ready) \in Ids /\ Tail(ready) \in Seq(Ids)
    BY HeadTailProperties
  <2>2. CASE ready # <<>>
    BY <1>27, <2>1, <2>2 DEF MgrPop
  <2>3. CASE ready = <<>>
    BY <1>27, <2>3 DEF MgrPop
  <2>4. QED
    BY <2>2, <2>3
<1>28. CASE MgrExit
  BY <1>28 DEF MgrExit
<1>29. CASE MgrIdle
  BY <1>29 DEF MgrIdle, NextDeadline
<1>30. CASE MgrTimeout
  BY <1>30 DEF MgrTimeout
<1>31. CASE ShutdownBegin
  <2>1. <<>> \in Seq(Ids)
    OBVIOUS
  <2>2. queue' \in Seq(Ids) /\ ready' \in Seq(Ids)
    BY <1>31, <2>1 DEF ShutdownBegin
  <2>3. lifecycle' \in [Ids -> Lifecycles] /\ cancel_reason' \in [Ids -> Reasons]
    BY <1>31 DEF ShutdownBegin, MarkCancelling
  <2>4. owner' \in [Ids -> Owners] /\ step' \in [Ids -> Steps]
    BY <1>31 DEF ShutdownBegin
  <2>5. not_started' \subseteq Ids /\ todo' \subseteq Ids
    BY <1>31 DEF ShutdownBegin
  <2>6. QED
    BY <1>31, <2>2, <2>3, <2>4, <2>5 DEF ShutdownBegin
<1>32. CASE ShutdownUnlock
  BY <1>32 DEF ShutdownUnlock
<1>33. CASE ShutdownDrained
  BY <1>33 DEF ShutdownDrained
<1>34. CASE ShutdownLoop
  BY <1>34 DEF ShutdownLoop
<1>35. CASE ShutdownTimeout
  BY <1>35 DEF ShutdownTimeout
<1>36. CASE ShutdownCollect
  BY <1>36 DEF ShutdownCollect, StartedActive
<1>37. CASE ShutdownReturn
  BY <1>37 DEF ShutdownReturn
<1>38. CASE UNCHANGED vars
  BY <1>38 DEF vars
<1>39. QED
  BY <1>1, <1>2, <1>3, <1>4, <1>5, <1>6, <1>7, <1>8, <1>9, <1>10, <1>11, <1>12, <1>13, <1>14,
     <1>15, <1>16, <1>17, <1>18, <1>19, <1>20, <1>21, <1>22, <1>23, <1>24, <1>25, <1>26, <1>27,
     <1>28, <1>29, <1>30, <1>31, <1>32, <1>33, <1>34, <1>35, <1>36, <1>37, <1>38 DEF Next,
     Submitter, Finish, Backend, Manager, ShutdownRest

(* The type invariant holds in every reachable state, whatever the limits, the *)
(* number of submissions and the deadlines.                                    *)
THEOREM TypeCorrect == Spec => []TypeOK
  BY TypeInit, TypeStep, PTL DEF Spec

-----------------------------------------------------------------------------
(* The inductive invariant: one lemma for each of its parts. *)

(* The owners in the deques, and at their fronts, are where they should be. *)
LEMMA DequeOwners ==
  ASSUME IndInv
  PROVE  /\ \A i \in 1..Len(queue) : queue[i] \in Ids /\ owner[queue[i]] = "queue"
         /\ \A i \in 1..Len(ready) : ready[i] \in Ids /\ owner[ready[i]] = "ready"
         /\ queue # <<>> => Head(queue) \in Ids /\ owner[Head(queue)] = "queue"
         /\ ready # <<>> => Head(ready) \in Ids /\ owner[Head(ready)] = "ready"
<1>1. /\ queue \in Seq(Ids) /\ ready \in Seq(Ids)
      /\ Ascending(queue) /\ Ascending(ready)
      /\ \A t \in Ids : (In(t, queue) => owner[t] = "queue")
                       /\ (In(t, ready) => owner[t] = "ready")
  BY DEF IndInv, TypeOK, FifoPending, Places
<1>2. QED
  BY <1>1, PopAscending DEF In

(* Every step keeps the line of owners ascending and the `owner` map in      *)
(* agreement with the deques.                                                *)
LEMMA LineStep == IndInv /\ [Next]_vars => (FifoPending /\ Places)'
<1> SUFFICES ASSUME IndInv, [Next]_vars PROVE (FifoPending /\ Places)'
  OBVIOUS
<1> USE LimitsAssumption DEF IndInv, TypeOK, Places, FifoPending, StepOfOwner,
        PermitsMatchOwners, Owners, Enders, Steps, sched, ctl, own, mgrv, shutv
<1>1. ASSUME NEW t \in Ids, SubmitDirect(t) PROVE (FifoPending /\ Places)'
  <2>1. \A x \in Ids : In(x, ready) => x < t
    BY <1>1 DEF SubmitDirect
  <2>2. /\ Ascending(ready') /\ queue' = <<>>
        /\ \A x \in Ids : In(x, ready') <=> In(x, ready) \/ x = t
    BY <1>1, <2>1, PushAscending DEF SubmitDirect, AdmitsDirectly
  <2>3. \A x \in Ids : x < next_id => x < next_id + 1 /\ x # t
    BY <1>1 DEF SubmitDirect, Ids
  <2>4. QED
    BY <1>1, <2>2, <2>3, EmptyDeque DEF SubmitDirect, AdmitsDirectly
<1>2. ASSUME NEW t \in Ids, SubmitQueued(t) PROVE (FifoPending /\ Places)'
  <2>1. \A x \in Ids : In(x, queue) \/ In(x, ready) => x < t
    BY <1>2 DEF SubmitQueued
  <2>2. /\ Ascending(queue')
        /\ \A x \in Ids : In(x, queue') <=> In(x, queue) \/ x = t
    BY <1>2, <2>1, PushAscending DEF SubmitQueued
  <2>3. \A x \in Ids : x < next_id => x < next_id + 1 /\ x # t
    BY <1>2 DEF SubmitQueued, Ids
  <2>4. QED
    BY <1>2, <2>1, <2>2, <2>3 DEF SubmitQueued
<1>3. ASSUME NEW t \in Ids, SubmitFull(t) PROVE (FifoPending /\ Places)'
  <2>1. \A x \in Ids : x < next_id => x < next_id + 1 /\ x # t
    BY <1>3 DEF SubmitFull, Ids
  <2>2. QED
    BY <1>3, <2>1 DEF SubmitFull
<1>4. ASSUME NEW t \in Ids, SubmitNotify(t) PROVE (FifoPending /\ Places)'
  BY <1>4 DEF SubmitNotify, NotifyOne
<1>5. ASSUME NEW t \in Ids, EnsureManager(t) PROVE (FifoPending /\ Places)'
  BY <1>5 DEF EnsureManager
<1>6. ASSUME NEW t \in Ids, SpawnManager(t) PROVE (FifoPending /\ Places)'
  BY <1>6 DEF SpawnManager
<1>7. ASSUME NEW t \in Ids, SpawnManagerFails(t) PROVE (FifoPending /\ Places)'
  BY <1>7 DEF SpawnManagerFails
<1>8. ASSUME NEW t \in Ids, FailPending(t) PROVE (FifoPending /\ Places)'
  BY <1>8, EmptyDeque DEF FailPending
<1>9. ASSUME NEW t \in Ids, Cancel(t) PROVE (FifoPending /\ Places)'
  <2>1. CASE \E i \in 1..Len(queue) : queue[i] = t /\ queue' = RemoveAt(queue, i)
                                     /\ ready' = ready /\ owner' = [owner EXCEPT ![t] = "cancel"]
    <3>1. /\ Ascending(queue')
          /\ \A x \in Ids : In(x, queue') <=> In(x, queue) /\ x # t
      BY <2>1, RemoveAtAscending
    <3>2. In(t, queue)
      BY <2>1 DEF In
    <3>3. QED
      BY <1>9, <2>1, <3>1, <3>2 DEF Cancel, RequestCancelPending, RequestCancelOwned, NotifyAll
  <2>2. CASE \E i \in 1..Len(ready) : ready[i] = t /\ ready' = RemoveAt(ready, i)
                                     /\ queue' = queue /\ owner' = [owner EXCEPT ![t] = "cancel"]
    <3>1. /\ Ascending(ready')
          /\ \A x \in Ids : In(x, ready') <=> In(x, ready) /\ x # t
      BY <2>2, RemoveAtAscending
    <3>2. In(t, ready)
      BY <2>2 DEF In
    <3>3. QED
      BY <1>9, <2>2, <3>1, <3>2 DEF Cancel, RequestCancelPending, RequestCancelOwned, NotifyAll
  <2>3. CASE UNCHANGED <<queue, ready, owner>>
    BY <1>9, <2>3 DEF Cancel, RequestCancelPending, RequestCancelOwned, NotifyAll
  <2>4. QED
    BY <1>9, <2>1, <2>2, <2>3 DEF Cancel, RequestCancelPending, RequestCancelOwned
<1>10. ASSUME NEW t \in Ids, MarkTerminal(t) PROVE (FifoPending /\ Places)'
  BY <1>10 DEF MarkTerminal
<1>11. ASSUME NEW t \in Ids, ReleaseActive(t) PROVE (FifoPending /\ Places)'
  BY <1>11 DEF ReleaseActive
<1>12. ASSUME NEW t \in Ids, ReleaseNotify(t) PROVE (FifoPending /\ Places)'
  BY <1>12 DEF ReleaseNotify, NotifyAll
<1>13. ASSUME NEW t \in Ids, Publish(t) PROVE (FifoPending /\ Places)'
  BY <1>13 DEF Publish, NotifyAll
<1>14. ASSUME NEW t \in Ids, BeginStart(t) PROVE (FifoPending /\ Places)'
  BY <1>14 DEF BeginStart
<1>15. ASSUME NEW t \in Ids, MarkStarted(t) PROVE (FifoPending /\ Places)'
  BY <1>15 DEF MarkStarted
<1>16. ASSUME NEW t \in Ids, DeadlinePasses(t) PROVE (FifoPending /\ Places)'
  BY <1>16 DEF DeadlinePasses
<1>17. ASSUME NEW t \in Ids, MgrMarkDeadline(t) PROVE (FifoPending /\ Places)'
  BY <1>17 DEF MgrMarkDeadline
<1>18. ASSUME NEW t \in Ids, MgrSpawn(t) PROVE (FifoPending /\ Places)'
  BY <1>18 DEF MgrSpawn
<1>19. ASSUME NEW t \in Ids, ShutdownCheck(t) PROVE (FifoPending /\ Places)'
  BY <1>19 DEF ShutdownCheck
<1>20. ASSUME NEW t \in Ids, ShutdownMark(t) PROVE (FifoPending /\ Places)'
  BY <1>20 DEF ShutdownMark
<1>21. ASSUME NEW t \in Ids, ShutdownCancel(t) PROVE (FifoPending /\ Places)'
  BY <1>21 DEF ShutdownCancel, RequestCancelOwned, NotifyAll
<1>22. ASSUME NEW t \in Ids, NEW b \in BackendResults, Resolve(t, b)
       PROVE  (FifoPending /\ Places)'
  BY <1>22 DEF Resolve
<1>23. ASSUME NEW i \in Ids, MgrExpireQueue(i) PROVE (FifoPending /\ Places)'
  <2>1. i \in 1..Len(queue) /\ queue[i] \in Ids /\ In(queue[i], queue)
    BY <1>23 DEF MgrExpireQueue, FirstDue, In
  <2>2. /\ Ascending(queue')
        /\ \A x \in Ids : In(x, queue') <=> In(x, queue) /\ x # queue[i]
    BY <1>23, <2>1, RemoveAtAscending DEF MgrExpireQueue
  <2>3. QED
    BY <1>23, <2>1, <2>2 DEF MgrExpireQueue, Expire
<1>24. ASSUME NEW i \in Ids, MgrExpireReady(i) PROVE (FifoPending /\ Places)'
  <2>1. i \in 1..Len(ready) /\ ready[i] \in Ids /\ In(ready[i], ready)
    BY <1>24 DEF MgrExpireReady, FirstDue, In
  <2>2. /\ Ascending(ready')
        /\ \A x \in Ids : In(x, ready') <=> In(x, ready) /\ x # ready[i]
    BY <1>24, <2>1, RemoveAtAscending DEF MgrExpireReady
  <2>3. QED
    BY <1>24, <2>1, <2>2 DEF MgrExpireReady, Expire
<1>25. CASE MgrLock
  BY <1>25 DEF MgrLock
<1>26. CASE MgrPromote
  <2> DEFINE t == Head(queue)
  <2>1. /\ t \in Ids /\ In(t, queue) /\ Ascending(queue')
        /\ \A x \in Ids : In(x, queue') <=> In(x, queue) /\ x # t
        /\ \A x \in Ids : In(x, queue) => t <= x
    BY <1>26, PopAscending DEF MgrPromote
  <2>2. \A x \in Ids : In(x, ready) => x < t
    BY <2>1
  <2>3. /\ Ascending(ready')
        /\ \A x \in Ids : In(x, ready') <=> In(x, ready) \/ x = t
    BY <1>26, <2>1, <2>2, PushAscending DEF MgrPromote
  <2>4. owner' = [owner EXCEPT ![t] = "ready"]
    BY <1>26 DEF MgrPromote
  <2>5. \A x \in Ids : t <= x /\ x # t => t < x
    BY <2>1 DEF Ids
  <2> HIDE DEF t
  <2>6. QED
    BY <1>26, <2>1, <2>2, <2>3, <2>4, <2>5 DEF MgrPromote
<1>27. CASE MgrPop
  <2>1. CASE ready # <<>>
    <3> DEFINE t == Head(ready)
    <3>1. /\ t \in Ids /\ In(t, ready) /\ Ascending(Tail(ready))
          /\ \A x \in Ids : In(x, Tail(ready)) <=> In(x, ready) /\ x # t
      BY <2>1, PopAscending
    <3>2. owner' = [owner EXCEPT ![t] = "dispatch"] /\ ready' = Tail(ready)
      BY <1>27, <2>1 DEF MgrPop
    <3> HIDE DEF t
    <3>3. QED
      BY <1>27, <3>1, <3>2 DEF MgrPop
  <2>2. CASE ready = <<>>
    BY <1>27, <2>2 DEF MgrPop
  <2>3. QED
    BY <2>1, <2>2
<1>28. CASE MgrExit
  BY <1>28 DEF MgrExit
<1>29. CASE MgrIdle
  BY <1>29 DEF MgrIdle
<1>30. CASE MgrTimeout
  BY <1>30 DEF MgrTimeout
<1>31. CASE ShutdownBegin
  BY <1>31, EmptyDeque DEF ShutdownBegin
<1>32. CASE ShutdownUnlock
  BY <1>32 DEF ShutdownUnlock
<1>33. CASE ShutdownDrained
  BY <1>33 DEF ShutdownDrained
<1>34. CASE ShutdownLoop
  BY <1>34 DEF ShutdownLoop
<1>35. CASE ShutdownTimeout
  BY <1>35 DEF ShutdownTimeout
<1>36. CASE ShutdownCollect
  BY <1>36 DEF ShutdownCollect, StartedActive
<1>37. CASE ShutdownReturn
  BY <1>37 DEF ShutdownReturn
<1>38. CASE UNCHANGED vars
  BY <1>38 DEF vars
<1>39. QED
  BY <1>1, <1>2, <1>3, <1>4, <1>5, <1>6, <1>7, <1>8, <1>9, <1>10, <1>11, <1>12, <1>13, <1>14,
     <1>15, <1>16, <1>17, <1>18, <1>19, <1>20, <1>21, <1>22, <1>23, <1>24, <1>25, <1>26, <1>27,
     <1>28, <1>29, <1>30, <1>31, <1>32, <1>33, <1>34, <1>35, <1>36, <1>37, <1>38 DEF Next,
     Submitter, Finish, Backend, Manager, ShutdownRest

(* Every step keeps the progress of send_terminal in agreement with the      *)
(* holder of the owner.                                                      *)
LEMMA StepOfOwnerStep == IndInv /\ [Next]_vars => StepOfOwner'
<1> SUFFICES ASSUME IndInv, [Next]_vars PROVE StepOfOwner'
  OBVIOUS
<1> USE LimitsAssumption, DequeOwners
    DEF IndInv, TypeOK, Places, StepOfOwner, Owners, Enders, Steps, sched, ctl, own,
        mgrv, shutv
<1>1. ASSUME NEW t \in Ids, SubmitDirect(t) PROVE StepOfOwner'
  BY <1>1 DEF SubmitDirect
<1>2. ASSUME NEW t \in Ids, SubmitQueued(t) PROVE StepOfOwner'
  BY <1>2 DEF SubmitQueued
<1>3. ASSUME NEW t \in Ids, SubmitFull(t) PROVE StepOfOwner'
  BY <1>3 DEF SubmitFull
<1>4. ASSUME NEW t \in Ids, SubmitNotify(t) PROVE StepOfOwner'
  BY <1>4 DEF SubmitNotify, NotifyOne
<1>5. ASSUME NEW t \in Ids, EnsureManager(t) PROVE StepOfOwner'
  BY <1>5 DEF EnsureManager
<1>6. ASSUME NEW t \in Ids, SpawnManager(t) PROVE StepOfOwner'
  BY <1>6 DEF SpawnManager
<1>7. ASSUME NEW t \in Ids, SpawnManagerFails(t) PROVE StepOfOwner'
  BY <1>7 DEF SpawnManagerFails
<1>8. ASSUME NEW t \in Ids, FailPending(t) PROVE StepOfOwner'
  BY <1>8 DEF FailPending, Enders
<1>9. ASSUME NEW t \in Ids, Cancel(t) PROVE StepOfOwner'
  BY <1>9 DEF Cancel, RequestCancelPending, RequestCancelOwned, NotifyAll
<1>10. ASSUME NEW t \in Ids, MarkTerminal(t) PROVE StepOfOwner'
  BY <1>10 DEF MarkTerminal, AfterMark
<1>11. ASSUME NEW t \in Ids, ReleaseActive(t) PROVE StepOfOwner'
  BY <1>11 DEF ReleaseActive
<1>12. ASSUME NEW t \in Ids, ReleaseNotify(t) PROVE StepOfOwner'
  BY <1>12 DEF ReleaseNotify, NotifyAll
<1>13. ASSUME NEW t \in Ids, Publish(t) PROVE StepOfOwner'
  BY <1>13 DEF Publish, NotifyAll
<1>14. ASSUME NEW t \in Ids, BeginStart(t) PROVE StepOfOwner'
  BY <1>14 DEF BeginStart
<1>15. ASSUME NEW t \in Ids, MarkStarted(t) PROVE StepOfOwner'
  BY <1>15 DEF MarkStarted
<1>16. ASSUME NEW t \in Ids, DeadlinePasses(t) PROVE StepOfOwner'
  BY <1>16 DEF DeadlinePasses
<1>17. ASSUME NEW t \in Ids, MgrMarkDeadline(t) PROVE StepOfOwner'
  BY <1>17 DEF MgrMarkDeadline
<1>18. ASSUME NEW t \in Ids, MgrSpawn(t) PROVE StepOfOwner'
  BY <1>18 DEF MgrSpawn
<1>19. ASSUME NEW t \in Ids, ShutdownCheck(t) PROVE StepOfOwner'
  BY <1>19 DEF ShutdownCheck
<1>20. ASSUME NEW t \in Ids, ShutdownMark(t) PROVE StepOfOwner'
  BY <1>20 DEF ShutdownMark
<1>21. ASSUME NEW t \in Ids, ShutdownCancel(t) PROVE StepOfOwner'
  BY <1>21 DEF ShutdownCancel, RequestCancelOwned, NotifyAll
<1>22. ASSUME NEW t \in Ids, NEW b \in BackendResults, Resolve(t, b)
       PROVE  StepOfOwner'
  BY <1>22 DEF Resolve
<1>23. ASSUME NEW i \in Ids, MgrExpireQueue(i) PROVE StepOfOwner'
  <2>1. queue[i] \in Ids /\ owner[queue[i]] = "queue"
    BY <1>23 DEF MgrExpireQueue, FirstDue
  <2>2. QED
    BY <1>23, <2>1 DEF MgrExpireQueue, Expire
<1>24. ASSUME NEW i \in Ids, MgrExpireReady(i) PROVE StepOfOwner'
  <2>1. ready[i] \in Ids /\ owner[ready[i]] = "ready"
    BY <1>24 DEF MgrExpireReady, FirstDue
  <2>2. QED
    BY <1>24, <2>1 DEF MgrExpireReady, Expire
<1>25. CASE MgrLock
  BY <1>25 DEF MgrLock
<1>26. CASE MgrPromote
  BY <1>26 DEF MgrPromote
<1>27. CASE MgrPop
  <2>1. CASE ready # <<>>
    BY <1>27, <2>1 DEF MgrPop
  <2>2. CASE ready = <<>>
    BY <1>27, <2>2 DEF MgrPop
  <2>3. QED
    BY <2>1, <2>2
<1>28. CASE MgrExit
  BY <1>28 DEF MgrExit
<1>29. CASE MgrIdle
  BY <1>29 DEF MgrIdle
<1>30. CASE MgrTimeout
  BY <1>30 DEF MgrTimeout
<1>31. CASE ShutdownBegin
  BY <1>31 DEF ShutdownBegin
<1>32. CASE ShutdownUnlock
  BY <1>32 DEF ShutdownUnlock
<1>33. CASE ShutdownDrained
  BY <1>33 DEF ShutdownDrained
<1>34. CASE ShutdownLoop
  BY <1>34 DEF ShutdownLoop
<1>35. CASE ShutdownTimeout
  BY <1>35 DEF ShutdownTimeout
<1>36. CASE ShutdownCollect
  BY <1>36 DEF ShutdownCollect, StartedActive
<1>37. CASE ShutdownReturn
  BY <1>37 DEF ShutdownReturn
<1>38. CASE UNCHANGED vars
  BY <1>38 DEF vars
<1>39. QED
  BY <1>1, <1>2, <1>3, <1>4, <1>5, <1>6, <1>7, <1>8, <1>9, <1>10, <1>11, <1>12, <1>13, <1>14,
     <1>15, <1>16, <1>17, <1>18, <1>19, <1>20, <1>21, <1>22, <1>23, <1>24, <1>25, <1>26, <1>27,
     <1>28, <1>29, <1>30, <1>31, <1>32, <1>33, <1>34, <1>35, <1>36, <1>37, <1>38 DEF Next,
     Submitter, Finish, Backend, Manager, ShutdownRest

(* Every step keeps lifecycle, cancel reason and result in agreement with    *)
(* the place of the owner.                                                   *)
LEMMA ControlStep == IndInv /\ [Next]_vars => ControlOfOwner'
<1> SUFFICES ASSUME IndInv, [Next]_vars PROVE ControlOfOwner'
  OBVIOUS
<1> USE LimitsAssumption, DequeOwners
    DEF IndInv, TypeOK, Places, StepOfOwner, ControlOfOwner, IsTerminal,
        Cancellable, StateOfOutcome, Lifecycles, Terminal, Reasons, Results,
        Owners, Enders, Steps, sched, ctl, own, mgrv, shutv
<1>1. ASSUME NEW t \in Ids, SubmitDirect(t) PROVE ControlOfOwner'
  BY <1>1 DEF SubmitDirect
<1>2. ASSUME NEW t \in Ids, SubmitQueued(t) PROVE ControlOfOwner'
  BY <1>2 DEF SubmitQueued
<1>3. ASSUME NEW t \in Ids, SubmitFull(t) PROVE ControlOfOwner'
  BY <1>3 DEF SubmitFull
<1>4. ASSUME NEW t \in Ids, SubmitNotify(t) PROVE ControlOfOwner'
  BY <1>4 DEF SubmitNotify, NotifyOne
<1>5. ASSUME NEW t \in Ids, EnsureManager(t) PROVE ControlOfOwner'
  BY <1>5 DEF EnsureManager
<1>6. ASSUME NEW t \in Ids, SpawnManager(t) PROVE ControlOfOwner'
  BY <1>6 DEF SpawnManager
<1>7. ASSUME NEW t \in Ids, SpawnManagerFails(t) PROVE ControlOfOwner'
  BY <1>7 DEF SpawnManagerFails
<1>8. ASSUME NEW t \in Ids, FailPending(t) PROVE ControlOfOwner'
  BY <1>8 DEF FailPending, Enders
<1>9. ASSUME NEW t \in Ids, Cancel(t) PROVE ControlOfOwner'
  BY <1>9 DEF Cancel, RequestCancelPending, RequestCancelOwned, MarkCancelling, NotifyAll
<1>10. ASSUME NEW t \in Ids, MarkTerminal(t) PROVE ControlOfOwner'
  <2>1. owner[t] \in Enders
    BY <1>10 DEF MarkTerminal
  <2>2. /\ outcome'[t] # "none" /\ lifecycle'[t] = StateOfOutcome(outcome'[t])
        /\ cancel_reason'[t] # "none" => lifecycle'[t] \in {"Terminated", "Failed"}
    <3>1. CASE owner[t] \in {"fail", "unspawned"}
      BY <1>10, <3>1 DEF MarkTerminal
    <3>2. CASE owner[t] = "expired"
      BY <1>10, <3>2 DEF MarkTerminal
    <3>3. CASE owner[t] \in {"cancel", "shutdown"}
      BY <1>10, <3>3 DEF MarkTerminal
    <3>4. CASE owner[t] = "dead"
      BY <1>10, <3>4 DEF MarkTerminal
    <3>5. QED
      BY <2>1, <3>1, <3>2, <3>3, <3>4
  <2>3. step'[t] \in {"release", "publish"}
    BY <1>10 DEF MarkTerminal, AfterMark
  <2>4. \A u \in Ids \ {t} : /\ lifecycle'[u] = lifecycle[u]
                            /\ outcome'[u] = outcome[u] /\ step'[u] = step[u]
    BY <1>10 DEF MarkTerminal
  <2>5. UNCHANGED <<owner, cancel_reason, result>>
    BY <1>10 DEF MarkTerminal
  <2>6. result[t] = "none"
    BY <1>10 DEF MarkTerminal
  <2>7. QED
    BY <2>1, <2>2, <2>3, <2>4, <2>5, <2>6
<1>11. ASSUME NEW t \in Ids, ReleaseActive(t) PROVE ControlOfOwner'
  BY <1>11 DEF ReleaseActive
<1>12. ASSUME NEW t \in Ids, ReleaseNotify(t) PROVE ControlOfOwner'
  BY <1>12 DEF ReleaseNotify, NotifyAll
<1>13. ASSUME NEW t \in Ids, Publish(t) PROVE ControlOfOwner'
  BY <1>13 DEF Publish, NotifyAll
<1>14. ASSUME NEW t \in Ids, BeginStart(t) PROVE ControlOfOwner'
  BY <1>14 DEF BeginStart, MarkCancelling
<1>15. ASSUME NEW t \in Ids, MarkStarted(t) PROVE ControlOfOwner'
  BY <1>15 DEF MarkStarted
<1>16. ASSUME NEW t \in Ids, DeadlinePasses(t) PROVE ControlOfOwner'
  BY <1>16 DEF DeadlinePasses
<1>17. ASSUME NEW t \in Ids, MgrMarkDeadline(t) PROVE ControlOfOwner'
  <2>1. owner[t] \notin {"none", "queue", "ready"}
    BY <1>17 DEF MgrMarkDeadline, Overdue, NoneDue, In, PermitsMatchOwners
  <2>2. QED
    BY <1>17, <2>1 DEF MgrMarkDeadline, MarkCancelling
<1>18. ASSUME NEW t \in Ids, MgrSpawn(t) PROVE ControlOfOwner'
  BY <1>18 DEF MgrSpawn
<1>19. ASSUME NEW t \in Ids, ShutdownCheck(t) PROVE ControlOfOwner'
  BY <1>19 DEF ShutdownCheck
<1>20. ASSUME NEW t \in Ids, ShutdownMark(t) PROVE ControlOfOwner'
  BY <1>20 DEF ShutdownMark, MarkCancelling
<1>21. ASSUME NEW t \in Ids, ShutdownCancel(t) PROVE ControlOfOwner'
  BY <1>21 DEF ShutdownCancel, RequestCancelOwned, MarkCancelling, NotifyAll
<1>22. ASSUME NEW t \in Ids, NEW b \in BackendResults, Resolve(t, b)
       PROVE  ControlOfOwner'
  <2>1. LET o == ResolvedOutcome(b, cancel_reason[t])
        IN  o # "none" /\ (cancel_reason[t] # "none" => o # "Ok")
    BY DEF ResolvedOutcome, BackendResults
  <2>2. QED
    BY <1>22, <2>1 DEF Resolve
<1>23. ASSUME NEW i \in Ids, MgrExpireQueue(i) PROVE ControlOfOwner'
  <2>1. queue[i] \in Ids /\ owner[queue[i]] = "queue"
    BY <1>23 DEF MgrExpireQueue, FirstDue
  <2>2. QED
    BY <1>23, <2>1 DEF MgrExpireQueue, Expire, MarkCancelling
<1>24. ASSUME NEW i \in Ids, MgrExpireReady(i) PROVE ControlOfOwner'
  <2>1. ready[i] \in Ids /\ owner[ready[i]] = "ready"
    BY <1>24 DEF MgrExpireReady, FirstDue
  <2>2. QED
    BY <1>24, <2>1 DEF MgrExpireReady, Expire, MarkCancelling
<1>25. CASE MgrLock
  BY <1>25 DEF MgrLock
<1>26. CASE MgrPromote
  BY <1>26 DEF MgrPromote
<1>27. CASE MgrPop
  <2>1. CASE ready # <<>>
    BY <1>27, <2>1 DEF MgrPop
  <2>2. CASE ready = <<>>
    BY <1>27, <2>2 DEF MgrPop
  <2>3. QED
    BY <2>1, <2>2
<1>28. CASE MgrExit
  BY <1>28 DEF MgrExit
<1>29. CASE MgrIdle
  BY <1>29 DEF MgrIdle
<1>30. CASE MgrTimeout
  BY <1>30 DEF MgrTimeout
<1>31. CASE ShutdownBegin
  BY <1>31 DEF ShutdownBegin, MarkCancelling
<1>32. CASE ShutdownUnlock
  BY <1>32 DEF ShutdownUnlock
<1>33. CASE ShutdownDrained
  BY <1>33 DEF ShutdownDrained
<1>34. CASE ShutdownLoop
  BY <1>34 DEF ShutdownLoop
<1>35. CASE ShutdownTimeout
  BY <1>35 DEF ShutdownTimeout
<1>36. CASE ShutdownCollect
  BY <1>36 DEF ShutdownCollect, StartedActive
<1>37. CASE ShutdownReturn
  BY <1>37 DEF ShutdownReturn
<1>38. CASE UNCHANGED vars
  BY <1>38 DEF vars
<1>39. QED
  BY <1>1, <1>2, <1>3, <1>4, <1>5, <1>6, <1>7, <1>8, <1>9, <1>10, <1>11, <1>12, <1>13, <1>14,
     <1>15, <1>16, <1>17, <1>18, <1>19, <1>20, <1>21, <1>22, <1>23, <1>24, <1>25, <1>26, <1>27,
     <1>28, <1>29, <1>30, <1>31, <1>32, <1>33, <1>34, <1>35, <1>36, <1>37, <1>38 DEF Next,
     Submitter, Finish, Backend, Manager, ShutdownRest

(* Every step keeps the permits in agreement with the place of the owner.    *)
LEMMA PermitsStep == IndInv /\ [Next]_vars => PermitsMatchOwners'
<1> SUFFICES ASSUME IndInv, [Next]_vars PROVE PermitsMatchOwners'
  OBVIOUS
<1> USE LimitsAssumption, DequeOwners
    DEF IndInv, TypeOK, Places, StepOfOwner, PermitsMatchOwners, Owners,
        Enders, Steps, sched, ctl, own, mgrv, shutv
<1>1. ASSUME NEW t \in Ids, SubmitDirect(t) PROVE PermitsMatchOwners'
  BY <1>1 DEF SubmitDirect
<1>2. ASSUME NEW t \in Ids, SubmitQueued(t) PROVE PermitsMatchOwners'
  BY <1>2 DEF SubmitQueued
<1>3. ASSUME NEW t \in Ids, SubmitFull(t) PROVE PermitsMatchOwners'
  BY <1>3 DEF SubmitFull
<1>4. ASSUME NEW t \in Ids, SubmitNotify(t) PROVE PermitsMatchOwners'
  BY <1>4 DEF SubmitNotify, NotifyOne
<1>5. ASSUME NEW t \in Ids, EnsureManager(t) PROVE PermitsMatchOwners'
  BY <1>5 DEF EnsureManager
<1>6. ASSUME NEW t \in Ids, SpawnManager(t) PROVE PermitsMatchOwners'
  BY <1>6 DEF SpawnManager
<1>7. ASSUME NEW t \in Ids, SpawnManagerFails(t) PROVE PermitsMatchOwners'
  BY <1>7 DEF SpawnManagerFails
<1>8. ASSUME NEW t \in Ids, FailPending(t) PROVE PermitsMatchOwners'
  BY <1>8 DEF FailPending, Enders
<1>9. ASSUME NEW t \in Ids, Cancel(t) PROVE PermitsMatchOwners'
  BY <1>9 DEF Cancel, RequestCancelPending, RequestCancelOwned, NotifyAll
<1>10. ASSUME NEW t \in Ids, MarkTerminal(t) PROVE PermitsMatchOwners'
  BY <1>10 DEF MarkTerminal, AfterMark
<1>11. ASSUME NEW t \in Ids, ReleaseActive(t) PROVE PermitsMatchOwners'
  BY <1>11 DEF ReleaseActive
<1>12. ASSUME NEW t \in Ids, ReleaseNotify(t) PROVE PermitsMatchOwners'
  BY <1>12 DEF ReleaseNotify, NotifyAll
<1>13. ASSUME NEW t \in Ids, Publish(t) PROVE PermitsMatchOwners'
  BY <1>13 DEF Publish, NotifyAll
<1>14. ASSUME NEW t \in Ids, BeginStart(t) PROVE PermitsMatchOwners'
  BY <1>14 DEF BeginStart
<1>15. ASSUME NEW t \in Ids, MarkStarted(t) PROVE PermitsMatchOwners'
  BY <1>15 DEF MarkStarted
<1>16. ASSUME NEW t \in Ids, DeadlinePasses(t) PROVE PermitsMatchOwners'
  BY <1>16 DEF DeadlinePasses
<1>17. ASSUME NEW t \in Ids, MgrMarkDeadline(t) PROVE PermitsMatchOwners'
  BY <1>17 DEF MgrMarkDeadline
<1>18. ASSUME NEW t \in Ids, MgrSpawn(t) PROVE PermitsMatchOwners'
  BY <1>18 DEF MgrSpawn
<1>19. ASSUME NEW t \in Ids, ShutdownCheck(t) PROVE PermitsMatchOwners'
  BY <1>19 DEF ShutdownCheck
<1>20. ASSUME NEW t \in Ids, ShutdownMark(t) PROVE PermitsMatchOwners'
  BY <1>20 DEF ShutdownMark
<1>21. ASSUME NEW t \in Ids, ShutdownCancel(t) PROVE PermitsMatchOwners'
  BY <1>21 DEF ShutdownCancel, RequestCancelOwned, NotifyAll
<1>22. ASSUME NEW t \in Ids, NEW b \in BackendResults, Resolve(t, b)
       PROVE  PermitsMatchOwners'
  BY <1>22 DEF Resolve
<1>23. ASSUME NEW i \in Ids, MgrExpireQueue(i) PROVE PermitsMatchOwners'
  <2>1. queue[i] \in Ids /\ owner[queue[i]] = "queue"
    BY <1>23 DEF MgrExpireQueue, FirstDue
  <2>2. QED
    BY <1>23, <2>1 DEF MgrExpireQueue, Expire
<1>24. ASSUME NEW i \in Ids, MgrExpireReady(i) PROVE PermitsMatchOwners'
  <2>1. ready[i] \in Ids /\ owner[ready[i]] = "ready"
    BY <1>24 DEF MgrExpireReady, FirstDue
  <2>2. QED
    BY <1>24, <2>1 DEF MgrExpireReady, Expire
<1>25. CASE MgrLock
  BY <1>25 DEF MgrLock
<1>26. CASE MgrPromote
  BY <1>26 DEF MgrPromote
<1>27. CASE MgrPop
  <2>1. CASE ready # <<>>
    BY <1>27, <2>1 DEF MgrPop
  <2>2. CASE ready = <<>>
    BY <1>27, <2>2 DEF MgrPop
  <2>3. QED
    BY <2>1, <2>2
<1>28. CASE MgrExit
  BY <1>28 DEF MgrExit
<1>29. CASE MgrIdle
  BY <1>29 DEF MgrIdle
<1>30. CASE MgrTimeout
  BY <1>30 DEF MgrTimeout
<1>31. CASE ShutdownBegin
  BY <1>31 DEF ShutdownBegin
<1>32. CASE ShutdownUnlock
  BY <1>32 DEF ShutdownUnlock
<1>33. CASE ShutdownDrained
  BY <1>33 DEF ShutdownDrained
<1>34. CASE ShutdownLoop
  BY <1>34 DEF ShutdownLoop
<1>35. CASE ShutdownTimeout
  BY <1>35 DEF ShutdownTimeout
<1>36. CASE ShutdownCollect
  BY <1>36 DEF ShutdownCollect, StartedActive
<1>37. CASE ShutdownReturn
  BY <1>37 DEF ShutdownReturn
<1>38. CASE UNCHANGED vars
  BY <1>38 DEF vars
<1>39. QED
  BY <1>1, <1>2, <1>3, <1>4, <1>5, <1>6, <1>7, <1>8, <1>9, <1>10, <1>11, <1>12, <1>13, <1>14,
     <1>15, <1>16, <1>17, <1>18, <1>19, <1>20, <1>21, <1>22, <1>23, <1>24, <1>25, <1>26, <1>27,
     <1>28, <1>29, <1>30, <1>31, <1>32, <1>33, <1>34, <1>35, <1>36, <1>37, <1>38 DEF Next,
     Submitter, Finish, Backend, Manager, ShutdownRest

(* The set of permits is finite, so that it can be counted. *)
LEMMA PermitsAreFinite ==
  ASSUME TypeOK
  PROVE  /\ IsFiniteSet(active) /\ Cardinality(active) \in Nat
         /\ \A t \in Ids : /\ Cardinality(active \cup {t}) \in Nat
                          /\ Cardinality(active \cup {t}) <= Cardinality(active) + 1
         /\ \A t \in Ids : /\ Cardinality(active \ {t}) \in Nat
                          /\ Cardinality(active \ {t}) <= Cardinality(active)
<1>1. IsFiniteSet(Ids)
  BY LimitsAssumption, FS_Interval DEF Ids
<1>2. IsFiniteSet(active)
  BY <1>1, FS_Subset DEF TypeOK
<1>3. Cardinality(active) \in Nat
  BY <1>2, FS_CardinalityType
<1>4. ASSUME NEW t \in Ids
      PROVE  /\ Cardinality(active \cup {t}) \in Nat
             /\ Cardinality(active \cup {t}) <= Cardinality(active) + 1
  <2>1. Cardinality(active \cup {t}) =
          IF t \in active THEN Cardinality(active) ELSE Cardinality(active) + 1
    BY <1>2, FS_AddElement
  <2>2. QED
    BY <1>3, <2>1
<1>5. ASSUME NEW t \in Ids
      PROVE  /\ Cardinality(active \ {t}) \in Nat
             /\ Cardinality(active \ {t}) <= Cardinality(active)
  <2>1. active \ {t} \subseteq active
    OBVIOUS
  <2>2. QED
    BY <1>2, <2>1, FS_Subset, FS_CardinalityType
<1>6. QED
  BY <1>2, <1>3, <1>4, <1>5

(* The only ways in which a step changes the permits and the queue. *)
LEMMA AdmissionChanges ==
  ASSUME [Next]_vars
  PROVE  /\ \/ active' = active
            \/ HasSlot /\ \E t \in Ids : active' = active \cup {t}
            \/ \E t \in Ids : active' = active \ {t}
            \/ HasSlot /\ queue # <<>> /\ active' = active \cup {Head(queue)}
         /\ \/ queue' = queue \/ queue' = <<>>
            \/ Len(queue) < QueueLimit /\ \E t \in Ids : queue' = Append(queue, t)
            \/ \E i \in 1..Len(queue) : queue' = RemoveAt(queue, i)
            \/ queue # <<>> /\ queue' = Tail(queue)
  BY DEF Next, Submitter, Finish, Backend, Manager, ShutdownRest, SubmitDirect, SubmitQueued,
     SubmitFull, SubmitNotify, EnsureManager, SpawnManager, SpawnManagerFails, FailPending, Cancel,
     RequestCancelPending, RequestCancelOwned, MarkTerminal, ReleaseActive, ReleaseNotify, Publish,
     BeginStart, MarkStarted, Resolve, DeadlinePasses, MgrMarkDeadline, MgrSpawn, MgrExpireQueue,
     MgrExpireReady, Expire, FirstDue, MgrLock, MgrPromote, MgrPop, MgrExit, MgrIdle, MgrTimeout,
     ShutdownBegin, ShutdownCheck, ShutdownMark, ShutdownUnlock, ShutdownDrained, ShutdownLoop,
     ShutdownTimeout, ShutdownCollect, ShutdownCancel, ShutdownReturn, AdmitsDirectly, sched, vars

(* No step exceeds a limit. *)
LEMMA LimitsStep == IndInv /\ [Next]_vars => AdmissionLimits'
<1> SUFFICES ASSUME IndInv, [Next]_vars PROVE AdmissionLimits'
  OBVIOUS
<1>1. /\ TypeOK /\ queue \in Seq(Ids) /\ Len(queue) \in Nat
      /\ Cardinality(active) <= ActiveLimit /\ Len(queue) <= QueueLimit
      /\ queue # <<>> => Head(queue) \in Ids
      /\ ActiveLimit \in Nat /\ QueueLimit \in Nat
  BY LimitsAssumption, DequeOwners DEF IndInv, TypeOK, AdmissionLimits
<1>2. Cardinality(active') <= ActiveLimit
  BY <1>1, AdmissionChanges, PermitsAreFinite DEF HasSlot
<1>3. Len(queue') <= QueueLimit
  <2>1. \A i \in 1..Len(queue) : Len(RemoveAt(queue, i)) = Len(queue) - 1
    BY <1>1, RemoveAtProperties
  <2>2. \A t \in Ids : Len(Append(queue, t)) = Len(queue) + 1
    BY <1>1, AppendProperties
  <2>3. queue # <<>> => Len(Tail(queue)) = Len(queue) - 1
    BY <1>1, HeadTailProperties
  <2>4. Len(<<>>) = 0
    OBVIOUS
  <2>5. QED
    BY <1>1, <2>1, <2>2, <2>3, <2>4, AdmissionChanges
<1>4. QED
  BY <1>2, <1>3 DEF AdmissionLimits

(* Initially nothing is submitted. *)
LEMMA IndInit == Init => IndInv
<1> SUFFICES ASSUME Init PROVE IndInv
  OBVIOUS
<1>1. TypeOK
  BY TypeInit
<1>2. FifoPending /\ Places
  BY EmptyDeque DEF Init, FifoPending, Places
<1>3. StepOfOwner /\ ControlOfOwner /\ PermitsMatchOwners
  BY DEF Init, StepOfOwner, ControlOfOwner, PermitsMatchOwners, IsTerminal, Terminal, Enders
<1>4. AdmissionLimits
  BY LimitsAssumption, FS_EmptySet DEF Init, AdmissionLimits
<1>5. QED
  BY <1>1, <1>2, <1>3, <1>4 DEF IndInv

(* The inductive invariant holds in every reachable state. *)
THEOREM IndInvariant == Spec => []IndInv
<1>1. IndInv /\ [Next]_vars => IndInv'
  BY TypeStep, LineStep, StepOfOwnerStep, ControlStep, PermitsStep, LimitsStep
     DEF IndInv
<1>2. QED
  BY <1>1, IndInit, PTL DEF Spec

-----------------------------------------------------------------------------
(* The manager thread. *)

(* Behind SingleManager and NoStrandedWork: the flag stands for a manager or   *)
(* for the one caller about to start it; a manager leaves when there is no     *)
(* work, and for good only after shutdown; without one no task can have been   *)
(* dispatched.                                                                 *)
ManagerSound ==
  /\ SingleManager
  /\ manager_started => mgr # "none" \/ \E t \in Ids : sub[t] = "spawn"
  /\ mgr = "exit" => ~accepting /\ AllEmpty
  /\ mgr = "none" => \A t \in active : owner[t] \in {"ready", "fail", "shutdown", "cancel"}
  /\ NoStrandedWork

(* Every step keeps it. *)
LEMMA ManagerStep == IndInv /\ ManagerSound /\ [Next]_vars => ManagerSound'
<1> SUFFICES ASSUME IndInv, ManagerSound, [Next]_vars PROVE ManagerSound'
  OBVIOUS
<1>0. /\ TypeOK /\ Places /\ StepOfOwner /\ PermitsMatchOwners
      /\ ~accepting => queue = <<>> /\ ready = <<>>
  BY DequeOwners DEF IndInv, Places
<1> USE <1>0 DEF TypeOK, ManagerSound, SingleManager, NoStrandedWork, AllEmpty,
        StepOfOwner, Owners, Enders, Steps, sched, ctl, own, mgrv, shutv
<1>1. ASSUME NEW t \in Ids, SubmitDirect(t) PROVE ManagerSound'
  <2>1. sub[t] \notin {"notify", "ensure", "spawn", "failing"} /\ accepting
    BY <1>1 DEF SubmitDirect, Places
  <2>2. /\ mgr' = mgr /\ manager_started' = manager_started /\ accepting' = accepting
        /\ sub' = [sub EXCEPT ![t] = "notify"]
        /\ active' = active \cup {t} /\ owner' = [owner EXCEPT ![t] = "ready"]
    BY <1>1 DEF SubmitDirect, Places, PermitsMatchOwners
  <2>3. SingleManager' /\ (manager_started' => mgr' # "none" \/ \E u \in Ids : sub'[u] = "spawn")
    BY <2>1, <2>2
  <2>4. mgr # "exit"
    BY <2>1
  <2>5. QED
    BY <2>1, <2>2, <2>3, <2>4
<1>2. ASSUME NEW t \in Ids, SubmitQueued(t) PROVE ManagerSound'
  <2>1. sub[t] \notin {"notify", "ensure", "spawn", "failing"} /\ accepting
    BY <1>2 DEF SubmitQueued, Places
  <2>2. /\ mgr' = mgr /\ manager_started' = manager_started /\ accepting' = accepting
        /\ sub' = [sub EXCEPT ![t] = "notify"]
        /\ active' = active /\ owner' = [owner EXCEPT ![t] = "queue"] /\ ready' = ready /\ t \notin active
    BY <1>2 DEF SubmitQueued, Places, PermitsMatchOwners
  <2>3. SingleManager' /\ (manager_started' => mgr' # "none" \/ \E u \in Ids : sub'[u] = "spawn")
    BY <2>1, <2>2
  <2>4. mgr # "exit"
    BY <2>1
  <2>5. QED
    BY <2>1, <2>2, <2>3, <2>4
<1>3. ASSUME NEW t \in Ids, SubmitFull(t) PROVE ManagerSound'
  <2>1. sub[t] \notin {"notify", "ensure", "spawn", "failing"} /\ accepting
    BY <1>3 DEF SubmitFull, Places
  <2>2. /\ mgr' = mgr /\ manager_started' = manager_started /\ accepting' = accepting
        /\ sub' = [sub EXCEPT ![t] = "err"]
        /\ UNCHANGED <<active, owner, queue, ready>>
    BY <1>3 DEF SubmitFull, Places, PermitsMatchOwners
  <2>3. SingleManager' /\ (manager_started' => mgr' # "none" \/ \E u \in Ids : sub'[u] = "spawn")
    BY <2>1, <2>2
  <2>4. mgr # "exit"
    BY <2>1
  <2>5. QED
    BY <2>1, <2>2, <2>3, <2>4
<1>4. ASSUME NEW t \in Ids, SubmitNotify(t) PROVE ManagerSound'
  BY <1>4 DEF SubmitNotify, NotifyOne
<1>5. ASSUME NEW t \in Ids, EnsureManager(t) PROVE ManagerSound'
  BY <1>5 DEF EnsureManager
<1>6. ASSUME NEW t \in Ids, SpawnManager(t) PROVE ManagerSound'
  BY <1>6 DEF SpawnManager
<1>7. ASSUME NEW t \in Ids, SpawnManagerFails(t) PROVE ManagerSound'
  BY <1>7 DEF SpawnManagerFails
<1>8. ASSUME NEW t \in Ids, FailPending(t) PROVE ManagerSound'
  BY <1>8 DEF FailPending
<1>9. ASSUME NEW t \in Ids, Cancel(t) PROVE ManagerSound'
  BY <1>9 DEF Cancel, RequestCancelPending, RequestCancelOwned, NotifyAll
<1>10. ASSUME NEW t \in Ids, MarkTerminal(t) PROVE ManagerSound'
  BY <1>10 DEF MarkTerminal
<1>11. ASSUME NEW t \in Ids, ReleaseActive(t) PROVE ManagerSound'
  BY <1>11 DEF ReleaseActive
<1>12. ASSUME NEW t \in Ids, ReleaseNotify(t) PROVE ManagerSound'
  BY <1>12 DEF ReleaseNotify, NotifyAll
<1>13. ASSUME NEW t \in Ids, Publish(t) PROVE ManagerSound'
  BY <1>13 DEF Publish, NotifyAll, PermitsMatchOwners
<1>14. ASSUME NEW t \in Ids, BeginStart(t) PROVE ManagerSound'
  BY <1>14 DEF BeginStart
<1>15. ASSUME NEW t \in Ids, MarkStarted(t) PROVE ManagerSound'
  BY <1>15 DEF MarkStarted
<1>16. ASSUME NEW t \in Ids, DeadlinePasses(t) PROVE ManagerSound'
  BY <1>16 DEF DeadlinePasses
<1>17. ASSUME NEW t \in Ids, MgrMarkDeadline(t) PROVE ManagerSound'
  BY <1>17 DEF MgrMarkDeadline
<1>18. ASSUME NEW t \in Ids, MgrSpawn(t) PROVE ManagerSound'
  BY <1>18 DEF MgrSpawn
<1>19. ASSUME NEW t \in Ids, ShutdownCheck(t) PROVE ManagerSound'
  BY <1>19 DEF ShutdownCheck
<1>20. ASSUME NEW t \in Ids, ShutdownMark(t) PROVE ManagerSound'
  BY <1>20 DEF ShutdownMark
<1>21. ASSUME NEW t \in Ids, ShutdownCancel(t) PROVE ManagerSound'
  BY <1>21 DEF ShutdownCancel, RequestCancelOwned, NotifyAll
<1>22. ASSUME NEW t \in Ids, NEW b \in BackendResults, Resolve(t, b) PROVE ManagerSound'
  BY <1>22 DEF Resolve
<1>23. ASSUME NEW i \in Ids, MgrExpireQueue(i) PROVE ManagerSound'
  BY <1>23 DEF MgrExpireQueue, Expire
<1>24. ASSUME NEW i \in Ids, MgrExpireReady(i) PROVE ManagerSound'
  BY <1>24 DEF MgrExpireReady, Expire
<1>25. CASE MgrLock
  BY <1>25 DEF MgrLock
<1>26. CASE MgrPromote
  BY <1>26 DEF MgrPromote
<1>27. CASE MgrPop
  BY <1>27 DEF MgrPop
<1>28. CASE MgrExit
  BY <1>28 DEF MgrExit
<1>29. CASE MgrIdle
  <2>1. mgr = "idle" /\ UNCHANGED <<queue, ready, active, accepting, owner, sub>>
    BY <1>29 DEF MgrIdle
  <2>2. CASE AllEmpty /\ mgr' = "none" /\ manager_started' = FALSE
    BY <2>1, <2>2
  <2>3. CASE mgr' \in {"top", "wait"} /\ manager_started' = manager_started
    BY <2>1, <2>3
  <2>4. QED
    BY <1>29, <2>2, <2>3 DEF MgrIdle
<1>30. CASE MgrTimeout
  BY <1>30 DEF MgrTimeout
<1>31. CASE ShutdownBegin
  BY <1>31 DEF ShutdownBegin
<1>32. CASE ShutdownUnlock
  BY <1>32 DEF ShutdownUnlock
<1>33. CASE ShutdownDrained
  BY <1>33 DEF ShutdownDrained
<1>34. CASE ShutdownLoop
  BY <1>34 DEF ShutdownLoop
<1>35. CASE ShutdownTimeout
  BY <1>35 DEF ShutdownTimeout
<1>36. CASE ShutdownCollect
  BY <1>36 DEF ShutdownCollect
<1>37. CASE ShutdownReturn
  BY <1>37 DEF ShutdownReturn
<1>38. CASE UNCHANGED vars
  BY <1>38 DEF vars
<1>39. QED
  BY <1>1, <1>2, <1>3, <1>4, <1>5, <1>6, <1>7, <1>8, <1>9, <1>10, <1>11, <1>12, <1>13, <1>14,
     <1>15, <1>16, <1>17, <1>18, <1>19, <1>20, <1>21, <1>22, <1>23, <1>24, <1>25, <1>26, <1>27,
     <1>28, <1>29, <1>30, <1>31, <1>32, <1>33, <1>34, <1>35, <1>36, <1>37, <1>38 DEF Next,
     Submitter, Finish, Backend, Manager, ShutdownRest

(* Nothing becomes dispatchable behind a sleeping manager without a notify  *)
(* under way: the step that submits or gives a permit back is followed by one. *)
LEMMA WakeupStep == IndInv /\ NoLostWakeup /\ [Next]_vars => NoLostWakeup'
<1> SUFFICES ASSUME IndInv, NoLostWakeup, [Next]_vars PROVE NoLostWakeup'
  OBVIOUS
<1>0. /\ owner \in [Ids -> Owners] /\ step \in [Ids -> Steps]
      /\ sub \in [Ids -> {"none", "notify", "ensure", "spawn", "failing", "ok", "err"}]
      /\ StepOfOwner
      /\ ~accepting => queue = <<>> /\ ready = <<>>
      /\ shut # "none" => ~accepting
  BY DequeOwners DEF IndInv, TypeOK, Places
<1>a. ASSUME UNCHANGED <<queue, ready, active>> PROVE HasDispatchablePending' <=> HasDispatchablePending
  BY <1>a DEF HasDispatchablePending, HasSlot
<1>b. ASSUME NEW t \in Ids, NEW next, step' = [step EXCEPT ![t] = next], step[t] # "notify"
      PROVE  \A u \in Ids : step[u] = "notify" => step'[u] = "notify"
  BY <1>0, <1>b
<1>d. ASSUME NEW t \in Ids, step' = [step EXCEPT ![t] = "notify"] PROVE step'[t] = "notify"
  BY <1>0, <1>d
<1>c. ASSUME mgr' = mgr, HasDispatchablePending' => HasDispatchablePending,
             \A u \in Ids : step[u] = "notify" => step'[u] = "notify",
             \A u \in Ids : sub[u] = "notify" => sub'[u] = "notify"
      PROVE  NoLostWakeup'
  BY <1>c DEF NoLostWakeup
<1> USE <1>0, <1>a DEF NoLostWakeup, StepOfOwner, Owners, Enders, Steps, sched, ctl, own, mgrv,
   shutv
<1>1. ASSUME NEW t \in Ids, SubmitDirect(t) PROVE NoLostWakeup'
  BY <1>1 DEF SubmitDirect
<1>2. ASSUME NEW t \in Ids, SubmitQueued(t) PROVE NoLostWakeup'
  BY <1>2 DEF SubmitQueued
<1>3. ASSUME NEW t \in Ids, SubmitFull(t) PROVE NoLostWakeup'
  <2>1. sub[t] # "notify"
    BY <1>3 DEF IndInv, SubmitFull, Places
  <2>2. sub' = [sub EXCEPT ![t] = "err"] /\ UNCHANGED <<queue, ready, active, mgr, step>>
    BY <1>3 DEF SubmitFull
  <2>3. QED
    BY <1>c, <2>1, <2>2
<1>4. ASSUME NEW t \in Ids, SubmitNotify(t) PROVE NoLostWakeup'
  <2>1. CASE mgr = "wait" /\ shut # "wait"
    BY <1>4, <2>1 DEF SubmitNotify, NotifyOne
  <2>2. CASE shut = "wait"
    <3>1. ~HasDispatchablePending'
      BY <1>4, <2>2 DEF SubmitNotify, HasDispatchablePending
    <3>2. QED
      BY <3>1
  <2>3. CASE mgr # "wait" /\ shut # "wait"
    BY <1>4, <2>3 DEF SubmitNotify, NotifyOne
  <2>4. QED
    BY <2>1, <2>2, <2>3
<1>5. ASSUME NEW t \in Ids, EnsureManager(t) PROVE NoLostWakeup'
  BY <1>5 DEF EnsureManager
<1>6. ASSUME NEW t \in Ids, SpawnManager(t) PROVE NoLostWakeup'
  BY <1>6 DEF SpawnManager
<1>7. ASSUME NEW t \in Ids, SpawnManagerFails(t) PROVE NoLostWakeup'
  BY <1>7 DEF SpawnManagerFails
<1>8. ASSUME NEW t \in Ids, FailPending(t) PROVE NoLostWakeup'
  <2>1. ~HasDispatchablePending'
    BY <1>8 DEF FailPending, HasDispatchablePending
  <2>2. QED
    BY <2>1
<1>9. ASSUME NEW t \in Ids, Cancel(t) PROVE NoLostWakeup'
  <2>1. CASE RequestCancelPending(t, "User")
    <3>1. owner[t] \in {"queue", "ready"}
      BY <2>1, DequeOwners DEF RequestCancelPending
    <3>2. step[t] # "notify" /\ step' = [step EXCEPT ![t] = "mark"] /\ UNCHANGED <<active, mgr, sub>>
      BY <1>9, <2>1, <3>1 DEF Cancel, RequestCancelPending
    <3>3. (queue' # <<>> => queue # <<>>) /\ (ready' # <<>> => ready # <<>>)
      BY <2>1, EmptyDeque DEF RequestCancelPending
    <3>4. HasDispatchablePending' => HasDispatchablePending
      BY <3>2, <3>3 DEF HasDispatchablePending, HasSlot
    <3>5. QED
      BY <1>b, <1>c, <3>2, <3>4
  <2>2. CASE RequestCancelOwned(t, "User")
    BY <2>2 DEF RequestCancelOwned, NotifyAll
  <2>3. QED
    BY <1>9, <2>1, <2>2 DEF Cancel
<1>10. ASSUME NEW t \in Ids, MarkTerminal(t) PROVE NoLostWakeup'
  <2>1. step[t] # "notify" /\ UNCHANGED <<queue, ready, active, mgr, sub>>
    BY <1>10 DEF MarkTerminal
  <2>2. step' = step \/ \E next : step' = [step EXCEPT ![t] = next]
    BY <1>10 DEF MarkTerminal
  <2>3. QED
    BY <1>b, <1>c, <2>1, <2>2
<1>11. ASSUME NEW t \in Ids, ReleaseActive(t) PROVE NoLostWakeup'
  <2>1. step' = [step EXCEPT ![t] = "notify"]
    BY <1>11 DEF ReleaseActive
  <2>2. step'[t] = "notify"
    BY <2>1, <1>d
  <2>3. QED
    BY <2>2
<1>12. ASSUME NEW t \in Ids, ReleaseNotify(t) PROVE NoLostWakeup'
  BY <1>12 DEF ReleaseNotify, NotifyAll
<1>13. ASSUME NEW t \in Ids, Publish(t) PROVE NoLostWakeup'
  <2>1. step[t] # "notify" /\ UNCHANGED <<queue, ready, active, sub>> /\ step' = [step EXCEPT ![t] = "done"]
        /\ (mgr' = mgr \/ mgr' # "wait")
    BY <1>13 DEF Publish, NotifyAll
  <2>2. CASE mgr' = mgr
    BY <1>b, <1>c, <2>1, <2>2
  <2>3. CASE mgr' # "wait"
    BY <2>3
  <2>4. QED
    BY <2>1, <2>2, <2>3
<1>14. ASSUME NEW t \in Ids, BeginStart(t) PROVE NoLostWakeup'
  <2>1. step[t] # "notify" /\ UNCHANGED <<queue, ready, active, mgr, sub>>
    BY <1>14 DEF BeginStart
  <2>2. step' = step \/ \E next : step' = [step EXCEPT ![t] = next]
    BY <1>14 DEF BeginStart
  <2>3. QED
    BY <1>b, <1>c, <2>1, <2>2
<1>15. ASSUME NEW t \in Ids, MarkStarted(t) PROVE NoLostWakeup'
  BY <1>15 DEF MarkStarted
<1>16. ASSUME NEW t \in Ids, DeadlinePasses(t) PROVE NoLostWakeup'
  BY <1>16 DEF DeadlinePasses
<1>17. ASSUME NEW t \in Ids, MgrMarkDeadline(t) PROVE NoLostWakeup'
  BY <1>17 DEF MgrMarkDeadline
<1>18. ASSUME NEW t \in Ids, MgrSpawn(t) PROVE NoLostWakeup'
  BY <1>18 DEF MgrSpawn
<1>19. ASSUME NEW t \in Ids, ShutdownCheck(t) PROVE NoLostWakeup'
  BY <1>19 DEF ShutdownCheck
<1>20. ASSUME NEW t \in Ids, ShutdownMark(t) PROVE NoLostWakeup'
  BY <1>20 DEF ShutdownMark
<1>21. ASSUME NEW t \in Ids, ShutdownCancel(t) PROVE NoLostWakeup'
  BY <1>21 DEF ShutdownCancel, RequestCancelOwned, NotifyAll
<1>22. ASSUME NEW t \in Ids, NEW b \in BackendResults, Resolve(t, b) PROVE NoLostWakeup'
  <2>1. step[t] # "notify" /\ UNCHANGED <<queue, ready, active, mgr, sub>>
    BY <1>22 DEF Resolve
  <2>2. step' = step \/ \E next : step' = [step EXCEPT ![t] = next]
    BY <1>22 DEF Resolve
  <2>3. QED
    BY <1>b, <1>c, <2>1, <2>2
<1>23. ASSUME NEW i \in Ids, MgrExpireQueue(i) PROVE NoLostWakeup'
  BY <1>23 DEF MgrExpireQueue, Expire
<1>24. ASSUME NEW i \in Ids, MgrExpireReady(i) PROVE NoLostWakeup'
  BY <1>24 DEF MgrExpireReady, Expire
<1>25. CASE MgrLock
  BY <1>25 DEF MgrLock
<1>26. CASE MgrPromote
  BY <1>26 DEF MgrPromote
<1>27. CASE MgrPop
  BY <1>27 DEF MgrPop
<1>28. CASE MgrExit
  BY <1>28 DEF MgrExit
<1>29. CASE MgrIdle
  <2>1. UNCHANGED <<queue, ready, active>> /\ (mgr' # "wait" \/ ~HasDispatchablePending)
    BY <1>29 DEF MgrIdle
  <2>2. QED
    BY <2>1
<1>30. CASE MgrTimeout
  BY <1>30 DEF MgrTimeout
<1>31. CASE ShutdownBegin
  <2>1. ~HasDispatchablePending'
    BY <1>31 DEF ShutdownBegin, HasDispatchablePending
  <2>2. QED
    BY <2>1
<1>32. CASE ShutdownUnlock
  BY <1>32 DEF ShutdownUnlock
<1>33. CASE ShutdownDrained
  BY <1>33 DEF ShutdownDrained
<1>34. CASE ShutdownLoop
  BY <1>34 DEF ShutdownLoop
<1>35. CASE ShutdownTimeout
  BY <1>35 DEF ShutdownTimeout
<1>36. CASE ShutdownCollect
  BY <1>36 DEF ShutdownCollect
<1>37. CASE ShutdownReturn
  BY <1>37 DEF ShutdownReturn
<1>38. CASE UNCHANGED vars
  BY <1>38 DEF vars
<1>39. QED
  BY <1>1, <1>2, <1>3, <1>4, <1>5, <1>6, <1>7, <1>8, <1>9, <1>10, <1>11, <1>12, <1>13, <1>14,
     <1>15, <1>16, <1>17, <1>18, <1>19, <1>20, <1>21, <1>22, <1>23, <1>24, <1>25, <1>26, <1>27,
     <1>28, <1>29, <1>30, <1>31, <1>32, <1>33, <1>34, <1>35, <1>36, <1>37, <1>38 DEF Next,
     Submitter, Finish, Backend, Manager, ShutdownRest

-----------------------------------------------------------------------------
(* Shutdown. *)

(* Once shutdown has stopped admission, the admitted tasks that could still     *)
(* start are those its scan has not yet looked at; one that is being dispatched *)
(* and is not cancelled has not started.                                        *)
Scanned ==
  /\ shut # "none" => \A t \in active :
       lifecycle[t] = "AcceptedNotStarted" /\ cancel_reason[t] = "none" =>
         shut = "scan" /\ t \in todo \cup checked
  /\ \A t, u \in checked : t = u
  /\ \A t \in Ids : owner[t] \in {"dispatch", "thread"} /\ cancel_reason[t] = "none" =>
       lifecycle[t] = "AcceptedNotStarted"

(* Every step keeps it. *)
LEMMA ScanStep == IndInv /\ Scanned /\ [Next]_vars => Scanned'
<1> SUFFICES ASSUME IndInv, Scanned, [Next]_vars PROVE Scanned'
  OBVIOUS
<1>0. /\ lifecycle \in [Ids -> Lifecycles] /\ cancel_reason \in [Ids -> Reasons] /\ active \subseteq Ids
      /\ owner \in [Ids -> Owners] /\ ControlOfOwner /\ StepOfOwner
      /\ \A i \in 1..Len(queue) : owner[queue[i]] = "queue"
      /\ \A i \in 1..Len(ready) : owner[ready[i]] = "ready"
      /\ queue # <<>> => owner[Head(queue)] = "queue"
      /\ ready # <<>> => owner[Head(ready)] = "ready"
      /\ ~accepting => queue = <<>> /\ ready = <<>>
      /\ shut # "none" => ~accepting
  BY DequeOwners DEF IndInv, TypeOK, Places
<1> USE <1>0 DEF Scanned, ControlOfOwner, StepOfOwner, MarkCancelling, Cancellable,
        IsTerminal, Terminal, Lifecycles, Reasons, sched, ctl, own, mgrv, shutv
<1>1. ASSUME NEW t \in Ids, SubmitDirect(t) PROVE Scanned'
  BY <1>1 DEF SubmitDirect
<1>2. ASSUME NEW t \in Ids, SubmitQueued(t) PROVE Scanned'
  BY <1>2 DEF SubmitQueued
<1>3. ASSUME NEW t \in Ids, SubmitFull(t) PROVE Scanned'
  BY <1>3 DEF SubmitFull
<1>4. ASSUME NEW t \in Ids, SubmitNotify(t) PROVE Scanned'
  BY <1>4 DEF SubmitNotify, NotifyOne
<1>5. ASSUME NEW t \in Ids, EnsureManager(t) PROVE Scanned'
  BY <1>5 DEF EnsureManager
<1>6. ASSUME NEW t \in Ids, SpawnManager(t) PROVE Scanned'
  BY <1>6 DEF SpawnManager
<1>7. ASSUME NEW t \in Ids, SpawnManagerFails(t) PROVE Scanned'
  BY <1>7 DEF SpawnManagerFails
<1>8. ASSUME NEW t \in Ids, FailPending(t) PROVE Scanned'
  BY <1>8 DEF FailPending
<1>9. ASSUME NEW t \in Ids, Cancel(t) PROVE Scanned'
  BY <1>9 DEF Cancel, RequestCancelPending, RequestCancelOwned, NotifyAll
<1>10. ASSUME NEW t \in Ids, MarkTerminal(t) PROVE Scanned'
  BY <1>10 DEF MarkTerminal
<1>11. ASSUME NEW t \in Ids, ReleaseActive(t) PROVE Scanned'
  BY <1>11 DEF ReleaseActive
<1>12. ASSUME NEW t \in Ids, ReleaseNotify(t) PROVE Scanned'
  BY <1>12 DEF ReleaseNotify, NotifyAll
<1>13. ASSUME NEW t \in Ids, Publish(t) PROVE Scanned'
  BY <1>13 DEF Publish, NotifyAll
<1>14. ASSUME NEW t \in Ids, BeginStart(t) PROVE Scanned'
  BY <1>14 DEF BeginStart
<1>15. ASSUME NEW t \in Ids, MarkStarted(t) PROVE Scanned'
  BY <1>15 DEF MarkStarted
<1>16. ASSUME NEW t \in Ids, DeadlinePasses(t) PROVE Scanned'
  BY <1>16 DEF DeadlinePasses
<1>17. ASSUME NEW t \in Ids, MgrMarkDeadline(t) PROVE Scanned'
  BY <1>17 DEF MgrMarkDeadline
<1>18. ASSUME NEW t \in Ids, MgrSpawn(t) PROVE Scanned'
  BY <1>18 DEF MgrSpawn
<1>19. ASSUME NEW t \in Ids, ShutdownCheck(t) PROVE Scanned'
  BY <1>19 DEF ShutdownCheck
<1>20. ASSUME NEW t \in Ids, ShutdownMark(t) PROVE Scanned'
  <2>1. /\ shut = "scan" /\ shut' = shut /\ todo' = todo /\ checked' = {} /\ active' = active /\ owner' = owner
        /\ MarkCancelling({t}, "Shutdown")
    BY <1>20 DEF ShutdownMark
  <2>2. checked \subseteq {t}
    BY <1>20 DEF ShutdownMark
  <2>3. QED
    BY <2>1, <2>2
<1>21. ASSUME NEW t \in Ids, ShutdownCancel(t) PROVE Scanned'
  BY <1>21 DEF ShutdownCancel, RequestCancelOwned, NotifyAll
<1>22. ASSUME NEW t \in Ids, NEW b \in BackendResults, Resolve(t, b) PROVE Scanned'
  <2>1. UNCHANGED <<active, owner, cancel_reason, shut, todo, checked>> /\ owner[t] = "run"
        /\ lifecycle' = [lifecycle EXCEPT ![t] = StateOfOutcome(ResolvedOutcome(b, cancel_reason[t]))]
    BY <1>22 DEF Resolve
  <2>2. StateOfOutcome(ResolvedOutcome(b, cancel_reason[t])) # "AcceptedNotStarted"
    BY DEF StateOfOutcome
  <2>3. QED
    BY <2>1, <2>2
<1>23. ASSUME NEW i \in Ids, MgrExpireQueue(i) PROVE Scanned'
  BY <1>23 DEF MgrExpireQueue, Expire
<1>24. ASSUME NEW i \in Ids, MgrExpireReady(i) PROVE Scanned'
  BY <1>24 DEF MgrExpireReady, Expire
<1>25. CASE MgrLock
  BY <1>25 DEF MgrLock
<1>26. CASE MgrPromote
  BY <1>26 DEF MgrPromote
<1>27. CASE MgrPop
  BY <1>27 DEF MgrPop
<1>28. CASE MgrExit
  BY <1>28 DEF MgrExit
<1>29. CASE MgrIdle
  BY <1>29 DEF MgrIdle
<1>30. CASE MgrTimeout
  BY <1>30 DEF MgrTimeout
<1>31. CASE ShutdownBegin
  BY <1>31 DEF ShutdownBegin
<1>32. CASE ShutdownUnlock
  BY <1>32 DEF ShutdownUnlock
<1>33. CASE ShutdownDrained
  BY <1>33 DEF ShutdownDrained
<1>34. CASE ShutdownLoop
  BY <1>34 DEF ShutdownLoop
<1>35. CASE ShutdownTimeout
  BY <1>35 DEF ShutdownTimeout
<1>36. CASE ShutdownCollect
  BY <1>36 DEF ShutdownCollect
<1>37. CASE ShutdownReturn
  BY <1>37 DEF ShutdownReturn
<1>38. CASE UNCHANGED vars
  BY <1>38 DEF vars
<1>39. QED
  BY <1>1, <1>2, <1>3, <1>4, <1>5, <1>6, <1>7, <1>8, <1>9, <1>10, <1>11, <1>12, <1>13, <1>14,
     <1>15, <1>16, <1>17, <1>18, <1>19, <1>20, <1>21, <1>22, <1>23, <1>24, <1>25, <1>26, <1>27,
     <1>28, <1>29, <1>30, <1>31, <1>32, <1>33, <1>34, <1>35, <1>36, <1>37, <1>38 DEF Next,
     Submitter, Finish, Backend, Manager, ShutdownRest

-----------------------------------------------------------------------------
(* What follows from it. *)

(* The active and queue limits of AdmissionConfig are never exceeded. *)
THEOREM LimitsHold == Spec => []AdmissionLimits
<1>1. IndInv => AdmissionLimits
  BY DEF IndInv
<1>2. QED
  BY <1>1, IndInvariant, PTL

(* Pending owners are always in the order of their submission. *)
THEOREM FifoHolds == Spec => []FifoPending
<1>1. IndInv => FifoPending
  BY DEF IndInv
<1>2. QED
  BY <1>1, IndInvariant, PTL

(* No permit leaks and none is given back early. *)
THEOREM PermitsHold == Spec => []PermitsMatchOwners
<1>1. IndInv => PermitsMatchOwners
  BY DEF IndInv
<1>2. QED
  BY <1>1, IndInvariant, PTL

(* A caller that sees a result sees a terminal task that has given its permit *)
(* back, and the result agrees with the lifecycle state.                      *)
THEOREM ResultAfterReleaseHolds == Spec => []ResultAfterRelease
<1>1. IndInv => ResultAfterRelease
  BY DEF IndInv, ControlOfOwner, PermitsMatchOwners, ResultAfterRelease
<1>2. QED
  BY <1>1, IndInvariant, PTL

(* The early return of send_terminal and of resolve_backend_result, which would *)
(* leave a result unpublished, is never taken.                                  *)
THEOREM NeverEndedTwiceHolds == Spec => []NeverEndedTwice
<1>1. IndInv => NeverEndedTwice
  BY DEF IndInv, ControlOfOwner, NeverEndedTwice
<1>2. QED
  BY <1>1, IndInvariant, PTL

(* A cancelled task never ends as Completed. *)
THEOREM CancelledNeverCompletesHolds == Spec => []CancelledNeverCompletes
<1>1. IndInv => CancelledNeverCompletes
  BY DEF IndInv, ControlOfOwner, CancelledNeverCompletes
<1>2. QED
  BY <1>1, IndInvariant, PTL

(* The manager: one thread at most, there while there is work for it, and never *)
(* asleep over work that nobody is about to wake it for (ensure_manager,        *)
(* manager_loop).                                                               *)
THEOREM ManagerKeepsUpHolds == Spec => []ManagerKeepsUp
<1>1. Init => ManagerSound /\ NoLostWakeup
  BY LimitsAssumption DEF Init, ManagerSound, SingleManager, NoStrandedWork, NoLostWakeup
<1>2. ManagerSound /\ NoLostWakeup => ManagerKeepsUp
  BY DEF ManagerSound, ManagerKeepsUp
<1>3. QED
  BY <1>1, <1>2, ManagerStep, WakeupStep, IndInvariant, PTL DEF Spec

(* No owner is dispatched while one submitted earlier is still waiting          *)
(* (manager_loop pops the front of `ready`, submit never overtakes `queue`).    *)
THEOREM DispatchInOrderHolds == Spec => DispatchInOrder
<1> DEFINE Turn == \A t \in Ids : owner[t] # "dispatch" /\ owner'[t] = "dispatch" =>
                      \A u \in 1..(t - 1) : owner'[u] \notin {"queue", "ready"}
<1>1. ASSUME IndInv, [Next]_vars PROVE Turn
  <2>0. owner \in [Ids -> Owners] /\ IndInv'
    BY <1>1, TypeStep, LineStep, StepOfOwnerStep, ControlStep, PermitsStep,
       LimitsStep DEF IndInv, TypeOK
  <2>1. ASSUME NEW t \in Ids, owner[t] # "dispatch", owner'[t] = "dispatch"
        PROVE  MgrPop /\ ready # <<>> /\ t = Head(ready)
    <3>1. CASE \E x \in Ids : \/ Submitter(x) \/ Cancel(x) \/ Finish(x) \/ BeginStart(x) \/ MarkStarted(x)
                              \/ Backend(x) \/ DeadlinePasses(x)
      BY <2>0, <2>1, <3>1
         DEF Submitter, Finish, Backend, SubmitDirect, SubmitQueued, SubmitFull, SubmitNotify,
             EnsureManager, SpawnManager, SpawnManagerFails, FailPending, Cancel,
             RequestCancelPending, RequestCancelOwned, MarkTerminal, ReleaseActive,
             ReleaseNotify, Publish, BeginStart, MarkStarted, Resolve, DeadlinePasses, own
    <3>2. CASE Manager
      BY <2>0, <2>1, <3>2
         DEF Manager, MgrMarkDeadline, MgrSpawn, MgrExpireQueue, MgrExpireReady, Expire,
             MgrLock, MgrPromote, MgrPop, MgrExit, MgrIdle, MgrTimeout, own
    <3>3. CASE ShutdownBegin \/ ShutdownRest
      BY <2>0, <2>1, <3>3
         DEF ShutdownRest, ShutdownBegin, ShutdownCheck, ShutdownMark, RequestCancelOwned,
             ShutdownUnlock, ShutdownDrained, ShutdownLoop, ShutdownTimeout,
             ShutdownCollect, ShutdownCancel, ShutdownReturn, own
    <3>4. CASE UNCHANGED vars
      BY <2>1, <3>4 DEF vars, own
    <3>5. QED
      BY <1>1, <3>1, <3>2, <3>3, <3>4 DEF Next
  <2>2. ASSUME NEW t \in Ids, owner[t] # "dispatch", owner'[t] = "dispatch", NEW u \in 1..(t - 1)
        PROVE  owner'[u] \notin {"queue", "ready"}
    <3>1. u \in Ids /\ u < t /\ t \in Ids
      BY LimitsAssumption DEF Ids
    <3>2. In(t, ready) /\ \A x \in Ids : In(x, ready) => t <= x
      BY <1>1, <2>1, <2>2, PopAscending DEF IndInv, TypeOK, FifoPending
    <3>3. \A x \in Ids : In(x, queue) => t < x
      BY <1>1, <3>2 DEF IndInv, FifoPending
    <3>4. ~In(u, ready) /\ ~In(u, queue)
      BY <3>1, <3>2, <3>3 DEF Ids
    <3>5. owner[u] \notin {"queue", "ready"}
      BY <1>1, <3>1, <3>4 DEF IndInv, Places
    <3>6. owner' = [owner EXCEPT ![Head(ready)] = "dispatch"]
      BY <2>1, <2>2 DEF MgrPop
    <3>7. QED
      BY <2>0, <3>1, <3>5, <3>6
  <2>3. QED
    BY <2>2
<1>2. QED
  BY <1>1, IndInvariant, PTL DEF Spec, DispatchInOrder

(* Once shutdown has released the mutex after its scan no task starts           *)
(* ("so they do not ... start user code").                                      *)
THEOREM NoStartAfterShutdownHolds == Spec => NoStartAfterShutdown
<1>1. Init => Scanned
  BY DEF Init, Scanned
<1>2. ASSUME IndInv, Scanned, [Next]_vars, shut \notin {"none", "scan"}
      PROVE  \A t \in Ids : lifecycle'[t] = "Started" => lifecycle[t] = "Started"
  <2>1. ASSUME NEW t \in Ids, lifecycle'[t] = "Started", lifecycle[t] # "Started"
        PROVE  BeginStart(t) \/ MarkStarted(t)
    BY <1>2, <2>1
       DEF IndInv, TypeOK, Next, Submitter, Finish, Backend, Manager, ShutdownRest,
           SubmitDirect, SubmitQueued, SubmitFull, SubmitNotify, EnsureManager,
           SpawnManager, SpawnManagerFails, FailPending, Cancel, MarkCancelling,
           RequestCancelPending, RequestCancelOwned, MarkTerminal, ReleaseActive,
           ReleaseNotify, Publish, BeginStart, MarkStarted, Resolve, StateOfOutcome,
           DeadlinePasses, MgrMarkDeadline, MgrSpawn, MgrExpireQueue,
           MgrExpireReady, Expire, MgrLock, MgrPromote, MgrPop, MgrExit,
           MgrIdle, MgrTimeout, ShutdownBegin, ShutdownCheck, ShutdownMark,
           ShutdownUnlock, ShutdownDrained, ShutdownLoop, ShutdownTimeout,
           ShutdownCollect, ShutdownCancel, ShutdownReturn, ctl, vars
  <2>2. ASSUME NEW t \in Ids, BeginStart(t) \/ MarkStarted(t), lifecycle'[t] = "Started", lifecycle[t] # "Started"
        PROVE  FALSE
    <3>1. cancel_reason[t] = "none" /\ step[t] = "live" /\ owner[t] \in {"thread", "run"}
      BY <1>2, <2>2 DEF IndInv, TypeOK, StepOfOwner, BeginStart, MarkStarted, Cancellable,
         MarkCancelling
    <3>2. t \in active
      BY <1>2, <3>1 DEF IndInv, PermitsMatchOwners
    <3>3. lifecycle[t] = "AcceptedNotStarted"
      BY <1>2, <2>2, <3>1 DEF Scanned, MarkStarted, BeginStart
    <3>4. QED
      BY <1>2, <3>1, <3>2, <3>3 DEF Scanned
  <2>3. QED
    BY <2>1, <2>2
<1>3. QED
  BY <1>1, <1>2, ScanStep, IndInvariant, PTL DEF Spec, NoStartAfterShutdown

=============================================================================
