------------------------ MODULE ResolverRuntimeProofs ------------------------
(***************************************************************************)
(* Proofs about ResolverRuntime: the invariant, and the implementation of  *)
(* ResolverContract, for every number of runs, edits and refreshes, and    *)
(* whatever versions carry credentials, a lockfile or BYONM.               *)
(***************************************************************************)
EXTENDS ResolverRuntime, FiniteSetTheorems, TLAPS

-----------------------------------------------------------------------------
(* The inductive invariant. *)

\* What a stack claims to be: its probe is one of its own inputs.
OwnProbe(s) == s.probe = [config |-> s.config, npmrc |-> s.npmrc, lock |-> s.lock,
                          env |-> EnvironmentProbe(s, HasAuth(s.npmrc))]
Whole(s) == OwnProbe(s) /\ s.present = LockfilePresent(s.lock)

\* Versions of unprobed inputs at the calls of refresh() never decrease.
History ==
  /\ state.built <= state.refresh
  /\ \A g, h \in 0..state.refresh : g <= h => refreshed[g] <= refreshed[h]
  /\ \A g \in 0..state.refresh : refreshed[g] <= disk["unprobed"]

\* The published stack, and the copies runs take of it, are whole and cover
\* the refresh generation they claim.
Covers(s, built) == /\ Whole(s) /\ refreshed[built] <= s.unprobed
                    /\ s.unprobed <= disk["unprobed"]

CopySound(r) ==
  Pc(r) \in {"probe", "gate", "reprobe"} =>
    run[r].built <= run[r].refresh /\ Covers(run[r].shared, run[r].built)

\* The gate has one holder, and the stack it read is still the published one.
Rebuilding(r) == Building(r) \/ Pc(r) \in {"reprobe", "publish"}
GateSound(r) == /\ Rebuilding(r) => gate = r
                /\ Pc(r) = "reprobe" => run[r].shared = state.shared

\* A waiting run has seen the disk as it lies, and knows of every refresh()
\* that returned before it began.
WaitSound(r) == /\ run[r].refresh <= state.refresh
                /\ IsFiniteSet(seen[r])
                /\ Waiting(r) => /\ Visible(disk) \in seen[r]
                                 /\ floor[r] <= refreshed[run[r].refresh]

Between(a, x, b) == a <= x /\ x <= b
Older(a, b) == \A i \in Probed : a[i] <= b[i]
After(r, reads) == Pc(r) \in reads \cup {"stability"}
Npmrc    == {"npmrc", "probe_inputs", "reparse", "reparse_npmrc", "assemble"}
Probe    == Npmrc \ {"npmrc"}
Reparse1 == Probe \ {"probe_inputs"}
Reparse2 == Reparse1 \ {"reparse"}
Load     == Reparse2 \ {"reparse_npmrc"}

\* An attempt that began when the disk was b: every version read since lies
\* between b and the disk, in the order of the reads; an earlier attempt met
\* an edit before b.
AttemptSince(r, b) ==
  LET s == run[r].shared
  IN  /\ Older(b, disk)
      /\ run[r].attempt \in {1, 2}
      /\ run[r].attempt = 2 => \E a \in seen[r] : Older(a, b) /\ a # b
      /\ After(r, Npmrc) => Between(b["config"], s.config, disk["config"])
      /\ After(r, Probe) =>
           /\ Between(b["npmrc"], s.npmrc, disk["npmrc"])
           /\ Between(b["env"], s.env, disk["env"])
           /\ \E l \in Versions : Between(b["lock"], l, disk["lock"])
                                  /\ s.present = LockfilePresent(l)
      /\ After(r, Reparse1) =>
           /\ Between(s.config, s.probe.config, disk["config"])
           /\ Between(s.npmrc, s.probe.npmrc, disk["npmrc"])
           /\ Between(b["lock"], s.probe.lock, disk["lock"])
           /\ IF HasAuth(s.npmrc) THEN s.probe.env = 0
              ELSE Between(s.env, s.probe.env, disk["env"])
      /\ After(r, Reparse2) => s.probe.config = s.config

\* An instant v of the wait at which the .npmrc, its environment and the
\* presence of the lockfile were what the stack was made of: the second parse.
InstantOf(r, v) ==
  LET s == run[r].shared
  IN  /\ s.probe.npmrc = s.npmrc /\ v["npmrc"] = s.npmrc
      /\ s.probe.env = EnvironmentProbe(s, HasAuth(s.npmrc)) /\ v["env"] = s.env
      /\ Between(s.config, v["config"], disk["config"])
      /\ Between(s.probe.lock, v["lock"], disk["lock"])
      /\ s.present = LockfilePresent(v["lock"])
      /\ Pc(r) = "stability" => Between(v["lock"], s.lock, disk["lock"])

\* The unprobed inputs of a candidate are no older than the refresh it is for.
Recent(r) == /\ refreshed[run[r].refresh] <= run[r].shared.unprobed
             /\ run[r].shared.unprobed <= disk["unprobed"]

Showed(s, v) == \A i \in Probed : v[i] = s[i]

BuildSound(r) ==
  /\ Building(r) => \E b \in seen[r] : AttemptSince(r, b)
  /\ After(r, Load) => \E v \in seen[r] : InstantOf(r, v)
  /\ Pc(r) \in {"stability", "publish"} => Recent(r)
  /\ Pc(r) = "publish" => /\ Whole(run[r].shared)
                          /\ \E v \in seen[r] : Showed(run[r].shared, v)

\* A seed was resolved from the stack's own inputs; nothing is seeded before
\* assembly, and only what has a key is saved.
Seeded(s) == s.seed # NoSeed => s.seed = <<s.config, s.npmrc, s.env>> /\ ~s.present
SeedSound(r) ==
  /\ Seeded(run[r].shared)
  /\ Building(r) /\ Pc(r) # "stability" => run[r].shared.seed = NoSeed
  /\ Pc(r) = "save" => SnapshotKey(run[r].shared) # NoKey

RunSound(r) == CopySound(r) /\ GateSound(r) /\ WaitSound(r) /\ BuildSound(r) /\ SeedSound(r)

\* What is published, and the snapshot cache by itself.
StateSound == Covers(state.shared, state.built) /\ Seeded(state.shared)
CacheSound ==
  /\ Len(cache) <= MaxEntries
  /\ \A i, j \in 1..Len(cache) : cache[i].key = cache[j].key => i = j
  /\ \A i \in 1..Len(cache) : /\ cache[i].snapshot = cache[i].key
                              /\ cache[i].key[1] \notin ByonmVersions
                              /\ ~HasAuth(cache[i].key[2])

RInv == /\ TypeOK /\ History /\ StateSound /\ CacheSound
        /\ \A r \in Runs : RunSound(r)

-----------------------------------------------------------------------------
(* Types. *)

Points == {"new", "probe", "gate", "reprobe", "discover", "npmrc", "probe_inputs",
           "reparse", "reparse_npmrc", "assemble", "stability", "publish",
           "running", "save", "done", "failed", "error", "dropped", "refused"}
LocalsType == [pc : Points, shared : Stack, refresh : 0..MaxRefresh, built : 0..MaxRefresh,
               attempt : 0..MAX_STABLE_BUILD_ATTEMPTS]

\* Whatever a run does to its locals, the other runs keep theirs.
LEMMA RunMoves ==
  ASSUME TypeOK, NEW r \in Runs, NEW l \in LocalsType, run' = [run EXCEPT ![r] = l]
  PROVE  /\ run' \in [Runs -> LocalsType]
         /\ run'[r] = l /\ Pc(r)' = l.pc
         /\ \A q \in Runs : q # r => run'[q] = run[q]
<1>1. run \in [Runs -> LocalsType]
  BY DEF TypeOK, LocalsType, Points
<1>2. QED
  BY <1>1 DEF Pc

\* The parts of a run's locals.
LEMMA RunParts ==
  ASSUME TypeOK, NEW r \in Runs
  PROVE  /\ Pc(r) \in Points /\ run[r].shared \in Stack /\ run[r].refresh \in 0..MaxRefresh
         /\ run[r].built \in 0..MaxRefresh /\ run[r].attempt \in 0..2
BY DEF TypeOK, Pc, Points, MAX_STABLE_BUILD_ATTEMPTS

\* The parts of a stack, of the disk and of the state.
LEMMA StackParts ==
  ASSUME NEW s \in Stack
  PROVE  /\ s.config \in Nat /\ s.npmrc \in Nat /\ s.env \in Nat /\ s.lock \in Nat /\ s.unprobed \in Nat
         /\ s.present \in BOOLEAN
         /\ s.probe.config \in Nat /\ s.probe.npmrc \in Nat /\ s.probe.lock \in Nat /\ s.probe.env \in Nat
BY BoundsAssumption DEF Stack, Versions

\* The disk holds versions.
LEMMA DiskParts ==
  ASSUME TypeOK
  PROVE  /\ disk["config"] \in Versions /\ disk["npmrc"] \in Versions /\ disk["env"] \in Versions
         /\ disk["lock"] \in Versions /\ disk["unprobed"] \in Versions
         /\ Visible(disk) \in [Probed -> Versions]
         /\ Versions \subseteq Nat /\ 0 \in Versions
BY BoundsAssumption DEF TypeOK, Inputs, Probed, Versions, Visible

\* The stack of no inputs.
LEMMA FreshIsStack == FreshStack \in Stack /\ FreshStack.seed = NoSeed
<1>1. LockfilePresent(0) \in BOOLEAN
  BY DEF LockfilePresent
<1>2. 0 \in Versions
  BY BoundsAssumption DEF Versions
<1>3. ProbeOf([i \in Inputs |-> 0], HasAuth(0)) \in [config : Versions, npmrc : Versions, lock : Versions, env : Versions]
  BY <1>2 DEF ProbeOf, EnvironmentProbe, Inputs, Probed
<1>4. QED
  BY <1>1, <1>2, <1>3 DEF FreshStack, Stack

\* The probe of a disk.
LEMMA ProbeIsProbe ==
  ASSUME TypeOK, NEW auth \in BOOLEAN
  PROVE  ProbeOf(disk, auth) \in [config : Versions, npmrc : Versions, lock : Versions, env : Versions]
<1>1. EnvironmentProbe(disk, auth) \in Versions
  BY DiskParts DEF EnvironmentProbe
<1>2. QED
  BY <1>1, DiskParts DEF ProbeOf

\* A step of one run that leaves the world and the state alone is typed.
LEMMA StepTyped ==
  ASSUME TypeOK, NEW r \in Runs, NEW l \in LocalsType, run' = [run EXCEPT ![r] = l],
         gate' \in Runs \cup {NoRun}, UNCHANGED <<disk, state, cache, refreshed>>,
         seen' \in [Runs -> SUBSET [Probed -> Versions]], floor' \in [Runs -> Versions]
  PROVE  TypeOK'
<1>1. run' \in [Runs -> LocalsType]
  BY RunMoves
<1>2. QED
  BY <1>1 DEF TypeOK, LocalsType, Points

-----------------------------------------------------------------------------
(* One run moves, the others stay where they are. *)

\* A run that stands still keeps what is said of it, whoever else moves.
LEMMA OthersKeep ==
  ASSUME RInv, NEW q \in Runs, run'[q] = run[q], seen'[q] = seen[q], floor'[q] = floor[q],
         UNCHANGED <<disk, refreshed>>, state'.refresh = state.refresh, gate = q => gate' = q,
         Pc(q) = "reprobe" => state'.shared = state.shared
  PROVE  RunSound(q)'
<1>0. RunSound(q) /\ Pc(q)' = Pc(q)
  BY DEF RInv, Pc
<1>1. CopySound(q)' /\ GateSound(q)'
  <2>1. \A b : Covers(run[q].shared, b) => Covers(run[q].shared, b)'
    BY DEF Covers, Whole, OwnProbe, EnvironmentProbe, HasAuth, LockfilePresent
  <2>2. CopySound(q)'
    BY <1>0, <2>1 DEF RunSound, CopySound
  <2>3. GateSound(q)'
    BY <1>0 DEF RunSound, GateSound, Rebuilding, Building
  <2>4. QED
    BY <2>2, <2>3
<1>2. WaitSound(q)'
  BY <1>0 DEF RunSound, WaitSound, Waiting, Building
<1>3. BuildSound(q)'
  <2>1. \A b : AttemptSince(q, b) => AttemptSince(q, b)'
    BY <1>0 DEF AttemptSince, Older, After
  <2>2. \A v : InstantOf(q, v) => InstantOf(q, v)'
    BY <1>0 DEF InstantOf
  <2>3. QED
    BY <1>0, <2>1, <2>2 DEF RunSound, BuildSound, Building, After, Recent, Whole, OwnProbe,
       EnvironmentProbe, HasAuth, LockfilePresent, Showed
<1>4. SeedSound(q)'
  BY <1>0 DEF RunSound, SeedSound, Building
<1>5. QED
  BY <1>1, <1>2, <1>3, <1>4 DEF RunSound

\* What is said of the state and of the cache follows them.
LEMMA StateKeeps ==
  ASSUME RInv, UNCHANGED <<disk, state, cache, refreshed>>
  PROVE  History' /\ StateSound' /\ CacheSound'
BY DEF RInv, History, StateSound, CacheSound, Covers, Whole, OwnProbe

\* A step of one run keeps the invariant if it keeps what is said of that run.
LEMMA StepKeeps ==
  ASSUME RInv, NEW r \in Runs, TypeOK', UNCHANGED <<disk, state, cache, refreshed>>, RunSound(r)',
         \A q \in Runs : q # r => /\ run'[q] = run[q] /\ seen'[q] = seen[q] /\ floor'[q] = floor[q]
                                  /\ gate = q => gate' = q
  PROVE  RInv'
<1>1. ASSUME NEW q \in Runs, q # r PROVE RunSound(q)'
  BY <1>1, OthersKeep
<1>2. History' /\ StateSound' /\ CacheSound'
  BY StateKeeps
<1>3. QED
  BY <1>1, <1>2 DEF RInv

\* A run leaves shared_for_run with nothing to keep but its stack.
LEMMA LeaveSound ==
  ASSUME RInv, NEW r \in Runs, NEW how \in {"running", "failed", "error", "dropped"}, NEW s \in Stack,
         Seeded(s), Leave(r, how, s), UNCHANGED <<disk, cache, ghosts>>,
         state' \in [shared : Stack, refresh : 0..MaxRefresh, built : 0..MaxRefresh],
         state'.refresh = state.refresh, state' # state => gate = r, History', StateSound', CacheSound'
  PROVE  RInv'
<1> USE DEF Leave, ghosts
<1>0. TypeOK /\ 0 \in 0..MaxRefresh /\ how \in Points
  BY BoundsAssumption DEF RInv, Points
<1> DEFINE l == Locals(how, s, 0, 0, 0)
<1>1. l \in LocalsType /\ l.pc = how /\ l.shared = s /\ l.refresh = 0 /\ run' = [run EXCEPT ![r] = l]
  BY <1>0 DEF Locals, LocalsType, MAX_STABLE_BUILD_ATTEMPTS
<1> HIDE DEF l
<1>2. /\ Pc(r)' = how /\ run'[r].shared = s /\ run'[r].refresh = 0 /\ run' \in [Runs -> LocalsType]
      /\ \A q \in Runs : q # r => run'[q] = run[q]
  BY <1>0, <1>1, RunMoves
<1>3. /\ gate' \in Runs \cup {NoRun} /\ seen' \in [Runs -> SUBSET [Probed -> Versions]]
      /\ seen'[r] = {} /\ \A q \in Runs : q # r => seen'[q] = seen[q] /\ (gate = q => gate' = q)
  BY <1>0 DEF TypeOK
<1>4. TypeOK'
  <2>1. floor' \in [Runs -> Versions] /\ disk' \in [Inputs -> Versions] /\ cache' \in Seq([key : Keys, snapshot : Keys])
        /\ refreshed' \in [0..MaxRefresh -> Versions]
    BY <1>0 DEF TypeOK
  <2>2. QED
    BY <1>2, <1>3, <2>1 DEF TypeOK, LocalsType, Points
<1>5. RunSound(r)'
  <2>1. WaitSound(r)'
    BY <1>0, <1>2, <1>3, FS_EmptySet, BoundsAssumption DEF WaitSound, Waiting, Building
  <2>2. CopySound(r)' /\ GateSound(r)' /\ BuildSound(r)'
    BY <1>2 DEF CopySound, GateSound, Rebuilding, BuildSound, Building, After, Load, Reparse1,
       Reparse2, Probe, Npmrc
  <2>3. SeedSound(r)'
    BY <1>2 DEF SeedSound, Building, Seeded
  <2>4. QED
    BY <2>1, <2>2, <2>3 DEF RunSound
<1>6. ASSUME NEW q \in Runs, q # r PROVE RunSound(q)'
  <2>1. Pc(q) = "reprobe" => state'.shared = state.shared
    BY <1>6 DEF RInv, RunSound, GateSound, Rebuilding
  <2>2. QED
    BY <1>2, <1>3, <1>6, <2>1, OthersKeep
<1>7. QED
  BY <1>4, <1>5, <1>6 DEF RInv

\* Leaving without publishing keeps the invariant.
LEMMA LeaveKeeps ==
  ASSUME RInv, NEW r \in Runs, NEW how \in {"running", "failed", "error", "dropped"}, NEW s \in Stack,
         Seeded(s), Leave(r, how, s), UNCHANGED <<disk, state, cache, ghosts>>
  PROVE  RInv'
<1>1. History' /\ StateSound' /\ CacheSound'
  BY StateKeeps DEF ghosts
<1>2. state' \in [shared : Stack, refresh : 0..MaxRefresh, built : 0..MaxRefresh]
  BY DEF RInv, TypeOK
<1>3. QED
  BY <1>1, <1>2, LeaveSound

\* A run moves and touches neither the gate nor what it has seen.
LEMMA LocalStep ==
  ASSUME RInv, NEW r \in Runs, NEW l \in LocalsType, run' = [run EXCEPT ![r] = l],
         UNCHANGED <<disk, state, gate, cache, seen, ghosts>>, RunSound(r)'
  PROVE  RInv'
<1>0. TypeOK
  BY DEF RInv
<1>1. TypeOK'
  BY <1>0, StepTyped DEF ghosts, TypeOK
<1>2. \A q \in Runs : q # r => run'[q] = run[q]
  BY <1>0, RunMoves
<1>3. QED
  BY <1>1, <1>2, StepKeeps DEF ghosts

\* A run that only goes to its next point.
LEMMA GotoSound ==
  ASSUME RInv, NEW r \in Runs, NEW p \in {"refused", "gate", "save", "done"}, Goto(r, p),
         UNCHANGED <<disk, state, gate, seen, ghosts>>,
         p = "gate" => Pc(r) = "probe", p = "save" => SnapshotKey(run[r].shared) # NoKey
  PROVE  /\ RunSound(r)'
         /\ \E l \in LocalsType : run' = [run EXCEPT ![r] = l]
<1> DEFINE l == Locals(p, run[r].shared, run[r].refresh, run[r].built, run[r].attempt)
<1>0. TypeOK /\ RunSound(r)
  BY DEF RInv
<1>1. /\ l \in LocalsType /\ l.pc = p /\ l.shared = run[r].shared /\ l.refresh = run[r].refresh
      /\ l.built = run[r].built /\ l.attempt = run[r].attempt
  <2>1. /\ run[r].shared \in Stack /\ run[r].refresh \in 0..MaxRefresh /\ run[r].built \in 0..MaxRefresh
        /\ run[r].attempt \in 0..2
    BY <1>0, RunParts
  <2>2. QED
    BY <1>0, <2>1 DEF Locals, LocalsType, Points, MAX_STABLE_BUILD_ATTEMPTS
<1>2. run' = [run EXCEPT ![r] = l]
  BY DEF Goto
<1> HIDE DEF l
<1>3. Pc(r)' = p /\ run'[r] = l
  BY <1>0, <1>1, <1>2, RunMoves
<1> USE DEF ghosts
<1>4. CopySound(r)'
  BY <1>0, <1>1, <1>3 DEF RunSound, CopySound, Covers, Whole, OwnProbe, EnvironmentProbe,
     HasAuth, LockfilePresent
<1>5. GateSound(r)' /\ BuildSound(r)'
  BY <1>3 DEF GateSound, Rebuilding, BuildSound, Building, After, Load, Reparse1, Reparse2,
     Probe, Npmrc
<1>6. WaitSound(r)'
  BY <1>0, <1>1, <1>3 DEF RunSound, WaitSound, Waiting, Building
<1>7. SeedSound(r)'
  BY <1>0, <1>1, <1>3 DEF RunSound, SeedSound, Building, Seeded, SnapshotKey, HasAuth
<1>8. QED
  BY <1>1, <1>2, <1>4, <1>5, <1>6, <1>7 DEF RunSound

-----------------------------------------------------------------------------
(* shared_for_run up to the gate. *)

\* The first read of the published stack, under the mutex.
LEMMA BeginKeeps == ASSUME RInv, NEW r \in Runs, Begin(r) PROVE RInv'
<1> DEFINE l == Locals("probe", state.shared, state.refresh, state.built, run[r].attempt)
<1> USE DEF Begin, Snapshot, ghosts
<1>0. /\ TypeOK /\ RunSound(r) /\ StateSound /\ History /\ state.shared \in Stack
      /\ state.refresh \in 0..MaxRefresh /\ state.built \in 0..MaxRefresh
  BY DEF RInv, TypeOK
<1>1. /\ l \in LocalsType /\ l.pc = "probe" /\ l.shared = state.shared /\ l.refresh = state.refresh
      /\ l.built = state.built
  <2>1. /\ run[r].shared \in Stack /\ run[r].refresh \in 0..MaxRefresh /\ run[r].built \in 0..MaxRefresh
        /\ run[r].attempt \in 0..2
    BY <1>0, RunParts
  <2>2. QED
    BY <1>0, <2>1 DEF Locals, LocalsType, Points, MAX_STABLE_BUILD_ATTEMPTS
<1>2. run' = [run EXCEPT ![r] = l]
  OBVIOUS
<1> HIDE DEF l
<1>3. Pc(r)' = "probe" /\ run'[r] = l /\ \A q \in Runs : q # r => run'[q] = run[q]
  BY <1>0, <1>1, <1>2, RunMoves
<1>4. /\ seen' \in [Runs -> SUBSET [Probed -> Versions]] /\ floor' \in [Runs -> Versions]
      /\ seen'[r] = {Visible(disk)} /\ floor'[r] = refreshed[state.refresh]
      /\ \A q \in Runs : q # r => seen'[q] = seen[q] /\ floor'[q] = floor[q]
  BY <1>0, DiskParts DEF TypeOK
<1>5. TypeOK'
  <2>1. gate' \in Runs \cup {NoRun}
    BY <1>0 DEF TypeOK
  <2>2. QED
    BY <1>0, <1>1, <1>2, <1>4, <2>1, StepTyped
<1>6. CopySound(r)'
  BY <1>0, <1>1, <1>3 DEF StateSound, History, CopySound, Covers, Whole, OwnProbe,
     EnvironmentProbe, HasAuth, LockfilePresent
<1>7. GateSound(r)' /\ BuildSound(r)'
  BY <1>3 DEF GateSound, Rebuilding, BuildSound, Building, After, Load, Reparse1, Reparse2,
     Probe, Npmrc
<1>8. WaitSound(r)'
  <2>1. IsFiniteSet(seen'[r]) /\ Visible(disk)' = Visible(disk) /\ refreshed[state.refresh] \in Nat
    BY <1>0, <1>4, FS_Singleton, DiskParts DEF Visible, TypeOK
  <2>2. QED
    BY <1>0, <1>1, <1>3, <1>4, <2>1 DEF WaitSound
<1>9. SeedSound(r)'
  BY <1>0, <1>1, <1>3 DEF StateSound, SeedSound, Building, Seeded
<1>10. RunSound(r)'
  BY <1>6, <1>7, <1>8, <1>9 DEF RunSound
<1>11. QED
  BY <1>3, <1>4, <1>5, <1>10, StepKeeps

\* The second one, behind the gate.
LEMMA TakeGateKeeps == ASSUME RInv, NEW r \in Runs, TakeGate(r) PROVE RInv'
<1> DEFINE l == Locals("reprobe", state.shared, state.refresh, state.built, run[r].attempt)
<1> USE DEF TakeGate, Snapshot, ghosts
<1>0. /\ TypeOK /\ RunSound(r) /\ StateSound /\ History /\ state.shared \in Stack
      /\ state.refresh \in 0..MaxRefresh /\ state.built \in 0..MaxRefresh
  BY DEF RInv, TypeOK
<1>1. /\ l \in LocalsType /\ l.pc = "reprobe" /\ l.shared = state.shared /\ l.refresh = state.refresh
      /\ l.built = state.built
  <2>1. /\ run[r].shared \in Stack /\ run[r].refresh \in 0..MaxRefresh /\ run[r].built \in 0..MaxRefresh
        /\ run[r].attempt \in 0..2
    BY <1>0, RunParts
  <2>2. QED
    BY <1>0, <2>1 DEF Locals, LocalsType, Points, MAX_STABLE_BUILD_ATTEMPTS
<1>2. run' = [run EXCEPT ![r] = l]
  OBVIOUS
<1> HIDE DEF l
<1>3. Pc(r)' = "reprobe" /\ run'[r] = l /\ \A q \in Runs : q # r => run'[q] = run[q]
  BY <1>0, <1>1, <1>2, RunMoves
<1>4. TypeOK'
  BY <1>0, <1>1, <1>2, StepTyped DEF TypeOK
<1>5. CopySound(r)'
  BY <1>0, <1>1, <1>3 DEF StateSound, History, CopySound, Covers, Whole, OwnProbe,
     EnvironmentProbe, HasAuth, LockfilePresent
<1>6. GateSound(r)' /\ BuildSound(r)'
  BY <1>1, <1>3 DEF GateSound, Rebuilding, BuildSound, Building, After, Load, Reparse1,
     Reparse2, Probe, Npmrc
<1>7. WaitSound(r)'
  <2>1. run[r].refresh \in 0..MaxRefresh /\ run[r].refresh <= state.refresh
        /\ floor[r] <= refreshed[run[r].refresh] /\ Visible(disk) \in seen[r] /\ IsFiniteSet(seen[r])
    BY <1>0, RunParts DEF RunSound, WaitSound, Waiting
  <2>2. refreshed[run[r].refresh] <= refreshed[state.refresh]
    BY <1>0, <2>1 DEF History
  <2>3. /\ floor[r] \in Nat /\ refreshed[run[r].refresh] \in Nat /\ refreshed[state.refresh] \in Nat
    BY <1>0, <2>1, DiskParts DEF TypeOK
  <2>4. floor[r] <= refreshed[state.refresh] /\ Visible(disk)' = Visible(disk)
    BY <2>1, <2>2, <2>3 DEF Visible
  <2>5. QED
    BY <1>0, <1>1, <1>3, <2>1, <2>4 DEF WaitSound
<1>8. SeedSound(r)'
  BY <1>0, <1>1, <1>3 DEF StateSound, SeedSound, Building, Seeded
<1>9. RunSound(r)'
  BY <1>5, <1>6, <1>7, <1>8 DEF RunSound
<1>10. \A q \in Runs : q # r => (gate = q => gate' = q)
  BY NamesAssumption
<1>11. QED
  BY <1>3, <1>4, <1>9, <1>10, StepKeeps

-----------------------------------------------------------------------------
(* A construction, read by read. *)

BuildPoints == {"discover", "npmrc", "probe_inputs", "reparse", "reparse_npmrc", "assemble", "stability"}
Moved(r, p, s, n) == run' = [run EXCEPT ![r] = Locals(p, s, run[r].refresh, run[r].built, n)]

\* What a run holds after a step of its construction.
LEMMA ReadParts ==
  ASSUME TypeOK, NEW r \in Runs, NEW p \in BuildPoints \cup {"publish"}, NEW s \in Stack, NEW n \in 0..2,
         Moved(r, p, s, n)
  PROVE  /\ Pc(r)' = p /\ run'[r].shared = s /\ run'[r].refresh = run[r].refresh /\ run'[r].attempt = n
         /\ \E l \in LocalsType : run' = [run EXCEPT ![r] = l]
<1> DEFINE l == Locals(p, s, run[r].refresh, run[r].built, n)
<1>1. run[r].refresh \in 0..MaxRefresh /\ run[r].built \in 0..MaxRefresh
  BY RunParts
<1>2. /\ l \in LocalsType /\ l.pc = p /\ l.shared = s /\ l.refresh = run[r].refresh /\ l.attempt = n
  BY <1>1 DEF Locals, LocalsType, Points, BuildPoints, MAX_STABLE_BUILD_ATTEMPTS
<1> HIDE DEF l
<1>3. run' = [run EXCEPT ![r] = l]
  BY DEF l, Moved
<1>4. Pc(r)' = p /\ run'[r] = l
  BY <1>2, <1>3, RunMoves
<1>5. QED
  BY <1>2, <1>3, <1>4

\* Such a step keeps the invariant if it keeps what is said of constructions.
LEMMA ReadKeeps ==
  ASSUME RInv, NEW r \in Runs, NEW p \in BuildPoints \cup {"publish"}, NEW s \in Stack, NEW n \in 0..2,
         Moved(r, p, s, n), Rebuilding(r),
         UNCHANGED <<disk, state, gate, cache, seen, ghosts>>,
         Seeded(s), p \notin {"stability", "publish"} => s.seed = NoSeed, BuildSound(r)'
  PROVE  RInv'
<1>0. TypeOK /\ RunSound(r)
  BY DEF RInv
<1>1. /\ Pc(r)' = p /\ run'[r].shared = s /\ run'[r].refresh = run[r].refresh
      /\ \E l \in LocalsType : run' = [run EXCEPT ![r] = l]
  BY <1>0, ReadParts
<1> USE DEF ghosts
<1>2. CopySound(r)' /\ GateSound(r)'
  BY <1>0, <1>1 DEF CopySound, GateSound, RunSound, Rebuilding, BuildPoints
<1>3. WaitSound(r)'
  BY <1>0, <1>1 DEF RunSound, WaitSound, Waiting, Rebuilding, Visible
<1>4. SeedSound(r)'
  BY <1>1 DEF SeedSound, Seeded, Building, BuildPoints
<1>5. RunSound(r)'
  BY <1>2, <1>3, <1>4 DEF RunSound
<1>6. QED
  BY <1>1, <1>5, LocalStep

\* A construction starts with what lies on disk.
LEMMA StartSound ==
  ASSUME RInv, NEW r \in Runs, NEW n \in 0..2, Rebuilding(r), StartAttempt(r, n),
         n = 1 \/ (n = 2 /\ \E a \in seen[r] : Older(a, Visible(disk)) /\ a # Visible(disk)),
         UNCHANGED <<disk, state, gate, cache, seen, ghosts>>
  PROVE  RInv'
<1>0. TypeOK /\ RunSound(r)
  BY DEF RInv
<1>1. FreshStack \in Stack /\ FreshStack.seed = NoSeed /\ Moved(r, "discover", FreshStack, n)
  BY FreshIsStack DEF StartAttempt, Moved
<1>2. Pc(r)' = "discover" /\ run'[r].attempt = n
  BY <1>0, <1>1, ReadParts DEF BuildPoints
<1>3. Visible(disk) \in seen[r] /\ Older(Visible(disk), disk)
  BY <1>0, DiskParts DEF RunSound, WaitSound, Waiting, Rebuilding, Older, Visible, Probed
<1>4. AttemptSince(r, Visible(disk))'
  <2>1. Visible(disk)' = Visible(disk)
    BY DEF Visible
  <2>2. QED
    BY <1>2, <1>3, <2>1 DEF AttemptSince, After, Npmrc, Probe, Reparse1, Reparse2, Older
<1>5. BuildSound(r)'
  <2>1. Visible(disk)' \in seen'[r]
    BY <1>3 DEF Visible
  <2>2. QED
    BY <1>2, <1>4, <2>1 DEF BuildSound, After, Load, Reparse1, Reparse2, Probe, Npmrc
<1>6. QED
  BY <1>1, <1>5, ReadKeeps DEF BuildPoints, Seeded

\* The reads of build_once.
LEMMA ReadsKeep ==
  ASSUME RInv, NEW r \in Runs,
         Discover(r) \/ DiscoverNpmrc(r) \/ ProbeInputs(r) \/ Reparse(r) \/ ReparseNpmrc(r)
  PROVE  RInv'
<1> DEFINE s == run[r].shared
           n == run[r].attempt
<1>0. /\ TypeOK /\ RunSound(r) /\ s \in Stack /\ n \in 0..2 /\ Rebuilding(r) /\ Building(r)
      /\ Pc(r) # "stability" /\ s.seed = NoSeed /\ UNCHANGED <<disk, state, gate, cache, seen, ghosts>>
  BY RunParts DEF RInv, Discover, DiscoverNpmrc, ProbeInputs, Reparse, ReparseNpmrc, Read,
     Rebuilding, Building, RunSound, SeedSound
<1>1. PICK b \in seen[r] : AttemptSince(r, b)
  BY <1>0 DEF RunSound, BuildSound
<1>2. /\ b["config"] \in Nat /\ b["npmrc"] \in Nat /\ b["env"] \in Nat /\ b["lock"] \in Nat
      /\ b["config"] <= disk["config"] /\ b["npmrc"] <= disk["npmrc"] /\ b["env"] <= disk["env"] /\ b["lock"] <= disk["lock"]
  <2>1. b \in [Probed -> Versions]
    BY <1>0 DEF TypeOK
  <2>2. QED
    BY <1>0, <1>1, <2>1, DiskParts DEF AttemptSince, Older, Probed
<1>3. CASE Discover(r)
  <2> DEFINE t == [s EXCEPT !.config = disk["config"]]
  <2>1. t \in Stack /\ t.config = disk["config"] /\ t.seed = NoSeed
    BY <1>0, DiskParts DEF Stack
  <2>2. Moved(r, "npmrc", t, n)
    BY <1>3 DEF Discover, Read, Moved
  <2> HIDE DEF t
  <2>3. Pc(r)' = "npmrc" /\ run'[r].shared = t /\ run'[r].attempt = n
    BY <1>0, <2>1, <2>2, ReadParts DEF BuildPoints
  <2>4. AttemptSince(r, b)'
    BY <1>0, <1>1, <1>2, <2>1, <2>3, DiskParts DEF AttemptSince, After, Npmrc, Probe, Reparse1,
       Reparse2, Older, Between
  <2>5. BuildSound(r)'
    BY <1>0, <2>3, <2>4 DEF BuildSound, After, Load, Reparse1, Reparse2, Probe, Npmrc
  <2>6. QED
    BY <1>0, <2>1, <2>2, <2>5, ReadKeeps DEF BuildPoints, Seeded
<1>4. CASE DiscoverNpmrc(r)
  <2> DEFINE t == WithNpmrc(s)
  <2>1. /\ t \in Stack /\ t.config = s.config /\ t.npmrc = disk["npmrc"] /\ t.env = disk["env"]
        /\ t.present = LockfilePresent(disk["lock"]) /\ t.seed = NoSeed
    <3>1. LockfilePresent(disk["lock"]) \in BOOLEAN
      BY DEF LockfilePresent
    <3>2. QED
      BY <1>0, <3>1, DiskParts DEF Stack, WithNpmrc
  <2>2. Moved(r, "probe_inputs", t, n)
    BY <1>4 DEF DiscoverNpmrc, Read, Moved
  <2> HIDE DEF t
  <2>3. Pc(r)' = "probe_inputs" /\ run'[r].shared = t /\ run'[r].attempt = n
    BY <1>0, <2>1, <2>2, ReadParts DEF BuildPoints
  <2>4. AttemptSince(r, b)'
    <3>1. Between(b["config"], s.config, disk["config"])
      BY <1>1, <1>4 DEF AttemptSince, After, Npmrc, DiscoverNpmrc, Read
    <3>2. /\ Between(b["config"], t.config, disk["config"]) /\ Between(b["npmrc"], t.npmrc, disk["npmrc"])
          /\ Between(b["env"], t.env, disk["env"])
      BY <1>0, <1>2, <2>1, <3>1, DiskParts DEF Between
    <3>3. \E l \in Versions : Between(b["lock"], l, disk["lock"]) /\ t.present = LockfilePresent(l)
      BY <1>0, <1>2, <2>1, DiskParts DEF Between
    <3>4. QED
      BY <1>0, <1>1, <2>3, <3>2, <3>3 DEF AttemptSince, After, Npmrc, Probe, Reparse1, Reparse2,
         Older
  <2>5. BuildSound(r)'
    BY <1>0, <2>3, <2>4 DEF BuildSound, After, Load, Reparse1, Reparse2, Probe, Npmrc
  <2>6. QED
    BY <1>0, <2>1, <2>2, <2>5, ReadKeeps DEF BuildPoints, Seeded
<1>5. CASE ProbeInputs(r)
  <2> DEFINE t == [s EXCEPT !.probe = ProbeOf(disk, HasAuth(s.npmrc))]
  <2>1. /\ t \in Stack /\ t.config = s.config /\ t.npmrc = s.npmrc /\ t.env = s.env /\ t.present = s.present
        /\ t.seed = NoSeed /\ t.probe = ProbeOf(disk, HasAuth(s.npmrc))
    <3>1. HasAuth(s.npmrc) \in BOOLEAN
      BY DEF HasAuth
    <3>2. ProbeOf(disk, HasAuth(s.npmrc)) \in [config : Versions, npmrc : Versions, lock : Versions, env : Versions]
      BY <1>0, <3>1, ProbeIsProbe
    <3>3. QED
      BY <1>0, <3>2 DEF Stack
  <2>2. Moved(r, "reparse", t, n)
    BY <1>5 DEF ProbeInputs, Read, Moved
  <2> HIDE DEF t
  <2>3. Pc(r)' = "reparse" /\ run'[r].shared = t /\ run'[r].attempt = n
    BY <1>0, <2>1, <2>2, ReadParts DEF BuildPoints
  <2>4. /\ t.probe.config = disk["config"] /\ t.probe.npmrc = disk["npmrc"] /\ t.probe.lock = disk["lock"]
        /\ t.probe.env = IF HasAuth(t.npmrc) THEN 0 ELSE disk["env"]
    BY <2>1 DEF ProbeOf, EnvironmentProbe
  <2>5. AttemptSince(r, b)'
    <3>1. /\ Between(b["config"], s.config, disk["config"]) /\ Between(b["npmrc"], s.npmrc, disk["npmrc"])
          /\ Between(b["env"], s.env, disk["env"])
          /\ \E l \in Versions : Between(b["lock"], l, disk["lock"]) /\ s.present = LockfilePresent(l)
      BY <1>1, <1>5 DEF AttemptSince, After, Npmrc, Probe, ProbeInputs, Read
    <3>2. /\ Between(t.config, t.probe.config, disk["config"]) /\ Between(t.npmrc, t.probe.npmrc, disk["npmrc"])
          /\ Between(b["lock"], t.probe.lock, disk["lock"])
          /\ IF HasAuth(t.npmrc) THEN t.probe.env = 0 ELSE Between(t.env, t.probe.env, disk["env"])
      BY <1>0, <1>2, <2>1, <2>4, <3>1, DiskParts DEF Between
    <3>3. QED
      BY <1>0, <1>1, <2>1, <2>3, <3>1, <3>2 DEF AttemptSince, After, Npmrc, Probe, Reparse1,
         Reparse2, Older
  <2>6. BuildSound(r)'
    BY <1>0, <2>3, <2>5 DEF BuildSound, After, Load, Reparse1, Reparse2, Probe, Npmrc
  <2>7. QED
    BY <1>0, <2>1, <2>2, <2>6, ReadKeeps DEF BuildPoints, Seeded
<1>6. CASE Reparse(r)
  <2>1. Moved(r, "reparse_npmrc", s, n) /\ Pc(r) = "reparse" /\ s.config = disk["config"]
    BY <1>6 DEF Reparse, Read, Moved, ConfigUnchanged
  <2>2. Pc(r)' = "reparse_npmrc" /\ run'[r].shared = s /\ run'[r].attempt = n
    BY <1>0, <2>1, ReadParts DEF BuildPoints
  <2>3. AttemptSince(r, b)'
    <3>1. s.probe.config = s.config
      BY <1>0, <1>1, <2>1, StackParts, DiskParts DEF AttemptSince, After, Reparse1, Probe,
         Npmrc, Between
    <3>2. QED
      BY <1>0, <1>1, <2>1, <2>2, <3>1 DEF AttemptSince, After, Npmrc, Probe, Reparse1, Reparse2,
         Older
  <2>4. BuildSound(r)'
    BY <1>0, <2>2, <2>3 DEF BuildSound, After, Load, Reparse1, Reparse2, Probe, Npmrc
  <2>5. QED
    BY <1>0, <2>1, <2>4, ReadKeeps DEF BuildPoints, Seeded
<1>7. CASE ReparseNpmrc(r)
  <2> DEFINE v == Visible(disk)
  <2>1. /\ Moved(r, "assemble", s, n) /\ Pc(r) = "reparse_npmrc" /\ s.npmrc = disk["npmrc"]
        /\ s.env = disk["env"] /\ s.present = LockfilePresent(disk["lock"])
    BY <1>7 DEF ReparseNpmrc, Read, Moved, NpmrcUnchanged
  <2>2. Pc(r)' = "assemble" /\ run'[r].shared = s /\ run'[r].attempt = n
    BY <1>0, <2>1, ReadParts DEF BuildPoints
  <2>3. AttemptSince(r, b)'
    BY <1>0, <1>1, <2>1, <2>2 DEF AttemptSince, After, Npmrc, Probe, Reparse1, Reparse2, Older
  <2>4. v \in seen[r] /\ v' = v /\ v["config"] = disk["config"] /\ v["npmrc"] = disk["npmrc"]
        /\ v["env"] = disk["env"] /\ v["lock"] = disk["lock"]
    BY <1>0 DEF Visible, Probed, RunSound, WaitSound, Waiting
  <2>5. InstantOf(r, v)'
    <3>1. /\ Between(s.config, s.probe.config, disk["config"]) /\ Between(s.npmrc, s.probe.npmrc, disk["npmrc"])
          /\ Between(b["lock"], s.probe.lock, disk["lock"]) /\ s.probe.config = s.config
          /\ IF HasAuth(s.npmrc) THEN s.probe.env = 0 ELSE Between(s.env, s.probe.env, disk["env"])
      BY <1>1, <2>1 DEF AttemptSince, After, Reparse1, Reparse2, Probe, Npmrc
    <3>2. /\ s.probe.npmrc = s.npmrc /\ Between(s.config, disk["config"], disk["config"])
          /\ Between(s.probe.lock, disk["lock"], disk["lock"])
          /\ s.probe.env = IF HasAuth(s.npmrc) THEN 0 ELSE s.env
      BY <1>0, <2>1, <3>1, StackParts, DiskParts DEF Between
    <3>3. s.probe.env = EnvironmentProbe(s, HasAuth(s.npmrc))
      BY <1>0, <3>2 DEF EnvironmentProbe, Stack
    <3>4. QED
      BY <1>0, <2>1, <2>2, <2>4, <3>2, <3>3 DEF InstantOf, EnvironmentProbe, HasAuth,
         LockfilePresent
  <2>6. BuildSound(r)'
    BY <1>0, <2>2, <2>3, <2>4, <2>5 DEF BuildSound
  <2>7. QED
    BY <1>0, <2>1, <2>6, ReadKeeps DEF BuildPoints, Seeded
<1>8. QED
  BY <1>3, <1>4, <1>5, <1>6, <1>7

\* The entries of the snapshot cache.
Entry == [key : Keys, snapshot : Keys]
\* What is in the cache is an entry, with a key and a snapshot.
LEMMA CacheParts ==
  ASSUME TypeOK
  PROVE  /\ cache \in Seq(Entry) /\ Len(cache) \in Nat
         /\ \A i \in 1..Len(cache) : cache[i] \in Entry /\ cache[i].key \in Keys /\ cache[i].snapshot \in Keys
<1>1. cache \in Seq(Entry)
  BY DEF TypeOK, Entry
<1>2. \A i \in 1..Len(cache) : cache[i] \in Entry
  BY <1>1
<1>3. QED
  BY <1>1, <1>2 DEF Entry

\* A seed, if there is one, was resolved from the stack's own inputs.
LEMMA SeedForSound ==
  ASSUME TypeOK, CacheSound, NEW s \in Stack
  PROVE  /\ SeedFor(s) \in Keys \cup {NoSeed}
         /\ SeedFor(s) # NoSeed => SeedFor(s) = <<s.config, s.npmrc, s.env>> /\ ~s.present
<1> DEFINE key == SnapshotKey(s)
           hits == {i \in 1..Len(cache) : cache[i].key = key}
<1>1. CASE key = NoKey
  BY <1>1 DEF SeedFor
<1>2. CASE key # NoKey
  <2>1. key = <<s.config, s.npmrc, s.env>> /\ ~s.present
    BY <1>2 DEF SnapshotKey
  <2>2. CASE hits = {}
    BY <1>2, <2>2 DEF SeedFor, CacheGet
  <2>3. CASE hits # {}
    <3>1. PICK i \in hits : i = CHOOSE j \in hits : TRUE
      BY <2>3
    <3>2. SeedFor(s) = cache[i].snapshot
      BY <1>2, <2>3, <3>1 DEF SeedFor, CacheGet
    <3>3. i \in 1..Len(cache) /\ cache[i].key = key
      OBVIOUS
    <3>4. cache[i].snapshot = key /\ cache[i].snapshot \in Keys
      BY <3>3, CacheParts DEF CacheSound
    <3>5. QED
      BY <2>1, <3>2, <3>4
  <2>4. QED
    BY <2>2, <2>3
<1>3. QED
  BY <1>1, <1>2

\* The lockfile is loaded and the resolution seeded.
LEMMA AssembleKeeps == ASSUME RInv, NEW r \in Runs, Assemble(r) PROVE RInv'
<1> DEFINE s == run[r].shared
           n == run[r].attempt
           t == Assembled(s)
<1>0. /\ TypeOK /\ RunSound(r) /\ s \in Stack /\ n \in 0..2 /\ Rebuilding(r) /\ Building(r)
      /\ Pc(r) = "assemble" /\ UNCHANGED <<disk, state, gate, cache, seen, ghosts>> /\ CacheSound
      /\ Moved(r, "stability", t, n)
  BY RunParts DEF RInv, Assemble, Read, Rebuilding, Building, Moved
<1>1. PICK b \in seen[r] : AttemptSince(r, b)
  BY <1>0 DEF RunSound, BuildSound
<1>2. PICK v \in seen[r] : InstantOf(r, v)
  BY <1>0 DEF RunSound, BuildSound, After, Load, Reparse1, Reparse2, Probe, Npmrc
<1>3. SeedFor(s) \in Keys \cup {NoSeed} /\ (SeedFor(s) # NoSeed => SeedFor(s) = <<s.config, s.npmrc, s.env>> /\ ~s.present)
  BY <1>0, SeedForSound
<1>4. /\ t \in Stack /\ t.config = s.config /\ t.npmrc = s.npmrc /\ t.env = s.env /\ t.present = s.present
      /\ t.probe = s.probe /\ t.lock = disk["lock"] /\ t.unprobed = disk["unprobed"] /\ t.seed = SeedFor(s)
  BY <1>0, <1>3, DiskParts DEF Assembled, Stack
<1> HIDE DEF t
<1>5. Seeded(t)
  BY <1>3, <1>4 DEF Seeded
<1>6. Pc(r)' = "stability" /\ run'[r].shared = t /\ run'[r].attempt = n /\ run'[r].refresh = run[r].refresh
  BY <1>0, <1>4, ReadParts DEF BuildPoints
<1>7. AttemptSince(r, b)'
  BY <1>0, <1>1, <1>4, <1>6 DEF AttemptSince, After, Npmrc, Probe, Reparse1, Reparse2, Older
<1>8. InstantOf(r, v)'
  <2>1. v["lock"] <= disk["lock"] /\ Between(v["lock"], t.lock, disk["lock"])
    BY <1>0, <1>2, <1>4, DiskParts DEF InstantOf, Between
  <2>2. EnvironmentProbe(t, HasAuth(t.npmrc)) = EnvironmentProbe(s, HasAuth(s.npmrc))
    BY <1>0, <1>4 DEF EnvironmentProbe, Stack
  <2>3. QED
    BY <1>0, <1>2, <1>4, <1>6, <2>1, <2>2 DEF InstantOf, EnvironmentProbe, HasAuth, LockfilePresent
<1>9. Recent(r)'
  <2>1. refreshed[run[r].refresh] <= disk["unprobed"]
    BY <1>0, RunParts DEF RInv, History, RunSound, WaitSound
  <2>2. QED
    BY <1>0, <1>4, <1>6, <2>1, DiskParts DEF Recent, ghosts
<1>10. BuildSound(r)'
  BY <1>0, <1>6, <1>7, <1>8, <1>9 DEF BuildSound
<1>11. QED
  BY <1>0, <1>4, <1>5, <1>10, ReadKeeps DEF BuildPoints

\* A candidate that is accepted is whole, and showed on disk during the wait.
LEMMA AcceptKeeps == ASSUME RInv, NEW r \in Runs, Accept(r) PROVE RInv'
<1> DEFINE s == run[r].shared
           n == run[r].attempt
<1>0. /\ TypeOK /\ RunSound(r) /\ s \in Stack /\ n \in 0..2 /\ Rebuilding(r) /\ Building(r)
      /\ Pc(r) = "stability" /\ UNCHANGED <<disk, state, gate, cache, seen, ghosts>>
      /\ Moved(r, "publish", s, n) /\ s.probe = ProbeOf(disk, HasAuth(s.npmrc)) /\ Recent(r) /\ Seeded(s)
  BY RunParts DEF RInv, Accept, Read, Rebuilding, Building, Moved, Stable, IsCurrent, RunSound,
     BuildSound, SeedSound
<1>1. PICK b \in seen[r] : AttemptSince(r, b)
  BY <1>0 DEF RunSound, BuildSound
<1>2. PICK v \in seen[r] : InstantOf(r, v)
  BY <1>0 DEF RunSound, BuildSound, After
<1>3. Pc(r)' = "publish" /\ run'[r].shared = s /\ run'[r].refresh = run[r].refresh
  BY <1>0, ReadParts
<1>4. s.probe.config = disk["config"] /\ s.probe.npmrc = disk["npmrc"] /\ s.probe.lock = disk["lock"]
  BY <1>0 DEF ProbeOf
<1>5. s.probe.config = s.config
  BY <1>0, <1>1 DEF AttemptSince, After
<1>6. v["config"] = s.config /\ v["npmrc"] = s.npmrc /\ v["env"] = s.env /\ v["lock"] = s.lock /\ s.lock = s.probe.lock
  <2>1. v \in [Probed -> Versions]
    BY <1>0 DEF TypeOK
  <2>2. v["config"] \in Nat /\ v["lock"] \in Nat
    BY <1>0, <2>1, DiskParts DEF Probed
  <2>3. QED
    BY <1>0, <1>2, <1>4, <1>5, <2>2, StackParts, DiskParts DEF InstantOf, Between
<1>7. Whole(s) /\ Showed(s, v)
  <2>1. s.probe \in [config : Versions, npmrc : Versions, lock : Versions, env : Versions]
    BY <1>0 DEF Stack
  <2>2. s.probe.npmrc = s.npmrc /\ s.probe.env = EnvironmentProbe(s, HasAuth(s.npmrc)) /\ s.present = LockfilePresent(v["lock"])
    BY <1>2 DEF InstantOf
  <2>3. OwnProbe(s)
    BY <1>5, <1>6, <2>1, <2>2 DEF OwnProbe
  <2>4. Showed(s, v)
    BY <1>0, <1>6 DEF Showed, Probed, Stack
  <2>5. QED
    BY <1>6, <2>2, <2>3, <2>4 DEF Whole
<1>8. BuildSound(r)'
  <2>1. Recent(r)' /\ Whole(run[r].shared)' /\ Showed(run[r].shared, v)'
    BY <1>0, <1>3, <1>7 DEF Recent, Whole, OwnProbe, EnvironmentProbe, HasAuth, LockfilePresent,
       Showed, ghosts
  <2>2. QED
    BY <1>0, <1>3, <2>1 DEF BuildSound, Building, After, Load, Reparse1, Reparse2, Probe, Npmrc
<1>9. QED
  BY <1>0, <1>8, ReadKeeps

-----------------------------------------------------------------------------
(* The end of an attempt. *)

\* An attempt that is rejected met an edit: the disk is not what it was when
\* the attempt began.
LEMMA RejectedMetEdit ==
  ASSUME RInv, NEW r \in Runs, AttemptRejected(r), NEW b \in seen[r], AttemptSince(r, b)
  PROVE  Older(b, Visible(disk)) /\ b # Visible(disk)
<1> DEFINE s == run[r].shared
           v == Visible(disk)
<1>0. TypeOK /\ s \in Stack /\ b \in [Probed -> Versions] /\ v \in [Probed -> Versions]
  BY RunParts, DiskParts DEF RInv, TypeOK
<1>1. /\ v["config"] = disk["config"] /\ v["npmrc"] = disk["npmrc"] /\ v["env"] = disk["env"] /\ v["lock"] = disk["lock"]
      /\ \A i \in Probed : v[i] = disk[i]
  BY DEF Visible, Probed
<1>2. Older(b, v)
  BY <1>1 DEF AttemptSince, Older
<1>3. SUFFICES ASSUME b = v PROVE FALSE
  BY <1>2
<1>4. /\ b["config"] = disk["config"] /\ b["npmrc"] = disk["npmrc"] /\ b["env"] = disk["env"] /\ b["lock"] = disk["lock"]
  BY <1>1, <1>3
<1> HIDE DEF v
<1>5. CASE Pc(r) = "reparse" /\ ~ConfigUnchanged(s)
  <2>1. Between(b["config"], s.config, disk["config"])
    BY <1>5 DEF AttemptSince, After, Npmrc
  <2>2. QED
    BY <1>0, <1>4, <1>5, <2>1, StackParts, DiskParts DEF Between, ConfigUnchanged
<1>6. CASE Pc(r) = "reparse_npmrc" /\ ~NpmrcUnchanged(s)
  <2>1. Between(b["npmrc"], s.npmrc, disk["npmrc"]) /\ Between(b["env"], s.env, disk["env"])
    BY <1>6 DEF AttemptSince, After, Npmrc, Probe
  <2>2. PICK l \in Versions : Between(b["lock"], l, disk["lock"]) /\ s.present = LockfilePresent(l)
    BY <1>6 DEF AttemptSince, After, Npmrc, Probe
  <2>3. s.npmrc = disk["npmrc"] /\ s.env = disk["env"] /\ l = disk["lock"]
    BY <1>0, <1>4, <2>1, <2>2, StackParts, DiskParts DEF Between
  <2>4. QED
    BY <1>6, <2>2, <2>3 DEF NpmrcUnchanged
<1>7. CASE Pc(r) = "stability" /\ ~Stable(r)
  <2>1. /\ Between(b["config"], s.config, disk["config"]) /\ Between(b["npmrc"], s.npmrc, disk["npmrc"])
        /\ Between(b["env"], s.env, disk["env"])
        /\ Between(s.config, s.probe.config, disk["config"]) /\ Between(s.npmrc, s.probe.npmrc, disk["npmrc"])
        /\ Between(b["lock"], s.probe.lock, disk["lock"])
        /\ IF HasAuth(s.npmrc) THEN s.probe.env = 0 ELSE Between(s.env, s.probe.env, disk["env"])
    BY <1>7 DEF AttemptSince, After
  <2>2. /\ s.probe.config = disk["config"] /\ s.probe.npmrc = disk["npmrc"] /\ s.probe.lock = disk["lock"]
        /\ s.probe.env = IF HasAuth(s.npmrc) THEN 0 ELSE disk["env"]
    BY <1>0, <1>4, <2>1, StackParts, DiskParts DEF Between
  <2>3. s.probe \in [config : Versions, npmrc : Versions, lock : Versions, env : Versions]
    BY <1>0 DEF Stack
  <2>4. s.probe = ProbeOf(disk, HasAuth(s.npmrc))
    BY <2>2, <2>3 DEF ProbeOf, EnvironmentProbe
  <2>5. QED
    BY <1>7, <2>4 DEF Stable, IsCurrent
<1>8. QED
  BY <1>5, <1>6, <1>7 DEF AttemptRejected

\* A retry starts a second attempt.
LEMMA RetryKeeps == ASSUME RInv, NEW r \in Runs, Retry(r) PROVE RInv'
<1>0. /\ TypeOK /\ RunSound(r) /\ Building(r) /\ Rebuilding(r) /\ AttemptRejected(r)
      /\ UNCHANGED <<disk, state, gate, cache, seen, ghosts>>
  BY DEF RInv, Retry, AttemptRejected, Building, Rebuilding
<1>1. PICK b \in seen[r] : AttemptSince(r, b)
  BY <1>0 DEF RunSound, BuildSound
<1>2. run[r].attempt = 1
  BY <1>1 DEF AttemptSince, Retry, MAX_STABLE_BUILD_ATTEMPTS
<1>3. Older(b, Visible(disk)) /\ b # Visible(disk)
  BY <1>0, <1>1, RejectedMetEdit
<1>4. StartAttempt(r, 2)
  BY <1>2 DEF Retry
<1>5. QED
  BY <1>0, <1>3, <1>4, StartSound

\* The candidate is published if no refresh() came between.
LEMMA PublishKeeps == ASSUME RInv, NEW r \in Runs, Publish(r) PROVE RInv'
<1> DEFINE s == run[r].shared
<1>0. /\ TypeOK /\ RunSound(r) /\ History /\ s \in Stack /\ Pc(r) = "publish" /\ gate = r /\ Seeded(s)
      /\ Leave(r, "running", s) /\ UNCHANGED <<disk, cache, ghosts>> /\ Recent(r) /\ Whole(s)
      /\ run[r].refresh \in 0..MaxRefresh /\ run[r].refresh <= state.refresh
  BY RunParts DEF RInv, Publish, ServedWith, RunSound, GateSound, Rebuilding, SeedSound,
     BuildSound, WaitSound
<1>1. CASE CanPublish(r)
  <2>1. state' = [shared |-> s, refresh |-> state.refresh, built |-> run[r].refresh]
    BY <1>1 DEF Publish, PublishCandidate
  <2>2. state.refresh \in 0..MaxRefresh
    BY <1>0 DEF TypeOK
  <2>3. /\ state' \in [shared : Stack, refresh : 0..MaxRefresh, built : 0..MaxRefresh]
        /\ state'.refresh = state.refresh /\ state'.shared = s /\ state'.built = run[r].refresh
    BY <1>0, <2>1, <2>2
  <2>4. History'
    BY <1>0, <2>3 DEF History, ghosts
  <2>5. StateSound'
    BY <1>0, <2>3 DEF StateSound, Covers, Recent, Whole, OwnProbe, Seeded, EnvironmentProbe,
       HasAuth, LockfilePresent, ghosts
  <2>6. CacheSound'
    BY <1>0 DEF RInv, CacheSound
  <2>7. QED
    BY <1>0, <2>3, <2>4, <2>5, <2>6, LeaveSound
<1>2. CASE ~CanPublish(r)
  BY <1>0, <1>2, LeaveKeeps DEF Publish, PublishCandidate
<1>3. QED
  BY <1>1, <1>2

-----------------------------------------------------------------------------
(* The snapshot cache. *)

\* save_npm_snapshot_cache keeps one entry per key, and only own resolutions.
LEMMA SaveKeeps == ASSUME RInv, NEW r \in Runs, SaveSnapshot(r) PROVE RInv'
<1> DEFINE s == run[r].shared
           key == SnapshotKey(s)
           entry == [key |-> key, snapshot |-> key]
           hits == {i \in 1..Len(cache) : cache[i].key = key}
<1>0. /\ TypeOK /\ RunSound(r) /\ s \in Stack /\ Pc(r) = "save" /\ key # NoKey /\ Seeded(s)
      /\ UNCHANGED <<disk, state, gate, seen, ghosts>> /\ CacheSound
  BY RunParts DEF RInv, SaveSnapshot, RunSound, SeedSound
<1>1. /\ key = <<s.config, s.npmrc, s.env>> /\ s.config \notin ByonmVersions /\ ~HasAuth(s.npmrc)
      /\ Resolved(s) = key
  BY <1>0 DEF SnapshotKey, Resolved, Seeded
<1>2. key \in Keys /\ key[1] = s.config /\ key[2] = s.npmrc
  BY <1>0, <1>1 DEF Keys, Stack
<1>3. entry \in Entry /\ entry.key = key /\ entry.snapshot = key
  BY <1>2 DEF Entry
<1>4. cache' = CacheInsert(key, key)
  BY <1>1 DEF SaveSnapshot
<1>5. /\ cache \in Seq(Entry) /\ Len(cache) \in Nat /\ Len(cache) <= MaxEntries /\ MaxEntries \in Nat \ {0}
      /\ \A i, j \in 1..Len(cache) : cache[i].key = cache[j].key => i = j
      /\ \A i \in 1..Len(cache) : cache[i].snapshot = cache[i].key
      /\ \A i \in 1..Len(cache) : cache[i].key[1] \notin ByonmVersions /\ ~HasAuth(cache[i].key[2])
  BY <1>0, CacheParts, BoundsAssumption DEF CacheSound
<1>6. /\ cache' \in Seq(Entry) /\ Len(cache') <= MaxEntries
      /\ \A i, j \in 1..Len(cache') : cache'[i].key = cache'[j].key => i = j
      /\ \A i \in 1..Len(cache') : cache'[i] = entry \/ \E j \in 1..Len(cache) : cache'[i] = cache[j]
  <2>1. CASE hits # {}
    <3>1. PICK h \in hits : h = CHOOSE j \in hits : TRUE
      BY <2>1
    <3>2. cache' = [cache EXCEPT ![h] = entry]
      BY <1>4, <2>1, <3>1 DEF CacheInsert
    <3>3. h \in 1..Len(cache) /\ cache[h].key = key
      OBVIOUS
    <3> HIDE DEF entry, key, hits
    <3>4. /\ cache' \in Seq(Entry) /\ Len(cache') = Len(cache) /\ cache'[h] = entry
          /\ \A i \in 1..Len(cache) : i # h => cache'[i] = cache[i]
      BY <1>3, <1>5, <3>2, <3>3
    <3>5. QED
      BY <1>3, <1>5, <3>3, <3>4
  <2>2. CASE hits = {}
    <3> DEFINE longer == Append(cache, entry)
    <3>1. \A i \in 1..Len(cache) : cache[i].key # key
      BY <2>2
    <3>2. cache' = IF Len(longer) > MaxEntries THEN Tail(longer) ELSE longer
      BY <1>4, <2>2 DEF CacheInsert
    <3> HIDE DEF entry, key, hits
    <3>3. /\ longer \in Seq(Entry) /\ Len(longer) = Len(cache) + 1 /\ longer[Len(longer)] = entry
          /\ \A i \in 1..Len(cache) : longer[i] = cache[i]
      BY <1>3, <1>5
    <3> HIDE DEF longer
    <3>4. \A i, j \in 1..Len(longer) : longer[i].key = longer[j].key => i = j
      BY <1>3, <1>5, <3>1, <3>3
    <3>5. CASE Len(longer) > MaxEntries
      <4>1. /\ cache' = Tail(longer) /\ cache' \in Seq(Entry) /\ Len(cache') = Len(longer) - 1
            /\ \A i \in 1..Len(cache') : cache'[i] = longer[i + 1]
        BY <3>2, <3>3, <3>5, <1>5
      <4>2. QED
        <5>1. Len(cache') <= MaxEntries /\ \A i \in 1..Len(cache') : i + 1 \in 1..Len(longer) /\ cache'[i] = longer[i + 1]
          BY <1>5, <3>3, <4>1
        <5>2. \A i, j \in 1..Len(cache') : cache'[i].key = cache'[j].key => i = j
          <6> SUFFICES ASSUME NEW i \in 1..Len(cache'), NEW j \in 1..Len(cache'), cache'[i].key = cache'[j].key
                       PROVE  i = j
            OBVIOUS
          <6>1. i + 1 = j + 1
            BY <3>4, <5>1
          <6>2. QED
            BY <6>1
        <5>3. \A i \in 1..Len(cache') : cache'[i] = entry \/ \E j \in 1..Len(cache) : cache'[i] = cache[j]
          BY <1>5, <3>3, <5>1
        <5>4. QED
          BY <4>1, <5>1, <5>2, <5>3
    <3>6. CASE ~(Len(longer) > MaxEntries)
      BY <1>5, <3>2, <3>3, <3>4, <3>6
    <3>7. QED
      BY <3>5, <3>6
  <2>3. QED
    BY <2>1, <2>2
<1> HIDE DEF entry, hits
<1>7. CacheSound'
  <2>1. ASSUME NEW i \in 1..Len(cache')
        PROVE  /\ cache'[i].snapshot = cache'[i].key /\ cache'[i].key[1] \notin ByonmVersions
               /\ ~HasAuth(cache'[i].key[2])
    <3>1. CASE cache'[i] = entry
      BY <1>1, <1>2, <1>3, <3>1
    <3>2. CASE \E j \in 1..Len(cache) : cache'[i] = cache[j]
      BY <1>5, <3>2
    <3>3. QED
      BY <1>6, <3>1, <3>2
  <2>2. QED
    BY <1>6, <2>1 DEF CacheSound, HasAuth
<1>8. RunSound(r)' /\ \E l \in LocalsType : run' = [run EXCEPT ![r] = l]
  BY <1>0, GotoSound DEF SaveSnapshot
<1>9. run' \in [Runs -> LocalsType] /\ \A q \in Runs : q # r => run'[q] = run[q]
  BY <1>0, <1>8, RunMoves
<1>10. TypeOK'
  <2>1. cache' \in Seq([key : Keys, snapshot : Keys])
    BY <1>6 DEF Entry
  <2>2. QED
    BY <1>0, <1>9, <2>1 DEF TypeOK, LocalsType, Points, ghosts
<1>11. \A q \in Runs : RunSound(q)'
  BY <1>0, <1>8, <1>9, OthersKeep DEF ghosts
<1>12. History' /\ StateSound'
  BY <1>0 DEF RInv, History, StateSound, Covers, Whole, OwnProbe, ghosts
<1>13. QED
  BY <1>7, <1>10, <1>11, <1>12 DEF RInv

-----------------------------------------------------------------------------
(* The world. *)

\* Versions only grow.
LEMMA EditGrows ==
  ASSUME TypeOK, NEW i \in Inputs, Edit(i)
  PROVE  /\ disk' \in [Inputs -> Versions]
         /\ \A j \in Inputs : disk[j] \in Nat /\ disk'[j] \in Nat /\ disk[j] <= disk'[j]
         /\ Visible(disk') \in [Probed -> Versions]
<1>1. \A j \in Inputs : disk[j] \in Nat /\ disk[j] <= MaxEdits
  BY BoundsAssumption DEF TypeOK, Versions
<1>2. disk[i] + 1 <= MaxEdits
  <2>1. /\ disk["config"] \in Nat /\ disk["npmrc"] \in Nat /\ disk["env"] \in Nat /\ disk["lock"] \in Nat
        /\ disk["unprobed"] \in Nat
    BY <1>1 DEF Inputs, Probed
  <2>2. disk["config"] + disk["npmrc"] + disk["env"] + disk["lock"] + disk["unprobed"] < MaxEdits
    BY DEF Edit, Edits
  <2>3. disk["config"] < MaxEdits /\ disk["npmrc"] < MaxEdits /\ disk["env"] < MaxEdits /\ disk["lock"] < MaxEdits
        /\ disk["unprobed"] < MaxEdits
    BY <2>1, <2>2, BoundsAssumption
  <2>4. disk[i] < MaxEdits
    BY <2>3 DEF Inputs, Probed
  <2>5. QED
    BY <1>1, <2>4, BoundsAssumption
<1>3. disk[i] + 1 \in Versions
  BY <1>1, <1>2, BoundsAssumption DEF Versions
<1>4. disk' \in [Inputs -> Versions]
  BY <1>3 DEF Edit, TypeOK
<1>5. \A j \in Inputs : disk'[j] = IF j = i THEN disk[j] + 1 ELSE disk[j]
  BY DEF Edit, TypeOK
<1>6. QED
  BY <1>1, <1>4, <1>5, BoundsAssumption DEF Visible, Inputs, Versions

\* An edit of any input keeps the invariant.
LEMMA EditKeeps == ASSUME RInv, NEW i \in Inputs, Edit(i) PROVE RInv'
<1>0. TypeOK /\ UNCHANGED <<state, gate, run, cache, refreshed, floor>>
  BY DEF RInv, Edit, ghosts
<1>1. /\ disk' \in [Inputs -> Versions] /\ Visible(disk') \in [Probed -> Versions]
      /\ \A j \in Inputs : disk[j] \in Nat /\ disk'[j] \in Nat /\ disk[j] <= disk'[j]
  BY <1>0, EditGrows
<1>2. /\ seen' \in [Runs -> SUBSET [Probed -> Versions]]
      /\ \A r \in Runs : seen'[r] = IF Waiting(r) THEN seen[r] \cup {Visible(disk')} ELSE seen[r]
  BY <1>0, <1>1 DEF Edit, TypeOK
<1>3. TypeOK'
  BY <1>0, <1>1, <1>2 DEF TypeOK
<1>4. /\ disk["unprobed"] \in Nat /\ disk'["unprobed"] \in Nat /\ disk["unprobed"] <= disk'["unprobed"]
      /\ disk["config"] \in Nat /\ disk'["config"] \in Nat /\ disk["config"] <= disk'["config"]
      /\ disk["npmrc"] \in Nat /\ disk'["npmrc"] \in Nat /\ disk["npmrc"] <= disk'["npmrc"]
      /\ disk["env"] \in Nat /\ disk'["env"] \in Nat /\ disk["env"] <= disk'["env"]
      /\ disk["lock"] \in Nat /\ disk'["lock"] \in Nat /\ disk["lock"] <= disk'["lock"]
  BY <1>1 DEF Inputs, Probed
<1>5. ASSUME NEW s \in Stack, NEW g \in 0..MaxRefresh, Covers(s, g) PROVE Covers(s, g)'
  BY <1>0, <1>4, <1>5, StackParts DEF Covers, Whole, OwnProbe, EnvironmentProbe, HasAuth,
     LockfilePresent
<1>6. StateSound' /\ CacheSound'
  <2>1. state.shared \in Stack /\ state.built \in 0..MaxRefresh
    BY <1>0 DEF TypeOK
  <2>2. QED
    BY <1>0, <1>5, <2>1 DEF RInv, StateSound, CacheSound
<1>7. History'
  <2>1. \A g \in 0..state.refresh : refreshed[g] \in Nat /\ refreshed[g] <= disk["unprobed"]
    BY <1>0, BoundsAssumption DEF RInv, History, TypeOK, Versions
  <2>2. QED
    BY <1>0, <1>4, <2>1 DEF RInv, History
<1>8. ASSUME NEW r \in Runs PROVE RunSound(r)'
  <2>0. /\ RunSound(r) /\ Pc(r)' = Pc(r) /\ run[r].shared \in Stack /\ run[r].built \in 0..MaxRefresh
        /\ seen[r] \subseteq seen'[r] /\ Waiting(r)' = Waiting(r) /\ Building(r)' = Building(r)
    BY <1>0, <1>2, RunParts DEF RInv, Pc, Waiting, Building
  <2>1. CopySound(r)' /\ GateSound(r)'
    BY <1>0, <1>5, <2>0 DEF RunSound, CopySound, GateSound, Rebuilding
  <2>2. WaitSound(r)'
    <3>1. IsFiniteSet(seen'[r])
      BY <1>2, <2>0, FS_AddElement DEF RunSound, WaitSound
    <3>2. Waiting(r) => Visible(disk)' \in seen'[r]
      BY <1>2 DEF Visible
    <3>3. QED
      BY <1>0, <2>0, <3>1, <3>2 DEF RunSound, WaitSound
  <2>3. \A a : Older(a, disk) /\ a \in [Probed -> Versions] => Older(a, disk')
    BY <1>1, BoundsAssumption DEF Older, Inputs, Versions
  <2>4. \A x, a \in Nat : /\ Between(a, x, disk["config"]) => Between(a, x, disk'["config"])
                          /\ Between(a, x, disk["npmrc"]) => Between(a, x, disk'["npmrc"])
                          /\ Between(a, x, disk["env"]) => Between(a, x, disk'["env"])
                          /\ Between(a, x, disk["lock"]) => Between(a, x, disk'["lock"])
    BY <1>4 DEF Between
  <2>5. ASSUME NEW b \in seen[r], AttemptSince(r, b) PROVE AttemptSince(r, b)'
    <3>1. b \in [Probed -> Versions] /\ b["config"] \in Nat /\ b["npmrc"] \in Nat /\ b["env"] \in Nat /\ b["lock"] \in Nat
      <4>1. b \in [Probed -> Versions]
        BY <1>0 DEF TypeOK
      <4>2. QED
        BY <4>1, BoundsAssumption DEF Probed, Versions
    <3>2. Older(b, disk')
      BY <2>3, <2>5, <3>1 DEF AttemptSince
    <3>3. \A l \in Versions : Between(b["lock"], l, disk["lock"]) => Between(b["lock"], l, disk'["lock"])
      BY <2>4, <3>1, BoundsAssumption DEF Versions
    <3>4. QED
      BY <1>0, <2>0, <2>4, <2>5, <3>1, <3>2, <3>3, StackParts DEF AttemptSince, After, Older
  <2>6. ASSUME NEW v \in seen[r], InstantOf(r, v) PROVE InstantOf(r, v)'
    <3>1. v["config"] \in Nat /\ v["lock"] \in Nat
      <4>1. v \in [Probed -> Versions]
        BY <1>0 DEF TypeOK
      <4>2. QED
        BY <4>1, BoundsAssumption DEF Probed, Versions
    <3>2. QED
      BY <1>0, <2>0, <2>4, <2>6, <3>1, StackParts DEF InstantOf
  <2>7. Recent(r) => Recent(r)'
    BY <1>0, <1>4, <2>0, StackParts DEF Recent
  <2>8. BuildSound(r)'
    BY <1>0, <2>0, <2>5, <2>6, <2>7 DEF RunSound, BuildSound, After, Whole, OwnProbe,
       EnvironmentProbe, HasAuth, LockfilePresent, Showed
  <2>9. SeedSound(r)'
    BY <1>0, <2>0 DEF RunSound, SeedSound
  <2>10. QED
    BY <2>1, <2>2, <2>8, <2>9 DEF RunSound
<1>9. QED
  BY <1>3, <1>6, <1>7, <1>8 DEF RInv

\* refresh() keeps the invariant.
LEMMA RefreshKeeps == ASSUME RInv, Refresh PROVE RInv'
<1>0. /\ TypeOK /\ UNCHANGED <<disk, gate, run, cache, seen, floor>>
      /\ state.refresh \in 0..MaxRefresh /\ state.refresh + 1 \in 0..MaxRefresh /\ state.built <= state.refresh
      /\ state.built \in 0..MaxRefresh /\ state.shared \in Stack
  BY BoundsAssumption DEF RInv, TypeOK, Refresh, History
<1>1. /\ state'.shared = state.shared /\ state'.built = state.built /\ state'.refresh = state.refresh + 1
      /\ state' \in [shared : Stack, refresh : 0..MaxRefresh, built : 0..MaxRefresh]
  BY <1>0 DEF Refresh, TypeOK
<1>2. /\ refreshed' \in [0..MaxRefresh -> Versions]
      /\ refreshed'[state.refresh + 1] = disk["unprobed"]
      /\ \A g \in 0..state.refresh : refreshed'[g] = refreshed[g]
  <2>1. disk["unprobed"] \in Versions
    BY <1>0, DiskParts
  <2>2. refreshed \in [0..MaxRefresh -> Versions] /\ refreshed' = [refreshed EXCEPT ![state.refresh + 1] = disk["unprobed"]]
    BY <1>0 DEF TypeOK, Refresh
  <2>3. \A g \in 0..state.refresh : g \in 0..MaxRefresh /\ g # state.refresh + 1
    BY <1>0, BoundsAssumption
  <2>4. QED
    BY <1>0, <2>1, <2>2, <2>3
<1>3. TypeOK'
  BY <1>0, <1>1, <1>2 DEF TypeOK
<1>4. History'
  <2>1. \A g \in 0..state.refresh : refreshed[g] \in Nat /\ refreshed[g] <= disk["unprobed"]
    <3>1. \A g \in 0..state.refresh : g \in 0..MaxRefresh
      BY <1>0, BoundsAssumption
    <3>2. \A g \in 0..MaxRefresh : refreshed[g] \in Nat
      <4>1. refreshed \in [0..MaxRefresh -> Versions]
        BY <1>0 DEF TypeOK
      <4>2. \A n \in Versions : n \in Nat
        BY BoundsAssumption DEF Versions
      <4>3. QED
        BY <4>1, <4>2
    <3>3. \A g \in 0..state.refresh : refreshed[g] <= disk["unprobed"]
      BY DEF RInv, History
    <3>4. QED
      BY <3>1, <3>2, <3>3
  <2>2. disk["unprobed"] \in Nat /\ disk' = disk
    BY <1>0, DiskParts
  <2>3. \A g \in 0..(state.refresh + 1) : g \in 0..state.refresh \/ g = state.refresh + 1
    BY <1>0
  <2>4. QED
    BY <1>0, <1>1, <1>2, <2>1, <2>2, <2>3 DEF RInv, History
<1>5. ASSUME NEW s \in Stack, NEW g \in 0..MaxRefresh, g <= state.refresh, Covers(s, g) PROVE Covers(s, g)'
  <2>1. refreshed'[g] = refreshed[g]
    BY <1>0, <1>2, <1>5
  <2>2. QED
    BY <1>0, <1>5, <2>1 DEF Covers, Whole, OwnProbe, EnvironmentProbe, HasAuth, LockfilePresent
<1>6. StateSound' /\ CacheSound'
  <2>1. Covers(state.shared, state.built)'
    BY <1>0, <1>1, <1>2 DEF RInv, StateSound, Covers, Whole, OwnProbe, EnvironmentProbe,
       HasAuth, LockfilePresent
  <2>2. QED
    BY <1>0, <1>1, <2>1 DEF RInv, StateSound, CacheSound, Seeded
<1>7. ASSUME NEW r \in Runs PROVE RunSound(r)'
  <2>0. /\ RunSound(r) /\ Pc(r)' = Pc(r) /\ run[r].shared \in Stack /\ run[r].built \in 0..MaxRefresh
        /\ run[r].refresh \in 0..MaxRefresh /\ run[r].refresh <= state.refresh
        /\ Waiting(r)' = Waiting(r) /\ Building(r)' = Building(r)
    BY <1>0, RunParts DEF RInv, Pc, Waiting, Building, RunSound, WaitSound
  <2>1. refreshed'[run[r].refresh] = refreshed[run[r].refresh]
    BY <1>2, <2>0
  <2>2. CopySound(r)' /\ GateSound(r)'
    <3>1. Pc(r) \in {"probe", "gate", "reprobe"} => run[r].built <= state.refresh
      BY <1>0, <2>0 DEF RunSound, CopySound
    <3>2. QED
      BY <1>0, <1>1, <1>5, <2>0, <3>1 DEF RunSound, CopySound, GateSound, Rebuilding
  <2>3. WaitSound(r)'
    BY <1>0, <1>1, <2>0, <2>1 DEF RunSound, WaitSound, Visible
  <2>4. \A b : AttemptSince(r, b) => AttemptSince(r, b)'
    BY <1>0, <2>0 DEF AttemptSince, Older, After
  <2>5. \A v : InstantOf(r, v) => InstantOf(r, v)'
    BY <1>0, <2>0 DEF InstantOf
  <2>6. BuildSound(r)'
    BY <1>0, <2>0, <2>1, <2>4, <2>5 DEF RunSound, BuildSound, After, Recent, Whole, OwnProbe,
       EnvironmentProbe, HasAuth, LockfilePresent, Showed
  <2>7. SeedSound(r)'
    BY <1>0, <2>0 DEF RunSound, SeedSound
  <2>8. QED
    BY <2>2, <2>3, <2>6, <2>7 DEF RunSound
<1>8. QED
  BY <1>3, <1>4, <1>6, <1>7 DEF RInv

-----------------------------------------------------------------------------
(* The invariant is inductive. *)

\* LibdenoRuntime::new establishes the invariant.
LEMMA ResolverInit == Init => RInv
<1> SUFFICES ASSUME Init PROVE RInv
  OBVIOUS
<1>0. FreshStack \in Stack /\ FreshStack.seed = NoSeed /\ 0 \in 0..MaxRefresh /\ 0 \in Versions
  BY FreshIsStack, BoundsAssumption DEF Versions
<1>1. /\ NewRun \in LocalsType /\ NewRun.pc = "new" /\ NewRun.shared = FreshStack /\ NewRun.refresh = 0
  BY <1>0 DEF NewRun, Locals, LocalsType, Points, MAX_STABLE_BUILD_ATTEMPTS
<1>2. TypeOK
  <2>1. run \in [Runs -> LocalsType]
    BY <1>1 DEF Init
  <2>2. cache \in Seq([key : Keys, snapshot : Keys])
    BY DEF Init
  <2>3. disk \in [Inputs -> Versions] /\ refreshed \in [0..MaxRefresh -> Versions]
        /\ seen \in [Runs -> SUBSET [Probed -> Versions]] /\ floor \in [Runs -> Versions]
    BY <1>0 DEF Init
  <2>4. QED
    BY <1>0, <2>1, <2>2, <2>3 DEF Init, TypeOK, LocalsType, Points
<1>3. disk["unprobed"] = 0 /\ refreshed[0] = 0 /\ state.refresh = 0 /\ state.built = 0 /\ state.shared = FreshStack
  BY <1>0 DEF Init, Inputs
<1>4. History
  BY <1>3 DEF History
<1>5. Covers(FreshStack, 0)
  <2>1. LockfilePresent(0) \in BOOLEAN
    BY DEF LockfilePresent
  <2>2. /\ FreshStack.config = 0 /\ FreshStack.npmrc = 0 /\ FreshStack.env = 0 /\ FreshStack.lock = 0
        /\ FreshStack.unprobed = 0 /\ FreshStack.present = LockfilePresent(0)
        /\ FreshStack.probe = ProbeOf([i \in Inputs |-> 0], HasAuth(0))
    BY DEF FreshStack
  <2>3. EnvironmentProbe(FreshStack, HasAuth(0)) = 0 /\ EnvironmentProbe([i \in Inputs |-> 0], HasAuth(0)) = 0
    BY <1>0, <2>2 DEF EnvironmentProbe, Stack, Inputs, Probed
  <2>4. OwnProbe(FreshStack)
    BY <2>2, <2>3 DEF OwnProbe, ProbeOf, Inputs, Probed
  <2>5. QED
    BY <1>3, <2>2, <2>4 DEF Covers, Whole
<1>6. StateSound /\ CacheSound
  BY <1>0, <1>3, <1>5, BoundsAssumption DEF StateSound, Seeded, CacheSound, Init
<1>7. ASSUME NEW r \in Runs PROVE RunSound(r)
  <2>1. run[r] = NewRun /\ Pc(r) = "new" /\ seen[r] = {}
    BY <1>1 DEF Init, Pc
  <2>2. CopySound(r) /\ GateSound(r) /\ BuildSound(r)
    BY <2>1 DEF CopySound, GateSound, Rebuilding, BuildSound, Building, After, Load, Reparse1,
       Reparse2, Probe, Npmrc
  <2>3. WaitSound(r) /\ SeedSound(r)
    BY <1>0, <1>1, <1>3, <2>1, FS_EmptySet DEF WaitSound, Waiting, Building, SeedSound, Seeded
  <2>4. QED
    BY <2>2, <2>3 DEF RunSound
<1>8. QED
  BY <1>2, <1>4, <1>6, <1>7 DEF RInv

\* Every step keeps the invariant, operation by operation.
LEMMA ResolverStep == RInv /\ [Next]_vars => RInv'
<1> SUFFICES ASSUME RInv, [Next]_vars PROVE RInv'
  OBVIOUS
<1>1. CASE UNCHANGED vars
  <2> USE <1>1 DEF vars
  <2>1. TypeOK'
    BY DEF RInv, TypeOK
  <2>2. \A r \in Runs : RunSound(r)'
    BY OthersKeep
  <2>3. QED
    BY <2>1, <2>2, StateKeeps DEF RInv
<1>2. ASSUME NEW i \in Inputs, Edit(i) PROVE RInv'
  BY <1>2, EditKeeps
<1>3. CASE Refresh
  BY <1>3, RefreshKeeps
<1>4. ASSUME NEW r \in Runs, Refuse(r) \/ ProbeAsksForGate(r) \/ RunSucceeds(r) \/ RunFails(r) PROVE RInv'
  <2>1. PICK p \in {"refused", "gate", "save", "done"} :
          /\ Goto(r, p) /\ UNCHANGED <<disk, state, gate, cache, seen, ghosts>>
          /\ p = "gate" => Pc(r) = "probe"
          /\ p = "save" => SnapshotKey(run[r].shared) # NoKey
    BY <1>4 DEF Refuse, ProbeAsksForGate, RunSucceeds, RunFails
  <2>2. RunSound(r)' /\ \E l \in LocalsType : run' = [run EXCEPT ![r] = l]
    BY <2>1, GotoSound
  <2>3. QED
    BY <2>1, <2>2, LocalStep
<1>5. ASSUME NEW r \in Runs, ProbeReuses(r) \/ ReprobeReuses(r) \/ GiveUp(r) \/ BuildFails(r) \/ DropFuture(r)
      PROVE  RInv'
  <2>1. PICK how \in {"running", "failed", "error", "dropped"}, s \in {run[r].shared, state.shared, FreshStack} :
          Leave(r, how, s) /\ UNCHANGED <<disk, state, cache, ghosts>>
    BY <1>5 DEF ProbeReuses, ReprobeReuses, GiveUp, BuildFails, DropFuture, ServedWith, Ended
  <2>2. TypeOK /\ run[r].shared \in Stack /\ state.shared \in Stack
    BY RunParts DEF RInv, TypeOK
  <2>3. s \in Stack /\ Seeded(s)
    BY <2>1, <2>2, FreshIsStack DEF RInv, RunSound, SeedSound, StateSound, Seeded
  <2>4. QED
    BY <2>1, <2>3, LeaveKeeps
<1>6. ASSUME NEW r \in Runs, ReprobeBuilds(r) PROVE RInv'
  BY <1>6, StartSound DEF ReprobeBuilds, Rebuilding
<1>7. ASSUME NEW r \in Runs,
             \/ Begin(r) \/ TakeGate(r) \/ Discover(r) \/ DiscoverNpmrc(r) \/ ProbeInputs(r) \/ Reparse(r)
             \/ ReparseNpmrc(r) \/ Assemble(r) \/ Retry(r) \/ Accept(r) \/ Publish(r) \/ SaveSnapshot(r)
      PROVE  RInv'
  BY <1>7, BeginKeeps, TakeGateKeeps, ReadsKeep, AssembleKeeps, RetryKeeps, AcceptKeeps,
     PublishKeeps, SaveKeeps
<1>8. QED
  BY <1>1, <1>2, <1>3, <1>4, <1>5, <1>6, <1>7 DEF Next, Probing, BuildStep, Executing

\* The inductive invariant holds in every reachable state.
LEMMA ResolverInvariant == Spec => []RInv
<1>1. QED
  BY ResolverInit, ResolverStep, PTL DEF Spec

-----------------------------------------------------------------------------
(* What the runtime promises. *)

\* The published stack is what its manifest says and covers the refresh() it
\* claims; the snapshot cache is bounded, keyed and never seeds a stack with
\* foreign inputs (runtime.rs shared_for_run, services.rs build_once,
\* npm_cache.rs get and insert).
THEOREM ResolverIsSound == Spec => []Inv
<1>1. RInv => Inv
  <2> SUFFICES ASSUME RInv PROVE Inv
    OBVIOUS
  <2>1. PublishedSound
    <3>1. state.built \in 0..MaxRefresh /\ state.built <= state.refresh /\ Covers(state.shared, state.built)
      BY DEF RInv, TypeOK, History, StateSound
    <3>2. state.shared.unprobed \in Nat /\ refreshed[state.built] \in Nat
      BY <3>1, StackParts, BoundsAssumption DEF RInv, TypeOK, Versions
    <3>3. QED
      BY <3>1, <3>2 DEF PublishedSound, Covers, Whole, OwnProbe
  <2>2. SnapshotsKeyed
    BY DEF RInv, CacheSound, RunSound, SeedSound, Seeded, SnapshotsKeyed
  <2>3. QED
    BY <2>1, <2>2 DEF RInv, Inv
<1>2. QED
  BY <1>1, ResolverInvariant, PTL

-----------------------------------------------------------------------------
(* The runtime implements its contract: the mapping of Contract, run by    *)
(* run, and what each step does to it.                                     *)

GotOf(r) == InputsOf(IF Served(r) THEN run[r].shared ELSE FreshStack)
AbsPhase == [r \in Runs |-> Phase(r)]
AbsGot == [r \in Runs |-> GotOf(r)]

\* A run that stands still stands still in the contract.
LEMMA SamePhase ==
  ASSUME NEW q \in Runs, run'[q] = run[q]
  PROVE  Phase(q)' = Phase(q) /\ GotOf(q)' = GotOf(q)
<1>1. Pc(q)' = Pc(q)
  BY DEF Pc
<1>2. Waiting(q)' = Waiting(q) /\ Served(q)' = Served(q)
  BY <1>1 DEF Waiting, Building, Served
<1>3. QED
  BY <1>1, <1>2 DEF Phase, GotOf

\* One run moves: the contract sees that run move.
LEMMA OneMoves ==
  ASSUME TypeOK, NEW r \in Runs, NEW l \in LocalsType, run' = [run EXCEPT ![r] = l]
  PROVE  /\ AbsPhase' = [AbsPhase EXCEPT ![r] = Phase(r)']
         /\ AbsGot' = [AbsGot EXCEPT ![r] = GotOf(r)']
<1>1. \A q \in Runs : q # r => run'[q] = run[q]
  BY RunMoves
<1>2. \A q \in Runs : q # r => Phase(q)' = Phase(q) /\ GotOf(q)' = GotOf(q)
  BY <1>1, SamePhase
<1>3. QED
  BY <1>2 DEF AbsPhase, AbsGot

\* A step within shared_for_run, or within the execution, is invisible.
LEMMA Unseen ==
  ASSUME TypeOK, NEW r \in Runs, NEW l \in LocalsType, run' = [run EXCEPT ![r] = l],
         UNCHANGED <<disk, state, seen, ghosts>>,
         \/ Waiting(r) /\ Waiting(r)'
         \/ Served(r) /\ Served(r)' /\ run'[r].shared = run[r].shared
  PROVE  UNCHANGED Contract!vars
<1>1. ~(Waiting(r) /\ Served(r)) /\ ~(Waiting(r) /\ Served(r))'
  BY DEF Waiting, Building, Served
<1>2. Phase(r)' = Phase(r) /\ GotOf(r)' = GotOf(r)
  BY <1>1 DEF Phase, GotOf
<1>3. AbsPhase' = AbsPhase /\ AbsGot' = AbsGot
  BY <1>2, OneMoves DEF AbsPhase, AbsGot
<1>4. QED
  BY <1>3 DEF Contract!vars, AbsPhase, AbsGot, GotOf, ghosts

\* A waiting run leaves: what the contract sees of it.
LEMMA LeaveSeen ==
  ASSUME RInv, NEW r \in Runs, NEW how \in {"running", "failed", "error", "dropped"}, NEW s \in Stack,
         Waiting(r), Leave(r, how, s), UNCHANGED <<disk, ghosts>>, state'.refresh = state.refresh
  PROVE  /\ Contract!End(r, IF how = "running" THEN "served" ELSE how)
         /\ AbsGot' = [AbsGot EXCEPT ![r] = InputsOf(IF how = "running" THEN s ELSE FreshStack)]
         /\ how # "running" => UNCHANGED AbsGot
<1> DEFINE l == Locals(how, s, 0, 0, 0)
<1>0. TypeOK /\ 0 \in 0..MaxRefresh
  BY BoundsAssumption DEF RInv
<1>1. l \in LocalsType /\ l.pc = how /\ l.shared = s /\ run' = [run EXCEPT ![r] = l]
  BY <1>0 DEF Locals, LocalsType, MAX_STABLE_BUILD_ATTEMPTS, Points, Leave
<1> HIDE DEF l
<1>2. Pc(r)' = how /\ run'[r].shared = s
  BY <1>0, <1>1, RunMoves
<1>3. ~Waiting(r)' /\ (Served(r)' <=> how = "running") /\ ~Served(r)
  BY <1>2 DEF Waiting, Building, Served
<1>4. /\ Phase(r)' = (IF how = "running" THEN "served" ELSE how)
      /\ GotOf(r)' = InputsOf(IF how = "running" THEN s ELSE FreshStack)
      /\ Phase(r) = "waiting" /\ GotOf(r) = InputsOf(FreshStack)
  <2>1. GotOf(r)' = InputsOf(IF how = "running" THEN s ELSE FreshStack)
    BY <1>2, <1>3 DEF GotOf, InputsOf
  <2>2. QED
    BY <1>2, <1>3, <2>1 DEF Phase, GotOf
<1>5. /\ AbsPhase' = [AbsPhase EXCEPT ![r] = IF how = "running" THEN "served" ELSE how]
      /\ AbsGot' = [AbsGot EXCEPT ![r] = InputsOf(IF how = "running" THEN s ELSE FreshStack)]
  BY <1>0, <1>1, <1>4, OneMoves
<1>6. AbsPhase[r] = "waiting" /\ AbsGot[r] = InputsOf(FreshStack)
  BY <1>4 DEF AbsPhase, AbsGot
<1>7. Contract!End(r, IF how = "running" THEN "served" ELSE how)
  BY <1>5, <1>6 DEF Contract!End, AbsPhase, Leave, ghosts
<1>8. how # "running" => UNCHANGED AbsGot
  BY <1>5, <1>6 DEF AbsGot
<1>9. QED
  BY <1>5, <1>7, <1>8

\* A run is served: a stack whose probed inputs it saw together, and whose
\* unprobed ones are recent, is one the contract allows.
LEMMA ServedAllowed ==
  ASSUME RInv, NEW r \in Runs, NEW s \in Stack, Waiting(r), Leave(r, "running", s),
         UNCHANGED <<disk, ghosts>>, state'.refresh = state.refresh,
         NEW v \in seen[r], Showed(s, v), floor[r] <= s.unprobed, s.unprobed <= disk["unprobed"]
  PROVE  Contract!Serve(r)
<1>0. TypeOK
  BY DEF RInv
<1>1. Contract!End(r, "served") /\ AbsGot' = [AbsGot EXCEPT ![r] = InputsOf(s)]
  BY LeaveSeen
<1>2. InputsOf(s) = [i \in Contract!Inputs |-> IF i = "unprobed" THEN s.unprobed ELSE v[i]]
  BY DEF InputsOf, Showed, Inputs, Probed, Contract!Inputs, Contract!Probed
<1>3. s.unprobed \in floor[r]..disk["unprobed"]
  <2>1. floor[r] \in Nat /\ disk["unprobed"] \in Nat /\ s.unprobed \in Nat
    BY <1>0, StackParts, DiskParts DEF TypeOK
  <2>2. QED
    BY <2>1
<1>4. \E w \in seen[r], u \in floor[r]..disk["unprobed"] :
        AbsGot' = [AbsGot EXCEPT ![r] = [i \in Contract!Inputs |-> IF i = "unprobed" THEN u ELSE w[i]]]
  BY <1>1, <1>2, <1>3
<1>5. QED
  BY <1>1, <1>4 DEF Contract!Serve, AbsGot, GotOf

\* A stack that is still current was made of what lies on disk.
LEMMA ReusableIsOnDisk ==
  ASSUME TypeOK, NEW s \in Stack, IsReusable(s), Whole(s)
  PROVE  Showed(s, Visible(disk))
<1>1. /\ s.config = disk["config"] /\ s.npmrc = disk["npmrc"] /\ s.lock = disk["lock"] /\ s.env = disk["env"]
  BY DEF IsReusable, IsCurrent, Whole, OwnProbe, ProbeOf, EnvironmentProbe
<1>2. QED
  BY <1>1 DEF Showed, Visible, Probed

\* A run that reuses a stack is served one the contract allows.
LEMMA ReuseServes ==
  ASSUME RInv, NEW r \in Runs, ProbeReuses(r) \/ ReprobeReuses(r)
  PROVE  Contract!Serve(r)
<1> DEFINE s == run[r].shared
<1>0. /\ TypeOK /\ RunSound(r) /\ History /\ s \in Stack /\ Waiting(r) /\ Leave(r, "running", s)
      /\ UNCHANGED <<disk, state, ghosts>> /\ ~NeedsRebuild(r) /\ Pc(r) \in {"probe", "reprobe"}
      /\ run[r].refresh \in 0..MaxRefresh
  BY RunParts DEF RInv, RunSound, GateSound, ProbeReuses, ReprobeReuses, ServedWith, Waiting
<1>1. /\ IsReusable(s) /\ run[r].built = run[r].refresh /\ Covers(s, run[r].built)
      /\ Visible(disk) \in seen[r] /\ floor[r] <= refreshed[run[r].refresh]
  BY <1>0 DEF NeedsRebuild, RunSound, CopySound, WaitSound
<1>2. Showed(s, Visible(disk))
  BY <1>0, <1>1, ReusableIsOnDisk DEF Covers
<1>3. floor[r] <= s.unprobed /\ s.unprobed <= disk["unprobed"]
  <2>1. floor[r] \in Nat /\ refreshed[run[r].refresh] \in Nat /\ s.unprobed \in Nat
    BY <1>0, StackParts, DiskParts DEF TypeOK
  <2>2. QED
    BY <1>1, <2>1 DEF Covers
<1>4. QED
  BY <1>0, <1>1, <1>2, <1>3, ServedAllowed

\* So is a run that built its own, published or not.
LEMMA PublishServes ==
  ASSUME RInv, NEW r \in Runs, Publish(r)
  PROVE  Contract!Serve(r)
<1> DEFINE s == run[r].shared
<1>0. /\ TypeOK /\ RunSound(r) /\ s \in Stack /\ Waiting(r) /\ Leave(r, "running", s)
      /\ UNCHANGED <<disk, ghosts>> /\ Pc(r) = "publish" /\ Recent(r)
      /\ run[r].refresh \in 0..MaxRefresh
  BY RunParts DEF RInv, RunSound, BuildSound, Publish, ServedWith, Waiting
<1>1. state'.refresh = state.refresh
  BY <1>0 DEF Publish, PublishCandidate
<1>2. PICK v \in seen[r] : Showed(s, v)
  BY <1>0 DEF RunSound, BuildSound
<1>3. floor[r] <= s.unprobed /\ s.unprobed <= disk["unprobed"]
  <2>1. floor[r] \in Nat /\ refreshed[run[r].refresh] \in Nat /\ s.unprobed \in Nat
    BY <1>0, StackParts, DiskParts DEF TypeOK
  <2>2. floor[r] <= refreshed[run[r].refresh]
    BY <1>0 DEF RunSound, WaitSound
  <2>3. QED
    BY <1>0, <2>1, <2>2 DEF Recent
<1>4. QED
  BY <1>0, <1>1, <1>2, <1>3, ServedAllowed

\* Two attempts that both met an edit saw three different disks.
LEMMA GiveUpFails ==
  ASSUME RInv, NEW r \in Runs, GiveUp(r)
  PROVE  Contract!InputsChanged(r)
<1> DEFINE v == Visible(disk)
<1>0. /\ TypeOK /\ RunSound(r) /\ Waiting(r) /\ Building(r) /\ AttemptRejected(r) /\ run[r].attempt = 2
      /\ Leave(r, "failed", FreshStack) /\ UNCHANGED <<disk, state, ghosts>>
  BY DEF RInv, GiveUp, Ended, AttemptRejected, Building, Waiting, MAX_STABLE_BUILD_ATTEMPTS
<1>1. PICK b \in seen[r] : AttemptSince(r, b)
  BY <1>0 DEF RunSound, BuildSound
<1>2. PICK a \in seen[r] : Older(a, b) /\ a # b
  BY <1>0, <1>1 DEF AttemptSince
<1>3. Older(b, v) /\ b # v /\ v \in seen[r] /\ IsFiniteSet(seen[r])
  BY <1>0, <1>1, RejectedMetEdit DEF RunSound, WaitSound
<1>4. a # v
  <2>1. a \in [Probed -> Versions] /\ b \in [Probed -> Versions] /\ v \in [Probed -> Versions] /\ Versions \subseteq Nat
    BY <1>0, DiskParts DEF TypeOK
  <2> HIDE DEF v
  <2>2. SUFFICES ASSUME a = v PROVE a = b
    BY <1>2
  <2>3. \A i \in Probed : a[i] <= b[i] /\ b[i] <= a[i] /\ a[i] \in Nat /\ b[i] \in Nat
    BY <1>2, <1>3, <2>1, <2>2 DEF Older
  <2>4. \A i \in Probed : a[i] = b[i]
    BY <2>3
  <2>5. QED
    BY <2>1, <2>4
<1>5. Cardinality(seen[r]) > 2
  <2> HIDE DEF v
  <2>1. /\ Cardinality({}) = 0 /\ IsFiniteSet({})
    BY FS_EmptySet
  <2>2. IsFiniteSet({a}) /\ Cardinality({a}) = 1
    BY FS_Singleton
  <2>3. ASSUME NEW S, IsFiniteSet(S), NEW x, x \notin S
        PROVE  IsFiniteSet(S \cup {x}) /\ Cardinality(S \cup {x}) = Cardinality(S) + 1
    BY <2>3, FS_AddElement, Zenon
  <2>4. b \notin {a} /\ v \notin {a} \cup {b}
    BY <1>2, <1>3, <1>4
  <2>5. IsFiniteSet({a} \cup {b}) /\ Cardinality({a} \cup {b}) = 1 + 1
    BY <2>2, <2>3, <2>4, Zenon
  <2>6. IsFiniteSet(({a} \cup {b}) \cup {v}) /\ Cardinality(({a} \cup {b}) \cup {v}) = (1 + 1) + 1
    BY <2>3, <2>4, <2>5, Zenon
  <2>7. Cardinality(({a} \cup {b}) \cup {v}) <= Cardinality(seen[r]) /\ Cardinality(seen[r]) \in Nat
    BY <1>1, <1>2, <1>3, FS_Subset, FS_CardinalityType
  <2>8. QED
    BY <2>6, <2>7
<1>6. Contract!End(r, "failed") /\ UNCHANGED AbsGot
  BY <1>0, FreshIsStack, LeaveSeen
<1>7. Contract!Cardinality(seen[r]) = Cardinality(seen[r])
  BY DEF Contract!Cardinality, Cardinality
<1>8. QED
  BY <1>5, <1>6, <1>7 DEF Contract!InputsChanged, AbsGot, GotOf, MAX_STABLE_BUILD_ATTEMPTS

\* A run that is dropped or whose construction fails outright.
LEMMA EndsSeen ==
  ASSUME RInv, NEW r \in Runs
  PROVE  /\ BuildFails(r) => Contract!BuildError(r)
         /\ DropFuture(r) => Contract!Drop(r)
<1>1. ASSUME BuildFails(r) PROVE Contract!BuildError(r)
  <2>1. Waiting(r) /\ Leave(r, "error", FreshStack) /\ UNCHANGED <<disk, state, ghosts>>
    BY <1>1 DEF BuildFails, Ended, Waiting, Building
  <2>2. Contract!End(r, "error") /\ UNCHANGED AbsGot
    BY <2>1, FreshIsStack, LeaveSeen
  <2>3. QED
    BY <2>2 DEF Contract!BuildError, AbsGot, GotOf
<1>2. ASSUME DropFuture(r) PROVE Contract!Drop(r)
  <2>1. Waiting(r) /\ Leave(r, "dropped", FreshStack) /\ UNCHANGED <<disk, state, ghosts>>
    BY <1>2 DEF DropFuture, Ended, Waiting, Building
  <2>2. Contract!End(r, "dropped") /\ UNCHANGED AbsGot
    BY <2>1, FreshIsStack, LeaveSeen
  <2>3. QED
    BY <2>2 DEF Contract!Drop, AbsGot, GotOf
<1>3. QED
  BY <1>1, <1>2

\* The world: an edit and a refresh() are what the contract calls so.
LEMMA EditSeen ==
  ASSUME RInv, NEW i \in Inputs, Edit(i)
  PROVE  Contract!Edit(i)
<1>0. TypeOK /\ \A q \in Runs : run'[q] = run[q]
  BY DEF RInv, Edit
<1>1. disk[i] < MaxEdits
  BY <1>0, DiskParts, BoundsAssumption DEF Edit, Edits, Inputs, Probed
<1>2. AbsPhase' = AbsPhase /\ AbsGot' = AbsGot
  BY <1>0, SamePhase DEF AbsPhase, AbsGot
<1>3. ASSUME NEW q \in Runs PROVE AbsPhase[q] = "waiting" <=> Waiting(q)
  <2>1. Pc(q) # "waiting"
    BY <1>0, RunParts DEF Points
  <2>2. QED
    BY <2>1 DEF AbsPhase, Phase
<1>4. seen' = [q \in Runs |-> IF AbsPhase[q] = "waiting"
                               THEN seen[q] \cup {Contract!Visible(disk')} ELSE seen[q]]
  BY <1>3 DEF Edit, Visible, Probed, Contract!Visible, Contract!Probed
<1>5. QED
  BY <1>1, <1>2, <1>4 DEF Contract!Edit, AbsPhase, AbsGot, GotOf, Edit, ghosts

\* refresh() is what the contract calls so.
LEMMA RefreshSeen ==
  ASSUME RInv, Refresh
  PROVE  Contract!Refresh
<1>0. TypeOK /\ \A q \in Runs : run'[q] = run[q]
  BY DEF RInv, Refresh
<1>1. AbsPhase' = AbsPhase /\ AbsGot' = AbsGot
  BY <1>0, SamePhase DEF AbsPhase, AbsGot
<1>2. state'.refresh = state.refresh + 1 /\ state.refresh + 1 \in 0..MaxRefresh
  BY <1>0, BoundsAssumption DEF TypeOK, Refresh
<1>3. refreshed'[state'.refresh] = disk["unprobed"]
  BY <1>0, <1>2 DEF TypeOK, Refresh
<1>4. QED
  BY <1>1, <1>3 DEF Contract!Refresh, AbsPhase, AbsGot, GotOf, Refresh

\* The two ways a new run may start.
LEMMA StartSeen ==
  ASSUME RInv, NEW r \in Runs
  PROVE  /\ Refuse(r) => Contract!Refuse(r)
         /\ Begin(r) => Contract!Begin(r)
<1>0. TypeOK /\ run[r].shared \in Stack /\ run[r].refresh \in 0..MaxRefresh /\ run[r].built \in 0..MaxRefresh
      /\ run[r].attempt \in 0..2
  BY RunParts DEF RInv
<1>1. ASSUME Refuse(r) PROVE Contract!Refuse(r)
  <2> DEFINE l == Locals("refused", run[r].shared, run[r].refresh, run[r].built, run[r].attempt)
  <2>1. l \in LocalsType /\ l.pc = "refused" /\ run' = [run EXCEPT ![r] = l] /\ Pc(r) = "new"
    BY <1>0, <1>1 DEF Locals, LocalsType, Points, MAX_STABLE_BUILD_ATTEMPTS, Refuse, Goto
  <2> HIDE DEF l
  <2>2. Pc(r)' = "refused"
    BY <1>0, <2>1, RunMoves
  <2>3. /\ Phase(r) = "new" /\ Phase(r)' = "refused"
        /\ GotOf(r) = InputsOf(FreshStack) /\ GotOf(r)' = InputsOf(FreshStack)
    BY <2>1, <2>2 DEF Phase, Waiting, Building, Served, GotOf
  <2>4. /\ AbsPhase' = [AbsPhase EXCEPT ![r] = "refused"] /\ AbsPhase[r] = "new"
        /\ AbsGot' = AbsGot
    BY <1>0, <2>1, <2>3, OneMoves DEF AbsPhase, AbsGot
  <2>5. QED
    BY <1>1, <2>4 DEF Contract!Refuse, AbsPhase, AbsGot, GotOf, Refuse, ghosts
<1>2. ASSUME Begin(r) PROVE Contract!Begin(r)
  <2> DEFINE l == Locals("probe", state.shared, state.refresh, state.built, run[r].attempt)
  <2>0. state.shared \in Stack /\ state.refresh \in 0..MaxRefresh /\ state.built \in 0..MaxRefresh
    BY <1>0 DEF TypeOK
  <2>1. l \in LocalsType /\ l.pc = "probe" /\ run' = [run EXCEPT ![r] = l] /\ Pc(r) = "new"
    BY <1>0, <1>2, <2>0 DEF Locals, LocalsType, Points, MAX_STABLE_BUILD_ATTEMPTS, Begin, Snapshot
  <2> HIDE DEF l
  <2>2. Pc(r)' = "probe"
    BY <1>0, <2>1, RunMoves
  <2>3. /\ Phase(r) = "new" /\ Phase(r)' = "waiting"
        /\ GotOf(r) = InputsOf(FreshStack) /\ GotOf(r)' = InputsOf(FreshStack)
    BY <2>1, <2>2 DEF Phase, Waiting, Building, Served, GotOf
  <2>4. /\ AbsPhase' = [AbsPhase EXCEPT ![r] = "waiting"] /\ AbsPhase[r] = "new"
        /\ AbsGot' = AbsGot
    BY <1>0, <2>1, <2>3, OneMoves DEF AbsPhase, AbsGot
  <2>5. Contract!Visible(disk) = Visible(disk)
    BY DEF Visible, Probed, Contract!Visible, Contract!Probed
  <2>6. QED
    BY <1>2, <2>4, <2>5 DEF Contract!Begin, AbsPhase, AbsGot, GotOf, Begin
<1>3. QED
  BY <1>1, <1>2

\* The steps the contract does not see.
LEMMA InnerSteps ==
  ASSUME RInv, NEW r \in Runs,
         \/ ProbeAsksForGate(r) \/ TakeGate(r) \/ ReprobeBuilds(r)
         \/ Discover(r) \/ DiscoverNpmrc(r) \/ ProbeInputs(r) \/ Reparse(r) \/ ReparseNpmrc(r)
         \/ Assemble(r) \/ Retry(r) \/ Accept(r) \/ Executing(r)
  PROVE  UNCHANGED Contract!vars
<1>0. TypeOK /\ TypeOK'
  <2>1. [Next]_vars
    BY DEF Next, Probing, BuildStep
  <2>2. QED
    BY <2>1, ResolverStep DEF RInv
<1>1. /\ UNCHANGED <<disk, state, seen, ghosts>> /\ \E l : run' = [run EXCEPT ![r] = l]
  BY DEF ProbeAsksForGate, TakeGate, Snapshot, ReprobeBuilds, StartAttempt, Discover,
     DiscoverNpmrc, ProbeInputs, Reparse, ReparseNpmrc, Assemble, Retry, Accept, Read, Executing,
     RunSucceeds, RunFails, SaveSnapshot, Goto, ghosts
<1>2. PICK l : run' = [run EXCEPT ![r] = l]
  BY <1>1
<1>3. run'[r] = l /\ l \in LocalsType
  BY <1>0, <1>2 DEF TypeOK, LocalsType, Points
<1>4. CASE Executing(r)
  <2>1. Pc(r) \in {"running", "save"} /\ l.pc \in {"save", "done"} /\ l.shared = run[r].shared
    BY <1>2, <1>3, <1>4, <1>0 DEF Executing, RunSucceeds, RunFails, SaveSnapshot, Goto, Locals,
       TypeOK, Pc
  <2>2. QED
    BY <1>0, <1>1, <1>2, <1>3, <2>1, Unseen DEF Served, Pc
<1>5. CASE ~Executing(r)
  <2>1. Waiting(r)
    BY <1>5 DEF ProbeAsksForGate, TakeGate, ReprobeBuilds, Discover, DiscoverNpmrc, ProbeInputs,
       Reparse, ReparseNpmrc, Assemble, Retry, AttemptRejected, Accept, Read, Waiting, Building
  <2>2. l.pc \in BuildPoints \cup {"gate", "reprobe", "publish"}
    BY <1>0, <1>3, <1>5 DEF ProbeAsksForGate, TakeGate, Snapshot, ReprobeBuilds, StartAttempt,
       Discover, DiscoverNpmrc, ProbeInputs, Reparse, ReparseNpmrc, Assemble, Retry, Accept, Read,
       Goto, Locals, TypeOK, BuildPoints
  <2>3. Waiting(r)'
    BY <1>3, <2>2 DEF Waiting, Building, Pc, BuildPoints
  <2>4. QED
    BY <1>0, <1>1, <1>2, <1>3, <2>1, <2>3, Unseen
<1>6. QED
  BY <1>4, <1>5

\* Every run is served, in effect atomically, a stack whose probed inputs lay
\* on disk together at one instant of its wait and whose unprobed inputs are
\* no older than the last refresh() that had returned; it fails over changing
\* inputs only if both attempts met an edit (runtime.rs shared_for_run,
\* services.rs new_with_timing and build_once).
THEOREM RuntimeServesContract == Spec => ServesContract
<1>1. Init => Contract!Init
  <2> SUFFICES ASSUME Init PROVE Contract!Init
    OBVIOUS
  <2>1. \A r \in Runs : Pc(r) = "new"
    BY DEF Init, Pc, NewRun, Locals
  <2>2. AbsPhase = [r \in Runs |-> "new"]
    BY <2>1 DEF AbsPhase, Phase, Waiting, Building, Served
  <2>3. InputsOf(FreshStack) = Contract!Nothing
    BY DEF InputsOf, FreshStack, Contract!Nothing, Contract!Inputs, Contract!Probed, Inputs, Probed
  <2>4. \A r \in Runs : GotOf(r) = Contract!Nothing
    BY <2>1, <2>3 DEF GotOf, Served
  <2>5. AbsGot = [r \in Runs |-> Contract!Nothing]
    BY <2>4 DEF AbsGot
  <2>6. disk = Contract!Nothing /\ refreshed[state.refresh] = 0
    BY BoundsAssumption DEF Init, Contract!Nothing, Contract!Inputs, Contract!Probed, Inputs, Probed
  <2>7. QED
    BY <2>2, <2>5, <2>6 DEF Contract!Init, AbsPhase, AbsGot, GotOf, Init
<1>2. RInv /\ [Next]_vars => [Contract!Next]_Contract!vars
  <2> SUFFICES ASSUME RInv, [Next]_vars PROVE Contract!Next \/ UNCHANGED Contract!vars
    OBVIOUS
  <2>1. CASE UNCHANGED vars
    <3>1. \A q \in Runs : Phase(q)' = Phase(q) /\ GotOf(q)' = GotOf(q)
      BY <2>1, SamePhase DEF vars
    <3>2. AbsPhase' = AbsPhase /\ AbsGot' = AbsGot
      BY <3>1 DEF AbsPhase, AbsGot
    <3>3. QED
      BY <2>1, <3>2 DEF vars, Contract!vars, AbsPhase, AbsGot, GotOf
  <2>2. ASSUME NEW i \in Inputs, Edit(i) PROVE Contract!Next
    BY <2>2, EditSeen DEF Contract!Next, Inputs, Probed, Contract!Inputs, Contract!Probed
  <2>3. CASE Refresh
    BY <2>3, RefreshSeen DEF Contract!Next
  <2>4. ASSUME NEW r \in Runs, Refuse(r) \/ Begin(r) PROVE Contract!Next
    BY <2>4, StartSeen DEF Contract!Next
  <2>5. ASSUME NEW r \in Runs, ProbeReuses(r) \/ ReprobeReuses(r) \/ Publish(r) PROVE Contract!Next
    BY <2>5, ReuseServes, PublishServes DEF Contract!Next
  <2>6. ASSUME NEW r \in Runs, GiveUp(r) \/ BuildFails(r) \/ DropFuture(r) PROVE Contract!Next
    BY <2>6, GiveUpFails, EndsSeen DEF Contract!Next
  <2>7. ASSUME NEW r \in Runs,
               \/ ProbeAsksForGate(r) \/ TakeGate(r) \/ ReprobeBuilds(r)
               \/ Discover(r) \/ DiscoverNpmrc(r) \/ ProbeInputs(r) \/ Reparse(r) \/ ReparseNpmrc(r)
               \/ Assemble(r) \/ Retry(r) \/ Accept(r) \/ Executing(r)
        PROVE  UNCHANGED Contract!vars
    BY <2>7, InnerSteps
  <2>8. QED
    BY <2>1, <2>2, <2>3, <2>4, <2>5, <2>6, <2>7 DEF Next, Probing, BuildStep
<1>3. QED
  BY <1>1, <1>2, ResolverInvariant, PTL DEF Spec, ServesContract, Contract!Spec

=============================================================================
