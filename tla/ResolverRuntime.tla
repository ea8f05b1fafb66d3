--------------------------- MODULE ResolverRuntime ----------------------------
(***************************************************************************)
(* LibdenoRuntime: concurrent runs share one resolver stack.  A run reuses *)
(* the published stack while its input manifest still describes the disk   *)
(* and no refresh() is outstanding; otherwise it builds a new one behind a *)
(* per-runtime gate (runtime.rs shared_for_run, services.rs                *)
(* SharedServices::new_with_timing and build_once, npm_cache.rs).          *)
(*                                                                         *)
(* Every input is a version number; an edit gives it the next one, so      *)
(* equal versions are equal contents and fingerprints.  The inputs are     *)
(*   config    deno.json, package.json, import maps, members and links:    *)
(*             parsed by workspace discovery, probed by content            *)
(*   npmrc     the .npmrc files, parsed after the workspace                *)
(*   env       the environment values an .npmrc refers to, read with it,   *)
(*             and JSR_URL                                                 *)
(*   lock      deno.lock: only its presence is part of the identity, its   *)
(*             content is read once the manifest exists                    *)
(*   unprobed  what no probe reads and refresh() is for                    *)
(***************************************************************************)
EXTENDS Naturals, Sequences, FiniteSets

CONSTANTS Runs,           \* calls on one runtime, each made once
          MaxEdits,       \* bound: edits of all inputs together
          MaxRefresh,     \* bound: calls of refresh()
          AuthVersions,   \* .npmrc versions that carry credentials
          JsrAuthVersions, \* environments whose JSR_URL carries credentials
          LockVersions,   \* versions of deno.lock in which the file exists
          ByonmVersions,  \* config versions that select BYONM resolution
          MaxEntries,     \* npm_cache::MAX_ENTRIES
          NoRun, NoKey, NoSeed

ASSUME BoundsAssumption ==
  /\ MaxEdits \in Nat /\ MaxRefresh \in Nat /\ MaxEntries \in Nat \ {0}
  /\ AuthVersions \cup JsrAuthVersions \cup LockVersions \cup ByonmVersions \subseteq Nat
ASSUME NamesAssumption == NoRun \notin Runs

VARIABLES
  disk,      \* [input -> version]
  state,     \* Mutex<RuntimeState>: [shared, refresh, built]
  gate,      \* rebuild_lock: the run that holds it, or NoRun
  run,       \* per run: its program counter and locals
  cache,     \* npm_cache::CACHE, oldest first: <<[key, snapshot], ...>>
  refreshed, \* ghost: refresh generation -> unprobed version at that call
  seen,      \* ghost: per waiting run, what lay on disk since it began
  floor      \* ghost: per run, unprobed version of the last refresh before it

vars == <<disk, state, gate, run, cache, refreshed, seen, floor>>
ghosts == <<refreshed, floor>>

Probed == {"config", "npmrc", "env", "lock"}
Inputs == Probed \cup {"unprobed"}
MAX_STABLE_BUILD_ATTEMPTS == 2
Visible(d) == [i \in Probed |-> d[i]]
Edits(d) == d["config"] + d["npmrc"] + d["env"] + d["lock"] + d["unprobed"]

-----------------------------------------------------------------------------
(* The manifest of a construction attempt.                                 *)

HasAuth(npmrc) == npmrc \in AuthVersions
JsrUrlHasAuth(env) == env \in JsrAuthVersions
LockfilePresent(lock) == lock \in LockVersions

\* The values an .npmrc refers to are fingerprinted only if it carries no
\* credentials.
EnvironmentProbe(d, auth) == IF auth THEN 0 ELSE d["env"]

\* Content and metadata fingerprints of the candidate files.  The code takes
\* them file by file; as versions only grow, and what was parsed before is parsed
\* again after, one look is as good.
ProbeOf(d, auth) == [config |-> d["config"], npmrc |-> d["npmrc"], lock |-> d["lock"],
                     env |-> EnvironmentProbe(d, auth)]

\* ResolverInputManifest::is_current and is_reusable.
IsCurrent(s) == s.probe = ProbeOf(disk, HasAuth(s.npmrc))
\* Mutant: the current files alone make a stack reusable.
IsReusableWithAuth(s) == IsCurrent(s)
IsReusable(s) == ~HasAuth(s.npmrc) /\ ~JsrUrlHasAuth(s.probe.env) /\ IsCurrent(s)

\* npm_cache::managed_snapshot_key: the parsed configuration.  What an .npmrc
\* parses to is given by its version and that of the values it refers to.
SnapshotKey(s) ==
  IF s.config \in ByonmVersions \/ s.present \/ HasAuth(s.npmrc) THEN NoKey
  ELSE <<s.config, s.npmrc, s.env>>

\* npm_cache::get.
CacheGet(key) ==
  LET hits == {i \in 1..Len(cache) : cache[i].key = key}
  IN  IF hits = {} THEN NoSeed ELSE cache[CHOOSE i \in hits : TRUE].snapshot

\* npm_cache::insert: replace in place, else append and drop the oldest.
CacheInsert(key, snapshot) ==
  LET hits == {i \in 1..Len(cache) : cache[i].key = key}
      entry == [key |-> key, snapshot |-> snapshot]
      longer == Append(cache, entry)
  IN  IF hits # {} THEN [cache EXCEPT ![CHOOSE i \in hits : TRUE] = entry]
      ELSE IF Len(longer) > MaxEntries THEN Tail(longer) ELSE longer

-----------------------------------------------------------------------------
(* A stack and its construction record: the versions parsed so far, the    *)
(* lockfile presence of the identity, the probe, the seeding snapshot.     *)

FreshStack == [config |-> 0, npmrc |-> 0, env |-> 0, lock |-> 0, unprobed |-> 0,
               present |-> LockfilePresent(0), probe |-> ProbeOf([i \in Inputs |-> 0], HasAuth(0)),
               seed |-> NoSeed]
Locals(pc, shared, refresh, built, attempt) ==
  [pc |-> pc, shared |-> shared, refresh |-> refresh, built |-> built, attempt |-> attempt]
NewRun == Locals("new", FreshStack, 0, 0, 0)

\* LibdenoRuntime::new: one stable build of the inputs as they lie, generation 0.
Init ==
  /\ disk = [i \in Inputs |-> 0]
  /\ state = [shared |-> FreshStack, refresh |-> 0, built |-> 0]
  /\ gate = NoRun
  /\ run = [r \in Runs |-> NewRun]
  /\ cache = << >>
  /\ refreshed = [g \in 0..MaxRefresh |-> 0]
  /\ seen = [r \in Runs |-> {}]
  /\ floor = [r \in Runs |-> 0]

Pc(r) == run[r].pc
Goto(r, pc) == run' = [run EXCEPT ![r] = Locals(pc, @.shared, @.refresh, @.built, @.attempt)]
Building(r) == Pc(r) \in {"discover", "npmrc", "probe_inputs", "reparse", "reparse_npmrc",
                          "assemble", "stability"}
Waiting(r) == Building(r) \/ Pc(r) \in {"probe", "gate", "reprobe", "publish"}

\* A run leaves shared_for_run: the guard of the gate, if it has it, is dropped.
Leave(r, how, s) ==
  /\ run' = [run EXCEPT ![r] = Locals(how, s, 0, 0, 0)]
  /\ gate' = IF gate = r THEN NoRun ELSE gate
  /\ seen' = [seen EXCEPT ![r] = {}]
ServedWith(r, s) == Leave(r, "running", s)
Ended(r, how) == Leave(r, how, FreshStack)

-----------------------------------------------------------------------------
(* The world: edits of the inputs, and refresh().                          *)

Edit(i) ==
  /\ Edits(disk) < MaxEdits
  /\ disk' = [disk EXCEPT ![i] = @ + 1]
  /\ seen' = [r \in Runs |-> IF Waiting(r) THEN seen[r] \cup {Visible(disk')} ELSE seen[r]]
  /\ UNCHANGED <<state, gate, run, cache, ghosts>>

Refresh ==
  /\ state.refresh < MaxRefresh
  /\ state' = [state EXCEPT !.refresh = @ + 1]
  /\ refreshed' = [refreshed EXCEPT ![state.refresh + 1] = disk["unprobed"]]
  /\ UNCHANGED <<disk, gate, run, cache, seen, floor>>

-----------------------------------------------------------------------------
(* shared_for_run.                                                         *)

\* The manifest, both generations and the stack are read under the mutex.
Snapshot(r, pc) ==
  run' = [run EXCEPT ![r] = Locals(pc, state.shared, state.refresh, state.built, @.attempt)]

NeedsRebuild(r) == ~IsReusable(run[r].shared) \/ run[r].built # run[r].refresh

\* Capture flags, a foreign cwd, the lease or the async guard: refused before
\* the stack is looked at.
Refuse(r) ==
  /\ Pc(r) = "new"
  /\ Goto(r, "refused")
  /\ UNCHANGED <<disk, state, gate, cache, seen, ghosts>>

Begin(r) ==
  /\ Pc(r) = "new"
  /\ Snapshot(r, "probe")
  /\ seen' = [seen EXCEPT ![r] = {Visible(disk)}]
  /\ floor' = [floor EXCEPT ![r] = refreshed[state.refresh]]
  /\ UNCHANGED <<disk, state, gate, cache, refreshed>>

\* The probe is made outside the mutex, on the snapshot.
ProbeReuses(r) ==
  /\ Pc(r) = "probe" /\ ~NeedsRebuild(r)
  /\ ServedWith(r, run[r].shared)
  /\ UNCHANGED <<disk, state, cache, ghosts>>

ProbeAsksForGate(r) ==
  /\ Pc(r) = "probe" /\ NeedsRebuild(r)
  /\ Goto(r, "gate")
  /\ UNCHANGED <<disk, state, gate, cache, seen, ghosts>>

TakeGate(r) ==
  /\ Pc(r) = "gate" /\ gate = NoRun
  /\ gate' = r
  /\ Snapshot(r, "reprobe")
  /\ UNCHANGED <<disk, state, cache, seen, ghosts>>

\* The stack handed out is read from the state once more.
ReprobeReuses(r) ==
  /\ Pc(r) = "reprobe" /\ ~NeedsRebuild(r)
  /\ ServedWith(r, state.shared)
  /\ UNCHANGED <<disk, state, cache, ghosts>>

StartAttempt(r, attempt) ==
  run' = [run EXCEPT ![r] = Locals("discover", FreshStack, @.refresh, @.built, attempt)]

ReprobeBuilds(r) ==
  /\ Pc(r) = "reprobe" /\ NeedsRebuild(r)
  /\ StartAttempt(r, 1)
  /\ UNCHANGED <<disk, state, gate, cache, seen, ghosts>>

-----------------------------------------------------------------------------
(* SharedServices::build_once, read by read.                               *)

Read(r, from, to, s) ==
  /\ Pc(r) = from
  /\ run' = [run EXCEPT ![r] = Locals(to, s, @.refresh, @.built, @.attempt)]
  /\ UNCHANGED <<disk, state, gate, cache, seen, ghosts>>

\* Memoized discovery: the workspace first, then the .npmrc files.
Discover(r) ==
  Read(r, "discover", "npmrc", [run[r].shared EXCEPT !.config = disk["config"]])

\* The lockfile's presence is looked up with the semantic fingerprints,
\* before any file is probed.
WithNpmrc(s) ==
  [config |-> s.config, npmrc |-> disk["npmrc"], env |-> disk["env"], lock |-> s.lock,
   unprobed |-> s.unprobed, present |-> LockfilePresent(disk["lock"]), probe |-> s.probe,
   seed |-> s.seed]
DiscoverNpmrc(r) == Read(r, "npmrc", "probe_inputs", WithNpmrc(run[r].shared))

ProbeInputs(r) ==
  Read(r, "probe_inputs", "reparse",
       [run[r].shared EXCEPT !.probe = ProbeOf(disk, HasAuth(run[r].shared.npmrc))])

\* The second factory reparses everything and the identities are compared.
ConfigUnchanged(s) == s.config = disk["config"]
NpmrcUnchanged(s) == /\ s.npmrc = disk["npmrc"] /\ s.env = disk["env"]
                     /\ s.present = LockfilePresent(disk["lock"])

Reparse(r) ==
  /\ ConfigUnchanged(run[r].shared)
  /\ Read(r, "reparse", "reparse_npmrc", run[r].shared)

ReparseNpmrc(r) ==
  /\ NpmrcUnchanged(run[r].shared)
  /\ Read(r, "reparse_npmrc", "assemble", run[r].shared)

\* The lockfile is loaded, the npm resolution seeded from the cache, and the
\* remaining components are created.
SeedFor(s) == IF SnapshotKey(s) = NoKey THEN NoSeed ELSE CacheGet(SnapshotKey(s))
Assembled(s) ==
  [config |-> s.config, npmrc |-> s.npmrc, env |-> s.env, lock |-> disk["lock"],
   unprobed |-> disk["unprobed"], present |-> s.present, probe |-> s.probe, seed |-> SeedFor(s)]
Assemble(r) == Read(r, "assemble", "stability", Assembled(run[r].shared))

-----------------------------------------------------------------------------
(* new_with_timing: RESOLVER_INPUTS_CHANGED is retried, every other error  *)
(* is not.                                                                 *)

Stable(r) == IsCurrent(run[r].shared)

AttemptRejected(r) ==
  \/ Pc(r) = "reparse" /\ ~ConfigUnchanged(run[r].shared)
  \/ Pc(r) = "reparse_npmrc" /\ ~NpmrcUnchanged(run[r].shared)
  \/ Pc(r) = "stability" /\ ~Stable(r)

Retry(r) ==
  /\ AttemptRejected(r) /\ run[r].attempt < MAX_STABLE_BUILD_ATTEMPTS
  /\ StartAttempt(r, run[r].attempt + 1)
  /\ UNCHANGED <<disk, state, gate, cache, seen, ghosts>>

\* Mutant: the error path forgets the gate.
GiveUpHoldingGate(r) ==
  /\ AttemptRejected(r) /\ run[r].attempt = MAX_STABLE_BUILD_ATTEMPTS
  /\ run' = [run EXCEPT ![r] = Locals("failed", FreshStack, 0, 0, 0)]
  /\ seen' = [seen EXCEPT ![r] = {}]
  /\ UNCHANGED <<disk, state, gate, cache, ghosts>>

GiveUp(r) ==
  /\ AttemptRejected(r) /\ run[r].attempt = MAX_STABLE_BUILD_ATTEMPTS
  /\ Ended(r, "failed")
  /\ UNCHANGED <<disk, state, cache, ghosts>>

BuildFails(r) ==
  /\ Pc(r) \in {"discover", "assemble"}
  /\ Ended(r, "error")
  /\ UNCHANGED <<disk, state, cache, ghosts>>

Accept(r) == Stable(r) /\ Read(r, "stability", "publish", run[r].shared)

\* Mutant: a candidate is published even if refresh() was called meanwhile,
\* and claims to cover it.
PublishCandidateAlways(r) ==
  state' = [shared |-> run[r].shared, refresh |-> state.refresh, built |-> state.refresh]

CanPublish(r) == run[r].refresh = state.refresh
PublishCandidate(r) ==
  state' = IF CanPublish(r)
             THEN [shared |-> run[r].shared, refresh |-> state.refresh, built |-> run[r].refresh]
             ELSE state

\* The candidate serves this run whether or not it was published.
Publish(r) ==
  /\ Pc(r) = "publish"
  /\ PublishCandidate(r)
  /\ ServedWith(r, run[r].shared)
  /\ UNCHANGED <<disk, cache, ghosts>>

\* The future of an async run is dropped at one of its awaits.
DropFuture(r) ==
  /\ Pc(r) \in {"gate", "discover", "assemble"}
  /\ Ended(r, "dropped")
  /\ UNCHANGED <<disk, state, cache, ghosts>>

-----------------------------------------------------------------------------
(* The run itself, and save_npm_snapshot_cache after a success.            *)

RunSucceeds(r) ==
  /\ Pc(r) = "running"
  /\ Goto(r, IF IsCurrent(run[r].shared) /\ SnapshotKey(run[r].shared) # NoKey THEN "save" ELSE "done")
  /\ UNCHANGED <<disk, state, gate, cache, seen, ghosts>>

RunFails(r) ==
  /\ Pc(r) = "running"
  /\ Goto(r, "done")
  /\ UNCHANGED <<disk, state, gate, cache, seen, ghosts>>

\* A seeded resolution stays what it was seeded with; an unseeded one was
\* resolved from the stack's own inputs.
Resolved(s) == IF s.seed = NoSeed THEN <<s.config, s.npmrc, s.env>> ELSE s.seed

SaveSnapshot(r) ==
  /\ Pc(r) = "save"
  /\ cache' = CacheInsert(SnapshotKey(run[r].shared), Resolved(run[r].shared))
  /\ Goto(r, "done")
  /\ UNCHANGED <<disk, state, gate, seen, ghosts>>

-----------------------------------------------------------------------------
Probing(r) == \/ ProbeReuses(r) \/ ProbeAsksForGate(r) \/ TakeGate(r)
              \/ ReprobeReuses(r) \/ ReprobeBuilds(r)
BuildStep(r) == \/ Discover(r) \/ DiscoverNpmrc(r) \/ ProbeInputs(r) \/ Reparse(r)
                \/ ReparseNpmrc(r) \/ Assemble(r) \/ Retry(r) \/ GiveUp(r) \/ Accept(r) \/ Publish(r)
Executing(r) == RunSucceeds(r) \/ RunFails(r) \/ SaveSnapshot(r)

Next == \/ \E i \in Inputs : Edit(i)
        \/ Refresh
        \/ \E r \in Runs : \/ Refuse(r) \/ Begin(r) \/ Probing(r) \/ BuildStep(r) \/ BuildFails(r)
                           \/ DropFuture(r) \/ Executing(r)

Spec == Init /\ [][Next]_vars

\* A run is a thread or a polled future that keeps running; the tokio mutex
\* is fair, and each run takes it once.
Fairness == \A r \in Runs : WF_vars(Probing(r)) /\ WF_vars(BuildStep(r))
FairSpec == Spec /\ Fairness

-----------------------------------------------------------------------------
Versions == 0..MaxEdits
Keys == Versions \X Versions \X Versions
Stack == [config : Versions, npmrc : Versions, env : Versions, lock : Versions,
          unprobed : Versions, present : BOOLEAN,
          probe : [config : Versions, npmrc : Versions, lock : Versions, env : Versions],
          seed : Keys \cup {NoSeed}]
TypeOK ==
  /\ disk \in [Inputs -> Versions]
  /\ state \in [shared : Stack, refresh : 0..MaxRefresh, built : 0..MaxRefresh]
  /\ gate \in Runs \cup {NoRun}
  /\ run \in [Runs -> [pc : {"new", "probe", "gate", "reprobe", "discover", "npmrc", "probe_inputs",
                             "reparse", "reparse_npmrc", "assemble", "stability", "publish",
                             "running", "save", "done", "failed", "error", "dropped", "refused"},
                       shared : Stack, refresh : 0..MaxRefresh, built : 0..MaxRefresh,
                       attempt : 0..MAX_STABLE_BUILD_ATTEMPTS]]
  /\ cache \in Seq([key : Keys, snapshot : Keys])
  /\ refreshed \in [0..MaxRefresh -> Versions]
  /\ seen \in [Runs -> SUBSET [Probed -> Versions]]
  /\ floor \in [Runs -> Versions]

\* The published stack is what its manifest says (runtime.rs 585-597): every
\* input it was made of is the one the manifest probes, so that a later
\* is_current() vouches for the stack and not merely for the files; and the
\* generation it claims to cover was requested before its unprobed inputs
\* were read, so that no refresh() is hidden by a build it raced.
PublishedSound ==
  LET s == state.shared
  IN  /\ s.probe = [config |-> s.config, npmrc |-> s.npmrc, lock |-> s.lock,
                    env |-> EnvironmentProbe(s, HasAuth(s.npmrc))]
      /\ s.present = LockfilePresent(s.lock)
      /\ s.unprobed >= refreshed[state.built]
      /\ state.built <= state.refresh

\* The snapshot cache (npm_cache.rs 1037-1076) keeps at most MAX_ENTRIES
\* distinct keys, none of a project with credentials, a lockfile or BYONM,
\* and no stack, in use or in construction, is ever seeded with a snapshot
\* that was resolved from other inputs than its own.
SnapshotsKeyed ==
  /\ Len(cache) <= MaxEntries
  /\ \A i, j \in 1..Len(cache) : cache[i].key = cache[j].key => i = j
  /\ \A i \in 1..Len(cache) : /\ cache[i].snapshot = cache[i].key
                              /\ cache[i].key[1] \notin ByonmVersions
                              /\ ~HasAuth(cache[i].key[2])
  /\ \A r \in Runs : LET s == run[r].shared
                     IN  s.seed # NoSeed => s.seed = <<s.config, s.npmrc, s.env>> /\ ~s.present

\* Types, the published stack and the snapshot cache.
Inv == TypeOK /\ PublishedSound /\ SnapshotsKeyed

-----------------------------------------------------------------------------
(* The runtime implements its contract.                                    *)

Served(r) == Pc(r) \in {"running", "save", "done"}
Phase(r) == IF Waiting(r) THEN "waiting" ELSE IF Served(r) THEN "served" ELSE Pc(r)
InputsOf(s) == [i \in Inputs |-> s[i]]

Contract == INSTANCE ResolverContract WITH
              Attempts <- MAX_STABLE_BUILD_ATTEMPTS,
              promise <- refreshed[state.refresh],
              phase <- [r \in Runs |-> Phase(r)],
              got <- [r \in Runs |-> InputsOf(IF Served(r) THEN run[r].shared ELSE FreshStack)]

\* Every run is served, in effect atomically, a stack whose probed inputs lay
\* on disk together at one instant of its own wait, credentials included, and
\* whose unprobed inputs are at least as new as the last refresh() that had
\* returned; it fails over changing inputs only if every attempt met an edit
\* (runtime.rs shared_for_run, services.rs new_with_timing).
ServesContract == Contract!Spec

\* No run waits for ever: neither behind the gate, whose holder may fail or
\* be dropped in the middle of a build, nor in the retry of an unstable build.
RunsAreServed == \A r \in Runs : (Pc(r) = "probe") ~> ~Waiting(r)
=============================================================================
