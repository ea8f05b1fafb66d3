---------------------------- MODULE ModuleLoading ----------------------------
(***************************************************************************)
(* How the modules of one run reach V8 (module_loader.rs) and where their  *)
(* analysis comes from (analysis_cache.rs).  Every isolate, the main one   *)
(* or a worker, has a loader with a graph and a permissions container of   *)
(* its own; the lockfile and the process-wide analysis cache are shared.   *)
(*                                                                         *)
(* An import is prepare_load, which fills the graph under its async mutex, *)
(* and then load, which reads it under the same mutex.  Imports of one     *)
(* isolate interleave at every await, isolates run on threads of their own.*)
(***************************************************************************)
EXTENDS Naturals, FiniteSets

CONSTANTS
  Modules, Static, Dynamic,  \* per module: what it imports, and may import() later
  Entry,                     \* the main module
  Schemes,                   \* per module: "file", "remote" or "npm", an Init choice
  Loaders, Main,             \* the isolates of the run, and the main one
  Grants,                    \* per loader: the modules its container lets it read
  LockModes,                 \* a subset of {"none", "writable", "frozen"}
  NImports,                  \* bound: import operations, numbered as they begin
  MaxVersion,                \* bound: contents of a module
  Volatile, Revocable,       \* bound: modules that change, and that are revoked
  Capacity                   \* cache_capacity

ASSUME LoadingAssumption ==
  /\ IsFiniteSet(Modules) /\ Entry \in Modules
  /\ Static \in [Modules -> SUBSET Modules] /\ Dynamic \in [Modules -> SUBSET Modules]
  /\ Schemes \subseteq [Modules -> {"file", "remote", "npm"}]
  /\ Main \in Loaders /\ Grants \in [Loaders -> SUBSET Modules]
  /\ LockModes \subseteq {"none", "writable", "frozen"}
  /\ Volatile \subseteq Modules /\ Revocable \subseteq Modules /\ NImports \in Nat
  /\ MaxVersion \in Nat \ {0} /\ Capacity \in Nat \ {0}

VARIABLES
  scheme, mode, broker,  \* fixed for the run; broker: is_installed()
  version,   \* per module: its content (and media type) at this moment
  lockfile,  \* per module: the version its checksum was recorded for, or 0
  cache,     \* ModuleInfoCache: per module, the version analysed, or 0
  perm,      \* per loader: what its container still grants
  graph,     \* per loader and module: [st, ver, info]
  cand,      \* per loader: the candidate graph of a frozen build
  changed,   \* the loaders whose FrozenGraphLocker::changed is set
  holder,    \* per loader: the import that holds the graph mutex, or NoImport
  task,      \* per import: [st, loader, root, dyn, had]
  registered, \* per import: the modules it has put into its isolate's module map
  closing    \* the lifecycle signal of the run

vars == <<scheme, mode, broker, version, lockfile, cache, perm, graph, cand, changed, holder,
          task, registered, closing>>

Imports == 1..NImports
NoImport == 0
Blank(st) == [st |-> st, ver |-> 0, info |-> 0]
EmptyGraph == [m \in Modules |-> Blank("absent")]
Loaded == {"ok", "broken"}       \* "broken": one of its imports does not resolve
Errors == {"broken", "failed"}

Init ==
  /\ scheme \in Schemes /\ mode \in LockModes
  /\ mode = "writable" => \E m \in Modules : scheme[m] = "remote"  \* else as with none
  /\ broker \in BOOLEAN /\ (broker => \E m \in Modules : scheme[m] = "npm")
  /\ version = [m \in Modules |-> 1]
  /\ lockfile \in [Modules -> {0, 1}]
  /\ \A m \in Modules : lockfile[m] # 0 => mode # "none" /\ scheme[m] = "remote"
  /\ cache = [m \in Modules |-> 0]
  /\ perm = Grants
  /\ graph = [l \in Loaders |-> EmptyGraph] /\ cand = graph
  /\ changed = {}
  /\ holder = [l \in Loaders |-> NoImport]
  /\ task = [t \in Imports |-> [st |-> "idle", loader |-> Main,
                                root |-> Entry, dyn |-> FALSE, had |-> {}]]
  /\ registered = [t \in Imports |-> {}]
  /\ closing = FALSE

-----------------------------------------------------------------------------
(* Graphs. *)

\* ModuleGraph::walk without dynamic imports: what is reached from root through
\* the imports of loaded modules, the least set closed under them.
Walk(g, root) ==
  LET closed(S) == \A m \in S : g[m].st \in Loaded => Static[m] \subseteq S
  IN  {m \in Modules : \A S \in SUBSET Modules : root \in S /\ closed(S) => m \in S}

\* validate_root.
Valid(g, root) == \A m \in Walk(g, root) : g[m].st = "ok"

\* What a build that cannot take the shortcut loads again.
Retry(g, root) == {root} \cup {m \in Walk(g, root) : g[m].st \in Errors}

\* What the build of an import works on: the graph itself, or with a frozen
\* lockfile a candidate that replaces it at the end.
Working(l) == IF mode = "frozen" THEN cand[l] ELSE graph[l]
PutInPlace(l, g) == graph' = [graph EXCEPT ![l] = g] /\ UNCHANGED cand
Put(l, g) == IF mode = "frozen"
             THEN cand' = [cand EXCEPT ![l] = g] /\ UNCHANGED graph
             ELSE PutInPlace(l, g)

Goes(t, st) == task' = [task EXCEPT ![t].st = st]
Builds(t, m) == /\ task[t].st = "building" /\ ~closing
                /\ Working(task[t].loader)[m].st \in {"pending", "fetched", "analyzing"}

-----------------------------------------------------------------------------
(* The world around the run. *)

\* A server or another process replaces a module.  Packages are fixed when they
\* are resolved, and a run that closes fetches nothing any more.
Publish(m) ==
  /\ m \in Volatile /\ version[m] < MaxVersion /\ scheme[m] # "npm" /\ ~closing
  /\ version' = [version EXCEPT ![m] = @ + 1]
  /\ UNCHANGED <<scheme, mode, broker, registered, lockfile, cache, perm, graph, cand, changed,
                 holder, task, closing>>

\* Deno.permissions.revoke in one isolate.
Revoke(l, m) ==
  /\ m \in perm[l] \cap Revocable
  /\ perm' = [perm EXCEPT ![l] = @ \ {m}]
  /\ UNCHANGED <<scheme, mode, broker, registered, version, lockfile, cache, graph, cand, changed,
                 holder, task, closing>>

\* WorkerLifecycleRegistry::close (module RunAdmission).
CloseLifecycle ==
  /\ ~closing /\ closing' = TRUE
  /\ UNCHANGED <<scheme, mode, broker, registered, version, lockfile, cache, perm, graph, cand,
                 changed, holder, task>>

-----------------------------------------------------------------------------
(* prepare_load. *)

\* What the module map of an isolate holds deno_core does not load again; only
\* what came with an import that succeeded is executed.
ModuleMap(l) == UNION {registered[t] : t \in {u \in Imports : task[u].loader = l}}
Executed(l) == UNION {registered[t] :
                        t \in {u \in Imports : task[u].loader = l /\ task[u].st = "loaded"}}

\* The main module of the run, that of a worker it creates, or import().
Import(t) ==
  /\ task[t].st = "idle" /\ \A u \in 1..(t - 1) : task[u].st # "idle"
  /\ \E l \in Loaders, root \in Modules, dyn \in BOOLEAN :
       /\ IF dyn
            THEN \E m \in Executed(l) : root \in Dynamic[m]
            ELSE /\ root = Entry /\ \A u \in Imports : task[u].st = "idle" \/ task[u].loader # l
                 /\ IF l = Main THEN t = 1 ELSE Executed(Main) # {}
       /\ task' = [task EXCEPT ![t] =
                     [st |-> "prepare", loader |-> l, root |-> root, dyn |-> dyn,
                      had |-> perm[l]]]
  /\ UNCHANGED <<scheme, mode, broker, registered, version, lockfile, cache, perm, graph, cand,
                 changed, holder, closing>>

\* Mutant: the select has no lifecycle arm.
PrepareCancelledNever(t) == FALSE /\ UNCHANGED vars

\* The build ends with its lock and its candidate.  Built in place, a graph
\* keeps what was pending.
Abandons(t) ==
  LET l == task[t].loader IN
  /\ task[t].st \in {"prepare", "building"}
  /\ Goes(t, "failed")
  /\ holder' = [holder EXCEPT ![l] = IF @ = t THEN NoImport ELSE @]
  /\ cand' = IF holder[l] = t THEN [cand EXCEPT ![l] = EmptyGraph] ELSE cand
  /\ changed' = IF holder[l] = t THEN changed \ {l} ELSE changed
  /\ UNCHANGED <<scheme, mode, broker, registered, version, lockfile, cache, perm, graph, closing>>

\* The lifecycle arm of the biased select comes first: the build is dropped at
\* its next poll.
PrepareCancelled(t) == closing /\ Abandons(t)

\* error_if_changed, before and after the build: resolving a package of any
\* isolate may have added to a frozen lockfile.
LockfileChanged(t) ==
  /\ mode = "frozen" /\ ~closing
  /\ \/ task[t].st = "prepare" /\ holder[task[t].loader] = NoImport
     \/ task[t].st = "building" /\ \A m \in Modules : ~Builds(t, m)
  /\ Abandons(t)

\* The root and everything it imports are there: nothing is built.
TakesShortcut(t) ==
  LET l == task[t].loader IN
  /\ task[t].st = "prepare" /\ ~closing /\ holder[l] = NoImport
  /\ graph[l][task[t].root].st \in Loaded /\ Valid(graph[l], task[t].root)
  /\ Goes(t, "prepared")
  /\ UNCHANGED <<scheme, mode, broker, registered, version, lockfile, cache, perm, graph, cand,
                 changed, holder, closing>>

\* Otherwise the root and every error under it are loaded again.
StartsBuild(t) ==
  LET l == task[t].loader
      again == Retry(graph[l], task[t].root)
      g == [m \in Modules |-> IF m \in again THEN Blank("pending") ELSE graph[l][m]]
  IN /\ task[t].st = "prepare" /\ ~closing /\ holder[l] = NoImport
     /\ ~(graph[l][task[t].root].st \in Loaded /\ Valid(graph[l], task[t].root))
     /\ holder' = [holder EXCEPT ![l] = t]
     /\ Goes(t, "building")
     /\ Put(l, g)
     /\ UNCHANGED <<scheme, mode, broker, registered, version, lockfile, cache, perm, changed,
                    closing>>

\* A package is resolved, not fetched.
ResolvePackage(t, m) ==
  LET l == task[t].loader IN
  /\ Builds(t, m) /\ Working(l)[m].st = "pending" /\ scheme[m] = "npm"
  /\ Put(l, [Working(l) EXCEPT ![m] = Blank("ok")])
  /\ UNCHANGED <<scheme, mode, broker, registered, version, lockfile, cache, perm, changed, holder,
                 task, closing>>

\* The checksum the locker expects, and what it does with a new one.
Expects(m) == IF mode # "none" /\ scheme[m] = "remote" THEN lockfile[m] ELSE 0
Records(m) == mode # "none" /\ scheme[m] = "remote" /\ lockfile[m] = 0

Fetch(t, m) ==
  LET l == task[t].loader IN
  /\ Builds(t, m) /\ Working(l)[m].st = "pending" /\ scheme[m] # "npm"
  /\ m \in perm[l] /\ Expects(m) \in {0, version[m]}
  /\ Put(l, [Working(l) EXCEPT ![m] = [st |-> "fetched", ver |-> version[m], info |-> 0]])
  /\ changed' = IF mode = "frozen" /\ Records(m) THEN changed \cup {l} ELSE changed
  /\ lockfile' = IF mode = "writable" /\ Records(m)
                 THEN [lockfile EXCEPT ![m] = version[m]] ELSE lockfile
  /\ UNCHANGED <<scheme, mode, broker, registered, version, cache, perm, holder, task, closing>>

\* The network, the disk, the permission check, the checksum, the registry.
FetchFails(t, m) ==
  LET l == task[t].loader IN
  /\ Builds(t, m) /\ Working(l)[m].st = "pending"
  /\ Put(l, [Working(l) EXCEPT ![m] = Blank("failed")])
  /\ UNCHANGED <<scheme, mode, broker, registered, version, lockfile, cache, perm, changed, holder,
                 task, closing>>

\* The graph takes the analysis of m and asks for what m imports, the imports
\* it may never execute included.
Analysed(l, m, v, st) ==
  LET g == Working(l) IN
  Put(l, [x \in Modules |->
            IF x = m THEN [g[m] EXCEPT !.st = st, !.info = v]
            ELSE IF x \in Static[m] \cup Dynamic[m] /\ g[x].st = "absent" THEN Blank("pending")
            ELSE g[x]])

Outcomes(m) == IF Static[m] = {} THEN {"ok"} ELSE Loaded

\* Mutant: entries are looked up by specifier only.
HitsBySpecifier(m, v) == cache[m] # 0

\* ModuleInfoCache::analyze: the lookup, under the mutex of the map.
Hits(m, v) == cache[m] = v

AnalyzeHits(t, m) ==
  LET l == task[t].loader  n == Working(l)[m] IN
  /\ Builds(t, m) /\ n.st = "fetched" /\ Hits(m, n.ver)
  /\ \E st \in Outcomes(m) : Analysed(l, m, cache[m], st)
  /\ UNCHANGED <<scheme, mode, broker, registered, version, lockfile, cache, perm, changed, holder,
                 task, closing>>

AnalyzeMisses(t, m) ==
  LET l == task[t].loader  n == Working(l)[m] IN
  /\ Builds(t, m) /\ n.st = "fetched" /\ ~Hits(m, n.ver)
  /\ Put(l, [Working(l) EXCEPT ![m].st = "analyzing"])
  /\ UNCHANGED <<scheme, mode, broker, registered, version, lockfile, cache, perm, changed, holder,
                 task, closing>>

\* The insertion, under the mutex again: a full map is cleared first.
Insert(m, v) ==
  cache' = IF Cardinality({x \in Modules : cache[x] # 0}) >= Capacity
           THEN [x \in Modules |-> IF x = m THEN v ELSE 0]
           ELSE [cache EXCEPT ![m] = v]

InsertAnalysis(t, m) ==
  LET l == task[t].loader  n == Working(l)[m] IN
  /\ Insert(m, n.ver)
  /\ \E st \in Outcomes(m) : Analysed(l, m, n.ver, st)
  /\ UNCHANGED <<scheme, mode, broker, registered, version, lockfile, perm, changed, holder, task,
                 closing>>

AnalyzeInserts(t, m) ==
  /\ Builds(t, m) /\ Working(task[t].loader)[m].st = "analyzing"
  /\ InsertAnalysis(t, m)

\* cache_module_info: a JSR manifest comes with the analysis, nothing is looked up.
CacheModuleInfo(t, m) ==
  /\ Builds(t, m) /\ Working(task[t].loader)[m].st = "fetched" /\ scheme[m] = "remote"
  /\ InsertAnalysis(t, m)

\* The source does not parse.
AnalyzeFails(t, m) ==
  LET l == task[t].loader IN
  /\ Builds(t, m) /\ Working(l)[m].st = "analyzing"
  /\ Put(l, [Working(l) EXCEPT ![m] = Blank("failed")])
  /\ UNCHANGED <<scheme, mode, broker, registered, version, lockfile, cache, perm, changed, holder,
                 task, closing>>

\* validate_root, and no frozen checksum that had to be recorded.
Accepts(t) == Valid(Working(task[t].loader), task[t].root) /\ task[t].loader \notin changed

FinishBuild(t) ==
  LET l == task[t].loader IN
  /\ task[t].st = "building" /\ ~closing
  /\ \A m \in Modules : ~Builds(t, m)
  /\ Goes(t, IF Accepts(t) THEN "prepared" ELSE "failed")
  /\ graph' = IF mode = "frozen" /\ Accepts(t) THEN [graph EXCEPT ![l] = cand[l]] ELSE graph
  /\ cand' = [cand EXCEPT ![l] = EmptyGraph]
  /\ changed' = changed \ {l}
  /\ holder' = [holder EXCEPT ![l] = NoImport]
  /\ UNCHANGED <<scheme, mode, broker, registered, version, lockfile, cache, perm, closing>>

-----------------------------------------------------------------------------
(* load. *)

\* Mutant: what the graph holds was checked when it was built.
RefusalsOnce(t) == {{}}

\* check_dynamic_import_read and check_npm_source_read of what the isolate does
\* not have yet: all that is not granted any more is refused, and whatever else
\* an installed broker denies.
Refusals(t) ==
  LET l == task[t].loader
      Asked == {m \in Walk(graph[l], task[t].root) \ ModuleMap(l) :
                  (task[t].dyn /\ scheme[m] = "file") \/ (broker /\ scheme[m] = "npm")}
  IN {refused \in SUBSET Asked : Asked \ perm[l] \subseteq refused
                                 /\ (broker \/ refused \subseteq Asked \ perm[l])}

\* The loads a refused import may have finished: a module is asked for by one
\* that is registered.
Parts(t, refused) ==
  LET l == task[t].loader IN
  {part \in SUBSET (Walk(graph[l], task[t].root) \ refused) :
     \A m \in part \ {task[t].root} : \E x \in part \cup ModuleMap(l) : m \in Static[x]}

\* Before the lock: a broker's answer may take its time.
CheckLoad(t) ==
  /\ task[t].st = "prepared"
  /\ \E refused \in Refusals(t) :
       \/ refused = {} /\ Goes(t, "loading") /\ UNCHANGED registered
       \/ /\ refused # {} /\ Goes(t, "failed")
          /\ \E part \in Parts(t, refused) : registered' = [registered EXCEPT ![t] = part]
  /\ UNCHANGED <<scheme, mode, broker, version, lockfile, cache, perm, graph, cand, changed,
                 holder, closing>>

LoadFromGraph(t) ==
  LET l == task[t].loader IN
  /\ task[t].st = "loading" /\ holder[l] = NoImport
  /\ IF Valid(graph[l], task[t].root)
       THEN /\ Goes(t, "loaded")
            /\ registered' = [registered EXCEPT ![t] = Walk(graph[l], task[t].root)]
       ELSE Goes(t, "failed") /\ UNCHANGED registered
  /\ UNCHANGED <<scheme, mode, broker, version, lockfile, cache, perm, graph, cand, changed,
                 holder, closing>>

-----------------------------------------------------------------------------
Build(t) ==
  \/ TakesShortcut(t) \/ StartsBuild(t) \/ FinishBuild(t)
  \/ \E m \in Modules :
       \/ ResolvePackage(t, m) \/ Fetch(t, m) \/ FetchFails(t, m)
       \/ AnalyzeHits(t, m) \/ AnalyzeMisses(t, m) \/ AnalyzeInserts(t, m) \/ AnalyzeFails(t, m)
       \/ CacheModuleInfo(t, m)

Next ==
  \/ CloseLifecycle
  \/ \E m \in Modules : Publish(m) \/ \E l \in Loaders : Revoke(l, m)
  \/ \E t \in Imports :
       \/ Import(t) \/ PrepareCancelled(t) \/ LockfileChanged(t) \/ Build(t)
       \/ CheckLoad(t) \/ LoadFromGraph(t)

\* The executors poll what is ready: of the imports that can go on without the
\* network, some import does.  A fetch may hang, nothing of a build is fair.
Polled(t) == PrepareCancelled(t) \/ CheckLoad(t) \/ LoadFromGraph(t)
Spec == Init /\ [][Next]_vars /\ WF_vars(\E t \in Imports : Polled(t))

-----------------------------------------------------------------------------
(* Properties. *)

Nodes == [st : {"absent", "pending", "fetched", "analyzing", "failed"} \cup Loaded,
          ver : 0..MaxVersion, info : 0..MaxVersion]
Tasks == [st : {"idle", "prepare", "building", "prepared", "loading", "loaded", "failed"},
          loader : Loaders, root : Modules, dyn : BOOLEAN, had : SUBSET Modules]
TypeOK ==
  /\ scheme \in Schemes /\ mode \in LockModes /\ broker \in BOOLEAN /\ closing \in BOOLEAN
  /\ version \in [Modules -> 1..MaxVersion] /\ lockfile \in [Modules -> 0..MaxVersion]
  /\ cache \in [Modules -> 0..MaxVersion]
  /\ perm \in [Loaders -> SUBSET Modules]
  /\ graph \in [Loaders -> [Modules -> Nodes]] /\ cand \in [Loaders -> [Modules -> Nodes]]
  /\ changed \subseteq Loaders /\ holder \in [Loaders -> Imports \cup {NoImport}]
  /\ task \in [Imports -> Tasks] /\ registered \in [Imports -> SUBSET Modules]

\* One import at a time changes a graph (module_loader.rs 612).
OneBuilder == \A l \in Loaders, t \in Imports :
                holder[l] = t <=> task[t].st = "building" /\ task[t].loader = l

\* A module is linked by the analysis of the very source that was fetched,
\* whatever another isolate put into the shared cache (analysis_cache.rs 118-142).
AnalysisMatches == \A l \in Loaders, m \in Modules :
                     graph[l][m].st \in Loaded => graph[l][m].info = graph[l][m].ver

\* What prepare_load accepted stays valid until load has read it: another
\* import's retry, failure or cancellation never takes a module away from it
\* (module_loader.rs 672-687, 743-769).
PreparedStays == \A t \in Imports :
                   task[t].st \in {"prepared", "loading"} => Valid(graph[task[t].loader],
                                                                   task[t].root)

Inv == TypeOK /\ OneBuilder /\ AnalysisMatches /\ PreparedStays

\* What an isolate may run is what its own container and the lockfile allow:
\* no module outside its own grants is in its graph, with a frozen lockfile no
\* remote module whose checksum is not on record, and every file in its module
\* map came with an import that began while the file was still readable,
\* although a graph keeps what was revoked (module_loader.rs 314-350, 612-650, 770-782).
OnlyAdmitted ==
  /\ \A l \in Loaders, m \in Modules :
       graph[l][m].st \in Loaded =>
         /\ scheme[m] # "npm" => m \in Grants[l]
         /\ mode = "frozen" /\ scheme[m] = "remote" => lockfile[m] = graph[l][m].ver
  /\ \A l \in Loaders : \A m \in {x \in ModuleMap(l) : scheme[x] = "file"} :
       \E t \in Imports : task[t].loader = l /\ m \in registered[t] \cap task[t].had

\* When the run closes every import under way ends, though a fetch may hang
\* while it holds the graph (module_loader.rs 302-312, 400-425).
ClosingEndsImports ==
  closing ~> \A t \in Imports : task[t].st \in {"idle", "loaded", "failed"}

=============================================================================
