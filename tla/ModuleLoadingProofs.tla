-------------------------- MODULE ModuleLoadingProofs --------------------------
(***************************************************************************)
(* Proofs about ModuleLoading, for every graph of modules, every set of    *)
(* isolates and grants, every lockfile and every size of the cache.        *)
(***************************************************************************)
EXTENDS ModuleLoading, TLAPS

-----------------------------------------------------------------------------
(* The inductive invariant. *)

Fetched == {"fetched", "analyzing"} \cup Loaded
Kept    == {"prepared", "loading", "loaded"}
Over    == {"loaded", "failed"}

\* A container only ever shrinks.
Permitted ==
  /\ \A l \in Loaders : perm[l] \subseteq Grants[l]
  /\ \A t \in Imports : task[t].st # "idle" => perm[task[t].loader] \subseteq task[t].had

\* What is known of the modules of a graph.
OfItsSource(g) == \A m \in Modules : g[m].st \in Loaded => g[m].info = g[m].ver
Granted(l, g)  == \A m \in Modules : g[m].st \in Fetched /\ scheme[m] # "npm" => m \in Grants[l]
OnRecord(g)    == \A m \in Modules : /\ g[m].st \in Fetched
                                     /\ mode = "frozen" /\ scheme[m] = "remote"
                                     => lockfile[m] = g[m].ver

\* A candidate may hold what is not on record, but then it is never put in place.
NodesSound ==
  \A l \in Loaders : /\ OfItsSource(graph[l])
                     /\ OfItsSource(cand[l])
                     /\ Granted(l, graph[l])
                     /\ Granted(l, cand[l])
                     /\ OnRecord(graph[l])
                     /\ l \notin changed => OnRecord(cand[l])

\* Without an import nothing is fetched.
Untouched ==
  \A l \in Loaders :
    (\A t \in Imports : task[t].st = "idle" \/ task[t].loader # l)
       => \A m \in Modules : graph[l][m].st \notin Fetched /\ cand[l][m].st \notin Fetched

\* Until the main module of an isolate is loaded, its import is the only one,
\* and has fetched whatever is there.
FirstAlone ==
  \A t \in Imports :
    task[t].st \notin {"idle", "loaded"} /\ ~task[t].dyn =>
      /\ \A u \in Imports : u = t \/ task[u].st = "idle" \/ task[u].loader # task[t].loader
      /\ \A m \in Modules :
           /\ scheme[m] = "file"
           /\ graph[task[t].loader][m].st \in Fetched \/ cand[task[t].loader][m].st \in Fetched
           => m \in task[t].had

\* What was accepted stays, in the graph and in every candidate.
Stays ==
  \A t \in Imports : task[t].st \in Kept => Valid(graph[task[t].loader], task[t].root)
CandidateKeeps ==
  \A t \in Imports :
    task[t].st \in Kept /\ mode = "frozen" /\ holder[task[t].loader] # NoImport =>
      \A m \in Walk(graph[task[t].loader], task[t].root) :
        cand[task[t].loader][m] = graph[task[t].loader][m]

\* What check_dynamic_import_read has established.
Checked ==
  \A l \in Loaders, t \in Imports :
    task[t].st = "loading" /\ task[t].dyn /\ task[t].loader = l =>
      \A m \in Walk(graph[l], task[t].root) :
        scheme[m] = "file" => m \in task[t].had \/ m \in ModuleMap(l)

\* Nothing is registered before an import ends.
RegisteredAtEnd ==
  \A t \in Imports : task[t].st \notin Over => registered[t] = {}

FilesReadable ==
  \A l \in Loaders : \A m \in {x \in ModuleMap(l) : scheme[x] = "file"} :
    \E t \in Imports : task[t].loader = l /\ m \in registered[t] \cap task[t].had

LInv == /\ TypeOK /\ OneBuilder /\ Permitted /\ NodesSound /\ Untouched /\ FirstAlone
        /\ Stays /\ CandidateKeeps /\ RegisteredAtEnd /\ Checked /\ FilesReadable

-----------------------------------------------------------------------------
(* The walk. *)

\* A walk stays in the graph, begins with its root, and follows the imports of
\* what is loaded.
LEMMA WalkClosed ==
  ASSUME NEW g, NEW root \in Modules
  PROVE  /\ Walk(g, root) \subseteq Modules
         /\ root \in Walk(g, root)
         /\ \A m \in Walk(g, root) : g[m].st \in Loaded => Static[m] \subseteq Walk(g, root)
<1>1. Static \in [Modules -> SUBSET Modules]
  BY LoadingAssumption
<1>2. Walk(g, root) \subseteq Modules /\ root \in Walk(g, root)
  BY DEF Walk
<1>3. ASSUME NEW m \in Walk(g, root), g[m].st \in Loaded, NEW x \in Static[m]
      PROVE  x \in Walk(g, root)
  <2>1. x \in Modules
    BY <1>1, <1>2, <1>3
  <2>2. ASSUME NEW S \in SUBSET Modules, root \in S,
               \A y \in S : g[y].st \in Loaded => Static[y] \subseteq S
        PROVE  x \in S
    <3>1. m \in S
      BY <2>2, <1>3 DEF Walk
    <3>2. QED
      BY <3>1, <2>2, <1>3
  <2>3. QED
    BY <2>1, <2>2 DEF Walk
<1>4. QED
  BY <1>2, <1>3

\* A walk is the least set of that kind.
LEMMA WalkLeast ==
  ASSUME NEW g, NEW root \in Modules, NEW S \in SUBSET Modules, root \in S,
         \A m \in S : g[m].st \in Loaded => Static[m] \subseteq S
  PROVE  Walk(g, root) \subseteq S
BY DEF Walk

\* What is reached from a module of a walk is part of the walk.
LEMMA WalkNested ==
  ASSUME NEW g, NEW root \in Modules, NEW y \in Walk(g, root)
  PROVE  y \in Modules /\ Walk(g, y) \subseteq Walk(g, root)
<1>1. y \in Modules /\ Walk(g, root) \in SUBSET Modules
  BY WalkClosed
<1>2. \A m \in Walk(g, root) : g[m].st \in Loaded => Static[m] \subseteq Walk(g, root)
  BY WalkClosed
<1>3. QED
  BY <1>1, <1>2, WalkLeast

\* A walk depends on the states of its own modules only.
LEMMA WalkKept ==
  ASSUME NEW g, NEW h, NEW root \in Modules,
         \A m \in Walk(g, root) : h[m].st = g[m].st
  PROVE  Walk(h, root) = Walk(g, root)
<1>1. Walk(g, root) \in SUBSET Modules /\ root \in Walk(g, root)
  BY WalkClosed
<1>2. \A m \in Walk(g, root) : g[m].st \in Loaded => Static[m] \subseteq Walk(g, root)
  BY WalkClosed
<1>3. Walk(h, root) \subseteq Walk(g, root)
  <2>1. \A m \in Walk(g, root) : h[m].st \in Loaded => Static[m] \subseteq Walk(g, root)
    BY <1>2
  <2>2. QED
    BY <1>1, <2>1, WalkLeast
<1>4. Walk(g, root) \subseteq Walk(h, root)
  <2>1. Walk(h, root) \in SUBSET Modules /\ root \in Walk(h, root)
    BY WalkClosed
  <2>2. \A m \in Walk(h, root) : h[m].st \in Loaded => Static[m] \subseteq Walk(h, root)
    BY WalkClosed
  <2>3. \A m \in Walk(h, root) : g[m].st \in Loaded => Static[m] \subseteq Walk(h, root)
    BY <2>2, <1>3
  <2>4. QED
    BY <2>1, <2>3, WalkLeast
<1>5. QED
  BY <1>3, <1>4

\* So a graph that agrees on a valid walk is valid too.
LEMMA ValidKept ==
  ASSUME NEW g, NEW h, NEW root \in Modules, Valid(g, root),
         \A m \in Walk(g, root) : h[m] = g[m]
  PROVE  Walk(h, root) = Walk(g, root) /\ Valid(h, root)
<1>1. Walk(h, root) = Walk(g, root)
  BY WalkKept
<1>2. QED
  BY <1>1 DEF Valid

\* A build retries nothing of a walk that is valid (module_loader.rs 672-687).
LEMMA RetryMisses ==
  ASSUME NEW g, NEW root \in Modules, Valid(g, root), NEW r \in Modules,
         ~(g[r].st \in Loaded /\ Valid(g, r))
  PROVE  \A m \in Walk(g, root) : m \notin Retry(g, r)
<1>1. ASSUME r \in Walk(g, root)
      PROVE  FALSE
  <2>1. Walk(g, r) \subseteq Walk(g, root)
    BY <1>1, WalkNested
  <2>2. g[r].st = "ok" /\ Valid(g, r)
    BY <1>1, <2>1 DEF Valid
  <2>3. QED
    BY <2>2 DEF Loaded
<1>2. \A m \in Walk(g, root) : g[m].st = "ok"
  BY DEF Valid
<1>3. QED
  BY <1>1, <1>2 DEF Retry, Errors

-----------------------------------------------------------------------------
(* Steps. *)

\* What the fetch and the analysis of one module do.
NodeActs(t, m) ==
  \/ ResolvePackage(t, m) \/ Fetch(t, m) \/ FetchFails(t, m)
  \/ AnalyzeHits(t, m) \/ AnalyzeMisses(t, m) \/ AnalyzeInserts(t, m) \/ AnalyzeFails(t, m)
  \/ CacheModuleInfo(t, m)

World == CloseLifecycle \/ \E m \in Modules : Publish(m) \/ \E l \in Loaders : Revoke(l, m)

\* The steps of the specification, in the groups the proofs go by.
LEMMA NextCases ==
  ASSUME Next
  PROVE  \/ World
         \/ \E t \in Imports : \/ Import(t) \/ Abandons(t) \/ TakesShortcut(t)
                               \/ StartsBuild(t) \/ FinishBuild(t)
                               \/ \E m \in Modules : NodeActs(t, m)
                               \/ CheckLoad(t) \/ LoadFromGraph(t)
BY DEF Next, Build, World, NodeActs, PrepareCancelled, LockfileChanged

\* Moving on changes where an import is and nothing else of it.
LEMMA Goes1 ==
  ASSUME TypeOK, NEW t \in Imports, NEW s, Goes(t, s)
  PROVE  /\ task'[t].st = s
         /\ \A u \in Imports : u # t => task'[u] = task[u]
         /\ \A u \in Imports : /\ task'[u].loader = task[u].loader
                               /\ task'[u].root = task[u].root
                               /\ task'[u].dyn = task[u].dyn
                               /\ task'[u].had = task[u].had
BY DEF TypeOK, Tasks, Goes

\* An import keeps its isolate, root, kind and permissions once it has begun.
LEMMA TaskKept ==
  ASSUME TypeOK, Next, NEW u \in Imports, task[u].st # "idle"
  PROVE  /\ task'[u].st # "idle"
         /\ task'[u].loader = task[u].loader /\ task'[u].root = task[u].root
         /\ task'[u].dyn = task[u].dyn /\ task'[u].had = task[u].had
<1>1. CASE World
  BY <1>1 DEF World, CloseLifecycle, Publish, Revoke
<1>2. ASSUME NEW t \in Imports, Import(t)
      PROVE  task'[u] = task[u]
  BY <1>2 DEF Import, TypeOK
<1>3. ASSUME NEW t \in Imports, NEW s, s # "idle", Goes(t, s)
      PROVE  /\ task'[u].st # "idle"
             /\ task'[u].loader = task[u].loader /\ task'[u].root = task[u].root
             /\ task'[u].dyn = task[u].dyn /\ task'[u].had = task[u].had
  BY <1>3, Goes1
<1>4. ASSUME NEW t \in Imports, Abandons(t) \/ TakesShortcut(t) \/ StartsBuild(t)
      PROVE  \E s : s # "idle" /\ Goes(t, s)
  BY <1>4 DEF Abandons, TakesShortcut, StartsBuild
<1>5. ASSUME NEW t \in Imports, FinishBuild(t) \/ CheckLoad(t) \/ LoadFromGraph(t)
      PROVE  \E s : s # "idle" /\ Goes(t, s)
  BY <1>5 DEF FinishBuild, CheckLoad, LoadFromGraph
<1>6. ASSUME NEW t \in Imports, NEW m \in Modules, NodeActs(t, m)
      PROVE  task' = task
  BY <1>6 DEF NodeActs, ResolvePackage, Fetch, FetchFails, AnalyzeHits, AnalyzeMisses,
              AnalyzeInserts, AnalyzeFails, CacheModuleInfo, InsertAnalysis
<1>7. QED
  BY <1>1, <1>2, <1>3, <1>4, <1>5, <1>6, NextCases

\* What a step of a build may do to the graph it works on, from g to h: what is
\* linked stays, what is fetched may be read, an analysis is that of its source,
\* and a checksum that is not on record is noticed.
BuildStep(t, g, h) ==
  /\ Put(task[t].loader, h)
  /\ UNCHANGED <<scheme, mode, broker, registered, version, perm, holder, task, closing>>
  /\ \A x \in Modules : g[x].st = "ok" => h[x] = g[x]
  /\ \A x \in Modules : h[x].st \in Fetched /\ scheme[x] # "npm" =>
                          g[x].st \in Fetched \/ x \in perm[task[t].loader]
  /\ OfItsSource(g) => OfItsSource(h)
  /\ mode = "frozen" =>
       /\ lockfile' = lockfile
       /\ \A x \in Modules : h[x].st \in Fetched /\ scheme[x] = "remote" =>
            \/ g[x].st \in Fetched /\ h[x].ver = g[x].ver
            \/ lockfile[x] = h[x].ver
            \/ task[t].loader \in changed'
  /\ changed \subseteq changed' /\ changed' \subseteq changed \cup {task[t].loader}

\* The fields of an import.
LEMMA LoaderOf ==
  ASSUME TypeOK, NEW t \in Imports
  PROVE  /\ task[t].loader \in Loaders /\ task[t].root \in Modules
         /\ task[t].had \subseteq Modules
         /\ task[t].dyn \in BOOLEAN
BY DEF TypeOK, Tasks

\* A build works on a graph.
LEMMA WorkingType ==
  ASSUME TypeOK, NEW l \in Loaders
  PROVE  Working(l) \in [Modules -> Nodes]
BY DEF TypeOK, Working

\* Every step of a build is one of those.
LEMMA NodeSteps ==
  ASSUME TypeOK, NEW t \in Imports, NEW m \in Modules, NodeActs(t, m)
  PROVE  /\ task[t].st = "building" /\ ~closing
         /\ cache' \in [Modules -> 0..MaxVersion] /\ lockfile' \in [Modules -> 0..MaxVersion]
         /\ \E h \in [Modules -> Nodes] : BuildStep(t, Working(task[t].loader), h)
<1> DEFINE l == task[t].loader
           g == Working(l)
<1>1. l \in Loaders /\ g \in [Modules -> Nodes]
  BY WorkingType, LoaderOf
<1>2. cache \in [Modules -> 0..MaxVersion] /\ lockfile \in [Modules -> 0..MaxVersion]
      /\ version \in [Modules -> 1..MaxVersion]
  BY DEF TypeOK
<1>3. MaxVersion \in Nat /\ Static \in [Modules -> SUBSET Modules]
      /\ Dynamic \in [Modules -> SUBSET Modules]
  BY LoadingAssumption
<1>4. task[t].st = "building" /\ ~closing
  BY DEF NodeActs, ResolvePackage, Fetch, FetchFails, AnalyzeHits, AnalyzeMisses,
         AnalyzeInserts, AnalyzeFails, CacheModuleInfo, Builds
<1> HIDE DEF g
\* A node that is not fetched, or a fetched one.
<1>5. ASSUME NEW n \in Nodes, g[m].st # "ok",
             Put(l, [g EXCEPT ![m] = n]),
             UNCHANGED <<scheme, mode, broker, registered, version, perm, holder, task, closing>>,
             UNCHANGED <<lockfile, changed>>,
             n.st \in Loaded => n.info = n.ver,
             n.st \in Fetched => scheme[m] = "npm" \/ (g[m].st \in Fetched /\ n.ver = g[m].ver)
      PROVE  \E h \in [Modules -> Nodes] : BuildStep(t, g, h)
  <2> DEFINE h == [g EXCEPT ![m] = n]
  <2>1. h \in [Modules -> Nodes]
    BY <1>1
  <2>2. h[m] = n /\ \A x \in Modules : x # m => h[x] = g[x]
    BY <1>1
  <2>3. Put(l, h)
    BY <1>5
  <2> HIDE DEF h
  <2>4. BuildStep(t, g, h)
    BY <1>5, <2>2, <2>3 DEF BuildStep, OfItsSource
  <2>5. QED
    BY <2>1, <2>4
<1>6. CASE ResolvePackage(t, m)
  <2>1. Blank("ok") \in Nodes /\ Blank("ok").info = Blank("ok").ver
    BY <1>3 DEF Blank, Nodes, Loaded
  <2>2. /\ Put(l, [g EXCEPT ![m] = Blank("ok")]) /\ g[m].st # "ok" /\ scheme[m] = "npm"
        /\ UNCHANGED <<scheme, mode, broker, registered, version, perm, holder, task, closing>>
        /\ UNCHANGED <<lockfile, changed, cache>>
    BY <1>6 DEF ResolvePackage, g
  <2>3. QED
    BY <2>1, <2>2, <1>2, <1>4, <1>5 DEF g
<1>7. CASE FetchFails(t, m) \/ AnalyzeFails(t, m)
  <2>1. Blank("failed") \in Nodes /\ Blank("failed").st = "failed"
    BY <1>3 DEF Blank, Nodes, Loaded
  <2>2. /\ Put(l, [g EXCEPT ![m] = Blank("failed")]) /\ g[m].st # "ok"
        /\ UNCHANGED <<scheme, mode, broker, registered, version, perm, holder, task, closing>>
        /\ UNCHANGED <<lockfile, changed, cache>>
    BY <1>7 DEF FetchFails, AnalyzeFails, g
  <2>3. "failed" \notin Fetched /\ "failed" \notin Loaded
    BY DEF Fetched, Loaded
  <2>4. QED
    BY <2>1, <2>2, <2>3, <1>2, <1>4, <1>5 DEF g
<1>8. CASE AnalyzeMisses(t, m)
  <2> DEFINE n == [g[m] EXCEPT !.st = "analyzing"]
  <2>1. n \in Nodes /\ n.st = "analyzing" /\ n.ver = g[m].ver
    BY <1>1 DEF Nodes
  <2>2. /\ Put(l, [g EXCEPT ![m].st = "analyzing"]) /\ g[m].st = "fetched"
        /\ UNCHANGED <<scheme, mode, broker, registered, version, perm, holder, task, closing>>
        /\ UNCHANGED <<lockfile, changed, cache>>
    BY <1>8 DEF AnalyzeMisses, g
  <2>3. [g EXCEPT ![m].st = "analyzing"] = [g EXCEPT ![m] = n]
    BY <1>1
  <2>4. Put(l, [g EXCEPT ![m] = n])
    BY <2>2, <2>3
  <2> HIDE DEF n
  <2>5. "analyzing" \notin Loaded /\ "fetched" \in Fetched
    BY DEF Fetched, Loaded
  <2>6. QED
    BY <2>1, <2>2, <2>4, <2>5, <1>2, <1>4, <1>5 DEF g
<1>9. CASE Fetch(t, m)
  <2> DEFINE n == [st |-> "fetched", ver |-> version[m], info |-> 0]
             h == [g EXCEPT ![m] = n]
  <2>1. n \in Nodes /\ n.st = "fetched" /\ n.ver = version[m]
    BY <1>2, <1>3 DEF Nodes
  <2> HIDE DEF n
  <2>2. h \in [Modules -> Nodes] /\ h[m] = n /\ \A x \in Modules : x # m => h[x] = g[x]
    BY <1>1, <2>1
  <2>3. /\ Put(l, h) /\ g[m].st # "ok" /\ m \in perm[l]
        /\ UNCHANGED <<scheme, mode, broker, registered, version, perm, holder, task, closing>>
        /\ changed' = IF mode = "frozen" /\ Records(m) THEN changed \cup {l} ELSE changed
        /\ cache' = cache
    BY <1>9 DEF Fetch, Builds, g, n
  <2>4. lockfile' \in [Modules -> 0..MaxVersion] /\ (mode = "frozen" => lockfile' = lockfile)
    <3>1. version[m] \in 0..MaxVersion
      BY <1>2, <1>3
    <3>2. lockfile' = [lockfile EXCEPT ![m] = version[m]] \/ lockfile' = lockfile
      BY <1>9 DEF Fetch
    <3>3. mode = "frozen" => lockfile' = lockfile
      BY <1>9 DEF Fetch
    <3>4. QED
      BY <3>1, <3>2, <3>3, <1>2
  <2>5. mode = "frozen" /\ scheme[m] = "remote" => lockfile[m] = version[m] \/ l \in changed'
    BY <1>9, <2>3 DEF Fetch, Expects, Records
  <2>6. "fetched" \notin Loaded
    BY DEF Loaded
  <2> HIDE DEF h
  <2>7. BuildStep(t, g, h)
    BY <2>1, <2>2, <2>3, <2>4, <2>5, <2>6 DEF BuildStep, OfItsSource
  <2>8. QED
    BY <2>2, <2>3, <2>4, <2>7, <1>2, <1>4 DEF g
<1>10. ASSUME NEW v \in 0..MaxVersion, NEW st \in Outcomes(m), Analysed(l, m, v, st),
              v = g[m].ver, g[m].st \in {"fetched", "analyzing"},
              UNCHANGED <<scheme, mode, broker, registered, version, perm, holder, task, closing>>,
              UNCHANGED <<lockfile, changed>>
       PROVE  \E h \in [Modules -> Nodes] : BuildStep(t, g, h)
  <2> DEFINE n == [g[m] EXCEPT !.st = st, !.info = v]
             h == [x \in Modules |->
                     IF x = m THEN n
                     ELSE IF x \in Static[m] \cup Dynamic[m] /\ g[x].st = "absent"
                          THEN Blank("pending") ELSE g[x]]
  <2>1. st \in Loaded
    BY <1>10 DEF Outcomes, Loaded
  <2>2. n \in Nodes /\ n.st = st /\ n.ver = v /\ n.info = v
    BY <2>1, <1>1, <1>10 DEF Nodes
  <2>3. Blank("pending") \in Nodes /\ Blank("pending").st = "pending"
    BY <1>3 DEF Blank, Nodes
  <2>4. Put(l, h)
    BY <1>10 DEF Analysed, g
  <2> HIDE DEF n
  <2>5. h \in [Modules -> Nodes]
    BY <2>2, <2>3, <1>1
  <2>6. h[m] = n /\ \A x \in Modules : x # m =>
           h[x] = g[x] \/ (g[x].st = "absent" /\ h[x] = Blank("pending"))
    OBVIOUS
  <2> HIDE DEF h
  <2>7. "pending" \notin Fetched /\ "pending" \notin Loaded /\ g[m].st \in Fetched
        /\ g[m].st # "ok"
    BY <1>10 DEF Fetched, Loaded
  <2>8. \A x \in Modules : g[x].st = "ok" => h[x] = g[x]
    BY <2>6, <2>7
  <2>9. \A x \in Modules : h[x].st \in Fetched => g[x].st \in Fetched /\ h[x].ver = g[x].ver
    BY <2>2, <2>3, <2>6, <2>7, <1>10
  <2>10. OfItsSource(g) => OfItsSource(h)
    BY <2>2, <2>3, <2>6, <2>7 DEF OfItsSource
  <2>11. BuildStep(t, g, h)
    BY <2>4, <2>8, <2>9, <2>10, <1>10 DEF BuildStep
  <2>12. QED
    BY <2>5, <2>11
<1>11. CASE AnalyzeHits(t, m)
  <2>1. PICK st \in Outcomes(m) : Analysed(l, m, cache[m], st)
    BY <1>11 DEF AnalyzeHits
  <2>2. /\ g[m].st = "fetched" /\ cache[m] = g[m].ver
        /\ UNCHANGED <<scheme, mode, broker, registered, version, perm, holder, task, closing>>
        /\ UNCHANGED <<lockfile, changed, cache>>
    BY <1>11 DEF AnalyzeHits, Hits, g
  <2>3. cache[m] \in 0..MaxVersion
    BY <1>2
  <2>4. \E h \in [Modules -> Nodes] : BuildStep(t, g, h)
    BY <2>1, <2>2, <2>3, <1>10
  <2>5. QED
    BY <2>2, <2>4, <1>2, <1>4 DEF g
<1>12. CASE AnalyzeInserts(t, m) \/ CacheModuleInfo(t, m)
  <2>1. PICK st \in Outcomes(m) : Analysed(l, m, g[m].ver, st)
    BY <1>12 DEF AnalyzeInserts, CacheModuleInfo, InsertAnalysis, g
  <2>2. /\ g[m].st \in {"fetched", "analyzing"} /\ Insert(m, g[m].ver)
        /\ UNCHANGED <<scheme, mode, broker, registered, version, perm, holder, task, closing>>
        /\ UNCHANGED <<lockfile, changed>>
    BY <1>12 DEF AnalyzeInserts, CacheModuleInfo, InsertAnalysis, g
  <2>3. g[m].ver \in 0..MaxVersion
    BY <1>1 DEF Nodes
  <2>4. \E h \in [Modules -> Nodes] : BuildStep(t, g, h)
    BY <2>1, <2>2, <2>3, <1>10
  <2>5. \/ cache' = [x \in Modules |-> IF x = m THEN g[m].ver ELSE 0]
        \/ cache' = [cache EXCEPT ![m] = g[m].ver]
    BY <2>2 DEF Insert
  <2>6. cache' \in [Modules -> 0..MaxVersion]
    BY <2>3, <2>5, <1>2, <1>3
  <2>7. QED
    BY <2>2, <2>4, <2>6, <1>2, <1>4 DEF g
<1>13. QED
  BY <1>6, <1>7, <1>8, <1>9, <1>11, <1>12 DEF NodeActs

\* Where a build puts its graph.
LEMMA PutEffect ==
  ASSUME TypeOK, NEW l \in Loaders, NEW h, Put(l, h)
  PROVE  /\ \A k \in Loaders : k # l => graph'[k] = graph[k] /\ cand'[k] = cand[k]
         /\ mode = "frozen" => graph' = graph /\ cand'[l] = h
         /\ mode # "frozen" => cand' = cand /\ graph'[l] = h
         /\ h \in [Modules -> Nodes] => /\ graph' \in [Loaders -> [Modules -> Nodes]]
                                        /\ cand' \in [Loaders -> [Modules -> Nodes]]
<1>1. graph \in [Loaders -> [Modules -> Nodes]] /\ cand \in [Loaders -> [Modules -> Nodes]]
  BY DEF TypeOK
<1>2. CASE mode = "frozen"
  BY <1>1, <1>2 DEF Put
<1>3. CASE mode # "frozen"
  BY <1>1, <1>3 DEF Put, PutInPlace
<1>4. QED
  BY <1>2, <1>3

\* What has just been asked for, or not at all, is a node.
LEMMA BlankType ==
  /\ Blank("absent") \in Nodes /\ Blank("pending") \in Nodes
  /\ Blank("absent").st = "absent" /\ Blank("pending").st = "pending"
  /\ EmptyGraph \in [Modules -> Nodes]
<1>1. MaxVersion \in Nat
  BY LoadingAssumption
<1>2. Blank("absent") \in Nodes /\ Blank("pending") \in Nodes
  BY <1>1 DEF Blank, Nodes
<1>3. QED
  BY <1>2 DEF EmptyGraph, Blank

\* What a build begins with.
LEMMA StartEffect ==
  ASSUME TypeOK, NEW t \in Imports, StartsBuild(t)
  PROVE  LET l == task[t].loader IN
         \E h \in [Modules -> Nodes] :
           /\ Put(l, h)
           /\ \A m \in Modules : \/ m \in Retry(graph[l], task[t].root) /\ h[m].st = "pending"
                                 \/ m \notin Retry(graph[l], task[t].root) /\ h[m] = graph[l][m]
<1> DEFINE l == task[t].loader
           again == Retry(graph[l], task[t].root)
           h == [m \in Modules |-> IF m \in again THEN Blank("pending") ELSE graph[l][m]]
<1>1. graph[l] \in [Modules -> Nodes]
  BY LoaderOf DEF TypeOK
<1>2. Put(l, h)
  BY DEF StartsBuild
<1> HIDE DEF l, again
<1>3. h \in [Modules -> Nodes]
  BY <1>1, BlankType
<1>4. \A m \in Modules : \/ m \in again /\ h[m].st = "pending"
                         \/ m \notin again /\ h[m] = graph[l][m]
  BY BlankType
<1>5. QED
  BY <1>2, <1>3, <1>4 DEF l, again

\* The initial state is well typed.
LEMMA TypeInit == Init => TypeOK
<1> SUFFICES ASSUME Init PROVE TypeOK
  OBVIOUS
<1>1. MaxVersion \in Nat \ {0} /\ Main \in Loaders /\ Entry \in Modules
      /\ Grants \in [Loaders -> SUBSET Modules]
  BY LoadingAssumption
<1>2. /\ scheme \in Schemes /\ mode \in LockModes /\ broker \in BOOLEAN /\ closing \in BOOLEAN
  BY DEF Init
<1>3. /\ version \in [Modules -> 1..MaxVersion] /\ lockfile \in [Modules -> 0..MaxVersion]
      /\ cache \in [Modules -> 0..MaxVersion]
  BY <1>1 DEF Init
<1>4. /\ perm \in [Loaders -> SUBSET Modules]
      /\ graph \in [Loaders -> [Modules -> Nodes]] /\ cand \in [Loaders -> [Modules -> Nodes]]
      /\ changed \subseteq Loaders /\ holder \in [Loaders -> Imports \cup {NoImport}]
  BY <1>1, BlankType DEF Init
<1>5. task \in [Imports -> Tasks]
  <2>1. [st |-> "idle", loader |-> Main, root |-> Entry, dyn |-> FALSE, had |-> {}]
          \in Tasks
    BY <1>1 DEF Tasks
  <2>2. QED
    BY <2>1 DEF Init
<1>7. registered \in [Imports -> SUBSET Modules]
  BY DEF Init
<1>6. QED
  BY <1>2, <1>3, <1>4, <1>5, <1>7 DEF TypeOK

\* Every step keeps the types.
LEMMA TypeStep == TypeOK /\ [Next]_vars => TypeOK'
<1> SUFFICES ASSUME TypeOK, [Next]_vars PROVE TypeOK'
  OBVIOUS
<1>0. MaxVersion \in Nat \ {0} /\ Main \in Loaders /\ Entry \in Modules
  BY LoadingAssumption
<1>a. task \in [Imports -> Tasks]
  BY DEF TypeOK
<1>1. CASE UNCHANGED vars
  BY <1>1 DEF TypeOK, vars
\* Everything but the graphs and the imports.
<1>2. ASSUME NEW t \in Imports, NEW s \in {"prepared", "loading", "loaded", "failed", "building"},
             Goes(t, s)
      PROVE  task' \in [Imports -> Tasks]
  <2>1. [task[t] EXCEPT !.st = s] \in Tasks
    BY <1>a, <1>2 DEF Tasks
  <2>2. QED
    BY <2>1, <1>a, <1>2 DEF Goes
<1>3. CASE World
  <2>1. CASE CloseLifecycle
    BY <2>1 DEF CloseLifecycle, TypeOK
  <2>2. ASSUME NEW m \in Modules, Publish(m)
        PROVE  TypeOK'
    <3>1. version' \in [Modules -> 1..MaxVersion]
      <4>1. version[m] \in 1..MaxVersion /\ version[m] < MaxVersion
        BY <2>2 DEF Publish, TypeOK
      <4>2. version[m] + 1 \in 1..MaxVersion
        BY <4>1, <1>0
      <4>3. QED
        BY <2>2, <4>2 DEF Publish, TypeOK
    <3>2. QED
      BY <2>2, <3>1 DEF Publish, TypeOK
  <2>3. ASSUME NEW m \in Modules, NEW l \in Loaders, Revoke(l, m)
        PROVE  TypeOK'
    <3>1. perm' \in [Loaders -> SUBSET Modules]
      BY <2>3 DEF Revoke, TypeOK
    <3>2. QED
      BY <2>3, <3>1 DEF Revoke, TypeOK
  <2>4. QED
    BY <1>3, <2>1, <2>2, <2>3 DEF World
<1>4. ASSUME NEW t \in Imports, Import(t)
      PROVE  TypeOK'
  <2>1. PICK l \in Loaders, root \in Modules, dyn \in BOOLEAN :
          task' = [task EXCEPT ![t] = [st |-> "prepare", loader |-> l, root |-> root,
                                       dyn |-> dyn, had |-> perm[l]]]
    BY <1>4 DEF Import
  <2>2. perm[l] \in SUBSET Modules
    BY DEF TypeOK
  <2>3. [st |-> "prepare", loader |-> l, root |-> root, dyn |-> dyn, had |-> perm[l]] \in Tasks
    BY <2>2 DEF Tasks
  <2>4. task' \in [Imports -> Tasks]
    BY <2>1, <2>3, <1>a
  <2>5. QED
    BY <1>4, <2>4 DEF Import, TypeOK
<1>5. ASSUME NEW t \in Imports, Abandons(t)
      PROVE  TypeOK'
  <2>1. task' \in [Imports -> Tasks]
    BY <1>2, <1>5 DEF Abandons
  <2>2. /\ cand' \in [Loaders -> [Modules -> Nodes]] /\ changed' \subseteq Loaders
        /\ holder' \in [Loaders -> Imports \cup {NoImport}]
    BY <1>5, BlankType DEF Abandons, TypeOK
  <2>3. QED
    BY <1>5, <2>1, <2>2 DEF Abandons, TypeOK
<1>6. ASSUME NEW t \in Imports, TakesShortcut(t) \/ CheckLoad(t) \/ LoadFromGraph(t)
      PROVE  TypeOK'
  <2>1. task' \in [Imports -> Tasks]
    BY <1>2, <1>6 DEF TakesShortcut, CheckLoad, LoadFromGraph
  <2>2. UNCHANGED <<scheme, mode, broker, version, lockfile, cache, perm, graph, cand, changed,
                    holder, closing>>
    BY <1>6 DEF TakesShortcut, CheckLoad, LoadFromGraph
  <2>3. registered' \in [Imports -> SUBSET Modules]
    <3>1. Walk(graph[task[t].loader], task[t].root) \subseteq Modules
      BY LoaderOf, WalkClosed
    <3>2. registered' = registered
          \/ \E part \in SUBSET Modules : registered' = [registered EXCEPT ![t] = part]
      BY <1>6, <3>1 DEF TakesShortcut, CheckLoad, Parts, LoadFromGraph
    <3>3. QED
      BY <3>2 DEF TypeOK
  <2>4. QED
    BY <2>1, <2>2, <2>3 DEF TypeOK
<1>7. ASSUME NEW t \in Imports, StartsBuild(t)
      PROVE  TypeOK'
  <2>1. task' \in [Imports -> Tasks]
    BY <1>2, <1>7 DEF StartsBuild
  <2>2. task[t].loader \in Loaders
    BY LoaderOf
  <2>3. PICK h \in [Modules -> Nodes] : Put(task[t].loader, h)
    BY <1>7, StartEffect
  <2>4. graph' \in [Loaders -> [Modules -> Nodes]] /\ cand' \in [Loaders -> [Modules -> Nodes]]
    BY <2>2, <2>3, PutEffect
  <2>5. holder' \in [Loaders -> Imports \cup {NoImport}]
    BY <1>7 DEF StartsBuild, TypeOK
  <2>6. UNCHANGED <<scheme, mode, broker, registered, version, lockfile, cache, perm, changed, closing>>
    BY <1>7 DEF StartsBuild
  <2>7. QED
    BY <2>1, <2>4, <2>5, <2>6 DEF TypeOK
<1>8. ASSUME NEW t \in Imports, FinishBuild(t)
      PROVE  TypeOK'
  <2>1. task' \in [Imports -> Tasks]
    BY <1>2, <1>8 DEF FinishBuild
  <2>2. /\ cand' \in [Loaders -> [Modules -> Nodes]] /\ graph' \in [Loaders -> [Modules -> Nodes]]
        /\ changed' \subseteq Loaders
        /\ holder' \in [Loaders -> Imports \cup {NoImport}]
    BY <1>8, BlankType DEF FinishBuild, TypeOK
  <2>3. QED
    BY <1>8, <2>1, <2>2 DEF FinishBuild, TypeOK
<1>9. ASSUME NEW t \in Imports, NEW m \in Modules, NodeActs(t, m)
      PROVE  TypeOK'
  <2>1. PICK h \in [Modules -> Nodes] : BuildStep(t, Working(task[t].loader), h)
    BY <1>9, NodeSteps
  <2>2. task[t].loader \in Loaders
    BY LoaderOf
  <2>3. graph' \in [Loaders -> [Modules -> Nodes]] /\ cand' \in [Loaders -> [Modules -> Nodes]]
    BY <2>1, <2>2, PutEffect DEF BuildStep
  <2>4. cache' \in [Modules -> 0..MaxVersion] /\ lockfile' \in [Modules -> 0..MaxVersion]
    BY <1>9, NodeSteps
  <2>5. UNCHANGED <<scheme, mode, broker, registered, version, perm, holder, task, closing>>
        /\ changed' \subseteq changed \cup {task[t].loader}
    BY <2>1 DEF BuildStep
  <2>6. QED
    BY <2>2, <2>3, <2>4, <2>5 DEF TypeOK
<1>10. QED
  BY <1>1, <1>3, <1>4, <1>5, <1>6, <1>7, <1>8, <1>9, NextCases

\* An import that begins.
LEMMA ImportEffect ==
  ASSUME TypeOK, NEW t \in Imports, Import(t)
  PROVE  /\ task[t].st = "idle" /\ task'[t].st = "prepare"
         /\ task'[t].loader \in Loaders /\ task'[t].root \in Modules
         /\ task'[t].had = perm[task'[t].loader]
         /\ \A u \in Imports : u # t => task'[u] = task[u]
         /\ task'[t].dyn => Executed(task'[t].loader) # {}
         /\ ~task'[t].dyn =>
              \A u \in Imports : task[u].st = "idle" \/ task[u].loader # task'[t].loader
         /\ UNCHANGED <<scheme, mode, broker, registered, version, lockfile, cache, perm, graph, cand,
                        changed, holder, closing>>
<1>1. PICK l \in Loaders, root \in Modules, dyn \in BOOLEAN :
        /\ IF dyn THEN \E m \in Executed(l) : root \in Dynamic[m]
                  ELSE \A u \in Imports : task[u].st = "idle" \/ task[u].loader # l
        /\ task' = [task EXCEPT ![t] = [st |-> "prepare", loader |-> l, root |-> root,
                                        dyn |-> dyn, had |-> perm[l]]]
  BY Zenon DEF Import
<1> DEFINE n == [st |-> "prepare", loader |-> l, root |-> root, dyn |-> dyn, had |-> perm[l]]
<1>2. n.st = "prepare" /\ n.loader = l /\ n.root = root /\ n.had = perm[l]
  OBVIOUS
<1>3. n.dyn = dyn
  OBVIOUS
<1>4. task' = [task EXCEPT ![t] = n]
  BY <1>1
<1> HIDE DEF n
<1>5. task'[t] = n /\ \A u \in Imports : u # t => task'[u] = task[u]
  BY <1>4 DEF TypeOK
<1>6. task'[t].dyn = dyn /\ task'[t].loader = l
  BY <1>2, <1>3, <1>5
<1>7. task'[t].dyn => Executed(task'[t].loader) # {}
  BY <1>1, <1>6, Zenon
<1>8. ~task'[t].dyn => \A u \in Imports : task[u].st = "idle" \/ task[u].loader # task'[t].loader
  BY <1>1, <1>6, Zenon
<1>9. /\ task[t].st = "idle"
      /\ UNCHANGED <<scheme, mode, broker, registered, version, lockfile, cache, perm, graph, cand,
                     changed, holder, closing>>
  BY DEF Import
<1>10. QED
  BY <1>2, <1>5, <1>7, <1>8, <1>9

\* The holder of the mutex is the import that builds.
LEMMA BuilderStep == TypeOK /\ OneBuilder /\ Next => OneBuilder'
<1> SUFFICES ASSUME TypeOK, OneBuilder, Next, NEW l \in Loaders, NEW u \in Imports
             PROVE  holder'[l] = u <=> task'[u].st = "building" /\ task'[u].loader = l
  BY DEF OneBuilder
<1>0. NoImport \notin Imports /\ holder \in [Loaders -> Imports \cup {NoImport}]
  BY DEF Imports, NoImport, TypeOK
<1>a. holder[l] = u <=> task[u].st = "building" /\ task[u].loader = l
  BY DEF OneBuilder
<1>1. CASE World
  BY <1>1, <1>a DEF World, CloseLifecycle, Publish, Revoke
<1>2. ASSUME NEW t \in Imports, Import(t)
      PROVE  holder'[l] = u <=> task'[u].st = "building" /\ task'[u].loader = l
  BY <1>2, <1>a, ImportEffect
<1>3. ASSUME NEW t \in Imports, Abandons(t)
      PROVE  holder'[l] = u <=> task'[u].st = "building" /\ task'[u].loader = l
  <2>1. Goes(t, "failed") /\ task[t].loader \in Loaders
        /\ holder' = [holder EXCEPT ![task[t].loader] = IF @ = t THEN NoImport ELSE @]
    BY <1>3, LoaderOf DEF Abandons
  <2>2. task'[t].st = "failed" /\ (u # t => task'[u] = task[u])
        /\ task'[u].loader = task[u].loader
    BY <2>1, Goes1
  <2>3. holder'[l] = IF l = task[t].loader /\ holder[l] = t THEN NoImport ELSE holder[l]
    BY <2>1, <1>0
  <2>4. QED
    BY <2>2, <2>3, <1>0, <1>a
<1>4. ASSUME NEW t \in Imports, TakesShortcut(t) \/ CheckLoad(t) \/ LoadFromGraph(t)
      PROVE  holder'[l] = u <=> task'[u].st = "building" /\ task'[u].loader = l
  <2>1. PICK s \in {"prepared", "loading", "loaded", "failed"} : Goes(t, s)
    BY <1>4 DEF TakesShortcut, CheckLoad, LoadFromGraph
  <2>2. holder' = holder /\ task[t].st # "building"
    BY <1>4 DEF TakesShortcut, CheckLoad, LoadFromGraph
  <2>3. task'[t].st = s /\ (u # t => task'[u] = task[u]) /\ task'[u].loader = task[u].loader
    BY <2>1, Goes1
  <2>4. QED
    BY <2>2, <2>3, <1>a
<1>5. ASSUME NEW t \in Imports, StartsBuild(t)
      PROVE  holder'[l] = u <=> task'[u].st = "building" /\ task'[u].loader = l
  <2>1. Goes(t, "building") /\ task[t].loader \in Loaders
        /\ holder' = [holder EXCEPT ![task[t].loader] = t]
        /\ holder[task[t].loader] = NoImport
    BY <1>5, LoaderOf DEF StartsBuild
  <2>2. task'[t].st = "building" /\ (u # t => task'[u] = task[u])
        /\ task'[u].loader = task[u].loader
    BY <2>1, Goes1
  <2>3. holder'[l] = IF l = task[t].loader THEN t ELSE holder[l]
    BY <2>1, <1>0
  <2>4. QED
    BY <2>1, <2>2, <2>3, <1>0, <1>a
<1>6. ASSUME NEW t \in Imports, FinishBuild(t)
      PROVE  holder'[l] = u <=> task'[u].st = "building" /\ task'[u].loader = l
  <2>1. PICK s \in {"prepared", "failed"} : Goes(t, s)
    BY <1>6 DEF FinishBuild
  <2>2. holder' = [holder EXCEPT ![task[t].loader] = NoImport] /\ task[t].st = "building"
        /\ task[t].loader \in Loaders
    BY <1>6, LoaderOf DEF FinishBuild
  <2>3. task'[t].st = s /\ (u # t => task'[u] = task[u]) /\ task'[u].loader = task[u].loader
    BY <2>1, Goes1
  <2>4. holder'[l] = IF l = task[t].loader THEN NoImport ELSE holder[l]
    BY <2>2, <1>0
  <2>5. holder[task[t].loader] = t
    BY <2>2 DEF OneBuilder
  <2>6. QED
    BY <2>2, <2>3, <2>4, <2>5, <1>0, <1>a
<1>7. ASSUME NEW t \in Imports, NEW m \in Modules, NodeActs(t, m)
      PROVE  holder'[l] = u <=> task'[u].st = "building" /\ task'[u].loader = l
  BY <1>7, <1>a, NodeSteps DEF BuildStep
<1>8. QED
  BY <1>1, <1>2, <1>3, <1>4, <1>5, <1>6, <1>7, NextCases

\* An import that was idle and is not any more has just begun.
LEMMA JustBegun ==
  ASSUME TypeOK, Next, NEW u \in Imports, task[u].st = "idle", task'[u].st # "idle"
  PROVE  Import(u)
<1>1. CASE World
  BY <1>1 DEF World, CloseLifecycle, Publish, Revoke
<1>2. ASSUME NEW t \in Imports, Import(t)
      PROVE  t = u
  BY <1>2, ImportEffect
<1>3. ASSUME NEW t \in Imports, NEW s, Goes(t, s), task[t].st # "idle"
      PROVE  task'[u] = task[u]
  BY <1>3, Goes1
<1>4. ASSUME NEW t \in Imports, Abandons(t) \/ TakesShortcut(t) \/ StartsBuild(t)
                                \/ FinishBuild(t) \/ CheckLoad(t) \/ LoadFromGraph(t)
      PROVE  task[t].st # "idle" /\ \E s : Goes(t, s)
  BY <1>4 DEF Abandons, TakesShortcut, StartsBuild, FinishBuild, CheckLoad,
              LoadFromGraph
<1>5. ASSUME NEW t \in Imports, NEW m \in Modules, NodeActs(t, m)
      PROVE  task' = task
  BY <1>5, NodeSteps DEF BuildStep
<1>6. QED
  BY <1>1, <1>2, <1>3, <1>4, <1>5, NextCases

\* Containers shrink, and an import remembers what it began with.
LEMMA PermittedStep == TypeOK /\ Permitted /\ Next => Permitted'
<1> SUFFICES ASSUME TypeOK, Permitted, Next PROVE Permitted'
  OBVIOUS
<1>1. \A l \in Loaders : perm'[l] \subseteq perm[l]
  <2>1. CASE World
    BY <2>1 DEF World, CloseLifecycle, Publish, Revoke, TypeOK
  <2>2. ASSUME NEW t \in Imports, \/ Import(t) \/ Abandons(t) \/ TakesShortcut(t)
                                  \/ StartsBuild(t) \/ FinishBuild(t)
                                  \/ CheckLoad(t) \/ LoadFromGraph(t)
        PROVE  perm' = perm
    BY <2>2 DEF Import, Abandons, TakesShortcut, StartsBuild, FinishBuild, CheckLoad,
                LoadFromGraph
  <2>3. ASSUME NEW t \in Imports, NEW m \in Modules, NodeActs(t, m)
        PROVE  perm' = perm
    BY <2>3, NodeSteps DEF BuildStep
  <2>4. QED
    BY <2>1, <2>2, <2>3, NextCases
<1>2. \A l \in Loaders : perm'[l] \subseteq Grants[l]
  BY <1>1 DEF Permitted
<1>3. ASSUME NEW u \in Imports, task'[u].st # "idle"
      PROVE  perm'[task'[u].loader] \subseteq task'[u].had
  <2>1. CASE task[u].st # "idle"
    BY <2>1, <1>1, TaskKept, LoaderOf DEF Permitted
  <2>2. CASE task[u].st = "idle"
    <3>1. Import(u)
      BY <1>3, <2>2, JustBegun
    <3>2. QED
      BY <3>1, ImportEffect
  <2>3. QED
    BY <2>1, <2>2
<1>4. QED
  BY <1>2, <1>3 DEF Permitted

\* A step of the world, of an import that waits or reads, changes no graph.
LEMMA GraphFrame ==
  ASSUME World \/ \E t \in Imports : Import(t) \/ TakesShortcut(t) \/ CheckLoad(t)
                                     \/ LoadFromGraph(t)
  PROVE  UNCHANGED <<scheme, mode, broker, lockfile, graph, cand, changed, holder>>
BY DEF World, CloseLifecycle, Publish, Revoke, Import, TakesShortcut, CheckLoad, LoadFromGraph

\* An empty graph is sound.
LEMMA EmptySound ==
  ASSUME NEW l
  PROVE  /\ OfItsSource(EmptyGraph) /\ Granted(l, EmptyGraph) /\ OnRecord(EmptyGraph)
         /\ \A m \in Modules : EmptyGraph[m].st \notin Fetched
<1>1. \A m \in Modules : EmptyGraph[m].st = "absent"
  BY DEF EmptyGraph, Blank
<1>2. "absent" \notin Fetched /\ "absent" \notin Loaded
  BY DEF Fetched, Loaded
<1>3. QED
  BY <1>1, <1>2 DEF OfItsSource, Granted, OnRecord

\* What goes into a graph is sound.
LEMMA SoundStep == TypeOK /\ OneBuilder /\ Permitted /\ NodesSound /\ Next => NodesSound'
<1> SUFFICES ASSUME TypeOK, OneBuilder, Permitted, NodesSound, Next, NEW k \in Loaders
             PROVE  /\ OfItsSource(graph'[k])
                    /\ OfItsSource(cand'[k])
                    /\ Granted(k, graph[k])'
                    /\ Granted(k, cand[k])'
                    /\ OnRecord(graph[k])'
                    /\ k \notin changed' => OnRecord(cand[k])'
  BY DEF NodesSound, OfItsSource
<1>0. /\ OfItsSource(graph[k]) /\ OfItsSource(cand[k])
      /\ Granted(k, graph[k]) /\ Granted(k, cand[k])
      /\ OnRecord(graph[k]) /\ (k \notin changed => OnRecord(cand[k]))
  BY DEF NodesSound
<1>1. ASSUME UNCHANGED <<scheme, mode, lockfile>>, graph'[k] = graph[k],
             (cand'[k] = cand[k] /\ (k \in changed => k \in changed')) \/ cand'[k] = EmptyGraph
      PROVE  /\ OfItsSource(graph'[k]) /\ OfItsSource(cand'[k])
             /\ Granted(k, graph[k])' /\ Granted(k, cand[k])'
             /\ OnRecord(graph[k])' /\ (k \notin changed' => OnRecord(cand[k])')
  <2>1. OfItsSource(graph'[k]) /\ Granted(k, graph[k])' /\ OnRecord(graph[k])'
    BY <1>0, <1>1 DEF Granted, OnRecord
  <2>2. CASE cand'[k] = EmptyGraph
    BY <1>1, <2>1, <2>2, EmptySound DEF Granted, OnRecord
  <2>3. CASE cand'[k] = cand[k] /\ (k \in changed => k \in changed')
    BY <1>0, <1>1, <2>1, <2>3 DEF Granted, OnRecord
  <2>4. QED
    BY <1>1, <2>2, <2>3
<1>2. CASE World \/ \E t \in Imports : Import(t) \/ TakesShortcut(t) \/ CheckLoad(t)
                                       \/ LoadFromGraph(t)
  BY <1>1, <1>2, GraphFrame
<1>3. ASSUME NEW t \in Imports, Abandons(t)
      PROVE  /\ OfItsSource(graph'[k]) /\ OfItsSource(cand'[k])
             /\ Granted(k, graph[k])' /\ Granted(k, cand[k])'
             /\ OnRecord(graph[k])' /\ (k \notin changed' => OnRecord(cand[k])')
  <2>1. UNCHANGED <<scheme, mode, lockfile, graph>>
    BY <1>3 DEF Abandons
  <2>2. (cand'[k] = cand[k] /\ (k \in changed => k \in changed')) \/ cand'[k] = EmptyGraph
    BY <1>3 DEF Abandons, TypeOK
  <2>3. QED
    BY <1>1, <2>1, <2>2
<1>4. ASSUME NEW t \in Imports, FinishBuild(t)
      PROVE  /\ OfItsSource(graph'[k]) /\ OfItsSource(cand'[k])
             /\ Granted(k, graph[k])' /\ Granted(k, cand[k])'
             /\ OnRecord(graph[k])' /\ (k \notin changed' => OnRecord(cand[k])')
  <2>1. UNCHANGED <<scheme, mode, lockfile>>
    BY <1>4 DEF FinishBuild
  <2>2. (cand'[k] = cand[k] /\ (k \in changed => k \in changed')) \/ cand'[k] = EmptyGraph
    BY <1>4 DEF FinishBuild, TypeOK
  <2>3. graph'[k] = graph[k] \/ (graph'[k] = cand[k] /\ k \notin changed)
    BY <1>4 DEF FinishBuild, Accepts, TypeOK
  <2>4. CASE graph'[k] = graph[k]
    BY <1>1, <2>1, <2>2, <2>4
  <2>5. CASE graph'[k] = cand[k] /\ k \notin changed
    <3>1. OfItsSource(graph'[k]) /\ Granted(k, graph[k])' /\ OnRecord(graph[k])'
      BY <1>0, <2>1, <2>5 DEF Granted, OnRecord
    <3>2. OfItsSource(cand'[k]) /\ Granted(k, cand[k])' /\ OnRecord(cand[k])'
      BY <1>0, <2>1, <2>2, <2>5, EmptySound DEF Granted, OnRecord
    <3>3. QED
      BY <3>1, <3>2
  <2>6. QED
    BY <2>3, <2>4, <2>5
\* A graph that is put in place of the one built on.
<1>5. ASSUME NEW l \in Loaders, NEW h \in [Modules -> Nodes], Put(l, h),
             UNCHANGED <<scheme, mode>>, mode = "frozen" => lockfile' = lockfile,
             changed \subseteq changed' /\ changed' \subseteq changed \cup {l},
             OfItsSource(h), Granted(l, h), mode = "frozen" /\ l \notin changed' => OnRecord(h)
      PROVE  /\ OfItsSource(graph'[k]) /\ OfItsSource(cand'[k])
             /\ Granted(k, graph[k])' /\ Granted(k, cand[k])'
             /\ OnRecord(graph[k])' /\ (k \notin changed' => OnRecord(cand[k])')
  <2>1. /\ k # l => graph'[k] = graph[k] /\ cand'[k] = cand[k]
        /\ mode = "frozen" => graph' = graph /\ cand'[l] = h
        /\ mode # "frozen" => cand' = cand /\ graph'[l] = h
    BY <1>5, PutEffect
  <2>2. OfItsSource(graph'[k]) /\ OfItsSource(cand'[k])
    BY <1>0, <1>5, <2>1
  <2>3. Granted(k, graph[k])' /\ Granted(k, cand[k])'
    BY <1>0, <1>5, <2>1 DEF Granted
  <2>4. OnRecord(graph[k])'
    BY <1>0, <1>5, <2>1 DEF OnRecord
  <2>5. k \notin changed' => OnRecord(cand[k])'
    BY <1>0, <1>5, <2>1 DEF OnRecord
  <2>6. QED
    BY <2>2, <2>3, <2>4, <2>5
<1>6. ASSUME NEW t \in Imports, StartsBuild(t)
      PROVE  /\ OfItsSource(graph'[k]) /\ OfItsSource(cand'[k])
             /\ Granted(k, graph[k])' /\ Granted(k, cand[k])'
             /\ OnRecord(graph[k])' /\ (k \notin changed' => OnRecord(cand[k])')
  <2> DEFINE l == task[t].loader
  <2>0. l \in Loaders /\ UNCHANGED <<scheme, mode, lockfile, changed>>
    BY <1>6, LoaderOf DEF StartsBuild
  <2>1. PICK h \in [Modules -> Nodes] :
          Put(l, h) /\ \A m \in Modules : h[m].st = "pending" \/ h[m] = graph[l][m]
    BY <1>6, StartEffect
  <2>2. "pending" \notin Fetched /\ "pending" \notin Loaded
    BY DEF Fetched, Loaded
  <2>3. OfItsSource(graph[l]) /\ Granted(l, graph[l]) /\ OnRecord(graph[l])
    BY <2>0 DEF NodesSound
  <2> HIDE DEF l
  <2>4. OfItsSource(h) /\ Granted(l, h) /\ OnRecord(h)
    BY <2>1, <2>2, <2>3 DEF OfItsSource, Granted, OnRecord
  <2>5. QED
    BY <2>0, <2>1, <2>4, <1>5
<1>7. ASSUME NEW t \in Imports, NEW m \in Modules, NodeActs(t, m)
      PROVE  /\ OfItsSource(graph'[k]) /\ OfItsSource(cand'[k])
             /\ Granted(k, graph[k])' /\ Granted(k, cand[k])'
             /\ OnRecord(graph[k])' /\ (k \notin changed' => OnRecord(cand[k])')
  <2> DEFINE l == task[t].loader
             g == Working(l)
  <2>0. l \in Loaders
    BY LoaderOf
  <2>1. PICK h \in [Modules -> Nodes] : BuildStep(t, g, h)
    BY <1>7, NodeSteps
  <2>2. OfItsSource(g) /\ Granted(l, g) /\ (mode = "frozen" /\ l \notin changed => OnRecord(g))
    BY <2>0 DEF NodesSound, Working
  <2>3. perm[l] \subseteq Grants[l]
    BY <2>0 DEF Permitted
  <2> HIDE DEF g
  <2>4. OfItsSource(h)
    BY <2>1, <2>2 DEF BuildStep
  <2>5. Granted(l, h)
    BY <2>1, <2>2, <2>3 DEF BuildStep, Granted
  <2>6. mode = "frozen" /\ l \notin changed' => OnRecord(h)
    BY <2>1, <2>2 DEF BuildStep, OnRecord
  <2>7. QED
    BY <2>0, <2>1, <2>4, <2>5, <2>6, <1>5 DEF BuildStep
<1>8. QED
  BY <1>2, <1>3, <1>4, <1>6, <1>7, NextCases

\* Only an import of an isolate changes the graphs of that isolate.
LEMMA GraphOwner ==
  ASSUME TypeOK, Next, NEW l \in Loaders
  PROVE  \/ graph'[l] = graph[l] /\ cand'[l] = cand[l]
         \/ \E t \in Imports : task[t].st # "idle" /\ task[t].loader = l
<1>1. CASE World \/ \E t \in Imports : Import(t) \/ TakesShortcut(t) \/ CheckLoad(t)
                                       \/ LoadFromGraph(t)
  BY <1>1, GraphFrame
<1>2. ASSUME NEW t \in Imports, Abandons(t) \/ FinishBuild(t), task[t].loader # l
      PROVE  graph'[l] = graph[l] /\ cand'[l] = cand[l]
  BY <1>2 DEF Abandons, FinishBuild, TypeOK
<1>3. ASSUME NEW t \in Imports, Abandons(t) \/ FinishBuild(t) \/ StartsBuild(t)
      PROVE  task[t].st # "idle"
  BY <1>3 DEF Abandons, FinishBuild, StartsBuild
<1>4. ASSUME NEW t \in Imports, StartsBuild(t), task[t].loader # l
      PROVE  graph'[l] = graph[l] /\ cand'[l] = cand[l]
  BY <1>4, StartEffect, PutEffect, LoaderOf
<1>5. ASSUME NEW t \in Imports, NEW m \in Modules, NodeActs(t, m)
      PROVE  /\ task[t].st # "idle"
             /\ task[t].loader # l => graph'[l] = graph[l] /\ cand'[l] = cand[l]
  BY <1>5, NodeSteps, PutEffect, LoaderOf DEF BuildStep
<1>6. QED
  BY <1>1, <1>2, <1>3, <1>4, <1>5, NextCases

\* Without an import nothing is fetched.
LEMMA UntouchedStep == TypeOK /\ Untouched /\ Next => Untouched'
<1> SUFFICES ASSUME TypeOK, Untouched, Next, NEW l \in Loaders,
                    \A t \in Imports : task'[t].st = "idle" \/ task'[t].loader # l
             PROVE  \A m \in Modules : graph'[l][m].st \notin Fetched /\ cand'[l][m].st \notin Fetched
  BY DEF Untouched
<1>1. \A t \in Imports : task[t].st = "idle" \/ task[t].loader # l
  BY TaskKept
<1>2. QED
  BY <1>1, GraphOwner DEF Untouched

\* What a module is and what the lockfile is for is fixed for the run.
LEMMA SchemeKept ==
  ASSUME TypeOK, Next
  PROVE  scheme' = scheme /\ mode' = mode
<1>1. CASE World \/ \E t \in Imports : Import(t) \/ TakesShortcut(t) \/ CheckLoad(t)
                                       \/ LoadFromGraph(t)
  BY <1>1, GraphFrame
<1>2. ASSUME NEW t \in Imports, Abandons(t) \/ FinishBuild(t) \/ StartsBuild(t)
      PROVE  scheme' = scheme /\ mode' = mode
  BY <1>2 DEF Abandons, FinishBuild, StartsBuild
<1>3. ASSUME NEW t \in Imports, NEW m \in Modules, NodeActs(t, m)
      PROVE  scheme' = scheme /\ mode' = mode
  BY <1>3, NodeSteps DEF BuildStep
<1>4. QED
  BY <1>1, <1>2, <1>3, NextCases

\* A file that is fetched by a step of an isolate may be read by it then.
LEMMA FetchedReadable ==
  ASSUME TypeOK, OneBuilder, Next, NEW l \in Loaders, NEW m \in Modules, scheme[m] = "file",
         graph'[l][m].st \in Fetched \/ cand'[l][m].st \in Fetched
  PROVE  graph[l][m].st \in Fetched \/ cand[l][m].st \in Fetched \/ m \in perm[l]
<1>1. CASE World \/ \E t \in Imports : Import(t) \/ TakesShortcut(t) \/ CheckLoad(t)
                                       \/ LoadFromGraph(t)
  BY <1>1, GraphFrame
<1>2. ASSUME NEW t \in Imports, Abandons(t) \/ FinishBuild(t)
      PROVE  graph[l][m].st \in Fetched \/ cand[l][m].st \in Fetched
  <2>1. graph'[l] = graph[l] \/ graph'[l] = cand[l]
    BY <1>2 DEF Abandons, FinishBuild, TypeOK
  <2>2. cand'[l] = cand[l] \/ cand'[l] = EmptyGraph
    BY <1>2 DEF Abandons, FinishBuild, TypeOK
  <2>3. QED
    BY <2>1, <2>2, EmptySound
<1>3. ASSUME NEW t \in Imports, StartsBuild(t)
      PROVE  graph[l][m].st \in Fetched \/ cand[l][m].st \in Fetched
  <2> DEFINE k == task[t].loader
  <2>1. k \in Loaders
    BY LoaderOf
  <2>2. PICK h \in [Modules -> Nodes] :
          Put(k, h) /\ \A x \in Modules : h[x].st = "pending" \/ h[x] = graph[k][x]
    BY <1>3, StartEffect
  <2>3. "pending" \notin Fetched
    BY DEF Fetched, Loaded
  <2> HIDE DEF k
  <2>4. QED
    BY <2>1, <2>2, <2>3, PutEffect
<1>4. ASSUME NEW t \in Imports, NEW x \in Modules, NodeActs(t, x)
      PROVE  graph[l][m].st \in Fetched \/ cand[l][m].st \in Fetched \/ m \in perm[l]
  <2> DEFINE k == task[t].loader
             g == Working(k)
  <2>1. k \in Loaders
    BY LoaderOf
  <2>2. PICK h \in [Modules -> Nodes] : BuildStep(t, g, h)
    BY <1>4, NodeSteps
  <2>3. g = graph[k] \/ g = cand[k]
    BY DEF Working
  <2> HIDE DEF g
  <2>4. Put(k, h) /\ (h[m].st \in Fetched => g[m].st \in Fetched \/ m \in perm[k])
    BY <2>2 DEF BuildStep
  <2> HIDE DEF k
  <2>5. QED
    BY <2>1, <2>3, <2>4, PutEffect
<1>5. QED
  BY <1>1, <1>2, <1>3, <1>4, NextCases

\* The import of a main module has its isolate for itself.
LEMMA FirstStep ==
  TypeOK /\ OneBuilder /\ Permitted /\ Untouched /\ FirstAlone /\ Next => FirstAlone'
<1> SUFFICES ASSUME TypeOK, OneBuilder, Permitted, Untouched, FirstAlone, Next,
                    NEW t \in Imports, task'[t].st \notin {"idle", "loaded"}, ~task'[t].dyn
             PROVE  LET l == task'[t].loader IN
                    /\ \A u \in Imports : u = t \/ task'[u].st = "idle" \/ task'[u].loader # l
                    /\ \A m \in Modules :
                         /\ scheme'[m] = "file"
                         /\ graph'[l][m].st \in Fetched \/ cand'[l][m].st \in Fetched
                         => m \in task'[t].had
  BY DEF FirstAlone
<1> DEFINE l == task'[t].loader
<1>0. TypeOK' /\ l \in Loaders
  <2>1. TypeOK'
    BY TypeStep
  <2>2. QED
    BY <2>1 DEF TypeOK, Tasks
<1>1. scheme' = scheme
  BY SchemeKept
<1>2. CASE task[t].st = "idle"
  <2>1. Import(t)
    BY <1>2, JustBegun
  <2>2. /\ \A u \in Imports : u # t => task'[u] = task[u]
        /\ \A u \in Imports : task[u].st = "idle" \/ task[u].loader # l
        /\ UNCHANGED <<graph, cand>>
    BY <2>1, ImportEffect
  <2>3. \A m \in Modules : graph[l][m].st \notin Fetched /\ cand[l][m].st \notin Fetched
    BY <1>0, <2>2 DEF Untouched
  <2>4. QED
    BY <2>2, <2>3
<1>3. CASE task[t].st # "idle"
  <2>1. task[t].loader = l /\ task[t].dyn = task'[t].dyn /\ task[t].had = task'[t].had
    BY <1>3, TaskKept
  <2>2. task[t].st # "loaded"
    <3>1. ASSUME task[t].st = "loaded"
          PROVE  task'[t] = task[t]
      <4>1. CASE World
        BY <4>1 DEF World, CloseLifecycle, Publish, Revoke
      <4>2. ASSUME NEW u \in Imports, Import(u)
            PROVE  task'[t] = task[t]
        BY <4>2, <3>1, ImportEffect
      <4>3. ASSUME NEW u \in Imports, Abandons(u) \/ TakesShortcut(u) \/ StartsBuild(u)
                                      \/ FinishBuild(u) \/ CheckLoad(u) \/ LoadFromGraph(u)
            PROVE  task'[t] = task[t]
        <5>1. task[u].st # "loaded" /\ \E s : Goes(u, s)
          BY <4>3 DEF Abandons, TakesShortcut, StartsBuild, FinishBuild, CheckLoad,
                      LoadFromGraph
        <5>2. QED
          BY <5>1, <3>1, Goes1
      <4>4. ASSUME NEW u \in Imports, NEW m \in Modules, NodeActs(u, m)
            PROVE  task' = task
        BY <4>4, NodeSteps DEF BuildStep
      <4>5. QED
        BY <4>1, <4>2, <4>3, <4>4, NextCases
    <3>2. QED
      BY <3>1
  <2>3. task[t].st \notin {"idle", "loaded"} /\ ~task[t].dyn
    BY <1>3, <2>1, <2>2
  <2>4. /\ \A u \in Imports : u = t \/ task[u].st = "idle" \/ task[u].loader # l
        /\ \A m \in Modules :
             /\ scheme[m] = "file"
             /\ graph[l][m].st \in Fetched \/ cand[l][m].st \in Fetched
             => m \in task[t].had
    BY <2>1, <2>3 DEF FirstAlone
  \* Nobody else begins one: that needs a module that is loaded, or no import at all.
  <2>5. ASSUME NEW u \in Imports, u # t, task'[u].st # "idle", task'[u].loader = l
        PROVE  FALSE
    <3>1. task[u].st = "idle"
      BY <2>4, <2>5, TaskKept
    <3>2. Import(u)
      BY <2>5, <3>1, JustBegun
    <3>3. task'[u].dyn
      BY <3>2, <2>1, <2>3, <2>5, ImportEffect
    <3>4. Executed(l) # {}
      BY <3>2, <3>3, <2>5, ImportEffect
    <3>5. \E w \in Imports : task[w].st = "loaded" /\ task[w].loader = l
      BY <3>4 DEF Executed
    <3>6. QED
      BY <3>5, <2>2, <2>4
  <2>6. perm[l] \subseteq task[t].had
    BY <2>1, <1>3 DEF Permitted
  <2>7. QED
    BY <1>0, <1>1, <2>1, <2>4, <2>5, <2>6, FetchedReadable
<1>4. QED
  BY <1>2, <1>3

-----------------------------------------------------------------------------
(* What was accepted stays. *)

KeptInv == TypeOK /\ OneBuilder /\ Stays /\ CandidateKeeps /\ RegisteredAtEnd

\* No step changes a module that an accepted import reaches.
LEMMA KeptStep ==
  ASSUME KeptInv, Next, NEW u \in Imports, task[u].st \in Kept
  PROVE  LET l == task[u].loader IN
         \A m \in Walk(graph[l], task[u].root) : graph'[l][m] = graph[l][m]
<1> DEFINE l == task[u].loader
           root == task[u].root
<1>0. TypeOK /\ l \in Loaders /\ root \in Modules
  BY LoaderOf DEF KeptInv
<1>1. Valid(graph[l], root)
  BY DEF KeptInv, Stays
<1>2. \A m \in Walk(graph[l], root) : m \in Modules /\ graph[l][m].st = "ok"
  BY <1>0, <1>1, WalkClosed DEF Valid
<1>3. CASE World \/ \E t \in Imports : Import(t) \/ TakesShortcut(t) \/ CheckLoad(t)
                                       \/ LoadFromGraph(t)
  BY <1>3, GraphFrame
<1>4. ASSUME NEW t \in Imports, Abandons(t)
      PROVE  graph' = graph
  BY <1>4 DEF Abandons
<1>5. ASSUME NEW t \in Imports, FinishBuild(t)
      PROVE  \A m \in Walk(graph[l], root) : graph'[l][m] = graph[l][m]
  <2>1. holder[task[t].loader] = t /\ t # NoImport
    <3>1. task[t].st = "building" /\ task[t].loader \in Loaders
      BY <1>0, <1>5, LoaderOf DEF FinishBuild
    <3>2. QED
      BY <3>1 DEF KeptInv, OneBuilder, Imports, NoImport
  <2>2. graph'[l] = graph[l] \/ (mode = "frozen" /\ task[t].loader = l /\ graph'[l] = cand[l])
    BY <1>0, <1>5 DEF FinishBuild, TypeOK
  <2>3. CASE mode = "frozen" /\ task[t].loader = l /\ graph'[l] = cand[l]
    BY <2>1, <2>3 DEF KeptInv, CandidateKeeps
  <2>4. QED
    BY <2>2, <2>3
<1>6. ASSUME NEW t \in Imports, StartsBuild(t)
      PROVE  \A m \in Walk(graph[l], root) : graph'[l][m] = graph[l][m]
  <2> DEFINE k == task[t].loader
  <2>1. k \in Loaders /\ task[t].root \in Modules
    BY <1>0, LoaderOf
  <2>2. PICK h \in [Modules -> Nodes] :
          /\ Put(k, h)
          /\ \A m \in Modules : m \notin Retry(graph[k], task[t].root) => h[m] = graph[k][m]
    BY <1>0, <1>6, StartEffect
  <2>3. k = l => \A m \in Walk(graph[l], root) : m \notin Retry(graph[k], task[t].root)
    BY <1>0, <1>1, <1>6, <2>1, RetryMisses DEF StartsBuild
  <2>4. (k # l => graph'[l] = graph[l]) /\ (graph' = graph \/ graph'[k] = h)
    BY <1>0, <2>1, <2>2, PutEffect
  <2> HIDE DEF k, l, root
  <2>5. QED
    BY <1>2, <2>2, <2>3, <2>4
<1>7. ASSUME NEW t \in Imports, NEW x \in Modules, NodeActs(t, x)
      PROVE  \A m \in Walk(graph[l], root) : graph'[l][m] = graph[l][m]
  <2> DEFINE k == task[t].loader
             g == Working(k)
  <2>1. k \in Loaders
    BY <1>0, LoaderOf
  <2>2. PICK h \in [Modules -> Nodes] : BuildStep(t, g, h)
    BY <1>0, <1>7, NodeSteps
  <2>3. Put(k, h) /\ \A m \in Modules : g[m].st = "ok" => h[m] = g[m]
    BY <2>2 DEF BuildStep
  <2>4. mode # "frozen" => g = graph[k]
    BY DEF Working
  <2>5. /\ k # l => graph'[l] = graph[l]
        /\ mode = "frozen" => graph' = graph
        /\ mode # "frozen" => graph'[k] = h
    BY <1>0, <2>1, <2>3, PutEffect
  <2> HIDE DEF g, k, l, root
  <2>6. QED
    BY <1>2, <2>3, <2>4, <2>5
<1>8. QED
  BY <1>3, <1>4, <1>5, <1>6, <1>7, NextCases

\* So its walk stays the same, and valid.
LEMMA WalkStays ==
  ASSUME KeptInv, Next, NEW u \in Imports, task[u].st \in Kept
  PROVE  LET l == task[u].loader IN
         /\ Walk(graph'[l], task[u].root) = Walk(graph[l], task[u].root)
         /\ Valid(graph[l], task[u].root) /\ Valid(graph'[l], task[u].root)
<1> DEFINE l == task[u].loader
<1>1. task[u].root \in Modules /\ Valid(graph[l], task[u].root)
  BY LoaderOf DEF KeptInv, Stays
<1>2. \A m \in Walk(graph[l], task[u].root) : graph'[l][m] = graph[l][m]
  BY KeptStep
<1>3. QED
  BY <1>1, <1>2, ValidKept

\* How an import comes to be accepted.
LEMMA Accepted ==
  ASSUME TypeOK, Next, NEW u \in Imports, task'[u].st \in Kept, task[u].st \notin Kept
  PROVE  TakesShortcut(u) \/ (FinishBuild(u) /\ Accepts(u))
<1>1. CASE World
  BY <1>1 DEF World, CloseLifecycle, Publish, Revoke
<1>2. ASSUME NEW t \in Imports, Import(t)
      PROVE  task'[u] = task[u] \/ task'[u].st = "prepare"
  BY <1>2, ImportEffect
<1>3. ASSUME NEW t \in Imports, Abandons(t) \/ StartsBuild(t)
      PROVE  task'[u] = task[u] \/ task'[u].st \in {"failed", "building"}
  <2>1. \E s \in {"failed", "building"} : Goes(t, s)
    BY <1>3 DEF Abandons, StartsBuild
  <2>2. QED
    BY <2>1, Goes1
<1>4. ASSUME NEW t \in Imports, CheckLoad(t) \/ LoadFromGraph(t)
      PROVE  task'[u] = task[u] \/ task[u].st \in {"prepared", "loading"}
  <2>1. task[t].st \in {"prepared", "loading"} /\ \E s : Goes(t, s)
    BY <1>4 DEF CheckLoad, LoadFromGraph
  <2>2. QED
    BY <2>1, Goes1
<1>5. ASSUME NEW t \in Imports, TakesShortcut(t)
      PROVE  task'[u] = task[u] \/ t = u
  BY <1>5, Goes1 DEF TakesShortcut
<1>6. ASSUME NEW t \in Imports, FinishBuild(t)
      PROVE  task'[u] = task[u] \/ (t = u /\ (Accepts(t) \/ task'[u].st = "failed"))
  <2>1. \E s : Goes(t, s)
    BY <1>6 DEF FinishBuild
  <2>2. ~Accepts(t) => Goes(t, "failed")
    BY <1>6 DEF FinishBuild
  <2>3. QED
    BY <2>1, <2>2, Goes1
<1>7. ASSUME NEW t \in Imports, NEW m \in Modules, NodeActs(t, m)
      PROVE  task' = task
  BY <1>7, NodeSteps DEF BuildStep
<1>8. "failed" \notin Kept /\ "building" \notin Kept /\ "prepare" \notin Kept
      /\ "prepared" \in Kept /\ "loading" \in Kept
  BY DEF Kept
<1>9. QED
  BY <1>1, <1>2, <1>3, <1>4, <1>5, <1>6, <1>7, <1>8, NextCases

\* An accepted import has an accepted root.
LEMMA StaysStep == KeptInv /\ Next => Stays'
<1> SUFFICES ASSUME KeptInv, Next, NEW u \in Imports, task'[u].st \in Kept
             PROVE  Valid(graph'[task'[u].loader], task'[u].root)
  BY DEF Stays, Valid
<1>0. TypeOK
  BY DEF KeptInv
<1>1. CASE task[u].st \in Kept
  <2>1. task[u].st # "idle"
    BY <1>1 DEF Kept
  <2>2. QED
    BY <1>0, <1>1, <2>1, TaskKept, WalkStays
<1>2. CASE task[u].st \notin Kept
  <2>1. CASE TakesShortcut(u)
    <3>1. Goes(u, "prepared") /\ graph' = graph /\ Valid(graph[task[u].loader], task[u].root)
      BY <2>1 DEF TakesShortcut
    <3>2. QED
      BY <1>0, <3>1, Goes1
  <2>2. CASE FinishBuild(u) /\ Accepts(u)
    <3>1. Goes(u, "prepared") /\ Valid(Working(task[u].loader), task[u].root)
      BY <2>2 DEF FinishBuild, Accepts
    <3>2. graph'[task[u].loader] = Working(task[u].loader)
      BY <1>0, <2>2, LoaderOf DEF FinishBuild, Working, TypeOK
    <3>3. QED
      BY <1>0, <3>1, <3>2, Goes1
  <2>3. QED
    BY <1>0, <1>2, <2>1, <2>2, Accepted
<1>3. QED
  BY <1>1, <1>2

\* A candidate keeps what the graph has promised.
LEMMA CandidateStep == KeptInv /\ Next => CandidateKeeps'
<1> SUFFICES ASSUME KeptInv, Next, NEW u \in Imports, task'[u].st \in Kept, mode' = "frozen",
                    holder'[task'[u].loader] # NoImport,
                    NEW m \in Walk(graph'[task'[u].loader], task'[u].root)
             PROVE  cand'[task'[u].loader][m] = graph'[task'[u].loader][m]
  BY DEF CandidateKeeps, Walk
<1>0. TypeOK
  BY DEF KeptInv
<1>1. mode' = mode
  BY <1>0, SchemeKept
\* Who is accepted at this step finds, or leaves, the mutex free.
<1>2. CASE task[u].st \notin Kept
  <2>1. CASE TakesShortcut(u)
    <3>1. Goes(u, "prepared") /\ holder' = holder /\ holder[task[u].loader] = NoImport
      BY <2>1 DEF TakesShortcut
    <3>2. QED
      BY <1>0, <3>1, Goes1
  <2>2. CASE FinishBuild(u)
    <3>1. (\E s : Goes(u, s)) /\ holder'[task[u].loader] = NoImport
      BY <1>0, <2>2, LoaderOf DEF FinishBuild, TypeOK
    <3>2. QED
      BY <1>0, <3>1, Goes1
  <2>3. QED
    BY <1>0, <1>2, <2>1, <2>2, Accepted
<1>3. CASE task[u].st \in Kept
  <2> DEFINE l == task[u].loader
             root == task[u].root
  <2>0. task[u].st # "idle" /\ l \in Loaders /\ root \in Modules
    BY <1>0, <1>3, LoaderOf DEF Kept
  <2>1. task'[u].loader = l /\ task'[u].root = root
    BY <1>0, <2>0, TaskKept
  <2>2. m \in Walk(graph[l], root) /\ graph'[l][m] = graph[l][m]
    BY <1>3, <2>1, WalkStays, KeptStep
  <2>3. m \in Modules /\ graph[l][m].st = "ok"
    BY <1>3, <2>0, <2>2, WalkStays, WalkClosed DEF Valid
  <2>4. holder[l] # NoImport => cand[l][m] = graph[l][m]
    BY <1>1, <1>3, <2>2 DEF KeptInv, CandidateKeeps
  <2>5. SUFFICES cand'[l][m] = graph[l][m]
    BY <2>1, <2>2
  <2>6. holder'[l] # NoImport
    BY <2>1
  <2> HIDE DEF l, root
  <2>7. CASE World \/ \E t \in Imports : Import(t) \/ TakesShortcut(t) \/ CheckLoad(t)
                                         \/ LoadFromGraph(t)
    BY <2>4, <2>6, <2>7, GraphFrame
  \* A build that ends has the candidate of its own isolate only.
  <2>8. ASSUME NEW t \in Imports, Abandons(t) \/ FinishBuild(t)
        PROVE  cand'[l][m] = graph[l][m]
    <3>1. task[t].loader \in Loaders /\ holder \in [Loaders -> Imports \cup {NoImport}]
          /\ cand \in [Loaders -> [Modules -> Nodes]]
      BY <1>0, LoaderOf DEF TypeOK
    <3>2. FinishBuild(t) => l # task[t].loader
      BY <2>6, <3>1 DEF FinishBuild
    <3>3. Abandons(t) => l # task[t].loader \/ (holder[l] # t /\ holder'[l] = holder[l])
      BY <2>0, <2>6, <3>1 DEF Abandons
    <3>4. l # task[t].loader => holder'[l] = holder[l] /\ cand'[l] = cand[l]
      BY <2>0, <2>8, <3>1 DEF Abandons, FinishBuild
    <3>5. Abandons(t) /\ l = task[t].loader => cand' = cand
      BY <3>3 DEF Abandons
    <3>6. QED
      BY <2>4, <2>6, <2>8, <3>2, <3>3, <3>4, <3>5
  <2>9. ASSUME NEW t \in Imports, StartsBuild(t)
        PROVE  cand'[l][m] = graph[l][m]
    <3> DEFINE k == task[t].loader
    <3>1. k \in Loaders /\ task[t].root \in Modules
      BY <1>0, LoaderOf
    <3>2. PICK h \in [Modules -> Nodes] :
            /\ Put(k, h)
            /\ \A x \in Modules : x \notin Retry(graph[k], task[t].root) => h[x] = graph[k][x]
      BY <1>0, <2>9, StartEffect
    <3>3. k = l => m \notin Retry(graph[k], task[t].root)
      BY <1>3, <2>0, <2>2, <2>9, <3>1, WalkStays, RetryMisses DEF StartsBuild, l, root
    <3>4. (k # l => cand'[l] = cand[l]) /\ cand'[k] = h
      BY <1>0, <1>1, <2>0, <3>1, <3>2, PutEffect
    <3>5. k # l => holder'[l] = holder[l]
      BY <1>0, <2>0, <2>9, <3>1 DEF StartsBuild, TypeOK
    <3> HIDE DEF k
    <3>6. QED
      BY <2>3, <2>4, <2>6, <3>2, <3>3, <3>4, <3>5
  <2>10. ASSUME NEW t \in Imports, NEW x \in Modules, NodeActs(t, x)
         PROVE  cand'[l][m] = graph[l][m]
    <3> DEFINE k == task[t].loader
               g == Working(k)
    <3>1. k \in Loaders /\ g = cand[k]
      BY <1>0, <1>1, LoaderOf DEF Working
    <3>2. PICK h \in [Modules -> Nodes] : BuildStep(t, g, h)
      BY <1>0, <2>10, NodeSteps
    <3>3. Put(k, h) /\ holder' = holder /\ \A y \in Modules : g[y].st = "ok" => h[y] = g[y]
      BY <3>2 DEF BuildStep
    <3>4. (k # l => cand'[l] = cand[l]) /\ cand'[k] = h
      BY <1>0, <1>1, <2>0, <3>1, <3>3, PutEffect
    <3> HIDE DEF k, g
    <3>5. QED
      BY <2>3, <2>4, <2>6, <3>1, <3>3, <3>4
  <2>11. QED
    BY <2>7, <2>8, <2>9, <2>10, NextCases
<1>4. QED
  BY <1>2, <1>3

-----------------------------------------------------------------------------
(* What is loaded was readable. *)

\* Where the root of an import leads.
Reached(u) == Walk(graph[task[u].loader], task[u].root)

\* What a step does to the module map, and to an import: it is loaded by its load,
\* refused or let through by its check, and over when it is over.
LEMMA LoadSteps ==
  ASSUME TypeOK, Next, NEW u \in Imports
  PROVE  \/ /\ registered'[u] = registered[u]
            /\ \/ task'[u] = task[u]
               \/ task[u].st \notin Over /\ task'[u].st \notin {"loading", "loaded"}
               \/ /\ task[u].st = "prepared" /\ task'[u].st = "loading" /\ graph' = graph
                  /\ {} \in Refusals(u)
         \/ /\ task[u].st = "prepared" /\ task'[u].st = "failed" /\ graph' = graph
            /\ \E refused \in Refusals(u) : registered'[u] \in Parts(u, refused)
         \/ /\ task[u].st = "loading" /\ task'[u].st = "loaded" /\ graph' = graph
            /\ Valid(graph[task[u].loader], task[u].root) /\ registered'[u] = Reached(u)
<1>0. registered \in [Imports -> SUBSET Modules]
  BY DEF TypeOK
<1>1. CASE World
  BY <1>1 DEF World, CloseLifecycle, Publish, Revoke
<1>2. ASSUME NEW t \in Imports, Import(t)
      PROVE  /\ registered' = registered
             /\ task'[u] = task[u] \/ (task'[u].st = "prepare" /\ task[u].st = "idle")
  BY <1>2, ImportEffect
<1>3. ASSUME NEW t \in Imports, \/ Abandons(t) \/ TakesShortcut(t) \/ StartsBuild(t)
                                \/ FinishBuild(t)
      PROVE  /\ registered' = registered
             /\ \/ task'[u] = task[u]
                \/ /\ task'[u].st \in {"failed", "prepared", "building"}
                   /\ task[u].st \in {"prepare", "building"}
  <2>1. /\ \E s \in {"failed", "prepared", "building"} : Goes(t, s)
        /\ task[t].st \in {"prepare", "building"} /\ registered' = registered
    BY <1>3 DEF Abandons, TakesShortcut, StartsBuild, FinishBuild
  <2>2. QED
    BY <2>1, Goes1
<1>4. ASSUME NEW t \in Imports, CheckLoad(t)
      PROVE  \/ task'[u] = task[u] /\ registered'[u] = registered[u]
             \/ /\ task[u].st = "prepared" /\ task'[u].st = "loading" /\ graph' = graph
                /\ registered'[u] = registered[u] /\ {} \in Refusals(u)
             \/ /\ task[u].st = "prepared" /\ task'[u].st = "failed" /\ graph' = graph
                /\ \E refused \in Refusals(u) : registered'[u] \in Parts(u, refused)
  <2>1. PICK refused \in Refusals(t) :
          \/ refused = {} /\ Goes(t, "loading") /\ registered' = registered
          \/ Goes(t, "failed")
             /\ \E part \in Parts(t, refused) : registered' = [registered EXCEPT ![t] = part]
    BY <1>4 DEF CheckLoad
  <2>2. task[t].st = "prepared" /\ graph' = graph
    BY <1>4 DEF CheckLoad
  <2>4. ASSUME Goes(t, "failed"), NEW part \in Parts(t, refused),
               registered' = [registered EXCEPT ![t] = part]
        PROVE  \/ task'[u] = task[u] /\ registered'[u] = registered[u]
               \/ /\ task[u].st = "prepared" /\ task'[u].st = "failed" /\ graph' = graph
                  /\ \E x \in Refusals(u) : registered'[u] \in Parts(u, x)
    <3>1. registered'[t] = part /\ (u # t => registered'[u] = registered[u])
      BY <1>0, <2>4
    <3>2. CASE u = t
      BY <2>2, <2>4, <3>1, <3>2, Goes1
    <3>3. CASE u # t
      BY <2>4, <3>1, <3>3, Goes1
    <3>4. QED
      BY <3>2, <3>3
  <2>5. ASSUME refused = {}, Goes(t, "loading"), registered' = registered
        PROVE  \/ task'[u] = task[u] /\ registered'[u] = registered[u]
               \/ /\ task[u].st = "prepared" /\ task'[u].st = "loading" /\ graph' = graph
                  /\ registered'[u] = registered[u] /\ {} \in Refusals(u)
    <3>1. CASE u = t
      BY <2>1, <2>2, <2>5, <3>1, Goes1
    <3>2. CASE u # t
      BY <2>5, <3>2, Goes1
    <3>3. QED
      BY <3>1, <3>2
  <2>6. QED
    BY <2>1, <2>4, <2>5
<1>5. ASSUME NEW t \in Imports, LoadFromGraph(t)
      PROVE  \/ task'[u] = task[u] /\ registered'[u] = registered[u]
             \/ /\ task[u].st = "loading" /\ task'[u].st = "failed"
                /\ registered'[u] = registered[u]
             \/ /\ task[u].st = "loading" /\ task'[u].st = "loaded" /\ graph' = graph
                /\ Valid(graph[task[u].loader], task[u].root) /\ registered'[u] = Reached(u)
  <2>1. /\ task[t].st = "loading" /\ graph' = graph
        /\ \/ Goes(t, "failed") /\ registered' = registered
           \/ /\ Goes(t, "loaded") /\ Valid(graph[task[t].loader], task[t].root)
              /\ registered' = [registered EXCEPT ![t] = Reached(t)]
    BY <1>5 DEF LoadFromGraph, Reached
  <2>2. CASE Goes(t, "failed") /\ registered' = registered
    BY <2>1, <2>2, Goes1
  <2>3. CASE /\ Goes(t, "loaded") /\ Valid(graph[task[t].loader], task[t].root)
             /\ registered' = [registered EXCEPT ![t] = Reached(t)]
    <3>1. registered'[t] = Reached(t) /\ (u # t => registered'[u] = registered[u])
      BY <1>0, <2>3
    <3>2. QED
      BY <2>1, <2>3, <3>1, Goes1
  <2>4. QED
    BY <2>1, <2>2, <2>3
<1>6. ASSUME NEW t \in Imports, NEW m \in Modules, NodeActs(t, m)
      PROVE  task' = task /\ registered' = registered
  BY <1>6, NodeSteps DEF BuildStep
<1>7. CASE \E t \in Imports : Import(t) \/ (\E m \in Modules : NodeActs(t, m))
  BY <1>2, <1>6, <1>7 DEF Over
<1>8. CASE \E t \in Imports : Abandons(t) \/ TakesShortcut(t) \/ StartsBuild(t) \/ FinishBuild(t)
  BY <1>3, <1>8 DEF Over
<1>9. CASE \E t \in Imports : CheckLoad(t)
  BY <1>4, <1>9
<1>10. CASE \E t \in Imports : LoadFromGraph(t)
  BY <1>5, <1>10 DEF Over
<1>11. QED
  BY <1>1, <1>7, <1>8, <1>9, <1>10, NextCases

\* An import that is over stays as it is, and so does what it registered.
LEMMA OverStays ==
  ASSUME TypeOK, Next, NEW t \in Imports, task[t].st \in Over
  PROVE  task'[t] = task[t] /\ registered'[t] = registered[t]
BY LoadSteps DEF Over

\* Nothing is registered before an import ends.
LEMMA RegisteredStep == TypeOK /\ RegisteredAtEnd /\ Next => RegisteredAtEnd'
<1> SUFFICES ASSUME TypeOK, RegisteredAtEnd, Next, NEW t \in Imports, task'[t].st \notin Over
             PROVE  registered'[t] = {}
  BY DEF RegisteredAtEnd
<1>1. task[t].st \notin Over
  BY OverStays
<1>2. registered[t] = {}
  BY <1>1 DEF RegisteredAtEnd
<1>3. QED
  BY <1>2, LoadSteps DEF Over

\* The module map in terms of imports.
LEMMA InMap ==
  ASSUME NEW l, NEW m
  PROVE  m \in ModuleMap(l) <=> \E t \in Imports : task[t].loader = l /\ m \in registered[t]
BY DEF ModuleMap

\* A module map only grows.
LEMMA MapGrows ==
  ASSUME KeptInv, Next, NEW l \in Loaders, NEW m \in ModuleMap(l)
  PROVE  m \in ModuleMap(l)'
<1>1. PICK t \in Imports : task[t].loader = l /\ m \in registered[t]
  BY InMap
<1>2. task[t].st \in Over
  BY <1>1 DEF KeptInv, RegisteredAtEnd
<1>3. task'[t].loader = l /\ m \in registered'[t]
  BY <1>1, <1>2, OverStays DEF KeptInv
<1>4. QED
  BY <1>3 DEF ModuleMap

\* What was checked before load was read is readable, or loaded.
LEMMA CheckedStep == KeptInv /\ Permitted /\ Checked /\ Next => Checked'
<1> SUFFICES ASSUME KeptInv, Permitted, Checked, Next, NEW l \in Loaders,
                    NEW u \in Imports, task'[u].st = "loading", task'[u].dyn, task'[u].loader = l,
                    NEW m \in Walk(graph'[l], task'[u].root), scheme'[m] = "file"
             PROVE  m \in task'[u].had \/ m \in ModuleMap(l)'
  BY DEF Checked
<1>0. TypeOK /\ scheme' = scheme
  BY SchemeKept DEF KeptInv
<1>1. CASE task'[u] = task[u]
  <2>1. task[u].st \in Kept
    BY <1>1 DEF Kept
  <2>2. m \in Walk(graph[l], task[u].root)
    BY <1>1, <2>1, WalkStays
  <2>3. m \in task[u].had \/ m \in ModuleMap(l)
    BY <1>0, <1>1, <2>2 DEF Checked
  <2>4. QED
    BY <1>0, <1>1, <2>3, MapGrows
<1>2. CASE task'[u] # task[u]
  <2>1. task[u].st = "prepared" /\ {} \in Refusals(u) /\ graph' = graph
    BY <1>0, <1>2, LoadSteps
  <2>3. /\ task[u].loader = l /\ task'[u].root = task[u].root
        /\ task'[u].dyn = task[u].dyn /\ task'[u].had = task[u].had
    BY <1>0, <2>1, TaskKept
  <2>4. m \in Walk(graph[l], task[u].root) /\ scheme[m] = "file" /\ task[u].dyn
    BY <1>0, <2>1, <2>3
  <2>5. m \in ModuleMap(l) \/ m \in perm[l]
    BY <2>1, <2>3, <2>4 DEF Refusals
  <2>6. perm[l] \subseteq task[u].had
    BY <2>1, <2>3 DEF Permitted
  <2>7. QED
    BY <1>0, <2>3, <2>5, <2>6, MapGrows
<1>3. QED
  BY <1>1, <1>2

\* A file gets into a module map with an import that may read it.
LEMMA FilesStep ==
  KeptInv /\ Permitted /\ FirstAlone /\ Checked /\ FilesReadable /\ Next => FilesReadable'
<1> SUFFICES ASSUME KeptInv, Permitted, FirstAlone, Checked, FilesReadable, Next,
                    NEW l \in Loaders, NEW m, m \in ModuleMap(l)', scheme'[m] = "file"
             PROVE  \E t \in Imports : task'[t].loader = l /\ m \in registered'[t] \cap task'[t].had
  BY DEF FilesReadable
<1>0. TypeOK /\ scheme' = scheme
  BY SchemeKept DEF KeptInv
<1>1. ASSUME m \in ModuleMap(l)
      PROVE  \E t \in Imports : task'[t].loader = l /\ m \in registered'[t] \cap task'[t].had
  <2>1. PICK t \in Imports : task[t].loader = l /\ m \in registered[t] \cap task[t].had
    BY <1>0, <1>1 DEF FilesReadable
  <2>2. task[t].st \in Over
    BY <2>1 DEF KeptInv, RegisteredAtEnd
  <2>3. QED
    BY <1>0, <2>1, <2>2, OverStays
<1>2. PICK u \in Imports : task'[u].loader = l /\ m \in registered'[u]
  BY DEF ModuleMap
<1>3. CASE registered'[u] = registered[u]
  <2>1. task[u].st \in Over
    BY <1>2, <1>3 DEF KeptInv, RegisteredAtEnd
  <2>2. m \in ModuleMap(l)
    BY <1>0, <1>2, <1>3, <2>1, OverStays, InMap
  <2>3. QED
    BY <1>1, <2>2
<1>4. CASE registered'[u] # registered[u]
  <2>1. /\ task[u].st \in {"prepared", "loading"} /\ graph' = graph /\ m \in Reached(u)
        /\ \/ task[u].st = "loading"
           \/ \E refused \in Refusals(u) : m \notin refused
    BY <1>0, <1>2, <1>4, LoadSteps DEF Parts, Reached
  <2>2. task[u].st # "idle" /\ task[u].st # "loaded" /\ task[u].st \in Kept
    BY <2>1 DEF Kept
  <2>3. /\ task[u].loader = l /\ task[u].root \in Modules
        /\ task'[u].dyn = task[u].dyn /\ task'[u].had = task[u].had
    BY <1>0, <1>2, <2>2, TaskKept, LoaderOf
  <2>4. m \in Walk(graph[l], task[u].root) /\ scheme[m] = "file"
    BY <1>0, <2>1, <2>3 DEF Reached
  <2>5. m \in task[u].had \/ m \in ModuleMap(l)
    <3>1. CASE task[u].dyn /\ task[u].st = "loading"
      BY <2>3, <2>4, <3>1 DEF Checked
    <3>2. CASE task[u].dyn /\ task[u].st # "loading"
      <4>1. PICK refused \in Refusals(u) : m \notin refused
        BY <2>1, <3>2
      <4>2. m \in perm[l] \/ m \in ModuleMap(l)
        BY <2>3, <2>4, <3>2, <4>1 DEF Refusals
      <4>3. QED
        BY <2>2, <2>3, <4>2 DEF Permitted
    <3>3. CASE ~task[u].dyn
      <4>1. m \in Modules /\ graph[l][m].st = "ok"
        BY <2>2, <2>3, <2>4, WalkClosed DEF KeptInv, Stays, Valid
      <4>2. graph[l][m].st \in Fetched
        BY <4>1 DEF Fetched, Loaded
      <4>3. QED
        BY <2>2, <2>3, <2>4, <3>3, <4>1, <4>2 DEF FirstAlone
    <3>4. QED
      BY <3>1, <3>2, <3>3
  <2>6. QED
    BY <1>1, <1>2, <2>3, <2>5
<1>5. QED
  BY <1>3, <1>4

-----------------------------------------------------------------------------
(* The theorems. *)

\* The invariant holds at the beginning.
LEMMA LInit == Init => LInv
<1> SUFFICES ASSUME Init PROVE LInv
  OBVIOUS
<1>1. TypeOK
  BY TypeInit
<1>2. \A t \in Imports : task[t].st = "idle"
  BY DEF Init
<1>3. \A l \in Loaders : graph[l] = EmptyGraph /\ cand[l] = EmptyGraph /\ holder[l] = NoImport
                         /\ perm[l] = Grants[l]
  BY DEF Init
<1>4. NoImport \notin Imports
  BY DEF NoImport, Imports
<1>5. OneBuilder
  BY <1>2, <1>3, <1>4 DEF OneBuilder
<1>6. Permitted
  BY <1>2, <1>3 DEF Permitted
<1>7. NodesSound /\ Untouched
  BY <1>3, EmptySound DEF NodesSound, Untouched
<1>8. FirstAlone /\ Stays /\ CandidateKeeps /\ Checked
  BY <1>2 DEF FirstAlone, Stays, CandidateKeeps, Checked, Kept
<1>9. RegisteredAtEnd /\ FilesReadable
  <2>1. \A t \in Imports : registered[t] = {}
    BY DEF Init
  <2>2. QED
    BY <2>1, InMap DEF RegisteredAtEnd, FilesReadable
<1>10. QED
  BY <1>1, <1>5, <1>6, <1>7, <1>8, <1>9 DEF LInv

\* The invariant is inductive: it holds at the beginning and no step ends it.
LEMMA LInvariant == Spec => []LInv
<1>1. ASSUME LInv, [Next]_vars
      PROVE  LInv'
  <2>1. CASE UNCHANGED vars
    <3>1. UNCHANGED <<scheme, mode, lockfile, perm, graph, cand, changed, holder, task,
                      registered>>
      BY <2>1 DEF vars
    <3>2. TypeOK'
      BY <1>1, TypeStep DEF LInv
    <3>3. OneBuilder' /\ Permitted'
      BY <1>1, <3>1 DEF LInv, OneBuilder, Permitted
    <3>4. NodesSound'
      BY <1>1, <3>1 DEF LInv, NodesSound, OfItsSource, Granted, OnRecord
    <3>5. Untouched' /\ FirstAlone'
      BY <1>1, <3>1 DEF LInv, Untouched, FirstAlone
    <3>6. Stays' /\ CandidateKeeps'
      BY <1>1, <3>1 DEF LInv, Stays, Valid, CandidateKeeps
    <3>7. \A l : ModuleMap(l)' = ModuleMap(l)
      BY <3>1 DEF ModuleMap
    <3>8. RegisteredAtEnd' /\ Checked' /\ FilesReadable'
      BY <1>1, <3>1, <3>7 DEF LInv, RegisteredAtEnd, Checked, FilesReadable
    <3>9. QED
      BY <3>2, <3>3, <3>4, <3>5, <3>6, <3>8 DEF LInv
  <2>2. CASE Next
    <3>1. KeptInv
      BY <1>1 DEF LInv, KeptInv
    <3>2. TypeOK' /\ OneBuilder' /\ Permitted' /\ NodesSound' /\ Untouched' /\ FirstAlone'
      BY <1>1, <2>2, TypeStep, BuilderStep, PermittedStep, SoundStep, UntouchedStep, FirstStep
         DEF LInv
    <3>3. Stays' /\ CandidateKeeps'
      BY <2>2, <3>1, StaysStep, CandidateStep
    <3>4. RegisteredAtEnd' /\ Checked' /\ FilesReadable'
      BY <1>1, <2>2, <3>1, RegisteredStep, CheckedStep, FilesStep DEF LInv
    <3>5. QED
      BY <3>2, <3>3, <3>4 DEF LInv
  <2>3. QED
    BY <1>1, <2>1, <2>2
<1>2. QED
  BY LInit, <1>1, PTL DEF Spec

\* Imports of an isolate that interleave at their awaits build one at a time, an
\* analysis is that of the source it is linked for, and what prepare_load
\* accepted is there when load reads it (module_loader.rs 612-687, 743-769,
\* analysis_cache.rs 118-142).
THEOREM GraphsAreSound == Spec => []Inv
<1>1. LInv => Inv
  <2>1. NodesSound => AnalysisMatches
    BY DEF NodesSound, OfItsSource, AnalysisMatches
  <2>2. Stays => PreparedStays
    BY DEF Stays, PreparedStays, Kept
  <2>3. QED
    BY <2>1, <2>2 DEF LInv, Inv
<1>2. QED
  BY <1>1, LInvariant, PTL

\* An isolate holds only what its container and the lockfile admit, and has
\* loaded only files that an import of its own found readable
\* (module_loader.rs 314-350, 612-650, 770-782).
THEOREM OnlyAdmittedHolds == Spec => []OnlyAdmitted
<1>1. LInv => OnlyAdmitted
  <2>1. ASSUME NodesSound
        PROVE  \A l \in Loaders, m \in Modules :
                 graph[l][m].st \in Loaded =>
                   /\ scheme[m] # "npm" => m \in Grants[l]
                   /\ mode = "frozen" /\ scheme[m] = "remote" => lockfile[m] = graph[l][m].ver
    BY <2>1 DEF NodesSound, Granted, OnRecord, Fetched
  <2>2. QED
    BY <2>1 DEF LInv, FilesReadable, OnlyAdmitted
<1>2. QED
  BY <1>1, LInvariant, PTL

=============================================================================
