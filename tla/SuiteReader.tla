----------------------------- MODULE SuiteReader -----------------------------
(* The catalog-backed suite reader (app/suite_bridge.go): an in-process cache *)
(* of suite definitions pulled from OCI registries.                           *)
(*                                                                            *)
(* newCatalogSuiteReader starts warmCache, which lists the packages, pulls    *)
(* them in parallel, and then resolves every cached definition against the    *)
(* cache.  Get runs concurrently: on a miss it pulls, resolves against what   *)
(* the cache holds then, and writes the entry under the lock later.  A pull   *)
(* that fails still yields a definition, without files, that is cached like   *)
(* any other; nothing is ever evicted or resolved again.                      *)
EXTENDS Integers, FiniteSets

CONSTANTS Packages,   \* the suites of the catalog
          ImportsOf,    \* ImportsOf[p]: the suites p depends on, directly or not
          Readers,    \* concurrent calls of Get
          MaxPullFailures

VARIABLES suiteCache, \* definition of each package, or NoDefinition
          warm,       \* warmCache: where it is
          pulling,    \* packages its goroutines still have to store
          snapshot,   \* cachedCatalog as warmCache read it
          get,        \* each Get: where it is, for which package, what it built
          late,       \* history: entries a Get wrote after the warm-up took its snapshot
          pullFailures

suiteVars == <<suiteCache, warm, pulling, snapshot, get, late, pullFailures>>

NoDefinition == "none"
(* a definition is "empty" (without files), "raw" (with files, not resolved), *)
(* "resolved", or "broken" (with a topology error)                            *)
IdleGet == [pc |-> "idle", package |-> "", built |-> NoDefinition]

(* cachedCatalog: the definitions cached now *)
CachedCatalog == [p \in {q \in Packages : suiteCache[q] # NoDefinition} |-> suiteCache[p]]

(* ResolveDefinitionTopology: a suite resolves when it has its files and each *)
(* of its imports is in the catalog with its files                            *)
Resolve(p, definition, catalog) ==
  IF /\ definition # "empty"
     /\ \A q \in ImportsOf[p] : q \in DOMAIN catalog /\ catalog[q] # "empty"
    THEN "resolved" ELSE "broken"

(* a resolved definition stored where the suite has no files stays as empty  *)
(* as it was: the cache keeps what it was built from                              *)
Stored(definition, resolution) == IF definition = "empty" THEN "empty" ELSE resolution

(* pullOCIFiles: the manifest is fetched every time and may be missing; only *)
(* a layer is not fetched twice, being cached by digest                      *)
PullOCIFiles(files) ==
  \/ files = "raw" /\ UNCHANGED pullFailures
  \/ /\ files = "empty" /\ pullFailures < MaxPullFailures
     /\ pullFailures' = pullFailures + 1

(* buildDefinition returns a definition whether or not the pull succeeded    *)
BuildSuite(definition) == definition \in {"raw", "empty"} /\ PullOCIFiles(definition)

-----------------------------------------------------------------------------
ReaderInit ==
  /\ suiteCache = [p \in Packages |-> NoDefinition]
  /\ warm = "list" /\ pulling = {} /\ snapshot = CachedCatalog
  /\ get = [r \in Readers |-> IdleGet] /\ late = {} /\ pullFailures = 0

(* warmCache lists the packages; registries that do not answer are missing   *)
(* from the list, and with no list it gives up                               *)
WarmLists ==
  /\ warm = "list"
  /\ \/ \E listed \in SUBSET Packages : pulling' = listed /\ warm' = "pull"
     \/ warm' = "failed" /\ UNCHANGED pulling
  /\ UNCHANGED <<suiteCache, snapshot, get, late, pullFailures>>

(* one of its goroutines has built its definition and stores it              *)
WarmStores(p) ==
  /\ p \in pulling
  /\ \E d \in {"raw", "empty"} :
       /\ BuildSuite(d)
       /\ suiteCache' = [suiteCache EXCEPT ![p] = d]
  /\ pulling' = pulling \ {p}
  /\ UNCHANGED <<warm, snapshot, get, late>>

(* a mutant: warmCache does not wait for its goroutines *)
WarmDoesNotWait ==
  /\ warm = "pull"
  /\ snapshot' = CachedCatalog
  /\ warm' = "resolve"
  /\ UNCHANGED <<suiteCache, pulling, get, late, pullFailures>>

(* wg.Wait, then cachedCatalog under a read lock of its own *)
WarmSnapshots ==
  /\ warm = "pull" /\ pulling = {}
  /\ snapshot' = CachedCatalog
  /\ warm' = "resolve"
  /\ UNCHANGED <<suiteCache, pulling, get, late, pullFailures>>

(* every definition cached by now is resolved against that snapshot *)
WarmResolves ==
  /\ warm = "resolve"
  /\ suiteCache' = [p \in Packages |->
                 IF suiteCache[p] = NoDefinition THEN NoDefinition
                 ELSE Stored(suiteCache[p], Resolve(p, suiteCache[p], snapshot))]
  /\ warm' = "done"
  /\ UNCHANGED <<pulling, snapshot, get, late, pullFailures>>

-----------------------------------------------------------------------------
(* Get: a cached definition answers at once, without a step; a miss is built *)
GetMiss(r) ==
  /\ get[r].pc = "idle"
  /\ \E p \in Packages :
       /\ suiteCache[p] = NoDefinition
       /\ get' = [get EXCEPT ![r] = [pc |-> "build", package |-> p, built |-> NoDefinition]]
  /\ UNCHANGED <<suiteCache, warm, pulling, snapshot, late, pullFailures>>

GetBuilds(r) ==
  /\ get[r].pc = "build"
  /\ \E d \in {"raw", "empty"} :
       /\ BuildSuite(d)
       /\ get' = [get EXCEPT ![r].pc = "resolve", ![r].built = d]
  /\ UNCHANGED <<suiteCache, warm, pulling, snapshot, late>>

(* resolved against the catalog as it is now, outside the lock of the write *)
GetResolves(r) ==
  /\ get[r].pc = "resolve"
  /\ get' = [get EXCEPT ![r].pc = "store",
                        ![r].built = Stored(@, Resolve(get[r].package, @, CachedCatalog))]
  /\ UNCHANGED <<suiteCache, warm, pulling, snapshot, late, pullFailures>>

GetStores(r) ==
  /\ get[r].pc = "store"
  /\ suiteCache' = [suiteCache EXCEPT ![get[r].package] = get[r].built]
  /\ late' = IF warm \in {"resolve", "done", "failed"} THEN late \cup {get[r].package} ELSE late
  /\ get' = [get EXCEPT ![r] = IdleGet]
  /\ UNCHANGED <<warm, pulling, snapshot, pullFailures>>

ReaderNext ==
  \/ WarmLists \/ WarmSnapshots \/ WarmResolves
  \/ \E p \in Packages : WarmStores(p)
  \/ \E r \in Readers : GetMiss(r) \/ GetBuilds(r) \/ GetResolves(r) \/ GetStores(r)

ReaderSpec == ReaderInit /\ [][ReaderNext]_suiteVars

-----------------------------------------------------------------------------
HasFiles(p) == p \in Packages /\ suiteCache[p] \in {"raw", "resolved", "broken"}

(* Once the warm-up has finished, a suite whose files and whose imports'     *)
(* files were pulled is cached with its topology resolved, whatever Gets ran *)
(* meanwhile, unless its entry was written by a Get after the warm-up had    *)
(* taken its snapshot of the cache.                                          *)
WarmSuitesResolved ==
  warm = "done" =>
    \A p \in Packages \ late :
      (HasFiles(p) /\ \A q \in ImportsOf[p] : HasFiles(q) /\ q \notin late)
        => suiteCache[p] = "resolved"
=============================================================================
