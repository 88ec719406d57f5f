---------------------------- MODULE StoresProofs ----------------------------
(***************************************************************************)
(* Machine-checked proofs about what is kept in front of the stores: the   *)
(* caches of settings, favourites and the catalog (CatalogCache.tla), for  *)
(* any number of requests, saves and lost calls, and the cache of suite    *)
(* definitions (SuiteReader.tla), for any packages, imports and readers;   *)
(* and about what is read when a run is launched: the backend and the      *)
(* names of services (LaunchPlan.tla), for any settings and suite, traffic *)
(* plans (LoadPlan.tla), for any file, and the default profile             *)
(* (Profiles.tla), for any package and any operations.                     *)
(***************************************************************************)
EXTENDS CatalogCache, SuiteReader, Resolution, LoadPlan, Profiles, FiniteSetTheorems, FunctionTheorems,
        WellFoundedInduction, TLAPS

-----------------------------------------------------------------------------
(* The suite reader *)

\* What the warm-up took its snapshot of is still cached, until it is resolved
\* against that snapshot; entries written since are listed in late.
AsInSnapshot(p) ==
    suiteCache[p] = (IF p \in DOMAIN snapshot THEN snapshot[p] ELSE NoDefinition)

AsResolved(p) ==
    suiteCache[p] = (IF p \in DOMAIN snapshot THEN Stored(snapshot[p], Resolve(p, snapshot[p], snapshot))
                     ELSE NoDefinition)

ReaderInv ==
    /\ suiteCache = [p \in Packages |-> suiteCache[p]]
    /\ warm \in {"resolve", "done"} => pulling = {} /\ \A p \in DOMAIN snapshot : snapshot[p] # NoDefinition
    /\ warm = "resolve" => \A p \in Packages \ late : AsInSnapshot(p)
    /\ warm = "done" => \A p \in Packages \ late : AsResolved(p)

\* Every step of the warm-up and of the reads keeps that.
LEMMA ReaderStep == ReaderInv /\ [ReaderNext]_suiteVars => ReaderInv'
<1> SUFFICES ASSUME ReaderInv, [ReaderNext]_suiteVars PROVE ReaderInv'
  OBVIOUS
<1>1. CASE WarmLists
  BY <1>1 DEF WarmLists, ReaderInv
<1>2. ASSUME NEW p \in Packages, WarmStores(p) PROVE ReaderInv'
  BY <1>2 DEF WarmStores, ReaderInv
<1>3. CASE WarmSnapshots
  <2>1. /\ warm' = "resolve" /\ snapshot' = CachedCatalog /\ UNCHANGED <<suiteCache, pulling, late>> /\ pulling = {}
    BY <1>3 DEF WarmSnapshots
  <2>2. /\ DOMAIN snapshot' = {q \in Packages : suiteCache[q] # NoDefinition}
        /\ \A p \in DOMAIN snapshot' : snapshot'[p] = suiteCache[p]
    BY <2>1 DEF CachedCatalog
  <2>3. QED
    BY <2>1, <2>2 DEF ReaderInv, AsInSnapshot
<1>4. CASE WarmResolves
  <2>1. /\ warm = "resolve" /\ warm' = "done" /\ UNCHANGED <<pulling, snapshot, late>>
        /\ suiteCache' = [p \in Packages |->
                 IF suiteCache[p] = NoDefinition THEN NoDefinition
                 ELSE Stored(suiteCache[p], Resolve(p, suiteCache[p], snapshot))]
    BY <1>4 DEF WarmResolves
  <2>2. ASSUME NEW p \in Packages \ late PROVE AsResolved(p)'
    BY <2>1 DEF ReaderInv, AsInSnapshot, AsResolved
  <2>3. QED
    BY <2>1, <2>2 DEF ReaderInv
<1>5. ASSUME NEW r \in Readers, GetMiss(r) \/ GetBuilds(r) \/ GetResolves(r) PROVE ReaderInv'
  BY <1>5 DEF GetMiss, GetBuilds, GetResolves, ReaderInv, AsInSnapshot, AsResolved
<1>6. ASSUME NEW r \in Readers, GetStores(r) PROVE ReaderInv'
  BY <1>6 DEF GetStores, ReaderInv, AsInSnapshot, AsResolved
<1>7. CASE UNCHANGED suiteVars
  BY <1>7 DEF suiteVars, ReaderInv, AsInSnapshot, AsResolved
<1>8. QED
  BY <1>1, <1>2, <1>3, <1>4, <1>5, <1>6, <1>7 DEF ReaderNext

\* After the warm-up, a suite whose files and whose imports' files were pulled is
\* cached with its topology resolved, whatever reads ran meanwhile, unless one of
\* them wrote an entry after the snapshot (WarmSuitesResolved): for any catalog,
\* any imports and any number of readers.
THEOREM WarmUpResolves == ReaderSpec => []WarmSuitesResolved
<1>1. ReaderInit => ReaderInv
  BY DEF ReaderInit, ReaderInv
<1>2. ReaderInv => WarmSuitesResolved
  <2> SUFFICES ASSUME ReaderInv, warm = "done", NEW p \in Packages \ late, HasFiles(p),
                      \A q \in ImportsOf[p] : HasFiles(q) /\ q \notin late
               PROVE  suiteCache[p] = "resolved"
    BY DEF WarmSuitesResolved
  <2>1. ASSUME NEW q \in Packages \ late, HasFiles(q) PROVE q \in DOMAIN snapshot /\ snapshot[q] # "empty"
    BY <2>1 DEF ReaderInv, AsResolved, HasFiles, NoDefinition, Stored
  <2>2. \A q \in ImportsOf[p] : q \in DOMAIN snapshot /\ snapshot[q] # "empty"
    BY <2>1 DEF HasFiles
  <2>3. QED
    BY <2>1, <2>2 DEF ReaderInv, AsResolved, Resolve, Stored
<1>3. QED
  BY <1>1, <1>2, ReaderStep, PTL DEF ReaderSpec

-----------------------------------------------------------------------------
(* The caches *)

ListingPlaces == {"stamp", "find", "lookup for listing", "base for listing", "fill for listing", "list"}
SavingPlaces  == {"reload", "refresh", "bump"}
CachePlaces   == {"idle", "lookup", "base", "fill", "write", "remove"} \cup ListingPlaces \cup SavingPlaces
CacheRequests == [pc : CachePlaces, kind : CacheKinds, stamp : Nat, value : Int]

CacheTyped ==
    /\ stored \in [CacheKinds -> Nat] /\ entry \in [CacheKinds -> Int] /\ stamp \in Nat
    /\ listing \in [Stamps -> Int] /\ user \in [Users -> CacheRequests]

\* The catalog is made of settings, and its key was read from the scope before;
\* only settings are reloaded and bump the scope, only favourites are removed.
RequestKind(q) ==
    /\ q.pc \in ListingPlaces \cup SavingPlaces => q.kind = "settings"
    /\ q.pc = "remove" => q.kind = "favorites"
    /\ q.stamp <= stamp

\* A save that has written the store and not touched the entry yet.
Unwritten(q, k) == q.kind = k /\ q.pc \in {"reload", "refresh", "remove"}
Writing(k) == \E u \in Users : Unwritten(user[u], k)

\* An entry is the stored value from the moment a save has touched it: what
\* is filled in later with another value is excused then.
EntriesFollow == \A k \in CacheKinds : ~Writing(k) /\ k \notin excused => entry[k] \in {NoEntry, stored[k]}

\* What is about to be listed under the current stamp.
ListsCurrent(q) == q.pc \in {"fill for listing", "list"} /\ q.stamp = stamp => q.value = stored["settings"]

\* A save moves the stamp on to where nothing is listed, last.
NothingAhead == \A s \in Stamps : s > stamp => listing[s] = NoEntry
Bumping == \E u \in Users : user[u].pc \in SavingPlaces
ListingsFollow ==
    ~Bumping /\ "catalog" \notin excused =>
        listing[stamp] \in {NoEntry, stored["settings"]} /\ \A u \in Users : ListsCurrent(user[u])

\* Every bump has its save and the saves are bounded, so that there is a listing
\* for every stamp.
Savers == {u \in Users : user[u].pc \in SavingPlaces}
Writers == {u \in Users : user[u].pc = "write"}
SavesCounted ==
    /\ stamp + Cardinality(Savers) <= stored["settings"]
    /\ stored["settings"] + stored["favorites"] + Cardinality(Writers) <= MaxWrites

CacheInv ==
    /\ CacheTyped /\ \A u \in Users : RequestKind(user[u])
    /\ EntriesFollow /\ NothingAhead /\ ListingsFollow /\ SavesCounted

-----------------------------------------------------------------------------
(* Requests change one at a time *)

\* How many of the requests are at one of some places.
LEMMA PlacesCounted ==
    ASSUME CacheTyped, NEW places, NEW u \in Users, NEW new \in CacheRequests, user' = [user EXCEPT ![u] = new]
    PROVE  LET before == Cardinality({v \in Users : user[v].pc \in places})
               after  == Cardinality({v \in Users : user'[v].pc \in places})
           IN  /\ before \in Nat /\ after \in Nat
               /\ new.pc \in places /\ user[u].pc \notin places => after = before + 1
               /\ new.pc \notin places /\ user[u].pc \in places => after = before - 1
               /\ (new.pc \in places <=> user[u].pc \in places) => after = before
<1> DEFINE S == {v \in Users : user[v].pc \in places}
           T == {v \in Users : user'[v].pc \in places}
<1>1. IsFiniteSet(S) /\ IsFiniteSet(T) /\ Cardinality(S) \in Nat /\ Cardinality(T) \in Nat
  <2>1. S \subseteq Users /\ T \subseteq Users /\ IsFiniteSet(Users)
    BY CacheAssumption
  <2>2. QED
    BY <2>1, FS_Subset, FS_CardinalityType
<1>2. user'[u] = new /\ \A v \in Users \ {u} : user'[v] = user[v]
  BY DEF CacheTyped
<1>3. ASSUME new.pc \in places, user[u].pc \notin places PROVE Cardinality(T) = Cardinality(S) + 1
  <2>1. T = S \cup {u} /\ u \notin S
    BY <1>2, <1>3
  <2>2. QED
    BY <1>1, <2>1, FS_AddElement
<1>4. ASSUME new.pc \notin places, user[u].pc \in places PROVE Cardinality(T) = Cardinality(S) - 1
  <2>1. T = S \ {u} /\ u \in S
    BY <1>2, <1>4
  <2>2. QED
    BY <1>1, <2>1, FS_RemoveElement
<1>5. ASSUME new.pc \in places <=> user[u].pc \in places PROVE T = S
  BY <1>2, <1>5
<1>6. QED
  BY <1>1, <1>3, <1>4, <1>5

\* Only the changed request changes.
LEMMA UserChanged ==
    ASSUME CacheInv, NEW u \in Users, NEW new \in CacheRequests, user' = [user EXCEPT ![u] = new]
    PROVE  /\ user' \in [Users -> CacheRequests] /\ user'[u] = new
           /\ \A v \in Users \ {u} : user'[v] = user[v]
BY DEF CacheInv, CacheTyped

\* A request that leaves store and entry alone, and has not touched the entry if
\* it had to, leaves them as they should be.
LEMMA EntriesKept ==
    ASSUME CacheInv, NEW u \in Users, NEW new \in CacheRequests, user' = [user EXCEPT ![u] = new],
           UNCHANGED <<stored, entry>>,
           \A k \in CacheKinds : k \in excused => k \in excused',
           \A k \in CacheKinds : Unwritten(user[u], k) => Unwritten(new, k)
    PROVE  EntriesFollow'
<1>1. \A k \in CacheKinds : Writing(k) => Writing(k)'
  BY UserChanged DEF Writing, Unwritten
<1>2. QED
  BY <1>1 DEF CacheInv, EntriesFollow

\* A request that is not saving settings moves on.
LEMMA CacheMoves ==
    ASSUME CacheInv, NEW u \in Users, NEW new \in CacheRequests, user' = [user EXCEPT ![u] = new],
           UNCHANGED <<stored, stamp>>,
           entry' \in [CacheKinds -> Int], listing' \in [Stamps -> Int],
           EntriesFollow', NothingAhead',
           user[u].pc \notin {"write"} \cup SavingPlaces, new.pc \notin {"write"} \cup SavingPlaces,
           "catalog" \in excused => "catalog" \in excused',
           RequestKind(new),
           ~Bumping /\ "catalog" \notin excused' =>
               ListsCurrent(new) /\ listing'[stamp] \in {NoEntry, stored["settings"]}
    PROVE  CacheInv'
<1>1. CacheTyped /\ (\A v \in Users : RequestKind(user[v])) /\ ListingsFollow /\ SavesCounted
  BY DEF CacheInv
<1>2. user' \in [Users -> CacheRequests] /\ user'[u] = new /\ \A v \in Users \ {u} : user'[v] = user[v]
  BY UserChanged
<1>3. CacheTyped'
  BY <1>1, <1>2 DEF CacheTyped
<1>4. \A v \in Users : RequestKind(user[v])'
  BY <1>1, <1>2 DEF RequestKind
<1>5. /\ \A v \in Users : user'[v].pc \in SavingPlaces <=> user[v].pc \in SavingPlaces
      /\ \A v \in Users : user'[v].pc = "write" <=> user[v].pc = "write"
  BY <1>2 DEF SavingPlaces
<1>6. ListingsFollow'
  <2> SUFFICES ASSUME ~Bumping', "catalog" \notin excused'
               PROVE  /\ listing'[stamp] \in {NoEntry, stored["settings"]}
                      /\ \A v \in Users : ListsCurrent(user[v])'
    BY DEF ListingsFollow
  <2>1. ~Bumping /\ "catalog" \notin excused
    BY <1>5 DEF Bumping
  <2>2. \A v \in Users \ {u} : ListsCurrent(user[v])
    BY <1>1, <2>1 DEF ListingsFollow
  <2>3. QED
    BY <1>2, <2>1, <2>2 DEF ListsCurrent
<1>7. Savers' = Savers /\ Writers' = Writers
  BY <1>5 DEF Savers, Writers
<1> QED
  BY <1>1, <1>3, <1>4, <1>6, <1>7 DEF CacheInv, SavesCounted

\* Nothing but the request changes, and what is excused can only be the catalog.
LEMMA CacheReads ==
    ASSUME CacheInv, NEW u \in Users, NEW new \in CacheRequests, user' = [user EXCEPT ![u] = new],
           UNCHANGED <<stored, entry, stamp, listing>>,
           excused' \in {excused, excused \cup {"catalog"}},
           user[u].pc \notin {"write", "remove"} \cup SavingPlaces, new.pc \notin {"write"} \cup SavingPlaces,
           RequestKind(new),
           ~Bumping /\ "catalog" \notin excused' => ListsCurrent(new)
    PROVE  CacheInv'
<1>1. /\ entry' \in [CacheKinds -> Int] /\ listing' \in [Stamps -> Int] /\ NothingAhead'
      /\ "catalog" \notin excused' /\ ~Bumping => listing'[stamp] \in {NoEntry, stored["settings"]}
  BY DEF CacheInv, CacheTyped, NothingAhead, ListingsFollow
<1>2. EntriesFollow'
  BY EntriesKept DEF Unwritten, SavingPlaces
<1>3. QED
  BY <1>1, <1>2, CacheMoves

-----------------------------------------------------------------------------
(* The steps of a read *)

LEMMA IdleRequest ==
    /\ NoRequest \in CacheRequests /\ NoRequest.pc = "idle" /\ NoRequest.stamp = 0
    /\ stamp \in Nat => RequestKind(NoRequest) /\ ListsCurrent(NoRequest)
<1>1. NoRequest \in CacheRequests /\ NoRequest.pc = "idle" /\ NoRequest.stamp = 0
  BY DEF NoRequest, CacheRequests, CachePlaces, CacheKinds, NoEntry
<1>2. QED
  BY <1>1 DEF RequestKind, ListsCurrent, ListingPlaces, SavingPlaces

\* A request goes to pc with a value, or is over.
MovesTo(u, pc, value, new) ==
    /\ user' = [user EXCEPT ![u] = new] /\ new.pc = pc
    /\ pc # "idle" => new.kind = user[u].kind /\ new.stamp = user[u].stamp /\ new.value = value
    /\ pc = "idle" => new = NoRequest

LEMMA RequestMoves ==
    ASSUME CacheInv, NEW u \in Users, NEW pc \in CachePlaces, NEW value \in Int, Take(u, pc, value)
    PROVE  \E new \in CacheRequests : MovesTo(u, pc, value, new)
<1>1. user[u] \in CacheRequests
  BY DEF CacheInv, CacheTyped
<1>2. PICK then : then = [user[u] EXCEPT !.pc = pc, !.value = value]
  OBVIOUS
<1>3. /\ then \in CacheRequests /\ then.pc = pc /\ then.value = value
      /\ then.kind = user[u].kind /\ then.stamp = user[u].stamp
  BY <1>1, <1>2 DEF CacheRequests
<1>4. user' = [user EXCEPT ![u] = IF then.pc = "idle" THEN NoRequest ELSE then]
  BY <1>2 DEF Take, UserAt
<1>5. QED
  BY <1>3, <1>4, IdleRequest DEF MovesTo

LEMMA RequestSteps ==
    ASSUME CacheInv, NEW u \in Users, NEW pc \in CachePlaces, UserStep(u, pc)
    PROVE  \E new \in CacheRequests : MovesTo(u, pc, user[u].value, new)
<1>1. user[u] \in CacheRequests
  BY DEF CacheInv, CacheTyped
<1>2. PICK then : then = [user[u] EXCEPT !.pc = pc]
  OBVIOUS
<1>3. /\ then \in CacheRequests /\ then.pc = pc /\ then.value = user[u].value
      /\ then.kind = user[u].kind /\ then.stamp = user[u].stamp
  BY <1>1, <1>2 DEF CacheRequests
<1>4. user' = [user EXCEPT ![u] = IF then.pc = "idle" THEN NoRequest ELSE then]
  BY <1>2 DEF UserStep, UserAt
<1>5. QED
  BY <1>3, <1>4, IdleRequest DEF MovesTo

\* There is a listing for the current stamp.
LEMMA StampListed == CacheInv => stamp \in Stamps
<1> SUFFICES ASSUME CacheInv PROVE stamp \in Stamps
  OBVIOUS
<1>1. stamp \in Nat /\ stored["settings"] \in Nat /\ stored["favorites"] \in Nat
  BY DEF CacheInv, CacheTyped, CacheKinds
<1>2. Cardinality(Savers) \in Nat /\ Cardinality(Writers) \in Nat
  <2>1. Savers \subseteq Users /\ Writers \subseteq Users
    BY DEF Savers, Writers
  <2>2. QED
    BY <2>1, CacheAssumption, FS_Subset, FS_CardinalityType
<1>3. QED
  BY <1>1, <1>2, CacheAssumption DEF CacheInv, SavesCounted, Stamps

\* What is known of a request and of what it reads.
LEMMA CacheFacts ==
    ASSUME CacheInv, NEW u \in Users
    PROVE  /\ user[u].pc \in CachePlaces /\ user[u].kind \in CacheKinds /\ user[u].stamp \in Nat
           /\ user[u].value \in Int /\ RequestKind(user[u]) /\ user[u].stamp <= stamp
           /\ stamp \in Nat /\ stored \in [CacheKinds -> Nat] /\ entry \in [CacheKinds -> Int]
           /\ stamp \in Stamps /\ stored["settings"] \in Nat /\ stored["favorites"] \in Nat
<1>1. user[u] \in CacheRequests /\ RequestKind(user[u])
  BY DEF CacheInv, CacheTyped
<1>2. user[u].pc \in CachePlaces /\ user[u].kind \in CacheKinds /\ user[u].stamp \in Nat /\ user[u].value \in Int
  BY <1>1 DEF CacheRequests
<1>3. /\ stamp \in Nat /\ stored \in [CacheKinds -> Nat] /\ entry \in [CacheKinds -> Int]
      /\ stored["settings"] \in Nat /\ stored["favorites"] \in Nat
  BY DEF CacheInv, CacheTyped, CacheKinds
<1>4. QED
  BY <1>1, <1>2, <1>3, StampListed DEF RequestKind

LEMMA CacheStarts == ASSUME CacheInv, NEW u \in Users, Start(u) PROVE CacheInv'
<1>1. user[u].pc = "idle" /\ UNCHANGED <<stored, entry, stamp, listing, excused>>
  BY DEF Start
<1>2. PICK k \in CacheKinds :
          \/ user' = [user EXCEPT ![u] = [NoRequest EXCEPT !.pc = "lookup", !.kind = k]]
          \/ /\ Writes < MaxWrites
             /\ user' = [user EXCEPT ![u] = [NoRequest EXCEPT !.pc = "write", !.kind = k]]
          \/ user' = [user EXCEPT ![u] = [NoRequest EXCEPT !.pc = "stamp"]]
  BY DEF Start
<1>3. PICK new \in CacheRequests :
          /\ user' = [user EXCEPT ![u] = new] /\ new.stamp = 0
          /\ \/ new.pc = "lookup"
             \/ new.pc = "stamp" /\ new.kind = "settings"
             \/ new.pc = "write" /\ Writes < MaxWrites
  <2>0. "lookup" \in CachePlaces /\ "write" \in CachePlaces /\ "stamp" \in CachePlaces /\ NoRequest.kind = "settings"
    BY DEF CachePlaces, ListingPlaces, NoRequest
  <2>1. CASE user' = [user EXCEPT ![u] = [NoRequest EXCEPT !.pc = "lookup", !.kind = k]]
    <3>1. PICK n : n = [NoRequest EXCEPT !.pc = "lookup", !.kind = k]
      OBVIOUS
    <3>2. n \in CacheRequests /\ n.stamp = 0 /\ n.pc = "lookup"
      BY <2>0, <3>1, IdleRequest DEF CacheRequests
    <3>3. QED
      BY <2>1, <3>1, <3>2
  <2>2. CASE Writes < MaxWrites /\ user' = [user EXCEPT ![u] = [NoRequest EXCEPT !.pc = "write", !.kind = k]]
    <3>1. PICK n : n = [NoRequest EXCEPT !.pc = "write", !.kind = k]
      OBVIOUS
    <3>2. n \in CacheRequests /\ n.stamp = 0 /\ n.pc = "write"
      BY <2>0, <3>1, IdleRequest DEF CacheRequests
    <3>3. QED
      BY <2>2, <3>1, <3>2
  <2>3. CASE user' = [user EXCEPT ![u] = [NoRequest EXCEPT !.pc = "stamp"]]
    <3>1. PICK n : n = [NoRequest EXCEPT !.pc = "stamp"]
      OBVIOUS
    <3>2. n \in CacheRequests /\ n.stamp = 0 /\ n.pc = "stamp" /\ n.kind = "settings"
      BY <2>0, <3>1, IdleRequest DEF CacheRequests
    <3>3. QED
      BY <2>3, <3>1, <3>2
  <2>4. QED
    BY <1>2, <2>1, <2>2, <2>3
<1>4. RequestKind(new) /\ ListsCurrent(new)
  <2>1. new.stamp <= stamp
    BY <1>3, CacheFacts
  <2>2. QED
    BY <1>3, <2>1 DEF RequestKind, ListsCurrent, ListingPlaces, SavingPlaces
<1>5. CASE new.pc # "write"
  BY <1>1, <1>3, <1>4, <1>5, CacheReads DEF SavingPlaces
<1>6. CASE new.pc = "write"
  <2>1. CacheTyped /\ (\A v \in Users : RequestKind(user[v])) /\ ListingsFollow /\ SavesCounted /\ NothingAhead
    BY DEF CacheInv
  <2>2. user' \in [Users -> CacheRequests] /\ user'[u] = new /\ \A v \in Users \ {u} : user'[v] = user[v]
    BY <1>3, UserChanged
  <2>3. EntriesFollow'
    BY <1>1, <1>3, EntriesKept DEF Unwritten
  <2>4. Cardinality(Writers') = Cardinality(Writers) + 1 /\ Cardinality(Writers) \in Nat
    <3>1. {v \in Users : user[v].pc \in {"write"}} = Writers /\ {v \in Users : user'[v].pc \in {"write"}} = Writers'
      BY DEF Writers
    <3>2. QED
      BY <1>1, <1>3, <1>6, <2>1, <3>1, PlacesCounted
  <2>5. Savers' = Savers /\ (Bumping' <=> Bumping)
    BY <1>1, <1>6, <2>2 DEF Savers, Bumping, SavingPlaces
  <2>6. Writes = stored["settings"] + stored["favorites"] + Cardinality(Writers)
    BY DEF Writes, Writers
  <2>7. SavesCounted'
    BY <1>1, <1>3, <1>6, <2>1, <2>4, <2>5, <2>6, CacheAssumption, CacheFacts DEF SavesCounted
  <2>8. CacheTyped' /\ NothingAhead' /\ \A v \in Users : RequestKind(user[v])'
    BY <1>1, <1>4, <2>1, <2>2 DEF CacheTyped, NothingAhead, RequestKind
  <2>9. ListingsFollow'
    BY <1>1, <1>4, <2>1, <2>2, <2>5 DEF ListingsFollow, ListsCurrent
  <2>10. QED
    BY <2>3, <2>7, <2>8, <2>9 DEF CacheInv
<1>7. QED
  BY <1>5, <1>6

LEMMA CacheLooks ==
    ASSUME CacheInv, NEW u \in Users, ReadScopeStamp(u) \/ FindListing(u) \/ ReadEntry(u) \/ ReadStore(u)
    PROVE  CacheInv'
<1>1. UNCHANGED <<stored, entry, stamp, listing>> /\ excused' \in {excused, excused \cup {"catalog"}}
  BY DEF ReadScopeStamp, FindListing, ReadEntry, ReadStore, Lost
<1>2. CASE ReadScopeStamp(u)
  <2>1. PICK s \in {0, stamp} : user' = [user EXCEPT ![u].pc = "find", ![u].stamp = s] /\ user[u].pc = "stamp"
    BY <1>2 DEF ReadScopeStamp
  <2>2. PICK new : new = [user[u] EXCEPT !.pc = "find", !.stamp = s]
    OBVIOUS
  <2>3. user[u] \in CacheRequests /\ s \in Nat /\ s <= stamp /\ user \in [Users -> CacheRequests]
    BY CacheFacts DEF CacheInv, CacheTyped
  <2>4. /\ new \in CacheRequests /\ new.pc = "find" /\ new.stamp = s /\ new.kind = user[u].kind
        /\ user' = [user EXCEPT ![u] = new]
    BY <2>1, <2>2, <2>3 DEF CacheRequests, CachePlaces, ListingPlaces
  <2>5. RequestKind(new) /\ ListsCurrent(new)
    BY <2>1, <2>3, <2>4, CacheFacts DEF RequestKind, ListsCurrent, ListingPlaces, SavingPlaces
  <2>6. QED
    BY <1>1, <2>1, <2>4, <2>5, CacheReads DEF SavingPlaces
<1>3. CASE FindListing(u)
  <2>1. PICK pc \in {"idle", "lookup for listing"} : UserStep(u, pc) /\ user[u].pc = "find"
    BY <1>3 DEF FindListing
  <2>2. PICK new \in CacheRequests : MovesTo(u, pc, user[u].value, new)
    BY <2>1, RequestSteps DEF CachePlaces, ListingPlaces
  <2>3. RequestKind(new) /\ ListsCurrent(new)
    BY <2>1, <2>2, CacheFacts, IdleRequest DEF MovesTo, RequestKind, ListsCurrent, ListingPlaces, SavingPlaces
  <2>4. QED
    BY <1>1, <2>1, <2>2, <2>3, CacheReads DEF MovesTo, SavingPlaces
<1>4. CASE ReadEntry(u)
  <2>1. user[u].pc \in {"lookup", "lookup for listing"}
    BY <1>4 DEF ReadEntry
  <2>2. user[u].pc = "lookup for listing" => user[u].kind = "settings"
    BY CacheFacts DEF RequestKind, ListingPlaces
  <2>a. \/ /\ entry[user[u].kind] # NoEntry
           /\ \E pc \in {"idle", "list"} :
                  /\ Take(u, pc, entry[user[u].kind])
                  /\ pc = "list" => user[u].pc = "lookup for listing" /\ ("settings" \in excused => "catalog" \in excused')
        \/ \E pc \in {"base", "base for listing"} :
               UserStep(u, pc) /\ (pc = "base for listing" => user[u].pc = "lookup for listing")
    BY <1>4 DEF ReadEntry
  <2>3. ASSUME NEW pc \in {"idle", "list"}, entry[user[u].kind] # NoEntry, Take(u, pc, entry[user[u].kind]),
               pc = "list" => user[u].pc = "lookup for listing" /\ ("settings" \in excused => "catalog" \in excused')
        PROVE  CacheInv'
    <3>1. /\ Take(u, pc, entry[user[u].kind])
          /\ pc = "list" => user[u].pc = "lookup for listing" /\ ("settings" \in excused => "catalog" \in excused')
      BY <2>3
    <3>2. entry[user[u].kind] \in Int
      BY CacheFacts
    <3>3. PICK new \in CacheRequests : MovesTo(u, pc, entry[user[u].kind], new)
      <4>1. pc \in CachePlaces
        BY DEF CachePlaces, ListingPlaces
      <4>2. PICK v \in Int : v = entry[user[u].kind]
        BY <3>2
      <4>3. Take(u, pc, v)
        BY <3>1, <4>2
      <4>4. QED
        BY <4>1, <4>2, <4>3, RequestMoves
    <3>4. RequestKind(new)
      BY <2>2, <3>1, <3>3, CacheFacts, IdleRequest DEF MovesTo, RequestKind, ListingPlaces, SavingPlaces
    <3>5. ~Bumping /\ "catalog" \notin excused' => ListsCurrent(new)
      <4> SUFFICES ASSUME ~Bumping, "catalog" \notin excused', pc = "list" PROVE ListsCurrent(new)
        BY <3>1, <3>3 DEF MovesTo, ListsCurrent
      <4>1. user[u].kind = "settings" /\ "settings" \notin excused /\ "settings" \in CacheKinds
        BY <2>2, <3>1 DEF CacheKinds
      <4>2. ~Writing("settings")
        <5>1. ASSUME NEW v \in Users, Unwritten(user[v], "settings") PROVE FALSE
          BY <5>1, CacheFacts DEF Unwritten, RequestKind, Bumping, SavingPlaces
        <5>2. QED
          BY <5>1 DEF Writing
      <4>3. entry["settings"] = stored["settings"]
        BY <2>3, <4>1, <4>2 DEF CacheInv, EntriesFollow
      <4>4. QED
        BY <3>3, <4>1, <4>3 DEF MovesTo, ListsCurrent
    <3>6. QED
      BY <1>1, <2>1, <3>1, <3>3, <3>4, <3>5, CacheReads DEF MovesTo, SavingPlaces
  <2>4. ASSUME NEW pc \in {"base", "base for listing"}, UserStep(u, pc),
               pc = "base for listing" => user[u].pc = "lookup for listing"
        PROVE  CacheInv'
    <3>1. UserStep(u, pc) /\ (pc = "base for listing" => user[u].pc = "lookup for listing")
      BY <2>4
    <3>2. PICK new \in CacheRequests : MovesTo(u, pc, user[u].value, new)
      BY <3>1, RequestSteps DEF CachePlaces, ListingPlaces
    <3>3. RequestKind(new) /\ ListsCurrent(new)
      BY <2>2, <3>1, <3>2, CacheFacts DEF MovesTo, RequestKind, ListsCurrent, ListingPlaces, SavingPlaces
    <3>4. QED
      BY <1>1, <2>1, <3>1, <3>2, <3>3, CacheReads DEF MovesTo, SavingPlaces
  <2>5. QED
    BY <2>a, <2>3, <2>4
<1>5. CASE ReadStore(u)
  <2>1. /\ user[u].pc \in {"base", "base for listing"} /\ stored[user[u].kind] \in Int
        /\ user[u].pc = "base for listing" => user[u].kind = "settings"
    <3>1. user[u].kind \in CacheKinds /\ stored \in [CacheKinds -> Nat] /\ RequestKind(user[u])
      BY CacheFacts
    <3>2. stored[user[u].kind] \in Int
      BY <3>1
    <3>3. QED
      BY <1>5, <3>1, <3>2 DEF ReadStore, RequestKind, ListingPlaces
  <2>2. PICK pc \in {"fill", "fill for listing"} :
            Take(u, pc, stored[user[u].kind]) /\ (pc = "fill for listing" => user[u].pc = "base for listing")
    BY <1>5 DEF ReadStore
  <2>3. PICK new \in CacheRequests : MovesTo(u, pc, stored[user[u].kind], new)
    <3>1. pc \in CachePlaces
      BY DEF CachePlaces, ListingPlaces
    <3>2. PICK v \in Int : v = stored[user[u].kind]
      BY <2>1
    <3>3. Take(u, pc, v)
      BY <2>2, <3>2
    <3>4. QED
      BY <3>1, <3>2, <3>3, RequestMoves
  <2>4. RequestKind(new) /\ ListsCurrent(new)
    BY <2>1, <2>2, <2>3, CacheFacts DEF MovesTo, RequestKind, ListsCurrent, ListingPlaces, SavingPlaces
  <2>5. QED
    BY <1>1, <2>1, <2>2, <2>3, <2>4, CacheReads DEF MovesTo, SavingPlaces
<1>6. QED
  BY <1>2, <1>3, <1>4, <1>5


\* What a fill writes is the stored value or is excused, and the reader lists
\* what it has read.
LEMMA CacheFills == ASSUME CacheInv, NEW u \in Users, Fill(u) PROVE CacheInv'
<1>1. /\ user[u].pc \in {"fill", "fill for listing"} /\ UNCHANGED <<stored, stamp, listing>>
      /\ Filled(user[u].kind, user[u].value) \/ UNCHANGED <<entry, excused>>
  BY DEF Fill
<1>2. PICK pc \in {"idle", "list"} : UserStep(u, pc) /\ (pc = "list" => user[u].pc = "fill for listing")
  BY DEF Fill
<1>3. PICK new \in CacheRequests : MovesTo(u, pc, user[u].value, new)
  BY <1>2, RequestSteps DEF CachePlaces, ListingPlaces
<1>4. /\ user[u].kind \in CacheKinds /\ user[u].value \in Int /\ entry \in [CacheKinds -> Int]
      /\ RequestKind(user[u]) /\ stamp \in Nat
  BY CacheFacts
<1>5. /\ entry' \in [CacheKinds -> Int]
      /\ \A k \in CacheKinds : \/ k \notin excused' => entry'[k] = stored[k]
                               \/ entry'[k] = entry[k] /\ (k \in excused' <=> k \in excused)
      /\ "catalog" \in excused' <=> "catalog" \in excused
  <2>1. CASE UNCHANGED <<entry, excused>>
    BY <1>4, <2>1
  <2>2. CASE Filled(user[u].kind, user[u].value)
    <3>1. /\ entry' \in [CacheKinds -> Int] /\ entry'[user[u].kind] = user[u].value
          /\ \A k \in CacheKinds \ {user[u].kind} : entry'[k] = entry[k] /\ (k \in excused' <=> k \in excused)
          /\ user[u].kind \notin excused' => user[u].value = stored[user[u].kind]
          /\ "catalog" \in excused' <=> "catalog" \in excused
      BY <1>4, <2>2 DEF Filled, CacheKinds
    <3>2. QED
      BY <3>1
  <2>3. QED
    BY <1>1, <2>1, <2>2
<1>6. user' \in [Users -> CacheRequests] /\ user'[u] = new /\ \A v \in Users \ {u} : user'[v] = user[v]
  BY <1>3, UserChanged DEF MovesTo
<1>7. EntriesFollow'
  <2>1. \A k \in CacheKinds : Writing(k) => Writing(k)'
    BY <1>1, <1>6 DEF Writing, Unwritten
  <2>2. QED
    BY <1>1, <1>5, <2>1 DEF CacheInv, EntriesFollow
<1>8. RequestKind(new)
  BY <1>2, <1>3, <1>4, IdleRequest DEF MovesTo, RequestKind, ListingPlaces, SavingPlaces
<1>9. listing' \in [Stamps -> Int] /\ NothingAhead'
  BY <1>1 DEF CacheInv, CacheTyped, NothingAhead
<1>10. ASSUME ~Bumping, "catalog" \notin excused'
       PROVE  ListsCurrent(new) /\ listing'[stamp] \in {NoEntry, stored["settings"]}
  <2>1. ListsCurrent(user[u]) /\ listing[stamp] \in {NoEntry, stored["settings"]}
    BY <1>5, <1>10 DEF CacheInv, ListingsFollow
  <2>2. QED
    BY <1>1, <1>2, <1>3, <2>1 DEF MovesTo, ListsCurrent
<1>11. user[u].pc \notin {"write"} \cup SavingPlaces /\ new.pc \notin {"write"} \cup SavingPlaces
  BY <1>1, <1>2, <1>3 DEF MovesTo, SavingPlaces
<1>12. user' = [user EXCEPT ![u] = new]
  BY <1>3 DEF MovesTo
<1>13. QED
  BY <1>1, <1>5, <1>7, <1>8, <1>9, <1>10, <1>11, <1>12, CacheMoves

\* A listing goes under the stamp its reader began with.
LEMMA CacheLists == ASSUME CacheInv, NEW u \in Users, WriteListing(u) PROVE CacheInv'
<1>1. /\ user[u].pc = "list" /\ UNCHANGED <<stored, entry, stamp, excused>> /\ UserStep(u, "idle")
      /\ listing' = [listing EXCEPT ![user[u].stamp] = user[u].value] \/ UNCHANGED listing
  BY DEF WriteListing
<1>2. PICK new \in CacheRequests : MovesTo(u, "idle", user[u].value, new)
  BY <1>1, RequestSteps DEF CachePlaces
<1>3. /\ user[u].stamp \in Nat /\ user[u].stamp <= stamp /\ stamp \in Nat /\ stamp \in Stamps
      /\ user[u].value \in Int /\ listing \in [Stamps -> Int] /\ entry \in [CacheKinds -> Int]
  BY CacheFacts DEF CacheInv, CacheTyped
<1>4. user[u].stamp \in Stamps
  BY <1>3, CacheAssumption DEF Stamps
<1>5. /\ listing' \in [Stamps -> Int] /\ listing'[user[u].stamp] \in {user[u].value, listing[user[u].stamp]}
      /\ \A s \in Stamps : s # user[u].stamp => listing'[s] = listing[s]
  BY <1>1, <1>3, <1>4
<1>6. NothingAhead'
  <2>1. ASSUME NEW s \in Stamps, s > stamp PROVE listing'[s] = NoEntry
    <3>1. s # user[u].stamp
      BY <1>3, <2>1, CacheAssumption DEF Stamps
    <3>2. QED
      BY <1>5, <2>1, <3>1 DEF CacheInv, NothingAhead
  <2>2. QED
    BY <1>1, <2>1 DEF NothingAhead
<1>7. RequestKind(new) /\ ListsCurrent(new) /\ user' = [user EXCEPT ![u] = new] /\ new.pc = "idle"
  BY <1>2, <1>3, IdleRequest DEF MovesTo
<1>8. EntriesFollow'
  BY <1>1, <1>7, EntriesKept DEF Unwritten
<1>9. ASSUME ~Bumping, "catalog" \notin excused PROVE listing'[stamp] \in {NoEntry, stored["settings"]}
  <2>1. ListsCurrent(user[u]) /\ listing[stamp] \in {NoEntry, stored["settings"]}
    BY <1>9 DEF CacheInv, ListingsFollow
  <2>2. QED
    BY <1>1, <1>3, <1>5, <2>1 DEF ListsCurrent
<1>10. user[u].pc \notin {"write"} \cup SavingPlaces /\ new.pc \notin {"write"} \cup SavingPlaces
  BY <1>1, <1>7 DEF SavingPlaces
<1>11. entry' \in [CacheKinds -> Int] /\ ("catalog" \in excused' <=> "catalog" \in excused)
  BY <1>1, <1>3
<1>12. QED
  BY <1>1, <1>5, <1>6, <1>7, <1>8, <1>9, <1>10, <1>11, CacheMoves

-----------------------------------------------------------------------------
(* The steps of a save *)

\* How the numbers of writers and savers follow a request's place.
LEMMA SavesFollowed ==
    ASSUME CacheInv, NEW u \in Users, NEW new \in CacheRequests, user' = [user EXCEPT ![u] = new]
    PROVE  /\ Cardinality(Savers) \in Nat /\ Cardinality(Writers) \in Nat
           /\ new.pc \in SavingPlaces /\ user[u].pc \notin SavingPlaces => Cardinality(Savers') = Cardinality(Savers) + 1
           /\ new.pc \notin SavingPlaces /\ user[u].pc \in SavingPlaces => Cardinality(Savers') = Cardinality(Savers) - 1
           /\ (new.pc \in SavingPlaces <=> user[u].pc \in SavingPlaces) => Cardinality(Savers') = Cardinality(Savers)
           /\ new.pc # "write" /\ user[u].pc = "write" => Cardinality(Writers') = Cardinality(Writers) - 1
           /\ new.pc # "write" /\ user[u].pc # "write" => Cardinality(Writers') = Cardinality(Writers)
<1>1. /\ Savers = {v \in Users : user[v].pc \in SavingPlaces} /\ Savers' = {v \in Users : user'[v].pc \in SavingPlaces}
      /\ Writers = {v \in Users : user[v].pc \in {"write"}} /\ Writers' = {v \in Users : user'[v].pc \in {"write"}}
  BY DEF Savers, Writers
<1>2. CacheTyped
  BY DEF CacheInv
<1>3. /\ Cardinality(Savers) \in Nat
      /\ new.pc \in SavingPlaces /\ user[u].pc \notin SavingPlaces => Cardinality(Savers') = Cardinality(Savers) + 1
      /\ new.pc \notin SavingPlaces /\ user[u].pc \in SavingPlaces => Cardinality(Savers') = Cardinality(Savers) - 1
      /\ (new.pc \in SavingPlaces <=> user[u].pc \in SavingPlaces) => Cardinality(Savers') = Cardinality(Savers)
  BY <1>1, <1>2, PlacesCounted
<1>4. /\ Cardinality(Writers) \in Nat
      /\ new.pc \notin {"write"} /\ user[u].pc \in {"write"} => Cardinality(Writers') = Cardinality(Writers) - 1
      /\ (new.pc \in {"write"} <=> user[u].pc \in {"write"}) => Cardinality(Writers') = Cardinality(Writers)
  BY <1>1, <1>2, PlacesCounted
<1>5. QED
  BY <1>3, <1>4

\* From the write of the store on, the entry is behind until the save touches
\* it and the listings until it bumps the scope.
LEMMA CacheSaves == ASSUME CacheInv, NEW u \in Users, WriteStore(u) \/ SyncRegistry(u) PROVE CacheInv'
<1>1. /\ user[u].pc = "write" /\ UNCHANGED <<entry, stamp, listing, excused>>
      /\ stored' = [stored EXCEPT ![user[u].kind] = @ + 1]
  BY DEF WriteStore, SyncRegistry
<1>4. PICK new \in CacheRequests :
          /\ user' = [user EXCEPT ![u] = new] /\ new.kind = user[u].kind /\ new.stamp = user[u].stamp
          /\ new.pc \in (IF user[u].kind = "settings" THEN {"reload", "refresh"} ELSE {"remove"})
  <2>1. CASE WriteStore(u)
    <3>1. PICK pc \in {"reload", "remove"} :
              UserStep(u, pc) /\ pc = IF user[u].kind = "settings" THEN "reload" ELSE "remove"
      BY <2>1 DEF WriteStore
    <3>2. PICK new \in CacheRequests : MovesTo(u, pc, user[u].value, new)
      BY <3>1, RequestSteps DEF CachePlaces, SavingPlaces
    <3>3. QED
      BY <3>1, <3>2 DEF MovesTo
  <2>2. CASE SyncRegistry(u)
    <3>1. PICK v \in Int : v = stored.settings + 1
      BY CacheFacts
    <3>2. "refresh" \in CachePlaces /\ Take(u, "refresh", v) /\ user[u].kind = "settings"
      BY <2>2, <3>1 DEF SyncRegistry, CachePlaces, SavingPlaces
    <3>3. PICK new \in CacheRequests : MovesTo(u, "refresh", v, new)
      BY <3>2, RequestMoves
    <3>4. QED
      BY <3>2, <3>3 DEF MovesTo
  <2>3. QED
    BY <2>1, <2>2
<1>5. user' \in [Users -> CacheRequests] /\ user'[u] = new /\ \A v \in Users \ {u} : user'[v] = user[v]
  BY <1>4, UserChanged
<1>6. /\ user[u].kind \in CacheKinds /\ stored \in [CacheKinds -> Nat] /\ stamp \in Nat /\ RequestKind(user[u])
      /\ stored["settings"] \in Nat /\ stored["favorites"] \in Nat
      /\ CacheTyped /\ \A v \in Users : RequestKind(user[v])
  BY CacheFacts DEF CacheInv
<1>7. /\ stored' \in [CacheKinds -> Nat] /\ stored'[user[u].kind] = stored[user[u].kind] + 1
      /\ \A k \in CacheKinds \ {user[u].kind} : stored'[k] = stored[k]
  BY <1>1, <1>6
<1>8. CacheTyped' /\ NothingAhead'
  BY <1>1, <1>5, <1>6, <1>7 DEF CacheInv, CacheTyped, NothingAhead
<1>9. \A v \in Users : RequestKind(user[v])'
  <2>1. RequestKind(new)
    BY <1>4, <1>6 DEF RequestKind, CacheKinds, ListingPlaces, SavingPlaces
  <2>2. QED
    BY <1>1, <1>5, <1>6, <2>1 DEF RequestKind
<1>10. EntriesFollow'
  <2>1. \A k \in CacheKinds : k = user[u].kind => Writing(k)'
    BY <1>4, <1>5 DEF Writing, Unwritten
  <2>2. \A k \in CacheKinds : Writing(k) => Writing(k)'
    BY <1>1, <1>5 DEF Writing, Unwritten
  <2>3. QED
    BY <1>1, <1>7, <2>1, <2>2 DEF CacheInv, EntriesFollow
<1>11. ListingsFollow'
  <2>1. CASE user[u].kind = "settings"
    BY <1>4, <1>5, <2>1 DEF ListingsFollow, Bumping, SavingPlaces
  <2>2. CASE user[u].kind # "settings"
    <3>1. stored'["settings"] = stored["settings"]
      BY <1>7, <2>2 DEF CacheKinds
    <3>2. Bumping => Bumping'
      BY <1>1, <1>5 DEF Bumping, SavingPlaces
    <3>3. ListsCurrent(new)'
      BY <1>4 DEF ListsCurrent
    <3>4. QED
      BY <1>1, <1>5, <3>1, <3>2, <3>3 DEF CacheInv, ListingsFollow, ListsCurrent
  <2>3. QED
    BY <2>1, <2>2
<1>12. SavesCounted'
  <2>1. /\ Cardinality(Savers) \in Nat /\ Cardinality(Writers) \in Nat
        /\ Cardinality(Writers') = Cardinality(Writers) - 1
        /\ Cardinality(Savers') = Cardinality(Savers) + (IF user[u].kind = "settings" THEN 1 ELSE 0)
    <3>1. user[u].pc \notin SavingPlaces /\ new.pc # "write" /\ (new.pc \in SavingPlaces <=> user[u].kind = "settings")
      BY <1>1, <1>4 DEF SavingPlaces
    <3>2. /\ Cardinality(Savers) \in Nat /\ Cardinality(Writers) \in Nat
          /\ Cardinality(Writers') = Cardinality(Writers) - 1
          /\ new.pc \in SavingPlaces => Cardinality(Savers') = Cardinality(Savers) + 1
          /\ new.pc \notin SavingPlaces => Cardinality(Savers') = Cardinality(Savers)
      BY <1>1, <1>4, <3>1, SavesFollowed
    <3>3. QED
      BY <3>1, <3>2
  <2>2. /\ stored'["settings"] = stored["settings"] + (IF user[u].kind = "settings" THEN 1 ELSE 0)
        /\ stored'["settings"] + stored'["favorites"] = stored["settings"] + stored["favorites"] + 1
    BY <1>6, <1>7 DEF CacheKinds
  <2>3. stored'["settings"] \in Nat /\ stored'["favorites"] \in Nat
    BY <1>7 DEF CacheKinds
  <2>4. QED
    BY <1>1, <1>6, <2>1, <2>2, <2>3, CacheAssumption DEF CacheInv, SavesCounted
<1>13. QED
  BY <1>8, <1>9, <1>10, <1>11, <1>12 DEF CacheInv

\* A request that fails is over.  What a failed save may have stored is excused.
LEMMA CacheFails == ASSUME CacheInv, NEW u \in Users, StoreFails(u) PROVE CacheInv'
<1>1. /\ user[u].pc \in {"base", "base for listing", "write", "reload"} /\ UNCHANGED <<entry, stamp, listing>>
      /\ \/ user[u].pc # "reload" /\ UNCHANGED <<stored, excused>>
         \/ /\ user[u].pc \in {"write", "reload"}
            /\ stored' = [stored EXCEPT ![user[u].kind] = IF user[u].pc = "write" THEN @ + 1 ELSE @]
            /\ excused' = excused \cup LeftBehind(user[u].kind)
  BY DEF StoreFails
<1>2. PICK new \in CacheRequests : MovesTo(u, "idle", user[u].value, new)
  BY RequestSteps DEF StoreFails, CachePlaces
<1>3. user' = [user EXCEPT ![u] = new] /\ new.pc = "idle" /\ RequestKind(new) /\ ListsCurrent(new)
  BY <1>2, IdleRequest, CacheFacts DEF MovesTo
<1>4. user' \in [Users -> CacheRequests] /\ user'[u] = new /\ \A v \in Users \ {u} : user'[v] = user[v]
  BY <1>3, UserChanged
<1>5. /\ user[u].kind \in CacheKinds /\ stored \in [CacheKinds -> Nat] /\ stamp \in Nat /\ RequestKind(user[u])
      /\ stored["settings"] \in Nat /\ stored["favorites"] \in Nat
      /\ CacheTyped /\ \A v \in Users : RequestKind(user[v])
  BY CacheFacts DEF CacheInv
<1>6. CASE user[u].pc \in {"base", "base for listing"}
  BY <1>1, <1>3, <1>6, CacheReads DEF SavingPlaces
<1>7. CASE user[u].pc \in {"write", "reload"}
  <2>1. /\ stored' \in [CacheKinds -> Nat]
        /\ \A k \in CacheKinds : stored'[k] \in {stored[k], stored[k] + 1}
        /\ \A k \in CacheKinds : stored'[k] # stored[k] => k = user[u].kind /\ k \in excused' /\ user[u].pc = "write"
        /\ \A k \in CacheKinds : k \in excused => k \in excused'
        /\ "catalog" \in excused => "catalog" \in excused'
        /\ stored'["settings"] # stored["settings"] => "catalog" \in excused'
        /\ user[u].pc = "reload" => "settings" \in excused' /\ "catalog" \in excused' /\ user[u].kind = "settings"
    <3>1. user[u].pc = "reload" => user[u].kind = "settings"
      BY <1>5 DEF RequestKind, SavingPlaces
    <3>2. CASE user[u].pc # "reload" /\ UNCHANGED <<stored, excused>>
      BY <1>5, <3>2
    <3>3. CASE /\ stored' = [stored EXCEPT ![user[u].kind] = IF user[u].pc = "write" THEN @ + 1 ELSE @]
               /\ excused' = excused \cup LeftBehind(user[u].kind)
      <4>1. /\ stored' \in [CacheKinds -> Nat] /\ \A k \in CacheKinds \ {user[u].kind} : stored'[k] = stored[k]
            /\ stored'[user[u].kind] = IF user[u].pc = "write" THEN stored[user[u].kind] + 1 ELSE stored[user[u].kind]
        BY <1>5, <3>3
      <4>2. user[u].kind \in excused' /\ (user[u].kind = "settings" => "catalog" \in excused') /\ excused \subseteq excused'
        BY <3>3 DEF LeftBehind
      <4>3. "settings" \in CacheKinds
        BY DEF CacheKinds
      <4>4. QED
        BY <1>7, <3>1, <4>1, <4>2, <4>3
    <3>4. QED
      BY <1>1, <3>2, <3>3
  <2>2. CacheTyped' /\ NothingAhead' /\ \A v \in Users : RequestKind(user[v])'
    BY <1>1, <1>3, <1>4, <1>5, <2>1 DEF CacheInv, CacheTyped, NothingAhead, RequestKind
  <2>3. EntriesFollow'
    <3>1. \A k \in CacheKinds : k \notin excused' /\ Writing(k) => Writing(k)'
      BY <1>4, <1>7, <2>1 DEF Writing, Unwritten
    <3>2. QED
      BY <1>1, <2>1, <3>1 DEF CacheInv, EntriesFollow
  <2>4. ListingsFollow'
    <3> SUFFICES ASSUME "catalog" \notin excused', ~Bumping' PROVE ListingsFollow'
      BY DEF ListingsFollow
    <3>1. user[u].pc = "write" /\ stored'["settings"] = stored["settings"] /\ "catalog" \notin excused
      BY <1>7, <2>1
    <3>2. ~Bumping
      BY <1>4, <3>1 DEF Bumping, SavingPlaces
    <3>3. listing[stamp] \in {NoEntry, stored["settings"]} /\ \A v \in Users : ListsCurrent(user[v])
      BY <3>1, <3>2 DEF CacheInv, ListingsFollow
    <3>4. \A v \in Users : ListsCurrent(user[v])'
      BY <1>1, <1>3, <1>4, <3>1, <3>3 DEF ListsCurrent
    <3>5. QED
      BY <1>1, <3>1, <3>3, <3>4 DEF ListingsFollow
  <2>5. SavesCounted'
    <3>1. new.pc # "write" /\ new.pc \notin SavingPlaces /\ (user[u].pc = "write" <=> user[u].pc \notin SavingPlaces)
      BY <1>3, <1>7 DEF SavingPlaces
    <3>2. /\ Cardinality(Savers) \in Nat /\ Cardinality(Writers) \in Nat
          /\ user[u].pc = "write" => Cardinality(Writers') = Cardinality(Writers) - 1 /\ Cardinality(Savers') = Cardinality(Savers)
          /\ user[u].pc # "write" => Cardinality(Writers') = Cardinality(Writers) /\ Cardinality(Savers') = Cardinality(Savers) - 1
      BY <1>3, <3>1, SavesFollowed
    <3>3. /\ stored'["settings"] \in {stored["settings"], stored["settings"] + 1}
          /\ stored'["favorites"] \in {stored["favorites"], stored["favorites"] + 1}
          /\ stored'["settings"] = stored["settings"] \/ stored'["favorites"] = stored["favorites"]
          /\ user[u].pc # "write" => stored'["settings"] = stored["settings"] /\ stored'["favorites"] = stored["favorites"]
      BY <2>1 DEF CacheKinds
    <3>4. /\ stamp + Cardinality(Savers) <= stored["settings"]
          /\ stored["settings"] + stored["favorites"] + Cardinality(Writers) <= MaxWrites
      BY DEF CacheInv, SavesCounted
    <3>5. CASE user[u].pc = "write"
      <4>1. stamp + Cardinality(Savers') <= stored'["settings"]
        BY <1>5, <3>2, <3>3, <3>4, <3>5
      <4>2. stored'["settings"] + stored'["favorites"] <= stored["settings"] + stored["favorites"] + 1
        BY <1>5, <3>3
      <4>3. stored'["settings"] + stored'["favorites"] + Cardinality(Writers') <= MaxWrites
        <5>1. stored'["settings"] \in Nat /\ stored'["favorites"] \in Nat /\ Cardinality(Writers') = Cardinality(Writers) - 1
          BY <1>5, <3>2, <3>3, <3>5
        <5>2. QED
          BY <1>5, <3>2, <3>4, <4>2, <5>1, CacheAssumption
      <4>4. QED
        BY <1>1, <4>1, <4>3 DEF SavesCounted
    <3>6. CASE user[u].pc # "write"
      <4>1. /\ stored'["settings"] = stored["settings"] /\ stored'["favorites"] = stored["favorites"] /\ stamp' = stamp
            /\ Cardinality(Writers') = Cardinality(Writers) /\ Cardinality(Savers') = Cardinality(Savers) - 1
        BY <1>1, <3>2, <3>3, <3>6
      <4>2. stamp + (Cardinality(Savers) - 1) <= stored["settings"]
        BY <1>5, <3>2, <3>4
      <4>3. QED
        BY <3>4, <4>1, <4>2 DEF SavesCounted
    <3>7. QED
      BY <3>5, <3>6
  <2>6. QED
    BY <2>2, <2>3, <2>4, <2>5 DEF CacheInv
<1>8. QED
  BY <1>1, <1>6, <1>7

\* A save of settings goes on: its bump is still to come.
LEMMA SaveContinues ==
    ASSUME CacheInv, NEW u \in Users, NEW new \in CacheRequests, user' = [user EXCEPT ![u] = new],
           UNCHANGED <<stored, stamp, listing>>, entry' \in [CacheKinds -> Int], EntriesFollow',
           user[u].pc \in SavingPlaces, new.pc \in SavingPlaces, RequestKind(new)
    PROVE  CacheInv'
<1>1. user' \in [Users -> CacheRequests] /\ user'[u] = new /\ \A v \in Users \ {u} : user'[v] = user[v]
  BY UserChanged
<1>2. CacheTyped' /\ NothingAhead'
  BY <1>1 DEF CacheInv, CacheTyped, NothingAhead
<1>3. \A v \in Users : RequestKind(user[v])'
  BY <1>1 DEF CacheInv, RequestKind
<1>4. ListingsFollow'
  BY <1>1 DEF ListingsFollow, Bumping
<1>5. user[u].pc # "write" /\ new.pc # "write"
  BY DEF SavingPlaces
<1>6. Cardinality(Savers') = Cardinality(Savers) /\ Cardinality(Writers') = Cardinality(Writers)
  BY <1>5, SavesFollowed
<1>7. SavesCounted'
  BY <1>6 DEF CacheInv, SavesCounted
<1>8. QED
  BY <1>2, <1>3, <1>4, <1>7 DEF CacheInv

LEMMA CacheRefreshes == ASSUME CacheInv, NEW u \in Users, Reload(u) \/ WriteEntry(u) PROVE CacheInv'
<1>1. CASE Reload(u)
  <2>1. user[u].pc = "reload" /\ UNCHANGED <<stored, entry, stamp, listing, excused>> /\ Take(u, "refresh", stored.settings)
    BY <1>1 DEF Reload
  <2>2. PICK v \in Int : v = stored.settings
    BY CacheFacts
  <2>3. "refresh" \in CachePlaces /\ Take(u, "refresh", v)
    BY <2>1, <2>2 DEF CachePlaces, SavingPlaces
  <2>4. PICK new \in CacheRequests : MovesTo(u, "refresh", v, new)
    BY <2>3, RequestMoves
  <2>5. user' = [user EXCEPT ![u] = new] /\ new.pc = "refresh" /\ new.kind = user[u].kind /\ new.stamp = user[u].stamp
    BY <2>4 DEF MovesTo
  <2>6. user[u].pc \in SavingPlaces /\ new.pc \in SavingPlaces /\ RequestKind(new)
    BY <2>1, <2>5, CacheFacts DEF RequestKind, SavingPlaces
  <2>7. EntriesFollow'
    BY <2>1, <2>5, EntriesKept DEF Unwritten
  <2>8. entry' \in [CacheKinds -> Int]
    BY <2>1, CacheFacts
  <2>9. QED
    BY <2>1, <2>5, <2>6, <2>7, <2>8, SaveContinues
<1>2. CASE WriteEntry(u)
  <2>1. /\ user[u].pc = "refresh" /\ UNCHANGED <<stored, stamp, listing>> /\ UserStep(u, "bump")
        /\ Filled("settings", user[u].value) \/ (Lost("settings") /\ UNCHANGED entry)
    BY <1>2 DEF WriteEntry
  <2>2. PICK new \in CacheRequests : MovesTo(u, "bump", user[u].value, new)
    BY <2>1, RequestSteps DEF CachePlaces, SavingPlaces
  <2>3. user' = [user EXCEPT ![u] = new] /\ new.pc = "bump" /\ new.kind = user[u].kind /\ new.stamp = user[u].stamp
    BY <2>2 DEF MovesTo
  <2>4. user[u].pc \in SavingPlaces /\ new.pc \in SavingPlaces /\ RequestKind(new) /\ user[u].kind = "settings"
    BY <2>1, <2>3, CacheFacts DEF RequestKind, SavingPlaces
  <2>5. user[u].value \in Int /\ entry \in [CacheKinds -> Int]
    BY CacheFacts
  <2>6. /\ entry' \in [CacheKinds -> Int]
        /\ entry'["favorites"] = entry["favorites"] /\ ("favorites" \in excused' <=> "favorites" \in excused)
        /\ "settings" \notin excused' => entry'["settings"] = stored["settings"]
    BY <2>1, <2>5 DEF Filled, Lost, CacheKinds
  <2>7. user' \in [Users -> CacheRequests] /\ user'[u] = new /\ \A v \in Users \ {u} : user'[v] = user[v]
    BY <2>3, UserChanged
  <2>8. Writing("favorites") => Writing("favorites")'
    BY <2>4, <2>7 DEF Writing, Unwritten
  <2>9. EntriesFollow'
    BY <2>1, <2>6, <2>8 DEF CacheInv, EntriesFollow, CacheKinds
  <2>10. QED
    BY <2>1, <2>3, <2>4, <2>6, <2>9, SaveContinues
<1>3. QED
  BY <1>1, <1>2

\* The bump moves the scope to a stamp nobody has read and nothing is listed under.
LEMMA CacheBumps == ASSUME CacheInv, NEW u \in Users, BumpScope(u) PROVE CacheInv'
<1>1. /\ user[u].pc = "bump" /\ UNCHANGED <<stored, entry, listing>> /\ UserStep(u, "idle")
      /\ (stamp' = stamp + 1 /\ excused' = excused) \/ (stamp' = stamp /\ excused' = excused \cup {"catalog"})
  BY DEF BumpScope, Lost
<1>2. PICK new \in CacheRequests : MovesTo(u, "idle", user[u].value, new)
  BY <1>1, RequestSteps DEF CachePlaces
<1>3. user' = [user EXCEPT ![u] = new] /\ new.pc = "idle" /\ new.stamp = 0
  BY <1>2, IdleRequest DEF MovesTo
<1>4. user' \in [Users -> CacheRequests] /\ user'[u] = new /\ \A v \in Users \ {u} : user'[v] = user[v]
  BY <1>3, UserChanged
<1>5. /\ stamp \in Nat /\ stamp' \in Nat /\ stamp <= stamp' /\ stored["settings"] \in Nat /\ stored["favorites"] \in Nat
      /\ CacheTyped /\ \A v \in Users : RequestKind(user[v]) /\ user[v].stamp \in Nat
  <2>1. stamp \in Nat /\ stored["settings"] \in Nat /\ stored["favorites"] \in Nat
    BY CacheFacts
  <2>2. \A v \in Users : RequestKind(user[v]) /\ user[v].stamp \in Nat
    BY CacheFacts
  <2>3. QED
    BY <1>1, <2>1, <2>2 DEF CacheInv
<1>6. /\ Cardinality(Savers) \in Nat /\ Cardinality(Writers) \in Nat /\ Cardinality(Savers') \in Nat
      /\ Cardinality(Savers') = Cardinality(Savers) - 1 /\ Cardinality(Writers') = Cardinality(Writers)
  <2>1. user[u].pc \in SavingPlaces /\ new.pc \notin SavingPlaces /\ user[u].pc # "write" /\ new.pc # "write"
    BY <1>1, <1>3 DEF SavingPlaces
  <2>2. Savers' \subseteq Users
    BY DEF Savers
  <2>3. Cardinality(Savers') \in Nat
    BY <2>2, CacheAssumption, FS_Subset, FS_CardinalityType
  <2>4. QED
    BY <1>3, <2>1, <2>3, SavesFollowed
<1>7. SavesCounted'
  BY <1>1, <1>5, <1>6 DEF CacheInv, SavesCounted
<1>8. CacheTyped' /\ NothingAhead'
  <2>1. CacheTyped'
    BY <1>1, <1>4, <1>5 DEF CacheTyped
  <2>2. \A s \in Stamps : s > stamp' => s > stamp
    BY <1>5, CacheAssumption DEF Stamps
  <2>3. QED
    BY <1>1, <2>1, <2>2 DEF CacheInv, NothingAhead
<1>9. \A v \in Users : RequestKind(user[v])'
  <2>1. ASSUME NEW v \in Users \ {u} PROVE RequestKind(user[v])'
    <3>1. user[v].stamp <= stamp'
      BY <1>5 DEF RequestKind
    <3>2. QED
      BY <1>4, <1>5, <3>1 DEF RequestKind
  <2>2. RequestKind(user[u])'
    <3>1. user'[u].pc = "idle" /\ user'[u].stamp <= stamp'
      BY <1>3, <1>4, <1>5
    <3>2. QED
      BY <3>1 DEF RequestKind, ListingPlaces, SavingPlaces
  <2>3. QED
    BY <2>1, <2>2
<1>10. EntriesFollow'
  BY <1>1, <1>3, EntriesKept DEF Unwritten
<1>11. ListingsFollow'
  <2> SUFFICES ASSUME stamp' = stamp + 1 PROVE ListingsFollow'
    BY <1>1 DEF ListingsFollow
  <2>1. stamp' \in Stamps
    BY <1>1, <1>5, <1>6, <1>7, CacheAssumption DEF SavesCounted, Stamps
  <2>2. listing'[stamp'] = NoEntry
    BY <1>1, <1>5, <2>1 DEF CacheInv, NothingAhead
  <2>3. ASSUME NEW v \in Users \ {u} PROVE ListsCurrent(user[v])'
    <3>1. user[v].stamp # stamp'
      BY <1>5 DEF RequestKind
    <3>2. QED
      BY <1>4, <3>1 DEF ListsCurrent
  <2>4. ListsCurrent(user[u])'
    BY <1>3, <1>4 DEF ListsCurrent
  <2>5. QED
    BY <2>2, <2>3, <2>4 DEF ListingsFollow
<1>12. QED
  BY <1>7, <1>8, <1>9, <1>10, <1>11 DEF CacheInv

LEMMA CacheRemoves == ASSUME CacheInv, NEW u \in Users, RemoveEntry(u) PROVE CacheInv'
<1>1. /\ user[u].pc = "remove" /\ UNCHANGED <<stored, stamp, listing>> /\ UserStep(u, "idle")
      /\ \/ entry' = [entry EXCEPT !.favorites = NoEntry] /\ excused' = excused \ {"favorites"}
         \/ excused' = excused \cup {"favorites"} /\ UNCHANGED entry
  BY DEF RemoveEntry, Lost
<1>2. PICK new \in CacheRequests : MovesTo(u, "idle", user[u].value, new)
  BY <1>1, RequestSteps DEF CachePlaces
<1>3. /\ user' = [user EXCEPT ![u] = new] /\ new.pc = "idle" /\ RequestKind(new) /\ ListsCurrent(new)
  BY <1>2, IdleRequest, CacheFacts DEF MovesTo
<1>4. user' \in [Users -> CacheRequests] /\ user'[u] = new /\ \A v \in Users \ {u} : user'[v] = user[v]
  BY <1>3, UserChanged
<1>5. entry \in [CacheKinds -> Int] /\ user[u].kind = "favorites"
  BY <1>1, CacheFacts DEF RequestKind
<1>6. /\ entry' \in [CacheKinds -> Int]
      /\ entry'["settings"] = entry["settings"] /\ ("settings" \in excused' <=> "settings" \in excused)
      /\ "favorites" \notin excused' => entry'["favorites"] = NoEntry
      /\ "catalog" \in excused' <=> "catalog" \in excused
  BY <1>1, <1>5 DEF CacheKinds, NoEntry
<1>7. Writing("settings") => Writing("settings")'
  BY <1>4, <1>5 DEF Writing, Unwritten
<1>8. EntriesFollow'
  BY <1>1, <1>6, <1>7 DEF CacheInv, EntriesFollow, CacheKinds
<1>9. listing' \in [Stamps -> Int] /\ NothingAhead'
  BY <1>1 DEF CacheInv, CacheTyped, NothingAhead
<1>10. ~Bumping /\ "catalog" \notin excused' => listing'[stamp] \in {NoEntry, stored["settings"]}
  BY <1>1, <1>6 DEF CacheInv, ListingsFollow
<1>11. user[u].pc \notin {"write"} \cup SavingPlaces /\ new.pc \notin {"write"} \cup SavingPlaces
  BY <1>1, <1>3 DEF SavingPlaces
<1>12. QED
  BY <1>1, <1>3, <1>6, <1>8, <1>9, <1>10, <1>11, CacheMoves

\* An entry or a listing that expires leaves nothing behind.
LEMMA CacheExpires == CacheInv /\ EntryExpires => CacheInv'
<1> SUFFICES ASSUME CacheInv, EntryExpires PROVE CacheInv'
  OBVIOUS
<1>1. UNCHANGED <<stored, stamp, user>>
  BY DEF EntryExpires
<1>2. CacheTyped /\ (\A v \in Users : RequestKind(user[v])) /\ EntriesFollow /\ NothingAhead /\ ListingsFollow /\ SavesCounted
  BY DEF CacheInv
<1>3. /\ entry' \in [CacheKinds -> Int] /\ listing' \in [Stamps -> Int]
      /\ \A k \in CacheKinds : entry'[k] = NoEntry \/ (entry'[k] = entry[k] /\ (k \in excused' <=> k \in excused))
      /\ \A s \in Stamps : listing'[s] \in {NoEntry, listing[s]}
      /\ "catalog" \in excused' <=> "catalog" \in excused
  <2>1. entry \in [CacheKinds -> Int] /\ listing \in [Stamps -> Int] /\ NoEntry \in Int
    BY <1>2 DEF CacheTyped, NoEntry
  <2>2. CASE /\ \E k \in CacheKinds : entry' = [entry EXCEPT ![k] = NoEntry] /\ excused' = excused \ {k}
             /\ UNCHANGED listing
    BY <2>1, <2>2 DEF CacheKinds
  <2>3. CASE (\E s \in Stamps : listing' = [listing EXCEPT ![s] = NoEntry]) /\ UNCHANGED <<entry, excused>>
    BY <2>1, <2>3
  <2>4. QED
    BY <2>2, <2>3 DEF EntryExpires
<1>4. /\ Savers' = Savers /\ Writers' = Writers /\ (Bumping' <=> Bumping)
      /\ \A k \in CacheKinds : Writing(k)' <=> Writing(k)
  BY <1>1 DEF Savers, Writers, Bumping, Writing, Unwritten
<1>5. CacheTyped' /\ SavesCounted' /\ \A v \in Users : RequestKind(user[v])'
  BY <1>1, <1>2, <1>3, <1>4 DEF CacheTyped, SavesCounted, RequestKind
<1>6. EntriesFollow'
  BY <1>1, <1>2, <1>3, <1>4 DEF EntriesFollow
<1>7. NothingAhead'
  BY <1>1, <1>2, <1>3 DEF NothingAhead
<1>8. ListingsFollow'
  <2>1. stamp \in Stamps
    BY StampListed
  <2>2. QED
    BY <1>1, <1>2, <1>3, <1>4, <2>1 DEF ListingsFollow, ListsCurrent
<1>9. QED
  BY <1>5, <1>6, <1>7, <1>8 DEF CacheInv

-----------------------------------------------------------------------------
LEMMA CacheStep == CacheInv /\ [CacheNext]_cacheVars => CacheInv'
<1> SUFFICES ASSUME CacheInv, [CacheNext]_cacheVars PROVE CacheInv'
  OBVIOUS
<1>1. ASSUME NEW u \in Users, Start(u) PROVE CacheInv'
  BY <1>1, CacheStarts
<1>2. ASSUME NEW u \in Users, ReadScopeStamp(u) \/ FindListing(u) \/ ReadEntry(u) \/ ReadStore(u) PROVE CacheInv'
  BY <1>2, CacheLooks
<1>3. ASSUME NEW u \in Users, Fill(u) PROVE CacheInv'
  BY <1>3, CacheFills
<1>4. ASSUME NEW u \in Users, WriteListing(u) PROVE CacheInv'
  BY <1>4, CacheLists
<1>5. ASSUME NEW u \in Users, WriteStore(u) \/ SyncRegistry(u) PROVE CacheInv'
  BY <1>5, CacheSaves
<1>a. ASSUME NEW u \in Users, StoreFails(u) PROVE CacheInv'
  BY <1>a, CacheFails
<1>6. ASSUME NEW u \in Users, Reload(u) \/ WriteEntry(u) PROVE CacheInv'
  BY <1>6, CacheRefreshes
<1>7. ASSUME NEW u \in Users, BumpScope(u) PROVE CacheInv'
  BY <1>7, CacheBumps
<1>8. ASSUME NEW u \in Users, RemoveEntry(u) PROVE CacheInv'
  BY <1>8, CacheRemoves
<1>9. CASE EntryExpires
  BY <1>9, CacheExpires
<1>10. CASE UNCHANGED cacheVars
  BY <1>10 DEF cacheVars, CacheInv, CacheTyped, RequestKind, EntriesFollow, Writing, Unwritten, NothingAhead,
               ListingsFollow, ListsCurrent, Bumping, SavesCounted, Savers, Writers
<1>11. QED
  BY <1>1, <1>2, <1>3, <1>4, <1>5, <1>a, <1>6, <1>7, <1>8, <1>9, <1>10 DEF CacheNext

\* Between saves, what is cached is what is stored, unless another save overtook
\* the request that wrote it or a call to the hub or to the store failed
\* (CachesFollowStores): for any number of concurrent requests, of saves and of
\* failed calls.
THEOREM CachesFollow == CacheSpec => []CachesFollowStores
<1>1. CacheInit => CacheInv
  <2> SUFFICES ASSUME CacheInit PROVE CacheInv
    OBVIOUS
  <2>1. CacheTyped
    BY IdleRequest DEF CacheInit, CacheTyped, NoEntry
  <2>2. \A u \in Users : RequestKind(user[u])
    BY IdleRequest DEF CacheInit
  <2>3. EntriesFollow /\ NothingAhead
    BY DEF CacheInit, EntriesFollow, NothingAhead
  <2>4. stamp = 0 /\ stamp \in Stamps
    BY CacheAssumption DEF CacheInit, Stamps
  <2>5. ListingsFollow
    BY IdleRequest, <2>4 DEF CacheInit, ListingsFollow
  <2>6. Savers = {} /\ Writers = {}
    BY IdleRequest DEF CacheInit, Savers, Writers, SavingPlaces
  <2>7. SavesCounted
    BY <2>4, <2>6, FS_EmptySet, CacheAssumption DEF CacheInit, SavesCounted, CacheKinds
  <2>8. QED
    BY <2>1, <2>2, <2>3, <2>5, <2>7 DEF CacheInv
<1>2. CacheInv => CachesFollowStores
  <2> SUFFICES ASSUME CacheInv PROVE CachesFollowStores
    OBVIOUS
  <2>1. ASSUME NEW k \in CacheKinds, Writing(k) PROVE Saving(k)
    BY <2>1 DEF Writing, Unwritten, Saving
  <2>2. ASSUME Bumping PROVE Saving("settings")
    <3>1. PICK u \in Users : user[u].pc \in SavingPlaces
      BY <2>2 DEF Bumping
    <3>2. user[u].kind = "settings"
      BY <3>1, CacheFacts DEF RequestKind
    <3>3. QED
      BY <3>1, <3>2 DEF Saving, SavingPlaces
  <2>3. QED
    BY <2>1, <2>2 DEF CacheInv, EntriesFollow, ListingsFollow, CachesFollowStores
<1>3. QED
  BY <1>1, <1>2, CacheStep, PTL DEF CacheSpec


-----------------------------------------------------------------------------
(* The choice of a backend, and the names of services *)

\* A set of places that is not empty has a first one.
LEMMA HasLeast ==
    ASSUME NEW S, S \subseteq Nat, S # {}
    PROVE  \E i \in S : \A j \in S : i <= j
  <1> DEFINE Less == {ss \in Nat \X Nat : ss[1] < ss[2]}
  <1>1. Less = OpToRel(<, Nat)
    BY Zenon DEF OpToRel
  <1>2. IsWellFoundedOn(Less, Nat)
    BY <1>1, NatLessThanWellFounded, Zenon
  <1>3. PICK x \in S : \A y \in S : <<y, x>> \notin Less
    <2> HIDE DEF Less
    <2>1. QED
      BY <1>2, WFMin
  <1>4. ASSUME NEW y \in S PROVE x <= y
    <2>1. x \in Nat /\ y \in Nat
      OBVIOUS
    <2>2. y < x => <<y, x>> \in Less
      BY <2>1
    <2>3. QED
      BY <1>3, <2>1, <2>2
  <1>5. QED
    BY <1>4

LEMMA FirstIsThere ==
    ASSUME NEW S, S \subseteq Nat, S # {}
    PROVE  First(S) \in S
  BY HasLeast DEF First

\* What a launch may be given: the backends of a list that are enabled and
\* that the mode allows.
LEMMA AllowedFit ==
    ASSUME NEW list, NEW mode, NEW i \in Allowed(list, mode)
    PROVE  /\ i \in DOMAIN list /\ list[i].enabled /\ BackendKind(list[i].type) \in BackendKinds
           /\ mode = "remote" => BackendKind(list[i].type) # "local"
           /\ mode \notin {"remote", "hybrid"} => BackendKind(list[i].type) = "local"
  BY DEF Allowed, Buildable, ModeAllows, IsLocalAgentType, BackendKind, BackendKinds

\* The other way round.
LEMMA FittingAllowed ==
    ASSUME NEW list, NEW mode, NEW i \in DOMAIN list, list[i].enabled, BackendKind(list[i].type) \in BackendKinds,
           mode = "remote" => BackendKind(list[i].type) # "local",
           mode \notin {"remote", "hybrid"} => BackendKind(list[i].type) = "local"
    PROVE  i \in Allowed(list, mode) /\ Catalog(list, mode) = list
  <1>1. i \in Buildable(list)
    BY DEF Buildable
  <1>2. IsLocalAgentType(list[i].type) <=> BackendKind(list[i].type) = "local"
    BY DEF BackendKind, BackendKinds, IsLocalAgentType
  <1>3. ModeAllows(mode, list[i].type)
    BY <1>2 DEF ModeAllows
  <1>4. QED
    BY <1>1, <1>3 DEF Allowed, Catalog

\* An answer that names a backend names one of the list that is up and allowed.
LEMMA RequestedAnswer ==
    ASSUME NEW list, NEW mode, NEW requested, NEW required, DOMAIN list \subseteq Nat,
           ResolveRequested(list, mode, requested, required).err = "none"
    PROVE  \E i \in Allowed(list, mode) :
              /\ list[i].up /\ list[i].id = requested
              /\ ResolveRequested(list, mode, requested, required) = Chosen(list[i], required)
  <1> DEFINE named == {i \in Allowed(list, mode) : list[i].id = requested}
             r == ResolveRequested(list, mode, requested, required)
  <1>1. named \subseteq Nat
    BY AllowedFit
  <1>2. CASE named = {}
    <2>1. \E why \in {"mode", "absent"} : r = NotChosen(why)
      BY <1>2 DEF ResolveRequested
    <2>2. QED
      BY <2>1 DEF NotChosen
  <1>3. CASE named # {}
    <2>1. First(named) \in named
      BY <1>1, <1>3, FirstIsThere
    <2>2. r = IF list[First(named)].up THEN Chosen(list[First(named)], required) ELSE NotChosen("unavailable")
      BY <1>3 DEF ResolveRequested
    <2>3. list[First(named)].up
      BY <2>2 DEF NotChosen
    <2>4. QED
      BY <2>1, <2>2, <2>3
  <1>4. QED
    BY <1>2, <1>3

\* Without a request: a backend with every tag, the default among them first,
\* and none only when none of those that carry the tags is up.
LEMMA AutoAnswer ==
    ASSUME NEW list, NEW mode, NEW required, DOMAIN list \subseteq Nat
    PROVE  LET r  == ResolveAuto(list, mode, required)
               up == {i \in Allowed(list, mode) : MissingTags(list[i], required) = {} /\ list[i].up}
           IN  \/ r.err # "none" /\ up = {}
               \/ \E i \in up : /\ r = Chosen(list[i], required)
                                /\ (\E j \in up : list[j].default) => list[i].default
  <1> DEFINE r == ResolveAuto(list, mode, required)
             candidates == {i \in Allowed(list, mode) : MissingTags(list[i], required) = {}}
             up == {i \in candidates : list[i].up}
             defaults == {i \in up : list[i].default}
  <1>0. up = {i \in Allowed(list, mode) : MissingTags(list[i], required) = {} /\ list[i].up}
    OBVIOUS
  <1>1. up \subseteq Nat /\ defaults \subseteq Nat
    BY AllowedFit
  <1>2. CASE defaults # {}
    <2>1. r = Chosen(list[First(defaults)], required)
      BY <1>2 DEF ResolveAuto
    <2>2. First(defaults) \in defaults
      BY <1>1, <1>2, FirstIsThere
    <2>3. QED
      BY <2>1, <2>2
  <1>3. CASE defaults = {} /\ up # {}
    <2>1. r = Chosen(list[First(up)], required)
      BY <1>3 DEF ResolveAuto
    <2>2. First(up) \in up
      BY <1>1, <1>3, FirstIsThere
    <2>3. QED
      BY <1>3, <2>1, <2>2
  <1>4. CASE up = {}
    <2>1. r = NotChosen("mode") \/ r = NotChosen("untagged") \/ r = NotChosen("unavailable")
      BY <1>4 DEF ResolveAuto
    <2> HIDE DEF r, up
    <2>2. r.err # "none"
      BY <2>1 DEF NotChosen
    <2>3. QED
      BY <1>0, <1>4, <2>2 DEF r
  <1>5. QED
    BY <1>2, <1>3, <1>4

\* The fallback is the only backend of its catalog, so a catalog's positions
\* are numbers too.
LEMMA CatalogListed ==
    ASSUME NEW agents, NEW mode, DOMAIN agents \subseteq Nat
    PROVE  DOMAIN Catalog(agents, mode) \subseteq Nat
  <1>1. DOMAIN <<FallbackBackend>> \subseteq Nat
    OBVIOUS
  <1>2. QED
    BY <1>1 DEF Catalog

\* Whatever the settings, the mode, the request and the tags, the answer is
\* the one BackendHonoursProfile asks for.
LEMMA AnswerHonours ==
    ASSUME NEW agents, NEW mode, NEW requested, NEW required, DOMAIN agents \subseteq Nat
    PROVE  LET r       == ResolveBackend(agents, mode, requested, required)
               fits(a) == /\ mode = "remote" => BackendKind(a.type) # "local"
                          /\ mode \notin {"remote", "hybrid"} => BackendKind(a.type) = "local"
               usable == {a \in Range(agents) : /\ a.enabled /\ a.up /\ required \subseteq a.tags
                                                /\ BackendKind(a.type) \in BackendKinds /\ fits(a)}
           IN /\ r.err = "none" => r.backend.up /\ fits(r.backend)
              /\ requested \in AnyBackend =>
                    /\ r.err = "none" => r.missing = {} /\ required \subseteq r.backend.tags
                    /\ usable # {} => r.err = "none" /\ r.backend \in usable
                    /\ (\E a \in usable : a.default) => r.backend.default
              /\ requested \notin AnyBackend /\ r.err = "none" =>
                    r.backend.id = requested /\ r.missing = required \ r.backend.tags
  <1> DEFINE r == ResolveBackend(agents, mode, requested, required)
             list == Catalog(agents, mode)
             fits(a) == /\ mode = "remote" => BackendKind(a.type) # "local"
                        /\ mode \notin {"remote", "hybrid"} => BackendKind(a.type) = "local"
             usable == {a \in Range(agents) : /\ a.enabled /\ a.up /\ required \subseteq a.tags
                                              /\ BackendKind(a.type) \in BackendKinds /\ fits(a)}
             up == {i \in Allowed(list, mode) : MissingTags(list[i], required) = {} /\ list[i].up}
  <1>1. DOMAIN list \subseteq Nat
    BY CatalogListed
  <1>2. ASSUME NEW i \in Allowed(list, mode) PROVE fits(list[i])
    BY AllowedFit
  <1>3. ASSUME NEW i PROVE Chosen(list[i], required).err = "none" /\ Chosen(list[i], required).backend = list[i]
                             /\ Chosen(list[i], required).missing = required \ list[i].tags
    BY DEF Chosen, MissingTags
  <1>4. CASE requested \notin AnyBackend
    <2>1. r = ResolveRequested(list, mode, requested, required)
      BY <1>4 DEF ResolveBackend
    <2>2. ASSUME r.err = "none"
          PROVE  /\ r.backend.up /\ fits(r.backend)
                 /\ r.backend.id = requested /\ r.missing = required \ r.backend.tags
      <3>1. PICK i \in Allowed(list, mode) : list[i].up /\ list[i].id = requested /\ r = Chosen(list[i], required)
        BY <1>1, <2>1, <2>2, RequestedAnswer
      <3> HIDE DEF r, list, fits
      <3>2. QED
        BY <1>2, <1>3, <3>1
    <2> HIDE DEF r, fits, usable
    <2>3. QED
      BY <1>4, <2>2 DEF r, fits, usable
  <1>5. CASE requested \in AnyBackend
    <2>1. r = ResolveAuto(list, mode, required)
      BY <1>5 DEF ResolveBackend
    <2>2. \/ r.err # "none" /\ up = {}
          \/ \E i \in up : /\ r = Chosen(list[i], required)
                           /\ (\E j \in up : list[j].default) => list[i].default
      BY <1>1, <2>1, AutoAnswer
    <2>3. ASSUME NEW i \in up PROVE MissingTags(list[i], required) = {} /\ required \subseteq list[i].tags /\ list[i].up
      BY DEF MissingTags
    <2>4. ASSUME NEW a \in usable PROVE \E i \in up : list[i] = a
      <3>1. PICK i \in DOMAIN agents : agents[i] = a
        BY DEF Range
      <3>2. i \in Allowed(agents, mode) /\ list = agents
        BY <2>4, <3>1, FittingAllowed
      <3>3. MissingTags(a, required) = {} /\ a.up
        BY <2>4 DEF MissingTags
      <3>4. QED
        BY <3>1, <3>2, <3>3
    <2>5. ASSUME NEW i \in up, usable # {} PROVE list[i] \in usable
      <3>1. list = agents
        <4>1. PICK a \in usable : TRUE
          BY <2>5
        <4>2. PICK j \in DOMAIN agents : agents[j] = a
          BY DEF Range
        <4>3. QED
          BY <4>1, <4>2, FittingAllowed
      <3>2. i \in Allowed(list, mode)
        OBVIOUS
      <3>3. i \in DOMAIN list /\ list[i].enabled /\ BackendKind(list[i].type) \in BackendKinds
        BY <3>2, AllowedFit
      <3>4. list[i] \in Range(agents)
        BY <3>1, <3>3 DEF Range
      <3>5. fits(list[i])
        BY <1>2, <3>2
      <3>6. list[i].up /\ required \subseteq list[i].tags
        BY <2>3
      <3> HIDE DEF list, fits
      <3>7. QED
        BY <3>3, <3>4, <3>5, <3>6
    <2>6. \A i \in up : i \in Allowed(list, mode)
      OBVIOUS
    <2> HIDE DEF r, list, fits, usable, up
    <2>7. CASE r.err # "none" /\ up = {}
      <3>1. usable = {}
        BY <2>4, <2>7
      <3> HIDE DEF r, usable
      <3>2. /\ r.err # "none" /\ usable = {}
        BY <2>7, <3>1
      <3>3. QED
        BY <1>5, <3>2 DEF r, usable, fits
    <2>8. ASSUME NEW i \in up, r = Chosen(list[i], required), (\E j \in up : list[j].default) => list[i].default
          PROVE  /\ r.err = "none" /\ r.backend.up /\ fits(r.backend)
                 /\ r.missing = {} /\ required \subseteq r.backend.tags
                 /\ usable # {} => r.backend \in usable
                 /\ (\E a \in usable : a.default) => r.backend.default
      <3>1. r.err = "none" /\ r.backend = list[i] /\ r.missing = required \ list[i].tags
        BY <1>3, <2>8
      <3>2. fits(list[i]) /\ list[i].up /\ required \subseteq list[i].tags
        BY <1>2, <2>3, <2>6
      <3>3. (\E a \in usable : a.default) => list[i].default
        BY <2>4, <2>8
      <3>4. r.missing = {}
        BY <3>1, <3>2
      <3>5. QED
        BY <2>5, <3>1, <3>2, <3>3, <3>4
    <2>9. QED
      BY <1>5, <2>2, <2>7, <2>8 DEF r, fits, usable
  <1>6. QED
    BY <1>4, <1>5

\* Two services meet under one name only where their qualified names do, or
\* one is called like the other's qualified name.
LEMMA NamesApart ==
    ASSUME NEW nodes, NEW root, NEW i \in DOMAIN nodes, NEW j \in DOMAIN nodes, i # j,
           LET services     == {k \in DOMAIN nodes : AddressableKind(nodes[k])}
               qualified(k) == QualifiedAlias(NodeOwner(nodes[k], root), nodes[k].name)
           IN  /\ \A k, l \in services : k # l => qualified(k) # qualified(l)
               /\ \A k, l \in services : nodes[k].name # qualified(l)
    PROVE  AliasesForNode(nodes, root, nodes[i]) \cap AliasesForNode(nodes, root, nodes[j]) = {}
  <1> DEFINE services == {k \in DOMAIN nodes : AddressableKind(nodes[k])}
             qualified(k) == QualifiedAlias(NodeOwner(nodes[k], root), nodes[k].name)
             owner(k) == NodeOwner(nodes[k], root)
  <1>1. /\ \A k, l \in services : k # l => qualified(k) # qualified(l)
        /\ \A k, l \in services : nodes[k].name # qualified(l)
    OBVIOUS
  <1>2. CASE i \notin services \/ j \notin services
    BY <1>2 DEF AliasesForNode
  <1>3. CASE i \in services /\ j \in services
    <2>1. \A k \in services :
            \/ AliasesForNode(nodes, root, nodes[k]) = {}
            \/ /\ AliasesForNode(nodes, root, nodes[k]) = {nodes[k].name}
               /\ nodes[k].name \notin Contested(nodes, root) \/ owner(k) = root
            \/ AliasesForNode(nodes, root, nodes[k]) = {qualified(k)}
      BY DEF AliasesForNode, NetworkAlias
    <2>2. \A k \in services : owner(k) \in Claimants(nodes, root, nodes[k].name)
      BY DEF Claimants, NetworkAlias, Range
    <2>3. ASSUME nodes[i].name = nodes[j].name, owner(i) # owner(j)
          PROVE  nodes[i].name \in Contested(nodes, root)
      <3>1. nodes[i].name \in {NetworkAlias(n) : n \in Range(nodes)}
        BY DEF NetworkAlias, Range
      <3>2. owner(i) \in Claimants(nodes, root, nodes[i].name) /\ owner(j) \in Claimants(nodes, root, nodes[i].name)
        BY <1>3, <2>2, <2>3
      <3> HIDE DEF owner
      <3>3. QED
        BY <2>3, <3>1, <3>2 DEF Contested
    <2>4. owner(i) = owner(j) => nodes[i].name # nodes[j].name
      BY <1>1, <1>3
    <2> HIDE DEF services, qualified, owner
    <2>5. QED
      BY <1>1, <1>3, <2>1, <2>3, <2>4
  <1>4. QED
    BY <1>2, <1>3

\* What an answer is the answer to.
LaunchInv ==
    /\ question = "backend" => input \in LaunchInputs
    /\ question = "backend" /\ answered =>
          answer = ResolveBackend(input.agents, input.mode, input.requested, input.required)
    /\ question = "names" /\ answered =>
          answer = [i \in DOMAIN input.nodes |-> AliasesForNode(input.nodes, input.root, input.nodes[i])]

LEMMA LaunchInvSound == LaunchInv => LaunchSound
  <1> SUFFICES ASSUME LaunchInv PROVE BackendHonoursProfile /\ NamesAreUnambiguous
    BY DEF LaunchSound
  <1>1. BackendHonoursProfile
    <2> SUFFICES ASSUME question = "backend", answered PROVE BackendHonoursProfile
      BY DEF BackendHonoursProfile
    <2>1. /\ DOMAIN input.agents \subseteq Nat
          /\ answer = ResolveBackend(input.agents, input.mode, input.requested, input.required)
      BY LaunchAssumption DEF LaunchInv
    <2>2. QED
      BY <2>1, AnswerHonours DEF BackendHonoursProfile
  <1>2. NamesAreUnambiguous
    <2> SUFFICES ASSUME question = "names", answered PROVE NamesAreUnambiguous
      BY DEF NamesAreUnambiguous
    <2>1. answer = [i \in DOMAIN input.nodes |-> AliasesForNode(input.nodes, input.root, input.nodes[i])]
      BY DEF LaunchInv
    <2>2. QED
      BY <2>1, NamesApart DEF NamesAreUnambiguous
  <1>3. QED
    BY <1>1, <1>2

\* Whatever the settings and the suites: a run goes to a backend that is up,
\* that the mode allows and that carries the profile's tags, the default
\* first, and is refused only without one (resolveBackend); and a name on its
\* network is one service's (buildNetworkPlan).
THEOREM LaunchesAreSound == ResolutionSpec => []LaunchSound
  <1>1. ResolutionInit => LaunchInv
    BY DEF ResolutionInit, LaunchInv
  <1>2. LaunchInv /\ [ResolutionNext]_resolutionVars => LaunchInv'
    <2> SUFFICES ASSUME LaunchInv, [ResolutionNext]_resolutionVars PROVE LaunchInv'
      OBVIOUS
    <2>1. CASE UNCHANGED resolutionVars
      BY <2>1 DEF resolutionVars, LaunchInv
    <2>2. CASE AnswerSuite \/ AnswerProfile
      BY <2>2 DEF AnswerSuite, AnswerProfile, Answer, LaunchInv
    <2>3. CASE AnswerBackend
      BY <2>3 DEF AnswerBackend, Answer, LaunchInv
    <2>4. CASE AnswerNames
      BY <2>4 DEF AnswerNames, Answer, LaunchInv
    <2>5. QED
      BY <2>1, <2>2, <2>3, <2>4 DEF ResolutionNext
  <1>3. QED
    BY <1>1, <1>2, LaunchInvSound, PTL DEF ResolutionSpec


-----------------------------------------------------------------------------
(* Traffic plans *)

StatementType ==
    [call : STRING, name : STRING, usable : BOOLEAN, items : Seq(STRING), shape : Seq(STRING), checks : Seq(STRING),
     request : STRING, wait : STRING, weight : Int, inline : Nat, duration : Int, users : Int]
CheckType == [at : Nat]
RequestType == [at : Nat, checks : Seq(CheckType)]
WaitType == [mode : {"unset", "constant", "pacing"}, at : Nat]
StageType == [at : Nat, duration : Int, users : Int]
TaskType == [at : Nat, weight : Int, request : Nat, checks : Seq(CheckType)]
UserType == [at : Nat, weight : Int, tasks : Seq(TaskType), wait : WaitType]

\* Statement j is the last above statement i that binds this name.
LastBound(file, k, name, j, i) ==
    /\ j \in 1..(i - 1) /\ file[j].call = k /\ file[j].name = name
    /\ \A m \in 1..(i - 1) : file[m].call = k /\ file[m].name = name => m <= j

TaskOk(file, t) == LastBound(file, "request", file[t.at].request, t.request, t.at)
UserOk(file, u) ==
    /\ DOMAIN u.tasks = DOMAIN file[u.at].items
    /\ \A i \in DOMAIN u.tasks : LastBound(file, "task", file[u.at].items[i], u.tasks[i].at, u.at) /\ TaskOk(file, u.tasks[i])

\* What a value of each kind is, and that its parts are what was meant where it
\* was made.
ValueOk(file, k, v) ==
    /\ v.at \in Nat
    /\ k = "request" => v \in RequestType
    /\ k = "wait" => v \in WaitType
    /\ k = "threshold" => v \in CheckType
    /\ k = "stage" => v \in StageType
    /\ k = "task" => v \in TaskType /\ TaskOk(file, v)
    /\ k = "user" => v \in UserType /\ UserOk(file, v)

\* Above statement i, every bound name has the value it was given last.
BoundOk(file, b, i) ==
    /\ DOMAIN b = Kinds
    /\ \A k \in Kinds : \A n \in DOMAIN b[k] : ValueOk(file, k, b[k][n]) /\ LastBound(file, k, n, b[k][n].at, i)

Means(file, values, k, names, p) ==
    /\ DOMAIN values = DOMAIN names
    /\ \A i \in DOMAIN names : ValueOk(file, k, values[i]) /\ LastBound(file, k, names[i], values[i].at, p)

\* Statement p is the plan, the only one above statement i, and sp is what it says.
PlanAt(file, sp, p, i) ==
    /\ file[p].call = "plan" /\ \A m \in 1..(i - 1) : file[m].call = "plan" => m = p
    /\ Means(file, sp.users, "user", file[p].items, p)
    /\ Means(file, sp.stages, "stage", file[p].shape, p)
    /\ Means(file, sp.thresholds, "threshold", file[p].checks, p)

ReadOk(file, found, sp, i) ==
    IF found THEN \E p \in 1..(i - 1) : PlanAt(file, sp, p, i) ELSE \A m \in 1..(i - 1) : file[m].call # "plan"

SpecType == [users : Seq(UserType), stages : Seq(StageType), thresholds : Seq(CheckType)]

ReadInv ==
    /\ statements \in Seq(StatementType) /\ next \in 1..(Len(statements) + 1) /\ spec \in SpecType
    /\ BoundOk(statements, bound, next) /\ ReadOk(statements, foundPlan, spec, next)

\* The last statement that binds a name is what it stands for.
LEMMA MeaningIsLast ==
  ASSUME NEW k, NEW name, NEW i \in Nat, NEW j, LastBound(statements, k, name, j, i)
  PROVE  j = Meaning(k, name, i)
  <1> DEFINE S == {m \in 1..(i - 1) : statements[m].call = k /\ statements[m].name = name}
  <1>1. j \in S /\ S \subseteq Int /\ \A m \in S : j >= m
    BY DEF LastBound
  <1>2. Meaning(k, name, i) = CHOOSE x \in S : \A y \in S : x >= y
    BY DEF Meaning, Max
  <1> HIDE DEF S
  <1>3. PICK x \in S : (\A y \in S : x >= y) /\ x = Meaning(k, name, i)
    BY <1>1, <1>2
  <1>4. QED
    BY <1>1, <1>3

\* A list of names that are bound stands for their values, so far.
LEMMA ValuesMean ==
  ASSUME ReadInv, NEW k \in Kinds, NEW names \in Seq(STRING), Known(k, names)
  PROVE  Means(statements, Values(k, names), k, names, next)
  <1>1. \A i \in DOMAIN names : names[i] \in DOMAIN bound[k]
    BY DEF Known, Range
  <1>2. QED
    BY <1>1 DEF Values, Means, ReadInv, BoundOk

LEMMA MeantSeq ==
  ASSUME NEW k, NEW names \in Seq(STRING), NEW values, NEW p, NEW T, values = [i \in DOMAIN names |-> values[i]],
         Means(statements, values, k, names, p), \A v : ValueOk(statements, k, v) => v \in T
  PROVE  values \in Seq(T)
  <1>1. /\ Len(names) \in Nat /\ DOMAIN names = 1..Len(names)
        /\ \A i \in 1..Len(names) : values[i] \in T
    BY DEF Means
  <1>2. values = [i \in 1..Len(names) |-> values[i]]
    BY <1>1
  <1>3. QED
    BY <1>1, <1>2

\* A later statement that binds no name of kind k leaves what it stands for.
LEMMA StillLast ==
  ASSUME NEW i \in Nat, NEW k, NEW name, NEW j, LastBound(statements, k, name, j, i),
         ~(statements[i].call = k /\ statements[i].name = name)
  PROVE  LastBound(statements, k, name, j, i + 1)
  BY DEF LastBound


\* A statement that binds a name of kind k to a value of that kind, made there,
\* leaves every name with its last value.
LEMMA BindKeeps ==
  ASSUME ReadInv, Reading, NEW k \in Kinds, At.call = k, NEW value, ValueOk(statements, k, value), value.at = next
  PROVE  BoundOk(statements, [bound EXCEPT ![k] = Binding(@, At.name, value)], next + 1)
  <1> DEFINE b == [bound EXCEPT ![k] = Binding(@, At.name, value)]
  <1>1. next \in 1..Len(statements) /\ next \in Nat /\ DOMAIN bound = Kinds
    BY DEF Reading, ReadInv, BoundOk
  <1>2. /\ DOMAIN b = Kinds /\ b[k] = Binding(bound[k], At.name, value)
        /\ \A l \in Kinds \ {k} : b[l] = bound[l]
    BY <1>1
  <1> HIDE DEF b
  <1>3. ASSUME NEW l \in Kinds \ {k}, NEW n \in DOMAIN b[l]
        PROVE  ValueOk(statements, l, b[l][n]) /\ LastBound(statements, l, n, b[l][n].at, next + 1)
    <2>1. ValueOk(statements, l, bound[l][n]) /\ LastBound(statements, l, n, bound[l][n].at, next)
      BY <1>2, <1>3 DEF ReadInv, BoundOk
    <2>2. QED
      BY <1>1, <1>2, <1>3, <2>1, StillLast DEF At
  <1>4. ASSUME NEW n \in DOMAIN b[k]
        PROVE  ValueOk(statements, k, b[k][n]) /\ LastBound(statements, k, n, b[k][n].at, next + 1)
    <2>1. CASE n = At.name
      <3>1. b[k][n] = value
        BY <1>2, <1>4, <2>1 DEF Binding
      <3>2. LastBound(statements, k, n, next, next + 1)
        BY <1>1, <2>1 DEF LastBound, At
      <3>3. QED
        BY <3>1, <3>2
    <2>2. CASE n # At.name
      <3>1. n \in DOMAIN bound[k] /\ b[k][n] = bound[k][n]
        BY <1>2, <1>4, <2>2 DEF Binding
      <3>2. ValueOk(statements, k, bound[k][n]) /\ LastBound(statements, k, n, bound[k][n].at, next)
        BY <3>1 DEF ReadInv, BoundOk
      <3>3. QED
        BY <1>1, <2>2, <3>1, <3>2, StillLast DEF At
    <2>3. QED
      BY <2>1, <2>2
  <1>5. BoundOk(statements, b, next + 1)
    BY <1>2, <1>3, <1>4 DEF BoundOk
  <1>6. QED
    BY <1>5 DEF b

\* So does one that binds none.
LEMMA PassKeeps ==
  ASSUME ReadInv, Reading, At.call \notin Kinds
  PROVE  BoundOk(statements, bound, next + 1)
  <1>1. next \in Nat
    BY DEF ReadInv
  <1>2. ASSUME NEW k \in Kinds, NEW n \in DOMAIN bound[k]
        PROVE  ValueOk(statements, k, bound[k][n]) /\ LastBound(statements, k, n, bound[k][n].at, next + 1)
    <2>1. ValueOk(statements, k, bound[k][n]) /\ LastBound(statements, k, n, bound[k][n].at, next)
      BY <1>2 DEF ReadInv, BoundOk
    <2>2. QED
      BY <1>1, <2>1, StillLast DEF At
  <1>3. QED
    BY <1>2 DEF ReadInv, BoundOk

\* What was read of the plan stands when another statement is read.
LEMMA PlanStands ==
  ASSUME ReadInv, Reading, At.call # "plan"
  PROVE  ReadOk(statements, foundPlan, spec, next + 1)
  <1>1. next \in Nat /\ \A m \in 1..next : m \in 1..(next - 1) \/ m = next
    BY DEF ReadInv
  <1>2. CASE foundPlan
    <2>1. PICK p \in 1..(next - 1) : PlanAt(statements, spec, p, next)
      BY <1>2 DEF ReadInv, ReadOk
    <2>2. p \in 1..next /\ PlanAt(statements, spec, p, next + 1)
      BY <1>1, <2>1 DEF PlanAt, At
    <2>3. QED
      BY <1>1, <1>2, <2>2 DEF ReadOk
  <1>3. CASE ~foundPlan
    BY <1>1, <1>3 DEF ReadInv, ReadOk, At
  <1>4. QED
    BY <1>2, <1>3


\* A statement that binds a name, or is refused, keeps what was read.
LEMMA BindStep ==
  ASSUME ReadInv, Reading, NEW k \in Kinds, At.call = k, NEW value, ValueOk(statements, k, value), value.at = next,
         Bind(k, value), UNCHANGED statements
  PROVE  ReadInv'
  <1>1. BoundOk(statements, bound', next + 1) /\ ReadOk(statements, foundPlan, spec, next + 1)
    BY BindKeeps, PlanStands DEF Bind, Kinds
  <1>2. /\ next' = next + 1 /\ UNCHANGED <<spec, foundPlan>>
        /\ next + 1 \in 1..(Len(statements) + 1)
    BY DEF Bind, Accept, Reading, ReadInv
  <1>3. QED
    BY <1>1, <1>2 DEF ReadInv

LEMMA RefuseStep ==
  ASSUME ReadInv, NEW why, Refuse(why), UNCHANGED statements
  PROVE  ReadInv'
  BY DEF Refuse, ReadInv

\* The statement being read.
LEMMA AtTyped ==
  ASSUME ReadInv, Reading
  PROVE  At \in StatementType /\ next \in Nat /\ next \in 1..Len(statements)
  BY DEF ReadInv, Reading, At

LEMMA BoundTyped ==
  ASSUME ReadInv, NEW k \in Kinds, NEW names \in Seq(STRING), Known(k, names),
         NEW T, \A v : ValueOk(statements, k, v) => v \in T
  PROVE  Values(k, names) \in Seq(T) /\ Means(statements, Values(k, names), k, names, next)
  <1>1. Values(k, names) = [i \in DOMAIN names |-> Values(k, names)[i]]
    BY DEF Values
  <1>2. Means(statements, Values(k, names), k, names, next)
    BY ValuesMean
  <1> HIDE DEF Values
  <1>3. QED
    BY <1>1, <1>2, MeantSeq

LEMMA ParseStep ==
  ASSUME ReadInv, UNCHANGED statements,
         ParseRequest \/ ParseWait \/ ParseThreshold \/ ParseStage
  PROVE  ReadInv'
  <1>1. CASE ParseRequest
    <2> DEFINE value == [at |-> next, checks |-> [i \in 1..At.inline |-> [at |-> next]]]
    <2>1. Reading /\ At.call = "request" /\ (Bind("request", value) \/ Refuse("request"))
      BY <1>1 DEF ParseRequest
    <2>2. next \in Nat /\ At.inline \in Nat
      BY <2>1, AtTyped DEF StatementType
    <2>3. value \in RequestType /\ value.at = next
      <3> DEFINE check == [at |-> next]
      <3>1. check \in CheckType
        BY <2>2 DEF CheckType
      <3> HIDE DEF check
      <3>2. [i \in 1..At.inline |-> check] \in Seq(CheckType)
        BY <2>2, <3>1
      <3> DEFINE checks == [i \in 1..At.inline |-> check]
      <3>3. value = [at |-> next, checks |-> checks]
        BY DEF check
      <3> HIDE DEF checks, value
      <3>4. QED
        BY <2>2, <3>2, <3>3 DEF RequestType, checks
    <2> HIDE DEF value
    <2>4. ValueOk(statements, "request", value)
      BY <2>2, <2>3 DEF ValueOk
    <2>5. QED
      BY <2>1, <2>3, <2>4, BindStep, RefuseStep DEF Kinds
  <1>2. CASE ParseWait
    <2> DEFINE value == [mode |-> "constant", at |-> next]
    <2>1. Reading /\ At.call = "wait" /\ (Bind("wait", value) \/ Refuse("wait"))
      BY <1>2 DEF ParseWait
    <2>2. next \in Nat
      BY <2>1, AtTyped
    <2>3. value \in WaitType /\ value.at = next
      BY <2>2 DEF WaitType
    <2> HIDE DEF value
    <2>4. ValueOk(statements, "wait", value)
      BY <2>2, <2>3 DEF ValueOk
    <2>5. QED
      BY <2>1, <2>3, <2>4, BindStep, RefuseStep DEF Kinds
  <1>3. CASE ParseThreshold
    <2> DEFINE value == [at |-> next]
    <2>1. Reading /\ At.call = "threshold" /\ (Bind("threshold", value) \/ Refuse("threshold"))
      BY <1>3 DEF ParseThreshold
    <2>2. next \in Nat
      BY <2>1, AtTyped
    <2>3. value \in CheckType /\ value.at = next
      BY <2>2 DEF CheckType
    <2> HIDE DEF value
    <2>4. ValueOk(statements, "threshold", value)
      BY <2>2, <2>3 DEF ValueOk
    <2>5. QED
      BY <2>1, <2>3, <2>4, BindStep, RefuseStep DEF Kinds
  <1>4. CASE ParseStage
    <2> DEFINE value == [at |-> next, duration |-> At.duration, users |-> At.users]
    <2>1. Reading /\ At.call = "stage" /\ (Bind("stage", value) \/ Refuse("duration"))
      BY <1>4 DEF ParseStage
    <2>2. next \in Nat /\ At.duration \in Int /\ At.users \in Int
      BY <2>1, AtTyped DEF StatementType
    <2>3. value \in StageType /\ value.at = next
      BY <2>2 DEF StageType
    <2> HIDE DEF value
    <2>4. ValueOk(statements, "stage", value)
      BY <2>2, <2>3 DEF ValueOk
    <2>5. QED
      BY <2>1, <2>3, <2>4, BindStep, RefuseStep DEF Kinds
  <1>5. QED
    BY <1>1, <1>2, <1>3, <1>4

\* A task is made of the request and the checks its names stand for there.
LEMMA TaskReadStep ==
  ASSUME ReadInv, UNCHANGED statements, ParseTask
  PROVE  ReadInv'
  <1>1. Reading /\ At.call = "task" /\ At \in StatementType /\ next \in Nat /\ next \in 1..Len(statements)
    BY AtTyped DEF ParseTask
  <1>2. CASE ~Known("request", <<At.request>>) \/ ~Known("threshold", At.checks)
    BY <1>2, RefuseStep DEF ParseTask
  <1>3. CASE Known("request", <<At.request>>) /\ Known("threshold", At.checks)
    <2> DEFINE request == bound["request"][At.request]
               value == [at |-> next, weight |-> PositiveWeight(At.weight), request |-> request.at,
                         checks |-> Values("threshold", At.checks) \o request.checks]
    <2>1. Bind("task", value)
      BY <1>3 DEF ParseTask
    <2>2. At.request \in DOMAIN bound["request"]
      BY <1>3 DEF Known, Range
    <2>3. /\ request \in RequestType
          /\ LastBound(statements, "request", At.request, request.at, next)
      BY <2>2 DEF ReadInv, BoundOk, ValueOk, Kinds
    <2>4. Values("threshold", At.checks) \in Seq(CheckType)
      <3>1. At.checks \in Seq(STRING) /\ "threshold" \in Kinds
        BY <1>1 DEF StatementType, Kinds
      <3>2. \A v : ValueOk(statements, "threshold", v) => v \in CheckType
        BY DEF ValueOk
      <3>3. QED
        BY <1>3, <3>1, <3>2, BoundTyped
    <2>5. PositiveWeight(At.weight) \in Int
      BY <1>1 DEF PositiveWeight, StatementType
    <2>6. request.at \in Nat /\ request.checks \in Seq(CheckType)
      BY <2>3 DEF RequestType
    <2> HIDE DEF request
    <2>7. Values("threshold", At.checks) \o request.checks \in Seq(CheckType)
      BY <2>4, <2>6
    <2>8. value \in TaskType /\ value.at = next /\ value.request = request.at
      BY <1>1, <2>5, <2>6, <2>7 DEF TaskType
    <2> HIDE DEF value
    <2>9. ValueOk(statements, "task", value)
      BY <1>1, <2>3, <2>8 DEF ValueOk, TaskOk, At
    <2>10. QED
      BY <1>1, <2>1, <2>8, <2>9, BindStep DEF Kinds
  <1>4. QED
    BY <1>2, <1>3

\* A user is made of the tasks and the wait its names stand for there.
LEMMA UserReadStep ==
  ASSUME ReadInv, UNCHANGED statements, ParseUser
  PROVE  ReadInv'
  <1>1. Reading /\ At.call = "user" /\ At \in StatementType /\ next \in Nat /\ next \in 1..Len(statements)
    BY AtTyped DEF ParseUser
  <1> DEFINE known == Known("task", At.items) /\ (At.wait = "none" \/ Known("wait", <<At.wait>>))
  <1>2. CASE ~known
    BY <1>2, RefuseStep DEF ParseUser
  <1>3. CASE known
    <2> DEFINE wait == IF At.wait = "none" THEN NoWait ELSE bound["wait"][At.wait]
               value == [at |-> next, weight |-> PositiveWeight(At.weight), tasks |-> Values("task", At.items),
                         wait |-> wait]
    <2>1. Bind("user", value)
      BY <1>3 DEF ParseUser
    <2>2. wait \in WaitType
      <3>1. CASE At.wait = "none"
        BY <3>1 DEF NoWait, WaitType
      <3>2. CASE At.wait # "none"
        <4>1. At.wait \in DOMAIN bound["wait"]
          BY <1>3, <3>2 DEF Known, Range
        <4>2. QED
          BY <3>2, <4>1 DEF ReadInv, BoundOk, ValueOk, Kinds
      <3>3. QED
        BY <3>1, <3>2
    <2>3. /\ Values("task", At.items) \in Seq(TaskType)
          /\ Means(statements, Values("task", At.items), "task", At.items, next)
      <3>1. At.items \in Seq(STRING) /\ "task" \in Kinds
        BY <1>1 DEF StatementType, Kinds
      <3>2. \A v : ValueOk(statements, "task", v) => v \in TaskType
        BY DEF ValueOk
      <3>3. QED
        BY <1>3, <3>1, <3>2, BoundTyped
    <2>4. PositiveWeight(At.weight) \in Int
      BY <1>1 DEF PositiveWeight, StatementType
    <2> HIDE DEF wait
    <2>5. value \in UserType /\ value.at = next /\ value.tasks = Values("task", At.items)
      BY <1>1, <2>2, <2>3, <2>4 DEF UserType
    <2> HIDE DEF value
    <2>6. UserOk(statements, value)
      BY <2>3, <2>5 DEF UserOk, Means, ValueOk, At
    <2>7. ValueOk(statements, "user", value)
      BY <1>1, <2>5, <2>6 DEF ValueOk
    <2>8. QED
      BY <1>1, <2>1, <2>5, <2>7, BindStep DEF Kinds
  <1>4. QED
    BY <1>2, <1>3

\* The plan is made of what its names stand for there.
LEMMA PlanReadStep ==
  ASSUME ReadInv, UNCHANGED statements, ApplyPlan
  PROVE  ReadInv'
  <1>1. Reading /\ At.call = "plan" /\ At \in StatementType /\ next \in Nat /\ next \in 1..Len(statements)
    BY AtTyped DEF ApplyPlan
  <1> DEFINE known == Known("user", At.items) /\ Known("stage", At.shape) /\ Known("threshold", At.checks)
  <1>2. CASE foundPlan \/ ~known
    BY <1>2, RefuseStep DEF ApplyPlan
  <1>3. CASE ~foundPlan /\ known
    <2>1. /\ spec' = [users |-> Values("user", At.items), stages |-> Values("stage", At.shape),
                      thresholds |-> Values("threshold", At.checks)]
          /\ foundPlan' = TRUE /\ next' = next + 1 /\ UNCHANGED bound
      BY <1>3 DEF ApplyPlan
    <2>2. /\ At.items \in Seq(STRING) /\ At.shape \in Seq(STRING) /\ At.checks \in Seq(STRING)
          /\ {"user", "stage", "threshold"} \subseteq Kinds
      BY <1>1 DEF StatementType, Kinds
    <2>3. /\ Values("user", At.items) \in Seq(UserType)
          /\ Means(statements, Values("user", At.items), "user", At.items, next)
      <3>1. \A v : ValueOk(statements, "user", v) => v \in UserType
        BY DEF ValueOk
      <3>2. QED
        BY <1>3, <2>2, <3>1, BoundTyped
    <2>4. /\ Values("stage", At.shape) \in Seq(StageType)
          /\ Means(statements, Values("stage", At.shape), "stage", At.shape, next)
      <3>1. \A v : ValueOk(statements, "stage", v) => v \in StageType
        BY DEF ValueOk
      <3>2. QED
        BY <1>3, <2>2, <3>1, BoundTyped
    <2>5. /\ Values("threshold", At.checks) \in Seq(CheckType)
          /\ Means(statements, Values("threshold", At.checks), "threshold", At.checks, next)
      <3>1. \A v : ValueOk(statements, "threshold", v) => v \in CheckType
        BY DEF ValueOk
      <3>2. QED
        BY <1>3, <2>2, <3>1, BoundTyped
    <2>6. spec' \in SpecType
      BY <2>1, <2>3, <2>4, <2>5 DEF SpecType
    <2>7. PlanAt(statements, spec', next, next + 1)
      <3>1. \A m \in 1..next : statements[m].call = "plan" => m = next
        BY <1>1, <1>3 DEF ReadInv, ReadOk, At
      <3>2. QED
        BY <1>1, <2>1, <2>3, <2>4, <2>5, <3>1 DEF PlanAt, At
    <2>8. ReadOk(statements, TRUE, spec', next + 1)
      BY <1>1, <2>7 DEF ReadOk
    <2>9. BoundOk(statements, bound, next + 1)
      BY <1>1, PassKeeps DEF Kinds
    <2>10. next + 1 \in 1..(Len(statements) + 1) /\ statements \in Seq(StatementType)
      BY <1>1 DEF ReadInv
    <2>11. QED
      BY <2>1, <2>6, <2>8, <2>9, <2>10 DEF ReadInv
  <1>4. QED
    BY <1>2, <1>3


\* The tasks of the first n users, each by its place.
TaskPlaces(users, n) == UNION {{i} \X DOMAIN users[i].tasks : i \in 1..n}

TallyType == [stages : Nat, users : Nat, duration : Int, elapsed : Nat, peak : Nat, tasks : Nat]

StageChecked(stage, peak) == stage.duration > 0 /\ stage.users <= peak
UserChecked(u) == u.tasks # <<>> /\ u.wait.mode # "unset"

\* The totals are of what has been checked so far.
TallyInv ==
    /\ tally \in TallyType /\ rate \in Int
    /\ tally.stages <= Len(spec.stages) /\ tally.users <= Len(spec.users)
    /\ \A i \in 1..tally.stages : StageChecked(spec.stages[i], tally.peak)
    /\ tally.elapsed < DurationRange => tally.duration = tally.elapsed
    /\ \A i \in 1..tally.users : UserChecked(spec.users[i])
    /\ IsFiniteSet(TaskPlaces(spec.users, tally.users))
    /\ Cardinality(TaskPlaces(spec.users, tally.users)) = tally.tasks
    /\ tally.tasks <= MaxLoadTasks

\* What each phase has found in order.
PhaseInv ==
    /\ planResult = "reading" => tally = NoTally
    /\ planResult \in {"stages", "users", "ok"} =>
          /\ foundPlan /\ next > Len(statements) /\ spec.users # <<>> /\ spec.stages # <<>>
          /\ Len(spec.stages) <= MaxLoadStages
    /\ planResult \in {"users", "ok"} =>
          tally.stages = Len(spec.stages) /\ tally.duration <= MaxLoadDuration /\ tally.peak <= MaxLoadUsers
    /\ planResult = "ok" =>
          /\ tally.users = Len(spec.users) /\ rate <= MaxLoadRate
          /\ variant \in {"constant_throughput", "open_model"} => rate > 0

PlanIndInv == ReadInv /\ TallyInv /\ PhaseInv

\* Below the range of a duration, addition does not wrap.
LEMMA NoWrap ==
  ASSUME NEW n \in Nat, n < DurationRange
  PROVE  Wrap(n) = n
  <1> DEFINE m == 2 * DurationRange
             x == n + DurationRange
  <1>1. m \in Nat \ {0} /\ x \in 0..(m - 1) /\ DurationRange \in Nat
    BY PlanAssumption
  <1>2. Wrap(n) = (x % m) - DurationRange
    BY DEF Wrap
  <1>3. x = n + DurationRange
    OBVIOUS
  <1> HIDE DEF m, x
  <1>4. x % m = x
    BY <1>1
  <1>5. QED
    BY <1>1, <1>2, <1>3, <1>4

\* One more user adds the places of that user's tasks.
LEMMA PlacesGrow ==
  ASSUME NEW users, NEW n \in Nat, NEW k \in Nat, DOMAIN users[n + 1].tasks = 1..k,
         IsFiniteSet(TaskPlaces(users, n))
  PROVE  /\ IsFiniteSet(TaskPlaces(users, n + 1))
         /\ Cardinality(TaskPlaces(users, n + 1)) = Cardinality(TaskPlaces(users, n)) + k
  <1> DEFINE u == n + 1
             old == TaskPlaces(users, n)
             new == {u} \X (1..k)
  <1>1. TaskPlaces(users, u) = old \cup new
    <2>1. 1..u = (1..n) \cup {u}
      OBVIOUS
    <2>2. {u} \X DOMAIN users[u].tasks = new
      OBVIOUS
    <2> HIDE DEF new, u
    <2>3. QED
      BY <2>1, <2>2 DEF TaskPlaces
  <1>2. old \cap new = {}
    <2>1. \A e \in old : \E i \in 1..n : e[1] = i
      BY DEF TaskPlaces
    <2>2. \A e \in new : e[1] = u
      OBVIOUS
    <2>3. u \notin 1..n
      OBVIOUS
    <2> HIDE DEF old, new, u
    <2>4. QED
      BY <2>1, <2>2, <2>3
  <1>3. /\ IsFiniteSet({u}) /\ Cardinality({u}) = 1
        /\ IsFiniteSet(1..k) /\ Cardinality(1..k) = k
    <2>1. IsFiniteSet(1..k) /\ Cardinality(1..k) = IF 1 > k THEN 0 ELSE k - 1 + 1
      BY FS_Interval
    <2>2. IsFiniteSet({u}) /\ Cardinality({u}) = 1
      BY FS_Singleton
    <2>3. QED
      BY <2>1, <2>2
  <1>4. IsFiniteSet(new) /\ Cardinality(new) = k
    <2>1. IsFiniteSet({u} \X (1..k)) /\ Cardinality({u} \X (1..k)) = Cardinality({u}) * Cardinality(1..k)
      BY <1>3, FS_Product
    <2>2. QED
      BY <1>3, <2>1
  <1> HIDE DEF old, new, u
  <1>5. IsFiniteSet(old) /\ Cardinality(old) \in Nat
    BY FS_CardinalityType DEF old
  <1>6. IsFiniteSet(old \cup new) /\ Cardinality(old \cup new) = Cardinality(old) + Cardinality(new) - Cardinality(old \cap new)
    BY <1>4, <1>5, FS_Union
  <1>7. Cardinality(old \cap new) = 0
    BY <1>2, FS_EmptySet
  <1>8. QED
    <2>1. IsFiniteSet(TaskPlaces(users, u)) /\ Cardinality(TaskPlaces(users, u)) = Cardinality(old) + k
      BY <1>1, <1>4, <1>5, <1>6, <1>7
    <2>2. QED
      BY <2>1 DEF old, u


\* Filling in a user's wait changes nothing else of the plan.
LEMMA WaitFilled ==
  ASSUME ReadInv, NEW u \in 1..Len(spec.users), NEW wait \in WaitType, foundPlan,
         spec' = [spec EXCEPT !.users[u].wait = wait], UNCHANGED <<statements, next, bound, foundPlan>>
  PROVE  /\ ReadInv'
         /\ spec'.stages = spec.stages /\ Len(spec'.users) = Len(spec.users)
         /\ \A i \in 1..Len(spec.users) : spec'.users[i].tasks = spec.users[i].tasks
         /\ \A i \in 1..Len(spec.users) : i # u => spec'.users[i] = spec.users[i]
         /\ spec'.users[u].wait = wait
  <1> DEFINE filled == [spec.users[u] EXCEPT !.wait = wait]
             users == [spec.users EXCEPT ![u] = filled]
  <1>1. /\ spec \in SpecType /\ spec.users \in Seq(UserType)
        /\ DOMAIN spec.users = 1..Len(spec.users) /\ spec.users[u] \in UserType
    BY DEF ReadInv, SpecType
  <1>2. /\ filled \in UserType /\ filled.wait = wait /\ filled.tasks = spec.users[u].tasks
        /\ filled.at = spec.users[u].at
    BY <1>1 DEF UserType
  <1>3. spec' = [spec EXCEPT !.users = users]
    BY <1>1 DEF SpecType
  <1> HIDE DEF filled
  <1>4. /\ users \in Seq(UserType) /\ DOMAIN users = 1..Len(spec.users) /\ Len(users) = Len(spec.users)
        /\ users[u] = filled /\ \A i \in 1..Len(spec.users) : i # u => users[i] = spec.users[i]
    BY <1>1, <1>2
  <1> HIDE DEF users
  <1>5. /\ spec'.users = users /\ spec'.stages = spec.stages /\ spec'.thresholds = spec.thresholds
        /\ spec' \in SpecType
    BY <1>1, <1>3, <1>4 DEF SpecType
  <1>6. \A i \in 1..Len(spec.users) : users[i].tasks = spec.users[i].tasks /\ users[i].at = spec.users[i].at
    BY <1>2, <1>4
  <1>7. PICK p \in 1..(next - 1) : PlanAt(statements, spec, p, next)
    BY DEF ReadInv, ReadOk
  <1>8. Means(statements, users, "user", statements[p].items, p)
    <2>1. /\ DOMAIN spec.users = DOMAIN statements[p].items
          /\ \A i \in DOMAIN statements[p].items :
                ValueOk(statements, "user", spec.users[i]) /\ LastBound(statements, "user", statements[p].items[i], spec.users[i].at, p)
      BY <1>7 DEF PlanAt, Means
    <2>2. ASSUME NEW i \in 1..Len(spec.users)
          PROVE  ValueOk(statements, "user", users[i])
      <3> DEFINE one == users[i]
      <3>a. one \in UserType
        BY <1>4
      <3>1. users[i] \in UserType /\ users[i].at \in Nat
        BY <3>a DEF UserType
      <3>2. UserOk(statements, spec.users[i])
        BY <1>1, <2>1 DEF ValueOk
      <3>3. UserOk(statements, users[i])
        BY <1>6, <3>2 DEF UserOk
      <3>4. QED
        BY <3>1, <3>3 DEF ValueOk
    <2>3. QED
      BY <1>1, <1>4, <1>6, <2>1, <2>2 DEF Means
  <1>9. PlanAt(statements, spec', p, next)
    BY <1>5, <1>7, <1>8 DEF PlanAt
  <1>10. ReadInv'
    BY <1>5, <1>9 DEF ReadInv, ReadOk
  <1>11. QED
    BY <1>2, <1>4, <1>5, <1>6, <1>10

\* Reading goes on with nothing checked.
LEMMA ReadingStep ==
  ASSUME PlanIndInv, UNCHANGED <<statements, variant, rate, tally>>,
         \/ ParseRequest \/ ParseWait \/ ParseThreshold \/ ParseStage \/ ParseTask \/ ParseUser
         \/ ApplyPlan \/ SkipStatement
  PROVE  PlanIndInv'
  <1>1. ReadInv'
    <2>1. CASE SkipStatement
      <3>1. Reading /\ At.call \notin Kinds \cup {"plan"} /\ next' = next + 1 /\ UNCHANGED <<bound, spec, foundPlan>>
        BY <2>1 DEF SkipStatement, Accept
      <3>2. BoundOk(statements, bound, next + 1) /\ ReadOk(statements, foundPlan, spec, next + 1)
        BY <3>1, PassKeeps, PlanStands DEF PlanIndInv
      <3>3. QED
        BY <3>1, <3>2 DEF PlanIndInv, ReadInv, Reading
    <2>2. QED
      BY <2>1, ParseStep, TaskReadStep, UserReadStep, PlanReadStep DEF PlanIndInv
  <1>2. /\ planResult = "reading" /\ tally = NoTally
        /\ planResult' \in {"reading", "request", "wait", "threshold", "duration", "task", "user", "twice", "plan"}
    BY DEF ParseRequest, ParseWait, ParseThreshold, ParseStage, ParseTask, ParseUser, ApplyPlan, SkipStatement, Bind,
           Accept, Refuse, Reading, PlanIndInv, PhaseInv
  <1>3. spec' \in SpecType /\ spec \in SpecType
    BY <1>1 DEF PlanIndInv, ReadInv
  <1>4. TallyInv'
    <2>1. Len(spec'.stages) >= 0 /\ Len(spec'.users) >= 0
      BY <1>3 DEF SpecType
    <2>2. \A users : TaskPlaces(users, 0) = {}
      BY DEF TaskPlaces
    <2>3. IsFiniteSet(TaskPlaces(spec'.users, 0)) /\ Cardinality(TaskPlaces(spec'.users, 0)) = 0
      BY <2>2, FS_EmptySet
    <2>4. tally' = NoTally /\ UNCHANGED rate
      BY <1>2
    <2>5. QED
      BY <2>1, <2>3, <2>4 DEF PlanIndInv, TallyInv, NoTally
  <1>5. PhaseInv'
    BY <1>2 DEF PhaseInv
  <1>6. QED
    BY <1>1, <1>4, <1>5 DEF PlanIndInv

\* A refusal of the checks.
LEMMA LimitStep ==
  ASSUME PlanIndInv, LimitExceeded, UNCHANGED <<statements, variant, next, bound, foundPlan>>
  PROVE  PlanIndInv'
  <1>1. /\ planResult' = "limit"
        /\ UNCHANGED <<rate, spec, tally, statements, variant, next, bound, foundPlan>>
    BY DEF LimitExceeded
  <1>2. ReadInv'
    BY <1>1 DEF PlanIndInv, ReadInv
  <1>3. TallyInv'
    BY <1>1 DEF PlanIndInv, TallyInv
  <1>4. PhaseInv'
    BY <1>1 DEF PhaseInv
  <1>5. QED
    BY <1>2, <1>3, <1>4 DEF PlanIndInv

\* A tally whose numbers are numbers is one.
LEMMA TallyChanged ==
  ASSUME NEW t \in TallyType, NEW new, new = [x \in DOMAIN t |-> new[x]],
         new.stages \in Nat, new.users \in Nat, new.duration \in Int,
         new.elapsed \in Nat, new.peak \in Nat, new.tasks \in Nat
  PROVE  new \in TallyType
  BY DEF TallyType

LEMMA SamePlaces ==
  ASSUME NEW a, NEW b, NEW n \in Nat, \A i \in 1..n : a[i].tasks = b[i].tasks
  PROVE  TaskPlaces(a, n) = TaskPlaces(b, n)
  BY DEF TaskPlaces

\* The stages, one by one.
LEMMA StageStep ==
  ASSUME PlanIndInv, ValidateStage, UNCHANGED <<statements, variant, next, bound, foundPlan>>
  PROVE  PlanIndInv'
  <1> DEFINE s == tally.stages + 1
             stage == spec.stages[s]
  <1>1. planResult = "stages" /\ s \in 1..Len(spec.stages) /\ stage \in StageType /\ tally \in TallyType
    <2>1. planResult = "stages" /\ tally.stages < Len(spec.stages) /\ tally \in TallyType /\ spec \in SpecType
      BY DEF ValidateStage, PlanIndInv, ReadInv, TallyInv
    <2>2. spec.stages \in Seq(StageType)
      BY <2>1 DEF SpecType
    <2>3. s \in 1..Len(spec.stages)
      BY <2>1, <2>2 DEF TallyType
    <2>4. QED
      BY <2>1, <2>2, <2>3
  <1>2. CASE stage.duration <= 0
    BY <1>2, LimitStep DEF ValidateStage
  <1>3. CASE stage.duration > 0
    <2>1. /\ tally' = [tally EXCEPT !.stages = @ + 1, !.duration = Wrap(@ + stage.duration),
                                    !.elapsed = @ + stage.duration, !.peak = PeakUsers(@, stage.users)]
          /\ UNCHANGED <<rate, spec, planResult>>
      BY <1>1, <1>3 DEF ValidateStage, StageType
    <2>2. stage.duration \in Nat /\ stage.duration > 0 /\ stage.users \in Int
      BY <1>1, <1>3 DEF StageType
    <2> HIDE DEF stage
    <2>3. /\ tally'.stages = s /\ tally'.duration = Wrap(tally.duration + stage.duration)
          /\ tally'.elapsed = tally.elapsed + stage.duration /\ tally'.peak = PeakUsers(tally.peak, stage.users)
          /\ tally'.users = tally.users /\ tally'.tasks = tally.tasks
      BY <1>1, <2>1 DEF TallyType
    <2>4. /\ PeakUsers(tally.peak, stage.users) \in Nat /\ PeakUsers(tally.peak, stage.users) >= tally.peak
          /\ PeakUsers(tally.peak, stage.users) >= stage.users
      BY <1>1, <2>2 DEF PeakUsers, TallyType
    <2>5. Wrap(tally.duration + stage.duration) \in Int
      <3>1. tally.duration + stage.duration \in Int /\ DurationRange \in Nat \ {0}
        BY <1>1, <2>2, PlanAssumption DEF TallyType
      <3>2. ASSUME NEW n \in Int PROVE Wrap(n) \in Int
        <4>1. n + DurationRange \in Int /\ 2 * DurationRange \in Nat \ {0}
          BY <3>1
        <4>2. (n + DurationRange) % (2 * DurationRange) \in Int
          BY <4>1
        <4>3. QED
          BY <3>1, <4>2 DEF Wrap
      <3>3. QED
        BY <3>1, <3>2
    <2>6. tally' \in TallyType
      <3>1. s \in Nat /\ tally.elapsed + stage.duration \in Nat
        BY <1>1, <2>2 DEF TallyType
      <3>2. QED
        <4>1. /\ tally'.users \in Nat /\ tally'.tasks \in Nat
              /\ tally' = [x \in DOMAIN tally |-> tally'[x]]
          BY <1>1, <2>1, <2>3 DEF TallyType
        <4>2. QED
          BY <1>1, <2>3, <2>4, <2>5, <3>1, <4>1, TallyChanged
    <2>7. ASSUME tally'.elapsed < DurationRange PROVE tally'.duration = tally'.elapsed
      <3>1. /\ tally.elapsed \in Nat /\ DurationRange \in Nat /\ tally.elapsed < DurationRange
            /\ tally.elapsed + stage.duration \in Nat
        BY <1>1, <2>2, <2>3, <2>7, PlanAssumption DEF TallyType
      <3>2. tally.duration = tally.elapsed
        BY <3>1 DEF PlanIndInv, TallyInv
      <3>3. QED
        BY <2>3, <2>7, <3>1, <3>2, NoWrap
    <2>8. ASSUME NEW i \in 1..s PROVE StageChecked(spec.stages[i], tally'.peak)
      <3>1. CASE i = s
        BY <2>2, <2>3, <2>4, <3>1 DEF StageChecked, stage
      <3>2. CASE i # s
        <4>1. i \in 1..tally.stages /\ spec.stages[i].users \in Int /\ tally.peak \in Nat
          <5>1. tally.stages \in Nat /\ tally.peak \in Nat
            BY <1>1 DEF TallyType
          <5>2. spec.stages \in Seq(StageType)
            BY DEF PlanIndInv, ReadInv, SpecType
          <5>3. i \in 1..tally.stages /\ i \in 1..Len(spec.stages)
            BY <1>1, <3>2, <5>1, <5>2
          <5>4. spec.stages[i] \in StageType
            BY <5>2, <5>3
          <5>5. QED
            BY <5>1, <5>3, <5>4 DEF StageType
        <4>2. StageChecked(spec.stages[i], tally.peak)
          BY <4>1 DEF PlanIndInv, TallyInv
        <4>3. QED
          BY <2>3, <2>4, <4>1, <4>2 DEF StageChecked
      <3>3. QED
        BY <3>1, <3>2
    <2> HIDE DEF s
    <2>9. TallyInv'
      BY <1>1, <2>1, <2>3, <2>6, <2>7, <2>8 DEF PlanIndInv, TallyInv
    <2>10. PhaseInv'
      BY <1>1, <2>1 DEF PlanIndInv, PhaseInv
    <2>11. ReadInv'
      BY <2>1 DEF PlanIndInv, ReadInv
    <2>12. QED
      BY <2>9, <2>10, <2>11 DEF PlanIndInv
  <1>4. QED
    BY <1>1, <1>2, <1>3 DEF StageType

\* The users, one by one.
LEMMA UserCheckStep ==
  ASSUME PlanIndInv, ValidateUser, UNCHANGED <<statements, variant, next, bound, foundPlan>>
  PROVE  PlanIndInv'
  <1> DEFINE u == tally.users + 1
             checked == spec.users[u]
             wait == IF checked.wait.mode = "unset" THEN DefaultWait ELSE checked.wait
  <1>1. /\ planResult = "users" /\ u \in 1..Len(spec.users) /\ checked \in UserType /\ tally \in TallyType
        /\ spec \in SpecType
    BY DEF ValidateUser, PlanIndInv, ReadInv, SpecType, TallyInv, TallyType
  <1>2. CASE checked.tasks = <<>> \/ tally.tasks + Len(checked.tasks) > MaxLoadTasks
    BY <1>2, LimitStep DEF ValidateUser
  <1>3. CASE ~(checked.tasks = <<>> \/ tally.tasks + Len(checked.tasks) > MaxLoadTasks)
    <2>1. /\ tally' = [tally EXCEPT !.users = u, !.tasks = @ + Len(checked.tasks)]
          /\ spec' = [spec EXCEPT !.users[u].wait = IF @.mode = "unset" THEN DefaultWait ELSE @]
          /\ UNCHANGED <<rate, planResult>>
      BY <1>3 DEF ValidateUser
    <2>2. wait \in WaitType /\ wait.mode # "unset"
      BY <1>1 DEF DefaultWait, UserType, WaitType
    <2>3. Len(checked.tasks) \in Nat /\ DOMAIN checked.tasks = 1..Len(checked.tasks)
      BY <1>1 DEF UserType
    <2>4. spec' = [spec EXCEPT !.users[u].wait = wait]
      BY <1>1, <2>1 DEF SpecType, UserType
    <2> HIDE DEF wait, checked
    <2>5. /\ tally'.users = u /\ tally'.tasks = tally.tasks + Len(checked.tasks) /\ tally'.stages = tally.stages
          /\ tally'.duration = tally.duration /\ tally'.elapsed = tally.elapsed /\ tally'.peak = tally.peak
          /\ tally' \in TallyType
      <3>1. u \in Nat /\ tally.tasks + Len(checked.tasks) \in Nat
        BY <1>1, <2>3 DEF TallyType
      <3> HIDE DEF u
      <3>2. /\ tally'.users = u /\ tally'.tasks = tally.tasks + Len(checked.tasks) /\ tally'.stages = tally.stages
            /\ tally'.duration = tally.duration /\ tally'.elapsed = tally.elapsed /\ tally'.peak = tally.peak
            /\ DOMAIN tally' = DOMAIN tally
        BY <1>1, <2>1 DEF TallyType
      <3>3. /\ tally'.stages \in Nat /\ tally'.duration \in Int /\ tally'.elapsed \in Nat /\ tally'.peak \in Nat
            /\ tally' = [x \in DOMAIN tally |-> tally'[x]]
        BY <1>1, <2>1, <3>2 DEF TallyType
      <3>4. QED
        BY <1>1, <3>1, <3>2, <3>3, TallyChanged
    <2> HIDE DEF u
    <2>6. foundPlan
      BY <1>1 DEF PlanIndInv, PhaseInv
    <2>7. /\ ReadInv'
          /\ spec'.stages = spec.stages /\ Len(spec'.users) = Len(spec.users)
          /\ \A i \in 1..Len(spec.users) : spec'.users[i].tasks = spec.users[i].tasks
          /\ \A i \in 1..Len(spec.users) : i # u => spec'.users[i] = spec.users[i]
          /\ spec'.users[u].wait = wait
      BY <1>1, <2>2, <2>4, <2>6, WaitFilled DEF PlanIndInv
    <2>8. /\ u = tally.users + 1 /\ tally.users \in Nat /\ tally.users <= Len(spec.users) /\ Len(spec.users) \in Nat
          /\ u <= Len(spec.users)
      BY <1>1 DEF u, TallyType, SpecType
    <2>9. \A i \in 1..u : UserChecked(spec'.users[i])
      <3>1. UserChecked(spec'.users[u])
        BY <1>1, <1>3, <2>2, <2>7 DEF UserChecked, checked
      <3>2. \A i \in 1..tally.users : UserChecked(spec.users[i])
        BY DEF PlanIndInv, TallyInv
      <3>3. QED
        BY <2>7, <2>8, <3>1, <3>2
    <2>10. /\ IsFiniteSet(TaskPlaces(spec'.users, u))
           /\ Cardinality(TaskPlaces(spec'.users, u)) = tally.tasks + Len(checked.tasks)
      <3>1. TaskPlaces(spec'.users, tally.users) = TaskPlaces(spec.users, tally.users)
        <4>1. tally.users \in Nat /\ \A i \in 1..tally.users : i \in 1..Len(spec.users)
          BY <2>8
        <4>2. \A i \in 1..tally.users : spec'.users[i].tasks = spec.users[i].tasks
          BY <2>7, <4>1
        <4>3. QED
          BY <4>1, <4>2, SamePlaces
      <3>2. /\ IsFiniteSet(TaskPlaces(spec'.users, tally.users))
            /\ Cardinality(TaskPlaces(spec'.users, tally.users)) = tally.tasks
        BY <3>1 DEF PlanIndInv, TallyInv
      <3>3. DOMAIN spec'.users[tally.users + 1].tasks = 1..Len(checked.tasks)
        BY <1>1, <2>3, <2>7, <2>8 DEF checked
      <3>4. QED
        BY <2>3, <2>8, <3>2, <3>3, PlacesGrow
    <2>11. tally.tasks + Len(checked.tasks) <= MaxLoadTasks
      BY <1>1, <1>3, <2>3, PlanAssumption DEF TallyType
    <2>12. TallyInv'
      BY <2>1, <2>5, <2>7, <2>8, <2>9, <2>10, <2>11 DEF PlanIndInv, TallyInv
    <2>13. PhaseInv'
      <3>1. spec'.users # <<>>
        <4>1. Len(spec'.users) > 0
          BY <2>7, <2>8
        <4>2. QED
          BY <4>1
      <3>2. QED
        BY <1>1, <2>1, <2>5, <2>7, <3>1 DEF PlanIndInv, PhaseInv
    <2>14. QED
      BY <2>7, <2>12, <2>13 DEF PlanIndInv
  <1>4. QED
    BY <1>2, <1>3


\* The steps between the phases.
LEMMA PhaseStep ==
  ASSUME PlanIndInv, BeginValidation \/ StagesValidated \/ AcceptPlan,
         UNCHANGED <<statements, variant, next, bound, foundPlan>>
  PROVE  PlanIndInv'
  <1> SUFFICES ASSUME ~LimitExceeded PROVE PlanIndInv'
    BY LimitStep
  <1>1. UNCHANGED <<spec, tally>>
    BY DEF BeginValidation, StagesValidated, AcceptPlan
  <1>2. ReadInv'
    BY <1>1 DEF PlanIndInv, ReadInv
  <1>3. tally \in TallyType /\ rate \in Int /\ variant = variant'
    BY DEF PlanIndInv, TallyInv
  <1>4. CASE BeginValidation
    <2>1. /\ planResult' \in {"stages", "planless"} /\ UNCHANGED rate /\ next > Len(statements)
          /\ planResult' = "stages" =>
                foundPlan /\ spec.users # <<>> /\ spec.stages # <<>> /\ ~(Len(spec.stages) > MaxLoadStages)
      BY <1>4 DEF BeginValidation
    <2>2. Len(spec.stages) \in Nat /\ MaxLoadStages \in Nat
      BY PlanAssumption DEF PlanIndInv, ReadInv, SpecType
    <2>3. TallyInv'
      BY <1>1, <2>1 DEF PlanIndInv, TallyInv
    <2>4. PhaseInv'
      BY <1>1, <2>1, <2>2 DEF PhaseInv
    <2>5. QED
      BY <1>2, <2>3, <2>4 DEF PlanIndInv
  <1>5. CASE StagesValidated
    <2>1. /\ planResult = "stages" /\ planResult' = "users" /\ UNCHANGED rate /\ tally.stages = Len(spec.stages)
          /\ ~(tally.duration > MaxLoadDuration) /\ ~(tally.peak > MaxLoadUsers)
      BY <1>5 DEF StagesValidated
    <2>2. tally.duration <= MaxLoadDuration /\ tally.peak <= MaxLoadUsers
      BY <1>3, <2>1, PlanAssumption DEF TallyType
    <2>3. TallyInv'
      BY <1>1, <2>1 DEF PlanIndInv, TallyInv
    <2>4. PhaseInv'
      BY <1>1, <2>1, <2>2 DEF PlanIndInv, PhaseInv
    <2>5. QED
      BY <1>2, <2>3, <2>4 DEF PlanIndInv
  <1>6. CASE AcceptPlan
    <2>1. /\ planResult = "users" /\ planResult' = "ok" /\ rate' = Rate /\ tally.users = Len(spec.users)
          /\ ~(Rate > MaxLoadRate)
      BY <1>6 DEF AcceptPlan
    <2>2. Rate \in Int /\ (variant \in {"constant_throughput", "open_model"} => Rate > 0)
      BY <1>3 DEF Rate, PeakUsers, TallyType
    <2> HIDE DEF Rate
    <2>3. Rate <= MaxLoadRate
      BY <2>1, <2>2, PlanAssumption
    <2>4. TallyInv'
      BY <1>1, <2>1, <2>2 DEF PlanIndInv, TallyInv
    <2>5. PhaseInv'
      BY <1>1, <2>1, <2>2, <2>3 DEF PlanIndInv, PhaseInv
    <2>6. QED
      BY <1>2, <2>4, <2>5 DEF PlanIndInv
  <1>7. QED
    BY <1>4, <1>5, <1>6

\* A plan that was read means what its statements say.
LEMMA ReadMeans == PlanIndInv => PlanMeansItsStatements
  <1> SUFFICES ASSUME PlanIndInv, planResult = "ok" PROVE PlanMeansItsStatements
    BY DEF PlanMeansItsStatements
  <1>1. /\ foundPlan /\ next > Len(statements) /\ next \in 1..(Len(statements) + 1)
        /\ statements \in Seq(StatementType)
    BY DEF PlanIndInv, PhaseInv, ReadInv
  <1>2. PICK q \in 1..(next - 1) : PlanAt(statements, spec, q, next)
    BY <1>1 DEF PlanIndInv, ReadInv, ReadOk
  <1>3. DOMAIN statements = 1..(next - 1) /\ q \in Nat
    BY <1>1
  <1>4. q \in DOMAIN statements /\ \A i \in DOMAIN statements : statements[i].call = "plan" <=> i = q
    BY <1>2, <1>3 DEF PlanAt
  <1> DEFINE p == CHOOSE i \in DOMAIN statements : statements[i].call = "plan"
  <1>5. p = q
    BY <1>4
  <1> HIDE DEF p
  <1>6. ASSUME NEW values, NEW k, NEW names, Means(statements, values, k, names, p)
        PROVE  /\ DOMAIN values = DOMAIN names
               /\ \A i \in DOMAIN names : values[i].at = Meaning(k, names[i], p)
    <2>1. DOMAIN values = DOMAIN names /\ \A i \in DOMAIN names : LastBound(statements, k, names[i], values[i].at, p)
      BY <1>6 DEF Means
    <2>2. QED
      BY <1>3, <1>5, <2>1, MeaningIsLast
  <1>7. /\ Means(statements, spec.users, "user", statements[p].items, p)
        /\ Means(statements, spec.stages, "stage", statements[p].shape, p)
        /\ Means(statements, spec.thresholds, "threshold", statements[p].checks, p)
    BY <1>2, <1>5 DEF PlanAt
  <1>8. ASSUME NEW u \in Range(spec.users), NEW i \in DOMAIN u.tasks
        PROVE  /\ u.tasks[i].at = Meaning("task", statements[u.at].items[i], u.at)
               /\ u.tasks[i].request = Meaning("request", statements[u.tasks[i].at].request, u.tasks[i].at)
    <2>1. u \in UserType /\ UserOk(statements, u)
      BY <1>7 DEF Range, Means, ValueOk
    <2>2. u.at \in Nat /\ u.tasks[i].at \in Nat
      <3>1. u.at \in Nat /\ u.tasks \in Seq(TaskType)
        BY <2>1 DEF UserType
      <3>2. u.tasks[i] \in TaskType
        BY <3>1
      <3>3. QED
        BY <3>1, <3>2 DEF TaskType
    <2>3. /\ LastBound(statements, "task", statements[u.at].items[i], u.tasks[i].at, u.at)
          /\ LastBound(statements, "request", statements[u.tasks[i].at].request, u.tasks[i].request, u.tasks[i].at)
      BY <2>1 DEF UserOk, TaskOk
    <2>4. QED
      BY <2>2, <2>3, MeaningIsLast
  <1>9. /\ DOMAIN spec.users = DOMAIN statements[p].items
        /\ \A i \in DOMAIN statements[p].items : spec.users[i].at = Meaning("user", statements[p].items[i], p)
    BY <1>6, <1>7
  <1>10. /\ DOMAIN spec.stages = DOMAIN statements[p].shape
         /\ \A i \in DOMAIN statements[p].shape : spec.stages[i].at = Meaning("stage", statements[p].shape[i], p)
    BY <1>6, <1>7
  <1>11. /\ DOMAIN spec.thresholds = DOMAIN statements[p].checks
         /\ \A i \in DOMAIN statements[p].checks :
               spec.thresholds[i].at = Meaning("threshold", statements[p].checks[i], p)
    BY <1>6, <1>7
  <1>12. QED
    BY <1>8, <1>9, <1>10, <1>11 DEF PlanMeansItsStatements, p

\* A plan that passed every check is within every limit.
LEMMA CheckedWithin == PlanIndInv => PlanWithinLimits
  <1> SUFFICES ASSUME PlanIndInv, planResult = "ok" PROVE PlanWithinLimits
    BY DEF PlanWithinLimits
  <1>1. /\ tally \in TallyType /\ spec \in SpecType
        /\ spec.users # <<>> /\ spec.stages # <<>> /\ Len(spec.stages) <= MaxLoadStages
        /\ tally.stages = Len(spec.stages) /\ tally.duration <= MaxLoadDuration /\ tally.peak <= MaxLoadUsers
        /\ tally.users = Len(spec.users) /\ rate <= MaxLoadRate
        /\ variant \in {"constant_throughput", "open_model"} => rate > 0
    BY DEF PlanIndInv, TallyInv, PhaseInv, ReadInv
  <1>2. /\ DOMAIN spec.stages = 1..tally.stages /\ DOMAIN spec.users = 1..tally.users
        /\ \A i \in DOMAIN spec.stages : spec.stages[i].users \in Int
    <2>1. spec.stages \in Seq(StageType) /\ spec.users \in Seq(UserType)
      BY <1>1 DEF SpecType
    <2>2. \A i \in DOMAIN spec.stages : spec.stages[i] \in StageType
      BY <2>1
    <2>3. QED
      BY <1>1, <2>1, <2>2 DEF StageType
  <1>3. tally.elapsed <= MaxLoadDuration \/ tally.elapsed >= DurationRange
    BY <1>1, PlanAssumption DEF PlanIndInv, TallyInv, TallyType
  <1>4. ASSUME NEW s \in Range(spec.stages) PROVE s.duration > 0 /\ s.users <= MaxLoadUsers
    <2>1. PICK i \in DOMAIN spec.stages : s = spec.stages[i]
      BY DEF Range
    <2>2. s.duration > 0 /\ s.users <= tally.peak
      BY <1>2, <2>1 DEF PlanIndInv, TallyInv, StageChecked
    <2>3. s.users \in Int /\ tally.peak \in Nat
      BY <1>1, <1>2, <2>1 DEF TallyType
    <2>4. QED
      BY <1>1, <2>2, <2>3, PlanAssumption
  <1>5. \A u \in Range(spec.users) : u.tasks # <<>> /\ u.wait.mode # "unset"
    BY <1>2 DEF Range, PlanIndInv, TallyInv, UserChecked
  <1>6. Cardinality(UNION {{i} \X DOMAIN spec.users[i].tasks : i \in DOMAIN spec.users}) <= MaxLoadTasks
    BY <1>2 DEF PlanIndInv, TallyInv, TaskPlaces
  <1>7. QED
    BY <1>1, <1>3, <1>4, <1>5, <1>6 DEF PlanWithinLimits

\* Whatever the file: an accepted plan runs the users, stages, thresholds,
\* tasks and requests its names stood for where they were used, and keeps to
\* every limit, its duration unless the sum of its stages overflowed
\* (parseLoadPlan, validateLoadSpec).
THEOREM PlansAreSound == PlanSpec => []AcceptedPlanSound
  <1>1. PlanInit => PlanIndInv
    <2> SUFFICES ASSUME PlanInit PROVE PlanIndInv
      OBVIOUS
    <2>1. statements \in Seq(StatementType)
      BY PlanAssumption DEF PlanInit, StatementType
    <2>2. BoundOk(statements, bound, next) /\ ReadOk(statements, foundPlan, spec, next)
      BY DEF PlanInit, BoundOk, ReadOk
    <2>3. spec \in SpecType /\ Len(spec.stages) = 0 /\ Len(spec.users) = 0
      BY DEF PlanInit, SpecType
    <2>4. next \in 1..(Len(statements) + 1)
      BY <2>1 DEF PlanInit
    <2>5. ReadInv
      BY <2>1, <2>2, <2>3, <2>4 DEF ReadInv
    <2>6. IsFiniteSet(TaskPlaces(spec.users, 0)) /\ Cardinality(TaskPlaces(spec.users, 0)) = 0
      <3>1. TaskPlaces(spec.users, 0) = {}
        BY DEF TaskPlaces
      <3>2. QED
        BY <3>1, FS_EmptySet
    <2>7. tally = NoTally /\ rate \in Int
      BY PlanAssumption DEF PlanInit
    <2>8. TallyInv
      BY <2>3, <2>6, <2>7, PlanAssumption DEF TallyInv, NoTally, TallyType
    <2>9. PhaseInv
      BY DEF PlanInit, PhaseInv
    <2>10. QED
      BY <2>5, <2>8, <2>9 DEF PlanIndInv
  <1>2. PlanIndInv /\ [PlanNext]_planVars => PlanIndInv'
    <2> SUFFICES ASSUME PlanIndInv, [PlanNext]_planVars PROVE PlanIndInv'
      OBVIOUS
    <2>1. CASE UNCHANGED planVars
      <3>1. ReadInv'
        BY <2>1 DEF planVars, PlanIndInv, ReadInv
      <3>2. TallyInv'
        BY <2>1 DEF planVars, PlanIndInv, TallyInv
      <3>3. PhaseInv'
        BY <2>1 DEF planVars, PlanIndInv, PhaseInv
      <3>4. QED
        BY <3>1, <3>2, <3>3 DEF PlanIndInv
    <2>2. CASE /\ BeginValidation \/ ValidateStage \/ StagesValidated \/ ValidateUser \/ AcceptPlan
               /\ UNCHANGED <<statements, variant, next, bound, foundPlan>>
      BY <2>2, PhaseStep, StageStep, UserCheckStep
    <2>3. CASE /\ \/ ParseRequest \/ ParseWait \/ ParseThreshold \/ ParseStage \/ ParseTask \/ ParseUser
                  \/ ApplyPlan \/ SkipStatement
               /\ UNCHANGED <<statements, variant, rate, tally>>
      BY <2>3, ReadingStep
    <2>4. QED
      BY <2>1, <2>2, <2>3 DEF PlanNext
  <1>3. PlanIndInv => AcceptedPlanSound
    BY ReadMeans, CheckedWithin DEF AcceptedPlanSound
  <1>4. QED
    BY <1>1, <1>2, <1>3, PTL DEF PlanSpec


-----------------------------------------------------------------------------
(* The default profile *)

RecordType == [id : STRING \X Nat, file : STRING, default : BOOLEAN, launchable : BOOLEAN]
ProfileType == [file : STRING, default : BOOLEAN]

Distinct(records) == \A i, j \in DOMAIN records : records[i].id = records[j].id => i = j

\* One launchable record is the default, if there is one.
Settled(records) ==
    \/ LaunchOptions(records) = {} /\ \A i \in DOMAIN records : ~records[i].default
    \/ \E w \in LaunchOptions(records) : \A i \in DOMAIN records : records[i].default <=> i = w

\* The profiles of a package.
PackageOk(package) ==
    /\ package \in Seq(ProfileType)
    /\ \A i, j \in DOMAIN package : package[i].file = package[j].file => i = j

\* Records that hold every profile of a package, launchable as the package says.
Covers(package, records) ==
    /\ \A i \in DOMAIN package : \E k \in DOMAIN records : records[k].id = <<package[i].file, 1>>
    /\ \A i \in DOMAIN package, k \in DOMAIN records :
          records[k].id = <<package[i].file, 1>> => records[k].launchable = Launchable(package[i].file)

LEMMA LeastIs ==
  ASSUME NEW S \in SUBSET Nat, S # {}
  PROVE  Least(S) \in S /\ \A j \in S : Least(S) <= j
  BY HasLeast DEF Least

LEMMA LeastOfOne ==
  ASSUME NEW w \in Nat
  PROVE  Least({w}) = w
  BY LeastIs

\* Places in a list are numbers.
LEMMA OptionPlaces ==
  ASSUME NEW records \in Seq(RecordType)
  PROVE  /\ DOMAIN records = 1..Len(records) /\ Len(records) \in Nat
         /\ LaunchOptions(records) \in SUBSET Nat /\ LaunchOptions(records) \subseteq DOMAIN records
         /\ Marked(records) \in SUBSET Nat /\ Marked(records) \subseteq LaunchOptions(records)
  BY DEF LaunchOptions, Marked

\* What normalizeRecords changes of a list: only who is the default.
LEMMA NormalizedIs ==
  ASSUME NEW records \in Seq(RecordType)
  PROVE  LET n == NormalizeRecords(records)
         IN  /\ n \in Seq(RecordType) /\ Len(n) = Len(records) /\ DOMAIN n = DOMAIN records
             /\ \A i \in DOMAIN records : n[i].id = records[i].id /\ n[i].launchable = records[i].launchable
             /\ LaunchOptions(n) = LaunchOptions(records)
             /\ Settled(n)
             /\ Marked(records) # {} => Marked(n) = {Least(Marked(records))}
  <1> DEFINE n == NormalizeRecords(records)
             pool == IF Marked(records) # {} THEN Marked(records) ELSE LaunchOptions(records)
             winner == IF pool # {} THEN Least(pool) ELSE 0
             made(i) == [records[i] EXCEPT !.default = (i = winner)]
  <1>1. n = [i \in DOMAIN records |-> made(i)]
    BY DEF NormalizeRecords
  <1>2. DOMAIN records = 1..Len(records) /\ Len(records) \in Nat /\ \A i \in DOMAIN records : records[i] \in RecordType
    OBVIOUS
  <1>3. \A i \in DOMAIN records : /\ made(i) \in RecordType /\ made(i).id = records[i].id
                                  /\ made(i).launchable = records[i].launchable /\ made(i).default = (i = winner)
    <2> SUFFICES ASSUME NEW i \in DOMAIN records
                 PROVE  /\ made(i) \in RecordType /\ made(i).id = records[i].id
                        /\ made(i).launchable = records[i].launchable /\ made(i).default = (i = winner)
      OBVIOUS
    <2>1. PICK b \in BOOLEAN : b = (i = winner)
      OBVIOUS
    <2>2. made(i) = [records[i] EXCEPT !.default = b]
      BY <2>1
    <2> HIDE DEF winner, made
    <2>3. QED
      BY <1>2, <2>1, <2>2 DEF RecordType
  <1> HIDE DEF made, n, winner
  <1>4. /\ n \in Seq(RecordType) /\ Len(n) = Len(records) /\ DOMAIN n = DOMAIN records
        /\ \A i \in DOMAIN records : n[i].id = records[i].id /\ n[i].launchable = records[i].launchable
        /\ \A i \in DOMAIN records : n[i].default <=> i = winner
    <2>1. DOMAIN n = DOMAIN records /\ \A i \in DOMAIN records : n[i] = made(i)
      BY <1>1
    <2>2. n \in Seq(RecordType) /\ Len(n) = Len(records)
      BY <1>1, <1>2, <1>3
    <2>3. QED
      BY <1>3, <2>1, <2>2
  <1>5. LaunchOptions(n) = LaunchOptions(records)
    BY <1>4 DEF LaunchOptions
  <1>6. pool \in SUBSET Nat /\ pool \subseteq LaunchOptions(records) /\ LaunchOptions(records) \subseteq DOMAIN records
    BY OptionPlaces
  <1>7. Settled(n) /\ (Marked(records) # {} => Marked(n) = {Least(Marked(records))})
    <2>1. CASE pool = {}
      <3>1. winner = 0 /\ LaunchOptions(records) = {} /\ Marked(records) = {}
        BY <2>1, OptionPlaces DEF winner
      <3>2. \A i \in DOMAIN n : ~n[i].default
        BY <1>2, <1>4, <3>1
      <3>3. QED
        BY <1>5, <3>1, <3>2 DEF Settled
    <2>2. CASE pool # {}
      <3>1. winner = Least(pool) /\ Least(pool) \in pool
        BY <1>6, <2>2, LeastIs DEF winner
      <3>2. winner \in LaunchOptions(n) /\ winner \in DOMAIN n
        BY <1>4, <1>5, <1>6, <3>1
      <3>3. Settled(n)
        BY <1>4, <3>2 DEF Settled
      <3>4. Marked(n) = {winner}
        BY <1>4, <3>2 DEF Marked, LaunchOptions
      <3>5. QED
        BY <3>1, <3>3, <3>4
    <2>3. QED
      BY <2>1, <2>2
  <1>8. QED
    BY <1>4, <1>5, <1>7 DEF n

\* Who is the default of a settled list, for the profiles page and for a launch.
LEMMA SettledDefault ==
  ASSUME NEW records \in Seq(RecordType), Settled(records)
  PROVE  /\ LaunchDefault(records) = DefaultProfile(records)
         /\ LaunchOptions(records) = {} => Marked(records) = {} /\ DefaultProfile(records) = NoProfile
         /\ LaunchOptions(records) # {} =>
               \E w \in LaunchOptions(records) : /\ Marked(records) = {w} /\ DefaultProfile(records) = records[w].id
                                                 /\ \A i \in DOMAIN records : records[i].default <=> i = w
  <1>1. CASE LaunchOptions(records) = {}
    BY <1>1 DEF Marked, DefaultProfile, LaunchDefault
  <1>2. CASE LaunchOptions(records) # {}
    <2>1. PICK w \in LaunchOptions(records) : \A i \in DOMAIN records : records[i].default <=> i = w
      BY <1>2 DEF Settled
    <2>2. w \in Nat /\ w \in DOMAIN records
      BY OptionPlaces
    <2>3. Marked(records) = {w}
      BY <2>1, <2>2 DEF Marked, LaunchOptions
    <2>4. Least(Marked(records)) = w
      BY <2>2, <2>3, LeastOfOne
    <2>5. DefaultProfile(records) = records[w].id /\ LaunchDefault(records) = records[w].id
      BY <2>3, <2>4 DEF DefaultProfile, LaunchDefault
    <2>6. QED
      BY <1>2, <2>1, <2>3, <2>5
  <1>3. QED
    BY <1>1, <1>2

\* The first record that asks to be the default is.
LEMMA FirstAsks ==
  ASSUME NEW records \in Seq(RecordType), NEW w \in Marked(records), \A j \in Marked(records) : w <= j
  PROVE  DefaultProfile(NormalizeRecords(records)) = records[w].id
  <1> DEFINE n == NormalizeRecords(records)
  <1>1. Marked(records) \in SUBSET Nat /\ Marked(records) # {} /\ w \in Nat /\ w \in DOMAIN records
    BY OptionPlaces
  <1>2. Least(Marked(records)) = w
    BY <1>1, LeastIs
  <1>3. Marked(n) = {w} /\ n[w].id = records[w].id
    BY <1>1, <1>2, NormalizedIs
  <1> HIDE DEF n
  <1>4. Least(Marked(n)) = w
    BY <1>1, <1>3, LeastOfOne
  <1>5. DefaultProfile(n) = records[w].id
    BY <1>3, <1>4 DEF DefaultProfile
  <1>6. QED
    BY <1>5 DEF n


\* The records at some places of a list: those and no others, each once.
LEMMA RecordsAtIs ==
  ASSUME NEW records \in Seq(RecordType), NEW places \in SUBSET DOMAIN records
  PROVE  LET e == RecordsAt(records, places)
         IN  /\ e \in Seq(RecordType)
             /\ \A k \in DOMAIN e : \E i \in places : e[k] = records[i]
             /\ \A i \in places : \E k \in DOMAIN e : e[k] = records[i]
             /\ Distinct(records) => Distinct(e)
  <1> DEFINE upTo(i) == {j \in places : j <= i}
             c == Cardinality(places)
             rank == [i \in places |-> Cardinality(upTo(i))]
             at(k) == CHOOSE i \in places : Cardinality(upTo(i)) = k
             e == RecordsAt(records, places)
  <1>1. places \in SUBSET Nat /\ IsFiniteSet(places) /\ c \in Nat
    <2>1. DOMAIN records = 1..Len(records) /\ Len(records) \in Nat
      OBVIOUS
    <2>2. IsFiniteSet(1..Len(records))
      BY <2>1, FS_Interval
    <2>3. IsFiniteSet(places)
      BY <2>1, <2>2, FS_Subset
    <2>4. QED
      BY <2>1, <2>3, FS_CardinalityType
  <1>2. ASSUME NEW i \in places
        PROVE  /\ upTo(i) \in SUBSET places /\ i \in upTo(i) /\ IsFiniteSet(upTo(i))
               /\ Cardinality(upTo(i)) \in 1..c
    <2>1. upTo(i) \in SUBSET places /\ i \in upTo(i)
      BY <1>1
    <2> HIDE DEF upTo
    <2>2. IsFiniteSet(upTo(i)) /\ Cardinality(upTo(i)) <= c
      BY <1>1, <2>1, FS_Subset
    <2>3. Cardinality(upTo(i)) \in Nat /\ Cardinality(upTo(i)) # 0
      BY <2>1, <2>2, FS_CardinalityType, FS_EmptySet
    <2> HIDE DEF c
    <2>4. QED
      BY <1>1, <2>1, <2>2, <2>3
  <1>3. ASSUME NEW i \in places, NEW k \in places, i < k
        PROVE  Cardinality(upTo(i)) # Cardinality(upTo(k))
    <2>1. upTo(i) \in SUBSET upTo(k) /\ k \notin upTo(i)
      BY <1>1, <1>3
    <2>2. k \in upTo(k) /\ IsFiniteSet(upTo(k))
      BY <1>2
    <2> HIDE DEF upTo
    <2>3. QED
      BY <2>1, <2>2, FS_Subset
  <1>4. \A i, k \in places : Cardinality(upTo(i)) = Cardinality(upTo(k)) => i = k
    <2> SUFFICES ASSUME NEW i \in places, NEW k \in places, i # k
                 PROVE  Cardinality(upTo(i)) # Cardinality(upTo(k))
      OBVIOUS
    <2>1. i < k \/ k < i
      BY <1>1
    <2> HIDE DEF upTo
    <2>2. QED
      BY <1>3, <2>1
  <1> HIDE DEF upTo
  <1>5. ASSUME NEW k \in 1..c PROVE \E i \in places : Cardinality(upTo(i)) = k
    <2>1. rank \in [places -> 1..c] /\ \A a, b \in places : rank[a] = rank[b] => a = b
      BY <1>2, <1>4
    <2> HIDE DEF rank
    <2>2. rank \in Injection(places, 1..c)
      BY <2>1, Fun_IsInj
    <2>3. IsFiniteSet(1..c) /\ Cardinality(1..c) = c
      BY <1>1, FS_Interval
    <2>4. rank \in Surjection(places, 1..c)
      <3>1. c = Cardinality(places)
        OBVIOUS
      <3> HIDE DEF c
      <3>2. Cardinality(places) = Cardinality(1..c) <=> rank \in Surjection(places, 1..c)
        BY <2>2, <2>3, FS_Injection
      <3>3. QED
        BY <2>3, <3>1, <3>2
    <2>5. \A l \in 1..c : \E i \in places : rank[i] = l
      <3> HIDE DEF c
      <3>1. QED
        BY <2>4, Fun_SurjectionProperties
    <2>6. QED
      BY <2>5 DEF rank
  <1>6. /\ \A k \in 1..c : at(k) \in places /\ Cardinality(upTo(at(k))) = k
        /\ \A i \in places : at(Cardinality(upTo(i))) = i
    BY <1>2, <1>4, <1>5
  <1>7. e = [k \in 1..c |-> records[at(k)]]
    BY DEF RecordsAt, upTo
  <1> HIDE DEF at, c, e
  <1>8. e \in Seq(RecordType) /\ DOMAIN e = 1..c /\ \A k \in 1..c : e[k] = records[at(k)]
    BY <1>1, <1>6, <1>7
  <1>9. /\ \A k \in DOMAIN e : \E i \in places : e[k] = records[i]
        /\ \A i \in places : \E k \in DOMAIN e : e[k] = records[i]
    BY <1>2, <1>6, <1>8
  <1>10. ASSUME Distinct(records), NEW k \in 1..c, NEW l \in 1..c, e[k].id = e[l].id
         PROVE  k = l
    <2>1. at(k) = at(l)
      BY <1>6, <1>8, <1>10 DEF Distinct
    <2>2. QED
      BY <1>6, <2>1
  <1>11. Distinct(records) => Distinct(e)
    BY <1>8, <1>10 DEF Distinct
  <1>12. QED
    BY <1>8, <1>9, <1>11 DEF e

\* Where a profile is in a list.
LEMMA IndexIs ==
  ASSUME NEW records \in Seq(RecordType), NEW id
  PROVE  /\ IndexOf(records, id) = 0 => \A i \in DOMAIN records : records[i].id # id
         /\ IndexOf(records, id) # 0 => IndexOf(records, id) \in DOMAIN records /\ records[IndexOf(records, id)].id = id
  <1> DEFINE found == {i \in DOMAIN records : records[i].id = id}
  <1>1. IndexOf(records, id) = IF found = {} THEN 0 ELSE Least(found)
    BY DEF IndexOf
  <1>2. found \in SUBSET Nat /\ 0 \notin found
    OBVIOUS
  <1>3. CASE found = {}
    BY <1>1, <1>3
  <1>4. CASE found # {}
    <2>1. Least(found) \in found
      BY <1>2, <1>4, LeastIs
    <2>2. IndexOf(records, id) = Least(found)
      BY <1>1, <1>4
    <2>3. QED
      BY <1>2, <2>1, <2>2
  <1>5. QED
    BY <1>3, <1>4


\* A package's own records, and the list that mergeSuiteProfiles normalises.
BaseOf(package) == NormalizeRecords([i \in DOMAIN package |-> SeedRecord(package[i])])
OverlaidBy(records, s) ==
    IF IndexOf(records, s.id) = 0 THEN s ELSE [records[IndexOf(records, s.id)] EXCEPT !.launchable = s.launchable]
OwnPlaces(package, records) == {i \in DOMAIN records : IndexOf(BaseOf(package), records[i].id) = 0}
MergedList(package, records) ==
    [i \in DOMAIN BaseOf(package) |-> OverlaidBy(records, BaseOf(package)[i])]
        \o RecordsAt(records, OwnPlaces(package, records))

LEMMA MergeIs ==
  ASSUME NEW package, NEW records
  PROVE  MergeSuiteProfiles(package, records) =
            IF records = <<>> THEN BaseOf(package) ELSE NormalizeRecords(MergedList(package, records))
  BY DEF MergeSuiteProfiles, BaseOf, MergedList, OverlaidBy, OwnPlaces

LEMMA BaseIs ==
  ASSUME NEW package, PackageOk(package)
  PROVE  /\ BaseOf(package) \in Seq(RecordType) /\ DOMAIN BaseOf(package) = DOMAIN package
         /\ \A i \in DOMAIN package : /\ BaseOf(package)[i].id = <<package[i].file, 1>>
                                      /\ BaseOf(package)[i].launchable = Launchable(package[i].file)
         /\ Settled(BaseOf(package)) /\ Distinct(BaseOf(package))
  <1> DEFINE s == [i \in DOMAIN package |-> SeedRecord(package[i])]
  <1>1. /\ DOMAIN package = 1..Len(package) /\ Len(package) \in Nat
        /\ \A i \in DOMAIN package : package[i] \in ProfileType
    BY DEF PackageOk
  <1>2. ASSUME NEW i \in DOMAIN package
        PROVE  /\ SeedRecord(package[i]) \in RecordType /\ SeedRecord(package[i]).id = <<package[i].file, 1>>
               /\ SeedRecord(package[i]).launchable = Launchable(package[i].file)
    <2>1. package[i].file \in STRING /\ package[i].default \in BOOLEAN
      BY <1>1 DEF ProfileType
    <2>2. Launchable(package[i].file) \in BOOLEAN
      BY DEF Launchable
    <2> HIDE DEF Launchable
    <2>3. QED
      BY <2>1, <2>2 DEF SeedRecord, RecordType
  <1> HIDE DEF SeedRecord
  <1>3. s \in Seq(RecordType) /\ DOMAIN s = DOMAIN package /\ \A i \in DOMAIN package : s[i] = SeedRecord(package[i])
    BY <1>1, <1>2
  <1>4. BaseOf(package) = NormalizeRecords(s)
    BY DEF BaseOf
  <1> HIDE DEF s
  <1>5. /\ BaseOf(package) \in Seq(RecordType) /\ DOMAIN BaseOf(package) = DOMAIN package /\ Settled(BaseOf(package))
        /\ \A i \in DOMAIN package : /\ BaseOf(package)[i].id = s[i].id
                                     /\ BaseOf(package)[i].launchable = s[i].launchable
    BY <1>3, <1>4, NormalizedIs
  <1>6. \A i \in DOMAIN package : /\ BaseOf(package)[i].id = <<package[i].file, 1>>
                                  /\ BaseOf(package)[i].launchable = Launchable(package[i].file)
    BY <1>2, <1>3, <1>5
  <1>7. Distinct(BaseOf(package))
    <2>1. ASSUME NEW i \in DOMAIN package, NEW j \in DOMAIN package, BaseOf(package)[i].id = BaseOf(package)[j].id
          PROVE  i = j
      <3>1. <<package[i].file, 1>> = <<package[j].file, 1>>
        BY <1>6, <2>1
      <3>2. package[i].file = package[j].file
        BY <3>1
      <3>3. QED
        BY <3>2 DEF PackageOk
    <2>2. QED
      BY <1>5, <2>1 DEF Distinct
  <1>8. QED
    BY <1>5, <1>6, <1>7

\* What the list holds: the package's profiles, then those only the document has.
LEMMA MergedIs ==
  ASSUME NEW package, PackageOk(package), NEW records \in Seq(RecordType), Distinct(records)
  PROVE  LET m == MergedList(package, records)
         IN  /\ m \in Seq(RecordType) /\ Distinct(m) /\ Covers(package, m)
             /\ Covers(package, records) =>
                   /\ \A k \in DOMAIN m : \E i \in DOMAIN records : m[k] = records[i]
                   /\ \A i \in DOMAIN records : \E k \in DOMAIN m : m[k] = records[i]
  <1> DEFINE base == BaseOf(package)
             over == [i \in DOMAIN base |-> OverlaidBy(records, base[i])]
             own == OwnPlaces(package, records)
             extra == RecordsAt(records, own)
             m == over \o extra
             n == Len(package)
  <1>1. /\ base \in Seq(RecordType) /\ DOMAIN base = 1..n /\ n \in Nat /\ DOMAIN package = 1..n /\ Distinct(base)
        /\ \A i \in 1..n : base[i].id = <<package[i].file, 1>> /\ base[i].launchable = Launchable(package[i].file)
    <2>1. DOMAIN package = 1..n /\ n \in Nat
      BY DEF PackageOk
    <2>2. QED
      BY <2>1, BaseIs
  <1> HIDE DEF base, n
  <1>2. ASSUME NEW s \in RecordType
        PROVE  /\ OverlaidBy(records, s) \in RecordType /\ OverlaidBy(records, s).id = s.id
               /\ OverlaidBy(records, s).launchable = s.launchable
               /\ IndexOf(records, s.id) # 0 /\ records[IndexOf(records, s.id)].launchable = s.launchable =>
                     OverlaidBy(records, s) = records[IndexOf(records, s.id)]
    <2>1. CASE IndexOf(records, s.id) = 0
      BY <2>1 DEF OverlaidBy
    <2>2. CASE IndexOf(records, s.id) # 0
      <3> DEFINE r == records[IndexOf(records, s.id)]
      <3>1. r \in RecordType /\ r.id = s.id
        BY <2>2, IndexIs
      <3>2. OverlaidBy(records, s) = [r EXCEPT !.launchable = s.launchable]
        BY <2>2 DEF OverlaidBy
      <3> HIDE DEF r
      <3>3. /\ [r EXCEPT !.launchable = s.launchable] \in RecordType
            /\ [r EXCEPT !.launchable = s.launchable].id = s.id
            /\ [r EXCEPT !.launchable = s.launchable].launchable = s.launchable
            /\ r.launchable = s.launchable => [r EXCEPT !.launchable = s.launchable] = r
        BY <3>1 DEF RecordType
      <3>4. QED
        BY <3>2, <3>3 DEF r
    <2>3. QED
      BY <2>1, <2>2
  <1>3. /\ over \in Seq(RecordType) /\ Len(over) = n /\ DOMAIN over = 1..n
        /\ \A i \in 1..n : over[i] = OverlaidBy(records, base[i]) /\ base[i] \in RecordType
    BY <1>1, <1>2
  <1> HIDE DEF over
  <1>4. own \in SUBSET DOMAIN records /\ \A i \in own : \A k \in 1..n : records[i].id # base[k].id
    BY <1>1, IndexIs DEF OwnPlaces, base
  <1>5. \A i \in DOMAIN records : i \in own \/ \E k \in 1..n : base[k].id = records[i].id
    BY <1>1, IndexIs DEF OwnPlaces, base
  <1> HIDE DEF own
  <1>6. /\ extra \in Seq(RecordType) /\ Distinct(extra)
        /\ \A k \in DOMAIN extra : \E i \in own : extra[k] = records[i]
        /\ \A i \in own : \E k \in DOMAIN extra : extra[k] = records[i]
    BY <1>4, RecordsAtIs
  <1> HIDE DEF extra
  <1>7. /\ m \in Seq(RecordType) /\ DOMAIN m = 1..(n + Len(extra)) /\ Len(extra) \in Nat /\ DOMAIN extra = 1..Len(extra)
        /\ \A k \in 1..n : m[k] = over[k]
        /\ \A k \in 1..Len(extra) : m[n + k] = extra[k]
    <2>1. Len(extra) \in Nat /\ DOMAIN extra = 1..Len(extra)
      BY <1>6
    <2>2. over \o extra \in Seq(RecordType) /\ Len(over \o extra) = n + Len(extra)
      <3>1. over \in Seq(RecordType) /\ extra \in Seq(RecordType) /\ Len(over) = n
        BY <1>3, <1>6
      <3>2. over \o extra \in Seq(RecordType)
        BY <3>1
      <3>3. Len(over \o extra) = Len(over) + Len(extra)
        BY <3>1
      <3>4. QED
        BY <3>1, <3>2, <3>3
    <2>3. DOMAIN (over \o extra) = 1..(n + Len(extra))
      BY <2>2
    <2>4. \A k \in 1..n : (over \o extra)[k] = over[k]
      BY <1>1, <1>3, <1>6, <2>1
    <2>5. ASSUME NEW k \in 1..Len(extra) PROVE (over \o extra)[n + k] = extra[k]
      <3>1. n + k \in 1..(Len(over) + Len(extra)) /\ n + k > Len(over) /\ (n + k) - Len(over) = k
        BY <1>1, <1>3, <2>1
      <3>2. QED
        BY <1>3, <1>6, <3>1
    <2>6. QED
      BY <2>1, <2>2, <2>3, <2>4, <2>5
  <1> HIDE DEF m
  <1>8. \A k \in DOMAIN m : k \in 1..n \/ \E l \in 1..Len(extra) : k = n + l
    <2> SUFFICES ASSUME NEW k \in DOMAIN m, k \notin 1..n PROVE \E l \in 1..Len(extra) : k = n + l
      OBVIOUS
    <2>1. k - n \in 1..Len(extra) /\ k = n + (k - n)
      BY <1>1, <1>7
    <2>2. QED
      BY <2>1
  <1>9. \A k \in 1..n : m[k].id = base[k].id /\ m[k].launchable = base[k].launchable
    BY <1>2, <1>3, <1>7
  <1>10. \A l \in 1..Len(extra) : \A k \in 1..n : m[n + l].id # base[k].id
    <2> SUFFICES ASSUME NEW l \in 1..Len(extra), NEW k \in 1..n PROVE m[n + l].id # base[k].id
      OBVIOUS
    <2>1. PICK i \in own : extra[l] = records[i]
      BY <1>6, <1>7
    <2>2. m[n + l] = records[i]
      BY <1>7, <2>1
    <2>3. QED
      BY <1>4, <2>2
  <1>11. Distinct(m)
    <2> SUFFICES ASSUME NEW k \in DOMAIN m, NEW j \in DOMAIN m, m[k].id = m[j].id PROVE k = j
      BY DEF Distinct
    <2>1. CASE k \in 1..n /\ j \in 1..n
      BY <1>1, <1>9, <2>1 DEF Distinct
    <2>2. CASE k \in 1..n /\ j \notin 1..n
      BY <1>8, <1>9, <1>10, <2>2
    <2>3. CASE k \notin 1..n /\ j \in 1..n
      BY <1>8, <1>9, <1>10, <2>3
    <2>4. CASE k \notin 1..n /\ j \notin 1..n
      <3>1. PICK a \in 1..Len(extra) : k = n + a
        BY <1>8, <2>4
      <3>2. PICK b \in 1..Len(extra) : j = n + b
        BY <1>8, <2>4
      <3>3. extra[a].id = extra[b].id
        BY <1>7, <3>1, <3>2
      <3>4. a = b
        BY <1>6, <1>7, <3>3 DEF Distinct
      <3>5. QED
        BY <3>1, <3>2, <3>4
    <2>5. QED
      BY <2>1, <2>2, <2>3, <2>4
  <1>12. Covers(package, m)
    <2>1. \A i \in 1..n : i \in DOMAIN m /\ m[i].id = <<package[i].file, 1>>
      BY <1>1, <1>7, <1>9
    <2>2. ASSUME NEW i \in 1..n, NEW k \in DOMAIN m, m[k].id = <<package[i].file, 1>>
          PROVE  m[k].launchable = Launchable(package[i].file)
      <3>1. k = i
        BY <1>11, <2>1, <2>2 DEF Distinct
      <3>2. QED
        BY <1>1, <1>9, <3>1
    <2>3. QED
      BY <1>1, <2>1, <2>2 DEF Covers
  <1>13. ASSUME Covers(package, records), NEW k \in 1..n
         PROVE  IndexOf(records, base[k].id) \in DOMAIN records /\ m[k] = records[IndexOf(records, base[k].id)]
    <2> DEFINE x == IndexOf(records, base[k].id)
    <2>1. PICK i \in DOMAIN records : records[i].id = base[k].id
      BY <1>1, <1>13 DEF Covers
    <2>2. x # 0 /\ x \in DOMAIN records /\ records[x].id = base[k].id
      BY <2>1, IndexIs
    <2>3. records[x].launchable = base[k].launchable
      BY <1>1, <1>13, <2>2 DEF Covers
    <2>4. QED
      BY <1>2, <1>3, <1>7, <2>2, <2>3
  <1>14. ASSUME Covers(package, records)
         PROVE  /\ \A k \in DOMAIN m : \E i \in DOMAIN records : m[k] = records[i]
                /\ \A i \in DOMAIN records : \E k \in DOMAIN m : m[k] = records[i]
    <2>1. ASSUME NEW k \in DOMAIN m PROVE \E i \in DOMAIN records : m[k] = records[i]
      <3>1. CASE k \in 1..n
        BY <1>13, <1>14, <3>1
      <3>2. CASE k \notin 1..n
        <4>1. PICK l \in 1..Len(extra) : k = n + l
          BY <1>8, <3>2
        <4>2. PICK i \in own : extra[l] = records[i]
          BY <1>6, <1>7
        <4>3. i \in DOMAIN records /\ m[k] = records[i]
          BY <1>4, <1>7, <4>1, <4>2
        <4>4. QED
          BY <4>3
      <3>3. QED
        BY <3>1, <3>2
    <2>2. ASSUME NEW i \in DOMAIN records PROVE \E k \in DOMAIN m : m[k] = records[i]
      <3>1. CASE i \in own
        <4>1. PICK l \in 1..Len(extra) : extra[l] = records[i]
          BY <1>6, <1>7, <3>1
        <4>2. n + l \in DOMAIN m /\ m[n + l] = records[i]
          BY <1>1, <1>7, <4>1
        <4>3. QED
          BY <4>2
      <3>2. CASE i \notin own
        <4>1. PICK k \in 1..n : base[k].id = records[i].id
          BY <1>5, <3>2
        <4>2. IndexOf(records, base[k].id) = i
          BY <1>13, <1>14, <4>1, IndexIs DEF Distinct
        <4>3. k \in DOMAIN m
          BY <1>1, <1>7
        <4>4. QED
          BY <1>13, <1>14, <4>2, <4>3
      <3>3. QED
        BY <3>1, <3>2
    <2>3. QED
      BY <2>1, <2>2
  <1>15. m = MergedList(package, records)
    BY DEF m, MergedList, over, extra, own, base
  <1>16. QED
    BY <1>7, <1>11, <1>12, <1>14, <1>15


LEMMA NormalKeeps ==
  ASSUME NEW package, NEW records \in Seq(RecordType), Distinct(records)
  PROVE  /\ Distinct(NormalizeRecords(records))
         /\ Covers(package, records) => Covers(package, NormalizeRecords(records))
  <1> DEFINE n == NormalizeRecords(records)
  <1>1. /\ DOMAIN n = DOMAIN records
        /\ \A i \in DOMAIN records : n[i].id = records[i].id /\ n[i].launchable = records[i].launchable
    BY NormalizedIs
  <1> HIDE DEF n
  <1>2. Distinct(n)
    BY <1>1 DEF Distinct
  <1>3. Covers(package, records) => Covers(package, n)
    BY <1>1 DEF Covers
  <1>4. QED
    BY <1>2, <1>3 DEF n

\* Normalising a settled list again leaves its default.
LEMMA SettledTwice ==
  ASSUME NEW records \in Seq(RecordType), Settled(records)
  PROVE  DefaultProfile(NormalizeRecords(records)) = DefaultProfile(records)
  <1>1. CASE LaunchOptions(records) = {}
    <2> DEFINE n == NormalizeRecords(records)
    <2>1. n \in Seq(RecordType) /\ Settled(n) /\ LaunchOptions(n) = {}
      BY <1>1, NormalizedIs
    <2> HIDE DEF n
    <2>2. DefaultProfile(n) = NoProfile /\ DefaultProfile(records) = NoProfile
      BY <1>1, <2>1, SettledDefault
    <2>3. QED
      BY <2>2 DEF n
  <1>2. CASE LaunchOptions(records) # {}
    <2>1. PICK w \in LaunchOptions(records) : Marked(records) = {w} /\ DefaultProfile(records) = records[w].id
      BY <1>2, SettledDefault
    <2>2. w \in Nat
      BY OptionPlaces
    <2>3. QED
      BY <2>1, <2>2, FirstAsks
  <1>3. QED
    BY <1>1, <1>2

\* What a user sees of a stored document.
LEMMA VisibleIs ==
  ASSUME NEW package, PackageOk(package), NEW records \in Seq(RecordType), Distinct(records)
  PROVE  LET v == MergeSuiteProfiles(package, records)
         IN  v \in Seq(RecordType) /\ Distinct(v) /\ Covers(package, v) /\ Settled(v)
  <1>1. CASE records = <<>>
    <2> DEFINE base == BaseOf(package)
    <2>1. MergeSuiteProfiles(package, records) = base
      BY <1>1, MergeIs
    <2>2. /\ base \in Seq(RecordType) /\ Distinct(base) /\ Settled(base) /\ DOMAIN base = DOMAIN package
          /\ \A i \in DOMAIN package : base[i].id = <<package[i].file, 1>> /\ base[i].launchable = Launchable(package[i].file)
      BY BaseIs
    <2> HIDE DEF base
    <2>3. Covers(package, base)
      BY <2>2 DEF Covers, Distinct
    <2>4. QED
      BY <2>1, <2>2, <2>3
  <1>2. CASE records # <<>>
    <2> DEFINE m == MergedList(package, records)
    <2>1. MergeSuiteProfiles(package, records) = NormalizeRecords(m)
      BY <1>2, MergeIs
    <2>2. m \in Seq(RecordType) /\ Distinct(m) /\ Covers(package, m)
      BY MergedIs
    <2> HIDE DEF m
    <2>3. NormalizeRecords(m) \in Seq(RecordType) /\ Settled(NormalizeRecords(m))
      BY <2>2, NormalizedIs
    <2>4. QED
      BY <2>1, <2>2, <2>3, NormalKeeps
  <1>3. QED
    BY <1>1, <1>2

\* A document that holds the package's profiles is seen with its own default.
LEMMA DefaultKept ==
  ASSUME NEW package, PackageOk(package), NEW records \in Seq(RecordType), Distinct(records), Settled(records),
         Covers(package, records)
  PROVE  DefaultProfile(MergeSuiteProfiles(package, records)) = DefaultProfile(records)
  <1>1. CASE records = <<>>
    <2> DEFINE base == BaseOf(package)
    <2>1. MergeSuiteProfiles(package, records) = base
      BY <1>1, MergeIs
    <2>2. base \in Seq(RecordType) /\ Settled(base) /\ DOMAIN base = DOMAIN package
      BY BaseIs
    <2>3. DOMAIN records = {}
      BY <1>1
    <2>4. DOMAIN package = {}
      BY <2>3 DEF Covers
    <2> HIDE DEF base
    <2>5. LaunchOptions(base) = {} /\ LaunchOptions(records) = {}
      BY <2>2, <2>3, <2>4 DEF LaunchOptions
    <2>6. QED
      BY <2>1, <2>2, <2>5, SettledDefault
  <1>2. CASE records # <<>>
    <2> DEFINE m == MergedList(package, records)
    <2>1. MergeSuiteProfiles(package, records) = NormalizeRecords(m)
      BY <1>2, MergeIs
    <2>2. /\ m \in Seq(RecordType)
          /\ \A k \in DOMAIN m : \E i \in DOMAIN records : m[k] = records[i]
          /\ \A i \in DOMAIN records : \E k \in DOMAIN m : m[k] = records[i]
      BY MergedIs
    <2> HIDE DEF m
    <2>3. CASE LaunchOptions(records) = {}
      <3>1. LaunchOptions(m) = {}
        BY <2>2, <2>3 DEF LaunchOptions
      <3> DEFINE n == NormalizeRecords(m)
      <3>2. n \in Seq(RecordType) /\ Settled(n) /\ LaunchOptions(n) = {}
        BY <2>2, <3>1, NormalizedIs
      <3> HIDE DEF n
      <3>3. DefaultProfile(n) = NoProfile /\ DefaultProfile(records) = NoProfile
        BY <2>3, <3>2, SettledDefault
      <3>4. QED
        BY <2>1, <3>3 DEF n
    <2>4. CASE LaunchOptions(records) # {}
      <3>1. PICK w \in LaunchOptions(records) : Marked(records) = {w} /\ DefaultProfile(records) = records[w].id
        BY <2>4, SettledDefault
      <3>2. w \in DOMAIN records /\ records[w].launchable /\ records[w].default
        BY <3>1 DEF Marked, LaunchOptions
      <3>3. Marked(m) # {}
        BY <2>2, <3>2 DEF Marked, LaunchOptions
      <3>4. ASSUME NEW k \in Marked(m) PROVE m[k].id = records[w].id
        <4>1. k \in DOMAIN m /\ m[k].launchable /\ m[k].default
          BY DEF Marked, LaunchOptions
        <4>2. PICK i \in DOMAIN records : m[k] = records[i]
          BY <2>2, <4>1
        <4>3. i \in Marked(records)
          BY <4>1, <4>2 DEF Marked, LaunchOptions
        <4>4. QED
          BY <3>1, <4>2, <4>3
      <3> DEFINE l == Least(Marked(m))
      <3>5. l \in Marked(m) /\ \A j \in Marked(m) : l <= j
        BY <2>2, <3>3, OptionPlaces, LeastIs
      <3> HIDE DEF l
      <3>6. DefaultProfile(NormalizeRecords(m)) = m[l].id
        BY <2>2, <3>5, FirstAsks
      <3>7. QED
        BY <2>1, <3>1, <3>4, <3>5, <3>6
    <2>5. QED
      BY <2>3, <2>4
  <1>3. QED
    BY <1>1, <1>2

ProfilesInv ==
    /\ release \in DOMAIN Releases /\ document \in Seq(RecordType) /\ Distinct(document)
    /\ DefaultProfile(Visible) = chosen

LEMMA SeedOk ==
  ASSUME release \in DOMAIN Releases
  PROVE  PackageOk(seed)
  BY ReleasesAssumption DEF seed, PackageOk, ProfileType

LEMMA SeenIs ==
  ASSUME ProfilesInv
  PROVE  Visible \in Seq(RecordType) /\ Distinct(Visible) /\ Covers(seed, Visible) /\ Settled(Visible)
  <1>1. PackageOk(seed) /\ document \in Seq(RecordType) /\ Distinct(document)
    BY SeedOk DEF ProfilesInv
  <1>2. QED
    BY <1>1, VisibleIs DEF Visible

\* What is stored is a list with different ids, whether it was saved, cut short
\* or left alone.
LEMMA SavedTyped ==
  ASSUME ProfilesInv, UNCHANGED release, NEW records \in Seq(RecordType), Distinct(records),
         SaveProfiles(NormalizeRecords(records))
  PROVE  /\ document' \in Seq(RecordType) /\ Distinct(document')
         /\ Visible' = MergeSuiteProfiles(seed, document') /\ release' \in DOMAIN Releases
  <1> DEFINE n == NormalizeRecords(records)
             d == NormalizeRecords(n)
  <1>1. Visible' = MergeSuiteProfiles(seed, document') /\ release' \in DOMAIN Releases
    BY DEF Visible, seed, ProfilesInv
  <1>2. n \in Seq(RecordType) /\ Distinct(n)
    BY NormalizedIs, NormalKeeps
  <1>3. document' = d \/ document' = document \/ \E k \in 0..(Len(n) - 1) : document' = SubSeq(d, 1, k)
    BY DEF SaveProfiles
  <1> HIDE DEF n
  <1>4. d \in Seq(RecordType) /\ Distinct(d) /\ DOMAIN d = DOMAIN n
    BY <1>2, NormalizedIs, NormalKeeps
  <1> HIDE DEF d
  <1>5. ASSUME NEW k \in 0..(Len(n) - 1) PROVE SubSeq(d, 1, k) \in Seq(RecordType) /\ Distinct(SubSeq(d, 1, k))
    <2>1. Len(n) \in Nat /\ Len(d) = Len(n) /\ k \in Nat /\ k <= Len(d) /\ 1..k \subseteq DOMAIN d
      BY <1>2, <1>4
    <2>2. SubSeq(d, 1, k) \in Seq(RecordType) /\ Len(SubSeq(d, 1, k)) = k /\ \A j \in 1..k : SubSeq(d, 1, k)[j] = d[j]
      BY <1>4, <2>1
    <2>3. DOMAIN SubSeq(d, 1, k) = 1..k
      BY <2>2
    <2>4. QED
      BY <1>4, <2>1, <2>2, <2>3 DEF Distinct
  <1>6. QED
    BY <1>1, <1>3, <1>4, <1>5 DEF ProfilesInv

\* A changed list that is saved, or not.
LEMMA SaveStep ==
  ASSUME ProfilesInv, UNCHANGED release, NEW records \in Seq(RecordType), Distinct(records), Covers(seed, records),
         SaveProfiles(NormalizeRecords(records))
  PROVE  /\ document' \in Seq(RecordType) /\ Distinct(document')
         /\ Visible' = MergeSuiteProfiles(seed, document') /\ release' \in DOMAIN Releases
         /\ \/ document' = document /\ Visible' = Visible
            \/ DefaultProfile(Visible') = DefaultProfile(NormalizeRecords(records))
            \/ CutShort(NormalizeRecords(records))
  <1> DEFINE n == NormalizeRecords(records)
             d == NormalizeRecords(n)
  <1>1. Visible' = MergeSuiteProfiles(seed, document') /\ release' \in DOMAIN Releases
    BY DEF Visible, seed, ProfilesInv
  <1>a. document' \in Seq(RecordType) /\ Distinct(document')
    BY SavedTyped
  <1>2. CASE document' = document
    BY <1>1, <1>2 DEF Visible, ProfilesInv
  <1>3. CASE document' = d
    <2>1. n \in Seq(RecordType) /\ Distinct(n) /\ Covers(seed, n) /\ Settled(n)
      BY NormalizedIs, NormalKeeps
    <2> HIDE DEF n
    <2>2. d \in Seq(RecordType) /\ Distinct(d) /\ Covers(seed, d) /\ Settled(d) /\ DefaultProfile(d) = DefaultProfile(n)
      BY <2>1, NormalizedIs, NormalKeeps, SettledTwice
    <2> HIDE DEF d
    <2>3. PackageOk(seed)
      BY SeedOk DEF ProfilesInv
    <2>4. DefaultProfile(MergeSuiteProfiles(seed, d)) = DefaultProfile(d)
      BY <2>2, <2>3, DefaultKept
    <2>5. QED
      BY <1>1, <1>3, <2>2, <2>4 DEF n
  <1>4. CASE document' \notin {document, d}
    BY <1>1, <1>a, <1>4 DEF CutShort
  <1>5. QED
    BY <1>2, <1>3, <1>4


\* A list keeps its default when only records that do not come before it ask too.
LEMMA DefaultStands ==
  ASSUME NEW v \in Seq(RecordType), Settled(v), NEW records \in Seq(RecordType), NEW w \in Marked(v), NEW k \in DOMAIN records,
         records[k] = v[w], \A j \in DOMAIN records : records[j].default => k <= j
  PROVE  DefaultProfile(NormalizeRecords(records)) = DefaultProfile(v)
  <1>1. PICK x \in LaunchOptions(v) : Marked(v) = {x} /\ DefaultProfile(v) = v[x].id
    BY SettledDefault DEF Marked
  <1>2. v[w].launchable /\ v[w].default /\ x = w
    BY <1>1 DEF Marked, LaunchOptions
  <1>3. k \in Marked(records) /\ \A j \in Marked(records) : k <= j
    BY <1>2 DEF Marked, LaunchOptions
  <1>4. QED
    BY <1>1, <1>2, <1>3, FirstAsks

\* The default a user sees, if there is one.
LEMMA SeenDefault ==
  ASSUME ProfilesInv, chosen # NoProfile
  PROVE  \E w \in Marked(Visible) : /\ w \in DOMAIN Visible /\ Visible[w].id = chosen /\ Visible[w].launchable
                                    /\ \A i \in DOMAIN Visible : Visible[i].default <=> i = w
  <1>1. Visible \in Seq(RecordType) /\ Settled(Visible) /\ DefaultProfile(Visible) = chosen
    BY SeenIs DEF ProfilesInv
  <1>2. LaunchOptions(Visible) # {}
    BY <1>1, SettledDefault
  <1>3. PICK w \in LaunchOptions(Visible) : /\ Marked(Visible) = {w} /\ DefaultProfile(Visible) = Visible[w].id
                                            /\ \A i \in DOMAIN Visible : Visible[i].default <=> i = w
    BY <1>1, <1>2, SettledDefault
  <1>4. QED
    BY <1>1, <1>3 DEF LaunchOptions

\* There is always an id that no record has.
LEMMA FreshId ==
  ASSUME NEW records \in Seq(RecordType), NEW file \in STRING
  PROVE  /\ UniqueProfileID(records, file) \in STRING \X Nat
         /\ \A i \in DOMAIN records : records[i].id # UniqueProfileID(records, file)
  <1> DEFINE tries == 1..(Len(records) + 1)
             free == {n \in tries : IndexOf(records, <<file, n>>) = 0}
  <1>1. Len(records) \in Nat /\ DOMAIN records = 1..Len(records)
    OBVIOUS
  <1>2. free # {}
    <2> SUFFICES ASSUME free = {} PROVE FALSE
      OBVIOUS
    <2> DEFINE f == [n \in tries |-> IndexOf(records, <<file, n>>)]
    <2>1. \A n \in tries : IndexOf(records, <<file, n>>) # 0
      OBVIOUS
    <2>2. \A n \in tries : f[n] \in DOMAIN records /\ records[f[n]].id = <<file, n>>
      BY <2>1, IndexIs
    <2>3. f \in [tries -> 1..Len(records)]
      BY <1>1, <2>2
    <2>4. IsFiniteSet(tries) /\ Cardinality(tries) = Len(records) + 1
      BY <1>1, FS_Interval
    <2>5. IsFiniteSet(1..Len(records)) /\ Cardinality(1..Len(records)) = Len(records)
      BY <1>1, FS_Interval
    <2> HIDE DEF f, tries
    <2>6. Cardinality(1..Len(records)) < Cardinality(tries)
      BY <1>1, <2>4, <2>5
    <2>7. PICK x, y \in tries : x # y /\ f[x] = f[y]
      BY <2>3, <2>4, <2>5, <2>6, FS_PigeonHole
    <2>8. <<file, x>> = <<file, y>>
      BY <2>2, <2>7
    <2>9. QED
      BY <2>7, <2>8
  <1>3. free \in SUBSET Nat
    <2>1. tries \subseteq Nat
      BY <1>1
    <2> HIDE DEF tries
    <2>2. QED
      BY <2>1, Zenon
  <1>4. Least(free) \in free
    BY <1>2, <1>3, LeastIs
  <1>5. UniqueProfileID(records, file) = <<file, Least(free)>>
    BY DEF UniqueProfileID
  <1>6. Least(free) \in Nat /\ IndexOf(records, <<file, Least(free)>>) = 0
    BY <1>3, <1>4
  <1> DEFINE id == <<file, Least(free)>>
  <1>7. id \in STRING \X Nat
    BY <1>6
  <1>8. UniqueProfileID(records, file) = id /\ IndexOf(records, id) = 0
    BY <1>5, <1>6
  <1> HIDE DEF id, free
  <1>9. QED
    BY <1>7, <1>8, IndexIs

\* Creating a profile leaves the default, if there was one.
LEMMA CreateStep ==
  ASSUME ProfilesInv, NEW file \in Files, NEW default \in BOOLEAN, CreateProfile(file, default)
  PROVE  ProfilesInv'
  <1> DEFINE v == Visible
             record == [id |-> UniqueProfileID(v, file), file |-> file, default |-> default, launchable |-> TRUE]
             records == Append(v, record)
             cut == CutShort(NormalizeRecords(records))
  <1>1. /\ SaveProfiles(NormalizeRecords(records)) /\ UNCHANGED release
        /\ chosen' = IF chosen = NoProfile \/ cut THEN DefaultProfile(MergeSuiteProfiles(seed, document')) ELSE chosen
    BY DEF CreateProfile
  <1>2. v \in Seq(RecordType) /\ Distinct(v) /\ Covers(seed, v) /\ Settled(v)
    BY SeenIs
  <1>3. file \in STRING
    BY ReleasesAssumption
  <1> HIDE DEF v
  <1>4. record \in RecordType /\ record.id \in STRING \X Nat /\ \A i \in DOMAIN v : v[i].id # record.id
    <2>1. UniqueProfileID(v, file) \in STRING \X Nat /\ \A i \in DOMAIN v : v[i].id # UniqueProfileID(v, file)
      BY <1>2, <1>3, FreshId
    <2> HIDE DEF UniqueProfileID
    <2>2. QED
      BY <1>3, <2>1 DEF RecordType
  <1> HIDE DEF record
  <1>5. /\ records \in Seq(RecordType) /\ DOMAIN v = 1..Len(v) /\ Len(v) \in Nat /\ DOMAIN records = 1..(Len(v) + 1)
        /\ records[Len(v) + 1] = record /\ \A i \in 1..Len(v) : records[i] = v[i]
    BY <1>2, <1>4
  <1> HIDE DEF records
  <1>6. \A i \in DOMAIN records : i \in DOMAIN v \/ i = Len(v) + 1
    BY <1>5
  <1>7. Distinct(records)
    BY <1>2, <1>4, <1>5, <1>6 DEF Distinct
  <1>8. Covers(seed, records)
    <2>1. \A i \in DOMAIN seed : \E k \in DOMAIN records : records[k].id = <<seed[i].file, 1>>
      <3> SUFFICES ASSUME NEW i \in DOMAIN seed PROVE \E k \in DOMAIN records : records[k].id = <<seed[i].file, 1>>
        OBVIOUS
      <3>1. PICK l \in DOMAIN v : v[l].id = <<seed[i].file, 1>>
        BY <1>2 DEF Covers
      <3>2. l \in DOMAIN records /\ records[l] = v[l]
        BY <1>5
      <3>3. QED
        BY <3>1, <3>2
    <2>2. ASSUME NEW i \in DOMAIN seed, NEW k \in DOMAIN records, records[k].id = <<seed[i].file, 1>>
          PROVE  records[k].launchable = Launchable(seed[i].file)
      <3>1. PICK l \in DOMAIN v : v[l].id = <<seed[i].file, 1>>
        BY <1>2 DEF Covers
      <3>2. k \in DOMAIN v
        BY <1>4, <1>5, <1>6, <2>2, <3>1
      <3>3. QED
        BY <1>2, <1>5, <2>2, <3>2 DEF Covers
    <2>3. QED
      BY <2>1, <2>2 DEF Covers
  <1>9. /\ document' \in Seq(RecordType) /\ Distinct(document')
        /\ Visible' = MergeSuiteProfiles(seed, document') /\ release' \in DOMAIN Releases
        /\ \/ document' = document /\ Visible' = Visible
           \/ DefaultProfile(Visible') = DefaultProfile(NormalizeRecords(records))
           \/ cut
    BY <1>1, <1>5, <1>7, <1>8, SaveStep
  <1> HIDE DEF cut
  <1>10. DefaultProfile(Visible') = chosen'
    <2>1. CASE chosen = NoProfile \/ cut
      BY <1>1, <1>9, <2>1
    <2>2. CASE chosen # NoProfile /\ ~cut
      <3>1. PICK w \in Marked(v) : /\ w \in DOMAIN v /\ v[w].id = chosen /\ v[w].launchable
                                   /\ \A i \in DOMAIN v : v[i].default <=> i = w
        BY <2>2, SeenDefault DEF v
      <3>2. w \in DOMAIN records /\ records[w] = v[w] /\ \A j \in DOMAIN records : records[j].default => w <= j
        BY <1>5, <1>6, <3>1
      <3>3. DefaultProfile(NormalizeRecords(records)) = DefaultProfile(v)
        BY <1>2, <1>5, <3>2, DefaultStands
      <3>4. QED
        BY <1>1, <1>9, <2>2, <3>3 DEF ProfilesInv, v
    <2>3. QED
      BY <2>1, <2>2
  <1>11. QED
    BY <1>9, <1>10 DEF ProfilesInv

\* Lists of the same ids, launchable as before.
LEMMA SameCovers ==
  ASSUME NEW package, NEW v \in Seq(RecordType), Distinct(v), Covers(package, v), NEW records \in Seq(RecordType),
         DOMAIN records = DOMAIN v,
         \A i \in DOMAIN v : records[i].id = v[i].id /\ records[i].launchable = v[i].launchable
  PROVE  Distinct(records) /\ Covers(package, records)
  <1>1. Distinct(records)
    BY DEF Distinct
  <1>2. \A k \in DOMAIN records : k \in DOMAIN v /\ records[k].id = v[k].id /\ records[k].launchable = v[k].launchable
    OBVIOUS
  <1>3. ASSUME NEW i \in DOMAIN package PROVE \E k \in DOMAIN records : records[k].id = <<package[i].file, 1>>
    <2>1. PICK k \in DOMAIN v : v[k].id = <<package[i].file, 1>>
      BY DEF Covers
    <2>2. QED
      BY <1>2, <2>1
  <1>4. ASSUME NEW i \in DOMAIN package, NEW k \in DOMAIN records, records[k].id = <<package[i].file, 1>>
        PROVE  records[k].launchable = Launchable(package[i].file)
    <2>1. k \in DOMAIN v /\ v[k].id = <<package[i].file, 1>>
      BY <1>2, <1>4
    <2>2. v[k].launchable = Launchable(package[i].file)
      BY <2>1 DEF Covers
    <2>3. QED
      BY <1>2, <2>2
  <1>5. Covers(package, records)
    BY <1>3, <1>4 DEF Covers
  <1>6. QED
    BY <1>1, <1>5

\* Editing a profile without touching its default flag leaves the default.
LEMMA UpdateStep ==
  ASSUME ProfilesInv, NEW id, NEW file \in Files, NEW default \in BOOLEAN, UpdateProfile(id, file, default)
  PROVE  ProfilesInv'
  <1> DEFINE v == Visible
             i == IndexOf(v, id)
             flag == default /\ v[i].launchable
             records == [v EXCEPT ![i].file = file, ![i].default = flag]
             cut == CutShort(NormalizeRecords(records))
  <1>1. /\ i # 0 /\ SaveProfiles(NormalizeRecords(records)) /\ UNCHANGED release
        /\ chosen' = IF v[i].default # default \/ cut THEN DefaultProfile(MergeSuiteProfiles(seed, document')) ELSE chosen
    BY DEF UpdateProfile
  <1>2. v \in Seq(RecordType) /\ Distinct(v) /\ Covers(seed, v) /\ Settled(v)
    BY SeenIs
  <1>3. file \in STRING
    BY ReleasesAssumption
  <1> HIDE DEF v
  <1>4. i \in DOMAIN v /\ v[i] \in RecordType /\ v[i].launchable \in BOOLEAN
    <2>1. i \in DOMAIN v
      BY <1>1, <1>2, IndexIs
    <2> HIDE DEF i
    <2>2. v[i] \in RecordType
      BY <1>2, <2>1
    <2>3. QED
      BY <2>1, <2>2 DEF RecordType
  <1> HIDE DEF i
  <1>5. flag \in BOOLEAN /\ (flag <=> default /\ v[i].launchable)
    BY <1>4
  <1> HIDE DEF flag
  <1> DEFINE edited == [v[i] EXCEPT !.file = file, !.default = flag]
  <1>6. /\ edited \in RecordType /\ edited.id = v[i].id /\ edited.launchable = v[i].launchable
        /\ edited.default = flag
    BY <1>3, <1>4, <1>5 DEF RecordType
  <1>7. records = [v EXCEPT ![i] = edited]
    BY <1>2, <1>4 DEF RecordType
  <1> HIDE DEF edited, records
  <1>8. /\ records \in Seq(RecordType) /\ DOMAIN records = DOMAIN v /\ records[i] = edited
        /\ \A k \in DOMAIN v : k # i => records[k] = v[k]
    BY <1>2, <1>4, <1>6, <1>7
  <1>9. \A k \in DOMAIN v : records[k].id = v[k].id /\ records[k].launchable = v[k].launchable
    BY <1>6, <1>8
  <1>10. Distinct(records) /\ Covers(seed, records)
    BY <1>2, <1>8, <1>9, SameCovers
  <1>11. /\ document' \in Seq(RecordType) /\ Distinct(document')
         /\ Visible' = MergeSuiteProfiles(seed, document') /\ release' \in DOMAIN Releases
         /\ \/ document' = document /\ Visible' = Visible
            \/ DefaultProfile(Visible') = DefaultProfile(NormalizeRecords(records))
            \/ cut
    BY <1>1, <1>8, <1>10, SaveStep
  <1> HIDE DEF cut
  <1>12. DefaultProfile(Visible') = chosen'
    <2>1. CASE v[i].default # default \/ cut
      BY <1>1, <1>11, <2>1
    <2>2. CASE v[i].default = default /\ ~cut
      <3>1. \A k \in DOMAIN v : v[k].default => v[k].launchable
        BY <1>2 DEF Settled, LaunchOptions
      <3>2. flag <=> v[i].default
        BY <1>4, <1>5, <2>2, <3>1
      <3>3. \A k \in DOMAIN v : records[k].default <=> v[k].default
        BY <1>6, <1>8, <3>2
      <3>4. LaunchOptions(records) = LaunchOptions(v) /\ Marked(records) = Marked(v)
        BY <1>8, <1>9, <3>3 DEF LaunchOptions, Marked
      <3>5. DefaultProfile(NormalizeRecords(records)) = DefaultProfile(v)
        <4>1. Settled(records)
          BY <1>2, <1>8, <3>3, <3>4 DEF Settled
        <4>2. CASE LaunchOptions(v) = {}
          BY <1>2, <1>8, <3>4, <4>1, <4>2, SettledTwice, SettledDefault
        <4>3. CASE LaunchOptions(v) # {}
          <5>1. PICK w \in LaunchOptions(v) : Marked(v) = {w} /\ DefaultProfile(v) = v[w].id
            BY <1>2, <4>3, SettledDefault
          <5>2. PICK x \in LaunchOptions(records) : Marked(records) = {x} /\ DefaultProfile(records) = records[x].id
            BY <1>8, <3>4, <4>1, <4>3, SettledDefault
          <5>3. x = w /\ w \in DOMAIN v
            BY <3>4, <5>1, <5>2 DEF LaunchOptions
          <5>4. DefaultProfile(records) = DefaultProfile(v)
            BY <1>9, <5>1, <5>2, <5>3
          <5>5. QED
            BY <1>8, <4>1, <5>4, SettledTwice
        <4>4. QED
          BY <4>2, <4>3
      <3>6. QED
        BY <1>1, <1>11, <2>2, <3>5 DEF ProfilesInv, v
    <2>3. QED
      BY <2>1, <2>2
  <1>13. QED
    BY <1>11, <1>12 DEF ProfilesInv

\* Making a profile the default does.
LEMMA SetDefaultStep ==
  ASSUME ProfilesInv, NEW id, SetDefaultProfile(id)
  PROVE  ProfilesInv'
  <1> DEFINE v == Visible
             i == IndexOf(v, id)
             made(k) == [v[k] EXCEPT !.default = (v[k].id = id)]
             records == [k \in DOMAIN v |-> made(k)]
             cut == CutShort(NormalizeRecords(records))
  <1>1. /\ i # 0 /\ v[i].launchable /\ SaveProfiles(NormalizeRecords(records)) /\ UNCHANGED release
        /\ chosen' = IF document' = document THEN chosen
                     ELSE IF cut THEN DefaultProfile(MergeSuiteProfiles(seed, document')) ELSE id
    BY DEF SetDefaultProfile
  <1>2. v \in Seq(RecordType) /\ Distinct(v) /\ Covers(seed, v) /\ Settled(v)
    BY SeenIs
  <1> HIDE DEF v
  <1>3. i \in DOMAIN v /\ v[i].id = id
    BY <1>1, <1>2, IndexIs
  <1> HIDE DEF i
  <1>4. ASSUME NEW k \in DOMAIN v
        PROVE  /\ made(k) \in RecordType /\ made(k).id = v[k].id /\ made(k).launchable = v[k].launchable
               /\ made(k).default <=> v[k].id = id
    <2>1. v[k] \in RecordType
      BY <1>2
    <2>2. PICK b \in BOOLEAN : b = (v[k].id = id)
      OBVIOUS
    <2>3. made(k) = [v[k] EXCEPT !.default = b]
      BY <2>2
    <2> HIDE DEF made
    <2>4. QED
      BY <2>1, <2>2, <2>3 DEF RecordType
  <1> HIDE DEF made
  <1>5. /\ records \in Seq(RecordType) /\ DOMAIN records = DOMAIN v
        /\ \A k \in DOMAIN v : records[k] = made(k)
    BY <1>2, <1>4
  <1> HIDE DEF records
  <1>6. \A k \in DOMAIN v : /\ records[k].id = v[k].id /\ records[k].launchable = v[k].launchable
                            /\ records[k].default <=> v[k].id = id
    BY <1>4, <1>5
  <1>7. Distinct(records) /\ Covers(seed, records)
    BY <1>2, <1>5, <1>6, SameCovers
  <1>8. /\ document' \in Seq(RecordType) /\ Distinct(document')
        /\ Visible' = MergeSuiteProfiles(seed, document') /\ release' \in DOMAIN Releases
        /\ \/ document' = document /\ Visible' = Visible
           \/ DefaultProfile(Visible') = DefaultProfile(NormalizeRecords(records))
           \/ cut
    BY <1>1, <1>5, <1>7, SaveStep
  <1> HIDE DEF cut
  <1>9. Marked(records) = {i}
    BY <1>1, <1>2, <1>3, <1>5, <1>6 DEF Marked, LaunchOptions, Distinct
  <1>10. DefaultProfile(NormalizeRecords(records)) = id
    <2>1. i \in Nat /\ \A j \in Marked(records) : i <= j
      BY <1>2, <1>3, <1>9
    <2>2. QED
      BY <1>3, <1>5, <1>6, <1>9, <2>1, FirstAsks
  <1>11. document' = document => Visible' = Visible
    BY <1>1 DEF Visible, seed
  <1>12. QED
    BY <1>1, <1>8, <1>10, <1>11 DEF ProfilesInv

\* A list without one of its records.
LEMMA RemovedIs ==
  ASSUME NEW v \in Seq(RecordType), NEW i \in DOMAIN v
  PROVE  /\ RemoveAt(v, i) \in Seq(RecordType) /\ DOMAIN RemoveAt(v, i) = 1..(Len(v) - 1)
         /\ \A k \in 1..(Len(v) - 1) : RemoveAt(v, i)[k] = IF k < i THEN v[k] ELSE v[k + 1]
  <1> DEFINE a == SubSeq(v, 1, i - 1)
             b == SubSeq(v, i + 1, Len(v))
             r == a \o b
  <1>1. Len(v) \in Nat /\ i \in 1..Len(v) /\ DOMAIN v = 1..Len(v)
    OBVIOUS
  <1>2. a \in Seq(RecordType) /\ Len(a) = i - 1 /\ \A k \in 1..(i - 1) : a[k] = v[k]
    BY <1>1
  <1>3. b \in Seq(RecordType) /\ Len(b) = Len(v) - i /\ \A k \in 1..(Len(v) - i) : b[k] = v[i + k]
    BY <1>1
  <1> HIDE DEF a, b
  <1>4. r \in Seq(RecordType)
    BY <1>2, <1>3
  <1>5. Len(r) = Len(v) - 1
    <2>1. a \in Seq(RecordType) /\ b \in Seq(RecordType)
      BY <1>2, <1>3
    <2>2. Len(a \o b) = Len(a) + Len(b)
      BY <2>1
    <2>3. Len(r) = Len(a) + Len(b)
      BY <2>2
    <2> HIDE DEF r
    <2>4. QED
      BY <1>1, <1>2, <1>3, <2>3
  <1>6. ASSUME NEW k \in 1..(Len(v) - 1) PROVE r[k] = IF k < i THEN v[k] ELSE v[k + 1]
    <2>1. CASE k < i
      <3>1. k \in 1..Len(a)
        BY <1>1, <1>2, <2>1
      <3>2. r[k] = a[k]
        BY <1>2, <1>3, <3>1
      <3>3. QED
        BY <1>2, <2>1, <3>1, <3>2
    <2>2. CASE ~(k < i)
      <3>1. k > Len(a) /\ k <= Len(a) + Len(b) /\ k - Len(a) \in 1..(Len(v) - i) /\ i + (k - Len(a)) = k + 1
        BY <1>1, <1>2, <1>3, <2>2
      <3>2. a \in Seq(RecordType) /\ b \in Seq(RecordType) /\ k \in Nat
        BY <1>1, <1>2, <1>3
      <3>3. k \in (Len(a) + 1)..(Len(a) + Len(b))
        BY <3>1, <3>2
      <3>4. (a \o b)[k] = b[k - Len(a)]
        BY <3>2, <3>3
      <3>5. QED
        BY <1>3, <2>2, <3>1, <3>4
    <2>3. QED
      BY <2>1, <2>2
  <1>7. RemoveAt(v, i) = r
    BY DEF RemoveAt, a, b
  <1> HIDE DEF r
  <1>8. DOMAIN r = 1..(Len(v) - 1)
    BY <1>4, <1>5
  <1>9. QED
    BY <1>4, <1>6, <1>7, <1>8


\* Deleting another profile than the default, and none of the package's, leaves the default.
LEMMA DeleteStep ==
  ASSUME ProfilesInv, NEW id, DeleteProfile(id)
  PROVE  ProfilesInv'
  <1> DEFINE v == Visible
             i == IndexOf(v, id)
             records == RemoveAt(v, i)
             cut == CutShort(NormalizeRecords(records))
             moved == id = chosen \/ id \in {SeedRecord(p).id : p \in Range(seed)} \/ cut
             n == Len(v)
             old(k) == IF k < i THEN k ELSE k + 1
  <1>1. /\ i # 0 /\ v[i].launchable /\ SaveProfiles(NormalizeRecords(records)) /\ UNCHANGED release
        /\ chosen' = IF moved THEN DefaultProfile(MergeSuiteProfiles(seed, document')) ELSE chosen
    BY DEF DeleteProfile
  <1>2. v \in Seq(RecordType) /\ Distinct(v) /\ Covers(seed, v) /\ Settled(v)
    BY SeenIs
  <1>3. DefaultProfile(v) = chosen
    BY DEF ProfilesInv
  <1> HIDE DEF v
  <1>4. i \in DOMAIN v /\ v[i].id = id
    BY <1>1, <1>2, IndexIs
  <1> HIDE DEF i
  <1>5. n \in Nat /\ DOMAIN v = 1..n /\ i \in 1..n
    BY <1>2, <1>4
  <1>6. /\ records \in Seq(RecordType) /\ DOMAIN records = 1..(n - 1)
        /\ \A k \in 1..(n - 1) : records[k] = v[old(k)]
    BY <1>2, <1>4, RemovedIs
  <1> HIDE DEF records, n
  <1>7. /\ \A k \in 1..(n - 1) : old(k) \in 1..n /\ old(k) # i
        /\ \A k, l \in 1..(n - 1) : old(k) = old(l) => k = l
        /\ \A l \in 1..n : l # i => \E k \in 1..(n - 1) : old(k) = l
    <2>1. \A k \in 1..(n - 1) : old(k) \in 1..n /\ old(k) # i
      BY <1>5
    <2>2. \A k, l \in 1..(n - 1) : old(k) = old(l) => k = l
      BY <1>5
    <2>3. ASSUME NEW l \in 1..n, l # i PROVE \E k \in 1..(n - 1) : old(k) = l
      <3>1. CASE l < i
        <4>1. l \in 1..(n - 1) /\ old(l) = l
          BY <1>5, <3>1
        <4>2. QED
          BY <4>1
      <3>2. CASE ~(l < i)
        <4>1. l - 1 \in 1..(n - 1) /\ old(l - 1) = l
          BY <1>5, <2>3, <3>2
        <4>2. QED
          BY <4>1
      <3>3. QED
        BY <3>1, <3>2
    <2>4. QED
      BY <2>1, <2>2, <2>3
  <1> HIDE DEF old
  <1>8. Distinct(records)
    BY <1>2, <1>5, <1>6, <1>7 DEF Distinct
  <1>9. /\ document' \in Seq(RecordType) /\ Distinct(document')
        /\ Visible' = MergeSuiteProfiles(seed, document') /\ release' \in DOMAIN Releases
    BY <1>1, <1>6, <1>8, SavedTyped
  <1>10. DefaultProfile(Visible') = chosen'
    <2>1. CASE moved
      BY <1>1, <1>9, <2>1
    <2>2. CASE ~moved
      <3>1. id # chosen /\ \A p \in Range(seed) : SeedRecord(p).id # id
        BY <2>2
      <3>2. \A j \in DOMAIN seed : <<seed[j].file, 1>> # id
        <4>1. \A j \in DOMAIN seed : seed[j] \in Range(seed) /\ SeedRecord(seed[j]).id = <<seed[j].file, 1>>
          BY DEF Range, SeedRecord
        <4>2. QED
          BY <3>1, <4>1
      <3> HIDE DEF moved
      <3>3. Covers(seed, records)
        <4>1. ASSUME NEW j \in DOMAIN seed PROVE \E k \in DOMAIN records : records[k].id = <<seed[j].file, 1>>
          <5>1. PICK l \in DOMAIN v : v[l].id = <<seed[j].file, 1>>
            BY <1>2 DEF Covers
          <5>2. l # i /\ l \in 1..n
            BY <1>4, <1>5, <3>2, <5>1
          <5>3. PICK k \in 1..(n - 1) : old(k) = l
            BY <1>7, <5>2
          <5>4. QED
            BY <1>6, <5>1, <5>3
        <4>2. ASSUME NEW j \in DOMAIN seed, NEW k \in DOMAIN records, records[k].id = <<seed[j].file, 1>>
              PROVE  records[k].launchable = Launchable(seed[j].file)
          <5>1. old(k) \in DOMAIN v /\ records[k] = v[old(k)]
            BY <1>5, <1>6, <1>7
          <5>2. QED
            BY <1>2, <4>2, <5>1 DEF Covers
        <4>3. QED
          BY <4>1, <4>2 DEF Covers
      <3>4. PICK w \in LaunchOptions(v) : /\ Marked(v) = {w} /\ DefaultProfile(v) = v[w].id
                                          /\ \A j \in DOMAIN v : v[j].default <=> j = w
        <4>1. LaunchOptions(v) # {}
          BY <1>1, <1>4 DEF LaunchOptions
        <4>2. QED
          BY <1>2, <4>1, SettledDefault
      <3>5. w \in 1..n /\ w # i
        BY <1>3, <1>4, <1>5, <3>1, <3>4 DEF LaunchOptions
      <3>6. PICK k \in 1..(n - 1) : old(k) = w
        BY <1>7, <3>5
      <3>7. k \in DOMAIN records /\ records[k] = v[w] /\ w \in Marked(v)
        BY <1>6, <3>4, <3>6
      <3>8. ASSUME NEW j \in DOMAIN records, records[j].default PROVE k <= j
        <4>1. j \in 1..(n - 1) /\ old(j) \in DOMAIN v /\ v[old(j)].default
          BY <1>5, <1>6, <1>7, <3>8
        <4>2. old(j) = w
          BY <3>4, <4>1
        <4>3. j = k
          BY <1>7, <3>6, <4>1, <4>2
        <4>4. QED
          BY <1>5, <4>1, <4>3
      <3>9. DefaultProfile(NormalizeRecords(records)) = chosen
        BY <1>2, <1>3, <1>6, <3>7, <3>8, DefaultStands
      <3>10. \/ document' = document /\ Visible' = Visible
             \/ DefaultProfile(Visible') = DefaultProfile(NormalizeRecords(records))
        BY <1>1, <1>6, <1>8, <2>2, <3>3, SaveStep DEF moved
      <3>11. QED
        BY <1>1, <1>3, <2>2, <3>9, <3>10 DEF v
    <2>3. QED
      BY <2>1, <2>2
  <1>11. QED
    BY <1>9, <1>10 DEF ProfilesInv

\* Whatever the package and its versions bring, whoever creates, edits and
\* deletes profiles and however often the store fails: a launch without a
\* profile that can read the store runs with the one the page shows as the
\* default, and only choosing another, deleting it or a profile of the package,
\* a save cut short or a new version moves it; one that cannot read the store
\* runs with a profile of the package (mergeSuiteProfiles, normalizeRecords,
\* safeLoadDocument and the operations on them).
THEOREM DefaultStays == ProfilesSpec => []DefaultIsTheChosen
  <1>1. ProfilesInit => ProfilesInv
    <2> SUFFICES ASSUME ProfilesInit PROVE ProfilesInv
      OBVIOUS
    <2>1. release \in DOMAIN Releases
      BY ReleasesAssumption DEF ProfilesInit
    <2>2. document \in Seq(RecordType) /\ Distinct(document)
      BY DEF ProfilesInit, Distinct
    <2>3. QED
      BY <2>1, <2>2 DEF ProfilesInit, ProfilesInv, Visible
  <1>2. ProfilesInv /\ [ProfilesNext]_profileVars => ProfilesInv'
    <2> SUFFICES ASSUME ProfilesInv, [ProfilesNext]_profileVars PROVE ProfilesInv'
      OBVIOUS
    <2>1. CASE UNCHANGED profileVars
      BY <2>1 DEF profileVars, ProfilesInv, Visible, seed
    <2>2. CASE PackageReplaced
      <3>1. /\ release < Len(Releases) /\ release' = release + 1 /\ UNCHANGED document
            /\ chosen' = DefaultProfile(MergeSuiteProfiles(Releases[release'], document))
        BY <2>2 DEF PackageReplaced
      <3>2. release' \in DOMAIN Releases
        BY <3>1, ReleasesAssumption DEF ProfilesInv
      <3>3. Visible' = MergeSuiteProfiles(Releases[release'], document)
        BY <3>1 DEF Visible, seed
      <3>4. QED
        BY <3>1, <3>2, <3>3 DEF ProfilesInv
    <2>3. CASE \E file \in Files, default \in BOOLEAN : CreateProfile(file, default)
      BY <2>3, CreateStep
    <2>4. CASE \E i \in DOMAIN Visible, file \in Files, default \in BOOLEAN : UpdateProfile(Visible[i].id, file, default)
      BY <2>4, UpdateStep
    <2>5. CASE \E i \in DOMAIN Visible : DeleteProfile(Visible[i].id) \/ SetDefaultProfile(Visible[i].id)
      BY <2>5, DeleteStep, SetDefaultStep
    <2>6. QED
      BY <2>1, <2>2, <2>3, <2>4, <2>5 DEF ProfilesNext
  <1>3. ProfilesInv => DefaultIsTheChosen
    <2> SUFFICES ASSUME ProfilesInv PROVE DefaultIsTheChosen
      OBVIOUS
    <2>1. Visible \in Seq(RecordType) /\ Settled(Visible)
      BY SeenIs
    <2>2. LaunchDefault(LaunchProfiles(TRUE)) = chosen
      BY <2>1, SettledDefault DEF LaunchProfiles, SafeLoadDocument, Visible, ProfilesInv
    <2> DEFINE base == BaseOf(seed)
    <2>3. LaunchProfiles(FALSE) = base
      BY MergeIs DEF LaunchProfiles, SafeLoadDocument
    <2>4. PackageOk(seed)
      BY SeedOk DEF ProfilesInv
    <2>5. /\ base \in Seq(RecordType) /\ DOMAIN base = DOMAIN seed /\ Settled(base)
          /\ \A i \in DOMAIN seed : base[i].id = <<seed[i].file, 1>> /\ base[i].launchable = Launchable(seed[i].file)
      BY <2>4, BaseIs
    <2> HIDE DEF base
    <2>6. \/ LaunchDefault(base) = NoProfile /\ \A p \in Range(seed) : ~Launchable(p.file)
          \/ \E p \in Range(seed) : Launchable(p.file) /\ LaunchDefault(base) = SeedRecord(p).id
      <3>1. CASE LaunchOptions(base) = {}
        BY <2>5, <3>1, SettledDefault DEF LaunchOptions, Range
      <3>2. CASE LaunchOptions(base) # {}
        <4>1. PICK w \in LaunchOptions(base) : LaunchDefault(base) = base[w].id
          BY <2>5, <3>2, SettledDefault
        <4>2. w \in DOMAIN seed /\ seed[w] \in Range(seed) /\ Launchable(seed[w].file) /\ LaunchDefault(base) = <<seed[w].file, 1>>
          BY <2>5, <4>1 DEF LaunchOptions, Range
        <4>3. QED
          BY <4>2 DEF SeedRecord
      <3>3. QED
        BY <3>1, <3>2
    <2>7. DefaultProfile(Visible) = chosen
      BY DEF ProfilesInv
    <2>8. QED
      BY <2>2, <2>3, <2>6, <2>7 DEF DefaultIsTheChosen
  <1>4. QED
    BY <1>1, <1>2, <1>3, PTL DEF ProfilesSpec
=============================================================================
