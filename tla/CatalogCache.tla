---------------------------- MODULE CatalogCache ----------------------------
(* The Redis caches in front of the stores: platform settings                *)
(* (platform/cache.go), favourite packages (store/cache.go) and the package  *)
(* catalog (catalog/cache.go), over cachehub.Hub.                            *)
(*                                                                           *)
(* Every cache is read through: look up, on a miss read the store, then      *)
(* write the entry.  Nothing orders those steps against a writer's.  A save  *)
(* of the settings writes the entry and then bumps the scope stamp that is   *)
(* part of every catalog key; a save of a favourite removes the entry.       *)
(* Values are version numbers.  A call to the hub may fail, and every caller *)
(* ignores that: what cannot be read is a miss, and ScopeStamp answers "0".  *)
(* A call to a store may fail, and the request ends with the error there.    *)
EXTENDS Integers, FiniteSets

CONSTANTS Users,       \* requests that run concurrently
          MaxWrites,   \* bound: saves of settings and favourites
          MaxOutages   \* bound: calls to the hub and to the stores that fail

ASSUME CacheAssumption == IsFiniteSet(Users) /\ MaxWrites \in Nat

VARIABLES stored,      \* the stores' settings and favourites, as versions
          entry,       \* the hub's entries for them, NoEntry when absent
          stamp,       \* the hub's scope stamp "catalog"
          listing,     \* the hub's catalog entries, by stamp
          user,        \* each request: what it does, where it is, what it holds
          excused,     \* history: what a failed call or an overtaken write left behind
          outages      \* calls that failed

cacheVars == <<stored, entry, stamp, listing, user, excused, outages>>

NoEntry == -1
CacheKinds == {"settings", "favorites"}
Stamps == 0..MaxWrites
NoRequest == [pc |-> "idle", kind |-> "settings", stamp |-> 0, value |-> NoEntry]

(* a request that has answered holds nothing *)
UserAt(u, request) == user' = [user EXCEPT ![u] = IF request.pc = "idle" THEN NoRequest ELSE request]
UserStep(u, pc) == UserAt(u, [user[u] EXCEPT !.pc = pc])
Take(u, pc, value) == UserAt(u, [user[u] EXCEPT !.pc = pc, !.value = value])

Writes == stored.settings + stored.favorites + Cardinality({u \in Users : user[u].pc = "write"})

(* an entry that is not the stored value is excused when the read it came    *)
(* from was overtaken by a save, or a call failed                            *)
Filled(kind, value) ==
  /\ entry' = [entry EXCEPT ![kind] = value]
  /\ excused' = IF value # stored[kind] THEN excused \cup {kind} ELSE excused \ {kind}

(* a call to the hub that fails: the caller ignores it *)
Outage == outages < MaxOutages /\ outages' = outages + 1
Lost(kind) == Outage /\ excused' = excused \cup {kind}

CacheInit ==
  /\ stored = [k \in CacheKinds |-> 0] /\ entry = [k \in CacheKinds |-> NoEntry]
  /\ stamp = 0 /\ listing = [s \in Stamps |-> NoEntry]
  /\ user = [u \in Users |-> NoRequest] /\ excused = {} /\ outages = 0

-----------------------------------------------------------------------------
(* Reads: Load, ListFavoritePackageIDs, ListPackages, GetPackage             *)
Start(u) ==
  /\ user[u].pc = "idle"
  /\ \E k \in CacheKinds :
       \/ user' = [user EXCEPT ![u] = [NoRequest EXCEPT !.pc = "lookup", !.kind = k]]
       \/ /\ Writes < MaxWrites
          /\ user' = [user EXCEPT ![u] = [NoRequest EXCEPT !.pc = "write", !.kind = k]]
       \/ user' = [user EXCEPT ![u] = [NoRequest EXCEPT !.pc = "stamp"]]
  /\ UNCHANGED <<stored, entry, stamp, listing, excused, outages>>

(* the key of the catalog entry is fixed here, before anything is read *)
ReadScopeStamp(u) ==
  /\ user[u].pc = "stamp"
  /\ \/ /\ user' = [user EXCEPT ![u].pc = "find", ![u].stamp = stamp]
        /\ UNCHANGED <<excused, outages>>
     \/ /\ user' = [user EXCEPT ![u].pc = "find", ![u].stamp = 0]
        /\ Lost("catalog")
  /\ UNCHANGED <<stored, entry, stamp, listing>>

(* a hit answers; on a miss discover starts with settings.Load *)
FindListing(u) ==
  /\ user[u].pc = "find"
  /\ \/ listing[user[u].stamp] # NoEntry /\ UserStep(u, "idle") /\ UNCHANGED outages
     \/ /\ UserStep(u, "lookup for listing")
        /\ Outage \/ (listing[user[u].stamp] = NoEntry /\ UNCHANGED outages)
  /\ UNCHANGED <<stored, entry, stamp, listing, excused>>

(* the entry, if there is one: a leftover it may be taints the listing made of it *)
ReadEntry(u) ==
  /\ user[u].pc \in {"lookup", "lookup for listing"}
  /\ LET nested == user[u].pc = "lookup for listing"
         value == entry[user[u].kind]
     IN  \/ /\ value # NoEntry
            /\ Take(u, IF nested THEN "list" ELSE "idle", value)
            /\ excused' = IF nested /\ "settings" \in excused
                            THEN excused \cup {"catalog"} ELSE excused
            /\ UNCHANGED outages
         \/ /\ UserStep(u, IF nested THEN "base for listing" ELSE "base")
            /\ Outage \/ (value = NoEntry /\ UNCHANGED outages)
            /\ UNCHANGED excused
  /\ UNCHANGED <<stored, entry, stamp, listing>>

ReadStore(u) ==
  /\ user[u].pc \in {"base", "base for listing"}
  /\ Take(u, IF user[u].pc = "base" THEN "fill" ELSE "fill for listing", stored[user[u].kind])
  /\ UNCHANGED <<stored, entry, stamp, listing, excused, outages>>

Fill(u) ==
  /\ user[u].pc \in {"fill", "fill for listing"}
  /\ \/ Filled(user[u].kind, user[u].value) /\ UNCHANGED outages
     \/ Outage /\ UNCHANGED <<entry, excused>>
  /\ UserStep(u, IF user[u].pc = "fill" THEN "idle" ELSE "list")
  /\ UNCHANGED <<stored, stamp, listing>>

(* a mutant: the key is composed when the listing is written *)
WriteUnderLatest(u) ==
  /\ user[u].pc = "list"
  /\ listing' = [listing EXCEPT ![stamp] = user[u].value]
  /\ UserStep(u, "idle")
  /\ UNCHANGED <<stored, entry, stamp, excused, outages>>

(* the packages of the registries the settings name, under the key read first *)
WriteListing(u) ==
  /\ user[u].pc = "list"
  /\ \/ listing' = [listing EXCEPT ![user[u].stamp] = user[u].value] /\ UNCHANGED outages
     \/ Outage /\ UNCHANGED listing
  /\ UserStep(u, "idle")
  /\ UNCHANGED <<stored, entry, stamp, excused>>

-----------------------------------------------------------------------------
(* Writes.  A save of the settings: store, read back, entry, stamp; a sync of *)
(* a registry writes what it stored without reading it back.  A save or       *)
(* removal of a favourite: store, then remove the entry.                      *)
WriteStore(u) ==
  /\ user[u].pc = "write"
  /\ stored' = [stored EXCEPT ![user[u].kind] = @ + 1]
  /\ IF user[u].kind = "settings" THEN UserStep(u, "reload") ELSE UserStep(u, "remove")
  /\ UNCHANGED <<entry, stamp, listing, excused, outages>>

SyncRegistry(u) ==
  /\ user[u].pc = "write" /\ user[u].kind = "settings"
  /\ stored' = [stored EXCEPT !.settings = @ + 1]
  /\ Take(u, "refresh", stored.settings + 1)
  /\ UNCHANGED <<entry, stamp, listing, excused, outages>>

Reload(u) ==
  /\ user[u].pc = "reload"
  /\ Take(u, "refresh", stored.settings)
  /\ UNCHANGED <<stored, entry, stamp, listing, excused, outages>>

(* A call to a store fails.  A reader answers the error.  A save whose write   *)
(* failed may have been applied all the same, and one whose read-back failed   *)
(* has been (cache.go:46): neither the entry nor the stamp follows it.         *)
LeftBehind(kind) == IF kind = "settings" THEN {"settings", "catalog"} ELSE {kind}
StoreFails(u) ==
  /\ user[u].pc \in {"base", "base for listing", "write", "reload"} /\ Outage /\ UserStep(u, "idle")
  /\ \/ user[u].pc # "reload" /\ UNCHANGED <<stored, excused>>
     \/ /\ user[u].pc \in {"write", "reload"}
        /\ stored' = [stored EXCEPT ![user[u].kind] = IF user[u].pc = "write" THEN @ + 1 ELSE @]
        /\ excused' = excused \cup LeftBehind(user[u].kind)
  /\ UNCHANGED <<entry, stamp, listing>>

WriteEntry(u) ==
  /\ user[u].pc = "refresh"
  /\ \/ Filled("settings", user[u].value) /\ UNCHANGED outages
     \/ Lost("settings") /\ UNCHANGED entry
  /\ UserStep(u, "bump")
  /\ UNCHANGED <<stored, stamp, listing>>

BumpScope(u) ==
  /\ user[u].pc = "bump"
  /\ \/ stamp' = stamp + 1 /\ UNCHANGED <<excused, outages>>
     \/ Lost("catalog") /\ UNCHANGED stamp
  /\ UserStep(u, "idle")
  /\ UNCHANGED <<stored, entry, listing>>

RemoveEntry(u) ==
  /\ user[u].pc = "remove"
  /\ \/ /\ entry' = [entry EXCEPT !.favorites = NoEntry]
        /\ excused' = excused \ {"favorites"} /\ UNCHANGED outages
     \/ Lost("favorites") /\ UNCHANGED entry
  /\ UserStep(u, "idle")
  /\ UNCHANGED <<stored, stamp, listing>>

(* an entry's time to live ends *)
EntryExpires ==
  \/ /\ \E k \in CacheKinds :
          /\ entry[k] # NoEntry
          /\ entry' = [entry EXCEPT ![k] = NoEntry] /\ excused' = excused \ {k}
     /\ UNCHANGED <<stored, stamp, listing, user, outages>>
  \/ /\ \E s \in Stamps :
          /\ listing[s] # NoEntry
          /\ listing' = [listing EXCEPT ![s] = NoEntry]
     /\ UNCHANGED <<stored, entry, stamp, user, excused, outages>>

CacheNext ==
  \/ \E u \in Users :
       \/ Start(u) \/ ReadScopeStamp(u) \/ FindListing(u) \/ ReadEntry(u)
       \/ ReadStore(u) \/ Fill(u) \/ WriteListing(u) \/ WriteStore(u)
       \/ SyncRegistry(u) \/ Reload(u) \/ StoreFails(u)
       \/ WriteEntry(u) \/ BumpScope(u) \/ RemoveEntry(u)
  \/ EntryExpires

CacheSpec == CacheInit /\ [][CacheNext]_cacheVars

-----------------------------------------------------------------------------
Saving(kind) == \E u \in Users :
  user[u].kind = kind /\ user[u].pc \in {"reload", "refresh", "bump", "remove"}

(* Between saves, a cached value that is not the stored one was left by a    *)
(* failed call, to the hub or to the store (a save that fails after it has   *)
(* been stored included), or written by a request that another save overtook *)
(* since it had read or stored its value, never by the order in which a save *)
(* touches store, entry and stamp; and a catalog entry under the current     *)
(* stamp was discovered from the current settings unless the settings entry  *)
(* was such a leftover or a call for the stamp failed.                       *)
CachesFollowStores ==
  /\ \A k \in CacheKinds : (~Saving(k) /\ k \notin excused) => entry[k] \in {NoEntry, stored[k]}
  /\ (~Saving("settings") /\ "catalog" \notin excused)
       => listing[stamp] \in {NoEntry, stored.settings}
=============================================================================
