------------------------- MODULE RuntimePersistence -------------------------
(***************************************************************************)
(* Saving and restoring executions (execution/runtime.go schedulePersist,  *)
(* runtime_store.go, runtime_cache.go, store/mongo SaveExecutionRuntime).  *)
(*                                                                         *)
(* A change arms a timer unless it is armed, except the one of the boot;   *)
(* the timer's function clears the flag, copies the executions under the   *)
(* lock and writes them after it: every record and its log as two          *)
(* documents, then the running ones into the cache.  A slow save may meet  *)
(* the next one.  A restart loads the documents and adds what only the     *)
(* cache has.                                                              *)
(*                                                                         *)
(* A record and a log are the number of changes they have seen.            *)
(***************************************************************************)
EXTENDS Naturals, FiniteSetsExt

CONSTANTS
    Executions,
    MaxChanges,      \* bound: creations and changes of the executions in memory
    MaxSaveFaults        \* bound: failed writes and restarts

VARIABLES
    live,            \* live[e]: the execution in memory; NoExecution when there is none
    owed,            \* executions whose change is not logged and scheduled yet
    boot,            \* boot[e]: none, under_way, or unsaved: no save has begun since
    pending,         \* persistPending: the timer is armed
    saving,          \* saving[p]: a call of persistExecutionRuntime
    documents, cached,  \* the documents of the store, and the cache
    undisturbed,     \* no save since the last complete one failed, overlapped or was cut off
    persistFaults

persistVars == <<live, owed, boot, pending, saving, documents, cached, undisturbed, persistFaults>>

Savers == 1..2                                   \* bound: saves at the same time
NoExecution == [record |-> 0, log |-> 0, ended |-> FALSE]
NothingSaved == [e \in Executions |-> NoExecution]
NotSaving == [at |-> "idle", copy |-> NothingSaved, left |-> {}, half |-> {}, alone |-> FALSE]

Present(records) == {e \in Executions : records[e].record > 0}
Running(records) == [e \in Executions |-> IF records[e].ended THEN NoExecution ELSE records[e]]

PersistInit ==
    /\ live = NothingSaved /\ owed = {} /\ boot = [e \in Executions |-> "none"] /\ pending = FALSE
    /\ saving = [p \in Savers |-> NotSaving]
    /\ documents = NothingSaved /\ cached = NothingSaved /\ undisturbed = TRUE /\ persistFaults = 0

PersistFault == persistFaults < MaxSaveFaults /\ persistFaults' = persistFaults + 1

-----------------------------------------------------------------------------
\* Changes of executions.

CreateExecution(e) ==
    /\ live[e] = NoExecution
    /\ live' = [live EXCEPT ![e].record = 1] /\ boot' = [boot EXCEPT ![e] = "under_way"] /\ pending' = TRUE
    /\ UNCHANGED <<owed, saving, documents, cached, undisturbed, persistFaults>>

ChangesLeft == MapThenSumSet(LAMBDA x : live[x].record, Executions) < MaxChanges

\* The boot gives the execution its suite and steps and schedules no save.
BootExecution(e) ==
    /\ live[e] # NoExecution /\ boot[e] = "under_way" /\ ChangesLeft
    /\ live' = [live EXCEPT ![e].record = @ + 1] /\ boot' = [boot EXCEPT ![e] = "unsaved"]
    /\ UNCHANGED <<owed, pending, saving, documents, cached, undisturbed, persistFaults>>

\* appendEvent and markNodeTerminal change the record under the lock, also that
\* of a run that has failed ...
ChangeExecution(e) ==
    /\ live[e] # NoExecution /\ e \notin owed /\ ChangesLeft
    /\ \E ended \in BOOLEAN : live' = [live EXCEPT ![e].record = @ + 1, ![e].ended = @ \/ ended]
    /\ owed' = owed \cup {e}
    /\ UNCHANGED <<boot, pending, saving, documents, cached, undisturbed, persistFaults>>

\* Mutant: the event is logged and no save is scheduled.
LogOnly(e) ==
    /\ e \in owed /\ owed' = owed \ {e}
    /\ live' = (IF live[e] = NoExecution THEN live ELSE [live EXCEPT ![e].log = @ + 1])
    /\ UNCHANGED <<boot, pending, saving, documents, cached, undisturbed, persistFaults>>

\* ... and log the event and arm the timer after it.
LogAndSchedule(e) ==
    /\ e \in owed /\ owed' = owed \ {e}
    /\ live' = (IF live[e] = NoExecution THEN live ELSE [live EXCEPT ![e].log = @ + 1])
    /\ pending' = TRUE
    /\ UNCHANGED <<boot, saving, documents, cached, undisturbed, persistFaults>>

-----------------------------------------------------------------------------
\* Saving.

SetSave(p, save) == saving' = [saving EXCEPT ![p] = save]
Others(p) == {q \in Savers \ {p} : saving[q] # NotSaving}

\* A save begins; those under way are no longer alone.
Begin(p) ==
    saving' = [q \in Savers |-> IF q = p THEN [NotSaving EXCEPT !.at = "copy", !.alone = Others(p) = {}]
                               ELSE [saving[q] EXCEPT !.alone = FALSE]]

TimerFires(p) ==
    /\ pending /\ saving[p] = NotSaving /\ Begin(p) /\ pending' = FALSE
    /\ undisturbed' = (undisturbed /\ Others(p) = {})
    /\ UNCHANGED <<live, owed, boot, documents, cached, persistFaults>>

CopyExecutions(p) ==
    /\ saving[p].at = "copy"
    /\ SetSave(p, [saving[p] EXCEPT !.at = "documents", !.copy = live, !.left = Present(live)])
    /\ boot' = [e \in Executions |-> IF boot[e] = "unsaved" THEN "none" ELSE boot[e]]
    /\ UNCHANGED <<live, owed, pending, documents, cached, undisturbed, persistFaults>>

\* A record and then its log, the executions in any order.
SaveRecord(p) ==
    /\ saving[p].at = "documents" /\ saving[p].half = {}
    /\ \E e \in saving[p].left :
          /\ documents' = [documents EXCEPT ![e].record = saving[p].copy[e].record, ![e].ended = saving[p].copy[e].ended]
          /\ SetSave(p, [saving[p] EXCEPT !.left = @ \ {e}, !.half = {e}])
    /\ UNCHANGED <<live, owed, boot, pending, cached, undisturbed, persistFaults>>

SaveLog(p) ==
    /\ \E e \in saving[p].half :
          /\ documents' = [documents EXCEPT ![e].log = saving[p].copy[e].log]
          /\ SetSave(p, [saving[p] EXCEPT !.half = {}, !.copy[e] = NoExecution])
    /\ UNCHANGED <<live, owed, boot, pending, cached, undisturbed, persistFaults>>

\* A write fails or five seconds are over: the rest is not written.
SaveFails(p) ==
    /\ saving[p].at = "documents" /\ saving[p].left \cup saving[p].half # {} /\ PersistFault
    /\ SetSave(p, [saving[p] EXCEPT !.at = "cache", !.copy = NothingSaved, !.left = {}, !.half = {}, !.alone = FALSE]) /\ undisturbed' = FALSE
    /\ UNCHANGED <<live, owed, boot, pending, documents, cached>>

\* The cache is written from a copy of its own.
CopyRunning(p) ==
    /\ \/ saving[p].at = "cache"
       \/ saving[p].at = "documents" /\ saving[p].left \cup saving[p].half = {}
    /\ SetSave(p, [saving[p] EXCEPT !.at = "write", !.copy = Running(live)])
    /\ UNCHANGED <<live, owed, boot, pending, documents, cached, undisturbed, persistFaults>>

\* A save that nothing disturbed makes up for the ones before it.
WriteCache(p) ==
    /\ saving[p].at = "write"
    /\ cached' = saving[p].copy /\ SetSave(p, NotSaving)
    /\ undisturbed' = (undisturbed \/ saving[p].alone)
    /\ UNCHANGED <<live, owed, boot, pending, documents, persistFaults>>

\* A failed write of the cache is not looked at.
CacheFails(p) ==
    /\ saving[p].at = "write" /\ PersistFault /\ SetSave(p, NotSaving) /\ undisturbed' = FALSE
    /\ UNCHANGED <<live, owed, boot, pending, documents, cached>>

-----------------------------------------------------------------------------
\* What a start finds in the store and, of what is not there, in the cache,
\* as far as they can be read.
Restored(store, cache, e) ==
    IF store /\ documents[e] # NoExecution THEN documents[e] ELSE IF cache THEN cached[e] ELSE NoExecution

\* A crash and the next start.  Nothing restored goes on.
Restarts(store, cache) ==
    /\ PersistFault
    /\ live' = [e \in Executions |-> Restored(store, cache, e)]
    /\ owed' = {} /\ boot' = [e \in Executions |-> "none"] /\ pending' = FALSE /\ saving' = [p \in Savers |-> NotSaving]
    /\ undisturbed' = FALSE /\ UNCHANGED <<documents, cached>>

PersistNext ==
    \/ \E e \in Executions : CreateExecution(e) \/ BootExecution(e) \/ ChangeExecution(e) \/ LogAndSchedule(e)
    \/ \E p \in Savers : \/ TimerFires(p) \/ CopyExecutions(p) \/ SaveRecord(p) \/ SaveLog(p)
                         \/ SaveFails(p) \/ CopyRunning(p) \/ WriteCache(p) \/ CacheFails(p)
    \/ \E store, cache \in BOOLEAN : Restarts(store, cache)

PersistSpec == PersistInit /\ [][PersistNext]_persistVars

-----------------------------------------------------------------------------
\* When no timer is armed, no save runs and every change has been logged, the
\* store and the cache hold the executions in memory, except one whose boot no
\* save has followed, and unless a write failed, a save met another or was cut
\* off by a restart and no complete one has followed: the debounce loses no
\* scheduled change, however changes and saves interleave.
PersistCatchesUp ==
    (~pending /\ owed = {} /\ undisturbed /\ \A p \in Savers : saving[p] = NotSaving) =>
        \A e \in Executions : boot[e] # "unsaved" =>
            /\ e \in Present(live) => documents[e] = live[e]
            /\ cached[e] = Running(live)[e]
=============================================================================
