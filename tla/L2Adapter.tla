------------------------------ MODULE L2Adapter ------------------------------
(***************************************************************************)
(* The MP-mode L2 adapter: store, lookup-and-lock and load tasks run their *)
(* keys on the adapter's thread pools while the controller polls, unlocks  *)
(* and deletes from its own thread.  One DFS file per key, raw payload,    *)
(* judged by its size.  Every DAOS call is one step; between two calls any *)
(* other task may run.  The adapter's lock covers the task table, the lock *)
(* counts and the health fields, never a DAOS call.                        *)
(***************************************************************************)
EXTENDS Integers, FiniteSets

CONSTANTS
    Keys,
    Tasks,      \* task ids; each is used once, which bounds the run
    N           \* size of an object

ASSUME NAssumption == N \in Nat \ {0}
ASSUME TasksAssumption == IsFiniteSet(Tasks)
ASSUME KeysAssumption == Keys \cap {"idle", "stat"} = {}    \* a key is no place of delete()

Ops == {"store", "lookup", "load"}
Absent == -1

VARIABLES
    spread,     \* objects span DFS chunks: an object's last byte may land first
    file,       \* file[k]: st_size of k's file, or Absent
    whole,      \* keys whose file holds every byte (all writers of a key agree)
    phase,      \* phase[t]: where task t is; "done" is finished and signalled
    op,         \* op[t]: its operation
    item,       \* item[t][k]: where the task is with key k
    locks,      \* locks[k]: _locks
    held,       \* held[t]: keys t's lookup locked that are not unlocked yet
    inflight,   \* _inflight
    outcome,    \* outcome[t]: the result: none yet, ready, or taken
    used,       \* used[k]: bytes announced stored minus bytes announced deleted
    event,      \* the later of last_ok and last_error_at
    hits,       \* lookup_hits > 0
    delete,     \* the controller's delete() call
    raced       \* history: keys on which a store, or a delete and a lookup, overlapped

vars == <<spread, file, whole, phase, op, item, locks, held, inflight, outcome, used, event, hits, delete, raced>>

disk == <<spread, file, whole, raced>>
table == <<phase, op, inflight, outcome>>
lookups == <<locks, held, hits>>

Items == {"none", "stat", "create", "open", "lost", "undo", "wrote", "skip", "fail", "hit", "miss", "read", "opened", "shut", "ok"}
Unfinished == {"stat", "create", "open", "lost", "undo", "read", "opened", "shut"}
NoDelete == [at |-> "idle", todo |-> {}, size |-> 0, gone |-> {}]

TypeOK ==
    /\ spread \in BOOLEAN
    /\ file \in [Keys -> Absent .. N]
    /\ whole \subseteq {k \in Keys : file[k] = N}
    /\ phase \in [Tasks -> {"new", "run", "locked", "published", "done"}]
    /\ op \in [Tasks -> Ops \cup {"none"}]
    /\ item \in [Tasks -> [Keys -> Items]]
    /\ locks \in [Keys -> Nat]
    /\ held \in [Tasks -> SUBSET Keys]
    /\ inflight \in Int
    /\ outcome \in [Tasks -> {"none", "ready", "taken"}]
    /\ used \in [Keys -> Int]
    /\ event \in {"none", "ok", "error"}
    /\ hits \in BOOLEAN
    /\ delete \in [at : {"idle", "stat"} \cup Keys, todo : SUBSET Keys, size : 0 .. N,
                   gone : SUBSET (Keys \X (0 .. N))]
    /\ raced \subseteq Keys

Init ==
    /\ spread \in BOOLEAN
    /\ file = [k \in Keys |-> Absent]
    /\ whole = {}
    /\ phase = [t \in Tasks |-> "new"]
    /\ op = [t \in Tasks |-> "none"]
    /\ item = [t \in Tasks |-> [k \in Keys |-> "none"]]
    /\ locks = [k \in Keys |-> 0]
    /\ held = [t \in Tasks |-> {}]
    /\ inflight = 0
    /\ outcome = [t \in Tasks |-> "none"]
    /\ used = [k \in Keys |-> 0]
    /\ event = "none"
    /\ hits = FALSE
    /\ delete = NoDelete
    /\ raced = {}

With(t, S) == {k \in Keys : item[t][k] \in S}
Ended(t) == With(t, Unfinished) = {}
Deleting(k) == k \in delete.todo \/ \E m \in delete.gone : m[1] = k
Busy(k, o) == \E t \in Tasks : op[t] = o /\ phase[t] # "done" /\ item[t][k] # "none"

Move(t, k, to) == item' = [item EXCEPT ![t][k] = to]
_note_error == event' = "error"
_note_ok == event' = "ok"

\* dfs.remove(): the name goes.  A writer that has the file open keeps its
\* handle and writes to a file nobody can find any more; a reader reads none.
Orphan == [i \in Items |-> CASE i = "open" -> "lost" [] i = "opened" -> "shut" [] OTHER -> i]
Unlinked(k) == [t \in Tasks |-> [item[t] EXCEPT ![k] = Orphan[@]]]
Unlink(k) ==
    /\ file' = [file EXCEPT ![k] = Absent]
    /\ whole' = whole \ {k}
-----------------------------------------------------------------------------
(* submit_store_task, submit_lookup_and_lock_task, submit_load_task.       *)

\* A call on k overlaps one that the adapter does not keep it apart from.
Races(o, k) ==
    CASE o = "store"  -> Busy(k, "store") \/ Deleting(k)
      [] o = "lookup" -> Deleting(k)
      [] o = "load"   -> FALSE
      [] o = "delete" -> Busy(k, "store") \/ Busy(k, "lookup")

Submit(t, o, S) ==
    /\ phase[t] = "new"
    /\ raced' = raced \cup {k \in S : Races(o, k)}
    /\ phase' = [phase EXCEPT ![t] = "run"]
    /\ op' = [op EXCEPT ![t] = o]
    /\ item' = [item EXCEPT ![t] =
                  [k \in Keys |-> IF k \notin S THEN "none" ELSE IF o = "load" THEN "read" ELSE "stat"]]
    /\ inflight' = inflight + 1
    /\ UNCHANGED <<spread, file, whole, lookups, outcome, used, event, delete>>

\* A DAOS call of one item raises before it does anything: the item failed.
ItemRaises(t, k) ==
    /\ item[t][k] \in Unfinished \ {"open", "lost"}
    /\ Move(t, k, "fail")
    /\ _note_error
    /\ UNCHANGED <<disk, table, lookups, used, delete>>
-----------------------------------------------------------------------------
(* _store_one: stat, open, write, and remove after a short write.          *)

StoreStat(t, k) ==
    /\ op[t] = "store"
    /\ item[t][k] = "stat"
    /\ Move(t, k, IF file[k] = N THEN "skip" ELSE "create")
    /\ UNCHANGED <<disk, table, lookups, used, event, delete>>

StoreOpen(t, k) ==
    /\ item[t][k] = "create"
    /\ file' = [file EXCEPT ![k] = IF @ = Absent THEN 0 ELSE @]
    /\ Move(t, k, "open")
    /\ UNCHANGED <<spread, whole, raced, table, lookups, used, event, delete>>

\* Bytes reach the file t has open.  It only grows: nothing truncates it.
Grow(t, k, size) ==
    file' = IF item[t][k] = "open" /\ size > file[k] THEN [file EXCEPT ![k] = size] ELSE file

StoreWrite(t, k) ==
    /\ item[t][k] \in {"open", "lost"}
    /\ Grow(t, k, N)
    /\ whole' = IF item[t][k] = "open" THEN whole \cup {k} ELSE whole
    /\ Move(t, k, "wrote")
    /\ UNCHANGED <<spread, raced, table, lookups, used, event, delete>>

Partial == 0 .. (IF spread THEN N ELSE N - 1)

\* Part of the write has landed, the rest is on its way.
StorePart(t, k) ==
    /\ item[t][k] = "open"
    /\ \E size \in Partial : size > file[k] /\ Grow(t, k, size)
    /\ UNCHANGED <<spread, whole, raced, item, table, lookups, used, event, delete>>

\* The write ends short, or raises with part of it written.
StoreTorn(t, k) ==
    /\ item[t][k] \in {"open", "lost"}
    /\ \E size \in Partial : Grow(t, k, size)
    /\ \/ Move(t, k, "undo") /\ UNCHANGED event
       \/ Move(t, k, "fail") /\ _note_error
    /\ UNCHANGED <<spread, whole, raced, table, lookups, used, delete>>

StoreUndo(t, k) ==
    /\ item[t][k] = "undo"
    /\ Unlink(k)
    /\ item' = [Unlinked(k) EXCEPT ![t][k] = "fail"]
    /\ UNCHANGED <<spread, raced, table, lookups, used, event, delete>>
-----------------------------------------------------------------------------
(* _lookup_one and _load_one.                                              *)

LookupStat(t, k) ==
    /\ op[t] = "lookup"
    /\ item[t][k] = "stat"
    /\ Move(t, k, IF file[k] = N THEN "hit" ELSE "miss")
    /\ UNCHANGED <<disk, table, lookups, used, event, delete>>

\* Opening a file that is not there raises, like any other failed call.
LoadOpen(t, k) ==
    /\ item[t][k] = "read"
    /\ IF file[k] = Absent
       THEN Move(t, k, "fail") /\ _note_error
       ELSE Move(t, k, "opened") /\ UNCHANGED event
    /\ UNCHANGED <<disk, table, lookups, used, delete>>

\* Fault: the number of bytes read is not compared.
FullRead_Any(k) == k \in Keys

FullRead(k) == file[k] = N

\* A short read is a plain miss; so is the read of a file unlinked meanwhile.
LoadRead(t, k) ==
    /\ item[t][k] \in {"opened", "shut"}
    /\ Move(t, k, IF item[t][k] = "opened" /\ FullRead(k) THEN "ok" ELSE "miss")
    /\ UNCHANGED <<disk, table, lookups, used, event, delete>>
-----------------------------------------------------------------------------
(* The end of a task, on its task thread.                                  *)

\* _execute_lookup, first locked section: one lock per hit.
Lock(t) ==
    /\ phase[t] = "run" /\ op[t] = "lookup" /\ Ended(t)
    /\ locks' = [k \in Keys |-> IF item[t][k] = "hit" THEN locks[k] + 1 ELSE locks[k]]
    /\ held' = [held EXCEPT ![t] = With(t, {"hit"})]
    /\ hits' = (hits \/ With(t, {"hit"}) # {})
    /\ phase' = [phase EXCEPT ![t] = "locked"]
    /\ UNCHANGED <<disk, op, item, inflight, outcome, used, event, delete>>

\* Fault: the result is published only when no item failed.
Publish_OnSuccess(t) ==
    /\ \/ phase[t] = "run" /\ op[t] \in {"store", "load"} /\ Ended(t)
       \/ phase[t] = "locked"
    /\ With(t, {"fail"}) = {}
    /\ outcome' = [outcome EXCEPT ![t] = "ready"]
    /\ phase' = [phase EXCEPT ![t] = "published"]
    /\ UNCHANGED <<disk, op, item, lookups, inflight, used, event, delete>>

Publish(t) ==
    /\ \/ phase[t] = "run" /\ op[t] \in {"store", "load"} /\ Ended(t)
       \/ phase[t] = "locked"
    /\ outcome' = [outcome EXCEPT ![t] = "ready"]
    /\ phase' = [phase EXCEPT ![t] = "published"]
    /\ UNCHANGED <<disk, op, item, lookups, inflight, used, event, delete>>

\* Fault: the test of _execute_lookup, and its like, is "bitmap is not None".
Succeeded_Always(t) == op[t] \in Ops

\* The condition each _execute_* puts before its _note_ok().
Succeeded(t) ==
    CASE op[t] = "store"  -> With(t, {"wrote"}) # {}
      [] op[t] = "lookup" -> hits
      [] op[t] = "load"   -> With(t, {"ok"}) # {}

\* Fault: a key that was already there is announced too.
Stored_Skipped(t) == With(t, {"wrote", "skip"})

\* stored_keys: the keys announced to the capacity accounting.
Stored(t) == With(t, {"wrote"})

_finish(t) == inflight' = inflight - 1

\* _note_ok, _notify_keys_stored, _finish and the eventfd, in that order.
Finish(t) ==
    /\ phase[t] = "published"
    /\ IF Succeeded(t) THEN _note_ok ELSE UNCHANGED event
    /\ used' = [k \in Keys |-> IF k \in Stored(t) THEN used[k] + N ELSE used[k]]
    /\ _finish(t)
    /\ phase' = [phase EXCEPT ![t] = "done"]
    /\ UNCHANGED <<disk, op, item, lookups, outcome, delete>>
-----------------------------------------------------------------------------
(* The controller: poll, unlock, delete.                                   *)

\* pop_completed_store_tasks, query_lookup_and_lock_result, query_load_result.
Poll(t) ==
    /\ outcome[t] = "ready"
    /\ outcome' = [outcome EXCEPT ![t] = "taken"]
    /\ UNCHANGED <<disk, phase, op, item, lookups, inflight, used, event, delete>>

OneLess(n) == IF n > 0 THEN n - 1 ELSE 0

submit_unlock(t, S) ==
    /\ outcome[t] = "taken"
    /\ S # {} /\ S \subseteq held[t]
    /\ locks' = [k \in Keys |-> IF k \in S THEN OneLess(locks[k]) ELSE locks[k]]
    /\ held' = [held EXCEPT ![t] = @ \ S]
    /\ UNCHANGED <<disk, table, item, hits, used, event, delete>>

\* Fault: locked keys are not dropped.
Unlocked_All(S) == S

Unlocked(S) == {k \in S : locks[k] = 0}

\* Eviction picks among the keys it was told are stored; the locked ones are
\* dropped under the adapter's lock, before any DAOS call.
DeleteCall(S) ==
    /\ delete.at = "idle"
    /\ \A k \in S : used[k] > 0
    /\ delete' = [NoDelete EXCEPT !.at = "stat", !.todo = Unlocked(S)]
    /\ raced' = raced \cup {k \in S : Races("delete", k)}
    /\ UNCHANGED <<spread, file, whole, table, item, lookups, used, event>>

DeleteStat(k) ==
    /\ delete.at = "stat" /\ k \in delete.todo
    /\ delete' = IF file[k] = Absent THEN [delete EXCEPT !.todo = @ \ {k}]
                                     ELSE [delete EXCEPT !.at = k, !.size = file[k]]
    /\ UNCHANGED <<disk, table, item, lookups, used, event>>

DeleteRemove(k) ==
    /\ delete.at = k
    /\ delete' = [at |-> "stat", todo |-> delete.todo \ {k}, size |-> 0,
                  gone |-> IF file[k] = Absent THEN delete.gone
                                               ELSE delete.gone \cup {<<k, delete.size>>}]
    /\ Unlink(k)
    /\ item' = Unlinked(k)
    /\ UNCHANGED <<spread, raced, table, lookups, used, event>>

DeleteRaises(k) ==
    /\ delete.at \in {"stat", k} /\ k \in delete.todo
    /\ delete' = [delete EXCEPT !.at = "stat", !.todo = @ \ {k}, !.size = 0]
    /\ _note_error
    /\ UNCHANGED <<disk, table, item, lookups, used>>

DeleteDone ==
    /\ delete.at = "stat" /\ delete.todo = {}
    /\ used' = [k \in Keys |-> IF \E m \in delete.gone : m[1] = k
                               THEN used[k] - (CHOOSE m \in delete.gone : m[1] = k)[2] ELSE used[k]]
    /\ IF delete.gone # {} THEN _note_ok ELSE UNCHANGED event
    /\ delete' = NoDelete
    /\ UNCHANGED <<disk, table, item, lookups>>
-----------------------------------------------------------------------------
ItemStep(t, k) ==
    \/ StoreStat(t, k) \/ StoreOpen(t, k) \/ StoreWrite(t, k) \/ StorePart(t, k)
    \/ StoreTorn(t, k) \/ StoreUndo(t, k) \/ LookupStat(t, k) \/ LoadOpen(t, k)
    \/ LoadRead(t, k)
    \/ ItemRaises(t, k)

TaskStep(t) == Lock(t) \/ Publish(t) \/ Finish(t)

DeleteStep(k) == DeleteStat(k) \/ DeleteRemove(k) \/ DeleteRaises(k)

Next ==
    \/ \E t \in Tasks : \/ \E o \in Ops, S \in SUBSET Keys : Submit(t, o, S)
                        \/ \E k \in Keys : ItemStep(t, k)
                        \/ TaskStep(t)
                        \/ Poll(t)
                        \/ \E S \in SUBSET Keys : submit_unlock(t, S)
    \/ \E S \in SUBSET Keys : DeleteCall(S)
    \/ \E k \in Keys : DeleteStep(k)
    \/ DeleteDone

Spec == Init /\ [][Next]_vars
-----------------------------------------------------------------------------
(* Properties.                                                             *)

\* _locks counts exactly the lookups whose hits are not unlocked yet, however
\* lookups of one key overlap each other and the unlocks: a lock is neither
\* lost to another holder's unlock nor left behind.
LockCount ==
    \A k \in Keys : locks[k] = Cardinality({t \in Tasks : k \in held[t]})

\* "a locked key survives delete()": a key that a lookup locked and its caller
\* has not unlocked is complete on DAOS, ready for the load that follows,
\* unless stores or a delete of the key ran over each other or the lookup, or
\* the object spans DFS chunks and had its size before its bytes.
LockedSurvives == ~spread => \A t \in Tasks : \A k \in held[t] \ raced : file[k] = N

\* "a lock only has to stop *our* ``delete()`` from removing an object that a
\* prefetch is about to load": no delete removes the file of a locked key.
DeleteSparesLocked == [][\A k \in Keys : DeleteRemove(k) => locks[k] = 0]_vars

\* "A partially written object therefore reads as a miss, never as garbage":
\* _load_one reports success only for a file that holds every byte, whatever
\* stores, short writes and removes of the key run at the same time.  (An
\* object that spans DFS chunks can have its size before it has its bytes.)
NeverGarbage ==
    [][\A t \in Tasks, k \in Keys :
         ~spread /\ item[t][k] = "opened" /\ item'[t][k] = "ok" => k \in whole]_vars

\* report_status()'s "healthy": None, True or False.
_healthy_locked == [none |-> "None", ok |-> "True", error |-> "False"][event]

\* "None until something has happened", and True only on the strength of a key
\* that was really written, found or read: however failed tasks and late
\* _note_ok()s interleave, an adapter none of whose calls ever succeeded is
\* never healthy, and a task that ended with a success is never passed over.
\* (A hit counts for every later lookup: lookup_hits is never reset.)
HealthEarned ==
    LET succeeded(P) == \E t \in Tasks : phase[t] \in P /\ With(t, {"wrote", "hit", "ok"}) # {}
    IN /\ _healthy_locked = "True" => succeeded({"locked", "published", "done"})
       /\ _healthy_locked = "None" => ~succeeded({"done"})

\* Once no store or delete is under way, the bytes announced for a key are the
\* bytes of its complete file: eviction works on what is really there, as long
\* as stores and deletes of a key do not overlap.
UsedIsStored ==
    (delete.at = "idle" /\ \A t \in Tasks : op[t] = "store" => phase[t] = "done")
        => \A k \in Keys \ raced : used[k] = IF k \in whole THEN N ELSE 0

\* No submitted task is stranded, whichever of its DAOS calls fail: until it
\* is finished it has a step to take, and once the controller is signalled the
\* result is there to be taken.
ResultDue ==
    \A t \in Tasks :
        CASE phase[t] = "new"  -> TRUE
          [] phase[t] = "done" -> outcome[t] # "none"
          [] OTHER -> ENABLED (TaskStep(t) \/ \E k \in Keys : ItemStep(t, k))
=============================================================================
