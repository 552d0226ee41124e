--------------------------- MODULE L2AdapterProofs ---------------------------
(***************************************************************************)
(* Proofs about the L2 adapter's tasks, for any set of keys, any finite    *)
(* set of tasks and any object size.                                       *)
(***************************************************************************)
EXTENDS L2Adapter, FiniteSetTheorems, TLAPS

\* The steps of Next, one fact per operation.
LEMMA NextSplit ==
    ASSUME Next
    PROVE  \/ \E t \in Tasks, o \in Ops, S \in SUBSET Keys : Submit(t, o, S)
           \/ \E t \in Tasks, k \in Keys : ItemStep(t, k)
           \/ \E t \in Tasks : Lock(t) \/ Publish(t) \/ Finish(t) \/ Poll(t)
           \/ \E t \in Tasks, S \in SUBSET Keys : submit_unlock(t, S)
           \/ \E S \in SUBSET Keys : DeleteCall(S)
           \/ \E k \in Keys : DeleteStep(k)
           \/ DeleteDone
  BY Zenon DEF Next, TaskStep

LEMMA Sizes ==
    /\ Absent \in Int /\ Absent < 0
    /\ N \in Nat /\ N > 0 /\ 0 .. N \subseteq Absent .. N
    /\ \A n \in Absent .. N : n # Absent => n \in 0 .. N
  BY NAssumption DEF Absent

\* TypeOK in four parts, of which a step touches one or two.
DiskType ==
    /\ file \in [Keys -> Absent .. N]
    /\ whole \subseteq {k \in Keys : file[k] = N}
ItemType == item \in [Tasks -> [Keys -> Items]]
DeleteType ==
    delete \in [at : {"idle", "stat"} \cup Keys, todo : SUBSET Keys, size : 0 .. N,
                gone : SUBSET (Keys \X (0 .. N))]
RestType ==
    /\ spread \in BOOLEAN
    /\ phase \in [Tasks -> {"new", "run", "locked", "published", "done"}]
    /\ op \in [Tasks -> Ops \cup {"none"}]
    /\ locks \in [Keys -> Nat]
    /\ held \in [Tasks -> SUBSET Keys]
    /\ inflight \in Int
    /\ outcome \in [Tasks -> {"none", "ready", "taken"}]
    /\ used \in [Keys -> Int]
    /\ event \in {"none", "ok", "error"}
    /\ hits \in BOOLEAN
    /\ raced \subseteq Keys

LEMMA TypeParts == TypeOK <=> DiskType /\ ItemType /\ DeleteType /\ RestType
  BY Zenon DEF TypeOK, DiskType, ItemType, DeleteType, RestType

LEMMA OrphanType == ASSUME ItemType, NEW k \in Keys PROVE Unlinked(k) \in [Tasks -> [Keys -> Items]]
<1>1. Orphan \in [Items -> Items]
  BY Zenon DEF Orphan, Items
<1>2. QED
  BY <1>1, Zenon DEF ItemType, Unlinked

LEMMA UnlinkType == ASSUME DiskType, NEW k \in Keys, Unlink(k) PROVE DiskType'
  BY Sizes DEF DiskType, Unlink

\* Writing to a file never shrinks it.
LEMMA GrowType ==
    ASSUME DiskType, NEW t \in Tasks, NEW k \in Keys, NEW size \in 0 .. N, Grow(t, k, size)
    PROVE  /\ file' \in [Keys -> Absent .. N]
           /\ \A j \in Keys : file'[j] = file[j] \/ (j = k /\ item[t][k] = "open" /\ file'[j] = size /\ size > file[j])
<1>1. size \in Absent .. N
  BY Sizes, Zenon
<1>2. QED
  BY <1>1, Zenon DEF Grow, DiskType

\* What a step of one key of a task does to the types.
LEMMA ItemTypes ==
    ASSUME TypeOK, NEW t \in Tasks, NEW k \in Keys, ItemStep(t, k)
    PROVE  TypeOK'
<1>1. DiskType /\ ItemType /\ DeleteType /\ RestType
  BY TypeParts, Zenon
<1>2. DeleteType'
  BY <1>1, Zenon DEF ItemStep, StoreStat, StoreOpen, StoreWrite, StorePart, StoreTorn, StoreUndo, LookupStat,
     LoadOpen, LoadRead, ItemRaises, DeleteType
<1>3. RestType'
  BY <1>1, Zenon DEF ItemStep, StoreStat, StoreOpen, StoreWrite, StorePart, StoreTorn, StoreUndo, LookupStat,
     LoadOpen, LoadRead, ItemRaises, RestType, disk, table, lookups, _note_error
<1>4. ItemType'
  <2>1. CASE StoreUndo(t, k)
    BY <1>1, <2>1, OrphanType, Zenon DEF StoreUndo, ItemType, Items
  <2>2. CASE ~StoreUndo(t, k)
    BY <1>1, <2>2 DEF ItemStep, StoreStat, StoreOpen, StoreWrite, StorePart, StoreTorn, LookupStat,
       LoadOpen, LoadRead, ItemRaises, ItemType, Items, Move
  <2>3. QED
    BY <2>1, <2>2, Zenon
<1>5. DiskType'
  <2>1. CASE StoreOpen(t, k)
    BY <1>1, <2>1, Sizes DEF StoreOpen, DiskType
  <2>2. CASE StoreWrite(t, k)
    <3>1. N \in 0 .. N
      BY Sizes
    <3>2. QED
      BY <1>1, <2>2, <3>1, GrowType, Sizes DEF StoreWrite, DiskType, Grow
  <2>3. CASE StorePart(t, k) \/ StoreTorn(t, k)
    <3>1. PICK size \in Partial : Grow(t, k, size)
      BY <2>3, Zenon DEF StorePart, StoreTorn
    <3>2. size \in 0 .. N
      BY Sizes DEF Partial
    <3>3. whole' = whole
      BY <2>3, Zenon DEF StorePart, StoreTorn
    <3>4. \A j \in whole : file'[j] = N
      BY <1>1, <3>1, <3>2, GrowType, Sizes DEF DiskType
    <3>5. QED
      BY <1>1, <3>1, <3>2, <3>3, <3>4, GrowType, Zenon DEF DiskType
  <2>4. CASE StoreUndo(t, k)
    BY <1>1, <2>4, UnlinkType, Zenon DEF StoreUndo
  <2>5. CASE file' = file /\ whole' = whole
    BY <1>1, <2>5, Zenon DEF DiskType
  <2>6. QED
    BY <2>1, <2>2, <2>3, <2>4, <2>5, Zenon DEF ItemStep, StoreStat, LookupStat, LoadOpen, LoadRead, ItemRaises, disk
<1>6. QED
  BY <1>2, <1>3, <1>4, <1>5, Zenon DEF TypeOK, DiskType, ItemType, DeleteType, RestType

LEMMA OtherTypes ==
    ASSUME TypeOK, Next, ~\E t \in Tasks, k \in Keys : ItemStep(t, k)
    PROVE  TypeOK'
<1> DEFINE Goal == DiskType' /\ ItemType' /\ DeleteType' /\ RestType'
<1> HIDE DEF Goal
<1>1. DiskType /\ ItemType /\ DeleteType /\ RestType
  BY TypeParts, Zenon
<1>2. ASSUME NEW t \in Tasks, NEW o \in Ops, NEW S \in SUBSET Keys, Submit(t, o, S) PROVE Goal
  <2>1. ItemType'
    BY <1>1, <1>2, Zenon DEF Submit, ItemType, Items
  <2>2. QED
    BY <1>1, <1>2, <2>1 DEF Goal, Submit, lookups, DiskType, DeleteType, RestType
<1>3. ASSUME NEW t \in Tasks, Lock(t) \/ Publish(t) \/ Finish(t) \/ Poll(t) PROVE Goal
  <2>1. DiskType' /\ ItemType' /\ DeleteType'
    BY <1>1, <1>3, Zenon DEF Lock, Publish, Finish, Poll, disk, DiskType, ItemType, DeleteType
  <2>2. RestType'
    <3>1. hits' \in BOOLEAN
      BY <1>1, <1>3, Zenon DEF Lock, Publish, Finish, Poll, lookups, RestType
    <3>2. QED
      BY <1>1, <1>3, <3>1, Sizes DEF Lock, Publish, Finish, Poll, disk, lookups, With, _note_ok, _finish, RestType
  <2>3. QED
    BY <2>1, <2>2, Zenon DEF Goal
<1>4. ASSUME NEW t \in Tasks, NEW S \in SUBSET Keys, submit_unlock(t, S) PROVE Goal
  <2>1. \A n \in Nat : OneLess(n) \in Nat
    BY DEF OneLess
  <2>2. QED
    BY <1>1, <1>4, <2>1, Zenon DEF Goal, submit_unlock, disk, table, DiskType, ItemType, DeleteType, RestType
<1>5. ASSUME NEW S \in SUBSET Keys, DeleteCall(S) PROVE Goal
  <2>1. DeleteType'
    <3>1. /\ delete' = [at |-> "stat", todo |-> Unlocked(S), size |-> 0, gone |-> {}]
          /\ Unlocked(S) \subseteq Keys
      BY <1>5, Zenon DEF DeleteCall, NoDelete, Unlocked
    <3>2. QED
      BY <3>1, Sizes DEF DeleteType
  <2>2. QED
    BY <1>1, <1>5, <2>1, Zenon DEF Goal, DeleteCall, table, lookups, DiskType, ItemType, RestType
<1>6. ASSUME NEW k \in Keys, DeleteStat(k) \/ DeleteRaises(k) PROVE Goal
  <2>1. DeleteType'
    <3>1. file[k] # Absent => file[k] \in 0 .. N
      BY <1>1, Sizes, Zenon DEF DiskType
    <3>2. 0 \in 0 .. N
      BY Sizes
    <3>3. \/ delete' = [delete EXCEPT !.todo = @ \ {k}]
          \/ file[k] # Absent /\ delete' = [delete EXCEPT !.at = k, !.size = file[k]]
          \/ delete' = [delete EXCEPT !.at = "stat", !.todo = @ \ {k}, !.size = 0]
      BY <1>6, Zenon DEF DeleteStat, DeleteRaises
    <3>4. QED
      BY <1>1, <3>1, <3>2, <3>3, Zenon DEF DeleteType
  <2>2. QED
    BY <1>1, <1>6, <2>1, Zenon DEF Goal, DeleteStat, DeleteRaises, disk, table, lookups, _note_error, DiskType, ItemType,
       RestType
<1>7. ASSUME NEW k \in Keys, DeleteRemove(k) PROVE Goal
  <2>1. DiskType'
    BY <1>1, <1>7, UnlinkType, Zenon DEF DeleteRemove
  <2>2. ItemType'
    BY <1>1, <1>7, OrphanType, Zenon DEF DeleteRemove, ItemType
  <2>3. DeleteType'
    BY <1>1, <1>7, Sizes DEF DeleteRemove, DeleteType
  <2>4. QED
    BY <1>1, <1>7, <2>1, <2>2, <2>3, Zenon DEF Goal, DeleteRemove, table, lookups, RestType
<1>8. ASSUME DeleteDone PROVE Goal
  <2>1. DeleteType'
    BY <1>8, Sizes DEF DeleteDone, NoDelete, DeleteType
  <2>2. used' \in [Keys -> Int]
    <3>1. \A m \in delete.gone : m[2] \in Int
      BY <1>1 DEF DeleteType
    <3>2. \A k \in Keys : (\E m \in delete.gone : m[1] = k)
                            => (CHOOSE m \in delete.gone : m[1] = k) \in delete.gone
      BY Zenon
    <3>3. QED
      BY <1>1, <1>8, <3>1, <3>2 DEF DeleteDone, RestType
  <2>3. DiskType' /\ ItemType'
    BY <1>1, <1>8, Zenon DEF DeleteDone, disk, DiskType, ItemType
  <2>4. RestType'
    BY <1>1, <1>8, <2>2, Zenon DEF DeleteDone, disk, table, lookups, _note_ok, RestType
  <2>5. QED
    BY <2>1, <2>3, <2>4, Zenon DEF Goal
<1>9. Goal
  BY <1>2, <1>3, <1>4, <1>5, <1>6, <1>7, <1>8, NextSplit, Zenon DEF DeleteStep
<1>10. QED
  BY <1>9, Zenon DEF Goal, TypeOK, DiskType, ItemType, DeleteType, RestType

\* Every variable of the adapter keeps its type, whatever its tasks, the
\* controller and failing DAOS calls do.
THEOREM TypeCorrect == Spec => []TypeOK
<1>1. Init => TypeOK
  <2> SUFFICES ASSUME Init PROVE TypeOK
    BY Zenon
  <2>1. DiskType
    BY Sizes DEF Init, DiskType
  <2>2. DeleteType
    BY Sizes DEF Init, DeleteType, NoDelete
  <2>3. ItemType
    BY Zenon DEF Init, ItemType, Items
  <2>4. RestType
    <3>1. spread \in BOOLEAN /\ hits \in BOOLEAN
      BY Zenon DEF Init
    <3>2. QED
      BY <3>1 DEF Init, RestType
  <2>5. QED
    BY <2>1, <2>2, <2>3, <2>4, TypeParts, Zenon
<1>2. TypeOK /\ [Next]_vars => TypeOK'
  <2>1. TypeOK /\ UNCHANGED vars => TypeOK'
    BY Zenon DEF vars, TypeOK
  <2>2. QED
    BY <2>1, ItemTypes, OtherTypes, Zenon
<1>3. QED
  BY <1>1, <1>2, PTL DEF Spec
-----------------------------------------------------------------------------
(* A load never reports garbage.                                           *)

\* Why the size alone may be trusted when an object fits in one DFS chunk: no
\* step makes a file N bytes long without also making it whole.
SizeTells == ~spread => \A k \in Keys : file[k] = N => k \in whole

\* The steps that change a file.
LEMMA DiskSteps ==
    ASSUME Next
    PROVE  /\ spread' = spread
           /\ \/ file' = file /\ whole' = whole
              \/ \E k \in Keys : Unlink(k)
              \/ \E t \in Tasks, k \in Keys :
                   StoreOpen(t, k) \/ StoreWrite(t, k) \/ StorePart(t, k) \/ StoreTorn(t, k)
<1> DEFINE Goal == /\ spread' = spread
                   /\ \/ file' = file /\ whole' = whole
                      \/ \E k \in Keys : Unlink(k)
                      \/ \E t \in Tasks, k \in Keys :
                           StoreOpen(t, k) \/ StoreWrite(t, k) \/ StorePart(t, k) \/ StoreTorn(t, k)
<1>1. ASSUME NEW t \in Tasks, NEW k \in Keys, ItemStep(t, k) PROVE Goal
  <2>1. CASE StoreOpen(t, k) \/ StoreWrite(t, k) \/ StorePart(t, k) \/ StoreTorn(t, k)
    <3>1. spread' = spread
      BY <2>1, Zenon DEF StoreOpen, StoreWrite, StorePart, StoreTorn
    <3>2. QED
      BY <2>1, <3>1, Zenon
  <2>2. CASE StoreUndo(t, k)
    BY <2>2, Zenon DEF StoreUndo
  <2>3. QED
    BY <1>1, <2>1, <2>2, Zenon DEF ItemStep, StoreStat, LookupStat, LoadOpen, LoadRead, ItemRaises, disk
<1>2. ASSUME NEW k \in Keys, DeleteStep(k) PROVE Goal
  BY <1>2, Zenon DEF DeleteStep, DeleteStat, DeleteRemove, DeleteRaises, disk
<1>3. ASSUME NEW t \in Tasks, Lock(t) \/ Publish(t) \/ Finish(t) \/ Poll(t) PROVE Goal
  BY <1>3, Zenon DEF Lock, Publish, Finish, Poll, disk
<1>4. ASSUME NEW t \in Tasks, NEW o \in Ops, NEW S \in SUBSET Keys, Submit(t, o, S) PROVE Goal
  BY <1>4, Zenon DEF Submit
<1>5. ASSUME NEW t \in Tasks, NEW S \in SUBSET Keys, submit_unlock(t, S) PROVE Goal
  BY <1>5, Zenon DEF submit_unlock, disk
<1>6. ASSUME NEW S \in SUBSET Keys, DeleteCall(S) PROVE Goal
  BY <1>6, Zenon DEF DeleteCall
<1>7. ASSUME DeleteDone PROVE Goal
  BY <1>7, Zenon DEF DeleteDone, disk
<1>8. QED
  BY <1>1, <1>2, <1>3, <1>4, <1>5, <1>6, <1>7, NextSplit, Zenon

LEMMA SizeTellsStep == ASSUME TypeOK, SizeTells, [Next]_vars PROVE SizeTells'
<1> SUFFICES ASSUME ~spread, spread' = spread PROVE SizeTells'
  <2>1. spread' = spread
    BY DiskSteps, Zenon DEF vars
  <2>2. QED
    BY <2>1, Zenon DEF SizeTells
<1>1. DiskType
  BY TypeParts, Zenon
<1>2. CASE file' = file /\ whole' = whole
  BY <1>2, Zenon DEF SizeTells
<1>3. ASSUME NEW k \in Keys, Unlink(k) PROVE SizeTells'
  BY <1>1, <1>3, Sizes DEF Unlink, SizeTells, DiskType
<1>4. ASSUME NEW t \in Tasks, NEW k \in Keys, StoreOpen(t, k) PROVE SizeTells'
  BY <1>1, <1>4, Sizes DEF StoreOpen, SizeTells, DiskType
<1>5. ASSUME NEW t \in Tasks, NEW k \in Keys, StoreWrite(t, k) PROVE SizeTells'
  <2>1. N \in 0 .. N
    BY Sizes
  <2>2. QED
    BY <1>1, <1>5, <2>1, GrowType, Zenon DEF StoreWrite, SizeTells
<1>6. ASSUME NEW t \in Tasks, NEW k \in Keys, StorePart(t, k) \/ StoreTorn(t, k) PROVE SizeTells'
  <2>1. PICK size \in Partial : Grow(t, k, size)
    BY <1>6, Zenon DEF StorePart, StoreTorn
  <2>2. size \in 0 .. N /\ size # N
    BY <2>1, Sizes DEF Partial
  <2>3. whole' = whole
    BY <1>6, Zenon DEF StorePart, StoreTorn
  <2>4. QED
    BY <1>1, <2>1, <2>2, <2>3, GrowType DEF SizeTells
<1>7. CASE UNCHANGED vars
  BY <1>2, <1>7, Zenon DEF vars
<1>8. CASE Next
  BY <1>2, <1>3, <1>4, <1>5, <1>6, <1>8, DiskSteps, Zenon
<1>9. QED
  BY <1>7, <1>8, Zenon

\* The only step that ends an opened read with success is LoadRead's, and it
\* found N bytes.
LEMMA OkWasFull ==
    ASSUME TypeOK, Next, NEW t \in Tasks, NEW k \in Keys, item[t][k] = "opened", item'[t][k] = "ok"
    PROVE  file[k] = N
<1>1. ItemType
  BY TypeParts, Zenon
<1>2. CASE \E u \in Tasks, j \in Keys : ItemStep(u, j)
  <2>1. PICK u \in Tasks, j \in Keys : ItemStep(u, j)
    BY <1>2, Zenon
  <2>2. CASE StoreUndo(u, j)
    BY <1>1, <2>2, Zenon DEF StoreUndo, Unlinked, Orphan, ItemType, Items
  <2>3. CASE StorePart(u, j)
    BY <2>3, Zenon DEF StorePart
  <2>4. ASSUME NEW to, Move(u, j, to) PROVE u = t /\ j = k /\ to = "ok"
    BY <1>1, <2>4, Zenon DEF Move, ItemType
  <2>5. QED
    BY <2>1, <2>2, <2>3, <2>4 DEF ItemStep, StoreStat, StoreOpen, StoreWrite, StoreTorn, LookupStat, LoadOpen,
       LoadRead, ItemRaises, FullRead
<1>3. ASSUME NEW u \in Tasks, NEW o \in Ops, NEW S \in SUBSET Keys, Submit(u, o, S) PROVE FALSE
  BY <1>1, <1>3, Zenon DEF Submit, ItemType
<1>4. ASSUME NEW j \in Keys, item' = Unlinked(j) PROVE FALSE
  BY <1>1, <1>4, Zenon DEF Unlinked, Orphan, ItemType, Items
<1>5. QED
  BY <1>2, <1>3, <1>4, NextSplit, Zenon DEF Lock, Publish, Finish, Poll, submit_unlock, DeleteCall, DeleteStep,
     DeleteStat, DeleteRemove, DeleteRaises, DeleteDone

\* _load_one reports success only for a file that holds every byte, whatever
\* stores, short writes and removes of the key run at the same time.
THEOREM LoadsAreWhole == Spec => NeverGarbage
<1>1. Init => SizeTells
  BY Sizes DEF Init, SizeTells
<1>2. TypeOK /\ SizeTells /\ [Next]_vars => SizeTells'
  BY SizeTellsStep, Zenon
<1>3. TypeOK /\ SizeTells /\ [Next]_vars
        => [\A t \in Tasks, k \in Keys :
              ~spread /\ item[t][k] = "opened" /\ item'[t][k] = "ok" => k \in whole]_vars
  BY OkWasFull, Zenon DEF SizeTells
<1>4. QED
  BY <1>1, <1>2, <1>3, TypeCorrect, PTL DEF Spec, NeverGarbage
-----------------------------------------------------------------------------
(* The locks: they are counted exactly, and a locked key keeps its file.   *)

\* Where a task is with its keys tells its operation and its phase.
Stages ==
    \A t \in Tasks :
        /\ phase[t] \in {"new", "run"} => held[t] = {}
        /\ \A k \in Keys :
             /\ item[t][k] \in Unfinished => phase[t] = "run"
             /\ item[t][k] \in {"create", "open", "lost", "undo"} => op[t] = "store"
             /\ item[t][k] = "hit" => op[t] = "lookup"

\* delete() removes only what it stat'ed, and stats only what is on its list.
OnTheList == delete.at \in Keys => delete.at \in delete.todo

Storing(t, k) == op[t] = "store" /\ phase[t] # "done" /\ item[t][k] # "none"
Looking(t, k) == op[t] = "lookup" /\ phase[t] # "done" /\ item[t][k] # "none"

\* What keeps the file of a key on which no calls ran over each other: one
\* store at a time, which only goes on when the file is short; no delete next
\* to a store, a lookup or a lock; a file of full size behind every hit.
Guarded(k) ==
    /\ \A t, u \in Tasks : Storing(t, k) /\ Storing(u, k) => t = u
    /\ \A t \in Tasks :
         /\ Storing(t, k) \/ Looking(t, k) \/ k \in held[t] => ~Deleting(k)
         /\ item[t][k] \in {"create", "open", "undo"} => file[k] # N
         /\ item[t][k] # "lost"
         /\ k \in held[t] \/ (item[t][k] = "hit" /\ phase[t] = "run") => file[k] = N

LockInv == Stages /\ OnTheList /\ (~spread => \A k \in Keys \ raced : Guarded(k))
-----------------------------------------------------------------------------
\* A step of one key of a task, as far as the task table and the item go.
LEMMA ItemFrame ==
    ASSUME TypeOK, Stages, NEW t \in Tasks, NEW k \in Keys, ItemStep(t, k), ~StoreUndo(t, k)
    PROVE  /\ UNCHANGED <<table, lookups, delete, spread, raced>>
           /\ \E to \in Items : Move(t, k, to)
           /\ item[t][k] \in Unfinished
           /\ item'[t][k] \in {"create", "open", "undo"} => op[t] = "store"
           /\ item'[t][k] = "hit" => op[t] = "lookup"
           /\ item'[t][k] \notin {"none", "lost"}
<1>1. UNCHANGED <<table, lookups, delete, spread, raced>>
  BY Zenon DEF ItemStep, StoreStat, StoreOpen, StoreWrite, StorePart, StoreTorn, LookupStat, LoadOpen, LoadRead,
     ItemRaises, disk
<1>2. item[t][k] \in Unfinished
  BY Zenon DEF ItemStep, StoreStat, StoreOpen, StoreWrite, StorePart, StoreTorn, LookupStat, LoadOpen, LoadRead,
     ItemRaises, Unfinished
<1>3. item \in [Tasks -> [Keys -> Items]]
  BY Zenon DEF TypeOK
<1> DEFINE Good(to) == /\ to \in Items \ {"none", "lost"}
                       /\ to \in {"create", "open", "undo"} => op[t] = "store"
                       /\ to = "hit" => op[t] = "lookup"
<1>4. CASE StorePart(t, k)
  <2>1. item' = item /\ item[t][k] = "open"
    BY <1>4, Zenon DEF StorePart
  <2>2. Move(t, k, "open")
    BY <1>3, <2>1, Zenon DEF Move
  <2>3. QED
    BY <1>1, <1>2, <1>3, <2>1, <2>2, Zenon DEF Items, Stages
<1>5. CASE ~StorePart(t, k)
  <2>1. \E to \in Items : Good(to) /\ Move(t, k, to)
    BY <1>5, Zenon DEF Stages, ItemStep, StoreStat, StoreOpen, StoreWrite, StoreTorn, LookupStat, LoadOpen,
       LoadRead, ItemRaises, Items
  <2>2. PICK to \in Items : Good(to) /\ Move(t, k, to)
    BY <2>1, Zenon
  <2>3. item'[t][k] = to
    BY <1>3, <2>2, Zenon DEF Move
  <2>4. QED
    BY <1>1, <1>2, <2>2, <2>3, Zenon
<1>6. QED
  BY <1>4, <1>5, Zenon

LEMMA StagesStep == ASSUME TypeOK, Stages, [Next]_vars PROVE Stages'
<1> DEFINE Ok(t, k) == /\ item'[t][k] \in Unfinished => phase'[t] = "run"
                       /\ item'[t][k] \in {"create", "open", "lost", "undo"} => op'[t] = "store"
                       /\ item'[t][k] = "hit" => op'[t] = "lookup"
<1>1. /\ item \in [Tasks -> [Keys -> Items]]
      /\ phase \in [Tasks -> {"new", "run", "locked", "published", "done"}]
      /\ op \in [Tasks -> Ops \cup {"none"}]
      /\ held \in [Tasks -> SUBSET Keys]
  BY Zenon DEF TypeOK
<1>2. CASE UNCHANGED <<phase, op, held, item>>
  BY <1>2, Zenon DEF Stages
<1>3. ASSUME NEW t \in Tasks, NEW o \in Ops, NEW S \in SUBSET Keys, Submit(t, o, S) PROVE Stages'
  <2>1. held' = held /\ phase' = [phase EXCEPT ![t] = "run"] /\ op' = [op EXCEPT ![t] = o]
    BY <1>3, Zenon DEF Submit, lookups
  <2>2. \A k \in Keys : item'[t][k] \in {"none", "read", "stat"}
    BY <1>1, <1>3, Zenon DEF Submit
  <2>3. \A u \in Tasks : u # t => item'[u] = item[u]
    BY <1>1, <1>3, Zenon DEF Submit
  <2>4. held[t] = {}
    BY <1>3, Zenon DEF Submit, Stages
  <2>5. phase'[t] = "run" /\ \A u \in Tasks : u # t => phase'[u] = phase[u] /\ op'[u] = op[u]
    BY <1>1, <2>1, Zenon
  <2>6. \A k \in Keys : Ok(t, k)
    BY <2>2, <2>5, Zenon
  <2>7. QED
    BY <2>1, <2>3, <2>4, <2>5, <2>6 DEF Stages
<1>4. ASSUME NEW t \in Tasks, NEW k \in Keys, ItemStep(t, k), ~StoreUndo(t, k) PROVE Stages'
  <2>1. UNCHANGED <<phase, op, held>>
    BY <1>4, ItemFrame, Zenon DEF table, lookups
  <2>2. \A u \in Tasks, j \in Keys : <<u, j>> # <<t, k>> => item'[u][j] = item[u][j]
    BY <1>1, <1>4, ItemFrame DEF Move
  <2>3. Ok(t, k)
    BY <1>4, <2>1, ItemFrame, Zenon DEF Stages
  <2>4. QED
    BY <2>1, <2>2, <2>3 DEF Stages
<1>5. ASSUME NEW k \in Keys, DeleteRemove(k) \/ \E t \in Tasks : StoreUndo(t, k) PROVE Stages'
  <2>1. UNCHANGED <<phase, op, held>>
    BY <1>5, Zenon DEF StoreUndo, DeleteRemove, table, lookups
  <2> DEFINE Stays(u, j) ==
        item'[u][j] \in {item[u][j], "fail"} \cup (IF item[u][j] = "open" THEN {"lost"} ELSE {})
                                             \cup (IF item[u][j] = "opened" THEN {"shut"} ELSE {})
  <2>2. \A u \in Tasks, j \in Keys : Stays(u, j)
    <3>1. CASE DeleteRemove(k)
      BY <1>1, <3>1 DEF DeleteRemove, Unlinked, Orphan, Items
    <3>2. ASSUME NEW t \in Tasks, StoreUndo(t, k) PROVE \A u \in Tasks, j \in Keys : Stays(u, j)
      BY <1>1, <3>2 DEF StoreUndo, Unlinked, Orphan, Items
    <3>3. QED
      BY <1>5, <3>1, <3>2, Zenon
  <2>3. QED
    BY <2>1, <2>2 DEF Stages, Unfinished
<1>6. ASSUME NEW t \in Tasks, Lock(t) \/ Publish(t) \/ Finish(t) PROVE Stages'
  <2>1. UNCHANGED <<op, item>> /\ phase[t] # "new"
    BY <1>6, Zenon DEF Lock, Publish, Finish
  <2>2. /\ phase' \in [Tasks -> {"new", "run", "locked", "published", "done"}]
        /\ phase'[t] \notin {"new", "run"}
        /\ \A u \in Tasks : u # t => phase'[u] = phase[u] /\ held'[u] = held[u]
    BY <1>1, <1>6, Zenon DEF Lock, Publish, Finish, lookups
  <2>3. \A k \in Keys : item[t][k] \notin Unfinished
    BY <1>6, Zenon DEF Lock, Publish, Finish, Ended, With, Stages
  <2>4. QED
    BY <2>1, <2>2, <2>3, Zenon DEF Stages
<1>7. ASSUME NEW t \in Tasks, NEW S \in SUBSET Keys, submit_unlock(t, S) PROVE Stages'
  BY <1>1, <1>7, Zenon DEF submit_unlock, table, Stages
<1>8. ASSUME NEW t \in Tasks, Poll(t) PROVE Stages'
  BY <1>2, <1>8, Zenon DEF Poll, lookups
<1>9. ASSUME NEW k \in Keys, DeleteStat(k) \/ DeleteRaises(k) PROVE Stages'
  BY <1>2, <1>9, Zenon DEF DeleteStat, DeleteRaises, table, lookups
<1>10. ASSUME NEW S \in SUBSET Keys, DeleteCall(S) PROVE Stages'
  BY <1>2, <1>10, Zenon DEF DeleteCall, table, lookups
<1>11. ASSUME DeleteDone PROVE Stages'
  BY <1>2, <1>11, Zenon DEF DeleteDone, table, lookups
<1>12. CASE UNCHANGED vars
  BY <1>2, <1>12, Zenon DEF vars
<1>13. CASE Next
  BY <1>3, <1>4, <1>5, <1>6, <1>7, <1>8, <1>9, <1>10, <1>11, <1>13, NextSplit, Zenon DEF DeleteStep
<1>14. QED
  BY <1>12, <1>13, Zenon

-----------------------------------------------------------------------------
Holders(k) == {t \in Tasks : k \in held[t]}

LEMMA HoldersFinite == ASSUME NEW k PROVE IsFiniteSet(Holders(k)) /\ Cardinality(Holders(k)) \in Nat
  BY TasksAssumption, FS_Subset, FS_CardinalityType, Zenon DEF Holders

LEMMA CountStep == ASSUME TypeOK, Stages, LockCount, [Next]_vars PROVE LockCount'
<1> SUFFICES ASSUME NEW k \in Keys PROVE locks'[k] = Cardinality(Holders(k)')
  BY Zenon DEF LockCount, Holders
<1>1. /\ locks \in [Keys -> Nat]
      /\ held \in [Tasks -> SUBSET Keys]
      /\ locks[k] = Cardinality(Holders(k))
  BY Zenon DEF TypeOK, LockCount, Holders
<1>2. CASE locks' = locks /\ held' = held
  BY <1>1, <1>2, Zenon DEF Holders
<1>3. ASSUME NEW t \in Tasks, Lock(t) PROVE locks'[k] = Cardinality(Holders(k)')
  <2>1. t \notin Holders(k)
    BY <1>3, Zenon DEF Lock, Stages, Holders
  <2>2. CASE item[t][k] = "hit"
    <3>1. Holders(k)' = Holders(k) \cup {t}
      BY <1>1, <1>3, <2>2, Zenon DEF Lock, Holders, With
    <3>2. locks'[k] = locks[k] + 1
      BY <1>3, <2>2, Zenon DEF Lock
    <3>3. QED
      BY <1>1, <2>1, <3>1, <3>2, HoldersFinite, FS_AddElement, Zenon
  <2>3. CASE item[t][k] # "hit"
    <3>1. Holders(k)' = Holders(k)
      BY <1>1, <1>3, <2>1, <2>3, Zenon DEF Lock, Holders, With
    <3>2. QED
      BY <1>1, <1>3, <2>3, <3>1, Zenon DEF Lock
  <2>4. QED
    BY <2>2, <2>3, Zenon
<1>4. ASSUME NEW t \in Tasks, NEW S \in SUBSET Keys, submit_unlock(t, S)
      PROVE  locks'[k] = Cardinality(Holders(k)')
  <2>1. CASE k \in S
    <3>1. t \in Holders(k)
      BY <1>4, <2>1, Zenon DEF submit_unlock, Holders
    <3>2. Holders(k)' = Holders(k) \ {t}
      BY <1>1, <1>4, <2>1, Zenon DEF submit_unlock, Holders
    <3>3. Cardinality(Holders(k)') = Cardinality(Holders(k)) - 1
      BY <3>1, <3>2, HoldersFinite, FS_RemoveElement, Zenon
    <3>4. Cardinality(Holders(k)) # 0
      BY <3>1, HoldersFinite, FS_EmptySet, Zenon
    <3>5. locks'[k] = OneLess(locks[k])
      BY <1>4, <2>1, Zenon DEF submit_unlock
    <3>6. QED
      BY <1>1, <3>3, <3>4, <3>5, HoldersFinite DEF OneLess
  <2>2. CASE k \notin S
    <3>1. Holders(k)' = Holders(k)
      BY <1>1, <1>4, <2>2, Zenon DEF submit_unlock, Holders
    <3>2. QED
      BY <1>1, <1>4, <2>2, <3>1, Zenon DEF submit_unlock
  <2>3. QED
    BY <2>1, <2>2, Zenon
<1>5. CASE \E t \in Tasks, j \in Keys : ItemStep(t, j)
  <2>1. locks' = locks /\ held' = held
    BY <1>5 DEF ItemStep, StoreStat, StoreOpen, StoreWrite, StorePart, StoreTorn, StoreUndo, LookupStat,
       LoadOpen, LoadRead, ItemRaises, lookups
  <2>2. QED
    BY <1>2, <2>1, Zenon
<1>6. CASE Next
  BY <1>2, <1>3, <1>4, <1>5, <1>6, NextSplit, Zenon DEF Submit, Publish, Finish, Poll, DeleteCall, DeleteStep,
     DeleteStat, DeleteRemove, DeleteRaises, DeleteDone, lookups
<1>7. QED
  BY <1>2, <1>6, Zenon DEF vars

\* _locks counts exactly the lookups whose hits are not unlocked yet, for any
\* number of overlapping lookups and unlocks of a key.
THEOREM LocksCounted == Spec => []LockCount
<1>1. Init => Stages /\ LockCount
  <2> SUFFICES ASSUME Init PROVE Stages /\ LockCount
    BY Zenon
  <2>1. Stages
    BY Zenon DEF Init, Stages, Unfinished
  <2>2. ASSUME NEW k \in Keys PROVE locks[k] = Cardinality({t \in Tasks : k \in held[t]})
    <3>1. {t \in Tasks : k \in held[t]} = {}
      BY Zenon DEF Init
    <3>2. QED
      BY <3>1, FS_EmptySet, Zenon DEF Init
  <2>3. QED
    BY <2>1, <2>2, Zenon DEF LockCount
<1>2. TypeOK /\ Stages /\ LockCount /\ [Next]_vars => Stages' /\ LockCount'
  BY StagesStep, CountStep, Zenon
<1>3. QED
  BY <1>1, <1>2, TypeCorrect, PTL DEF Spec
-----------------------------------------------------------------------------
\* delete() works its list off: what it removes was on the list.
LEMMA DeleteShrinks ==
    ASSUME TypeOK, OnTheList, NEW k \in Keys, DeleteStep(k)
    PROVE  /\ delete'.todo \subseteq delete.todo
           /\ \A m \in delete'.gone : m \in delete.gone \/ m[1] \in delete.todo
           /\ OnTheList'
<1>1. /\ DeleteType
      /\ k # "stat"
  BY TypeParts, KeysAssumption, Zenon
<1>2. CASE DeleteStat(k)
  <2>1. k \in delete.todo /\ delete.at = "stat"
    BY <1>2, Zenon DEF DeleteStat
  <2>2. \/ delete' = [delete EXCEPT !.todo = @ \ {k}]
        \/ delete' = [delete EXCEPT !.at = k, !.size = file[k]]
    BY <1>2, Zenon DEF DeleteStat
  <2>3. QED
    BY <1>1, <2>1, <2>2, KeysAssumption, Zenon DEF DeleteType, OnTheList
<1>3. CASE DeleteRemove(k)
  <2>1. k \in delete.todo
    BY <1>3, Zenon DEF DeleteRemove, OnTheList
  <2>2. delete'.at = "stat" /\ delete'.todo = delete.todo \ {k}
    BY <1>3, Zenon DEF DeleteRemove
  <2>3. delete'.gone \subseteq delete.gone \cup {<<k, delete.size>>}
    BY <1>3, Zenon DEF DeleteRemove
  <2>4. QED
    BY <2>1, <2>2, <2>3, KeysAssumption DEF OnTheList
<1>4. CASE DeleteRaises(k)
  BY <1>1, <1>4, KeysAssumption, Zenon DEF DeleteRaises, DeleteType, OnTheList
<1>5. QED
  BY <1>2, <1>3, <1>4, Zenon DEF DeleteStep

LEMMA ListStep == ASSUME TypeOK, OnTheList, [Next]_vars PROVE OnTheList'
<1>1. CASE delete' = delete
  BY <1>1, Zenon DEF OnTheList
<1>2. ASSUME NEW S \in SUBSET Keys, DeleteCall(S) PROVE OnTheList'
  BY <1>2, KeysAssumption, Zenon DEF DeleteCall, NoDelete, OnTheList
<1>3. ASSUME NEW k \in Keys, DeleteStep(k) PROVE OnTheList'
  BY <1>3, DeleteShrinks, Zenon
<1>4. ASSUME DeleteDone PROVE OnTheList'
  BY <1>4, KeysAssumption, Zenon DEF DeleteDone, NoDelete, OnTheList
<1>5. ASSUME NEW t \in Tasks, NEW k \in Keys, ItemStep(t, k) PROVE delete' = delete
  BY <1>5, Zenon DEF ItemStep, StoreStat, StoreOpen, StoreWrite, StorePart, StoreTorn, StoreUndo, LookupStat,
     LoadOpen, LoadRead, ItemRaises
<1>6. QED
  BY <1>1, <1>2, <1>3, <1>4, <1>5, NextSplit, Zenon DEF vars, Submit, Lock, Publish, Finish, Poll, submit_unlock

\* A task holds a lock only if the count shows it.
LEMMA HeldIsLocked ==
    ASSUME LockCount, NEW k \in Keys, NEW t \in Tasks, k \in held[t] PROVE locks[k] # 0
<1>1. t \in Holders(k)
  BY Zenon DEF Holders
<1>2. Cardinality(Holders(k)) # 0
  BY <1>1, HoldersFinite, FS_EmptySet, Zenon
<1>3. QED
  BY <1>2, Zenon DEF LockCount, Holders

LEMMA GuardedStep ==
    ASSUME TypeOK, LockCount, Stages, OnTheList, ~spread, [Next]_vars,
           NEW k \in Keys, k \notin raced', k \notin raced => Guarded(k)
    PROVE  Guarded(k)'
<1>1. /\ item \in [Tasks -> [Keys -> Items]]
      /\ phase \in [Tasks -> {"new", "run", "locked", "published", "done"}]
      /\ op \in [Tasks -> Ops \cup {"none"}]
      /\ held \in [Tasks -> SUBSET Keys]
      /\ DiskType
  BY TypeParts, Zenon DEF TypeOK
<1>2. CASE UNCHANGED vars
  BY <1>2, Zenon DEF vars, Guarded, Storing, Looking, Deleting
<1>3. ASSUME NEW t \in Tasks, NEW o \in Ops, NEW S \in SUBSET Keys, Submit(t, o, S) PROVE Guarded(k)'
  <2>1. /\ held' = held /\ phase' = [phase EXCEPT ![t] = "run"] /\ op' = [op EXCEPT ![t] = o]
        /\ delete' = delete /\ file' = file
        /\ raced' = raced \cup {j \in S : Races(o, j)}
        /\ phase[t] = "new"
    BY <1>3, Zenon DEF Submit, lookups
  <2>2. item'[t][k] = IF k \notin S THEN "none" ELSE IF o = "load" THEN "read" ELSE "stat"
    BY <1>1, <1>3, Zenon DEF Submit
  <2>3. \A u \in Tasks : u # t => item'[u] = item[u]
    BY <1>1, <1>3, Zenon DEF Submit
  <2>4. Guarded(k) /\ (k \in S => ~Races(o, k))
    BY <2>1, Zenon
  <2>5. k \in S /\ o = "store" => ~Deleting(k) /\ \A u \in Tasks : ~Storing(u, k)
    BY <2>4, Zenon DEF Races, Busy, Storing
  <2>6. k \in S /\ o = "lookup" => ~Deleting(k)
    BY <2>4, Zenon DEF Races
  <2>7. Deleting(k)' = Deleting(k)
    BY <2>1, Zenon DEF Deleting
  <2>8. \A u \in Tasks : u # t => (Storing(u, k)' => Storing(u, k)) /\ (Looking(u, k)' => Looking(u, k))
    BY <1>1, <2>1, <2>3, Zenon DEF Storing, Looking
  <2>9. (Storing(t, k)' => k \in S /\ o = "store") /\ (Looking(t, k)' => k \in S /\ o = "lookup")
    BY <1>1, <2>1, <2>2, Zenon DEF Storing, Looking
  <2>10. held[t] = {}
    BY <2>1, Zenon DEF Stages
  <2>11. QED
    BY <1>1, <2>1, <2>2, <2>3, <2>4, <2>5, <2>6, <2>7, <2>8, <2>9, <2>10, Zenon DEF Guarded
<1>4. ASSUME NEW t \in Tasks, NEW j \in Keys, ItemStep(t, j) PROVE Guarded(k)'
  <2>1. UNCHANGED <<table, lookups, delete, spread, raced>> /\ Guarded(k)
    BY <1>4, ItemFrame, Zenon DEF StoreUndo
  <2>2. /\ phase' = phase /\ op' = op /\ held' = held
        /\ Deleting(k)' = Deleting(k)
    BY <2>1, Zenon DEF table, lookups, Deleting
  <2>3. CASE StoreUndo(t, j)
    <3>1. item[t][j] = "undo" /\ Unlink(j) /\ item' = [Unlinked(j) EXCEPT ![t][j] = "fail"]
      BY <2>3, Zenon DEF StoreUndo
    <3>2. CASE j # k
      <4>1. file'[k] = file[k] /\ \A u \in Tasks : item'[u][k] = item[u][k]
        BY <1>1, <3>1, <3>2, Zenon DEF Unlink, Unlinked, DiskType
      <4>2. QED
        BY <2>1, <2>2, <4>1, Zenon DEF Guarded, Storing, Looking
    <3>3. CASE j = k
      <4>1. Storing(t, k) /\ file[k] # N
        BY <2>1, <3>1, <3>3, Zenon DEF Guarded, Stages, Storing, Unfinished
      <4>2. file'[k] = Absent /\ Absent # N
        BY <1>1, <3>1, <3>3, Sizes DEF Unlink, DiskType
      <4>3. \A u \in Tasks : u # t => item[u][k] # "open"
        BY <2>1, <4>1, Zenon DEF Guarded, Stages, Storing, Unfinished
      <4>4. item'[t][k] = "fail"
        BY <1>1, <3>1, <3>3, Zenon DEF Unlinked
      <4>5. \A u \in Tasks : u # t => item'[u][k] \in {item[u][k], "shut"} /\ item'[u][k] # "lost"
        BY <1>1, <2>1, <3>1, <3>3, <4>3 DEF Unlinked, Orphan, Items, Guarded
      <4>6. \A u \in Tasks : item[u][k] = "none" => item'[u][k] = "none"
        BY <1>1, <3>1, <3>3, Zenon DEF Unlinked, Orphan, Items
      <4>7. \A u \in Tasks : (Storing(u, k)' => Storing(u, k)) /\ (Looking(u, k)' => Looking(u, k))
        BY <2>2, <4>6, Zenon DEF Storing, Looking
      <4>8. \A u \in Tasks : ~(k \in held[u] \/ (item[u][k] = "hit" /\ phase[u] = "run"))
        BY <2>1, <4>1, Zenon DEF Guarded
      <4>9. QED
        BY <2>1, <2>2, <4>2, <4>4, <4>5, <4>7, <4>8, Zenon DEF Guarded
    <3>4. QED
      BY <3>2, <3>3, Zenon
  <2>4. CASE ~StoreUndo(t, j)
    <3>1. item[t][j] \in Unfinished /\ \E to \in Items : Move(t, j, to)
      BY <1>4, <2>4, ItemFrame, Zenon
    <3>2. CASE j # k
      <4>1. \A u \in Tasks : item'[u][k] = item[u][k]
        BY <1>1, <3>1, <3>2 DEF Move
      <4>2. file'[k] = file[k]
        BY <1>1, <1>4, <2>4, <3>2, Zenon DEF ItemStep, StoreStat, StoreOpen, StoreWrite, StorePart, StoreTorn, Grow,
           LookupStat, LoadOpen, LoadRead, ItemRaises, disk, DiskType
      <4>3. QED
        BY <2>1, <2>2, <4>1, <4>2, Zenon DEF Guarded, Storing, Looking
    <3>3. CASE j = k
      <4>1. \A u \in Tasks : u # t => item'[u][k] = item[u][k]
        BY <1>1, <3>1, <3>3, Zenon DEF Move
      <4>2. item[t][k] # "none" /\ item'[t][k] \notin {"none", "lost"}
        BY <1>4, <2>4, <3>1, <3>3, ItemFrame, Zenon DEF Unfinished
      <4>3. \A u \in Tasks : (Storing(u, k)' <=> Storing(u, k)) /\ (Looking(u, k)' <=> Looking(u, k))
        BY <2>2, <4>1, <4>2, Zenon DEF Storing, Looking
      <4>4. ASSUME item[t][k] \in {"create", "open"}
            PROVE  /\ file[k] # N
                   /\ \A u \in Tasks : u # t => item[u][k] \notin {"create", "open", "undo"}
                   /\ \A u \in Tasks : k \notin held[u] /\ ~(item[u][k] = "hit" /\ phase[u] = "run")
        BY <2>1, <4>4 DEF Guarded, Stages, Storing, Unfinished
      <4>5. ASSUME file'[k] = file[k],
                   item'[t][k] \in {"create", "open", "undo"} => file[k] # N,
                   item'[t][k] = "hit" => file[k] = N
            PROVE  Guarded(k)'
        BY <2>1, <2>2, <4>1, <4>2, <4>3, <4>5, Zenon DEF Guarded
      <4>6. ASSUME item[t][k] \in {"create", "open"}, item'[t][k] # "hit",
                   item'[t][k] \in {"create", "open", "undo"} => file'[k] # N
            PROVE  Guarded(k)'
        BY <2>1, <2>2, <4>1, <4>2, <4>3, <4>4, <4>6, Zenon DEF Guarded
      <4>7. item[t][k] # "lost"
        BY <2>1, Zenon DEF Guarded
      <4>8. CASE StoreOpen(t, k)
        <5>1. file'[k] # N
          BY <1>1, <4>4, <4>8, Sizes DEF StoreOpen, DiskType
        <5>2. QED
          BY <1>1, <4>6, <4>8, <5>1, Zenon DEF StoreOpen, Move
      <4>9. CASE StoreWrite(t, k)
        BY <1>1, <4>6, <4>7, <4>9, Zenon DEF StoreWrite, Move
      <4>10. CASE StorePart(t, k) \/ StoreTorn(t, k)
        <5>1. PICK size \in Partial : Grow(t, k, size)
          BY <4>10, Zenon DEF StorePart, StoreTorn
        <5>2. size \in 0 .. N /\ size # N
          BY <5>1, Sizes DEF Partial
        <5>3. item[t][k] = "open"
          BY <4>7, <4>10, Zenon DEF StorePart, StoreTorn
        <5>4. file'[k] # N
          BY <1>1, <4>4, <5>1, <5>2, <5>3, GrowType
        <5>5. item'[t][k] # "hit"
          BY <1>1, <4>10, Zenon DEF StorePart, StoreTorn, Move
        <5>6. QED
          BY <4>6, <5>3, <5>4, <5>5, Zenon
      <4>11. CASE StoreStat(t, k) \/ LookupStat(t, k)
        BY <1>1, <4>5, <4>11 DEF StoreStat, LookupStat, Move, disk
      <4>12. CASE LoadOpen(t, k) \/ LoadRead(t, k) \/ ItemRaises(t, k)
        BY <1>1, <4>5, <4>12 DEF LoadOpen, LoadRead, ItemRaises, Move, disk
      <4>13. QED
        BY <1>4, <2>4, <3>3, <4>8, <4>9, <4>10, <4>11, <4>12, Zenon DEF ItemStep
    <3>4. QED
      BY <3>2, <3>3, Zenon
  <2>5. QED
    BY <2>3, <2>4, Zenon
<1>5. ASSUME NEW t \in Tasks, Lock(t) PROVE Guarded(k)'
  <2>1. Guarded(k) /\ UNCHANGED <<op, item, file, delete>>
    BY <1>5, Zenon DEF Lock, disk
  <2>2. /\ phase[t] = "run" /\ op[t] = "lookup"
        /\ phase' = [phase EXCEPT ![t] = "locked"]
        /\ held' = [held EXCEPT ![t] = With(t, {"hit"})]
    BY <1>5, Zenon DEF Lock
  <2>3. k \in held'[t] => item[t][k] = "hit"
    BY <1>1, <2>2, Zenon DEF With
  <2>4. item[t][k] = "hit" => Looking(t, k) /\ file[k] = N
    BY <2>1, <2>2, Zenon DEF Guarded, Looking
  <2>5. \A u \in Tasks : (Storing(u, k)' <=> Storing(u, k)) /\ (Looking(u, k)' <=> Looking(u, k))
    BY <1>1, <2>1, <2>2, Zenon DEF Storing, Looking
  <2>6. Deleting(k)' = Deleting(k)
    BY <2>1, Zenon DEF Deleting
  <2>7. \A u \in Tasks : u # t => held'[u] = held[u] /\ phase'[u] = phase[u]
    BY <1>1, <2>2, Zenon
  <2>8. phase'[t] # "run"
    BY <1>1, <2>2, Zenon
  <2>9. QED
    BY <2>1, <2>3, <2>4, <2>5, <2>6, <2>7, <2>8, Zenon DEF Guarded
<1>6. ASSUME NEW t \in Tasks, Publish(t) \/ Finish(t) \/ Poll(t) PROVE Guarded(k)'
  <2>1. Guarded(k) /\ UNCHANGED <<op, item, file, delete, held>>
    BY <1>6, Zenon DEF Publish, Finish, Poll, disk, lookups
  <2>2. \A u \in Tasks : (phase'[u] # "done" => phase[u] # "done") /\ (phase'[u] = "run" => phase[u] = "run")
    BY <1>1, <1>6, Zenon DEF Publish, Finish, Poll
  <2>3. QED
    BY <2>1, <2>2, Zenon DEF Guarded, Storing, Looking, Deleting
<1>7. ASSUME NEW t \in Tasks, NEW S \in SUBSET Keys, submit_unlock(t, S) PROVE Guarded(k)'
  <2>1. Guarded(k) /\ UNCHANGED <<op, phase, item, file, delete>>
    BY <1>7, Zenon DEF submit_unlock, disk, table
  <2>2. \A u \in Tasks : held'[u] \subseteq held[u]
    BY <1>1, <1>7, Zenon DEF submit_unlock
  <2>3. QED
    BY <2>1, <2>2, Zenon DEF Guarded, Storing, Looking, Deleting
<1>8. ASSUME NEW S \in SUBSET Keys, DeleteCall(S) PROVE Guarded(k)'
  <2>1. Guarded(k) /\ UNCHANGED <<op, phase, item, file, held>> /\ (k \in S => ~Races("delete", k))
    BY <1>8, Zenon DEF DeleteCall, lookups, table
  <2>2. delete'.todo = Unlocked(S) /\ delete'.gone = {}
    BY <1>8, Zenon DEF DeleteCall, NoDelete
  <2>3. Deleting(k)' => k \in S /\ locks[k] = 0
    BY <2>2, Zenon DEF Deleting, Unlocked
  <2>4. ~Races("delete", k) => \A u \in Tasks : ~Storing(u, k) /\ ~Looking(u, k)
    BY Zenon DEF Races, Busy, Storing, Looking
  <2>5. \A u \in Tasks : k \in held[u] => locks[k] # 0
    BY HeldIsLocked, Zenon
  <2>6. \A u \in Tasks : (Storing(u, k)' <=> Storing(u, k)) /\ (Looking(u, k)' <=> Looking(u, k))
    BY <2>1, Zenon DEF Storing, Looking
  <2>7. QED
    BY <2>1, <2>3, <2>4, <2>5, <2>6, Zenon DEF Guarded
<1>9. ASSUME NEW j \in Keys, DeleteStep(j) PROVE Guarded(k)'
  <2>1. Guarded(k) /\ UNCHANGED <<op, phase, held>>
    BY <1>9, Zenon DEF DeleteStep, DeleteStat, DeleteRemove, DeleteRaises, disk, table, lookups
  <2>2. Deleting(k)' => Deleting(k)
    BY <1>9, DeleteShrinks, Zenon DEF Deleting
  <2>3. CASE file'[k] = file[k] /\ \A u \in Tasks : item'[u][k] = item[u][k]
    BY <2>1, <2>2, <2>3, Zenon DEF Guarded, Storing, Looking
  <2>4. CASE DeleteRemove(j)
    <3>1. CASE j # k
      <4>1. file'[k] = file[k] /\ \A u \in Tasks : item'[u][k] = item[u][k]
        BY <1>1, <2>4, <3>1, Zenon DEF DeleteRemove, Unlink, Unlinked, DiskType
      <4>2. QED
        BY <2>3, <4>1, Zenon
    <3>2. CASE j = k
      <4>1. Deleting(k)
        BY <2>4, <3>2, Zenon DEF DeleteRemove, OnTheList, Deleting
      <4>2. \A u \in Tasks : ~Storing(u, k) /\ ~Looking(u, k) /\ k \notin held[u]
        BY <2>1, <4>1, Zenon DEF Guarded
      <4>3. \A u \in Tasks : item[u][k] \notin {"create", "open", "undo", "lost"}
        BY <4>2, Zenon DEF Stages, Storing, Unfinished
      <4>4. \A u \in Tasks : item'[u][k] \in {item[u][k], "shut"} /\ (item[u][k] = "none" => item'[u][k] = "none")
        BY <1>1, <2>4, <3>2, <4>3 DEF DeleteRemove, Unlinked, Orphan, Items
      <4>5. \A u \in Tasks : ~Storing(u, k)' /\ ~Looking(u, k)'
        BY <2>1, <4>2, <4>4, Zenon DEF Storing, Looking
      <4>6. \A u \in Tasks : ~(item[u][k] = "hit" /\ phase[u] = "run")
        BY <4>2, Zenon DEF Stages, Looking
      <4>7. QED
        BY <2>1, <4>2, <4>3, <4>4, <4>5, <4>6, Zenon DEF Guarded
    <3>3. QED
      BY <3>1, <3>2, Zenon
  <2>5. QED
    BY <1>9, <2>3, <2>4, Zenon DEF DeleteStep, DeleteStat, DeleteRaises, disk
<1>10. ASSUME DeleteDone PROVE Guarded(k)'
  <2>1. Guarded(k) /\ UNCHANGED <<op, phase, held, item, file>> /\ ~Deleting(k)'
    BY <1>10, Zenon DEF DeleteDone, disk, table, lookups, NoDelete, Deleting
  <2>2. QED
    BY <2>1, Zenon DEF Guarded, Storing, Looking
<1>11. QED
  BY <1>2, <1>3, <1>4, <1>5, <1>6, <1>7, <1>8, <1>9, <1>10, NextSplit, Zenon

\* A key that a lookup locked and its caller has not unlocked has its file at
\* full size, for any keys, tasks and object size, unless calls on the key ran
\* over each other or its objects span DFS chunks.
THEOREM LockedKeysSurvive == Spec => []LockedSurvives
<1>1. Init => LockInv
  <2> SUFFICES ASSUME Init PROVE LockInv
    BY Zenon
  <2>1. Stages
    BY Zenon DEF Init, Stages, Unfinished
  <2>2. OnTheList
    BY KeysAssumption, Zenon DEF Init, NoDelete, OnTheList
  <2>3. ASSUME NEW k \in Keys PROVE Guarded(k)
    BY Zenon DEF Init, Guarded, Storing, Looking
  <2>4. QED
    BY <2>1, <2>2, <2>3, Zenon DEF LockInv
<1>2. TypeOK /\ LockCount /\ LockInv /\ [Next]_vars => LockInv'
  <2> SUFFICES ASSUME TypeOK, LockCount, LockInv, [Next]_vars PROVE LockInv'
    BY Zenon
  <2>1. Stages' /\ OnTheList'
    BY StagesStep, ListStep, Zenon DEF LockInv
  <2>2. spread' = spread
    BY DiskSteps, Zenon DEF vars
  <2>3. ASSUME ~spread, NEW k \in Keys \ raced' PROVE Guarded(k)'
    <3>1. k \notin raced => Guarded(k)
      BY <2>3, Zenon DEF LockInv
    <3>2. QED
      BY <2>3, <3>1, GuardedStep, Zenon DEF LockInv
  <2>4. QED
    BY <2>1, <2>2, <2>3, Zenon DEF LockInv
<1>3. TypeOK /\ LockInv => LockedSurvives
  BY Zenon DEF TypeOK, LockInv, Guarded, LockedSurvives
<1>4. QED
  BY <1>1, <1>2, <1>3, TypeCorrect, LocksCounted, PTL DEF Spec
-----------------------------------------------------------------------------
(* The health report is earned.                                            *)

\* What became of a key tells the operation of its task.
Kinds ==
    \A t \in Tasks :
        /\ phase[t] # "new" => op[t] \in Ops
        /\ phase[t] = "new" => op[t] = "none"
        /\ \A k \in Keys : /\ item[t][k] = "wrote" => op[t] = "store"
                           /\ item[t][k] \in {"read", "opened", "shut", "ok"} => op[t] = "load"

\* A task whose keys have all ended, and one with a key written, found or read.
Past(t) == phase[t] \in {"locked", "published", "done"}
Gained(t) == With(t, {"wrote", "hit", "ok"}) # {}
AnyGain == \E t \in Tasks : Past(t) /\ Gained(t)
AnyHit == \E t \in Tasks : Past(t) /\ With(t, {"hit"}) # {}

\* Where each "healthy" can come from: lookup_hits from a lookup that hit, the
\* accounting from a store that wrote, the list of a delete from the accounting.
HealthInv ==
    /\ hits <=> AnyHit
    /\ (\E k \in Keys : used[k] > 0) => AnyGain
    /\ delete.todo # {} \/ delete.gone # {} => AnyGain
    /\ event = "ok" => AnyGain
    /\ event = "none" => \A t \in Tasks : phase[t] = "done" => ~Gained(t)

LEMMA KindsStep == ASSUME TypeOK, Stages, Kinds, [Next]_vars PROVE Kinds'
<1> DEFINE Ok(t, k) == /\ item'[t][k] = "wrote" => op'[t] = "store"
                       /\ item'[t][k] \in {"read", "opened", "shut", "ok"} => op'[t] = "load"
<1>1. /\ item \in [Tasks -> [Keys -> Items]]
      /\ phase \in [Tasks -> {"new", "run", "locked", "published", "done"}]
      /\ op \in [Tasks -> Ops \cup {"none"}]
  BY Zenon DEF TypeOK
<1>2. CASE UNCHANGED <<phase, op, item>>
  BY <1>2, Zenon DEF Kinds
<1>3. ASSUME NEW t \in Tasks, NEW o \in Ops, NEW S \in SUBSET Keys, Submit(t, o, S) PROVE Kinds'
  <2>1. phase' = [phase EXCEPT ![t] = "run"] /\ op' = [op EXCEPT ![t] = o]
    BY <1>3, Zenon DEF Submit
  <2>2. \A k \in Keys : item'[t][k] \in {"none", "stat"} \/ (item'[t][k] = "read" /\ o = "load")
    BY <1>1, <1>3, Zenon DEF Submit
  <2>3. \A u \in Tasks : u # t => item'[u] = item[u]
    BY <1>1, <1>3, Zenon DEF Submit
  <2>4. QED
    BY <1>1, <2>1, <2>2, <2>3 DEF Kinds
<1>4. ASSUME NEW t \in Tasks, NEW k \in Keys, ItemStep(t, k), ~StoreUndo(t, k) PROVE Kinds'
  <2>1. UNCHANGED <<phase, op>>
    BY <1>4, ItemFrame, Zenon DEF table
  <2>2. \A u \in Tasks, j \in Keys : <<u, j>> # <<t, k>> => item'[u][j] = item[u][j]
    BY <1>1, <1>4, ItemFrame DEF Move
  <2>3. Ok(t, k)
    <3>1. CASE StorePart(t, k)
      BY <2>1, <3>1, Zenon DEF StorePart, Kinds
    <3>2. CASE StoreStat(t, k) \/ StoreOpen(t, k) \/ StoreTorn(t, k) \/ LookupStat(t, k) \/ ItemRaises(t, k)
      BY <1>1, <3>2 DEF StoreStat, StoreOpen, StoreTorn, LookupStat, ItemRaises, Move
    <3>3. CASE StoreWrite(t, k)
      BY <1>1, <2>1, <3>3, Zenon DEF StoreWrite, Move, Stages
    <3>4. CASE LoadOpen(t, k) \/ LoadRead(t, k)
      BY <1>1, <2>1, <3>4 DEF LoadOpen, LoadRead, Move, Kinds
    <3>5. QED
      BY <1>4, <3>1, <3>2, <3>3, <3>4, Zenon DEF ItemStep
  <2>4. QED
    BY <2>1, <2>2, <2>3 DEF Kinds
<1>5. ASSUME NEW k \in Keys, DeleteRemove(k) \/ \E t \in Tasks : StoreUndo(t, k) PROVE Kinds'
  <2>1. UNCHANGED <<phase, op>>
    BY <1>5, Zenon DEF StoreUndo, DeleteRemove, table
  <2> DEFINE Stays(u, j) == item'[u][j] \in {item[u][j], "fail", "lost"} \cup (IF item[u][j] = "opened" THEN {"shut"} ELSE {})
  <2>2. \A u \in Tasks, j \in Keys : Stays(u, j)
    <3>1. CASE DeleteRemove(k)
      BY <1>1, <3>1 DEF DeleteRemove, Unlinked, Orphan, Items
    <3>2. ASSUME NEW t \in Tasks, StoreUndo(t, k) PROVE \A u \in Tasks, j \in Keys : Stays(u, j)
      BY <1>1, <3>2 DEF StoreUndo, Unlinked, Orphan, Items
    <3>3. QED
      BY <1>5, <3>1, <3>2, Zenon
  <2>3. ASSUME NEW u \in Tasks, NEW j \in Keys
        PROVE  /\ item'[u][j] = "wrote" => op[u] = "store"
               /\ item'[u][j] \in {"read", "opened", "shut", "ok"} => op[u] = "load"
    <3>1. \/ item'[u][j] = item[u][j] \/ item'[u][j] \in {"fail", "lost"}
          \/ item[u][j] = "opened" /\ item'[u][j] = "shut"
      BY <2>2, Zenon
    <3>2. /\ item[u][j] = "wrote" => op[u] = "store"
          /\ item[u][j] \in {"read", "opened", "shut", "ok"} => op[u] = "load"
      BY Zenon DEF Kinds
    <3>3. QED
      BY <3>1, <3>2, Zenon
  <2>4. QED
    BY <2>1, <2>3, Zenon DEF Kinds
<1>6. ASSUME NEW t \in Tasks, Lock(t) \/ Publish(t) \/ Finish(t) PROVE Kinds'
  <2>1. UNCHANGED <<op, item>> /\ phase[t] # "new"
    BY <1>6, Zenon DEF Lock, Publish, Finish
  <2>2. phase'[t] # "new" /\ \A u \in Tasks : u # t => phase'[u] = phase[u]
    BY <1>1, <1>6, Zenon DEF Lock, Publish, Finish
  <2>3. QED
    BY <2>1, <2>2, Zenon DEF Kinds
<1>7. ASSUME NEW t \in Tasks, Poll(t) \/ \E S \in SUBSET Keys : submit_unlock(t, S) PROVE Kinds'
  BY <1>2, <1>7, Zenon DEF Poll, submit_unlock, table
<1>8. ASSUME NEW k \in Keys, DeleteStat(k) \/ DeleteRaises(k) PROVE Kinds'
  BY <1>2, <1>8, Zenon DEF DeleteStat, DeleteRaises, table
<1>9. ASSUME NEW S \in SUBSET Keys, DeleteCall(S) PROVE Kinds'
  BY <1>2, <1>9, Zenon DEF DeleteCall, table
<1>10. ASSUME DeleteDone PROVE Kinds'
  BY <1>2, <1>10, Zenon DEF DeleteDone, table
<1>11. CASE UNCHANGED vars
  BY <1>2, <1>11, Zenon DEF vars
<1>12. CASE Next
  BY <1>3, <1>4, <1>5, <1>6, <1>7, <1>8, <1>9, <1>10, <1>12, NextSplit, Zenon DEF DeleteStep
<1>13. QED
  BY <1>11, <1>12, Zenon

\* Nothing touches the keys of a task once they have all ended.
LEMMA Frozen ==
    ASSUME TypeOK, Stages, [Next]_vars, NEW t \in Tasks, Past(t)
    PROVE  Past(t)' /\ \A k \in Keys : item'[t][k] = item[t][k]
<1>1. /\ item \in [Tasks -> [Keys -> Items]]
      /\ phase \in [Tasks -> {"new", "run", "locked", "published", "done"}]
  BY Zenon DEF TypeOK
<1>2. \A k \in Keys : item[t][k] \notin Unfinished
  BY Zenon DEF Past, Stages
<1>3. ASSUME NEW u \in Tasks, NEW o \in Ops, NEW S \in SUBSET Keys, Submit(u, o, S)
      PROVE  phase'[t] = phase[t] /\ \A k \in Keys : item'[t][k] = item[t][k]
  BY <1>1, <1>3, Zenon DEF Submit, Past
<1>4. ASSUME NEW u \in Tasks, NEW j \in Keys, ItemStep(u, j)
      PROVE  phase'[t] = phase[t] /\ \A k \in Keys : item'[t][k] = item[t][k]
  <2>1. CASE StoreUndo(u, j)
    <3>1. item[u][j] \in Unfinished /\ phase' = phase
      BY <2>1, Zenon DEF StoreUndo, Unfinished, table
    <3>2. u # t
      BY <1>2, <3>1, Zenon
    <3>3. QED
      BY <1>1, <1>2, <2>1, <3>1, <3>2 DEF StoreUndo, Unlinked, Orphan, Items, Unfinished
  <2>2. CASE ~StoreUndo(u, j)
    <3>1. item[u][j] \in Unfinished /\ phase' = phase /\ \E to \in Items : Move(u, j, to)
      BY <1>4, <2>2, ItemFrame, Zenon DEF table
    <3>2. QED
      BY <1>1, <1>2, <3>1, Zenon DEF Move
  <2>3. QED
    BY <2>1, <2>2, Zenon
<1>5. ASSUME NEW j \in Keys, DeleteStep(j) PROVE phase'[t] = phase[t] /\ \A k \in Keys : item'[t][k] = item[t][k]
  <2>1. phase' = phase
    BY <1>5, Zenon DEF DeleteStep, DeleteStat, DeleteRemove, DeleteRaises, table
  <2>2. CASE DeleteRemove(j)
    BY <1>1, <1>2, <2>1, <2>2, Zenon DEF DeleteRemove, Unlinked, Orphan, Items, Unfinished
  <2>3. QED
    BY <1>5, <2>1, <2>2, Zenon DEF DeleteStep, DeleteStat, DeleteRaises
<1>6. ASSUME NEW u \in Tasks, Lock(u) \/ Publish(u) \/ Finish(u) PROVE Past(t)' /\ item' = item
  BY <1>1, <1>6, Zenon DEF Lock, Publish, Finish, Past
<1>7. QED
  BY <1>3, <1>4, <1>5, <1>6, NextSplit, Zenon DEF vars, Past, Poll, submit_unlock, DeleteCall, DeleteDone, table

LEMMA HealthStep ==
    ASSUME TypeOK, Stages, OnTheList, Kinds, HealthInv, [Next]_vars
    PROVE  HealthInv'
<1>1. /\ item \in [Tasks -> [Keys -> Items]]
      /\ phase \in [Tasks -> {"new", "run", "locked", "published", "done"}]
      /\ used \in [Keys -> Int]
      /\ hits \in BOOLEAN
      /\ DeleteType
  BY TypeParts, Zenon DEF TypeOK
<1>2. ASSUME NEW t \in Tasks, Past(t)
      PROVE  Past(t)' /\ With(t, {"hit"})' = With(t, {"hit"}) /\ Gained(t)' = Gained(t)
  <2>1. Past(t)' /\ \A k \in Keys : item'[t][k] = item[t][k]
    BY <1>2, Frozen, Zenon
  <2>2. With(t, {"hit"})' = With(t, {"hit"}) /\ With(t, {"wrote", "hit", "ok"})' = With(t, {"wrote", "hit", "ok"})
    BY <2>1, Zenon DEF With
  <2>3. QED
    BY <2>1, <2>2, Zenon DEF Gained
<1>3. (AnyGain => AnyGain') /\ (AnyHit => AnyHit')
  BY <1>2, Zenon DEF AnyGain, AnyHit
<1>4. ASSUME event' \in {event, "error"}, hits' = hits, used' = used,
             delete'.todo # {} \/ delete'.gone # {} => delete.todo # {} \/ delete.gone # {} \/ AnyGain,
             \A t \in Tasks : (Past(t)' => Past(t)) /\ (phase'[t] = "done" => phase[t] = "done")
      PROVE  HealthInv'
  <2>1. AnyHit' => AnyHit
    BY <1>2, <1>4, Zenon DEF AnyHit
  <2>2. event' = "none" => \A t \in Tasks : phase'[t] = "done" => ~Gained(t)'
    BY <1>2, <1>4, Zenon DEF HealthInv, Past
  <2>3. QED
    BY <1>3, <1>4, <2>1, <2>2, Zenon DEF HealthInv
<1>5. ASSUME NEW t \in Tasks, NEW o \in Ops, NEW S \in SUBSET Keys, Submit(t, o, S) PROVE HealthInv'
  BY <1>1, <1>4, <1>5, Zenon DEF Submit, lookups, Past
<1>6. ASSUME NEW t \in Tasks, NEW k \in Keys, ItemStep(t, k) PROVE HealthInv'
  <2>1. event' \in {event, "error"} /\ hits' = hits /\ used' = used /\ delete' = delete /\ phase' = phase
    BY <1>6, Zenon DEF ItemStep, StoreStat, StoreOpen, StoreWrite, StorePart, StoreTorn, StoreUndo, LookupStat,
       LoadOpen, LoadRead, ItemRaises, lookups, table, _note_error
  <2>2. QED
    BY <1>4, <2>1, Zenon DEF Past
<1>7. ASSUME NEW t \in Tasks, Poll(t) \/ \E S \in SUBSET Keys : submit_unlock(t, S) PROVE HealthInv'
  BY <1>4, <1>7, Zenon DEF Poll, submit_unlock, table, lookups, Past
<1>8. ASSUME NEW S \in SUBSET Keys, DeleteCall(S) PROVE HealthInv'
  <2>1. delete'.todo \subseteq S /\ delete'.gone = {}
    BY <1>8, Zenon DEF DeleteCall, NoDelete, Unlocked
  <2>2. S # {} => AnyGain
    BY <1>8, Zenon DEF DeleteCall, HealthInv
  <2>3. UNCHANGED <<event, hits, used, phase>>
    BY <1>8, Zenon DEF DeleteCall, table, lookups
  <2>4. QED
    BY <1>4, <2>1, <2>2, <2>3, Zenon DEF Past
<1>9. ASSUME NEW k \in Keys, DeleteStep(k) PROVE HealthInv'
  <2>1. delete'.todo # {} \/ delete'.gone # {} => delete.todo # {} \/ delete.gone # {}
    BY <1>9, DeleteShrinks, Zenon
  <2>2. event' \in {event, "error"} /\ UNCHANGED <<hits, used, phase>>
    BY <1>9, Zenon DEF DeleteStep, DeleteStat, DeleteRemove, DeleteRaises, table, lookups, _note_error
  <2>3. QED
    BY <1>4, <2>1, <2>2, Zenon DEF Past
<1>10. ASSUME DeleteDone PROVE HealthInv'
  <2>1. UNCHANGED <<hits, phase>> /\ delete'.todo = {} /\ delete'.gone = {}
    BY <1>10, Zenon DEF DeleteDone, table, lookups, NoDelete
  <2>2. \A k \in Keys : used'[k] > 0 => used[k] > 0
    <3>1. \A m \in delete.gone : m[2] \in 0 .. N
      BY <1>1, Zenon DEF DeleteType
    <3>2. \A k \in Keys : (\E m \in delete.gone : m[1] = k)
                            => (CHOOSE m \in delete.gone : m[1] = k) \in delete.gone
      BY Zenon
    <3>3. QED
      BY <1>1, <1>10, <3>1, <3>2, Sizes DEF DeleteDone
  <2>3. event' = event \/ (event' = "ok" /\ delete.gone # {})
    BY <1>10, Zenon DEF DeleteDone, _note_ok
  <2>4. AnyHit' => AnyHit
    BY <1>2, <2>1, Zenon DEF AnyHit, Past
  <2>5. event' = "none" => \A t \in Tasks : phase'[t] = "done" => ~Gained(t)'
    BY <1>2, <2>1, <2>3, Zenon DEF HealthInv, Past
  <2>6. QED
    BY <1>3, <2>1, <2>2, <2>3, <2>4, <2>5, Zenon DEF HealthInv
<1>11. ASSUME NEW t \in Tasks, Lock(t) PROVE HealthInv'
  <2>1. UNCHANGED <<item, used, event, delete>> /\ phase' = [phase EXCEPT ![t] = "locked"] /\ phase[t] = "run"
    BY <1>11, Zenon DEF Lock
  <2>2. hits' <=> (hits \/ With(t, {"hit"}) # {})
    BY <1>11, Zenon DEF Lock
  <2>3. Past(t)' /\ \A u \in Tasks : u # t => (Past(u)' <=> Past(u)) /\ (phase'[u] = phase[u])
    BY <1>1, <2>1, Zenon DEF Past
  <2>4. \A u \in Tasks, P \in {{"hit"}} : With(u, P)' = With(u, P)
    BY <2>1, Zenon DEF With
  <2>5. AnyHit' <=> (AnyHit \/ With(t, {"hit"}) # {})
    BY <2>1, <2>3, <2>4, Zenon DEF AnyHit, Past
  <2>6. event' = "none" => \A u \in Tasks : phase'[u] = "done" => ~Gained(u)'
    BY <1>1, <1>2, <2>1, Zenon DEF HealthInv, Past
  <2>7. QED
    BY <1>3, <2>1, <2>2, <2>5, <2>6, Zenon DEF HealthInv
<1>12. ASSUME NEW t \in Tasks, Publish(t) PROVE HealthInv'
  <2>1. UNCHANGED <<item, used, event, delete, hits>> /\ phase' = [phase EXCEPT ![t] = "published"]
    BY <1>12, Zenon DEF Publish, lookups
  <2>2. Past(t) \/ op[t] \in {"store", "load"}
    BY <1>12, Zenon DEF Publish, Past
  <2>3. \A u \in Tasks : With(u, {"hit"})' = With(u, {"hit"})
    BY <2>1, Zenon DEF With
  <2>4. op[t] \in {"store", "load"} => With(t, {"hit"}) = {}
    BY Zenon DEF Stages, With
  <2>5. AnyHit' => AnyHit
    BY <1>1, <2>1, <2>2, <2>3, <2>4, Zenon DEF AnyHit, Past
  <2>6. event' = "none" => \A u \in Tasks : phase'[u] = "done" => ~Gained(u)'
    BY <1>1, <1>2, <2>1, Zenon DEF HealthInv, Past
  <2>7. QED
    BY <1>3, <2>1, <2>5, <2>6, Zenon DEF HealthInv
<1>13. ASSUME NEW t \in Tasks, Finish(t) PROVE HealthInv'
  <2>1. /\ UNCHANGED <<item, delete, hits>> /\ phase' = [phase EXCEPT ![t] = "done"] /\ phase[t] = "published"
        /\ (event' = event /\ ~Succeeded(t)) \/ (event' = "ok" /\ Succeeded(t))
    BY <1>13, Zenon DEF Finish, lookups, _note_ok
  <2>2. Past(t) /\ op[t] \in Ops
    BY <2>1, Zenon DEF Past, Kinds
  <2>3. Gained(t) => Succeeded(t)
    <3>1. With(t, {"hit"}) # {} => hits
      BY <2>2, Zenon DEF HealthInv, AnyHit
    <3>2. ASSUME NEW k \in Keys, item[t][k] \in {"wrote", "hit", "ok"} PROVE Succeeded(t)
      BY <2>2, <3>1, <3>2, Zenon DEF Stages, Kinds, With, Succeeded
    <3>3. QED
      BY <3>2, Zenon DEF Gained, With
  <2>4. Succeeded(t) => AnyGain
    <3>1. \A S \in {{"wrote"}, {"ok"}, {"hit"}} : With(t, S) # {} => Gained(t)
      BY Zenon DEF With, Gained
    <3>2. AnyHit => AnyGain
      BY Zenon DEF AnyHit, AnyGain, With, Gained
    <3>3. QED
      BY <2>2, <3>1, <3>2, Zenon DEF Succeeded, HealthInv, AnyGain, Ops
  <2>5. \A k \in Keys : used'[k] > 0 => used[k] > 0 \/ Gained(t)
    BY <1>13, Zenon DEF Finish, Stored, With, Gained
  <2>6. AnyHit' => AnyHit
    BY <1>1, <1>2, <2>1, <2>2, Zenon DEF AnyHit, Past
  <2>7. event' = "none" => \A u \in Tasks : phase'[u] = "done" => ~Gained(u)'
    BY <1>1, <1>2, <2>1, <2>2, <2>3, Zenon DEF HealthInv, Past
  <2>8. QED
    BY <1>3, <2>1, <2>2, <2>4, <2>5, <2>6, <2>7, Zenon DEF HealthInv, AnyGain
<1>14. CASE UNCHANGED vars
  BY <1>4, <1>14, Zenon DEF vars, Past
<1>15. QED
  BY <1>5, <1>6, <1>7, <1>8, <1>9, <1>10, <1>11, <1>12, <1>13, <1>14, NextSplit, Zenon

\* report_status() says healthy only on the strength of a key that was really
\* written, found or read, and never "None" after such a task ended, for any
\* keys and tasks and however failures and late _note_ok()s interleave.
THEOREM HealthIsEarned == Spec => []HealthEarned
<1>1. Init => Stages /\ OnTheList /\ Kinds /\ HealthInv
  <2> SUFFICES ASSUME Init PROVE Stages /\ OnTheList /\ Kinds /\ HealthInv
    BY Zenon
  <2>1. Stages /\ OnTheList
    BY KeysAssumption, Zenon DEF Init, Stages, Unfinished, NoDelete, OnTheList
  <2>2. Kinds
    BY Zenon DEF Init, Kinds
  <2>3. ~hits /\ \A t \in Tasks : ~Past(t) /\ phase[t] # "done"
    BY Zenon DEF Init, Past
  <2>4. HealthInv
    BY <2>3 DEF Init, NoDelete, HealthInv, AnyHit
  <2>5. QED
    BY <2>1, <2>2, <2>4, Zenon
<1>2. TypeOK /\ Stages /\ OnTheList /\ Kinds /\ HealthInv /\ [Next]_vars
        => Stages' /\ OnTheList' /\ Kinds' /\ HealthInv'
  BY StagesStep, ListStep, KindsStep, HealthStep, Zenon
<1>3. TypeOK /\ HealthInv => HealthEarned
  <2> SUFFICES ASSUME TypeOK, HealthInv PROVE HealthEarned
    BY Zenon
  <2>1. /\ _healthy_locked = "True" => event = "ok"
        /\ _healthy_locked = "None" => event = "none"
    BY DEF TypeOK, _healthy_locked
  <2>2. QED
    BY <2>1, Zenon DEF HealthInv, HealthEarned, AnyGain, Past, Gained
<1>4. QED
  BY <1>1, <1>2, <1>3, TypeCorrect, PTL DEF Spec
-----------------------------------------------------------------------------
(* The bytes announced are the bytes stored.                               *)

DeleteInv == delete.at = "idle" => delete.todo = {} /\ delete.gone = {}

Gone(k) == \E m \in delete.gone : m[1] = k
Unannounced(k) == \E t \in Tasks : Storing(t, k) /\ item[t][k] = "wrote"

\* The books of a key on which no calls ran over each other: they lag behind the
\* file by the one store that has written and is not announced yet, or by the one
\* delete that has removed and is not announced yet.
Booked(k) ==
    /\ \A t, u \in Tasks : Storing(t, k) /\ Storing(u, k) => t = u
    /\ \A t \in Tasks : /\ Storing(t, k) => ~Deleting(k)
                        /\ item[t][k] # "lost"
                        /\ item[t][k] \in {"create", "open", "undo"} => k \notin whole
    /\ k \in delete.todo => k \in whole /\ ~Gone(k)
    /\ delete.at = k => delete.size = N
    /\ \A m \in delete.gone : m[1] = k => m[2] = N /\ k \notin whole
    /\ Unannounced(k) => k \in whole
    /\ used[k] = IF Unannounced(k) THEN 0 ELSE IF Gone(k) \/ k \in whole THEN N ELSE 0

BooksInv == Stages /\ OnTheList /\ Kinds /\ DeleteInv /\ \A k \in Keys \ raced : Booked(k)

LEMMA DeleteInvStep == ASSUME TypeOK, DeleteInv, [Next]_vars PROVE DeleteInv'
<1>1. CASE delete' = delete
  BY <1>1, Zenon DEF DeleteInv
<1>2. ASSUME NEW S \in SUBSET Keys, DeleteCall(S) PROVE DeleteInv'
  BY <1>2, Zenon DEF DeleteCall, NoDelete, DeleteInv
<1>3. ASSUME NEW k \in Keys, DeleteStep(k) PROVE DeleteInv'
  <2>1. DeleteType /\ k # "idle"
    BY TypeParts, KeysAssumption, Zenon
  <2>2. delete'.at # "idle"
    <3>1. CASE DeleteStat(k)
      <4>1. /\ delete.at = "stat"
            /\ \/ delete' = [delete EXCEPT !.todo = @ \ {k}]
               \/ delete' = [delete EXCEPT !.at = k, !.size = file[k]]
        BY <3>1, Zenon DEF DeleteStat
      <4>2. QED
        BY <2>1, <4>1, Zenon DEF DeleteType
    <3>2. CASE DeleteRemove(k)
      BY <3>2, Zenon DEF DeleteRemove
    <3>3. CASE DeleteRaises(k)
      BY <2>1, <3>3, Zenon DEF DeleteRaises, DeleteType
    <3>4. QED
      BY <1>3, <3>1, <3>2, <3>3, Zenon DEF DeleteStep
  <2>3. QED
    BY <2>2, Zenon DEF DeleteInv
<1>4. ASSUME DeleteDone PROVE DeleteInv'
  BY <1>4, Zenon DEF DeleteDone, NoDelete, DeleteInv
<1>5. ASSUME NEW t \in Tasks, NEW k \in Keys, ItemStep(t, k) PROVE delete' = delete
  BY <1>5, Zenon DEF ItemStep, StoreStat, StoreOpen, StoreWrite, StorePart, StoreTorn, StoreUndo, LookupStat,
     LoadOpen, LoadRead, ItemRaises
<1>6. QED
  BY <1>1, <1>2, <1>3, <1>4, <1>5, NextSplit, Zenon DEF vars, Submit, Lock, Publish, Finish, Poll, submit_unlock

\* A step that leaves a key and its books alone.
LEMMA BooksFrame ==
    ASSUME NEW k \in Keys, Booked(k),
           \A u \in Tasks : item'[u][k] = item[u][k] /\ (Storing(u, k)' <=> Storing(u, k)),
           k \in whole' <=> k \in whole,
           used'[k] = used[k],
           k \in delete'.todo <=> k \in delete.todo,
           delete'.at = k => delete.at = k /\ delete'.size = delete.size,
           \A m : m[1] = k => (m \in delete'.gone <=> m \in delete.gone)
    PROVE  Booked(k)'
<1>1. Gone(k)' <=> Gone(k)
  BY Zenon DEF Gone
<1>2. Deleting(k)' <=> Deleting(k)
  BY Zenon DEF Deleting
<1>3. Unannounced(k)' <=> Unannounced(k)
  BY Zenon DEF Unannounced
<1>4. QED
  BY <1>1, <1>2, <1>3, Zenon DEF Booked

LEMMA BooksSubmit ==
    ASSUME TypeOK, Kinds, NEW t \in Tasks, NEW o \in Ops, NEW S \in SUBSET Keys, Submit(t, o, S),
           NEW k \in Keys, Booked(k), k \in S => ~Races(o, k)
    PROVE  Booked(k)'
<1>1. /\ item \in [Tasks -> [Keys -> Items]]
      /\ phase \in [Tasks -> {"new", "run", "locked", "published", "done"}]
      /\ op \in [Tasks -> Ops \cup {"none"}]
  BY Zenon DEF TypeOK
<1>2. /\ phase' = [phase EXCEPT ![t] = "run"] /\ op' = [op EXCEPT ![t] = o]
      /\ delete' = delete /\ whole' = whole /\ used' = used
      /\ phase[t] = "new"
  BY Zenon DEF Submit
<1>3. item'[t][k] \in {"none", "read", "stat"} /\ (k \notin S => item'[t][k] = "none")
  BY <1>1, Zenon DEF Submit
<1>4. \A u \in Tasks : u # t => item'[u] = item[u]
  BY <1>1, Zenon DEF Submit
<1>5. \A u \in Tasks : u # t => (Storing(u, k)' <=> Storing(u, k))
  BY <1>1, <1>2, <1>4, Zenon DEF Storing
<1>6. Storing(t, k)' => ~Deleting(k) /\ \A u \in Tasks : ~Storing(u, k)
  <2>1. Storing(t, k)' => k \in S /\ o = "store"
    BY <1>1, <1>2, <1>3, Zenon DEF Storing
  <2>2. k \in S /\ o = "store" => ~Deleting(k) /\ \A u \in Tasks : ~Storing(u, k)
    BY Zenon DEF Races, Busy, Storing
  <2>3. QED
    BY <2>1, <2>2, Zenon
<1>7. ~Storing(t, k)
  BY <1>2, Zenon DEF Kinds, Storing
<1>8. (Gone(k)' <=> Gone(k)) /\ (Deleting(k)' <=> Deleting(k))
  BY <1>2, Zenon DEF Gone, Deleting
<1>9. Unannounced(k)' <=> Unannounced(k)
  BY <1>3, <1>4, <1>5, <1>7, Zenon DEF Unannounced
<1>10. \A u \in Tasks : /\ item'[u][k] # "lost"
                        /\ item'[u][k] \in {"create", "open", "undo"} => k \notin whole
  BY <1>3, <1>4, Zenon DEF Booked
<1>11. \A u \in Tasks : Storing(u, k)' => ~Deleting(k)'
  BY <1>5, <1>6, <1>8, Zenon DEF Booked
<1>12. \A u, v \in Tasks : Storing(u, k)' /\ Storing(v, k)' => u = v
  BY <1>5, <1>6, Zenon DEF Booked
<1>13. QED
  BY <1>2, <1>8, <1>9, <1>10, <1>11, <1>12, Zenon DEF Booked

\* Who holds the file open is the key's only store, and no delete is at it.
LEMMA SoleWriter ==
    ASSUME Stages, NEW k \in Keys, Booked(k), NEW t \in Tasks, item[t][k] \in {"create", "open", "undo"}
    PROVE  /\ Storing(t, k) /\ ~Deleting(k) /\ ~Gone(k) /\ ~Unannounced(k) /\ k \notin whole
           /\ used[k] = 0
           /\ \A u \in Tasks : u # t => item[u][k] \notin {"create", "open", "lost", "undo"} /\ ~Storing(u, k)
<1>1. Storing(t, k)
  BY Zenon DEF Stages, Storing, Unfinished
<1>2. \A u \in Tasks : u # t => ~Storing(u, k)
  BY <1>1, Zenon DEF Booked
<1>3. \A u \in Tasks : u # t => item[u][k] \notin {"create", "open", "lost", "undo"}
  BY <1>2, Zenon DEF Stages, Storing, Unfinished
<1>4. ~Deleting(k) /\ ~Gone(k) /\ k \notin whole
  BY <1>1, Zenon DEF Booked, Deleting, Gone
<1>5. ~Unannounced(k)
  BY <1>2, Zenon DEF Unannounced
<1>6. used[k] = 0
  BY <1>4, <1>5, Zenon DEF Booked
<1>7. QED
  BY <1>1, <1>2, <1>3, <1>4, <1>5, <1>6, Zenon

LEMMA BooksItem ==
    ASSUME TypeOK, Stages, NEW t \in Tasks, NEW j \in Keys, ItemStep(t, j), NEW k \in Keys, Booked(k)
    PROVE  Booked(k)'
<1>1. item \in [Tasks -> [Keys -> Items]] /\ DiskType
  BY TypeParts, Zenon DEF TypeOK
<1>2. phase' = phase /\ op' = op /\ delete' = delete /\ used' = used
  BY Zenon DEF ItemStep, StoreStat, StoreOpen, StoreWrite, StorePart, StoreTorn, StoreUndo, LookupStat,
     LoadOpen, LoadRead, ItemRaises, table
<1>3. (Gone(k)' <=> Gone(k)) /\ (Deleting(k)' <=> Deleting(k))
  BY <1>2, Zenon DEF Gone, Deleting
<1>4. CASE StoreUndo(t, j)
  <2>1. item[t][j] = "undo" /\ whole' = whole \ {j} /\ item' = [Unlinked(j) EXCEPT ![t][j] = "fail"]
    BY <1>4, Zenon DEF StoreUndo, Unlink
  <2>2. CASE j # k
    <3>1. \A u \in Tasks : item'[u][k] = item[u][k]
      BY <1>1, <2>1, <2>2, Zenon DEF Unlinked
    <3>2. \A u \in Tasks : Storing(u, k)' <=> Storing(u, k)
      BY <1>2, <3>1, Zenon DEF Storing
    <3>3. QED
      BY <1>2, <2>1, <2>2, <3>1, <3>2, BooksFrame, Zenon
  <2>3. CASE j = k
    <3>1. item'[t][k] = "fail"
      BY <1>1, <2>1, <2>3, Zenon DEF Unlinked
    <3>2. \A u \in Tasks : u # t => item'[u][k] \in {item[u][k], "shut"} /\ (item[u][k] = "none" => item'[u][k] = "none")
      BY <1>1, <2>1, <2>3, SoleWriter DEF Unlinked, Orphan, Items
    <3>3. \A u \in Tasks : Storing(u, k)' => Storing(u, k)
      BY <1>2, <2>1, <2>3, <3>1, <3>2, Zenon DEF Storing
    <3>4. ~Unannounced(k)'
      BY <2>1, <2>3, <3>1, <3>3, SoleWriter, Zenon DEF Unannounced
    <3>5. \A u \in Tasks : item'[u][k] \notin {"create", "open", "lost", "undo"}
      BY <2>1, <2>3, <3>1, <3>2, SoleWriter, Zenon
    <3>6. ~Deleting(k) /\ ~Gone(k) /\ used[k] = 0
      BY <2>1, <2>3, SoleWriter, Zenon
    <3>7. k \notin delete.todo /\ \A m \in delete.gone : m[1] # k
      BY <3>6, Zenon DEF Deleting
    <3>8. QED
      BY <1>2, <1>3, <2>1, <2>3, <3>3, <3>4, <3>5, <3>6, <3>7, Zenon DEF Booked
  <2>4. QED
    BY <2>2, <2>3, Zenon
<1>5. CASE ~StoreUndo(t, j)
  <2>1. item[t][j] \in Unfinished /\ \E to \in Items : Move(t, j, to)
    BY <1>5, ItemFrame, Zenon
  <2>2. CASE j # k
    <3>1. \A u \in Tasks : item'[u][k] = item[u][k]
      BY <1>1, <2>1, <2>2, Zenon DEF Move
    <3>2. k \in whole' <=> k \in whole
      BY <1>5, <2>2, Zenon DEF ItemStep, StoreStat, StoreOpen, StoreWrite, StorePart, StoreTorn, LookupStat,
         LoadOpen, LoadRead, ItemRaises, disk
    <3>3. \A u \in Tasks : Storing(u, k)' <=> Storing(u, k)
      BY <1>2, <3>1, Zenon DEF Storing
    <3>4. QED
      BY <1>2, <3>1, <3>2, <3>3, BooksFrame, Zenon
  <2>3. CASE j = k
    <3>1. \A u \in Tasks : u # t => item'[u][k] = item[u][k]
      BY <1>1, <2>1, <2>3, Zenon DEF Move
    <3>2. item[t][k] \notin {"none", "wrote"} /\ item'[t][k] \notin {"none", "lost"}
      BY <1>5, <2>1, <2>3, ItemFrame, Zenon DEF Unfinished
    <3>3. \A u \in Tasks : Storing(u, k)' <=> Storing(u, k)
      BY <1>2, <3>1, <3>2, Zenon DEF Storing
    <3>4. ASSUME whole' = whole, item'[t][k] # "wrote",
                 item'[t][k] \in {"create", "open", "undo"} => k \notin whole
          PROVE  Booked(k)'
      <4>1. Unannounced(k)' <=> Unannounced(k)
        BY <3>1, <3>2, <3>3, <3>4, Zenon DEF Unannounced
      <4>2. QED
        BY <1>2, <1>3, <3>1, <3>2, <3>3, <3>4, <4>1, Zenon DEF Booked
    <3>5. item[t][k] # "lost" /\ (item[t][k] \in {"create", "open"} => k \notin whole)
      BY Zenon DEF Booked
    <3>6. CASE StoreWrite(t, k)
      <4>1. item[t][k] = "open" /\ whole' = whole \cup {k} /\ item'[t][k] = "wrote"
        BY <1>1, <3>5, <3>6, Zenon DEF StoreWrite, Move
      <4>2. Storing(t, k)' /\ Unannounced(k)'
        BY <3>3, <4>1, SoleWriter, Zenon DEF Unannounced
      <4>3. \A u \in Tasks : item'[u][k] \notin {"create", "open", "lost", "undo"}
        BY <3>1, <4>1, SoleWriter, Zenon
      <4>4. ~Deleting(k) /\ ~Gone(k) /\ used[k] = 0
        BY <4>1, SoleWriter, Zenon
      <4>5. k \notin delete.todo /\ \A m \in delete.gone : m[1] # k
        BY <4>4, Zenon DEF Deleting
      <4>6. QED
        BY <1>2, <1>3, <3>3, <4>1, <4>2, <4>3, <4>4, <4>5, Zenon DEF Booked
    <3>7. CASE StoreOpen(t, k) \/ StoreTorn(t, k)
      BY <1>1, <3>4, <3>5, <3>7, Zenon DEF StoreOpen, StoreTorn, Move
    <3>8. CASE StorePart(t, k)
      BY <3>4, <3>5, <3>8, Zenon DEF StorePart
    <3>9. CASE StoreStat(t, k) \/ LookupStat(t, k)
      <4>1. whole' = whole /\ item'[t][k] \in {"skip", "create", "hit", "miss"} /\ (item'[t][k] = "create" => file[k] # N)
        BY <1>1, <3>9 DEF StoreStat, LookupStat, Move, disk
      <4>2. file[k] # N => k \notin whole
        BY <1>1, Zenon DEF DiskType
      <4>3. QED
        BY <3>4, <4>1, <4>2, Zenon
    <3>10. CASE LoadOpen(t, k) \/ LoadRead(t, k) \/ ItemRaises(t, k)
      BY <1>1, <3>4, <3>10 DEF LoadOpen, LoadRead, ItemRaises, Move, disk
    <3>11. QED
      BY <1>5, <2>3, <3>6, <3>7, <3>8, <3>9, <3>10, Zenon DEF ItemStep
  <2>4. QED
    BY <2>2, <2>3, Zenon
<1>6. QED
  BY <1>4, <1>5, Zenon

LEMMA BooksFinish ==
    ASSUME TypeOK, Kinds, NEW t \in Tasks, Finish(t), NEW k \in Keys, Booked(k)
    PROVE  Booked(k)'
<1>1. phase \in [Tasks -> {"new", "run", "locked", "published", "done"}] /\ used \in [Keys -> Int]
  BY Zenon DEF TypeOK
<1>2. /\ UNCHANGED <<item, op, whole, delete>>
      /\ phase[t] = "published" /\ phase' = [phase EXCEPT ![t] = "done"]
      /\ used'[k] = IF item[t][k] = "wrote" THEN used[k] + N ELSE used[k]
  BY Zenon DEF Finish, disk, Stored, With
<1>3. ~Storing(t, k)' /\ \A u \in Tasks : u # t => (Storing(u, k)' <=> Storing(u, k))
  BY <1>1, <1>2, Zenon DEF Storing
<1>4. (Gone(k)' <=> Gone(k)) /\ (Deleting(k)' <=> Deleting(k))
  BY <1>2, Zenon DEF Gone, Deleting
<1>5. CASE item[t][k] = "wrote"
  <2>1. Storing(t, k)
    BY <1>2, <1>5, Zenon DEF Storing, Kinds
  <2>2. Unannounced(k)
    BY <1>5, <2>1, Zenon DEF Unannounced
  <2>3. used[k] = 0 /\ k \in whole
    BY <2>2, Zenon DEF Booked
  <2>4. \A u \in Tasks : ~Storing(u, k)'
    BY <1>3, <2>1, Zenon DEF Booked
  <2>5. ~Unannounced(k)'
    BY <2>4, Zenon DEF Unannounced
  <2>6. used'[k] = N
    BY <1>2, <1>5, <2>3, Sizes
  <2>7. QED
    BY <1>2, <1>4, <2>3, <2>4, <2>5, <2>6, Zenon DEF Booked
<1>6. CASE item[t][k] # "wrote"
  <2>1. Unannounced(k)' <=> Unannounced(k)
    BY <1>2, <1>3, <1>6, Zenon DEF Unannounced
  <2>2. used'[k] = used[k]
    BY <1>2, <1>6, Zenon
  <2>3. \A u \in Tasks : Storing(u, k)' => Storing(u, k)
    BY <1>3, Zenon
  <2>4. QED
    BY <1>2, <1>4, <2>1, <2>2, <2>3, Zenon DEF Booked
<1>7. QED
  BY <1>5, <1>6, Zenon

LEMMA BooksDelete ==
    ASSUME TypeOK, Stages, OnTheList, NEW j \in Keys, DeleteStep(j), NEW k \in Keys, Booked(k)
    PROVE  Booked(k)'
<1>1. item \in [Tasks -> [Keys -> Items]] /\ DiskType /\ DeleteType /\ k # "stat" /\ j # "stat"
  BY TypeParts, KeysAssumption, Zenon DEF TypeOK
<1>2. UNCHANGED <<op, phase, used>>
  BY Zenon DEF DeleteStep, DeleteStat, DeleteRemove, DeleteRaises, table
<1>3. CASE j # k
  <2>1. \A u \in Tasks : item'[u][k] = item[u][k]
    BY <1>1, <1>3 DEF DeleteStep, DeleteStat, DeleteRemove, DeleteRaises, Unlinked
  <2>2. \A u \in Tasks : Storing(u, k)' <=> Storing(u, k)
    BY <1>2, <2>1, Zenon DEF Storing
  <2>3. k \in whole' <=> k \in whole
    BY <1>3, Zenon DEF DeleteStep, DeleteStat, DeleteRemove, DeleteRaises, Unlink, disk
  <2>4. /\ k \in delete'.todo <=> k \in delete.todo
        /\ delete'.at # k \/ (delete'.at = delete.at /\ delete'.size = delete.size)
        /\ \A m : m[1] = k => (m \in delete'.gone <=> m \in delete.gone)
    <3>1. CASE DeleteStat(j)
      <4>1. \/ delete' = [delete EXCEPT !.todo = @ \ {j}]
            \/ delete' = [delete EXCEPT !.at = j, !.size = file[j]]
        BY <3>1, Zenon DEF DeleteStat
      <4>2. QED
        BY <1>1, <1>3, <4>1, Zenon DEF DeleteType
    <3>2. CASE DeleteRemove(j)
      <4>1. /\ delete'.at = "stat" /\ delete'.todo = delete.todo \ {j}
            /\ delete'.gone = delete.gone \/ delete'.gone = delete.gone \cup {<<j, delete.size>>}
        BY <3>2, Zenon DEF DeleteRemove
      <4>2. QED
        BY <1>1, <1>3, <4>1
    <3>3. CASE DeleteRaises(j)
      BY <1>1, <1>3, <3>3, Zenon DEF DeleteRaises, DeleteType
    <3>4. QED
      BY <3>1, <3>2, <3>3, Zenon DEF DeleteStep
  <2>5. QED
    BY <1>2, <2>1, <2>2, <2>3, <2>4, BooksFrame, Zenon
<1>4. CASE j = k
  <2>1. CASE DeleteStat(k)
    <3>1. delete.at = "stat" /\ k \in delete.todo /\ UNCHANGED <<item, whole>>
      BY <2>1, Zenon DEF DeleteStat, disk
    <3>2. file[k] = N
      BY <1>1, <3>1, Zenon DEF Booked, DiskType
    <3>3. delete' = [delete EXCEPT !.at = k, !.size = file[k]]
      BY <1>1, <2>1, <3>2, Sizes DEF DeleteStat, DiskType
    <3>4. delete'.todo = delete.todo /\ delete'.gone = delete.gone /\ delete'.size = N
      BY <1>1, <3>2, <3>3, Zenon DEF DeleteType
    <3>5. /\ Gone(k)' <=> Gone(k)
          /\ Deleting(k)' <=> Deleting(k)
          /\ Unannounced(k)' <=> Unannounced(k)
          /\ \A u \in Tasks : Storing(u, k)' <=> Storing(u, k)
      BY <1>2, <3>1, <3>4, Zenon DEF Gone, Deleting, Unannounced, Storing
    <3>6. QED
      BY <1>2, <3>1, <3>4, <3>5, Zenon DEF Booked
  <2>2. CASE DeleteRemove(k)
    <3>1. k \in delete.todo /\ delete.size = N /\ k \in whole /\ ~Gone(k)
      BY <2>2, Zenon DEF DeleteRemove, OnTheList, Booked
    <3>2. file[k] # Absent
      <4>1. file[k] = N
        BY <1>1, <3>1, Zenon DEF DiskType
      <4>2. QED
        BY <4>1, Sizes
    <3>3. /\ delete'.at = "stat" /\ delete'.todo = delete.todo \ {k}
          /\ delete'.gone = delete.gone \cup {<<k, N>>}
          /\ k \notin whole' /\ item' = Unlinked(k)
      BY <2>2, <3>1, <3>2, Zenon DEF DeleteRemove, Unlink
    <3>4. \A u \in Tasks : ~Storing(u, k)
      BY <3>1, Zenon DEF Booked, Deleting
    <3>5. \A u \in Tasks : item[u][k] \notin {"create", "open", "undo", "lost"}
      BY <3>4, Zenon DEF Stages, Storing, Unfinished
    <3>6. \A u \in Tasks : item'[u][k] \in {item[u][k], "shut"} /\ (item[u][k] = "none" => item'[u][k] = "none")
      BY <1>1, <3>3, <3>5 DEF Unlinked, Orphan, Items
    <3>7. \A u \in Tasks : ~Storing(u, k)'
      BY <1>2, <3>4, <3>6, Zenon DEF Storing
    <3>8. ~Unannounced(k) /\ ~Unannounced(k)'
      BY <3>4, <3>7, Zenon DEF Unannounced
    <3>9. Gone(k)'
      <4>1. <<k, N>> \in delete'.gone /\ <<k, N>>[1] = k
        BY <3>3, Zenon
      <4>2. QED
        BY <4>1, Zenon DEF Gone
    <3>10. \A m \in delete'.gone : m[1] = k => m[2] = N
      BY <3>1, <3>3 DEF Gone
    <3>11. used[k] = N
      BY <3>1, <3>8, Zenon DEF Booked
    <3>12. QED
      BY <1>1, <1>2, <3>3, <3>5, <3>6, <3>7, <3>8, <3>9, <3>10, <3>11, Zenon DEF Booked
  <2>3. CASE DeleteRaises(k)
    <3>1. /\ delete'.at = "stat" /\ delete'.todo = delete.todo \ {k} /\ delete'.gone = delete.gone
          /\ UNCHANGED <<item, whole>>
      BY <1>1, <2>3, Zenon DEF DeleteRaises, disk, DeleteType
    <3>2. /\ Gone(k)' <=> Gone(k)
          /\ Deleting(k)' => Deleting(k)
          /\ Unannounced(k)' <=> Unannounced(k)
          /\ \A u \in Tasks : Storing(u, k)' <=> Storing(u, k)
      BY <1>2, <3>1, Zenon DEF Gone, Deleting, Unannounced, Storing
    <3>3. QED
      BY <1>1, <1>2, <3>1, <3>2, Zenon DEF Booked
  <2>4. QED
    BY <1>4, <2>1, <2>2, <2>3, Zenon DEF DeleteStep
<1>5. QED
  BY <1>3, <1>4, Zenon

LEMMA BooksCall ==
    ASSUME TypeOK, DeleteInv, NEW S \in SUBSET Keys, DeleteCall(S),
           NEW k \in Keys, Booked(k), k \in S => ~Races("delete", k)
    PROVE  Booked(k)'
<1>1. delete.at = "idle" /\ UNCHANGED <<op, phase, item, whole, used>> /\ (k \in S => used[k] > 0)
  BY Zenon DEF DeleteCall, table
<1>2. delete'.at = "stat" /\ delete'.todo = Unlocked(S) /\ delete'.gone = {} /\ k # "stat"
  BY KeysAssumption, Zenon DEF DeleteCall, NoDelete
<1>3. k \in delete'.todo => k \in S
  BY <1>2, Zenon DEF Unlocked
<1>4. ~Gone(k) /\ ~Gone(k)' /\ (Deleting(k)' => k \in S)
  BY <1>1, <1>2, <1>3, Zenon DEF DeleteInv, Gone, Deleting
<1>5. \A u \in Tasks : Storing(u, k)' <=> Storing(u, k)
  BY <1>1, Zenon DEF Storing
<1>6. Unannounced(k)' <=> Unannounced(k)
  BY <1>1, <1>5, Zenon DEF Unannounced
<1>7. k \in S => \A u \in Tasks : ~Storing(u, k)
  BY Zenon DEF Races, Busy, Storing
<1>8. k \in S => k \in whole
  <2>1. used[k] = IF Unannounced(k) THEN 0 ELSE IF Gone(k) \/ k \in whole THEN N ELSE 0
    BY Zenon DEF Booked
  <2>2. Unannounced(k) => k \in whole
    BY Zenon DEF Booked
  <2>3. QED
    BY <1>1, <1>4, <2>1, <2>2
<1>9. QED
  BY <1>1, <1>2, <1>3, <1>4, <1>5, <1>6, <1>7, <1>8, Zenon DEF Booked

LEMMA BooksDone ==
    ASSUME TypeOK, DeleteDone, NEW k \in Keys, Booked(k)
    PROVE  Booked(k)'
<1>1. UNCHANGED <<op, phase, item, whole>> /\ delete'.at = "idle" /\ delete'.todo = {} /\ delete'.gone = {} /\ k # "idle"
  BY KeysAssumption, Zenon DEF DeleteDone, NoDelete, disk, table
<1>2. ~Gone(k)' /\ ~Deleting(k)'
  BY <1>1, Zenon DEF Gone, Deleting
<1>3. \A u \in Tasks : Storing(u, k)' <=> Storing(u, k)
  BY <1>1, Zenon DEF Storing
<1>4. Unannounced(k)' <=> Unannounced(k)
  BY <1>1, <1>3, Zenon DEF Unannounced
<1>5. used'[k] = IF Unannounced(k) THEN 0 ELSE IF k \in whole THEN N ELSE 0
  <2>1. CASE Gone(k)
    <3>1. PICK m \in delete.gone : m = (CHOOSE d \in delete.gone : d[1] = k) /\ m[1] = k
      BY <2>1, Zenon DEF Gone
    <3>2. m[2] = N /\ k \notin whole
      BY <3>1, Zenon DEF Booked
    <3>3. used'[k] = used[k] - m[2]
      BY <2>1, <3>1, Zenon DEF DeleteDone, Gone
    <3>4. ~Unannounced(k)
      BY <2>1, Zenon DEF Gone, Booked, Deleting, Unannounced
    <3>5. used[k] = N
      BY <2>1, <3>4, Zenon DEF Booked
    <3>6. QED
      BY <3>2, <3>3, <3>4, <3>5, Sizes
  <2>2. CASE ~Gone(k)
    <3>1. used'[k] = used[k]
      BY <2>2, Zenon DEF DeleteDone, Gone
    <3>2. QED
      BY <2>2, <3>1, Zenon DEF Booked
  <2>3. QED
    BY <2>1, <2>2, Zenon
<1>6. QED
  BY <1>1, <1>2, <1>3, <1>4, <1>5, Zenon DEF Booked

LEMMA BooksStep ==
    ASSUME TypeOK, Stages, OnTheList, Kinds, DeleteInv, [Next]_vars,
           NEW k \in Keys, k \notin raced', k \notin raced => Booked(k)
    PROVE  Booked(k)'
<1>1. phase \in [Tasks -> {"new", "run", "locked", "published", "done"}]
  BY Zenon DEF TypeOK
<1>2. ASSUME raced' = raced, UNCHANGED <<op, item, whole, used, delete>>,
             \A u \in Tasks : phase'[u] = "done" <=> phase[u] = "done"
      PROVE  Booked(k)'
  <2>1. \A u \in Tasks : item'[u][k] = item[u][k] /\ (Storing(u, k)' <=> Storing(u, k))
    BY <1>2, Zenon DEF Storing
  <2>2. QED
    BY <1>2, <2>1, BooksFrame, Zenon
<1>3. ASSUME NEW t \in Tasks, NEW o \in Ops, NEW S \in SUBSET Keys, Submit(t, o, S) PROVE Booked(k)'
  <2>1. raced' = raced \cup {j \in S : Races(o, j)}
    BY <1>3, Zenon DEF Submit
  <2>2. QED
    BY <1>3, <2>1, BooksSubmit, Zenon
<1>4. ASSUME NEW t \in Tasks, NEW j \in Keys, ItemStep(t, j) PROVE Booked(k)'
  <2>1. raced' = raced
    BY <1>4, Zenon DEF ItemStep, StoreStat, StoreOpen, StoreWrite, StorePart, StoreTorn, StoreUndo, LookupStat,
       LoadOpen, LoadRead, ItemRaises, disk
  <2>2. QED
    BY <1>4, <2>1, BooksItem, Zenon
<1>5. ASSUME NEW t \in Tasks, Lock(t) \/ Publish(t) \/ Poll(t) \/ \E S \in SUBSET Keys : submit_unlock(t, S) PROVE Booked(k)'
  <2>1. UNCHANGED <<raced, op, item, whole, used, delete>>
    BY <1>5, Zenon DEF Lock, Publish, Poll, submit_unlock, disk, table
  <2>2. \A u \in Tasks : phase'[u] = "done" <=> phase[u] = "done"
    BY <1>1, <1>5, Zenon DEF Lock, Publish, Poll, submit_unlock, table
  <2>3. QED
    BY <1>2, <2>1, <2>2, Zenon
<1>6. ASSUME NEW t \in Tasks, Finish(t) PROVE Booked(k)'
  BY <1>6, BooksFinish, Zenon DEF Finish, disk
<1>7. ASSUME NEW S \in SUBSET Keys, DeleteCall(S) PROVE Booked(k)'
  <2>1. raced' = raced \cup {j \in S : Races("delete", j)}
    BY <1>7, Zenon DEF DeleteCall
  <2>2. QED
    BY <1>7, <2>1, BooksCall, Zenon
<1>8. ASSUME NEW j \in Keys, DeleteStep(j) PROVE Booked(k)'
  <2>1. raced' = raced
    BY <1>8, Zenon DEF DeleteStep, DeleteStat, DeleteRemove, DeleteRaises, disk
  <2>2. QED
    BY <1>8, <2>1, BooksDelete, Zenon
<1>9. ASSUME DeleteDone PROVE Booked(k)'
  BY <1>9, BooksDone, Zenon DEF DeleteDone, disk
<1>10. CASE UNCHANGED vars
  BY <1>2, <1>10, Zenon DEF vars
<1>11. QED
  BY <1>3, <1>4, <1>5, <1>6, <1>7, <1>8, <1>9, <1>10, NextSplit, Zenon

\* With no store and no delete under way, the bytes announced for a key are the
\* bytes of its complete file, for any keys, tasks and object size, torn and
\* undone writes and failed deletes included, as long as stores and deletes of
\* the key did not overlap.
THEOREM BytesAreStored == Spec => []UsedIsStored
<1>1. Init => BooksInv
  <2> SUFFICES ASSUME Init PROVE BooksInv
    BY Zenon
  <2>1. Stages /\ OnTheList
    BY KeysAssumption, Zenon DEF Init, Stages, Unfinished, NoDelete, OnTheList
  <2>2. Kinds /\ DeleteInv
    BY Zenon DEF Init, Kinds, DeleteInv, NoDelete
  <2>3. ASSUME NEW k \in Keys PROVE Booked(k)
    <3>1. ~Unannounced(k) /\ ~Gone(k) /\ \A t \in Tasks : ~Storing(t, k)
      BY Zenon DEF Init, Unannounced, Gone, Storing, NoDelete
    <3>2. k # "idle"
      BY KeysAssumption, Zenon
    <3>3. QED
      BY <3>1, <3>2, Zenon DEF Init, NoDelete, Booked
  <2>4. QED
    BY <2>1, <2>2, <2>3, Zenon DEF BooksInv
<1>2. TypeOK /\ BooksInv /\ [Next]_vars => BooksInv'
  <2> SUFFICES ASSUME TypeOK, BooksInv, [Next]_vars PROVE BooksInv'
    BY Zenon
  <2>1. Stages' /\ OnTheList' /\ Kinds' /\ DeleteInv'
    BY StagesStep, ListStep, KindsStep, DeleteInvStep, Zenon DEF BooksInv
  <2>2. ASSUME NEW k \in Keys \ raced' PROVE Booked(k)'
    <3>1. k \notin raced => Booked(k)
      BY <2>2, Zenon DEF BooksInv
    <3>2. QED
      BY <2>2, <3>1, BooksStep, Zenon DEF BooksInv
  <2>3. QED
    BY <2>1, <2>2, Zenon DEF BooksInv
<1>3. BooksInv => UsedIsStored
  <2> SUFFICES ASSUME BooksInv, delete.at = "idle", \A t \in Tasks : op[t] = "store" => phase[t] = "done",
                      NEW k \in Keys \ raced
               PROVE  used[k] = IF k \in whole THEN N ELSE 0
    BY Zenon DEF UsedIsStored
  <2>1. ~Gone(k) /\ ~Unannounced(k)
    BY Zenon DEF BooksInv, DeleteInv, Gone, Unannounced, Storing
  <2>2. QED
    BY <2>1, Zenon DEF BooksInv, Booked
<1>4. QED
  BY <1>1, <1>2, <1>3, TypeCorrect, PTL DEF Spec
-----------------------------------------------------------------------------
(* The task table.                                                         *)

\* The tasks submitted and not finished.
Open == {t \in Tasks : phase[t] \notin {"new", "done"}}

\* _inflight is their number, never less: close() and the status may rely on it.
InflightIsOpen == inflight = Cardinality(Open)

\* A result is in the table from the moment the task publishes it.
OutcomeInv == \A t \in Tasks : outcome[t] # "none" <=> phase[t] \in {"published", "done"}

\* The guards of the steps a task has left: Lock, Publish, Finish, and the end of
\* an item, StoreWrite for an open file, ItemRaises for any other DAOS call.
MayGoOn(t) ==
    \/ phase[t] = "run" /\ op[t] = "lookup" /\ Ended(t)
    \/ phase[t] = "run" /\ op[t] \in {"store", "load"} /\ Ended(t)
    \/ phase[t] \in {"locked", "published"}
    \/ \E k \in Keys : item[t][k] \in {"open", "lost"}
    \/ \E k \in Keys : item[t][k] \in Unfinished \ {"open", "lost"}

\* What ResultDue says, with the guards in place of ENABLED.
NoneStranded ==
    \A t \in Tasks : /\ t \in Open => MayGoOn(t)
                     /\ phase[t] = "done" => outcome[t] # "none"

LEMMA OpenFinite == IsFiniteSet(Open) /\ Cardinality(Open) \in Nat
  BY TasksAssumption, FS_Subset, FS_CardinalityType, Zenon DEF Open

\* What a step does to the task table.
LEMMA TableStep ==
    ASSUME [Next]_vars
    PROVE  \/ UNCHANGED <<phase, inflight, outcome>>
           \/ \E t \in Tasks : Poll(t)
           \/ \E t \in Tasks, o \in Ops, S \in SUBSET Keys : Submit(t, o, S)
           \/ \E t \in Tasks : Lock(t) \/ Publish(t) \/ Finish(t)
<1>1. CASE \E t \in Tasks, k \in Keys : ItemStep(t, k)
  <2>1. PICK t \in Tasks, k \in Keys : ItemStep(t, k)
    BY <1>1, Zenon
  <2>2. UNCHANGED table
    BY <2>1, Zenon DEF ItemStep, StoreStat, StoreOpen, StoreWrite, StorePart, StoreTorn, StoreUndo, LookupStat,
       LoadOpen, LoadRead, ItemRaises
  <2>3. QED
    BY <2>2, Zenon DEF table
<1>2. CASE \/ \E t \in Tasks, S \in SUBSET Keys : submit_unlock(t, S)
           \/ \E S \in SUBSET Keys : DeleteCall(S)
           \/ \E k \in Keys : DeleteStep(k)
           \/ DeleteDone
  BY <1>2, Zenon DEF submit_unlock, DeleteCall, DeleteStep, DeleteStat, DeleteRemove, DeleteRaises, DeleteDone, table
<1>3. CASE UNCHANGED vars
  BY <1>3, Zenon DEF vars
<1>4. QED
  BY <1>1, <1>2, <1>3, NextSplit, Zenon

LEMMA OpenStep == ASSUME TypeOK, InflightIsOpen, [Next]_vars PROVE InflightIsOpen'
<1>1. phase \in [Tasks -> {"new", "run", "locked", "published", "done"}]
  BY Zenon DEF TypeOK
<1>2. CASE UNCHANGED <<phase, inflight>>
  BY <1>2, Zenon DEF InflightIsOpen, Open
<1>3. ASSUME NEW t \in Tasks, NEW o \in Ops, NEW S \in SUBSET Keys, Submit(t, o, S) PROVE InflightIsOpen'
  <2>1. phase[t] = "new" /\ phase' = [phase EXCEPT ![t] = "run"] /\ inflight' = inflight + 1
    BY <1>3, Zenon DEF Submit
  <2>2. t \notin Open
    BY <2>1, Zenon DEF Open
  <2>3. Open' = Open \cup {t}
    BY <1>1, <2>1, Zenon DEF Open
  <2>4. Cardinality(Open') = Cardinality(Open) + 1
    BY <2>2, <2>3, OpenFinite, FS_AddElement, Zenon
  <2>5. QED
    BY <2>1, <2>4, Zenon DEF InflightIsOpen
<1>4. ASSUME NEW t \in Tasks, Lock(t) \/ Publish(t) PROVE InflightIsOpen'
  <2>1. /\ phase[t] \in {"run", "locked"} /\ inflight' = inflight
        /\ \E to \in {"locked", "published"} : phase' = [phase EXCEPT ![t] = to]
    BY <1>4, Zenon DEF Lock, Publish
  <2>2. Open' = Open
    BY <1>1, <2>1, Zenon DEF Open
  <2>3. QED
    BY <2>1, <2>2, Zenon DEF InflightIsOpen
<1>5. ASSUME NEW t \in Tasks, Finish(t) PROVE InflightIsOpen'
  <2>1. phase[t] = "published" /\ phase' = [phase EXCEPT ![t] = "done"] /\ inflight' = inflight - 1
    BY <1>5, Zenon DEF Finish, _finish
  <2>2. t \in Open
    BY <2>1, Zenon DEF Open
  <2>3. Open' = Open \ {t}
    BY <1>1, <2>1, Zenon DEF Open
  <2>4. Cardinality(Open') = Cardinality(Open) - 1
    BY <2>2, <2>3, OpenFinite, FS_RemoveElement, Zenon
  <2>5. QED
    BY <2>1, <2>4, Zenon DEF InflightIsOpen
<1>6. ASSUME NEW t \in Tasks, Poll(t) PROVE InflightIsOpen'
  BY <1>2, <1>6, Zenon DEF Poll
<1>7. QED
  BY <1>2, <1>3, <1>4, <1>5, <1>6, TableStep, Zenon

LEMMA OutcomeStep == ASSUME TypeOK, OutcomeInv, [Next]_vars PROVE OutcomeInv'
<1>1. /\ phase \in [Tasks -> {"new", "run", "locked", "published", "done"}]
      /\ outcome \in [Tasks -> {"none", "ready", "taken"}]
  BY Zenon DEF TypeOK
<1>2. CASE UNCHANGED <<phase, outcome>>
  BY <1>2, Zenon DEF OutcomeInv
<1>3. ASSUME NEW t \in Tasks,
             \A u \in Tasks : u # t => phase'[u] = phase[u] /\ outcome'[u] = outcome[u],
             outcome'[t] # "none" <=> phase'[t] \in {"published", "done"}
      PROVE  OutcomeInv'
  BY <1>3, Zenon DEF OutcomeInv
<1>4. ASSUME NEW t \in Tasks, NEW o \in Ops, NEW S \in SUBSET Keys, Submit(t, o, S) PROVE OutcomeInv'
  <2>1. phase[t] = "new" /\ phase' = [phase EXCEPT ![t] = "run"] /\ outcome' = outcome
    BY <1>4, Zenon DEF Submit
  <2>2. outcome[t] = "none" /\ phase'[t] = "run"
    BY <1>1, <2>1, Zenon DEF OutcomeInv
  <2>3. QED
    BY <1>1, <1>3, <2>1, <2>2, Zenon
<1>5. ASSUME NEW t \in Tasks, Lock(t) PROVE OutcomeInv'
  <2>1. phase[t] = "run" /\ phase' = [phase EXCEPT ![t] = "locked"] /\ outcome' = outcome
    BY <1>5, Zenon DEF Lock
  <2>2. outcome[t] = "none" /\ phase'[t] = "locked"
    BY <1>1, <2>1, Zenon DEF OutcomeInv
  <2>3. QED
    BY <1>1, <1>3, <2>1, <2>2, Zenon
<1>6. ASSUME NEW t \in Tasks, Publish(t) PROVE OutcomeInv'
  <2>1. phase' = [phase EXCEPT ![t] = "published"] /\ outcome' = [outcome EXCEPT ![t] = "ready"]
    BY <1>6, Zenon DEF Publish
  <2>2. QED
    BY <1>1, <1>3, <2>1, Zenon
<1>7. ASSUME NEW t \in Tasks, Finish(t) PROVE OutcomeInv'
  <2>1. phase[t] = "published" /\ phase' = [phase EXCEPT ![t] = "done"] /\ outcome' = outcome
    BY <1>7, Zenon DEF Finish
  <2>2. outcome[t] # "none" /\ phase'[t] = "done"
    BY <1>1, <2>1, Zenon DEF OutcomeInv
  <2>3. QED
    BY <1>1, <1>3, <2>1, <2>2, Zenon
<1>8. ASSUME NEW t \in Tasks, Poll(t) PROVE OutcomeInv'
  <2>1. outcome[t] = "ready" /\ outcome' = [outcome EXCEPT ![t] = "taken"] /\ phase' = phase
    BY <1>8, Zenon DEF Poll
  <2>2. phase[t] \in {"published", "done"} /\ outcome'[t] = "taken"
    BY <1>1, <2>1, Zenon DEF OutcomeInv
  <2>3. QED
    BY <1>1, <1>3, <2>1, <2>2, Zenon
<1>9. QED
  BY <1>2, <1>4, <1>5, <1>6, <1>7, <1>8, TableStep, Zenon

\* _inflight counts the tasks that are submitted and not finished, neither more
\* nor less, for any finite set of tasks and however they overlap: each
\* submit_* raises it once and each task's _finish() lowers it once.
THEOREM InflightExact == Spec => []InflightIsOpen
<1>1. Init => InflightIsOpen
  <2> SUFFICES ASSUME Init PROVE InflightIsOpen
    BY Zenon
  <2>1. Open = {}
    BY Zenon DEF Init, Open
  <2>2. QED
    BY <2>1, FS_EmptySet, Zenon DEF Init, InflightIsOpen
<1>2. TypeOK /\ InflightIsOpen /\ [Next]_vars => InflightIsOpen'
  BY OpenStep, Zenon
<1>3. QED
  BY <1>1, <1>2, TypeCorrect, PTL DEF Spec

\* No submitted task is stranded, whichever of its DAOS calls fail: until it is
\* finished the guard of one of its steps holds, and a task the controller was
\* signalled for has its result in the table.  ResultDue without ENABLED.
THEOREM TasksGoOn == Spec => []NoneStranded
<1>1. Init => Stages /\ Kinds /\ OutcomeInv
  <2> SUFFICES ASSUME Init PROVE Stages /\ Kinds /\ OutcomeInv
    BY Zenon
  <2>1. Stages /\ Kinds
    BY Zenon DEF Init, Stages, Unfinished, Kinds
  <2>2. OutcomeInv
    BY Zenon DEF Init, OutcomeInv
  <2>3. QED
    BY <2>1, <2>2, Zenon
<1>2. TypeOK /\ Stages /\ Kinds /\ OutcomeInv /\ [Next]_vars => Stages' /\ Kinds' /\ OutcomeInv'
  BY StagesStep, KindsStep, OutcomeStep, Zenon
<1>3. TypeOK /\ Kinds /\ OutcomeInv => NoneStranded
  <2> SUFFICES ASSUME TypeOK, Kinds, OutcomeInv, NEW t \in Tasks
               PROVE  /\ t \in Open => MayGoOn(t)
                      /\ phase[t] = "done" => outcome[t] # "none"
    BY Zenon DEF NoneStranded
  <2>1. phase[t] = "done" => outcome[t] # "none"
    BY Zenon DEF OutcomeInv
  <2>2. ASSUME t \in Open PROVE MayGoOn(t)
    <3>1. phase[t] \in {"run", "locked", "published"}
      BY <2>2, Zenon DEF Open, TypeOK
    <3>2. CASE phase[t] = "run" /\ Ended(t)
      <4>1. op[t] \in {"store", "lookup", "load"}
        BY <3>2 DEF Kinds, Ops
      <4>2. QED
        BY <3>2, <4>1, Zenon DEF MayGoOn
    <3>3. CASE ~Ended(t)
      BY <3>3, Zenon DEF Ended, With, MayGoOn
    <3>4. QED
      BY <3>1, <3>2, <3>3, Zenon DEF MayGoOn
  <2>3. QED
    BY <2>1, <2>2, Zenon
<1>4. QED
  BY <1>1, <1>2, <1>3, TypeCorrect, PTL DEF Spec
=============================================================================
