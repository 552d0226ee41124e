------------------------------ MODULE GdsStore ------------------------------
(***************************************************************************)
(* The GDS backend's v2 objects, for one key.  A put writes a file of its  *)
(* own under a temporary name, header page first, and renames it onto the  *)
(* final name; a get opens the final name and reads header and payload; a  *)
(* lookup trusts _known, the keys this process has once seen, before it    *)
(* stats.  Several processes share the container; each has its own _known  *)
(* and its own _put_tasks, which keeps a key from being stored twice at a  *)
(* time.  What a file's payload spans is as in DfsObject.                  *)
(***************************************************************************)
EXTENDS Naturals

CONSTANTS
    Procs,      \* processes, each with one DaosGdsBackend
    Threads,    \* their threads
    Files,      \* files that ever exist at a time, temporary ones included
    None,       \* no file
    Chunks      \* DFS chunks of the payload

ASSUME FilesAssumption == None \notin Files
ASSUME ChunksAssumption == Chunks \in Nat \ {0}

Offsets == 1 .. Chunks
Key == "object"

VARIABLES
    home,       \* home[t]: the process of t
    final,      \* the file under the key's final name, or None
    temps,      \* files under temporary names
    header,     \* header[f]: the header page is written, STATE_COMMITTED in it
    data,       \* data[f]: the chunks of the payload that are written
    pc,         \* pc[t]: where thread t is
    file,       \* file[t]: the file t has open
    todo,       \* todo[t]: chunks t's read or write has not reached
    got,        \* got[t]: chunks t has read
    staged,     \* staged[t]: t holds a GPU object
    out,        \* out[t]: what t's last get handed back
    seen,       \* history: the key was stored, or being stored, during t's get
    known,      \* processes with the key in _known
    tasks,      \* processes with the key in _put_tasks
    queued,     \* processes with a _put_one the pool has not started
    evicted     \* history: somebody has called remove

disk == <<home, final, temps, header, data, evicted>>
buffers == <<todo, got, staged, out, seen>>
vars == <<disk, pc, file, buffers, known, tasks, queued>>

Putting == {"put_look", "put_stat", "put_see", "put_open", "put_header", "put_payload", "put_move", "put_known"}
Storing == {"put_header", "put_payload", "put_move"}
Looking == {"stat", "see"}
Reading == {"get_header", "get_payload"}
Contents == {"stored", "torn", "cut"}

TypeOK ==
    /\ home \in [Threads -> Procs]
    /\ final \in Files \cup {None}
    /\ temps \subseteq Files
    /\ header \in [Files -> BOOLEAN]
    /\ data \in [Files -> SUBSET Offsets]
    /\ pc \in [Threads -> Putting \cup Looking \cup Reading \cup {"idle", "remove"}]
    /\ file \in [Threads -> Files \cup {None}]
    /\ todo \in [Threads -> SUBSET Offsets]
    /\ got \in [Threads -> SUBSET Offsets]
    /\ staged \in [Threads -> BOOLEAN]
    /\ out \in [Threads -> SUBSET ({Key} \X Contents)]
    /\ seen \in [Threads -> SUBSET {Key}]
    /\ known \subseteq Procs
    /\ tasks \subseteq Procs
    /\ queued \subseteq Procs
    /\ evicted \in BOOLEAN

Init ==
    /\ home \in [Threads -> Procs]
    /\ final = None
    /\ temps = {}
    /\ header = [f \in Files |-> FALSE]
    /\ data = [f \in Files |-> {}]
    /\ pc = [t \in Threads |-> "idle"]
    /\ file = [t \in Threads |-> None]
    /\ todo = [t \in Threads |-> {}]
    /\ got = [t \in Threads |-> {}]
    /\ staged = [t \in Threads |-> FALSE]
    /\ out = [t \in Threads |-> {}]
    /\ seen = [t \in Threads |-> {}]
    /\ known = {}
    /\ tasks = {}
    /\ queued = {}
    /\ evicted = FALSE

Proc(t) == home[t]
Goto(t, to) == pc' = [pc EXCEPT ![t] = to]
Linked(f) == f = final \/ f \in temps
Maybe == IF final # None \/ (\E t \in Threads : pc[t] \in Storing) THEN {Key} ELSE {}
Unused == {f \in Files : ~Linked(f) /\ \A t \in Threads : file[t] # f}

\* The handle is closed and the call returns.
Close(t) ==
    /\ Goto(t, "idle")
    /\ file' = [file EXCEPT ![t] = None]
    /\ todo' = [todo EXCEPT ![t] = {}]
    /\ got' = [got EXCEPT ![t] = {}]
    /\ seen' = [seen EXCEPT ![t] = {}]
-----------------------------------------------------------------------------
(* contains(): _known, then a stat, then _known again.  _put_one asks it   *)
(* first and goes on when the answer is no.                                *)

\* A lookup that finds the key in _known, or whose stat fails, is over.
Contains(t) ==
    /\ pc[t] = "idle"
    /\ IF Proc(t) \in known THEN UNCHANGED pc ELSE Goto(t, "stat")
    /\ UNCHANGED <<disk, file, buffers, known, tasks, queued>>

Stat(t) ==
    /\ \/ pc[t] = "stat" /\ \/ final # None /\ Goto(t, "see")
                            \/ Goto(t, "idle")
       \/ pc[t] = "put_stat" /\ \/ final # None /\ Goto(t, "put_see")
                                \/ Goto(t, "put_open")
    /\ UNCHANGED <<disk, file, buffers, known, tasks, queued>>

\* _put_one's finally.
TaskDone(p) == tasks' = tasks \ {p}

See(t) ==
    /\ pc[t] \in {"see", "put_see"}
    /\ known' = known \cup {Proc(t)}
    /\ Goto(t, "idle")
    /\ IF pc[t] = "put_see" THEN TaskDone(Proc(t)) ELSE UNCHANGED tasks
    /\ UNCHANGED <<disk, file, buffers, queued>>
-----------------------------------------------------------------------------
(* Storing.                                                                *)

\* batched_submit_put_task: a key that is being stored is skipped.
SubmitPut(p) ==
    /\ p \notin tasks
    /\ tasks' = tasks \cup {p}
    /\ queued' = queued \cup {p}
    /\ UNCHANGED <<disk, pc, file, buffers, known>>

PutStart(t) ==
    /\ pc[t] = "idle" /\ Proc(t) \in queued
    /\ queued' = queued \ {Proc(t)}
    /\ Goto(t, "put_look")
    /\ UNCHANGED <<disk, file, buffers, known, tasks>>

PutLook(t) ==
    /\ pc[t] = "put_look"
    /\ IF Proc(t) \in known
       THEN Goto(t, "idle") /\ TaskDone(Proc(t))
       ELSE Goto(t, "put_stat") /\ UNCHANGED tasks
    /\ UNCHANGED <<disk, file, buffers, known, queued>>

\* open_rdwr_create of a name with a fresh nonce.
PutOpen(t, f) ==
    /\ pc[t] = "put_open"
    /\ f \in Unused
    /\ file' = [file EXCEPT ![t] = f]
    /\ temps' = temps \cup {f}
    /\ header' = [header EXCEPT ![f] = FALSE]
    /\ data' = [data EXCEPT ![f] = {}]
    /\ seen' = [u \in Threads |-> IF pc[u] \in Reading THEN {Key} ELSE seen[u]]
    /\ Goto(t, "put_header")
    /\ UNCHANGED <<final, evicted, home, todo, got, staged, out, known, tasks, queued>>

\* The chunks one read or write of the payload covers.
Span == 1 .. Chunks

\* pack_header's default state is STATE_COMMITTED.
PutHeader(t) ==
    /\ pc[t] = "put_header"
    /\ header' = [header EXCEPT ![file[t]] = TRUE]
    /\ todo' = [todo EXCEPT ![t] = Span]
    /\ Goto(t, "put_payload")
    /\ UNCHANGED <<final, temps, data, evicted, home, file, got, staged, out, seen, known, tasks, queued>>

PutChunk(t, i) ==
    /\ pc[t] = "put_payload" /\ i \in todo[t]
    /\ data' = [data EXCEPT ![file[t]] = @ \cup {i}]
    /\ todo' = [todo EXCEPT ![t] = @ \ {i}]
    /\ UNCHANGED <<final, temps, header, evicted, home, pc, file, got, staged, out, seen, known, tasks, queued>>

Written(t) == todo[t] = {}

\* The handle is closed and the number of bytes written checked.
PutWritten(t) ==
    /\ pc[t] = "put_payload" /\ Written(t)
    /\ Goto(t, "put_move")
    /\ UNCHANGED <<disk, file, buffers, known, tasks, queued>>

\* dfs_move onto the final name; a file that was there is unlinked.
PutMove(t) ==
    /\ pc[t] = "put_move"
    /\ final' = file[t]
    /\ temps' = temps \ {file[t]}
    /\ file' = [file EXCEPT ![t] = None]
    /\ Goto(t, "put_known")
    /\ UNCHANGED <<header, data, evicted, home, buffers, known, tasks, queued>>

PutKnown(t) ==
    /\ pc[t] = "put_known"
    /\ known' = known \cup {Proc(t)}
    /\ TaskDone(Proc(t))
    /\ Goto(t, "idle")
    /\ UNCHANGED <<disk, file, buffers, queued>>

\* Fault: a put that failed counts as one that stored.
Learned_Always(p) == known \cup {p}

\* What a failed put leaves in _known.
Learned(p) == known

\* A call of _put_one raises: caught and logged; the temporary file stays.
PutRaises(t) ==
    /\ pc[t] \in {"put_look", "put_open", "put_header", "put_payload", "put_move"}
    /\ known' = Learned(Proc(t))
    /\ TaskDone(Proc(t))
    /\ Close(t)
    /\ UNCHANGED <<disk, staged, out, queued>>
-----------------------------------------------------------------------------
(* get_blocking, remove.                                                   *)

GetOpen(t) ==
    /\ pc[t] = "idle"
    /\ out' = [out EXCEPT ![t] = {}]
    /\ staged' = [staged EXCEPT ![t] = FALSE]
    /\ IF final = None
       THEN UNCHANGED <<pc, file, seen>>
       ELSE /\ Goto(t, "get_header")
            /\ file' = [file EXCEPT ![t] = final]
            /\ seen' = [seen EXCEPT ![t] = Maybe]
    /\ UNCHANGED <<disk, todo, got, known, tasks, queued>>

\* A bad header, a full GPU pool, or a payload of another size is a miss.
GetHeader(t) ==
    /\ pc[t] = "get_header"
    /\ \/ Close(t) /\ UNCHANGED staged
       \/ /\ Linked(file[t]) /\ header[file[t]]
          /\ staged' = [staged EXCEPT ![t] = TRUE]
          /\ todo' = [todo EXCEPT ![t] = Span]
          /\ Goto(t, "get_payload")
          /\ UNCHANGED <<file, got, seen>>
    /\ UNCHANGED <<disk, out, known, tasks, queued>>

GetChunk(t, i) ==
    /\ pc[t] = "get_payload" /\ i \in todo[t]
    /\ got' = [got EXCEPT ![t] = IF Linked(file[t]) THEN @ \cup ({i} \cap data[file[t]]) ELSE @]
    /\ todo' = [todo EXCEPT ![t] = @ \ {i}]
    /\ UNCHANGED <<disk, pc, file, staged, out, seen, known, tasks, queued>>

\* Fault: the number of bytes read is not looked at.
FullLength_Ignored(read) == read = read

\* The read stops at end of file; a hole before it reads as zeros.
FullLength(read) == Chunks \in read

\* The GPU object is handed over, or its reference dropped.
Kept(read) == FullLength(read)

\* What a hit holds.  It is "cut" if the file was removed or replaced under the
\* read after its last chunk was read, which the length cannot show.
Content(t) ==
    IF got[t] = Offsets THEN "stored"
    ELSE IF ~Linked(file[t]) /\ Chunks \in got[t] THEN "cut" ELSE "torn"

GetDone(t) ==
    LET hit == FullLength(got[t]) IN
    /\ pc[t] = "get_payload" /\ todo[t] = {}
    /\ out' = [out EXCEPT ![t] = IF hit THEN {<<Key, Content(t)>>} ELSE {}]
    /\ staged' = [staged EXCEPT ![t] = Kept(got[t])]
    /\ known' = IF hit THEN known \cup {Proc(t)} ELSE known
    /\ Close(t)
    /\ UNCHANGED <<disk, tasks, queued>>

GetRaises(t) ==
    /\ pc[t] \in Reading
    /\ staged' = [staged EXCEPT ![t] = FALSE]
    /\ Close(t)
    /\ UNCHANGED <<disk, out, known, tasks, queued>>

RemoveKnown(t) ==
    /\ pc[t] = "idle"
    /\ known' = known \ {Proc(t)}
    /\ evicted' = TRUE
    /\ Goto(t, "remove")
    /\ UNCHANGED <<home, final, temps, header, data, file, buffers, tasks, queued>>

\* dfs_sys_remove_type, or an error that is swallowed.
RemoveFile(t) ==
    /\ pc[t] = "remove"
    /\ final' \in {final, None}
    /\ Goto(t, "idle")
    /\ UNCHANGED <<temps, header, data, evicted, home, file, buffers, known, tasks, queued>>

\* A process dies; its temporary files stay.
Crash(p) ==
    LET reset(f, v) == [t \in Threads |-> IF Proc(t) = p THEN v ELSE f[t]] IN
    /\ pc' = reset(pc, "idle")
    /\ file' = reset(file, None)
    /\ todo' = reset(todo, {})
    /\ got' = reset(got, {})
    /\ staged' = reset(staged, FALSE)
    /\ out' = reset(out, {})
    /\ seen' = reset(seen, {})
    /\ known' = known \ {p}
    /\ tasks' = tasks \ {p}
    /\ queued' = queued \ {p}
    /\ UNCHANGED disk
-----------------------------------------------------------------------------
Put(t) ==
    \/ PutStart(t) \/ PutLook(t) \/ PutHeader(t) \/ PutWritten(t) \/ PutMove(t) \/ PutKnown(t)
    \/ \E f \in Files : PutOpen(t, f)
    \/ \E i \in Offsets : PutChunk(t, i)

Get(t) == GetOpen(t) \/ GetHeader(t) \/ (\E i \in Offsets : GetChunk(t, i)) \/ GetDone(t)

Next ==
    \/ \E p \in Procs : SubmitPut(p) \/ Crash(p)
    \/ \E t \in Threads :
          \/ Contains(t) \/ Stat(t) \/ See(t)
          \/ Put(t) \/ PutRaises(t)
          \/ Get(t) \/ GetRaises(t)
          \/ RemoveKnown(t) \/ RemoveFile(t)

Spec == Init /\ [][Next]_vars
-----------------------------------------------------------------------------
(* Properties.                                                             *)

\* Writers publish atomically (_put_one's rename): whatever is under the final
\* name is whole, under any overlap of writers, failures and crashes.
FinalIsWhole == final # None => header[final] /\ data[final] = Offsets

\* Until somebody removes the key, _known is right: contains() never announces
\* a key that is not there, whatever puts failed and whichever process stored.
KnownIsStored == known # {} /\ ~evicted => final # None

\* A get that is over holds a GPU object iff it handed it to its caller.
NoBufferLeak == \A t \in Threads : pc[t] = "idle" => (staged[t] <=> out[t] # {})

\* The backend keeps the connector's promise to its caller, but for reads
\* of several chunks that a remove or a rename cuts (Content).
Contract == INSTANCE KvContract WITH
    Keys <- {Key},
    Clients <- Threads,
    maybe <- Maybe,
    open <- [t \in Threads |-> pc[t] \in Reading],
    asked <- [t \in Threads |-> IF pc[t] \in Reading THEN {Key} ELSE {}],
    hits <- [t \in Threads |-> {hit \in out[t] : hit[2] # "cut"}]
ContractSpec == Contract!Spec
=============================================================================
