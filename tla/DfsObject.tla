------------------------------ MODULE DfsObject ------------------------------
(***************************************************************************)
(* The DFS (v1) path of the in-process connector, for one key, that is,    *)
(* one file: a header (prefix and metadata) followed by the payload.  The  *)
(* payload spans one or more DFS chunks, which live on different targets:  *)
(* one dfs_sys_write lands chunk by chunk in any order, and one            *)
(* dfs_sys_read picks its chunks up in any order.  A put opens the file    *)
(* with O_CREAT and no O_TRUNC, writes the header, then the payload, in    *)
(* place.  A get opens, reads the header, allocates, and reads the payload *)
(* into the buffer; it judges the object by lengths alone.                 *)
(***************************************************************************)
EXTENDS Naturals

CONSTANTS
    Chunks,     \* most DFS chunks a payload spans
    Values,     \* what a put may store; one value: content-addressed keys
    Clients     \* the threads that call the connector, of any process

ASSUME ChunksAssumption == Chunks \in Nat \ {0}

Hole == "hole"
ASSUME ValuesAssumption == Hole \notin Values

Offsets == 1 .. Chunks
Empty == [i \in Offsets |-> Hole]

VARIABLES
    span,       \* DFS chunks the payload spans, the same for every put of the key
    entry,      \* the directory has the file
    header,     \* the header is written
    data,       \* data[i]: chunk i of the payload
    pc,         \* pc[c]: where client c is
    attached,   \* attached[c]: c's open handle still names the file
    todo,       \* todo[c]: chunks c's read or write has not reached
    value,      \* value[c]: what c is storing
    buffer,     \* buffer[c]: what c has read so far
    staged,     \* staged[c]: c holds a staging buffer
    out,        \* out[c]: what c's last get handed back
    raised,     \* raised[c]: c's last get ended with an exception
    seen        \* history: the key was stored, or being stored, during c's get

vars == <<span, entry, header, data, pc, attached, todo, value, buffer, staged, out, raised, seen>>

Writing == {"put_header", "put_payload"}
Reading == {"get_header", "get_payload"}
Key == "object"

\* What a buffer handed to the caller holds: one put's payload, a payload
\* with zeros where a chunk is missing, or the bytes of two writers.
Contents == {"stored", "torn", "blend"}
Content(buf) ==
    CASE \E i \in 1 .. span : buf[i] = Hole -> "torn"
      [] \E v \in Values : \A i \in 1 .. span : buf[i] = v -> "stored"
      [] OTHER -> "blend"

TypeOK ==
    /\ span \in Offsets
    /\ entry \in BOOLEAN
    /\ header \in BOOLEAN
    /\ data \in [Offsets -> Values \cup {Hole}]
    /\ pc \in [Clients -> Writing \cup Reading \cup {"idle"}]
    /\ attached \in [Clients -> BOOLEAN]
    /\ todo \in [Clients -> SUBSET Offsets]
    /\ value \in [Clients -> Values \cup {Hole}]
    /\ buffer \in [Clients -> [Offsets -> Values \cup {Hole}]]
    /\ staged \in [Clients -> BOOLEAN]
    /\ out \in [Clients -> SUBSET ({Key} \X Contents)]
    /\ raised \in [Clients -> BOOLEAN]
    /\ seen \in [Clients -> SUBSET {Key}]

Init ==
    /\ span \in Offsets
    /\ entry = FALSE
    /\ header = FALSE
    /\ data = Empty
    /\ pc = [c \in Clients |-> "idle"]
    /\ attached = [c \in Clients |-> FALSE]
    /\ todo = [c \in Clients |-> {}]
    /\ value = [c \in Clients |-> Hole]
    /\ buffer = [c \in Clients |-> Empty]
    /\ staged = [c \in Clients |-> FALSE]
    /\ out = [c \in Clients |-> {}]
    /\ raised = [c \in Clients |-> FALSE]
    /\ seen = [c \in Clients |-> {}]

Complete == header /\ \A i \in 1 .. span : data[i] # Hole

\* The file holds some payload, or someone is storing one.
Maybe ==
    IF (\E i \in Offsets : data[i] # Hole) \/ (\E c \in Clients : pc[c] \in Writing)
    THEN {Key} ELSE {}

\* The end of every call: close_obj(), in a finally.
Close(c) ==
    /\ pc' = [pc EXCEPT ![c] = "idle"]
    /\ attached' = [attached EXCEPT ![c] = FALSE]
    /\ todo' = [todo EXCEPT ![c] = {}]
    /\ value' = [value EXCEPT ![c] = Hole]
    /\ buffer' = [buffer EXCEPT ![c] = Empty]
    /\ seen' = [seen EXCEPT ![c] = {}]
-----------------------------------------------------------------------------
(* put: open_rdwr_create, header at 0, payload behind it.                  *)

\* Fault: the file is opened with O_TRUNC.
PutOpen_Truncates(c, v) ==
    /\ pc[c] = "idle"
    /\ entry' = TRUE
    /\ pc' = [pc EXCEPT ![c] = "put_header"]
    /\ attached' = [attached EXCEPT ![c] = TRUE]
    /\ value' = [value EXCEPT ![c] = v]
    /\ seen' = [d \in Clients |-> IF pc[d] \in Reading THEN {Key} ELSE seen[d]]
    /\ header' = FALSE
    /\ data' = Empty
    /\ UNCHANGED <<todo, buffer, staged, out, raised, span>>

PutOpen(c, v) ==
    /\ pc[c] = "idle"
    /\ entry' = TRUE
    /\ pc' = [pc EXCEPT ![c] = "put_header"]
    /\ attached' = [attached EXCEPT ![c] = TRUE]
    /\ value' = [value EXCEPT ![c] = v]
    /\ seen' = [d \in Clients |-> IF pc[d] \in Reading THEN {Key} ELSE seen[d]]
    /\ UNCHANGED <<header, data, todo, buffer, staged, out, raised, span>>

WriteSpan == 1 .. span

PutHeader(c) ==
    /\ pc[c] = "put_header"
    /\ header' = (header \/ attached[c])
    /\ pc' = [pc EXCEPT ![c] = "put_payload"]
    /\ todo' = [todo EXCEPT ![c] = WriteSpan]
    /\ UNCHANGED <<entry, data, attached, value, buffer, staged, out, seen, raised, span>>

\* One chunk of the payload lands; a file removed meanwhile gets nothing.
PutChunk(c, i) ==
    /\ pc[c] = "put_payload"
    /\ i \in todo[c]
    /\ data' = IF attached[c] THEN [data EXCEPT ![i] = value[c]] ELSE data
    /\ todo' = [todo EXCEPT ![c] = @ \ {i}]
    /\ UNCHANGED <<entry, header, pc, attached, value, buffer, staged, out, seen, raised, span>>

PutDone(c) ==
    /\ pc[c] = "put_payload"
    /\ todo[c] = {}
    /\ Close(c)
    /\ UNCHANGED <<entry, header, data, staged, out, raised, span>>
-----------------------------------------------------------------------------
(* get: open, header, allocate, payload.                                   *)

\* ENOENT is a miss and the get is over before it has anything to release.
GetOpen(c) ==
    /\ pc[c] = "idle"
    /\ out' = [out EXCEPT ![c] = {}]
    /\ staged' = [staged EXCEPT ![c] = FALSE]
    /\ raised' = [raised EXCEPT ![c] = FALSE]
    /\ IF entry
       THEN /\ pc' = [pc EXCEPT ![c] = "get_header"]
            /\ attached' = [attached EXCEPT ![c] = TRUE]
            /\ seen' = [seen EXCEPT ![c] = Maybe]
       ELSE UNCHANGED <<pc, attached, seen>>
    /\ UNCHANGED <<entry, header, data, todo, value, buffer, span>>

\* A short or unparseable header is a miss; so is a refused allocation.
GetHeader(c) ==
    /\ pc[c] = "get_header"
    /\ \/ Close(c) /\ UNCHANGED staged
       \/ /\ header /\ attached[c]
          /\ pc' = [pc EXCEPT ![c] = "get_payload"]
          /\ todo' = [todo EXCEPT ![c] = 1 .. span]
          /\ staged' = [staged EXCEPT ![c] = TRUE]
          /\ UNCHANGED <<attached, value, buffer, seen>>
    /\ UNCHANGED <<entry, header, data, out, raised, span>>

GetChunk(c, i) ==
    /\ pc[c] = "get_payload"
    /\ i \in todo[c]
    /\ buffer' = [buffer EXCEPT ![c][i] = IF attached[c] THEN data[i] ELSE Hole]
    /\ todo' = [todo EXCEPT ![c] = @ \ {i}]
    /\ UNCHANGED <<entry, header, data, pc, attached, value, staged, out, seen, raised, span>>

\* Fault: the number of bytes read is not looked at.
FullLength_Ignored(buf) == buf = buf

\* read_obj_into() stops at end of file, so a missing last chunk makes the
\* read short; a hole before it reads as zeros and does not.
FullLength(buf) == buf[span] # Hole

GetDone(c) ==
    /\ pc[c] = "get_payload"
    /\ todo[c] = {}
    /\ staged' = [staged EXCEPT ![c] = FullLength(buffer[c])]
    /\ out' = [out EXCEPT ![c] = IF FullLength(buffer[c]) THEN {<<Key, Content(buffer[c])>>} ELSE {}]
    /\ Close(c)
    /\ UNCHANGED <<entry, header, data, raised, span>>
-----------------------------------------------------------------------------
(* remove, failures.                                                       *)

\* The file goes, and with it what open handles can reach.
Remove(c) ==
    /\ pc[c] = "idle"
    /\ entry
    /\ entry' = FALSE
    /\ header' = FALSE
    /\ data' = Empty
    /\ attached' = [d \in Clients |-> FALSE]
    /\ UNCHANGED <<pc, todo, value, buffer, staged, out, seen, raised, span>>

\* A DAOS call raises: the handle is closed on the way out.  A get whose
\* payload read raises does not give its staging buffer back.
Raise(c) ==
    /\ pc[c] # "idle"
    /\ Close(c)
    /\ raised' = [raised EXCEPT ![c] = @ \/ pc[c] \in Reading]
    /\ UNCHANGED <<entry, header, data, staged, out, span>>

Crash(c) ==
    /\ pc[c] # "idle"
    /\ Close(c)
    /\ raised' = [raised EXCEPT ![c] = FALSE]
    /\ staged' = [staged EXCEPT ![c] = FALSE]
    /\ out' = [out EXCEPT ![c] = {}]
    /\ UNCHANGED <<entry, header, data, span>>

Put(c) ==
    \/ \E v \in Values : PutOpen(c, v)
    \/ PutHeader(c)
    \/ \E i \in Offsets : PutChunk(c, i)
    \/ PutDone(c)

Get(c) == GetOpen(c) \/ GetHeader(c) \/ (\E i \in Offsets : GetChunk(c, i)) \/ GetDone(c)

Next == \E c \in Clients : Put(c) \/ Get(c) \/ Remove(c) \/ Raise(c) \/ Crash(c)

Spec == Init /\ [][Next]_vars
-----------------------------------------------------------------------------
(* Properties.                                                             *)

\* Buffer discipline of _get_sync: a get that has returned holds a staging
\* buffer if and only if it handed it to its caller.  (A get whose payload read
\* raises keeps its buffer.)
NoBufferLeak == \A c \in Clients : pc[c] = "idle" /\ ~raised[c] => (staged[c] <=> out[c] # {})

\* Storing a key again is harmless (open_rdwr_create does not truncate): a
\* complete object stays complete, under any number of overlapping, failing
\* or dying writers, until it is removed.
CompleteStays == [][Complete /\ entry' => Complete']_vars

\* The path keeps the connector's promise to its caller while the payload
\* fits one chunk.  A larger one is judged by its length alone, so a get that
\* meets an unfinished put may hand back holes; such hits are left out.
Contract == INSTANCE KvContract WITH
    Keys <- {Key},
    maybe <- Maybe,
    open <- [c \in Clients |-> pc[c] \in Reading],
    asked <- [c \in Clients |-> IF pc[c] \in Reading THEN {Key} ELSE {}],
    hits <- [c \in Clients |-> {hit \in out[c] : span = 1 \/ hit[2] = "stored"}]
ContractSpec == Contract!Spec
=============================================================================
