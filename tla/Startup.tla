------------------------------- MODULE Startup -------------------------------
(***************************************************************************)
(* How a client of DAOS comes up and goes away: the in-process connector,  *)
(* the MP-mode L2 adapter, the GDS backend, or a tool that opens a mount   *)
(* of its own.  A constructor opens handles call by call, and every call   *)
(* may fail; the connector first asks the container for its layout, to     *)
(* choose between the object API and DFS.  Before it serves, a client of a *)
(* DFS container warms up: it creates a probe file, writes each chunk of   *)
(* it in turn, writes all chunks on its thread pool, reads them back and   *)
(* removes the file.  Warm-up is best effort.                              *)
(***************************************************************************)
EXTENDS Naturals, Sequences, FiniteSets

CONSTANTS
    Chunks,     \* nchunks, chunks of the probe file
    Workers     \* threads of the I/O pool

ASSUME ChunksAssumption == Chunks \in Nat \ {0}
ASSUME WorkersAssumption == Workers \in Nat \ {0}

VARIABLES
    cfg,        \* how the client is set up, and what its container is
    pc,         \* where the client is in its life
    call,       \* calls of the current script that have returned
    held,       \* the DAOS handles that are open
    raw,        \* _raw: the object API was chosen
    asked,      \* what became of the layout probe
    late,       \* history: the constructor raised with its backend open
    warm,       \* where the warm-up is
    tiny,       \* first-contact writes that have returned
    handle,     \* h, the handle the chunk writes share
    file,       \* the probe file exists
    task,       \* task[i]: the pool's call on chunk i
    spoiled     \* history: a call of the warm-up has raised

vars == <<cfg, pc, call, held, raw, asked, late, warm, tiny, handle, file, task, spoiled>>
warmVars == <<warm, tiny, handle, file, task, spoiled>>

Index == 1 .. Chunks
Users == {"connector", "adapter", "gds", "tool"}

\* DAOS_FORCE_LAYOUT, DAOS_WORKERS and DAOS_PROBE_CHUNKS concern some users only.
Configs ==
    {c \in [user : Users, layout : {"posix", "other"}, forced : {"", "posix", "raw", "bad"},
            workersOk : BOOLEAN, probe : BOOLEAN] :
       /\ c.user # "connector" => c.forced = "" /\ c.workersOk
       /\ c.user = "tool" => ~c.probe}

\* The handle each call of a script gives, in order.
LayoutCalls == <<"init", "layout pool", "layout cont", "prop", "query">>
ObjCalls == <<"init", "pool", "cont", "oid", "object">>
DfsCalls == <<"daos_init", "dfs_init", "mount">>

Closable == {"layout pool", "layout cont", "prop", "pool", "cont", "object", "mount"}
Backend == IF raw THEN {"pool", "cont", "object"} ELSE {"mount"}

Tasks == [Index -> {"none", "queued", "writing", "reading", "ok", "bad"}]
None == [i \in Index |-> "none"]
Queued == [i \in Index |-> "queued"]
In(s) == {i \in Index : task[i] = s}
Running == In("writing") \cup In("reading")

TypeOK ==
    /\ cfg \in Configs
    /\ pc \in {"choose", "layout", "open", "setup", "warm", "finish", "up", "raised", "closed"}
    /\ call \in 0 .. 5
    /\ held \subseteq Closable
    /\ raw \in BOOLEAN
    /\ asked \in {"no", "ok", "failed"}
    /\ late \in BOOLEAN
    /\ warm \in {"no", "create", "default", "connect", "write", "read", "remove", "over"}
    /\ tiny \in 0 .. Chunks
    /\ handle \in {"none", "open"}
    /\ file \in BOOLEAN
    /\ task \in Tasks
    /\ spoiled \in BOOLEAN

Init ==
    /\ cfg \in Configs
    /\ pc = IF cfg.user = "connector" THEN "choose" ELSE "open"
    /\ call = 0
    /\ held = {}
    /\ raw = FALSE
    /\ asked = "no"
    /\ late = FALSE
    /\ warm = "no"
    /\ tiny = 0
    /\ handle = "none"
    /\ file = FALSE
    /\ task = None
    /\ spoiled = FALSE
-----------------------------------------------------------------------------
(* The backend is chosen and opened.                                       *)

\* The next call of a script returns, with its handle if it gives one.
Called(script) == held' = held \cup ({script[call + 1]} \cap Closable)

\* _choose_backend: an override must name a layout; then the container is asked.
Choose ==
    /\ pc = "choose"
    /\ pc' = IF cfg.forced = "bad" THEN "raised" ELSE "layout"
    /\ UNCHANGED <<cfg, call, held, raw, asked, late, warmVars>>

\* The container decides; an override that says otherwise is refused.
Choice ==
    LET found == IF cfg.layout = "posix" THEN "posix" ELSE "raw" IN
    IF cfg.forced \in {"", found} THEN found ELSE "refused"

\* container_layout: one call after the other; the finally gives everything back,
\* whichever of them fails.  If the probe fails, an override decides.
AskLayout ==
    /\ pc = "layout"
    /\ \/ /\ call + 1 < Len(LayoutCalls)
          /\ Called(LayoutCalls)
          /\ call' = call + 1
          /\ UNCHANGED <<pc, raw, asked>>
       \/ /\ call + 1 = Len(LayoutCalls)
          /\ held' = {}
          /\ call' = 0
          /\ asked' = "ok"
          /\ raw' = (Choice = "raw")
          /\ pc' = IF Choice = "refused" THEN "raised" ELSE "open"
       \/ /\ held' = {}
          /\ call' = 0
          /\ asked' = "failed"
          /\ raw' = (cfg.forced = "raw")
          /\ pc' = IF cfg.forced = "" THEN "raised" ELSE "open"
    /\ UNCHANGED <<cfg, late, warmVars>>

Script == IF raw THEN ObjCalls ELSE DfsCalls

\* dfs_sys_connect refuses a container that is not POSIX.
Refused == ~raw /\ cfg.layout = "other"

OpenCall ==
    /\ pc = "open"
    /\ Refused => call + 1 < Len(Script)
    /\ Called(Script)
    /\ IF call + 1 = Len(Script) THEN call' = 0 /\ pc' = "setup" ELSE call' = call + 1 /\ UNCHANGED pc
    /\ UNCHANGED <<cfg, raw, asked, late, warmVars>>

\* Fault: ObjSys does not close what it had opened.
GaveBack_Not == held

\* The except of ObjSys closes what is open; DfsSys has nothing open before its
\* last call.
GaveBack == {}

OpenFails ==
    /\ pc = "open"
    /\ held' = GaveBack
    /\ call' = 0
    /\ pc' = "raised"
    /\ UNCHANGED <<cfg, raw, asked, late, warmVars>>

\* Between the backend and the warm-up: DAOS_WORKERS is parsed and the pools are
\* made; the adapter and the GDS backend create their root directory.  Nothing
\* closes the backend if this raises.
Setup ==
    /\ pc = "setup"
    /\ \/ /\ cfg.user \in {"adapter", "gds"} \/ ~cfg.workersOk
          /\ pc' = "raised" /\ late' = TRUE
          /\ UNCHANGED warm
       \/ /\ cfg.workersOk
          /\ IF cfg.probe /\ ~raw
             THEN pc' = "warm" /\ warm' = "create"
             ELSE pc' = "finish" /\ UNCHANGED warm
          /\ UNCHANGED late
    /\ UNCHANGED <<cfg, call, held, raw, asked, tiny, handle, file, task, spoiled>>
-----------------------------------------------------------------------------
(* warm_up_all_targets.                                                    *)

life == <<cfg, call, held, raw, asked, late>>

\* warm_up_all_targets ends and what was local to it goes: the map has cancelled
\* the calls that had not started, those that run go on.
Return ==
    /\ warm' = "over"
    /\ pc' = "finish"
    /\ tiny' = 0
    /\ handle' = "none"
    /\ task' = [i \in Index |-> IF i \in Running THEN task[i] ELSE "none"]

\* It raises: the constructor logs that and goes on.
GiveUp == Return /\ spoiled' = TRUE

\* The class SX is tried first; a container that refuses it gives EINVAL, and its
\* default class is tried.
CreateProbe ==
    /\ pc = "warm" /\ warm \in {"create", "default"}
    /\ \/ /\ handle' = "open" /\ file' = TRUE
          /\ warm' = "connect"
          /\ UNCHANGED <<pc, tiny, task, spoiled>>
       \/ /\ warm = "create" /\ warm' = "default"
          /\ UNCHANGED <<pc, tiny, handle, file, task, spoiled>>
       \/ GiveUp /\ UNCHANGED file
    /\ UNCHANGED life

\* One tiny write per chunk, in turn; after the last, a write per chunk goes to
\* the pool.  The handle is closed if one raises.
Connect ==
    /\ warm = "connect"
    /\ \/ /\ tiny' = tiny + 1
          /\ IF tiny + 1 = Chunks
             THEN warm' = "write" /\ task' = Queued
             ELSE UNCHANGED <<warm, task>>
          /\ UNCHANGED <<pc, handle, spoiled>>
       \/ GiveUp
    /\ UNCHANGED <<life, file>>

\* A pool thread takes the oldest call.
TaskStart(i) ==
    /\ task[i] = "queued"
    /\ \A j \in In("queued") : i <= j
    /\ Cardinality(Running) < Workers
    /\ task' = [task EXCEPT ![i] = IF warm = "write" THEN "writing" ELSE "reading"]
    /\ UNCHANGED <<life, pc, warm, tiny, handle, file, spoiled>>

\* Nobody asks how a call ended that the warm-up has left behind.
TaskEnd(i, how) ==
    /\ i \in Running
    /\ task' = [task EXCEPT ![i] = IF warm = "over" THEN "none" ELSE how]
    /\ UNCHANGED <<life, pc, warm, tiny, handle, file, spoiled>>

\* Fault: the results of the writes are not waited for.
Drained_Not == In("bad") = {}

\* list(map(...)) has every result.
Drained == In("ok") = Index

\* list(map(...)) raises at the first call, in order, that failed.
Broken == \E i \in In("bad") : \A j \in 1 .. i - 1 : task[j] = "ok"

\* The shared handle is closed either way; the reads open their own.
WritesOver ==
    /\ warm = "write"
    /\ \/ /\ Drained
          /\ warm' = "read"
          /\ handle' = "none"
          /\ task' = Queued
          /\ UNCHANGED <<pc, tiny, spoiled>>
       \/ Broken /\ GiveUp
    /\ UNCHANGED <<life, file>>

ReadsOver ==
    /\ warm = "read"
    /\ \/ Drained /\ warm' = "remove" /\ UNCHANGED <<pc, tiny, handle, task, spoiled>>
       \/ Broken /\ GiveUp
    /\ UNCHANGED <<life, file>>

\* A remove that fails is swallowed.
RemoveProbe ==
    /\ warm = "remove"
    /\ \/ file' = FALSE /\ UNCHANGED spoiled
       \/ spoiled' = TRUE /\ UNCHANGED file
    /\ Return
    /\ UNCHANGED life
-----------------------------------------------------------------------------
(* The rest of the life.                                                   *)

\* The constructor returns; the adapter's event notifiers and the GPU allocator
\* come last and may raise.
FinishInit ==
    /\ pc = "finish"
    /\ \/ pc' = "up" /\ UNCHANGED late
       \/ cfg.user \in {"adapter", "gds"} /\ pc' = "raised" /\ late' = TRUE
    /\ UNCHANGED <<cfg, call, held, raw, asked, warmVars>>

Idle == In("queued") \cup Running = {}

\* close(): the connector does not wait for its pool, the others do.
Close ==
    /\ pc = "up"
    /\ cfg.user # "connector" => Idle
    /\ held' = {}
    /\ pc' = "closed"
    /\ UNCHANGED <<cfg, call, raw, asked, late, warmVars>>

Construct ==
    \/ Choose \/ AskLayout \/ OpenCall \/ OpenFails \/ Setup
    \/ CreateProbe \/ Connect \/ WritesOver \/ ReadsOver \/ RemoveProbe
    \/ FinishInit

Task == \E i \in Index : TaskStart(i) \/ TaskEnd(i, "ok") \/ TaskEnd(i, "bad")

Next == Construct \/ Task \/ Close

Spec == Init /\ [][Next]_vars
-----------------------------------------------------------------------------
(* Properties.                                                             *)

\* A client that is up holds exactly the handles of the API its container was made
\* for (_choose_backend: an override that silently disagrees is the failure to
\* prevent), unless the layout probe could not run and DAOS_FORCE_LAYOUT=raw stood
\* in for it.  One that is closed, or whose constructor raised, holds none,
\* whichever call failed (container_layout's finally, ObjSys's except), unless it
\* raised after its backend was open, where nothing closes it.  The probe file is
\* left behind only if a call of the warm-up raised, and its handle never.
RightHandles ==
    /\ pc = "up" => /\ held = Backend
                    /\ raw = (cfg.layout = "other") \/ (asked = "failed" /\ cfg.forced = "raw")
    /\ pc \in {"raised", "closed"} => held = IF late /\ pc = "raised" THEN Backend ELSE {}
    /\ warm \in {"no", "over"} => handle # "open" /\ (file => spoiled)

\* A chunk write in progress has the file handle it was given, and any call of
\* the warm-up the mount, whatever else the client does; not so once a chunk has
\* failed, where the handle is closed under the writes still running, and the
\* connector's close() does not wait for them.
ProbeHandle ==
    /\ In("writing") # {} => handle = "open" \/ spoiled
    /\ Running # {} => held = {"mount"} \/ (spoiled /\ cfg.user = "connector")
=============================================================================
