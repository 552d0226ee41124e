---------------------------- MODULE ClientProofs ----------------------------
(***************************************************************************)
(* Proofs about a client of DAOS, from its constructor to close(), for any *)
(* probe file, pool, callers of ping(), stream and event size.             *)
(***************************************************************************)
EXTENDS Client, FiniteSetTheorems, TLAPS

(* The life of the client.                                                 *)

\* The handles ObjSys has after n calls; DfsSys has none before its last one.
Opened(n) ==
    (IF raw /\ n >= 2 THEN {"pool"} ELSE {}) \cup (IF raw /\ n >= 3 THEN {"cont"} ELSE {})

\* Where the constructor is tells what it has opened, and what it has opened is
\* what the container was made for.
LifeInv ==
    /\ pc \in {"choose", "layout"} => ~raw
    /\ pc = "choose" => call = 0 /\ held = {}
    /\ pc = "layout" => call <= 4
    /\ pc = "open" => held = Opened(call) /\ call <= (IF raw THEN 4 ELSE 2)
    /\ pc \in {"setup", "warm", "finish", "up"} => held = Backend /\ (~raw => cfg.layout = "posix")
    /\ pc = "raised" => held = IF late THEN Backend ELSE {}
    /\ pc = "closed" => held = {}
    /\ late => pc = "raised"
    /\ raw => /\ cfg.user = "connector"
              /\ cfg.layout = "other" \/ (asked = "failed" /\ cfg.forced = "raw")
    /\ pc \in {"choose", "layout"} => cfg.user = "connector"

\* The warm-up runs between setup and finish, of a DFS client only; it has the
\* probe file's handle open from the creation to the last write.
WarmInv ==
    /\ pc \in {"choose", "layout", "open", "setup"} => warm = "no"
    /\ pc = "warm" <=> warm \notin {"no", "over"}
    /\ warm # "no" => ~raw
    /\ handle = "open" <=> warm \in {"connect", "write"}
    /\ warm \in {"no", "create", "default"} => ~file /\ tiny = 0
    /\ warm = "connect" => tiny < Chunks
    /\ warm = "over" /\ file => spoiled
    /\ warm # "no" /\ pc = "raised" => late

\* Which calls of the warm-up the pool may hold.
TaskInv ==
    /\ In("queued") # {} => warm \in {"write", "read"}
    /\ In("writing") # {} => warm = "write" \/ (warm = "over" /\ spoiled)
    /\ In("reading") # {} => warm = "read" \/ (warm = "over" /\ spoiled)
    /\ pc = "closed" /\ cfg.user # "connector" => Running = {}

LEMMA Scripts ==
    /\ Len(LayoutCalls) = 5 /\ Len(ObjCalls) = 5 /\ Len(DfsCalls) = 3
    /\ ObjCalls[1] = "init" /\ ObjCalls[2] = "pool" /\ ObjCalls[3] = "cont"
    /\ ObjCalls[4] = "oid" /\ ObjCalls[5] = "object"
    /\ DfsCalls[1] = "daos_init" /\ DfsCalls[2] = "dfs_init" /\ DfsCalls[3] = "mount"
  BY Zenon DEF LayoutCalls, ObjCalls, DfsCalls

\* The handle a call gives, and what is open after each of ObjSys's calls.
LEMMA Handles ==
    /\ {"pool"} \cap Closable = {"pool"} /\ {"cont"} \cap Closable = {"cont"}
    /\ {"object"} \cap Closable = {"object"} /\ {"mount"} \cap Closable = {"mount"}
    /\ {"init"} \cap Closable = {} /\ {"oid"} \cap Closable = {}
    /\ {"daos_init"} \cap Closable = {} /\ {"dfs_init"} \cap Closable = {}
  BY Zenon DEF Closable

LEMMA OpenedSets ==
    /\ raw => /\ Opened(0) = {} /\ Opened(1) = {} /\ Opened(2) = {"pool"}
              /\ Opened(3) = {"pool", "cont"} /\ Opened(4) = {"pool", "cont"}
    /\ ~raw => \A n \in Nat : Opened(n) = {}
<1>1. ASSUME raw PROVE Opened(0) = {} /\ Opened(1) = {} /\ Opened(2) = {"pool"}
  BY <1>1 DEF Opened
<1>2. ASSUME raw PROVE Opened(3) = {"pool", "cont"} /\ Opened(4) = {"pool", "cont"}
  BY <1>2 DEF Opened
<1>3. ASSUME ~raw PROVE \A n \in Nat : Opened(n) = {}
  BY <1>3, Zenon DEF Opened
<1>4. QED
  BY <1>1, <1>2, <1>3, Zenon

\* The three ways a call of container_layout goes on.
LEMMA AskCases ==
    ASSUME AskLayout
    PROVE  /\ pc = "layout" /\ UNCHANGED <<cfg, late, warm, tiny, handle, file, task, spoiled>>
           /\ \/ /\ call + 1 < Len(LayoutCalls) /\ Called(LayoutCalls) /\ call' = call + 1
                 /\ UNCHANGED <<pc, raw, asked>>
              \/ /\ held' = {} /\ call' = 0 /\ asked' = "ok"
                 /\ raw' \in BOOLEAN
                 /\ raw' => Choice = "raw"
                 /\ pc' \in {"raised", "open"}
              \/ /\ held' = {} /\ call' = 0 /\ asked' = "failed"
                 /\ raw' \in BOOLEAN
                 /\ raw' => cfg.forced = "raw"
                 /\ pc' \in {"raised", "open"}
<1>1. pc = "layout" /\ UNCHANGED <<cfg, late, warm, tiny, handle, file, task, spoiled>>
  BY Zenon DEF AskLayout, warmVars
<1>2. CASE call + 1 < Len(LayoutCalls) /\ Called(LayoutCalls) /\ call' = call + 1 /\ UNCHANGED <<pc, raw, asked>>
  BY <1>1, <1>2, Zenon
<1>3. CASE /\ held' = {} /\ call' = 0 /\ asked' = "ok" /\ raw' = (Choice = "raw")
           /\ pc' = IF Choice = "refused" THEN "raised" ELSE "open"
  BY <1>1, <1>3, Zenon
<1>4. CASE /\ held' = {} /\ call' = 0 /\ asked' = "failed" /\ raw' = (cfg.forced = "raw")
           /\ pc' = IF cfg.forced = "" THEN "raised" ELSE "open"
  BY <1>1, <1>4, Zenon
<1>5. QED
  BY <1>2, <1>3, <1>4, Zenon DEF AskLayout

LEMMA ReturnTypes ==
    ASSUME TypeOK, Return
    PROVE  /\ task' \in Tasks /\ tiny' \in 0 .. Chunks /\ handle' = "none" /\ warm' = "over" /\ pc' = "finish"
           /\ \A i \in Index : task'[i] = IF i \in Running THEN task[i] ELSE "none"
  BY ChunksAssumption DEF Return, TypeOK, Tasks

LEMMA LifeTypes == ASSUME TypeOK, LifeInv, WarmInv, [Next]_vars PROVE TypeOK'
<1> USE DEF TypeOK
<1>1. CASE UNCHANGED vars
  BY <1>1 DEF vars
<1>2. CASE Choose
  BY <1>2 DEF Choose, warmVars
<1>3. CASE AskLayout
  <2>1. call <= 4
    BY <1>3, AskCases, Zenon DEF LifeInv
  <2>2. QED
    BY <1>3, <2>1, AskCases, Scripts DEF Called
<1>4. CASE OpenCall
  BY <1>4, Scripts DEF OpenCall, warmVars, Called, Script, LifeInv
<1>5. CASE OpenFails
  BY <1>5 DEF OpenFails, warmVars, GaveBack
<1>6. CASE Setup
  BY <1>6, ZenonT(30) DEF Setup
<1>7. CASE CreateProbe
  BY <1>7, ReturnTypes, Zenon DEF CreateProbe, GiveUp, life
<1>8. CASE Connect
  <2>1. CASE GiveUp
    BY <1>8, <2>1, ReturnTypes, Zenon DEF Connect, GiveUp, life
  <2>2. CASE tiny' = tiny + 1 /\ UNCHANGED <<pc, handle, spoiled>>
    <3>1. tiny' \in 0 .. Chunks
      BY <1>8, <2>2, ChunksAssumption DEF Connect, WarmInv
    <3>2. task' \in Tasks /\ warm' \in {"connect", "write"}
      BY <1>8, <2>2 DEF Connect, Tasks, Queued, GiveUp, Return
    <3>3. QED
      BY <1>8, <2>2, <3>1, <3>2 DEF Connect, life
  <2>3. QED
    BY <1>8, <2>1, <2>2, Zenon DEF Connect
<1>9. CASE WritesOver
  BY <1>9, ReturnTypes, Zenon DEF WritesOver, GiveUp, life, Tasks, Queued
<1>10. CASE ReadsOver
  BY <1>10, ReturnTypes, Zenon DEF ReadsOver, GiveUp, life
<1>11. CASE RemoveProbe
  BY <1>11, ReturnTypes, Zenon DEF RemoveProbe, life
<1>12. CASE FinishInit
  BY <1>12, ZenonT(30) DEF FinishInit, warmVars
<1>13. ASSUME NEW i \in Index, TaskStart(i) PROVE TypeOK'
  BY <1>13 DEF TaskStart, life, Tasks
<1>14. ASSUME NEW i \in Index, TaskEnd(i, "ok") \/ TaskEnd(i, "bad") PROVE TypeOK'
  BY <1>14 DEF TaskEnd, life, Tasks
<1>15. CASE Close
  BY <1>15 DEF Close, warmVars
<1>16. QED
  BY <1>1, <1>2, <1>3, <1>4, <1>5, <1>6, <1>7, <1>8, <1>9, <1>10, <1>11, <1>12, <1>13, <1>14, <1>15, Zenon
     DEF Next, Construct, Task

\* The steps of the warm-up leave the life alone, but for its end.
LEMMA WarmLife ==
    ASSUME WarmInv, CreateProbe \/ Connect \/ WritesOver \/ ReadsOver \/ RemoveProbe
    PROVE  UNCHANGED life /\ pc = "warm" /\ pc' \in {"warm", "finish"}
  BY Zenon DEF CreateProbe, Connect, WritesOver, ReadsOver, RemoveProbe, GiveUp, Return, WarmInv

LEMMA TaskLife ==
    ASSUME Task
    PROVE  UNCHANGED <<life, pc, warm, tiny, handle, file, spoiled>>
  BY Zenon DEF Task, TaskStart, TaskEnd

LEMMA LifeStep == ASSUME TypeOK, LifeInv, WarmInv, [Next]_vars PROVE LifeInv'
<1>1. CASE UNCHANGED vars
  BY <1>1, Zenon DEF vars, LifeInv, Backend, Opened
<1>2. CASE Choose
  BY <1>2 DEF Choose, LifeInv, Backend, Opened, TypeOK
<1>3. CASE AskLayout
  <2>1. ~raw /\ ~late /\ cfg.user = "connector" /\ call <= 4
    BY <1>3, AskCases, Zenon DEF LifeInv, TypeOK
  <2>2. CASE call + 1 < Len(LayoutCalls) /\ call' = call + 1 /\ UNCHANGED <<pc, raw, asked>>
    BY <1>3, <2>1, <2>2, AskCases, Scripts DEF LifeInv, TypeOK
  <2>3. CASE /\ held' = {} /\ call' = 0 /\ raw' \in BOOLEAN /\ pc' \in {"raised", "open"}
             /\ raw' => cfg.layout = "other" \/ (asked' = "failed" /\ cfg.forced = "raw")
    BY <1>3, <2>1, <2>3, AskCases DEF LifeInv, TypeOK, Opened
  <2>4. Choice = "raw" => cfg.layout = "other"
    BY Zenon DEF Choice, TypeOK, Configs
  <2>5. QED
    BY <1>3, <2>2, <2>3, <2>4, AskCases, Zenon
<1>4. CASE OpenCall
  <2>1. pc = "open" /\ held = Opened(call) /\ ~late /\ UNCHANGED <<cfg, raw, asked, late>>
    BY <1>4, Zenon DEF OpenCall, LifeInv, TypeOK
  <2>2. call \in 0 .. 5 /\ (call <= IF raw THEN 4 ELSE 2) /\ raw \in BOOLEAN /\ cfg.layout \in {"posix", "other"}
    BY <2>1, Zenon DEF LifeInv, TypeOK, Configs
  <2>3. CASE raw
    <3>1. Script = ObjCalls
      BY <2>3, Zenon DEF Script
    <3>2. held' = held \cup ({ObjCalls[call + 1]} \cap Closable)
      BY <1>4, <3>1, Zenon DEF OpenCall, Called
    <3>3. IF call + 1 = 5 THEN call' = 0 /\ pc' = "setup" ELSE call' = call + 1 /\ UNCHANGED pc
      BY <1>4, <3>1, Scripts, Zenon DEF OpenCall
    <3>4. call + 1 < 5 => held' = Opened(call + 1)
      <4>1. CASE call = 0
        BY <2>1, <2>3, <3>2, <4>1, Scripts, Handles, OpenedSets
      <4>2. CASE call = 1
        BY <2>1, <2>3, <3>2, <4>2, Scripts, Handles, OpenedSets
      <4>3. CASE call = 2
        BY <2>1, <2>3, <3>2, <4>3, Scripts, Handles, OpenedSets
      <4>4. CASE call = 3
        BY <2>1, <2>3, <3>2, <4>4, Scripts, Handles, OpenedSets
      <4>5. QED
        BY <2>2, <4>1, <4>2, <4>3, <4>4
    <3>5. call = 4 => held' = {"pool", "cont", "object"}
      BY <2>1, <2>3, <3>2, Scripts, Handles, OpenedSets
    <3>6. QED
      BY <2>1, <2>2, <2>3, <3>3, <3>4, <3>5 DEF LifeInv, Opened, Backend
  <2>4. CASE ~raw
    <3>1. Script = DfsCalls
      BY <2>4, Zenon DEF Script
    <3>2. held' = held \cup ({DfsCalls[call + 1]} \cap Closable)
      BY <1>4, <3>1, Zenon DEF OpenCall, Called
    <3>3. /\ IF call + 1 = 3 THEN call' = 0 /\ pc' = "setup" ELSE call' = call + 1 /\ UNCHANGED pc
          /\ Refused => call + 1 < 3
      BY <1>4, <3>1, Scripts, Zenon DEF OpenCall
    <3>4. held' = IF call + 1 = 3 THEN {"mount"} ELSE {}
      <4>1. CASE call = 0
        BY <2>1, <2>4, <3>2, <4>1, Scripts, Handles, OpenedSets
      <4>2. CASE call = 1
        BY <2>1, <2>4, <3>2, <4>2, Scripts, Handles, OpenedSets
      <4>3. CASE call = 2
        BY <2>1, <2>4, <3>2, <4>3, Scripts, Handles, OpenedSets
      <4>4. QED
        BY <2>2, <2>4, <4>1, <4>2, <4>3
    <3>5. call + 1 = 3 => cfg.layout = "posix"
      BY <2>2, <2>4, <3>3 DEF Refused
    <3>6. QED
      BY <2>1, <2>2, <2>4, <3>3, <3>4, <3>5 DEF LifeInv, Opened, Backend
  <2>5. QED
    BY <2>3, <2>4, Zenon
<1>5. CASE OpenFails
  BY <1>5, Zenon DEF OpenFails, GaveBack, LifeInv, TypeOK
<1>6. CASE Setup
  BY <1>6 DEF Setup, LifeInv, Backend, TypeOK
<1>7. CASE CreateProbe \/ Connect \/ WritesOver \/ ReadsOver \/ RemoveProbe
  BY <1>7, WarmLife DEF life, LifeInv, Backend
<1>8. CASE FinishInit
  BY <1>8 DEF FinishInit, LifeInv, Backend, TypeOK
<1>9. CASE Task
  BY <1>9, TaskLife DEF life, LifeInv, Backend, Opened
<1>10. CASE Close
  BY <1>10, Zenon DEF Close, LifeInv, TypeOK
<1>11. QED
  BY <1>1, <1>2, <1>3, <1>4, <1>5, <1>6, <1>7, <1>8, <1>9, <1>10, Zenon DEF Next, Construct

LEMMA WarmStep == ASSUME TypeOK, LifeInv, WarmInv, [Next]_vars PROVE WarmInv'
<1>1. CASE UNCHANGED vars
  BY <1>1, Zenon DEF vars, WarmInv
<1>2. CASE Choose
  BY <1>2, Zenon DEF Choose, warmVars, WarmInv
<1>3. CASE AskLayout
  BY <1>3, AskCases DEF WarmInv
<1>4. CASE OpenCall
  BY <1>4, Zenon DEF OpenCall, warmVars, WarmInv
<1>5. CASE OpenFails
  BY <1>5, Zenon DEF OpenFails, warmVars, WarmInv
<1>6. CASE Setup
  BY <1>6, Zenon DEF Setup, WarmInv
<1>7. CASE CreateProbe
  BY <1>7, ChunksAssumption DEF CreateProbe, GiveUp, Return, life, WarmInv
<1>8. CASE Connect
  BY <1>8, ChunksAssumption DEF Connect, GiveUp, Return, life, WarmInv, TypeOK
<1>9. CASE WritesOver
  BY <1>9, Zenon DEF WritesOver, GiveUp, Return, life, WarmInv
<1>10. CASE ReadsOver
  BY <1>10, Zenon DEF ReadsOver, GiveUp, Return, life, WarmInv
<1>11. CASE RemoveProbe
  BY <1>11, Zenon DEF RemoveProbe, Return, life, WarmInv
<1>12. CASE FinishInit
  BY <1>12, Zenon DEF FinishInit, warmVars, WarmInv
<1>13. CASE Task
  BY <1>13, TaskLife DEF life, WarmInv
<1>14. CASE Close
  BY <1>14, Zenon DEF Close, warmVars, WarmInv
<1>15. QED
  BY <1>1, <1>2, <1>3, <1>4, <1>5, <1>6, <1>7, <1>8, <1>9, <1>10, <1>11, <1>12, <1>13, <1>14, Zenon
     DEF Next, Construct

LEMMA TaskStep == ASSUME TypeOK, LifeInv, WarmInv, TaskInv, [Next]_vars PROVE TaskInv'
<1>1. CASE UNCHANGED <<cfg, warm, task, spoiled>> /\ (pc' = "closed" => pc = "closed")
  BY <1>1, Zenon DEF TaskInv, In, Running
<1>2. ASSUME Return, spoiled', UNCHANGED cfg PROVE TaskInv'
  BY <1>2, ReturnTypes, Zenon DEF TaskInv, In, Running
<1>3. CASE Setup
  <2>1. In("queued") = {} /\ In("writing") = {} /\ In("reading") = {}
    BY <1>3, Zenon DEF Setup, TaskInv, WarmInv
  <2>2. QED
    BY <1>3, <2>1, Zenon DEF Setup, TaskInv, In, Running
<1>4. CASE CreateProbe
  <2>1. In("queued") = {} /\ In("writing") = {} /\ In("reading") = {}
    BY <1>4, Zenon DEF CreateProbe, TaskInv
  <2>2. QED
    BY <1>2, <1>4, <2>1, Zenon DEF CreateProbe, GiveUp, life, TaskInv, In, Running
<1>5. CASE Connect
  <2>1. In("queued") = {} /\ In("writing") = {} /\ In("reading") = {}
    BY <1>5, Zenon DEF Connect, TaskInv
  <2>2. QED
    BY <1>2, <1>5, <2>1, Zenon DEF Connect, GiveUp, life, TaskInv, In, Running, Queued, WarmInv
<1>6. CASE WritesOver
  BY <1>2, <1>6, Zenon DEF WritesOver, GiveUp, life, TaskInv, In, Running, Queued, WarmInv
<1>7. CASE ReadsOver
  <2>1. CASE GiveUp
    BY <1>2, <1>7, <2>1, Zenon DEF ReadsOver, GiveUp, life
  <2>2. CASE Drained /\ UNCHANGED <<pc, task>> /\ warm' = "remove"
    BY <1>7, <2>2, Zenon DEF ReadsOver, Drained, life, TaskInv, In, Running, WarmInv
  <2>3. QED
    BY <1>7, <2>1, <2>2, Zenon DEF ReadsOver
<1>8. CASE RemoveProbe
  <2>1. In("queued") = {} /\ In("writing") = {} /\ In("reading") = {}
    BY <1>8, Zenon DEF RemoveProbe, TaskInv
  <2>2. QED
    BY <1>8, <2>1, ReturnTypes, Zenon DEF RemoveProbe, life, TaskInv, In, Running
<1>9. ASSUME NEW i \in Index, TaskStart(i) PROVE TaskInv'
  <2>1. warm \in {"write", "read"} /\ pc = "warm"
    BY <1>9, Zenon DEF TaskStart, TaskInv, WarmInv, In
  <2>2. UNCHANGED <<cfg, pc, warm, spoiled>>
    BY <1>9, Zenon DEF TaskStart, life
  <2>3. \A j \in Index : task'[j] = IF j # i THEN task[j] ELSE IF warm = "write" THEN "writing" ELSE "reading"
    BY <1>9, Zenon DEF TaskStart, TypeOK, Tasks
  <2>4. In("writing") # {} => warm = "write"
    BY <2>1, Zenon DEF TaskInv
  <2>5. In("reading") # {} => warm = "read"
    BY <2>1, Zenon DEF TaskInv
  <2>6. In("writing")' # {} => warm = "write"
    BY <2>1, <2>3, <2>4, Zenon DEF In
  <2>7. In("reading")' # {} => warm = "read"
    BY <2>1, <2>3, <2>5, Zenon DEF In
  <2>8. QED
    BY <2>1, <2>2, <2>6, <2>7, Zenon DEF TaskInv
<1>10. ASSUME NEW i \in Index, TaskEnd(i, "ok") \/ TaskEnd(i, "bad") PROVE TaskInv'
  <2>1. UNCHANGED <<cfg, pc, warm, spoiled>>
    BY <1>10, Zenon DEF TaskEnd, life
  <2>2. \A j \in Index : task'[j] = task[j] \/ task'[j] \in {"none", "ok", "bad"}
    BY <1>10, Zenon DEF TaskEnd, TypeOK, Tasks
  <2>3. In("queued")' \subseteq In("queued")
    BY <2>2, Zenon DEF In
  <2>4. In("writing")' \subseteq In("writing")
    BY <2>2, Zenon DEF In
  <2>5. In("reading")' \subseteq In("reading")
    BY <2>2, Zenon DEF In
  <2>6. QED
    BY <2>1, <2>3, <2>4, <2>5, Zenon DEF TaskInv, Running
<1>11. CASE Close
  BY <1>11, Zenon DEF Close, warmVars, TaskInv, In, Running, Idle
<1>12. QED
  <2>1. CASE UNCHANGED vars \/ Choose \/ OpenCall \/ OpenFails \/ FinishInit
    BY <1>1, <2>1, Zenon DEF vars, Choose, OpenCall, OpenFails, FinishInit, warmVars
  <2>2. CASE AskLayout
    BY <1>1, <2>2, AskCases, Zenon
  <2>3. QED
    BY <2>1, <2>2, <1>3, <1>4, <1>5, <1>6, <1>7, <1>8, <1>9, <1>10, <1>11, Zenon DEF Next, Construct, Task

LEMMA LifeInit == ASSUME Init PROVE TypeOK /\ LifeInv /\ WarmInv /\ TaskInv
<1> USE DEF Init
<1>1. TypeOK
  <2>1. task \in Tasks
    BY Zenon DEF None, Tasks
  <2>2. tiny \in 0 .. Chunks
    BY ChunksAssumption
  <2>3. pc \in {"choose", "open"} /\ call \in 0 .. 5 /\ held \subseteq Closable
    OBVIOUS
  <2>4. raw \in BOOLEAN /\ late \in BOOLEAN /\ file \in BOOLEAN /\ spoiled \in BOOLEAN
    BY Zenon
  <2>5. QED
    BY <2>1, <2>2, <2>3, <2>4, Zenon DEF TypeOK
<1>2. LifeInv
  BY DEF LifeInv, Opened
<1>3. WarmInv
  BY Zenon DEF WarmInv
<1>4. In("queued") = {} /\ In("writing") = {} /\ In("reading") = {}
  BY Zenon DEF In, None
<1>5. QED
  BY <1>1, <1>2, <1>3, <1>4, Zenon DEF TaskInv, Running

\* A step of the client is a step of its life, or leaves that alone.
LEMMA ClientStep == ASSUME [ClientNext]_allVars PROVE [Next]_vars
  BY Zenon DEF ClientNext, allVars, Starting, Ping, Stream, Verify, CloseClient, Pings, Streams, Verifies, Next

\* A client is where its constructor says, whatever fails: the types and the three
\* invariants of its life hold for any probe file and pool.
THEOREM LifeHolds == ClientSpec => [](TypeOK /\ LifeInv /\ WarmInv /\ TaskInv)
<1>1. ClientInit => TypeOK /\ LifeInv /\ WarmInv /\ TaskInv
  BY LifeInit, Zenon DEF ClientInit
<1>2. TypeOK /\ LifeInv /\ WarmInv /\ TaskInv /\ [ClientNext]_allVars
        => (TypeOK /\ LifeInv /\ WarmInv /\ TaskInv)'
  BY ClientStep, LifeTypes, LifeStep, WarmStep, TaskStep, Zenon
<1>3. QED
  BY <1>1, <1>2, PTL DEF ClientSpec

\* A client that is up holds the handles its container calls for, one that raised or
\* closed holds none unless it raised late, and the warm-up leaves no handle.
THEOREM HandlesRight == ClientSpec => []RightHandles
<1>1. TypeOK /\ LifeInv /\ WarmInv => RightHandles
  <2> SUFFICES ASSUME TypeOK, LifeInv, WarmInv PROVE RightHandles
    BY Zenon
  <2>1. pc = "up" => held = Backend
    BY Zenon DEF LifeInv
  <2>2. pc = "up" /\ raw => cfg.layout = "other" \/ (asked = "failed" /\ cfg.forced = "raw")
    BY Zenon DEF LifeInv
  <2>3. pc = "up" /\ ~raw => cfg.layout # "other"
    BY Zenon DEF LifeInv
  <2>4. pc = "up" => raw = (cfg.layout = "other") \/ (asked = "failed" /\ cfg.forced = "raw")
    BY <2>2, <2>3, Zenon DEF TypeOK
  <2>5. pc \in {"raised", "closed"} => held = IF late /\ pc = "raised" THEN Backend ELSE {}
    BY Zenon DEF LifeInv
  <2>6. warm \in {"no", "over"} => handle # "open" /\ (file => spoiled)
    BY Zenon DEF WarmInv
  <2>7. QED
    BY <2>1, <2>4, <2>5, <2>6, Zenon DEF RightHandles
<1>2. QED
  BY <1>1, LifeHolds, PTL

\* A chunk write has its file handle and a call of the warm-up the mount, unless a
\* chunk has failed.
THEOREM ProbeHandleKept == ClientSpec => []ProbeHandle
<1>1. TypeOK /\ LifeInv /\ WarmInv /\ TaskInv => ProbeHandle
  BY Zenon DEF TypeOK, LifeInv, WarmInv, TaskInv, ProbeHandle, Running, Backend
<1>2. QED
  BY <1>1, LifeHolds, PTL
-----------------------------------------------------------------------------
(* verify_abi of a tool.                                                   *)

\* libdaos has all of the event written once the read has landed, and while it has
\* the read, the probe is between submit and the end of its finally blocks.
AbiInv ==
    /\ read \in {"good", "short", "failed"} => touched = real
    /\ abi \in {"queue", "event", "canary", "open", "submit"} => read = "none"
    /\ abi \in {"event", "canary", "open", "submit", "poll"} => eq
    /\ abi \in {"canary", "open", "submit", "poll"} => event = "ready"
    /\ abi \in {"submit", "poll"} => obj = "open"
    /\ abi \in {"poll", "judge"} => read \in {"flying", "good", "short", "failed"}
    /\ abi = "judge" => read # "flying"
    /\ read = "flying" => /\ abi \in {"poll", "close", "fini"} /\ eq /\ event = "ready"
                          /\ abi # "poll" => gaveup
                          /\ duty = "abi" /\ pc = "up"
    /\ duty = "abi" => cfg.user = "tool"

LEMMA AbiInit == ASSUME ClientInit PROVE AbiInv /\ AbiProved
<1>1. A!Init /\ (duty = "abi" => cfg.user = "tool")
  BY Zenon DEF ClientInit, Init, Configs, Users
<1>2. QED
  BY <1>1, Zenon DEF A!Init, AbiInv, AbiProved, A!AbiProved

\* The client's other steps leave the probe alone, and a client whose probe has a
\* read in flight up.
LEMMA AbiStays ==
    ASSUME TypeOK, WarmInv, AbiInv, [ClientNext]_allVars, ~Verify
    PROVE  /\ UNCHANGED <<abiVars, duty, cfg>>
           /\ read = "flying" => pc' = pc
<1>1. UNCHANGED abiVars
  BY Zenon DEF ClientNext, allVars, Starting, Ping, Stream, CloseClient, Pings, Streams
<1>2. UNCHANGED <<duty, cfg>>
  <2>1. ASSUME Construct PROVE cfg' = cfg
    BY <2>1, WarmLife, AskCases, Zenon DEF Construct, Choose, OpenCall, OpenFails, Setup, FinishInit, life
  <2>2. QED
    BY <2>1, TaskLife, Zenon DEF ClientNext, allVars, vars, Starting, Ping, Stream, CloseClient, Pings, Streams, Close, life
<1>3. ASSUME read = "flying" PROVE pc' = pc
  <2>1. pc = "up" /\ duty = "abi" /\ abi # "over"
    BY <1>3, Zenon DEF AbiInv
  <2>2. ~Construct \/ pc' = pc
    BY <2>1, WarmLife, AskCases, Zenon DEF Construct, Choose, OpenCall, OpenFails, Setup, FinishInit
  <2>3. QED
    BY <2>1, <2>2, TaskLife, Zenon DEF ClientNext, allVars, vars, Starting, Ping, Stream, CloseClient, Pings, Streams
<1>4. QED
  BY <1>1, <1>2, <1>3, Zenon

LEMMA AbiStep == ASSUME TypeOK, WarmInv, A!TypeOK, AbiInv, [ClientNext]_allVars PROVE AbiInv'
<1>1. CASE ~Verify
  BY <1>1, AbiStays, Zenon DEF AbiInv, abiVars
<1>2. CASE Verify
  <2>1. duty = "abi" /\ pc = "up" /\ UNCHANGED <<duty, cfg, pc>> /\ A!Next
    BY <1>2, Zenon DEF Verify, Verifies, vars
  <2>2. CASE A!CreateQueue
    BY <2>1, <2>2, Zenon DEF AbiInv, A!CreateQueue, A!TypeOK
  <2>3. CASE A!NewEvent
    BY <2>1, <2>3, Zenon DEF AbiInv, A!NewEvent, A!TypeOK
  <2>4. CASE A!AfterInit
    BY <2>1, <2>4, Zenon DEF AbiInv, A!AfterInit, A!TypeOK
  <2>5. CASE A!OpenObj
    BY <2>1, <2>5, Zenon DEF AbiInv, A!OpenObj, A!TypeOK
  <2>6. CASE A!submit
    BY <2>1, <2>6, Zenon DEF AbiInv, A!submit, A!AfterSubmit, A!TypeOK
  <2>7. CASE A!poll
    BY <2>1, <2>7, Zenon DEF AbiInv, A!poll, A!TypeOK
  <2>8. CASE A!Judge
    BY <2>1, <2>8, Zenon DEF AbiInv, A!Judge, A!TypeOK
  <2>9. CASE A!CloseObj
    BY <2>1, <2>9, Zenon DEF AbiInv, A!CloseObj, A!TypeOK
  <2>10. CASE A!FiniEvent
    BY <2>1, <2>10, Zenon DEF AbiInv, A!FiniEvent, A!TypeOK
  <2>11. CASE A!Land
    BY <2>1, <2>11, Zenon DEF AbiInv, A!Land, A!TypeOK
  <2>12. QED
    BY <2>1, <2>2, <2>3, <2>4, <2>5, <2>6, <2>7, <2>8, <2>9, <2>10, <2>11, Zenon DEF A!Next, A!verify_abi
<1>3. QED
  BY <1>1, <1>2, Zenon

LEMMA AbiTypes == ASSUME A!TypeOK, [A!Next]_A!vars PROVE A!TypeOK'
<1> USE DEF A!TypeOK
<1>1. CASE UNCHANGED A!vars
  BY <1>1 DEF A!vars
<1>2. CASE A!CreateQueue
  BY <1>2, ZenonT(30) DEF A!CreateQueue
<1>3. CASE A!NewEvent
  BY <1>3 DEF A!NewEvent
<1>4. CASE A!AfterInit
  BY <1>4 DEF A!AfterInit
<1>5. CASE A!OpenObj
  BY <1>5 DEF A!OpenObj
<1>6. CASE A!submit
  BY <1>6, Zenon DEF A!submit, A!AfterSubmit
<1>7. CASE A!poll
  <2>1. polls' \in 0 .. Polls
    BY <1>7, AbiAssumption DEF A!poll
  <2>2. /\ abi' \in {"poll", "judge", "close"} /\ result' \in {"none", "proved", "abi", "error"}
        /\ gaveup' \in BOOLEAN /\ UNCHANGED <<real, shim, touched, eq, event, obj, read>>
    BY <1>7, Zenon DEF A!poll
  <2>3. QED
    BY <2>1, <2>2
<1>8. CASE A!Judge
  BY <1>8 DEF A!Judge, A!Verdict
<1>9. CASE A!CloseObj
  BY <1>9 DEF A!CloseObj
<1>10. CASE A!FiniEvent
  BY <1>10, Zenon DEF A!FiniEvent
<1>11. CASE A!Land
  BY <1>11 DEF A!Land
<1>12. QED
  BY <1>1, <1>2, <1>3, <1>4, <1>5, <1>6, <1>7, <1>8, <1>9, <1>10, <1>11, Zenon DEF A!Next, A!verify_abi

LEMMA AbiTypesStep == ASSUME TypeOK, WarmInv, AbiInv, A!TypeOK, [ClientNext]_allVars PROVE A!TypeOK'
<1>1. CASE ~Verify
  BY <1>1, AbiStays, AbiTypes, Zenon DEF abiVars, A!vars
<1>2. CASE Verify
  BY <1>2, AbiTypes, Zenon DEF Verify, Verifies
<1>3. QED
  BY <1>1, <1>2, Zenon

\* The probe's verdict is given where libdaos has written all of the event.
LEMMA AbiVerdict ==
    ASSUME TypeOK, WarmInv, AbiInv, A!TypeOK, AbiProved, [ClientNext]_allVars PROVE AbiProved'
<1> USE DEF AbiProved, A!AbiProved, A!EVENT_SIZE
<1>1. CASE ~Verify
  BY <1>1, AbiStays, Zenon DEF abiVars
<1>2. CASE Verify
  <2>1. A!Next
    BY <1>2, Zenon DEF Verify, Verifies
  <2>2. CASE A!Judge
    BY <2>2, Zenon DEF A!Judge, A!Verdict, A!canary_ok, AbiInv
  <2>3. CASE A!Land \/ A!CloseObj \/ A!FiniEvent
    BY <2>3, Zenon DEF A!Land, A!CloseObj, A!FiniEvent
  <2>4. CASE A!CreateQueue \/ A!NewEvent \/ A!AfterInit
    BY <2>4, Zenon DEF A!CreateQueue, A!NewEvent, A!AfterInit
  <2>5. CASE A!OpenObj \/ A!submit \/ A!poll
    BY <2>5, Zenon DEF A!OpenObj, A!submit, A!poll
  <2>6. QED
    BY <2>1, <2>2, <2>3, <2>4, <2>5, Zenon DEF A!Next, A!verify_abi
<1>3. QED
  BY <1>1, <1>2, Zenon

LEMMA AbiHolds == ClientSpec => [](A!TypeOK /\ AbiInv /\ AbiProved)
<1>1. ClientInit => A!TypeOK
  <2>1. ClientInit => A!Init
    BY Zenon DEF ClientInit
  <2>2. A!Init => A!TypeOK
    <3>1. A!Init => polls \in 0 .. Polls
      BY AbiAssumption DEF A!Init
    <3>2. QED
      BY <3>1, Zenon DEF A!Init, A!TypeOK
  <2>3. QED
    BY <2>1, <2>2, Zenon
<1>2. TypeOK /\ WarmInv /\ A!TypeOK /\ AbiInv /\ AbiProved /\ [ClientNext]_allVars
        => (A!TypeOK /\ AbiInv /\ AbiProved)'
  BY AbiStep, AbiTypesStep, AbiVerdict, Zenon
<1>3. QED
  BY <1>1, <1>2, AbiInit, LifeHolds, PTL DEF ClientSpec

\* verify_abi returns only where the event fits its allocation, for all sizes of
\* builds, whatever the shim says and however little daos_event_init writes.
THEOREM AbiIsProved == ClientSpec => []AbiProved
  BY AbiHolds, PTL

\* While libdaos has the probe's read, the mount and the queue are open, the event is
\* in place, and the file is open unless the probe stopped waiting.
THEOREM LifetimeIsKept == ClientSpec => []LifetimeKept
<1>1. TypeOK /\ LifeInv /\ A!TypeOK /\ AbiInv => LifetimeKept
  BY Zenon DEF LifeInv, AbiInv, Backend, LifetimeKept, A!LifetimeKept
<1>2. QED
  BY <1>1, LifeHolds, AbiHolds, PTL
-----------------------------------------------------------------------------
(* ping().                                                                 *)

\* While pings take turns, the flag is set whenever the executor holds a probe, and
\* the one caller that waits has no result while its probe is there.
PingInv ==
    ~overlap =>
      /\ probes \in Seq(Callers)
      /\ Len(probes) + (IF probing = "none" THEN 0 ELSE 1) <= 1
      /\ Len(probes) # 0 \/ probing # "none" => flag
      /\ \A p, q \in Callers : inPing[p] = "await" /\ inPing[q] = "await" => p = q
      /\ \A p \in Callers : inPing[p] = "await" /\ answered[p] # "none" => Len(probes) = 0 /\ probing = "none"

LEMMA PingInit == ASSUME P!Init PROVE PingInv
  BY DEF P!Init, PingInv, P!None

\* A ping() that begins while none is in progress does not overlap one.
LEMMA TakesTurns ==
    ASSUME NEW p \in Callers, P!PingStart(p), ~overlap'
    PROVE  ~overlap /\ \A q \in Callers : inPing[q] # "await"
  BY Zenon DEF P!PingStart

\* What the steps of ping() keep, whoever takes them.
LEMMA PingStep ==
    ASSUME P!TypeOK, PingInv, (\E p \in Callers : P!Caller(p)) \/ P!Environment PROVE PingInv'
<1> SUFFICES ASSUME ~overlap' PROVE PingInv'
  BY Zenon DEF PingInv
<1> USE DEF P!None
<1>1. ASSUME NEW p \in Callers, P!PingRefused(p) \/ P!PingClosed(p) PROVE PingInv'
  BY <1>1, Zenon DEF P!PingRefused, P!PingClosed, PingInv
<1>2. ASSUME NEW p \in Callers, P!PingStart(p) PROVE PingInv'
  <2>1. ~overlap /\ \A q \in Callers : inPing[q] # "await"
    BY <1>2, TakesTurns, Zenon
  <2>2. Len(probes) = 0 /\ probing = "none" /\ probes \in Seq(Callers)
    BY <1>2, <2>1, Zenon DEF P!PingStart, PingInv
  <2>3. Len(probes') = 1 /\ probing' = "none" /\ flag' /\ probes' \in Seq(Callers)
    BY <1>2, <2>2 DEF P!PingStart
  <2>4. \A q \in Callers : inPing'[q] = "await" => q = p
    BY <1>2, <2>1, Zenon DEF P!PingStart, P!TypeOK
  <2>5. answered'[p] = "none"
    BY <1>2, Zenon DEF P!PingStart, P!TypeOK
  <2>6. Len(probes') + (IF probing' = "none" THEN 0 ELSE 1) <= 1
    BY <2>3
  <2>7. QED
    BY <2>3, <2>4, <2>5, <2>6, Zenon DEF PingInv
<1>3. ASSUME NEW p \in Callers, P!PingTimeout(p) PROVE PingInv'
  <2>1. ~overlap /\ Len(probes) = 0 /\ probes \in Seq(Callers)
    BY <1>3 DEF P!PingTimeout, PingInv
  <2>2. probes' = probes
    BY <1>3, <2>1 DEF P!PingTimeout, P!Cancelled
  <2>3. \A q \in Callers : inPing'[q] = "await" => inPing[q] = "await"
    BY <1>3, Zenon DEF P!PingTimeout, P!TypeOK
  <2>4. UNCHANGED <<flag, probing, answered, overlap>>
    BY <1>3, Zenon DEF P!PingTimeout
  <2>5. QED
    BY <2>1, <2>2, <2>3, <2>4, Zenon DEF PingInv
<1>4. ASSUME NEW p \in Callers, P!PingWake(p) PROVE PingInv'
  <2>1. ~overlap /\ Len(probes) = 0 /\ probing = "none" /\ probes \in Seq(Callers)
    BY <1>4, Zenon DEF P!PingWake, PingInv
  <2>2. \A q \in Callers : inPing'[q] = "await" => inPing[q] = "await"
    BY <1>4, Zenon DEF P!PingWake, P!TypeOK
  <2>3. UNCHANGED <<probes, probing, answered, overlap>>
    BY <1>4, Zenon DEF P!PingWake
  <2>4. QED
    BY <2>1, <2>2, <2>3, Zenon DEF PingInv
<1>5. CASE P!ProbeStart
  BY <1>5 DEF P!ProbeStart, PingInv
<1>6. CASE P!ProbeOk \/ P!ProbeError
  <2>1. ~overlap /\ Len(probes) = 0 /\ probes \in Seq(Callers)
    BY <1>6 DEF P!ProbeOk, P!ProbeError, P!ProbeEnd, PingInv
  <2>2. probing' = "none" /\ UNCHANGED <<probes, inPing, overlap>>
    BY <1>6, Zenon DEF P!ProbeOk, P!ProbeError, P!ProbeEnd
  <2>3. QED
    BY <2>1, <2>2 DEF PingInv
<1>7. CASE P!Server \/ P!Wedge
  BY <1>7, Zenon DEF P!Server, P!Wedge, PingInv
<1>8. QED
  BY <1>1, <1>2, <1>3, <1>4, <1>5, <1>6, <1>7, Zenon DEF P!Caller, P!Environment

LEMMA CancelledTypes ==
    ASSUME probes \in Seq(Callers), NEW p \in Callers PROVE P!Cancelled(p) \in Seq(Callers)
<1>1. CASE \E i \in DOMAIN probes : probes[i] = p
  <2> DEFINE i == CHOOSE i \in DOMAIN probes : probes[i] = p
  <2>1. i \in 1 .. Len(probes)
    BY <1>1
  <2> HIDE DEF i
  <2>2. SubSeq(probes, 1, i - 1) \o SubSeq(probes, i + 1, Len(probes)) \in Seq(Callers)
    BY <2>1
  <2>3. QED
    BY <1>1, <2>2, Zenon DEF P!Cancelled, i
<1>2. QED
  BY <1>1, Zenon DEF P!Cancelled

LEMMA PingTypes ==
    ASSUME P!TypeOK, (\E p \in Callers : P!Caller(p)) \/ P!Environment PROVE P!TypeOK'
<1> USE DEF P!TypeOK
<1>1. ASSUME NEW p \in Callers, P!PingRefused(p) \/ P!PingClosed(p) PROVE P!TypeOK'
  BY <1>1, Zenon DEF P!PingRefused, P!PingClosed, P!Answers
<1>2. ASSUME NEW p \in Callers, P!PingStart(p) PROVE P!TypeOK'
  <2>1. overlap' \in BOOLEAN
    BY <1>2, Zenon DEF P!PingStart
  <2>2. /\ UNCHANGED <<up, wedged, probing>> /\ flag' = TRUE /\ probes' = Append(probes, p)
        /\ answered' = [answered EXCEPT ![p] = "none"] /\ inPing' = [inPing EXCEPT ![p] = "await"]
        /\ answer' = [answer EXCEPT ![p] = "none"]
    BY <1>2, Zenon DEF P!PingStart
  <2>3. QED
    BY <2>1, <2>2 DEF P!Answers
<1>3. ASSUME NEW p \in Callers, P!PingTimeout(p) PROVE P!TypeOK'
  BY <1>3, CancelledTypes, Zenon DEF P!PingTimeout, P!Answers
<1>4. ASSUME NEW p \in Callers, P!PingWake(p) PROVE P!TypeOK'
  BY <1>4, Zenon DEF P!PingWake, P!Answers
<1>5. CASE P!ProbeStart
  BY <1>5 DEF P!ProbeStart
<1>6. CASE P!ProbeOk \/ P!ProbeError
  BY <1>6, Zenon DEF P!ProbeOk, P!ProbeError, P!ProbeEnd, P!Clear, P!None
<1>7. CASE P!Server \/ P!Wedge
  BY <1>7, Zenon DEF P!Server, P!Wedge
<1>8. QED
  BY <1>1, <1>2, <1>3, <1>4, <1>5, <1>6, <1>7, Zenon DEF P!Caller, P!Environment

LEMMA PingHolds == ClientSpec => [](P!TypeOK /\ PingInv)
<1>1. ClientInit => P!TypeOK /\ PingInv
  <2>1. ClientInit => P!Init
    BY Zenon DEF ClientInit
  <2>2. ASSUME P!Init PROVE P!TypeOK
    <3>1. /\ answered \in [Callers -> {"none", "ok", "error"}] /\ inPing \in [Callers -> {"idle", "await"}]
          /\ answer \in [Callers -> P!Answers]
      BY <2>2, Zenon DEF P!Init, P!Answers
    <3>2. up \in BOOLEAN /\ wedged \in BOOLEAN /\ flag \in BOOLEAN /\ overlap \in BOOLEAN
      BY <2>2, Zenon DEF P!Init
    <3>3. probes \in Seq(Callers) /\ probing \in Callers \cup {P!None}
      BY <2>2 DEF P!Init
    <3>4. QED
      BY <3>1, <3>2, <3>3, Zenon DEF P!TypeOK
  <2>3. QED
    BY <2>1, <2>2, PingInit, Zenon
<1>2. P!TypeOK /\ PingInv /\ [ClientNext]_allVars => (P!TypeOK /\ PingInv)'
  <2> SUFFICES ASSUME P!TypeOK, PingInv, [ClientNext]_allVars PROVE (P!TypeOK /\ PingInv)'
    BY Zenon
  <2>1. CASE Ping
    BY <2>1, PingStep, PingTypes, Zenon DEF Ping, Pings
  <2>2. CASE ~Ping
    <3>1. UNCHANGED pingVars
      BY <2>2, Zenon DEF ClientNext, allVars, Starting, Stream, Streams, Verify, Verifies, CloseClient
    <3>2. QED
      BY <3>1, Zenon DEF pingVars, P!TypeOK, PingInv
  <2>3. QED
    BY <2>1, <2>2, Zenon
<1>3. QED
  BY <1>1, <1>2, PTL DEF ClientSpec

\* A second probe does not queue behind one that is still out while pings take turns,
\* for any number of callers, with close() at any time.
THEOREM OneProbeHolds == ClientSpec => []OneProbe
<1>1. PingInv => OneProbe
  BY Zenon DEF PingInv, OneProbe, P!OneProbe, P!None
<1>2. QED
  BY <1>1, PingHolds, PTL

\* A flag that is set has a probe to clear it: one the thread is in, or one it will take.
FlagInv == flag => probing # "none" \/ probes # <<>>

\* A caller that waits without a result has a probe with the executor.
WaiterInv == \A p \in Callers : inPing[p] = "await" /\ answered[p] = "none" => P!Outstanding(p)

LEMMA Joined ==
    ASSUME NEW T, NEW q \in Seq(T), NEW r \in Seq(T)
    PROVE  /\ DOMAIN (q \o r) = 1 .. Len(q) + Len(r)
           /\ \A i \in 1 .. Len(q) : (q \o r)[i] = q[i]
           /\ \A i \in 1 .. Len(q) + Len(r) : i > Len(q) => (q \o r)[i] = r[i - Len(q)]
  OBVIOUS

\* The probe of a caller that timed out is the only one its cancellation removes.
LEMMA CancelsOwn ==
    ASSUME probes \in Seq(Callers), NEW p \in Callers, NEW q \in Callers, q # p,
           NEW n \in DOMAIN probes, probes[n] = q
    PROVE  \E m \in DOMAIN P!Cancelled(p) : P!Cancelled(p)[m] = q
<1>1. CASE \E i \in DOMAIN probes : probes[i] = p
  <2> DEFINE i == CHOOSE i \in DOMAIN probes : probes[i] = p
  <2>1. i \in DOMAIN probes /\ probes[i] = p
    BY <1>1, Zenon
  <2>2. P!Cancelled(p) = SubSeq(probes, 1, i - 1) \o SubSeq(probes, i + 1, Len(probes))
    BY <1>1, Zenon DEF P!Cancelled
  <2> HIDE DEF i
  <2> DEFINE u == SubSeq(probes, 1, i - 1)
  <2> DEFINE v == SubSeq(probes, i + 1, Len(probes))
  <2>3. i \in 1 .. Len(probes) /\ n \in 1 .. Len(probes) /\ Len(probes) \in Nat /\ n # i
    BY <2>1
  <2>4. u \in Seq(Callers) /\ Len(u) = i - 1 /\ \A k \in 1 .. i - 1 : u[k] = probes[k]
    BY <2>3
  <2>5. v \in Seq(Callers) /\ Len(v) = Len(probes) - i /\ \A k \in 1 .. Len(probes) - i : v[k] = probes[k + i]
    BY <2>3
  <2> HIDE DEF u, v
  <2>6. DOMAIN (u \o v) = 1 .. Len(u) + Len(v)
    BY <2>4, <2>5, Joined, Zenon
  <2>7. CASE n < i
    <3>1. n \in DOMAIN (u \o v) /\ n \in 1 .. i - 1
      BY <2>3, <2>4, <2>5, <2>6, <2>7
    <3>2. (u \o v)[n] = u[n]
      BY <2>4, <2>5, <3>1
    <3>3. QED
      BY <2>2, <2>4, <3>1, <3>2, Zenon DEF u, v
  <2>8. CASE n > i
    <3>1. n - 1 \in DOMAIN (u \o v) /\ n - i \in 1 .. Len(probes) - i /\ (n - i) + i = n
      BY <2>3, <2>4, <2>5, <2>6, <2>8
    <3>2. (u \o v)[n - 1] = v[n - i]
      <4>1. \A k \in 1 .. Len(u) + Len(v) : k > Len(u) => (u \o v)[k] = v[k - Len(u)]
        BY <2>4, <2>5, Joined
      <4>2. n - 1 \in 1 .. Len(u) + Len(v) /\ n - 1 > Len(u) /\ (n - 1) - Len(u) = n - i
        BY <2>3, <2>4, <2>5, <2>8
      <4>3. QED
        BY <4>1, <4>2, Zenon
    <3>3. v[n - i] = probes[n]
      BY <2>5, <3>1, Zenon
    <3>4. QED
      BY <2>2, <3>1, <3>2, <3>3, Zenon DEF u, v
  <2>9. n < i \/ n > i
    BY <2>3
  <2>10. QED
    BY <2>7, <2>8, <2>9, Zenon
<1>2. QED
  BY <1>1, Zenon DEF P!Cancelled

\* What is with the executor stays there over a submission and over the thread's
\* taking the oldest.
LEMMA ProbesMove ==
    ASSUME probes \in Seq(Callers), NEW p \in Callers, P!Outstanding(p),
           \/ probing' = probing /\ \E q \in Callers : probes' = Append(probes, q)
           \/ P!ProbeStart
    PROVE  P!Outstanding(p)'
<1>1. CASE probing' = probing /\ \E q \in Callers : probes' = Append(probes, q)
  <2>1. PICK q \in Callers : probes' = Append(probes, q)
    BY <1>1, Zenon
  <2>2. \A i \in DOMAIN probes : i \in DOMAIN probes' /\ probes'[i] = probes[i]
    BY <2>1
  <2>3. QED
    BY <1>1, <2>2, Zenon DEF P!Outstanding
<1>2. CASE P!ProbeStart
  <2>1. probing = "none" /\ probes # <<>> /\ probing' = Head(probes) /\ probes' = Tail(probes)
    BY <1>2, Zenon DEF P!ProbeStart, P!None
  <2>2. probing # p
    BY <2>1, CallersAssumption, Zenon
  <2>3. PICK i \in DOMAIN probes : probes[i] = p
    BY <2>2, Zenon DEF P!Outstanding
  <2>4. CASE i = 1
    BY <2>1, <2>3, <2>4 DEF P!Outstanding
  <2>5. CASE i # 1
    <3>1. i - 1 \in DOMAIN probes' /\ probes'[i - 1] = probes[i]
      BY <2>1, <2>5
    <3>2. QED
      BY <2>3, <3>1, Zenon DEF P!Outstanding
  <2>6. QED
    BY <2>4, <2>5, Zenon
<1>3. QED
  BY <1>1, <1>2, Zenon

LEMMA FlagStep ==
    ASSUME P!TypeOK, FlagInv, (\E p \in Callers : P!Caller(p)) \/ P!Environment PROVE FlagInv'
<1> USE DEF P!None
<1>1. ASSUME NEW p \in Callers, P!PingRefused(p) \/ P!PingClosed(p) PROVE FlagInv'
  BY <1>1, Zenon DEF P!PingRefused, P!PingClosed, FlagInv
<1>2. ASSUME NEW p \in Callers, P!PingStart(p) PROVE FlagInv'
  <2>1. probes \in Seq(Callers) /\ probes' = Append(probes, p)
    BY <1>2, Zenon DEF P!PingStart, P!TypeOK
  <2>2. probes' # <<>>
    BY <2>1
  <2>3. QED
    BY <2>2, Zenon DEF FlagInv
<1>3. ASSUME NEW p \in Callers, P!PingTimeout(p) PROVE FlagInv'
  BY <1>3, Zenon DEF P!PingTimeout, FlagInv
<1>4. ASSUME NEW p \in Callers, P!PingWake(p) PROVE FlagInv'
  BY <1>4, Zenon DEF P!PingWake, FlagInv
<1>5. CASE P!ProbeStart
  <2>1. probes \in Seq(Callers) /\ probes # <<>> /\ probing' = Head(probes)
    BY <1>5, Zenon DEF P!ProbeStart, P!TypeOK
  <2>2. probing' \in Callers
    BY <2>1
  <2>3. QED
    BY <2>2, CallersAssumption, Zenon DEF FlagInv
<1>6. CASE P!ProbeOk \/ P!ProbeError
  BY <1>6, Zenon DEF P!ProbeOk, P!ProbeError, P!ProbeEnd, P!Clear, FlagInv
<1>7. CASE P!Server \/ P!Wedge
  BY <1>7, Zenon DEF P!Server, P!Wedge, FlagInv
<1>8. QED
  BY <1>1, <1>2, <1>3, <1>4, <1>5, <1>6, <1>7, Zenon DEF P!Caller, P!Environment

LEMMA WaiterStep ==
    ASSUME P!TypeOK, WaiterInv, (\E p \in Callers : P!Caller(p)) \/ P!Environment PROVE WaiterInv'
<1> USE DEF P!None
<1>0. probes \in Seq(Callers)
  BY Zenon DEF P!TypeOK
<1>1. ASSUME NEW p \in Callers, P!PingRefused(p) \/ P!PingClosed(p) PROVE WaiterInv'
  BY <1>1, Zenon DEF P!PingRefused, P!PingClosed, WaiterInv, P!Outstanding
<1>2. ASSUME NEW p \in Callers, P!PingStart(p) PROVE WaiterInv'
  <2>1. /\ probes' = Append(probes, p) /\ probing' = probing
        /\ \A q \in Callers : q # p => inPing'[q] = inPing[q] /\ answered'[q] = answered[q]
    BY <1>2, Zenon DEF P!PingStart, P!TypeOK
  <2>2. P!Outstanding(p)'
    <3>1. Len(probes) + 1 \in DOMAIN probes' /\ probes'[Len(probes) + 1] = p
      BY <1>0, <2>1
    <3>2. QED
      BY <3>1, Zenon DEF P!Outstanding
  <2>3. ASSUME NEW q \in Callers, P!Outstanding(q) PROVE P!Outstanding(q)'
    BY <1>0, <2>1, <2>3, ProbesMove, Zenon
  <2>4. QED
    BY <2>1, <2>2, <2>3, Zenon DEF WaiterInv
<1>3. ASSUME NEW p \in Callers, P!PingTimeout(p) PROVE WaiterInv'
  <2>1. /\ probes' = P!Cancelled(p) /\ UNCHANGED <<probing, answered>> /\ inPing'[p] = "idle"
        /\ \A q \in Callers : q # p => inPing'[q] = inPing[q]
    BY <1>3, Zenon DEF P!PingTimeout, P!TypeOK
  <2>2. ASSUME NEW q \in Callers, q # p, P!Outstanding(q) PROVE P!Outstanding(q)'
    BY <1>0, <2>1, <2>2, CancelsOwn, Zenon DEF P!Outstanding
  <2>3. QED
    BY <2>1, <2>2, Zenon DEF WaiterInv
<1>4. ASSUME NEW p \in Callers, P!PingWake(p) PROVE WaiterInv'
  <2>1. /\ UNCHANGED <<probes, probing, answered>>
        /\ \A q \in Callers : inPing'[q] = "await" => inPing[q] = "await"
    BY <1>4, Zenon DEF P!PingWake, P!TypeOK
  <2>2. QED
    BY <2>1, Zenon DEF WaiterInv, P!Outstanding
<1>5. CASE P!ProbeStart
  <2>1. UNCHANGED <<inPing, answered>>
    BY <1>5, Zenon DEF P!ProbeStart
  <2>2. ASSUME NEW q \in Callers, P!Outstanding(q) PROVE P!Outstanding(q)'
    BY <1>0, <1>5, <2>2, ProbesMove, Zenon
  <2>3. QED
    BY <2>1, <2>2, Zenon DEF WaiterInv
<1>6. CASE P!ProbeOk \/ P!ProbeError
  <2>1. PICK how \in {"ok", "error"} : P!ProbeEnd(how)
    BY <1>6, Zenon DEF P!ProbeOk, P!ProbeError
  <2>2. /\ UNCHANGED <<probes, inPing>>
        /\ \A q \in Callers : q # probing => answered'[q] = answered[q]
        /\ probing \in Callers => answered'[probing] # "none"
    BY <2>1, Zenon DEF P!ProbeEnd, P!TypeOK
  <2>3. QED
    BY <2>2, Zenon DEF WaiterInv, P!Outstanding
<1>7. CASE P!Server \/ P!Wedge
  BY <1>7, Zenon DEF P!Server, P!Wedge, WaiterInv, P!Outstanding
<1>8. QED
  BY <1>1, <1>2, <1>3, <1>4, <1>5, <1>6, <1>7, Zenon DEF P!Caller, P!Environment

\* _ping_inflight never outlives the probe it stands for, and no ping() waits for a
\* probe that is gone: however coroutines, probe thread, timeouts and close()
\* interleave, a set flag has a probe whose finally clears it, and a caller without
\* an answer has its own probe in the thread or in its queue.
THEOREM FlagHasProbe == ClientSpec => [](FlagInv /\ WaiterInv)
<1>1. ClientInit => FlagInv /\ WaiterInv
  <2>1. ClientInit => P!Init
    BY Zenon DEF ClientInit
  <2>2. P!Init => FlagInv /\ WaiterInv
    BY Zenon DEF P!Init, FlagInv, WaiterInv
  <2>3. QED
    BY <2>1, <2>2, Zenon
<1>2. P!TypeOK /\ FlagInv /\ WaiterInv /\ [ClientNext]_allVars => (FlagInv /\ WaiterInv)'
  <2> SUFFICES ASSUME P!TypeOK, FlagInv, WaiterInv, [ClientNext]_allVars PROVE (FlagInv /\ WaiterInv)'
    BY Zenon
  <2>1. CASE Ping
    BY <2>1, FlagStep, WaiterStep, Zenon DEF Ping, Pings
  <2>2. CASE ~Ping
    <3>1. UNCHANGED pingVars
      BY <2>2, Zenon DEF ClientNext, allVars, Starting, Stream, Streams, Verify, Verifies, CloseClient
    <3>2. QED
      BY <3>1, Zenon DEF pingVars, FlagInv, WaiterInv, P!Outstanding
  <2>3. QED
    BY <2>1, <2>2, Zenon
<1>3. QED
  BY <1>1, <1>2, PingHolds, PTL DEF ClientSpec
-----------------------------------------------------------------------------
(* The stream.                                                             *)

\* Every item taken is pending or has been yielded, not both; the done set is part
\* of the table; and the table runs empty only where the iterator has.
StreamInv ==
    /\ at # "aborted" => pending \cup Range(yielded) = 1 .. taken
    /\ pending \cap Range(yielded) = {}
    /\ batch \subseteq pending \cap (completed \cup cancelled)
    /\ at \notin {"handle", "yield", "aborted", "stopped"} => batch = {}
    /\ IsInjective(yielded)
    /\ Range(yielded) \subseteq completed
    /\ exhausted => taken = Items
    /\ at \in {"wait", "handle", "yield", "ended"} /\ pending = {} => exhausted
    /\ cancelled # {} => pc = "closed"
    /\ at = "aborted" => pc = "closed"
    /\ at = "ended" => pending = {}

LEMMA AppendTypes == ASSUME NEW T, NEW q \in Seq(T), NEW i \in T PROVE Append(q, i) \in Seq(T)
  OBVIOUS

LEMMA YieldedRange ==
    ASSUME NEW T, NEW q \in Seq(T), NEW i \in T
    PROVE  /\ Range(<<>>) = {} /\ IsInjective(<<>>)
           /\ Range(Append(q, i)) = Range(q) \cup {i}
           /\ IsInjective(q) /\ i \notin Range(q) => IsInjective(Append(q, i))
<1>1. Range(<<>>) = {} /\ IsInjective(<<>>)
  BY DEF Range, IsInjective
<1>2. Range(Append(q, i)) = Range(q) \cup {i}
  <2>1. DOMAIN Append(q, i) = 1 .. Len(q) + 1 /\ DOMAIN q = 1 .. Len(q)
    OBVIOUS
  <2>2. \A k \in 1 .. Len(q) : Append(q, i)[k] = q[k]
    OBVIOUS
  <2>3. Append(q, i)[Len(q) + 1] = i
    OBVIOUS
  <2>4. QED
    BY <2>1, <2>2, <2>3 DEF Range
<1>3. ASSUME IsInjective(q), i \notin Range(q) PROVE IsInjective(Append(q, i))
  BY <1>3 DEF IsInjective, Range
<1>4. QED
  BY <1>1, <1>2, <1>3, Zenon

LEMMA YieldOne ==
    ASSUME S!TypeOK, NEW i \in S!Indices
    PROVE  /\ Range(Append(yielded, i)) = Range(yielded) \cup {i}
           /\ IsInjective(yielded) /\ i \notin Range(yielded) => IsInjective(Append(yielded, i))
  BY YieldedRange DEF S!TypeOK

LEMMA StreamTypes ==
    ASSUME S!TypeOK, S!Generator \/ S!Stop \/ S!Start \/ \E i \in 1 .. Items : S!Finish(i)
    PROVE  S!TypeOK'
<1> USE StreamAssumption DEF S!TypeOK, S!Indices
<1>1. ASSUME NEW table \in SUBSET (1 .. Items), S!submit_one(table)
      PROVE  /\ taken' \in 0 .. Items /\ exhausted' \in BOOLEAN /\ pending' \subseteq 1 .. Items
             /\ queue' \in Seq(1 .. Items)
  <2>1. CASE taken < Items
    <3>1. taken + 1 \in 1 .. Items
      BY <2>1
    <3>2. Append(queue, taken + 1) \in Seq(1 .. Items)
      BY <3>1, AppendTypes, Zenon
    <3>3. /\ taken' = taken + 1 /\ exhausted' = exhausted /\ pending' = table \cup {taken + 1}
          /\ queue' = Append(queue, taken + 1)
      BY <1>1, <2>1, Zenon DEF S!submit_one, S!More
    <3>4. QED
      BY <3>1, <3>2, <3>3
  <2>2. CASE ~(taken < Items)
    BY <1>1, <2>2, Zenon DEF S!submit_one, S!More
  <2>3. QED
    BY <2>1, <2>2, Zenon
<1>2. CASE S!Begin \/ S!Stop \/ S!Resume
  BY <1>2, Zenon DEF S!Begin, S!Stop, S!Resume
<1>3. CASE S!Fill
  BY <1>1, <1>3, Zenon DEF S!Fill
<1>4. CASE S!Wait
  BY <1>4, Zenon DEF S!Wait
<1>5. ASSUME NEW i \in 1 .. Items, S!Handle(i) PROVE S!TypeOK'
  <2>1. /\ taken' \in 0 .. Items /\ exhausted' \in BOOLEAN /\ pending' \subseteq 1 .. Items
        /\ queue' \in Seq(1 .. Items)
    BY <1>1, <1>5, Zenon DEF S!Handle, S!Popped
  <2>2. at' \in {"yield", "aborted"} /\ yielded' \in Seq(1 .. Items) /\ batch' \subseteq 1 .. Items
    BY <1>5, AppendTypes, Zenon DEF S!Handle
  <2>3. QED
    BY <1>5, <2>1, <2>2, Zenon DEF S!Handle
<1>6. CASE S!Start
  <2>1. Head(queue) \in 1 .. Items /\ Tail(queue) \in Seq(1 .. Items)
    BY <1>6 DEF S!Start
  <2>2. QED
    BY <1>6, <2>1, Zenon DEF S!Start
<1>7. ASSUME NEW i \in 1 .. Items, S!Finish(i) PROVE S!TypeOK'
  BY <1>7, Zenon DEF S!Finish
<1>8. QED
  BY <1>2, <1>3, <1>4, <1>5, <1>6, <1>7, Zenon DEF S!Generator

\* submit_one keeps every item taken accounted for.
LEMMA Submitted ==
    ASSUME S!TypeOK, NEW table \in SUBSET (1 .. taken), S!submit_one(table), exhausted => taken = Items
    PROVE  /\ pending' = table \cup ((taken + 1) .. taken')
           /\ taken' \in {taken, taken + 1}
           /\ exhausted' => taken' = Items
           /\ pending' = {} => exhausted'
           /\ exhausted => exhausted'
<1> USE StreamAssumption DEF S!TypeOK, S!Indices
<1>1. CASE taken < Items
  <2>1. taken' = taken + 1 /\ exhausted' = exhausted /\ pending' = table \cup {taken + 1}
    BY <1>1, Zenon DEF S!submit_one, S!More
  <2>2. {taken + 1} = (taken + 1) .. taken'
    BY <2>1
  <2>3. QED
    BY <1>1, <2>1, <2>2
<1>2. CASE ~(taken < Items)
  <2>1. taken' = taken /\ exhausted' = TRUE /\ pending' = table
    BY <1>2, Zenon DEF S!submit_one, S!More
  <2>2. (taken + 1) .. taken' = {}
    BY <2>1
  <2>3. QED
    BY <1>2, <2>1, <2>2
<1>3. QED
  BY <1>1, <1>2, Zenon

\* An empty table has room.
LEMMA EmptyHasRoom == ASSUME ~exhausted PROVE S!Room({})
<1>1. S!Cardinality({}) = Cardinality({})
  BY Zenon DEF S!Cardinality, Cardinality
<1>2. QED
  BY <1>1, FS_EmptySet, StreamAssumption DEF S!Room

LEMMA HandleStep == ASSUME S!TypeOK, StreamInv, NEW i \in 1 .. Items, S!Handle(i), UNCHANGED pc PROVE StreamInv'
<1> DEFINE table == pending \ {i}
<1> USE DEF S!TypeOK, S!Indices
<1>1. /\ at = "handle" /\ i \in batch /\ i \in pending /\ i \notin Range(yielded)
      /\ i \in completed \cup cancelled /\ batch' = batch \ {i}
      /\ UNCHANGED <<completed, cancelled>>
  BY Zenon DEF S!Handle, StreamInv
<1>2. pending \cup Range(yielded) = 1 .. taken /\ table \in SUBSET (1 .. taken)
  BY <1>1, Zenon DEF StreamInv
<1>3. CASE i \in cancelled \/ S!Raises(table)
  <2>1. at' = "aborted" /\ pending' = table /\ UNCHANGED <<taken, exhausted, yielded>>
    BY <1>3, Zenon DEF S!Handle, S!Popped
  <2>2. pc = "closed"
    BY <1>3, Zenon DEF S!Raises, Closed, StreamInv
  <2>3. QED
    BY <1>1, <1>2, <2>1, <2>2, Zenon DEF StreamInv
<1>4. CASE ~(i \in cancelled \/ S!Raises(table))
  <2>1. at' = "yield" /\ yielded' = Append(yielded, i) /\ i \in completed
    BY <1>1, <1>4, Zenon DEF S!Handle, S!Popped
  <2>2. /\ pending' = table \cup ((taken + 1) .. taken')
        /\ taken' \in {taken, taken + 1}
        /\ exhausted' => taken' = Items
        /\ pending' = {} => exhausted'
    <3>1. CASE S!Room(table)
      BY <1>2, <1>4, <3>1, Submitted, Zenon DEF S!Handle, S!Popped, StreamInv
    <3>2. CASE ~S!Room(table)
      <4>1. pending' = table /\ UNCHANGED <<taken, exhausted>>
        BY <1>4, <3>2, Zenon DEF S!Handle, S!Popped
      <4>2. (taken + 1) .. taken' = {}
        BY <4>1
      <4>3. pending' = {} => exhausted'
        BY <3>2, <4>1, EmptyHasRoom, Zenon
      <4>4. QED
        BY <4>1, <4>2, <4>3, Zenon DEF StreamInv
    <3>3. QED
      BY <3>1, <3>2, Zenon
  <2>3. Range(yielded') = Range(yielded) \cup {i} /\ IsInjective(yielded')
    BY <1>1, <2>1, YieldOne, Zenon DEF StreamInv
  <2>4. pending' \cup Range(yielded') = 1 .. taken'
    <3>1. pending' \cup Range(yielded') = (1 .. taken) \cup ((taken + 1) .. taken')
      BY <1>1, <1>2, <2>2, <2>3, Zenon
    <3>2. QED
      BY <2>2, <3>1
  <2>5. pending' \cap Range(yielded') = {}
    BY <1>1, <1>2, <2>2, <2>3 DEF StreamInv
  <2>6. batch' \subseteq pending' \cap (completed' \cup cancelled')
    BY <1>1, <2>2, Zenon DEF StreamInv
  <2>7. Range(yielded') \subseteq completed'
    BY <1>1, <2>1, <2>3, Zenon DEF StreamInv
  <2>8. QED
    BY <1>1, <2>1, <2>2, <2>3, <2>4, <2>5, <2>6, <2>7, Zenon DEF StreamInv
<1>5. QED
  BY <1>3, <1>4, Zenon

LEMMA StreamStep ==
    ASSUME S!TypeOK, StreamInv, UNCHANGED pc,
           S!Generator \/ S!Stop \/ S!Start \/ \E i \in 1 .. Items : S!Finish(i)
    PROVE  StreamInv'
<1> USE DEF S!TypeOK, S!Indices
<1>1. CASE S!Begin \/ S!Stop
  <2>1. UNCHANGED <<taken, exhausted, pending, batch, completed, cancelled, yielded>>
    BY <1>1, Zenon DEF S!Begin, S!Stop
  <2>2. CASE S!Begin
    BY <2>1, <2>2 DEF S!Begin, StreamInv
  <2>3. CASE S!Stop
    BY <2>1, <2>3 DEF S!Stop, StreamInv
  <2>4. QED
    BY <1>1, <2>2, <2>3, Zenon
<1>2. CASE S!Resume
  BY <1>2, Zenon DEF S!Resume, StreamInv
<1>3. CASE S!Fill
  <2>1. at = "fill" /\ batch = {} /\ pending \cup Range(yielded) = 1 .. taken
        /\ UNCHANGED <<batch, completed, cancelled, yielded>>
    BY <1>3, Zenon DEF S!Fill, StreamInv
  <2>2. CASE S!Raises(pending)
    BY <1>3, <2>1, <2>2, Zenon DEF S!Fill, S!Raises, Closed, StreamInv
  <2>3. CASE ~S!Raises(pending) /\ S!Room(pending)
    <3>1. /\ pending' = pending \cup ((taken + 1) .. taken')
          /\ taken' \in {taken, taken + 1}
          /\ exhausted' => taken' = Items
          /\ at' = "fill"
      BY <1>3, <2>1, <2>3, Submitted, Zenon DEF S!Fill, StreamInv
    <3>2. pending' \cup Range(yielded) = 1 .. taken'
      <4>1. pending' \cup Range(yielded) = (1 .. taken) \cup ((taken + 1) .. taken')
        BY <2>1, <3>1, Zenon
      <4>2. QED
        BY <3>1, <4>1
    <3>3. pending' \cap Range(yielded) = {}
      BY <2>1, <3>1 DEF StreamInv
    <3>4. QED
      BY <2>1, <3>1, <3>2, <3>3, Zenon DEF StreamInv
  <2>4. CASE ~S!Raises(pending) /\ ~S!Room(pending)
    <3>1. at' = "wait" /\ UNCHANGED <<taken, exhausted, pending>>
      BY <1>3, <2>4, Zenon DEF S!Fill
    <3>2. pending = {} => exhausted
      BY <2>4, EmptyHasRoom, Zenon
    <3>3. QED
      BY <2>1, <3>1, <3>2, Zenon DEF StreamInv
  <2>5. QED
    BY <2>2, <2>3, <2>4, Zenon
<1>4. CASE S!Wait
  BY <1>4, Zenon DEF S!Wait, StreamInv
<1>5. ASSUME NEW i \in 1 .. Items, S!Handle(i) PROVE StreamInv'
  BY <1>5, HandleStep, Zenon
<1>6. CASE S!Start
  BY <1>6, Zenon DEF S!Start, StreamInv
<1>7. ASSUME NEW i \in 1 .. Items, S!Finish(i) PROVE StreamInv'
  BY <1>7, Zenon DEF S!Finish, StreamInv
<1>8. QED
  BY <1>1, <1>2, <1>3, <1>4, <1>5, <1>6, <1>7, Zenon DEF S!Generator

LEMMA StreamClosed ==
    ASSUME S!TypeOK, StreamInv, CloseClient PROVE S!TypeOK' /\ StreamInv'
<1>1. pc' = "closed" /\ S!cancel_futures
  BY Zenon DEF CloseClient, Close
<1>2. S!Range(queue) \subseteq S!Indices
  BY DEF S!Range, S!TypeOK
<1>3. S!TypeOK'
  BY <1>1, <1>2 DEF S!cancel_futures, S!TypeOK
<1>4. StreamInv'
  BY <1>1, Zenon DEF S!cancel_futures, StreamInv
<1>5. QED
  BY <1>3, <1>4, Zenon

LEMMA StreamHolds == ClientSpec => [](S!TypeOK /\ StreamInv)
<1>1. ClientInit => S!TypeOK /\ StreamInv
  <2>1. ClientInit => S!Init
    BY Zenon DEF ClientInit
  <2>2. ASSUME S!Init PROVE S!TypeOK /\ StreamInv
    <3>1. S!TypeOK
      <4>1. taken \in 0 .. Items
        BY <2>2, StreamAssumption DEF S!Init
      <4>2. queue \in Seq(S!Indices) /\ yielded \in Seq(S!Indices)
        BY <2>2 DEF S!Init
      <4>3. QED
        BY <2>2, <4>1, <4>2, Zenon DEF S!Init, S!TypeOK
    <3>2. Range(yielded) = {} /\ IsInjective(yielded)
      BY <2>2 DEF S!Init, Range, IsInjective
    <3>3. StreamInv
      BY <2>2, <3>2 DEF S!Init, StreamInv
    <3>4. QED
      BY <3>1, <3>3, Zenon
  <2>3. QED
    BY <2>1, <2>2, Zenon
<1>2. TypeOK /\ WarmInv /\ S!TypeOK /\ StreamInv /\ [ClientNext]_allVars => (S!TypeOK /\ StreamInv)'
  <2> SUFFICES ASSUME TypeOK, WarmInv, S!TypeOK, StreamInv, [ClientNext]_allVars
               PROVE  (S!TypeOK /\ StreamInv)'
    BY Zenon
  <2>1. CASE Stream
    BY <2>1, StreamStep, StreamTypes, Zenon DEF Stream, Streams, vars
  <2>2. CASE CloseClient
    BY <2>2, StreamClosed, Zenon
  <2>3. CASE ~Stream /\ ~CloseClient
    <3>1. UNCHANGED streamVars
      BY <2>3, Zenon DEF ClientNext, allVars, Starting, Ping, Pings, Verify, Verifies
    <3>2. pc = "closed" => pc' = "closed"
      <4>1. pc = "closed" => ~Construct
        BY WarmLife, AskCases, Zenon DEF Construct, Choose, OpenCall, OpenFails, Setup, FinishInit
      <4>2. QED
        BY <2>3, <4>1, TaskLife, Zenon DEF ClientNext, allVars, vars, Starting, Ping, Pings, Verify, Verifies
    <3>3. QED
      BY <3>1, <3>2, Zenon DEF streamVars, S!TypeOK, StreamInv
  <2>4. QED
    BY <2>1, <2>2, <2>3, Zenon
<1>3. QED
  BY <1>1, <1>2, LifeHolds, PTL DEF ClientSpec

\* Each chunk is yielded once and after its read, a stream that ends has yielded all,
\* and only close() aborts one, for any number of items, workers and reads in flight,
\* whatever warm-up calls still hold the pool.
THEOREM ExactlyOnceHolds == ClientSpec => []ExactlyOnce
<1>1. S!TypeOK /\ StreamInv => ExactlyOnce
  <2> SUFFICES ASSUME S!TypeOK, StreamInv PROVE ExactlyOnce
    BY Zenon
  <2>1. S!Range(yielded) = Range(yielded) /\ (S!IsInjective(yielded) <=> IsInjective(yielded))
    BY Zenon DEF S!Range, Range, S!IsInjective, IsInjective
  <2>2. at = "ended" => Range(yielded) = S!Indices
    BY Zenon DEF StreamInv, S!Indices
  <2>3. QED
    BY <2>1, <2>2, Zenon DEF StreamInv, ExactlyOnce, S!ExactlyOnce, Closed
<1>2. QED
  BY <1>1, StreamHolds, PTL

\* The future of item i is done or the pool still has it, in a thread or in its queue.
Enqueued(i) == \E n \in DOMAIN queue : queue[n] = i
Kept(i) == i \in completed \/ i \in cancelled \/ i \in running \/ Enqueued(i)

\* Nothing that was submitted is forgotten by the pool, and the generator is in its
\* done set only while there is something in it.
FutureInv == (\A i \in 1 .. taken : Kept(i)) /\ (at = "handle" => batch # {})

\* Where the generator is, a step of its own or of the pool comes next: a stream that
\* waits has nothing left to wait for, or each future of its table is done, running
\* or queued.
StreamGoesOn ==
    /\ at = "handle" => batch # {}
    /\ at = "wait" => \A i \in pending : Kept(i)

\* A step that submits at most one item, and does not touch what the pool has.
LEMMA SubmitKeeps ==
    ASSUME S!TypeOK, FutureInv, UNCHANGED <<running, completed, cancelled>>,
           \/ UNCHANGED <<taken, queue>>
           \/ taken' = taken + 1 /\ queue' = Append(queue, taken + 1)
    PROVE  \A i \in 1 .. taken' : Kept(i)'
<1>0. taken \in Nat /\ queue \in Seq(S!Indices)
  BY StreamAssumption DEF S!TypeOK
<1>1. CASE UNCHANGED <<taken, queue>>
  BY <1>1, Zenon DEF FutureInv, Kept, Enqueued
<1>2. CASE taken' = taken + 1 /\ queue' = Append(queue, taken + 1)
  <2>1. /\ DOMAIN queue \subseteq DOMAIN queue' /\ \A n \in DOMAIN queue : queue'[n] = queue[n]
        /\ Len(queue) + 1 \in DOMAIN queue' /\ queue'[Len(queue) + 1] = taken + 1
    BY <1>0, <1>2
  <2>2. ASSUME NEW i \in 1 .. taken PROVE Kept(i)'
    BY <2>1, <2>2, Zenon DEF FutureInv, Kept, Enqueued
  <2>3. ASSUME NEW i, i = taken + 1 PROVE Kept(i)'
    BY <2>1, <2>3, Zenon DEF Kept, Enqueued
  <2>4. \A i \in 1 .. taken' : i \in 1 .. taken \/ i = taken + 1
    BY <1>0, <1>2
  <2>5. QED
    BY <2>2, <2>3, <2>4, Zenon
<1>3. QED
  BY <1>1, <1>2, Zenon

LEMMA FutureStep ==
    ASSUME S!TypeOK, FutureInv, S!Generator \/ S!Stop \/ S!Start \/ \E i \in 1 .. Items : S!Finish(i)
    PROVE  FutureInv'
<1>0. queue \in Seq(S!Indices)
  BY Zenon DEF S!TypeOK
<1>1. CASE S!Begin \/ S!Fill \/ S!Wait \/ S!Resume \/ S!Stop
  <2>1. /\ UNCHANGED <<running, completed, cancelled>>
        /\ UNCHANGED <<taken, queue>> \/ (taken' = taken + 1 /\ queue' = Append(queue, taken + 1))
    BY <1>1, Zenon DEF S!Begin, S!Fill, S!Wait, S!Resume, S!Stop, S!submit_one
  <2>2. at' = "handle" => batch' # {}
    BY <1>1, Zenon DEF S!Begin, S!Fill, S!Wait, S!Resume, S!Stop
  <2>3. QED
    BY <2>1, <2>2, SubmitKeeps, Zenon DEF FutureInv
<1>2. ASSUME NEW i \in S!Indices, S!Handle(i) PROVE FutureInv'
  <2>1. /\ UNCHANGED <<running, completed, cancelled>> /\ at' # "handle"
        /\ UNCHANGED <<taken, queue>> \/ (taken' = taken + 1 /\ queue' = Append(queue, taken + 1))
    BY <1>2, Zenon DEF S!Handle, S!submit_one
  <2>2. QED
    BY <2>1, SubmitKeeps, Zenon DEF FutureInv
<1>3. CASE S!Start
  <2>1. /\ queue # <<>> /\ running' = running \cup {Head(queue)} /\ queue' = Tail(queue)
        /\ UNCHANGED <<at, taken, batch, completed, cancelled>>
    BY <1>3, Zenon DEF S!Start
  <2>2. ASSUME NEW i, NEW n \in DOMAIN queue, queue[n] = i PROVE i \in running' \/ Enqueued(i)'
    <3>1. CASE n = 1
      BY <1>0, <2>1, <2>2, <3>1
    <3>2. CASE n # 1
      <4>1. n - 1 \in DOMAIN queue' /\ queue'[n - 1] = queue[n]
        BY <1>0, <2>1, <3>2
      <4>2. QED
        BY <2>2, <4>1, Zenon DEF Enqueued
    <3>3. QED
      BY <3>1, <3>2, Zenon
  <2>3. ASSUME NEW i \in 1 .. taken, Kept(i) PROVE Kept(i)'
    BY <2>1, <2>2, <2>3, Zenon DEF Kept, Enqueued
  <2>4. QED
    BY <2>1, <2>3, Zenon DEF FutureInv
<1>4. ASSUME NEW i \in 1 .. Items, S!Finish(i) PROVE FutureInv'
  BY <1>4, Zenon DEF S!Finish, FutureInv, Kept, Enqueued
<1>5. QED
  BY <1>1, <1>2, <1>3, <1>4, Zenon DEF S!Generator

\* What shutdown(cancel_futures=True) takes off the queue is cancelled.
LEMMA FutureClosed == ASSUME FutureInv, CloseClient PROVE FutureInv'
<1>1. cancelled' = cancelled \cup S!Range(queue) /\ UNCHANGED <<at, taken, batch, running, completed>>
  BY Zenon DEF CloseClient, S!cancel_futures
<1>2. \A i : Enqueued(i) => i \in S!Range(queue)
  BY Zenon DEF Enqueued, S!Range
<1>3. QED
  BY <1>1, <1>2, Zenon DEF FutureInv, Kept

\* No future a stream waits for is forgotten by the pool, not even where close() drops
\* the queue, and the generator never waits inside an empty done set: a stream that
\* does not go on is waiting for a read a thread is in or has yet to take.
THEOREM NoFutureForgotten == ClientSpec => []StreamGoesOn
<1>1. ClientInit => FutureInv
  <2>1. ClientInit => S!Init
    BY Zenon DEF ClientInit
  <2>2. S!Init => FutureInv
    <3>1. \A i \in 1 .. 0 : FALSE
      OBVIOUS
    <3>2. QED
      BY <3>1, Zenon DEF S!Init, FutureInv
  <2>3. QED
    BY <2>1, <2>2, Zenon
<1>2. S!TypeOK /\ FutureInv /\ [ClientNext]_allVars => FutureInv'
  <2> SUFFICES ASSUME S!TypeOK, FutureInv, [ClientNext]_allVars PROVE FutureInv'
    BY Zenon
  <2>1. CASE Stream
    BY <2>1, FutureStep, Zenon DEF Stream, Streams
  <2>2. CASE CloseClient
    BY <2>2, FutureClosed, Zenon
  <2>3. CASE ~Stream /\ ~CloseClient
    <3>1. UNCHANGED streamVars
      BY <2>3, Zenon DEF ClientNext, allVars, Starting, Ping, Pings, Verify, Verifies
    <3>2. QED
      BY <3>1, Zenon DEF streamVars, FutureInv, Kept, Enqueued
  <2>4. QED
    BY <2>1, <2>2, <2>3, Zenon
<1>3. StreamInv /\ FutureInv => StreamGoesOn
  BY Zenon DEF StreamInv, FutureInv, StreamGoesOn
<1>4. QED
  BY <1>1, <1>2, <1>3, StreamHolds, PTL DEF ClientSpec
=============================================================================
