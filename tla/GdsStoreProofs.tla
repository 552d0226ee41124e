--------------------------- MODULE GdsStoreProofs ---------------------------
(***************************************************************************)
(* Proofs about the GDS backend: its objects, for any processes, threads,  *)
(* files and chunks, and its batched calls (GdsBatch), for any calls, pool *)
(* threads and keys per call.                                              *)
(***************************************************************************)
EXTENDS GdsStore, GdsBatch, FiniteSetTheorems, WellFoundedInduction, TLAPS

\* A put owns the file it writes: it is under no final name and no other put
\* has it.  What the put has written so far shows in its place.
Owned ==
    /\ \A t \in Threads : pc[t] \in Storing =>
         /\ file[t] \in Files \ {final}
         /\ \A u \in Threads : pc[u] \in Storing /\ file[u] = file[t] => u = t
    /\ \A t \in Threads :
         /\ pc[t] = "put_payload" => header[file[t]] /\ data[file[t]] \cup todo[t] = Offsets
         /\ pc[t] = "put_move"    => header[file[t]] /\ data[file[t]] = Offsets

WholeInv == TypeOK /\ Owned /\ FinalIsWhole

\* Before the first remove the final name, once taken, stays taken.
KnownInv ==
    ~evicted =>
      /\ known # {} => final # None
      /\ \A t \in Threads :
           /\ pc[t] # "remove"
           /\ pc[t] \in {"see", "put_see", "put_known"} \cup Reading => final # None

\* A get holds its GPU object from the header to the end of the payload.
BufferInv ==
    \A t \in Threads :
        /\ pc[t] = "get_header"  => ~staged[t] /\ out[t] = {}
        /\ pc[t] = "get_payload" => staged[t] /\ out[t] = {}
        /\ pc[t] \notin Reading  => (staged[t] <=> out[t] # {})
-----------------------------------------------------------------------------
\* The steps of Next, by what they write.
LEMMA NextSplit ==
    ASSUME Next
    PROVE  \/ \E p \in Procs : SubmitPut(p) \/ Crash(p)
           \/ \E t \in Threads : Contains(t) \/ Stat(t) \/ See(t)
           \/ \E t \in Threads : PutStart(t) \/ PutLook(t) \/ PutWritten(t) \/ PutKnown(t)
           \/ \E t \in Threads, f \in Files : PutOpen(t, f)
           \/ \E t \in Threads : PutHeader(t) \/ PutMove(t) \/ PutRaises(t)
           \/ \E t \in Threads, i \in Offsets : PutChunk(t, i) \/ GetChunk(t, i)
           \/ \E t \in Threads : GetOpen(t) \/ GetHeader(t) \/ GetDone(t) \/ GetRaises(t)
           \/ \E t \in Threads : RemoveKnown(t) \/ RemoveFile(t)
  BY Zenon DEF Next, Put, Get

LEMMA BufferStep == ASSUME TypeOK, BufferInv, [Next]_vars PROVE BufferInv'
<1>1. /\ pc \in [Threads -> Putting \cup Looking \cup Reading \cup {"idle", "remove"}]
      /\ staged \in [Threads -> BOOLEAN]
      /\ out \in [Threads -> SUBSET ({Key} \X Contents)]
  BY Zenon DEF TypeOK
<1>2. CASE UNCHANGED <<pc, staged, out>>
  BY <1>2, Zenon DEF BufferInv
<1>3. ASSUME NEW t \in Threads, Contains(t) \/ Stat(t) \/ See(t) \/ RemoveKnown(t) \/ RemoveFile(t) PROVE BufferInv'
  <2>1. UNCHANGED <<staged, out>>
    BY <1>3, Zenon DEF Contains, Stat, See, RemoveKnown, RemoveFile, buffers
  <2>2. pc[t] \notin Reading /\ pc'[t] \notin Reading /\ \A u \in Threads \ {t} : pc'[u] = pc[u]
    BY <1>1, <1>3, Zenon DEF Contains, Stat, See, RemoveKnown, RemoveFile, Goto, Reading
  <2>3. QED
    BY <2>1, <2>2, Zenon DEF BufferInv, Reading
<1>4. ASSUME NEW t \in Threads, PutStart(t) \/ PutLook(t) \/ PutWritten(t) \/ PutKnown(t) \/ PutHeader(t)
                                  \/ PutMove(t) \/ PutRaises(t) \/ \E f \in Files : PutOpen(t, f)
      PROVE  BufferInv'
  <2>1. UNCHANGED <<staged, out>>
    BY <1>4, Zenon DEF PutStart, PutLook, PutWritten, PutKnown, PutHeader, PutMove, PutRaises, PutOpen, buffers
  <2>2. pc[t] \notin Reading /\ pc'[t] \notin Reading /\ \A u \in Threads \ {t} : pc'[u] = pc[u]
    BY <1>1, <1>4, Zenon DEF PutStart, PutLook, PutWritten, PutKnown, PutHeader, PutMove, PutRaises, PutOpen, Goto,
       Close, Reading
  <2>3. QED
    BY <2>1, <2>2, Zenon DEF BufferInv, Reading
<1>5. ASSUME NEW t \in Threads, NEW i \in Offsets, PutChunk(t, i) \/ GetChunk(t, i) PROVE BufferInv'
  BY <1>2, <1>5, Zenon DEF PutChunk, GetChunk
<1>6. ASSUME NEW t \in Threads, GetOpen(t) \/ GetHeader(t) \/ GetDone(t) \/ GetRaises(t) PROVE BufferInv'
  <2>1. \A u \in Threads \ {t} : pc'[u] = pc[u] /\ staged'[u] = staged[u] /\ out'[u] = out[u]
    BY <1>1, <1>6, Zenon DEF GetOpen, GetHeader, GetDone, GetRaises, Goto, Close
  <2>2. CASE GetOpen(t)
    BY <1>1, <2>1, <2>2 DEF GetOpen, Goto, BufferInv, Reading
  <2>3. CASE GetHeader(t)
    BY <1>1, <2>1, <2>3 DEF GetHeader, Goto, Close, BufferInv, Reading
  <2>4. CASE GetRaises(t)
    BY <1>1, <2>1, <2>4, Zenon DEF GetRaises, Goto, Close, BufferInv, Reading
  <2>5. CASE GetDone(t)
    <3>1. pc'[t] = "idle"
      BY <1>1, <2>5, Zenon DEF GetDone, Close, Goto
    <3>2. CASE FullLength(got[t])
      BY <1>1, <2>1, <2>5, <3>1, <3>2, Zenon DEF GetDone, Kept, BufferInv, Reading
    <3>3. CASE ~FullLength(got[t])
      BY <1>1, <2>1, <2>5, <3>1, <3>3 DEF GetDone, Kept, BufferInv, Reading
    <3>4. QED
      BY <3>2, <3>3, Zenon
  <2>6. QED
    BY <1>6, <2>2, <2>3, <2>4, <2>5, Zenon
<1>7. ASSUME NEW p \in Procs, SubmitPut(p) PROVE BufferInv'
  BY <1>2, <1>7, Zenon DEF SubmitPut, buffers
<1>8. ASSUME NEW p \in Procs, Crash(p) PROVE BufferInv'
  BY <1>1, <1>8, Zenon DEF Crash, BufferInv, Reading
<1>9. CASE UNCHANGED vars
  BY <1>2, <1>9, Zenon DEF vars, buffers
<1>10. QED
  BY <1>3, <1>4, <1>5, <1>6, <1>7, <1>8, <1>9, NextSplit, Zenon

LEMMA KnownStep == ASSUME TypeOK, Owned, KnownInv, [Next]_vars PROVE KnownInv'
<1> DEFINE Fine(t) == /\ pc'[t] # "remove"
                      /\ pc'[t] \in {"see", "put_see", "put_known"} \cup Reading => final' # None
<1>1. pc \in [Threads -> Putting \cup Looking \cup Reading \cup {"idle", "remove"}]
  BY Zenon DEF TypeOK
<1>2. ASSUME final' = final, evicted' = evicted, known' \subseteq known,
             \A t \in Threads : pc'[t] \in {pc[t], "idle"}
      PROVE  KnownInv'
  BY <1>2, Zenon DEF KnownInv, Reading
<1>3. ASSUME NEW t \in Threads, evicted' = evicted, final' = final \/ final' # None,
             \A u \in Threads \ {t} : pc'[u] = pc[u],
             ~evicted /\ KnownInv => Fine(t) /\ (known' # {} => final' # None)
      PROVE  KnownInv'
  BY <1>3, Zenon DEF KnownInv
<1>4. ASSUME NEW t \in Threads, Contains(t) \/ Stat(t) \/ See(t) PROVE KnownInv'
  BY <1>1, <1>3, <1>4 DEF Contains, Stat, See, Goto, disk, KnownInv, Reading
<1>5. ASSUME NEW t \in Threads, PutStart(t) \/ PutLook(t) \/ PutWritten(t) \/ PutKnown(t) PROVE KnownInv'
  BY <1>1, <1>3, <1>5 DEF PutStart, PutLook, PutWritten, PutKnown, Goto, disk, KnownInv, Reading
<1>6. ASSUME NEW t \in Threads, PutHeader(t) \/ PutRaises(t) \/ \E f \in Files : PutOpen(t, f) PROVE KnownInv'
  BY <1>1, <1>3, <1>6 DEF PutHeader, PutRaises, PutOpen, Learned, Goto, Close, disk, KnownInv, Reading
<1>7. ASSUME NEW t \in Threads, PutMove(t) PROVE KnownInv'
  <2>1. final' # None
    BY <1>7, FilesAssumption, Zenon DEF PutMove, Owned, Storing
  <2>2. QED
    BY <1>1, <1>3, <1>7, <2>1, Zenon DEF PutMove, Goto, KnownInv, Reading
<1>8. ASSUME NEW t \in Threads, NEW i \in Offsets, PutChunk(t, i) \/ GetChunk(t, i) PROVE KnownInv'
  BY <1>2, <1>8, Zenon DEF PutChunk, GetChunk, disk
<1>9. ASSUME NEW t \in Threads, GetOpen(t) \/ GetHeader(t) \/ GetDone(t) \/ GetRaises(t) PROVE KnownInv'
  BY <1>1, <1>3, <1>9, Zenon DEF GetOpen, GetHeader, GetDone, GetRaises, Goto, Close, disk, KnownInv, Reading
<1>10. ASSUME NEW t \in Threads, RemoveKnown(t) \/ RemoveFile(t) PROVE KnownInv'
  BY <1>1, <1>10, Zenon DEF RemoveKnown, RemoveFile, KnownInv
<1>11. ASSUME NEW p \in Procs, SubmitPut(p) \/ Crash(p) PROVE KnownInv'
  BY <1>1, <1>2, <1>11, Zenon DEF SubmitPut, Crash, disk
<1>12. CASE UNCHANGED vars
  BY <1>2, <1>12, Zenon DEF vars, disk
<1>13. QED
  BY <1>4, <1>5, <1>6, <1>7, <1>8, <1>9, <1>10, <1>11, <1>12, NextSplit, Zenon
-----------------------------------------------------------------------------
LEMMA TypeStep == ASSUME TypeOK, Owned, [Next]_vars PROVE TypeOK'
<1> USE DEF TypeOK
<1>1. ASSUME NEW t \in Threads, Contains(t) \/ Stat(t) \/ See(t) PROVE TypeOK'
  BY <1>1 DEF Contains, Stat, See, Goto, Proc, TaskDone, disk, buffers, Putting, Looking
<1>2. ASSUME NEW t \in Threads, PutStart(t) \/ PutLook(t) \/ PutWritten(t) \/ PutKnown(t) PROVE TypeOK'
  BY <1>2 DEF PutStart, PutLook, PutWritten, PutKnown, Goto, Proc, TaskDone, disk, buffers, Putting
<1>3. ASSUME NEW t \in Threads, NEW f \in Files, PutOpen(t, f) PROVE TypeOK'
  <2>1. header' \in [Files -> BOOLEAN] /\ data' \in [Files -> SUBSET Offsets] /\ seen' \in [Threads -> SUBSET {Key}]
    BY <1>3, Zenon DEF PutOpen
  <2>2. QED
    BY <1>3, <2>1, Zenon DEF PutOpen, Goto, Putting
<1>4. ASSUME NEW t \in Threads, PutHeader(t) PROVE TypeOK'
  BY <1>4, Zenon DEF PutHeader, Goto, Span, Offsets, Putting
<1>5. ASSUME NEW t \in Threads, PutMove(t) PROVE TypeOK'
  BY <1>5, Zenon DEF PutMove, Goto, Owned, Storing, Putting, buffers
<1>6. ASSUME NEW t \in Threads, PutRaises(t) \/ GetRaises(t) PROVE TypeOK'
  BY <1>6, Zenon DEF PutRaises, GetRaises, Close, Goto, Learned, Proc, TaskDone, disk
<1>7. ASSUME NEW t \in Threads, NEW i \in Offsets, PutChunk(t, i) PROVE TypeOK'
  BY <1>7, Zenon DEF PutChunk
<1>8. ASSUME NEW t \in Threads, NEW i \in Offsets, GetChunk(t, i) PROVE TypeOK'
  BY <1>8 DEF GetChunk, disk
<1>9. ASSUME NEW t \in Threads, GetOpen(t) PROVE TypeOK'
  <2>1. seen' \in [Threads -> SUBSET {Key}] /\ staged' \in [Threads -> BOOLEAN]
    BY <1>9 DEF GetOpen, Maybe
  <2>2. pc' \in [Threads -> Putting \cup Looking \cup Reading \cup {"idle", "remove"}]
    BY <1>9, Zenon DEF GetOpen, Goto, Reading
  <2>3. file' \in [Threads -> Files \cup {None}] /\ out' \in [Threads -> SUBSET ({Key} \X Contents)]
    BY <1>9, Zenon DEF GetOpen
  <2>4. QED
    BY <1>9, <2>1, <2>2, <2>3, Zenon DEF GetOpen, disk
<1>10. ASSUME NEW t \in Threads, GetHeader(t) PROVE TypeOK'
  <2>1. pc' \in [Threads -> Putting \cup Looking \cup Reading \cup {"idle", "remove"}]
    BY <1>10 DEF GetHeader, Close, Goto, Reading
  <2>2. file' \in [Threads -> Files \cup {None}] /\ seen' \in [Threads -> SUBSET {Key}]
    BY <1>10, Zenon DEF GetHeader, Close
  <2>3. todo' \in [Threads -> SUBSET Offsets] /\ got' \in [Threads -> SUBSET Offsets]
    <3>1. Span \subseteq Offsets
      BY Zenon DEF Span, Offsets
    <3>2. got' \in [Threads -> SUBSET Offsets]
      BY <1>10, Zenon DEF GetHeader, Close
    <3>3. todo' \in [Threads -> SUBSET Offsets]
      BY <1>10, <3>1, Zenon DEF GetHeader, Close
    <3>4. QED
      BY <3>2, <3>3, Zenon
  <2>4. staged' \in [Threads -> BOOLEAN]
    BY <1>10, Zenon DEF GetHeader
  <2>5. QED
    BY <1>10, <2>1, <2>2, <2>3, <2>4, Zenon DEF GetHeader, disk
<1>11. ASSUME NEW t \in Threads, GetDone(t) PROVE TypeOK'
  <2>1. staged' \in [Threads -> BOOLEAN]
    BY <1>11 DEF GetDone, Kept, FullLength
  <2>2. <<Key, Content(t)>> \in {Key} \X Contents
    BY Zenon DEF Content, Contents
  <2>3. out' \in [Threads -> SUBSET ({Key} \X Contents)]
    BY <1>11, <2>2, Zenon DEF GetDone
  <2>4. known' \subseteq Procs
    BY <1>11, Zenon DEF GetDone, Proc
  <2>5. QED
    BY <1>11, <2>1, <2>3, <2>4, Zenon DEF GetDone, Close, Goto, disk
<1>12. ASSUME NEW t \in Threads, RemoveKnown(t) \/ RemoveFile(t) PROVE TypeOK'
  BY <1>12, Zenon DEF RemoveKnown, RemoveFile, Goto, buffers
<1>13. ASSUME NEW p \in Procs, SubmitPut(p) PROVE TypeOK'
  BY <1>13, Zenon DEF SubmitPut, disk, buffers
<1>14. ASSUME NEW p \in Procs, Crash(p) PROVE TypeOK'
  BY <1>14, Zenon DEF Crash, disk
<1>15. CASE UNCHANGED vars
  BY <1>15, Zenon DEF vars, disk, buffers
<1>16. QED
  BY <1>1, <1>2, <1>3, <1>4, <1>5, <1>6, <1>7, <1>8, <1>9, <1>10, <1>11, <1>12, <1>13, <1>14, <1>15, NextSplit, Zenon

LEMMA OwnedStep == ASSUME TypeOK, Owned, FinalIsWhole, [Next]_vars PROVE Owned' /\ FinalIsWhole'
<1>1. /\ pc \in [Threads -> Putting \cup Looking \cup Reading \cup {"idle", "remove"}]
      /\ file \in [Threads -> Files \cup {None}]
      /\ todo \in [Threads -> SUBSET Offsets]
      /\ header \in [Files -> BOOLEAN]
      /\ data \in [Files -> SUBSET Offsets]
      /\ final \in Files \cup {None}
  BY Zenon DEF TypeOK
\* A step that only lets puts go, or moves threads that are not storing.
<1>2. ASSUME UNCHANGED <<header, data>>, final' \in {final, None},
             \A t \in Threads : \/ pc'[t] \notin Storing
                                \/ pc'[t] = pc[t] /\ file'[t] = file[t] /\ todo'[t] = todo[t]
      PROVE  Owned' /\ FinalIsWhole'
  BY <1>1, <1>2, FilesAssumption DEF Owned, FinalIsWhole, Storing
<1>3. ASSUME NEW t \in Threads, Contains(t) \/ Stat(t) \/ See(t) PROVE Owned' /\ FinalIsWhole'
  BY <1>1, <1>2, <1>3, Zenon DEF Contains, Stat, See, Goto, disk, buffers, Storing
<1>4. ASSUME NEW t \in Threads, PutStart(t) \/ PutLook(t) \/ PutKnown(t) PROVE Owned' /\ FinalIsWhole'
  BY <1>1, <1>2, <1>4, Zenon DEF PutStart, PutLook, PutKnown, Goto, disk, buffers, Storing
<1>5. ASSUME NEW t \in Threads, PutWritten(t) PROVE Owned' /\ FinalIsWhole'
  <2>1. /\ UNCHANGED <<header, data, file, todo, final>> /\ todo[t] = {}
        /\ pc[t] = "put_payload" /\ pc' = [pc EXCEPT ![t] = "put_move"]
    BY <1>5, Zenon DEF PutWritten, Written, Goto, disk, buffers
  <2>2. data[file[t]] = Offsets /\ header[file[t]]
    BY <2>1, Zenon DEF Owned
  <2>3. QED
    BY <1>1, <2>1, <2>2 DEF Owned, FinalIsWhole, Storing
<1>6. ASSUME NEW t \in Threads, NEW f \in Files, PutOpen(t, f) PROVE Owned' /\ FinalIsWhole'
  <2>1. /\ f # final /\ \A u \in Threads : file[u] # f
        /\ file' = [file EXCEPT ![t] = f] /\ pc' = [pc EXCEPT ![t] = "put_header"]
        /\ header' = [header EXCEPT ![f] = FALSE] /\ data' = [data EXCEPT ![f] = {}]
        /\ final' = final /\ todo' = todo
    BY <1>6, Zenon DEF PutOpen, Unused, Linked, Goto
  <2>2. \A g \in Files : g # f => header'[g] = header[g] /\ data'[g] = data[g]
    BY <1>1, <2>1, Zenon
  <2>3. QED
    BY <1>1, <2>1, <2>2 DEF Owned, FinalIsWhole, Storing
<1>7. ASSUME NEW t \in Threads, PutHeader(t) PROVE Owned' /\ FinalIsWhole'
  <2>1. /\ pc[t] = "put_header" /\ pc' = [pc EXCEPT ![t] = "put_payload"]
        /\ header' = [header EXCEPT ![file[t]] = TRUE]
        /\ todo' = [todo EXCEPT ![t] = Offsets]
        /\ UNCHANGED <<final, data, file>>
    BY <1>7, Zenon DEF PutHeader, Goto, Span, Offsets
  <2>2. file[t] \in Files /\ file[t] # final /\ header'[file[t]]
    BY <1>1, <2>1, Zenon DEF Owned, Storing
  <2>3. \A g \in Files : g # file[t] => header'[g] = header[g]
    BY <1>1, <2>1, Zenon
  <2>4. data[file[t]] \cup Offsets = Offsets
    BY <1>1, <2>2, Zenon
  <2>5. QED
    BY <1>1, <2>1, <2>2, <2>3, <2>4 DEF Owned, FinalIsWhole, Storing
<1>8. ASSUME NEW t \in Threads, NEW i \in Offsets, PutChunk(t, i) PROVE Owned' /\ FinalIsWhole'
  <2>1. /\ pc[t] = "put_payload" /\ i \in todo[t]
        /\ data' = [data EXCEPT ![file[t]] = @ \cup {i}]
        /\ todo' = [todo EXCEPT ![t] = @ \ {i}]
        /\ UNCHANGED <<final, header, file, pc>>
    BY <1>8, Zenon DEF PutChunk
  <2>2. file[t] \in Files /\ file[t] # final
    BY <2>1, Zenon DEF Owned, Storing
  <2>3. data'[file[t]] \cup todo'[t] = Offsets
    BY <1>1, <2>1, <2>2 DEF Owned
  <2>4. /\ \A g \in Files : g # file[t] => data'[g] = data[g]
        /\ \A u \in Threads : u # t => todo'[u] = todo[u]
    BY <1>1, <2>1, Zenon
  <2>5. QED
    BY <1>1, <2>1, <2>2, <2>3, <2>4 DEF Owned, FinalIsWhole, Storing
<1>9. ASSUME NEW t \in Threads, NEW i \in Offsets, GetChunk(t, i) PROVE Owned' /\ FinalIsWhole'
  BY <1>1, <1>2, <1>9, Zenon DEF GetChunk, disk, Storing
<1>10. ASSUME NEW t \in Threads, PutMove(t) PROVE Owned' /\ FinalIsWhole'
  <2>1. /\ pc[t] = "put_move" /\ pc' = [pc EXCEPT ![t] = "put_known"]
        /\ final' = file[t] /\ file' = [file EXCEPT ![t] = None]
        /\ UNCHANGED <<header, data, todo>>
    BY <1>10, Zenon DEF PutMove, Goto, buffers
  <2>2. file[t] \in Files /\ header[file[t]] /\ data[file[t]] = Offsets
    BY <2>1, Zenon DEF Owned, Storing
  <2>3. \A u \in Threads : pc'[u] \in Storing => u # t /\ pc'[u] = pc[u] /\ file'[u] = file[u] /\ file[u] # file[t]
    BY <1>1, <2>1, Zenon DEF Owned, Storing
  <2>4. QED
    BY <2>1, <2>2, <2>3 DEF Owned, FinalIsWhole, Storing
<1>11. ASSUME NEW t \in Threads, PutRaises(t) \/ GetRaises(t) \/ GetDone(t) PROVE Owned' /\ FinalIsWhole'
  BY <1>1, <1>2, <1>11, Zenon DEF PutRaises, GetRaises, GetDone, Close, Goto, disk, Storing
<1>12. ASSUME NEW t \in Threads, GetOpen(t) \/ GetHeader(t) PROVE Owned' /\ FinalIsWhole'
  BY <1>1, <1>2, <1>12, Zenon DEF GetOpen, GetHeader, Close, Goto, disk, Storing
<1>13. ASSUME NEW t \in Threads, RemoveKnown(t) \/ RemoveFile(t) PROVE Owned' /\ FinalIsWhole'
  BY <1>1, <1>2, <1>13, Zenon DEF RemoveKnown, RemoveFile, Goto, buffers, Storing
<1>14. ASSUME NEW p \in Procs, SubmitPut(p) \/ Crash(p) PROVE Owned' /\ FinalIsWhole'
  BY <1>1, <1>2, <1>14, ZenonT(30) DEF SubmitPut, Crash, disk, buffers, Storing
<1>15. CASE UNCHANGED vars
  BY <1>2, <1>15, Zenon DEF vars, disk, buffers
<1>16. QED
  BY <1>3, <1>4, <1>5, <1>6, <1>7, <1>8, <1>9, <1>10, <1>11, <1>12, <1>13, <1>14, <1>15, NextSplit, Zenon
-----------------------------------------------------------------------------
LEMMA WholeInvHolds == Spec => []WholeInv
<1>1. Init => WholeInv
  BY Zenon DEF Init, WholeInv, TypeOK, Owned, FinalIsWhole, Storing
<1>2. WholeInv /\ [Next]_vars => WholeInv'
  BY TypeStep, OwnedStep, Zenon DEF WholeInv
<1>3. QED
  BY <1>1, <1>2, PTL DEF Spec

\* Whatever is under the final name has its header and every chunk, for any
\* number of processes, threads and chunks, whatever overlaps, fails or dies.
THEOREM FinalWhole == Spec => []FinalIsWhole
<1>1. WholeInv => FinalIsWhole
  BY Zenon DEF WholeInv
<1>2. QED
  BY <1>1, WholeInvHolds, PTL

\* Until somebody removes the key, no process's _known announces a key that
\* is not there.
THEOREM KnownStored == Spec => []KnownIsStored
<1>1. Init => KnownInv
  BY Zenon DEF Init, KnownInv, Reading
<1>2. WholeInv /\ KnownInv /\ [Next]_vars => KnownInv'
  BY KnownStep, Zenon DEF WholeInv
<1>3. KnownInv => KnownIsStored
  BY Zenon DEF KnownInv, KnownIsStored
<1>4. QED
  BY <1>1, <1>2, <1>3, WholeInvHolds, PTL DEF Spec

\* A get that is over holds a GPU object iff it handed it to its caller.
THEOREM BuffersReturned == Spec => []NoBufferLeak
<1>1. Init => BufferInv
  BY Zenon DEF Init, BufferInv, Reading
<1>2. WholeInv /\ BufferInv /\ [Next]_vars => BufferInv'
  BY BufferStep, Zenon DEF WholeInv
<1>3. BufferInv => NoBufferLeak
  BY Zenon DEF BufferInv, NoBufferLeak, Reading
<1>4. QED
  BY <1>1, <1>2, <1>3, WholeInvHolds, PTL DEF Spec
-----------------------------------------------------------------------------
(* The refinement of KvContract.                                           *)

\* The state functions the contract's variables stand for.
Open == [t \in Threads |-> pc[t] \in Reading]
Asked == [t \in Threads |-> IF pc[t] \in Reading THEN {Key} ELSE {}]
Hits == [t \in Threads |-> {hit \in out[t] : hit[2] # "cut"}]

\* What a get has open was complete when it was opened and is written by
\* nobody since, even after its name went to another file; while it still has
\* the name, every chunk the get has passed it has got.
ReadInv ==
    /\ final \notin temps
    /\ \A t \in Threads :
         /\ pc[t] \notin Reading => seen[t] = {}
         /\ pc[t] \in Reading =>
              /\ seen[t] = {Key}
              /\ file[t] \in Files \ temps
              /\ data[file[t]] = Offsets
              /\ \A u \in Threads : pc[u] \in Storing => file[u] # file[t]
         /\ pc[t] = "get_payload" /\ file[t] = final => got[t] \cup todo[t] = Offsets
-----------------------------------------------------------------------------
LEMMA ReadStep == ASSUME WholeInv, ReadInv, [Next]_vars PROVE ReadInv'
<1>1. /\ pc \in [Threads -> Putting \cup Looking \cup Reading \cup {"idle", "remove"}]
      /\ file \in [Threads -> Files \cup {None}]
      /\ todo \in [Threads -> SUBSET Offsets] /\ got \in [Threads -> SUBSET Offsets]
      /\ data \in [Files -> SUBSET Offsets]
      /\ seen \in [Threads -> SUBSET {Key}]
      /\ temps \subseteq Files
      /\ final \in Files \cup {None}
  BY Zenon DEF WholeInv, TypeOK
<1>2. ASSUME UNCHANGED <<data, temps>>, final' \in {final, None},
             \A t \in Threads :
               \/ pc'[t] \notin Reading \cup Storing /\ seen'[t] = {}
               \/ pc'[t] \in Storing /\ pc[t] \in Storing /\ file'[t] = file[t] /\ seen'[t] = seen[t]
               \/ /\ pc'[t] = pc[t] /\ file'[t] = file[t] /\ todo'[t] = todo[t] /\ got'[t] = got[t]
                  /\ seen'[t] = seen[t]
      PROVE  ReadInv'
  BY <1>1, <1>2, FilesAssumption DEF ReadInv, Reading, Storing
<1>3. ASSUME NEW t \in Threads, Contains(t) \/ Stat(t) \/ See(t) PROVE ReadInv'
  BY <1>1, <1>2, <1>3 DEF Contains, Stat, See, Goto, disk, buffers, Reading, Storing, ReadInv
<1>4. ASSUME NEW t \in Threads, PutStart(t) \/ PutLook(t) \/ PutWritten(t) \/ PutKnown(t) PROVE ReadInv'
  BY <1>1, <1>2, <1>4 DEF PutStart, PutLook, PutWritten, PutKnown, Goto, disk, buffers, Reading, Storing, ReadInv
<1>5. ASSUME NEW t \in Threads, NEW f \in Files, PutOpen(t, f) PROVE ReadInv'
  <2>1. /\ f # final /\ \A u \in Threads : file[u] # f
        /\ pc[t] = "put_open" /\ pc' = [pc EXCEPT ![t] = "put_header"]
        /\ file' = [file EXCEPT ![t] = f] /\ temps' = temps \cup {f}
        /\ data' = [data EXCEPT ![f] = {}]
        /\ UNCHANGED <<final, todo, got>>
        /\ seen' = [u \in Threads |-> IF pc[u] \in Reading THEN {Key} ELSE seen[u]]
    BY <1>5, Zenon DEF PutOpen, Unused, Linked, Goto
  <2>2. \A g \in Files : g # f => data'[g] = data[g]
    BY <1>1, <2>1, Zenon
  <2>3. QED
    BY <1>1, <2>1, <2>2 DEF ReadInv, Reading, Storing
<1>6. ASSUME NEW t \in Threads, PutHeader(t) PROVE ReadInv'
  BY <1>1, <1>2, <1>6, Zenon DEF PutHeader, Goto, Reading, Storing, ReadInv
<1>7. ASSUME NEW t \in Threads, NEW i \in Offsets, PutChunk(t, i) PROVE ReadInv'
  <2>1. /\ pc[t] = "put_payload" /\ data' = [data EXCEPT ![file[t]] = @ \cup {i}]
        /\ todo' = [todo EXCEPT ![t] = @ \ {i}]
        /\ UNCHANGED <<pc, file, final, temps, got, seen>>
    BY <1>7, Zenon DEF PutChunk
  <2>2. \A u \in Threads : pc[u] \in Reading => u # t /\ file[u] # file[t]
    BY <2>1, Zenon DEF ReadInv, Reading, Storing
  <2>3. \A u \in Threads : pc[u] \in Reading => data'[file[u]] = data[file[u]] /\ todo'[u] = todo[u]
    BY <1>1, <2>1, <2>2, Zenon DEF ReadInv
  <2>4. QED
    BY <2>1, <2>3, Zenon DEF ReadInv, Reading
<1>8. ASSUME NEW t \in Threads, PutMove(t) PROVE ReadInv'
  <2>1. /\ pc[t] = "put_move" /\ pc' = [pc EXCEPT ![t] = "put_known"]
        /\ final' = file[t] /\ temps' = temps \ {file[t]} /\ file' = [file EXCEPT ![t] = None]
        /\ UNCHANGED <<data, todo, got, seen>>
    BY <1>8, Zenon DEF PutMove, Goto, buffers
  <2>2. \A u \in Threads : pc[u] \in Reading => u # t /\ file[u] # file[t]
    BY <2>1, Zenon DEF ReadInv, Reading, Storing
  <2>3. QED
    BY <1>1, <2>1, <2>2, Zenon DEF ReadInv, Reading, Storing
<1>9. ASSUME NEW t \in Threads, PutRaises(t) \/ GetRaises(t) \/ GetDone(t) PROVE ReadInv'
  BY <1>1, <1>2, <1>9 DEF PutRaises, GetRaises, GetDone, Close, Goto, disk, Reading, Storing, ReadInv
<1>10. ASSUME NEW t \in Threads, NEW i \in Offsets, GetChunk(t, i) PROVE ReadInv'
  <2>1. /\ pc[t] = "get_payload" /\ i \in todo[t]
        /\ todo' = [todo EXCEPT ![t] = @ \ {i}]
        /\ UNCHANGED <<pc, file, final, temps, data, seen>>
    BY <1>10, Zenon DEF GetChunk, disk
  <2>2. \A u \in Threads \ {t} : got'[u] = got[u] /\ todo'[u] = todo[u]
    BY <1>1, <1>10, Zenon DEF GetChunk
  <2>3. file[t] = final => got'[t] = got[t] \cup {i}
    BY <1>1, <1>10, <2>1 DEF GetChunk, Linked, ReadInv, Reading
  <2>4. file[t] = final => got'[t] \cup todo'[t] = Offsets
    BY <1>1, <2>1, <2>3, Zenon DEF ReadInv
  <2>5. QED
    BY <2>1, <2>2, <2>4, Zenon DEF ReadInv
<1>11. ASSUME NEW t \in Threads, GetOpen(t) PROVE ReadInv'
  <2>1. CASE final = None
    BY <1>1, <1>2, <1>11, <2>1, Zenon DEF GetOpen, disk, ReadInv
  <2>2. CASE final # None
    <3>1. /\ pc[t] = "idle" /\ pc' = [pc EXCEPT ![t] = "get_header"]
          /\ file' = [file EXCEPT ![t] = final] /\ seen' = [seen EXCEPT ![t] = {Key}]
          /\ UNCHANGED <<final, temps, data, todo, got>>
      BY <1>11, <2>2, Zenon DEF GetOpen, Goto, Maybe, disk
    <3>2. data[final] = Offsets /\ \A u \in Threads : pc[u] \in Storing => file[u] # final
      BY <2>2, Zenon DEF WholeInv, FinalIsWhole, Owned
    <3>3. QED
      BY <1>1, <2>2, <3>1, <3>2, Zenon DEF ReadInv, Reading, Storing
  <2>3. QED
    BY <2>1, <2>2, Zenon
<1>12. ASSUME NEW t \in Threads, GetHeader(t) PROVE ReadInv'
  <2>1. CASE Close(t)
    <3>1. /\ pc' = [pc EXCEPT ![t] = "idle"] /\ file' = [file EXCEPT ![t] = None]
          /\ seen' = [seen EXCEPT ![t] = {}] /\ got' = [got EXCEPT ![t] = {}] /\ todo' = [todo EXCEPT ![t] = {}]
          /\ UNCHANGED <<final, temps, data>>
      BY <1>12, <2>1, Zenon DEF GetHeader, Close, Goto, disk
    <3>2. pc'[t] = "idle" /\ seen'[t] = {}
      BY <1>1, <3>1, Zenon
    <3>3. \A u \in Threads : u # t => /\ pc'[u] = pc[u] /\ file'[u] = file[u] /\ seen'[u] = seen[u]
                                     /\ got'[u] = got[u] /\ todo'[u] = todo[u]
      BY <1>1, <3>1, Zenon
    <3>4. QED
      <4>1. ASSUME NEW u \in Threads, pc'[u] \in Reading \cup Storing PROVE u # t
        BY <3>2, <4>1, Zenon DEF Reading, Storing
      <4>2. \A u \in Threads : pc'[u] \in Reading =>
              /\ seen'[u] = {Key} /\ file'[u] \in Files \ temps' /\ data'[file'[u]] = Offsets
              /\ \A v \in Threads : pc'[v] \in Storing => file'[v] # file'[u]
        <5> TAKE u \in Threads
        <5> HAVE pc'[u] \in Reading
        <5>1. u # t /\ pc[u] \in Reading /\ file'[u] = file[u] /\ seen'[u] = seen[u]
          BY <3>3, <4>1, Zenon
        <5>2. seen[u] = {Key} /\ file[u] \in Files \ temps /\ data[file[u]] = Offsets
          BY <5>1, Zenon DEF ReadInv
        <5>3. ASSUME NEW v \in Threads, pc'[v] \in Storing PROVE file'[v] # file'[u]
          <6>1. v # t /\ pc[v] \in Storing /\ file'[v] = file[v]
            BY <3>3, <4>1, <5>3, Zenon
          <6>2. QED
            BY <5>1, <6>1, Zenon DEF ReadInv
        <5>4. QED
          BY <3>1, <5>1, <5>2, <5>3, Zenon
      <4>3. \A u \in Threads : pc'[u] \notin Reading => seen'[u] = {}
        BY <3>2, <3>3, Zenon DEF ReadInv
      <4>4. \A u \in Threads : pc'[u] = "get_payload" /\ file'[u] = final' => got'[u] \cup todo'[u] = Offsets
        BY <3>1, <3>2, <3>3, ZenonT(30) DEF ReadInv
      <4>5. QED
        BY <3>1, <4>2, <4>3, <4>4, Zenon DEF ReadInv
  <2>2. CASE ~Close(t)
    <3>1. /\ pc[t] = "get_header" /\ pc' = [pc EXCEPT ![t] = "get_payload"]
          /\ todo' = [todo EXCEPT ![t] = Offsets]
          /\ UNCHANGED <<file, got, seen, final, temps, data>>
      BY <1>12, <2>2, Zenon DEF GetHeader, Goto, Span, Offsets, disk
    <3>2. got'[t] \cup todo'[t] = Offsets
      BY <1>1, <3>1, Zenon
    <3>3. QED
      BY <1>1, <3>1, <3>2, Zenon DEF ReadInv, Reading, Storing
  <2>3. QED
    BY <2>1, <2>2, Zenon
<1>13. ASSUME NEW t \in Threads, RemoveKnown(t) \/ RemoveFile(t) PROVE ReadInv'
  BY <1>1, <1>2, <1>13, Zenon DEF RemoveKnown, RemoveFile, Goto, buffers, Reading, Storing, ReadInv
<1>14. ASSUME NEW p \in Procs, SubmitPut(p) \/ Crash(p) PROVE ReadInv'
  <2>1. CASE SubmitPut(p)
    BY <1>2, <2>1, Zenon DEF SubmitPut, disk, buffers
  <2>2. CASE Crash(p)
    <3>1. UNCHANGED <<data, temps, final>>
      BY <2>2, Zenon DEF Crash, disk
    <3>2. \A t \in Threads :
            \/ pc'[t] = "idle" /\ seen'[t] = {}
            \/ pc'[t] = pc[t] /\ file'[t] = file[t] /\ todo'[t] = todo[t] /\ got'[t] = got[t] /\ seen'[t] = seen[t]
      BY <2>2, Zenon DEF Crash
    <3>3. QED
      BY <1>2, <3>1, <3>2, Zenon DEF Reading, Storing
  <2>3. QED
    BY <1>14, <2>1, <2>2, Zenon
<1>15. CASE UNCHANGED vars
  BY <1>2, <1>15, Zenon DEF vars, disk, buffers
<1>16. QED
  BY <1>3, <1>4, <1>5, <1>6, <1>7, <1>8, <1>9, <1>10, <1>11, <1>12, <1>13, <1>14, <1>15, NextSplit, Zenon

LEMMA ReadInvHolds == Spec => []ReadInv
<1>1. Init => ReadInv
  BY Zenon DEF Init, ReadInv, Reading
<1>2. QED
  BY <1>1, ReadStep, WholeInvHolds, PTL DEF Spec
-----------------------------------------------------------------------------
(* The mapping.                                                            *)

\* A step that neither opens nor moves a put's file makes nothing possibly stored.
LEMMA MaybeShrinks ==
    ASSUME final' \in {final, None}, \A t \in Threads : pc'[t] \in Storing => pc[t] \in Storing
    PROVE  Maybe' \subseteq Maybe
  BY Zenon DEF Maybe

\* How the gets of the threads in P end, or begin, shows in the mapping.
LEMMA OpenOf ==
    ASSUME NEW P \in SUBSET Threads, NEW b \in BOOLEAN, \A t \in P : (pc'[t] \in Reading) <=> b,
           \A t \in Threads \ P : (pc'[t] \in Reading) <=> (pc[t] \in Reading)
    PROVE  Open' = [t \in Threads |-> IF t \in P THEN b ELSE Open[t]]
<1>1. \A t \in Threads : (pc'[t] \in Reading) = (IF t \in P THEN b ELSE pc[t] \in Reading)
  <2> TAKE t \in Threads
  <2>1. CASE t \in P
    <3>1. CASE b
      BY <2>1, <3>1, Zenon
    <3>2. CASE ~b
      BY <2>1, <3>2
    <3>3. QED
      BY <3>1, <3>2, Zenon
  <2>2. CASE t \notin P
    BY <2>2
  <2>3. QED
    BY <2>1, <2>2, Zenon
<1>2. Open' = [t \in Threads |-> IF t \in P THEN b ELSE pc[t] \in Reading]
  BY <1>1, Zenon DEF Open
<1>3. \A t \in Threads : (IF t \in P THEN b ELSE Open[t]) = (IF t \in P THEN b ELSE pc[t] \in Reading)
  BY Zenon DEF Open
<1>4. [t \in Threads |-> IF t \in P THEN b ELSE Open[t]] = [t \in Threads |-> IF t \in P THEN b ELSE pc[t] \in Reading]
  BY <1>3, Zenon
<1>5. QED
  BY <1>2, <1>4, Zenon

LEMMA OpenAt ==
    ASSUME NEW t \in Threads, NEW b \in BOOLEAN PROVE
      [u \in Threads |-> IF u \in {t} THEN b ELSE Open[u]] = [Open EXCEPT ![t] = b]
  BY Zenon DEF Open

LEMMA OpenSame ==
    ASSUME \A t \in Threads : (pc'[t] \in Reading) <=> (pc[t] \in Reading) PROVE Open' = Open
<1>1. \A t \in Threads : (pc'[t] \in Reading) = (pc[t] \in Reading)
  OBVIOUS
<1>2. QED
  BY <1>1, Zenon DEF Open

\* A step that neither begins nor ends a get, nor begins a put.
LEMMA LoseStep ==
    ASSUME \A t \in Threads : (pc'[t] \in Reading) <=> (pc[t] \in Reading),
           Maybe' \subseteq Maybe, seen' = seen, out' = out
    PROVE  Contract!Next
<1>1. Maybe \ Maybe' \in SUBSET {Key}
  BY Zenon DEF Maybe
<1>2. Open' = Open /\ Asked' = Asked /\ Hits' = Hits
  BY OpenSame, Zenon DEF Asked, Hits
<1>3. Contract!Lose(Maybe \ Maybe')
  BY <1>2, Zenon DEF Contract!Lose, Open, Asked, Hits
<1>4. QED
  BY <1>1, <1>3, Zenon DEF Contract!Next

\* The get of t ends; it hands out the key, or nothing.
LEMMA AnswerStep ==
    ASSUME WholeInv, ReadInv, NEW t \in Threads, pc[t] \in Reading, Close(t), final' = final,
           NEW H \in SUBSET {Key}, Hits' = [Hits EXCEPT ![t] = H \X {"stored"}]
    PROVE  Contract!Next
<1>1. pc \in [Threads -> Putting \cup Looking \cup Reading \cup {"idle", "remove"}] /\ seen[t] = {Key}
  BY Zenon DEF WholeInv, TypeOK, ReadInv
<1>2. pc'[t] = "idle" /\ \A u \in Threads \ {t} : pc'[u] = pc[u]
  BY <1>1, Zenon DEF Close, Goto
<1>3. Open' = [Open EXCEPT ![t] = FALSE]
  <2>1. Open' = [u \in Threads |-> IF u \in {t} THEN FALSE ELSE Open[u]]
    BY <1>2, OpenOf, Zenon DEF Reading
  <2>2. QED
    BY <2>1, OpenAt, Zenon
<1>4. Asked' = [Asked EXCEPT ![t] = {}] /\ Asked[t] = {Key}
  BY <1>2, Zenon DEF Asked, Reading
<1>5. Maybe' = Maybe
  BY <1>2, Zenon DEF Maybe, Reading, Storing
<1>6. Contract!Answer(t, H)
  BY <1>1, <1>3, <1>4, <1>5, Zenon DEF Contract!Answer, Open, Asked, Hits, Close
<1>7. QED
  BY <1>6, Zenon DEF Contract!Next

\* What a get that goes to the end hands out is stored, or cut.
LEMMA NeverTorn ==
    ASSUME WholeInv, ReadInv, NEW t \in Threads, pc[t] = "get_payload", todo[t] = {}, FullLength(got[t])
    PROVE  Content(t) \in {"stored", "cut"}
<1>1. file[t] = final => got[t] = Offsets
  BY Zenon DEF ReadInv, WholeInv, TypeOK
<1>2. Linked(file[t]) => file[t] = final
  BY Zenon DEF Linked, ReadInv, Reading
<1>3. QED
  BY <1>1, <1>2, Zenon DEF Content, FullLength

\* Every step is a step of the contract.
LEMMA MappedStep == ASSUME WholeInv, BufferInv, ReadInv, Next PROVE Contract!Next
<1>1. /\ pc \in [Threads -> Putting \cup Looking \cup Reading \cup {"idle", "remove"}]
      /\ seen \in [Threads -> SUBSET {Key}]
      /\ out \in [Threads -> SUBSET ({Key} \X Contents)]
  BY Zenon DEF WholeInv, TypeOK
<1>2. ASSUME NEW t \in Threads, Contains(t) \/ Stat(t) \/ See(t) \/ RemoveKnown(t) \/ RemoveFile(t) PROVE Contract!Next
  <2>1. Maybe' \subseteq Maybe
    BY <1>1, <1>2, MaybeShrinks, Zenon DEF Contains, Stat, See, RemoveKnown, RemoveFile, Goto, disk, Storing
  <2>2. QED
    BY <1>1, <1>2, <2>1, LoseStep, Zenon DEF Contains, Stat, See, RemoveKnown, RemoveFile, Goto, buffers, Reading
<1>3. ASSUME NEW t \in Threads, PutStart(t) \/ PutLook(t) \/ PutWritten(t) \/ PutKnown(t) \/ PutHeader(t) \/ PutMove(t)
      PROVE  Contract!Next
  <2>1. Maybe' \subseteq Maybe
    <3>1. CASE PutMove(t)
      BY <3>1, Zenon DEF PutMove, Maybe, Storing
    <3>2. CASE ~PutMove(t)
      BY <1>1, <1>3, <3>2, MaybeShrinks, Zenon DEF PutStart, PutLook, PutWritten, PutKnown, PutHeader, Goto, disk, Storing
    <3>3. QED
      BY <3>1, <3>2, Zenon
  <2>2. QED
    BY <1>1, <1>3, <2>1, LoseStep, Zenon DEF PutStart, PutLook, PutWritten, PutKnown, PutHeader, PutMove, Goto, buffers,
       Reading
<1>4. ASSUME NEW t \in Threads, NEW f \in Files, PutOpen(t, f) PROVE Contract!Next
  <2>1. pc[t] = "put_open" /\ pc' = [pc EXCEPT ![t] = "put_header"] /\ out' = out /\ final' = final
    BY <1>4, Zenon DEF PutOpen, Goto
  <2>2. Open' = Open /\ Asked' = Asked /\ Hits' = Hits
    BY <1>1, <2>1, OpenSame, Zenon DEF Reading, Asked, Hits
  <2>3. Maybe' = Maybe \cup {Key}
    BY <1>1, <2>1, Zenon DEF Maybe, Storing
  <2>4. \A u \in Threads : (IF pc[u] \in Reading THEN {Key} ELSE seen[u])
                           = (IF Open[u] THEN seen[u] \cup {Key} ELSE seen[u])
    BY <1>1, Zenon DEF Open
  <2>5. seen' = [u \in Threads |-> IF Open[u] THEN seen[u] \cup {Key} ELSE seen[u]]
    BY <1>4, <2>4, Zenon DEF PutOpen
  <2>6. Contract!Submit({Key})
    BY <2>2, <2>3, <2>5, Zenon DEF Contract!Submit, Open, Asked, Hits
  <2>7. QED
    BY <2>6, Zenon DEF Contract!Next
<1>5. ASSUME NEW t \in Threads, PutRaises(t) PROVE Contract!Next
  <2>1. Maybe' \subseteq Maybe
    BY <1>1, <1>5, MaybeShrinks, Zenon DEF PutRaises, Close, Goto, disk, Storing
  <2>2. pc[t] \notin Reading /\ pc' = [pc EXCEPT ![t] = "idle"] /\ out' = out /\ seen' = [seen EXCEPT ![t] = {}]
    BY <1>5, Zenon DEF PutRaises, Close, Goto, Reading
  <2>3. seen' = seen
    BY <1>1, <2>2, Zenon DEF ReadInv
  <2>4. QED
    BY <1>1, <2>1, <2>2, <2>3, LoseStep, Zenon DEF Reading
<1>6. ASSUME NEW t \in Threads, NEW i \in Offsets, PutChunk(t, i) \/ GetChunk(t, i) PROVE Contract!Next
  <2>1. UNCHANGED <<pc, final, seen, out>>
    BY <1>6, Zenon DEF PutChunk, GetChunk, disk
  <2>2. Maybe' \subseteq Maybe
    BY <2>1, Zenon DEF Maybe
  <2>3. QED
    BY <2>1, <2>2, LoseStep, Zenon
<1>7. ASSUME NEW t \in Threads, GetOpen(t) PROVE Contract!Next
  <2>1. pc[t] = "idle" /\ out' = [out EXCEPT ![t] = {}] /\ final' = final /\ seen[t] = {}
    BY <1>7, Zenon DEF GetOpen, disk, ReadInv, Reading
  <2>2. Hits' = [Hits EXCEPT ![t] = {}]
    BY <1>1, <2>1, Zenon DEF Hits
  <2>3. CASE final = None
    <3>1. pc' = pc /\ seen' = seen
      BY <1>7, <2>3, Zenon DEF GetOpen
    <3>2. PICK P \in SUBSET Threads : P = {t}
      BY Zenon
    <3>3. Open' = [u \in Threads |-> IF u \in P THEN FALSE ELSE Open[u]]
      BY <2>1, <3>1, <3>2, OpenOf, Zenon DEF Reading
    <3>4. /\ Asked' = [u \in Threads |-> IF u \in P THEN {} ELSE Asked[u]]
          /\ seen' = [u \in Threads |-> IF u \in P THEN {} ELSE seen[u]]
      BY <1>1, <2>1, <3>1, <3>2, Zenon DEF Asked, Reading
    <3>5. Hits' = [u \in Threads |-> IF u \in P THEN {} ELSE Hits[u]]
      BY <2>2, <3>2, Zenon DEF Hits
    <3>6. Maybe' = Maybe \ {}
      BY <2>1, <3>1, Zenon DEF Maybe
    <3>7. Contract!Forget(P, {})
      BY <3>3, <3>4, <3>5, <3>6, Zenon DEF Contract!Forget, Open, Asked, Hits
    <3>8. QED
      BY <3>7, Zenon DEF Contract!Next
  <2>4. CASE final # None
    <3>1. pc' = [pc EXCEPT ![t] = "get_header"] /\ seen' = [seen EXCEPT ![t] = Maybe]
      BY <1>7, <2>4, Zenon DEF GetOpen, Goto
    <3>2. Open' = [Open EXCEPT ![t] = TRUE]
      <4>1. PICK b \in BOOLEAN : b = TRUE
        BY Zenon
      <4>2. pc'[t] \in Reading /\ \A u \in Threads \ {t} : pc'[u] = pc[u]
        BY <1>1, <3>1, Zenon DEF Reading
      <4>3. Open' = [u \in Threads |-> IF u \in {t} THEN b ELSE Open[u]]
        BY <4>1, <4>2, OpenOf, ZenonT(30)
      <4>4. QED
        BY <4>1, <4>3, OpenAt, Zenon
    <3>3. Asked' = [Asked EXCEPT ![t] = {Key}] /\ ~Open[t]
      BY <1>1, <2>1, <3>1, Zenon DEF Asked, Open, Reading
    <3>4. Maybe' = Maybe
      BY <1>1, <2>1, <2>4, Zenon DEF Maybe
    <3>5. Contract!Begin(t, {Key})
      BY <2>2, <3>1, <3>2, <3>3, <3>4, Zenon DEF Contract!Begin, Open, Asked, Hits
    <3>6. QED
      BY <3>5, Zenon DEF Contract!Next
  <2>5. QED
    BY <2>3, <2>4, Zenon
<1>8. ASSUME NEW t \in Threads, pc[t] \in Reading, Close(t), final' = final, out' = out PROVE Contract!Next
  <2>1. {} \X {"stored"} = {}
    BY Zenon
  <2>2. Hits[t] = {}
    BY <1>8, Zenon DEF BufferInv, Hits, Reading
  <2>3. PICK H \in SUBSET {Key} : H = {}
    BY Zenon
  <2>4. Hits' = [Hits EXCEPT ![t] = H \X {"stored"}]
    BY <1>8, <2>1, <2>2, <2>3, Zenon DEF Hits
  <2>5. QED
    BY <1>8, <2>4, AnswerStep, Zenon
<1>9. ASSUME NEW t \in Threads, GetHeader(t) PROVE Contract!Next
  <2>1. CASE Close(t)
    BY <1>8, <1>9, <2>1, Zenon DEF GetHeader, disk, Reading
  <2>2. CASE ~Close(t)
    <3>1. pc[t] = "get_header" /\ pc' = [pc EXCEPT ![t] = "get_payload"] /\ UNCHANGED <<seen, out, final>>
      BY <1>9, <2>2, Zenon DEF GetHeader, Goto, disk
    <3>2. Maybe' \subseteq Maybe
      BY <1>1, <3>1, Zenon DEF Maybe, Storing
    <3>3. QED
      BY <1>1, <3>1, <3>2, LoseStep, Zenon DEF Reading
  <2>3. QED
    BY <2>1, <2>2, Zenon
<1>10. ASSUME NEW t \in Threads, GetRaises(t) PROVE Contract!Next
  BY <1>8, <1>10, Zenon DEF GetRaises, disk
<1>11. ASSUME NEW t \in Threads, GetDone(t) PROVE Contract!Next
  <2>1. /\ pc[t] = "get_payload" /\ todo[t] = {} /\ Close(t) /\ final' = final
        /\ out' = [out EXCEPT ![t] = IF FullLength(got[t]) THEN {<<Key, Content(t)>>} ELSE {}]
    BY <1>11, Zenon DEF GetDone, disk
  <2>2. PICK H \in SUBSET {Key} : H = IF FullLength(got[t]) /\ Content(t) = "stored" THEN {Key} ELSE {}
    BY Zenon
  <2>3. {hit \in (IF FullLength(got[t]) THEN {<<Key, Content(t)>>} ELSE {}) : hit[2] # "cut"} = H \X {"stored"}
    <3>1. FullLength(got[t]) => Content(t) \in {"stored", "cut"}
      BY <2>1, NeverTorn, Zenon
    <3>2. CASE ~FullLength(got[t])
      BY <2>2, <3>2, Zenon
    <3>3. CASE FullLength(got[t]) /\ Content(t) = "stored"
      BY <2>2, <3>3
    <3>4. CASE FullLength(got[t]) /\ Content(t) = "cut"
      BY <2>2, <3>4
    <3>5. QED
      BY <3>1, <3>2, <3>3, <3>4, Zenon
  <2>4. Hits' = [Hits EXCEPT ![t] = H \X {"stored"}]
    BY <1>1, <2>1, <2>3, Zenon DEF Hits
  <2>5. QED
    BY <2>1, <2>4, AnswerStep, Zenon DEF Reading
<1>12. ASSUME NEW p \in Procs, SubmitPut(p) PROVE Contract!Next
  <2>1. UNCHANGED <<pc, final, seen, out>>
    BY <1>12, Zenon DEF SubmitPut, disk, buffers
  <2>2. QED
    BY <2>1, LoseStep, Zenon DEF Maybe
<1>13. ASSUME NEW p \in Procs, Crash(p) PROVE Contract!Next
  <2>1. PICK P \in SUBSET Threads : P = {t \in Threads : home[t] = p}
    BY Zenon
  <2>2. /\ pc' = [t \in Threads |-> IF t \in P THEN "idle" ELSE pc[t]]
        /\ seen' = [t \in Threads |-> IF t \in P THEN {} ELSE seen[t]]
        /\ out' = [t \in Threads |-> IF t \in P THEN {} ELSE out[t]]
    BY <1>13, <2>1, Zenon DEF Crash, Proc
  <2>3. Open' = [t \in Threads |-> IF t \in P THEN FALSE ELSE Open[t]]
    BY <2>2, OpenOf, Zenon DEF Reading
  <2>4. /\ Asked' = [t \in Threads |-> IF t \in P THEN {} ELSE Asked[t]]
        /\ Hits' = [t \in Threads |-> IF t \in P THEN {} ELSE Hits[t]]
    BY <2>2, Zenon DEF Asked, Hits, Reading
  <2>5. PICK S \in SUBSET {Key} : Maybe' = Maybe \ S
    <3>1. final' = final /\ \A t \in Threads : pc'[t] \in Storing => pc[t] \in Storing
      BY <1>13, <2>2, Zenon DEF Crash, disk, Storing
    <3>2. Maybe' \subseteq Maybe
      BY <3>1, Zenon DEF Maybe
    <3>3. Maybe \ Maybe' \in SUBSET {Key} /\ Maybe' = Maybe \ (Maybe \ Maybe')
      BY <3>2, Zenon DEF Maybe
    <3>4. QED
      BY <3>3, Zenon
  <2>6. Contract!Forget(P, S)
    BY <2>2, <2>3, <2>4, <2>5, Zenon DEF Contract!Forget, Open, Asked, Hits
  <2>7. QED
    BY <2>6, Zenon DEF Contract!Next
<1>14. QED
  BY <1>2, <1>3, <1>4, <1>5, <1>6, <1>7, <1>9, <1>10, <1>11, <1>12, <1>13, NextSplit, Zenon

\* The GDS backend implements KvContract, for any processes, threads, files and
\* chunks: but for reads cut by a remove or a rename, no get hands out an object
\* no put finished, whatever puts, removes, failures and crashes it meets
\* (_put_one, get_blocking).
THEOREM KeepsContract == Spec => ContractSpec
<1>1. Init => Contract!Init
  <2> SUFFICES ASSUME Init PROVE Contract!Init
    BY Zenon
  <2>1. Maybe = {}
    BY Zenon DEF Init, Maybe, Storing
  <2>2. \A t \in Threads : (pc[t] \in Reading) = FALSE
    BY DEF Init, Reading
  <2>3. [t \in Threads |-> pc[t] \in Reading] = [t \in Threads |-> FALSE]
    BY <2>2, Zenon
  <2>4. /\ [t \in Threads |-> IF pc[t] \in Reading THEN {Key} ELSE {}] = [t \in Threads |-> {}]
        /\ [t \in Threads |-> {hit \in out[t] : hit[2] # "cut"}] = [t \in Threads |-> {}]
    BY <2>2, Zenon DEF Init
  <2>5. QED
    BY <2>1, <2>3, <2>4, Zenon DEF Init, Contract!Init
<1>2. WholeInv /\ BufferInv /\ ReadInv /\ [Next]_vars => [Contract!Next]_(Contract!vars)
  <2> SUFFICES ASSUME WholeInv, BufferInv, ReadInv, [Next]_vars
               PROVE  Contract!Next \/ UNCHANGED Contract!vars
    BY Zenon
  <2>1. CASE UNCHANGED vars
    BY <2>1, Zenon DEF vars, disk, buffers, Contract!vars, Maybe
  <2>2. QED
    BY <2>1, MappedStep, Zenon
<1>3. Spec => []BufferInv
  <2>1. Init => BufferInv
    BY Zenon DEF Init, BufferInv, Reading
  <2>2. WholeInv /\ BufferInv /\ [Next]_vars => BufferInv'
    BY BufferStep, Zenon DEF WholeInv
  <2>3. QED
    BY <2>1, <2>2, WholeInvHolds, PTL DEF Spec
<1>4. QED
  BY <1>1, <1>2, <1>3, WholeInvHolds, ReadInvHolds, PTL DEF Spec, ContractSpec, Contract!Spec
-----------------------------------------------------------------------------
(* Batched gets: the objects alive are those handed out.                   *)

Gets == Maps \cup Gathers

\* A job of a get that is still to be done: submitted, and without a result.
Undone(job, st, res) ==
    /\ job[2] \in 1 .. Keys
    /\ st[job[1]] # "new"
    /\ res[job[1]][job[2]] = "none"

\* The keys of a get are submitted once: each has one job, in one place.
JobsOk(q, wk, st, res) ==
    /\ \A n \in 1 .. Len(q) : q[n][1] \in Gets => Undone(q[n], st, res)
    /\ \A w \in Workers : wk[w] # <<>> /\ wk[w][1] \in Gets => Undone(wk[w], st, res)
    /\ \A m, n \in 1 .. Len(q) : q[m] = q[n] /\ q[n][1] \in Gets => m = n
    /\ \A w \in Workers, n \in 1 .. Len(q) : q[n][1] \in Gets => wk[w] # q[n]
    /\ \A v, w \in Workers : wk[v] = wk[w] /\ wk[w] # <<>> /\ wk[w][1] \in Gets => v = w
JobsInv == JobsOk(queue, worker, state, result)

\* Until its call returns, every hit holds its object; afterwards the leading ones.
ObjectsInv ==
    \A c \in Gets :
        /\ state[c] = "new" => \A i \in 1 .. Keys : result[c][i] = "none"
        /\ state[c] # "done" => held[c] = {i \in 1 .. Keys : result[c][i] = "hit"}
        /\ state[c] = "done" => Complete(c) /\ held[c] = 1 .. answer[c]

BatchInv == BatchTypeOK /\ JobsInv /\ ObjectsInv

\* A set of positions that has every position before each of its own is a prefix.
LEMMA Leading ==
    ASSUME NEW K \in Nat, NEW S \in SUBSET (1 .. K), \A i \in S : \A j \in 1 .. i : j \in S
    PROVE  S = 1 .. Cardinality(S) /\ Cardinality(S) \in 0 .. K
<1> DEFINE D == {n \in Nat : n + 1 \notin S}
<1>1. K \in D
  OBVIOUS
<1>2. PICK n \in D : \A m \in D : ~(<<m, n>> \in OpToRel(<, Nat))
  BY <1>1, NatLessThanWellFounded, WFMin, Zenon
<1>3. \A i, j \in Nat : i < j => <<i, j>> \in OpToRel(<, Nat)
  BY Zenon DEF OpToRel
<1>4. \A m \in D : ~(m < n)
  BY <1>2, <1>3, Zenon
<1>5. n \in Nat /\ n + 1 \notin S /\ n =< K
  BY <1>1, <1>4
<1>6. \A i \in 1 .. n : i \in S
  <2> SUFFICES ASSUME NEW i \in 1 .. n, i \notin S PROVE FALSE
    BY Zenon
  <2>1. i - 1 \in D /\ i - 1 < n
    BY <1>5
  <2>2. QED
    BY <1>4, <2>1, Zenon
<1>7. \A i \in S : i \in 1 .. n
  BY <1>5
<1>8. S = 1 .. n
  BY <1>6, <1>7, Zenon
<1>9. 1 \in Int /\ n \in Int /\ 1 =< n + 1
  BY <1>5
<1>10. Cardinality(1 .. n) = n
  BY <1>5, <1>9, FS_Interval
<1>11. QED
  BY <1>5, <1>8, <1>10

LEMMA Joined ==
    ASSUME NEW T, NEW q \in Seq(T), NEW r \in Seq(T)
    PROVE  /\ q \o r \in Seq(T) /\ Len(q \o r) = Len(q) + Len(r) /\ Len(q) \in Nat /\ Len(r) \in Nat
           /\ \A n \in 1 .. Len(q) : (q \o r)[n] = q[n]
           /\ \A n \in 1 .. Len(r) : (q \o r)[Len(q) + n] = r[n]
           /\ \A n \in 1 .. Len(q \o r) : n \in 1 .. Len(q) \/ \E m \in 1 .. Len(r) : n = Len(q) + m
<1>1. /\ q \o r \in Seq(T) /\ Len(q \o r) = Len(q) + Len(r) /\ Len(q) \in Nat /\ Len(r) \in Nat
      /\ \A n \in 1 .. Len(q) : (q \o r)[n] = q[n]
      /\ \A n \in 1 .. Len(r) : (q \o r)[Len(q) + n] = r[n]
  <2>1. q \o r \in Seq(T) /\ Len(q \o r) = Len(q) + Len(r)
    OBVIOUS
  <2>2. Len(q) \in Nat /\ Len(r) \in Nat
    OBVIOUS
  <2>3. ASSUME NEW n \in 1 .. Len(q) PROVE (q \o r)[n] = q[n]
    OBVIOUS
  <2>4. ASSUME NEW n \in 1 .. Len(r) PROVE (q \o r)[Len(q) + n] = r[n]
    OBVIOUS
  <2>5. QED
    BY <2>1, <2>2, <2>3, <2>4, Zenon
<1>2. ASSUME NEW a \in Nat, NEW b \in Nat, NEW n \in 1 .. a + b
      PROVE  n \in 1 .. a \/ \E m \in 1 .. b : n = a + m
  <2>1. n > a => n - a \in 1 .. b /\ n = a + (n - a)
    OBVIOUS
  <2>2. QED
    BY <2>1
<1>3. \A n \in 1 .. Len(q) + Len(r) : n \in 1 .. Len(q) \/ \E m \in 1 .. Len(r) : n = Len(q) + m
  BY <1>1, <1>2, Zenon
<1>4. QED
  BY <1>1, <1>3, Zenon

\* The jobs of a call's keys.
LEMMA FanFacts ==
    ASSUME Keys \in Nat \ {0}, NEW c \in Calls
    PROVE  /\ Fan(c) \in Seq(Job) /\ Len(Fan(c)) = Keys
           /\ \A n \in 1 .. Keys : Fan(c)[n] = <<c, n>>
<1>1. \A n \in 1 .. Keys : <<c, n>> \in Job
  BY Zenon DEF Job, Items
<1>2. Fan(c) = [n \in 1 .. Keys |-> <<c, n>>]
  BY Zenon DEF Fan, Items
<1>3. QED
  BY <1>1, <1>2

LEMMA JobFacts ==
    \A job \in Job : /\ job # <<>> /\ job[1] \in Calls /\ job = <<job[1], job[2]>>
                     /\ job[2] \in 1 .. Keys \/ job[2] = 0
  BY DEF Job, Items, Outer

\* The queue grows by jobs that are no get's.
LEMMA JobsApart ==
    ASSUME NEW q \in Seq(Job), NEW r \in Seq(Job), NEW wk, NEW st, NEW res,
           \A n \in 1 .. Len(r) : r[n][1] \notin Gets,
           JobsOk(q, wk, st, res)
    PROVE  JobsOk(q \o r, wk, st, res)
<1> DEFINE z == q \o r
<1>1. /\ \A n \in 1 .. Len(q) : z[n] = q[n]
      /\ \A n \in 1 .. Len(r) : z[Len(q) + n] = r[n]
      /\ \A n \in 1 .. Len(z) : n \in 1 .. Len(q) \/ \E m \in 1 .. Len(r) : n = Len(q) + m
  <2>1. \A n \in 1 .. Len(q) : z[n] = q[n]
    BY Joined
  <2>2. \A n \in 1 .. Len(r) : z[Len(q) + n] = r[n]
    BY Joined
  <2>3. \A n \in 1 .. Len(z) : n \in 1 .. Len(q) \/ \E m \in 1 .. Len(r) : n = Len(q) + m
    BY Joined
  <2>4. QED
    BY <2>1, <2>2, <2>3, Zenon
<1> HIDE DEF z
<1>2. \A n \in 1 .. Len(z) : z[n][1] \in Gets => n \in 1 .. Len(q) /\ z[n] = q[n]
  <2> SUFFICES ASSUME NEW n \in 1 .. Len(z), z[n][1] \in Gets PROVE n \in 1 .. Len(q) /\ z[n] = q[n]
    BY Zenon
  <2>1. ASSUME NEW m \in 1 .. Len(r), n = Len(q) + m PROVE FALSE
    <3>1. z[n] = r[m]
      BY <1>1, <2>1, Zenon
    <3>2. QED
      BY <3>1, Zenon
  <2>2. QED
    BY <1>1, <2>1, Zenon
<1>3. JobsOk(z, wk, st, res)
  BY <1>2, ZenonT(30) DEF JobsOk
<1>4. QED
  BY <1>3, Zenon DEF z

\* The queue grows by the jobs of a get that had none.
LEMMA JobsFanned ==
    ASSUME Keys \in Nat \ {0}, NEW q \in Seq(Job), NEW wk, NEW St, NEW st \in [Calls -> St], NEW st2, NEW res,
           NEW c \in Gets, st[c] = "new", st2 = [st EXCEPT ![c] = "called"],
           \A i \in 1 .. Keys : res[c][i] = "none",
           JobsOk(q, wk, st, res)
    PROVE  JobsOk(q \o Fan(c), wk, st2, res)
<1> DEFINE r == Fan(c)
           z == q \o r
<1>0. Gets \subseteq Calls
  BY Zenon DEF Gets, Calls
<1>1. r \in Seq(Job) /\ Len(r) = Keys /\ \A n \in 1 .. Keys : r[n] = <<c, n>>
  BY <1>0, FanFacts, Zenon
<1> HIDE DEF r
<1>2. /\ \A n \in 1 .. Len(q) : z[n] = q[n]
      /\ \A n \in 1 .. Keys : z[Len(q) + n] = <<c, n>>
      /\ \A n \in 1 .. Len(z) : n \in 1 .. Len(q) \/ \E m \in 1 .. Keys : n = Len(q) + m
      /\ Len(q) \in Nat
  <2>1. /\ \A n \in 1 .. Len(q) : z[n] = q[n]
        /\ \A n \in 1 .. Len(r) : z[Len(q) + n] = r[n]
        /\ \A n \in 1 .. Len(z) : n \in 1 .. Len(q) \/ \E m \in 1 .. Len(r) : n = Len(q) + m
        /\ Len(q) \in Nat
    <3>1. r \in Seq(Job)
      BY <1>1, Zenon
    <3>2. QED
      BY <3>1, Joined
  <2> HIDE DEF z
  <2>2. QED
    BY <1>1, <2>1, Zenon
<1> HIDE DEF z
<1>3. \A job : job[1] \in Gets /\ Undone(job, st, res) => job[1] # c /\ Undone(job, st2, res)
  BY <1>0, Zenon DEF Undone
<1>4. \A m \in 1 .. Keys : Undone(<<c, m>>, st2, res) /\ <<c, m>>[1] = c
  BY <1>0, Zenon DEF Undone
<1>5. /\ \A n \in 1 .. Len(q) : q[n][1] \in Gets => q[n][1] # c /\ Undone(q[n], st2, res)
      /\ \A w \in Workers : wk[w] # <<>> /\ wk[w][1] \in Gets => wk[w][1] # c /\ Undone(wk[w], st2, res)
  BY <1>3, Zenon DEF JobsOk
<1>6. ASSUME NEW n \in 1 .. Len(z), z[n][1] \in Gets
      PROVE  \/ n \in 1 .. Len(q) /\ z[n] = q[n] /\ z[n][1] # c
             \/ \E m \in 1 .. Keys : n = Len(q) + m /\ z[n] = <<c, m>>
  <2>1. CASE n \in 1 .. Len(q)
    BY <1>2, <1>5, <1>6, <2>1, Zenon
  <2>2. ASSUME NEW m \in 1 .. Keys, n = Len(q) + m PROVE z[n] = <<c, m>>
    BY <1>2, <2>2, Zenon
  <2>3. QED
    BY <1>2, <2>1, <2>2, Zenon
<1>7. \A n \in 1 .. Len(z) : z[n][1] \in Gets => Undone(z[n], st2, res)
  <2> SUFFICES ASSUME NEW n \in 1 .. Len(z), z[n][1] \in Gets PROVE Undone(z[n], st2, res)
    BY Zenon
  <2>1. CASE n \in 1 .. Len(q) /\ z[n] = q[n]
    BY <1>5, <2>1, Zenon
  <2>2. ASSUME NEW m \in 1 .. Keys, z[n] = <<c, m>> PROVE Undone(z[n], st2, res)
    BY <1>4, <2>2, Zenon
  <2>3. QED
    BY <1>6, <2>1, <2>2, Zenon
<1>8. \A w \in Workers : wk[w] # <<>> /\ wk[w][1] \in Gets => Undone(wk[w], st2, res)
  BY <1>5, Zenon
<1>9. \A m, n \in 1 .. Len(z) : z[m] = z[n] /\ z[n][1] \in Gets => m = n
  <2> SUFFICES ASSUME NEW m \in 1 .. Len(z), NEW n \in 1 .. Len(z), z[m] = z[n], z[n][1] \in Gets PROVE m = n
    BY Zenon
  <2>1. z[m][1] \in Gets
    BY Zenon
  <2>2. CASE z[n][1] = c
    <3>1. PICK i \in 1 .. Keys : n = Len(q) + i /\ z[n] = <<c, i>>
      BY <1>6, <2>2, Zenon
    <3>2. PICK j \in 1 .. Keys : m = Len(q) + j /\ z[m] = <<c, j>>
      BY <1>6, <2>1, <2>2, Zenon
    <3>3. i = j
      BY <3>1, <3>2
    <3>4. QED
      BY <3>1, <3>2, <3>3, Zenon
  <2>3. CASE z[n][1] # c
    <3>1. m \in 1 .. Len(q) /\ n \in 1 .. Len(q) /\ z[m] = q[m] /\ z[n] = q[n]
      BY <1>4, <1>6, <2>1, <2>3, ZenonT(30)
    <3>2. QED
      BY <3>1, Zenon DEF JobsOk
  <2>4. QED
    BY <2>2, <2>3, Zenon
<1>10. \A w \in Workers, n \in 1 .. Len(z) : z[n][1] \in Gets => wk[w] # z[n]
  <2> SUFFICES ASSUME NEW w \in Workers, NEW n \in 1 .. Len(z), z[n][1] \in Gets, wk[w] = z[n] PROVE FALSE
    BY Zenon
  <2>1. CASE n \in 1 .. Len(q) /\ z[n] = q[n]
    BY <2>1, Zenon DEF JobsOk
  <2>2. ASSUME NEW m \in 1 .. Keys, z[n] = <<c, m>> PROVE FALSE
    <3>1. wk[w] # <<>> /\ wk[w][1] = c
      BY <2>2
    <3>2. QED
      BY <1>5, <3>1, Zenon
  <2>3. QED
    BY <1>6, <2>1, <2>2, Zenon
<1>11. JobsOk(z, wk, st2, res)
  BY <1>7, <1>8, <1>9, <1>10, Zenon DEF JobsOk
<1>12. QED
  BY <1>11, Zenon DEF z, r

LEMMA JobsFrame ==
    ASSUME NEW q, NEW wk, NEW st, NEW st2, NEW res, NEW res2, JobsOk(q, wk, st, res),
           \A c \in Gets : (st2[c] = "new" => st[c] = "new") /\ res2[c] = res[c]
    PROVE  JobsOk(q, wk, st2, res2)
<1>1. \A job : job[1] \in Gets /\ Undone(job, st, res) => Undone(job, st2, res2)
  BY Zenon DEF Undone
<1>2. QED
  BY <1>1, Zenon DEF JobsOk

\* A worker takes the oldest job, or drops it.
LEMMA JobsStart ==
    ASSUME NEW q \in Seq(Job), q # <<>>, NEW wk \in [Workers -> Job \cup {<<>>}], NEW w \in Workers,
           wk[w] = <<>>, NEW wk2, wk2 = wk \/ wk2 = [wk EXCEPT ![w] = Head(q)], NEW st, NEW res,
           JobsOk(q, wk, st, res)
    PROVE  JobsOk(Tail(q), wk2, st, res)
<1> DEFINE z == Tail(q)
<1>1. /\ Len(q) \in Nat \ {0} /\ Head(q) = q[1] /\ z \in Seq(Job) /\ Len(z) = Len(q) - 1
      /\ \A n \in 1 .. Len(z) : z[n] = q[n + 1]
      /\ q[1] \in Job
  OBVIOUS
<1> HIDE DEF z
<1>2. \A n \in 1 .. Len(z) : n + 1 \in 1 .. Len(q) /\ n + 1 # 1
  BY <1>1
<1>3. 1 \in 1 .. Len(q) /\ q[1] # <<>>
  BY <1>1, JobFacts
<1>4. \A v \in Workers : wk2[v] = wk[v] \/ (v = w /\ wk2[v] = q[1])
  BY <1>1, Zenon
<1>5. \A n \in 1 .. Len(z) : z[n][1] \in Gets => Undone(z[n], st, res) /\ z[n] # q[1] /\ \A v \in Workers : wk[v] # z[n]
  BY <1>1, <1>2, <1>3 DEF JobsOk
<1>6. \A m, n \in 1 .. Len(z) : z[m] = z[n] /\ z[n][1] \in Gets => m = n
  <2> SUFFICES ASSUME NEW m \in 1 .. Len(z), NEW n \in 1 .. Len(z), z[m] = z[n], z[n][1] \in Gets PROVE m = n
    BY Zenon
  <2>1. m + 1 = n + 1
    BY <1>1, <1>2 DEF JobsOk
  <2>2. QED
    BY <2>1
<1>7. \A v \in Workers : wk2[v] # <<>> /\ wk2[v][1] \in Gets => Undone(wk2[v], st, res)
  BY <1>3, <1>4, Zenon DEF JobsOk
<1>8. q[1][1] \in Gets => \A v \in Workers : wk[v] # q[1]
  BY <1>3, Zenon DEF JobsOk
<1>9. \A u, v \in Workers : wk2[u] = wk2[v] /\ wk2[v] # <<>> /\ wk2[v][1] \in Gets => u = v
  BY <1>4, <1>8 DEF JobsOk
<1>10. \A v \in Workers, n \in 1 .. Len(z) : z[n][1] \in Gets => wk2[v] # z[n]
  BY <1>4, <1>5, Zenon
<1>11. JobsOk(z, wk2, st, res)
  BY <1>5, <1>6, <1>7, <1>9, <1>10, Zenon DEF JobsOk
<1>12. QED
  BY <1>11, Zenon DEF z

\* A worker is rid of its job: no other place has it.
LEMMA JobsDrop ==
    ASSUME NEW q \in Seq(Job), NEW wk \in [Workers -> Job \cup {<<>>}], NEW w \in Workers, wk[w] # <<>>,
           NEW st, NEW res, JobsOk(q, wk, st, res)
    PROVE  /\ JobsOk(q, [wk EXCEPT ![w] = <<>>], st, res)
           /\ \A n \in 1 .. Len(q) : q[n][1] \in Gets => q[n] # wk[w]
           /\ \A v \in Workers : v # w /\ wk[v] # <<>> /\ wk[v][1] \in Gets => wk[v] # wk[w]
<1> DEFINE wk2 == [wk EXCEPT ![w] = <<>>]
<1>1. wk2[w] = <<>> /\ \A v \in Workers : v # w => wk2[v] = wk[v]
  BY Zenon
<1> HIDE DEF wk2
<1>2. \A n \in 1 .. Len(q) : q[n] # <<>>
  <2>1. \A n \in 1 .. Len(q) : q[n] \in Job
    OBVIOUS
  <2>2. QED
    BY <2>1, JobFacts, Zenon
<1>3. JobsOk(q, wk2, st, res)
  BY <1>1, <1>2 DEF JobsOk
<1>4. QED
  BY <1>3, Zenon DEF JobsOk, wk2

\* A key of a call has its result.
LEMMA JobsResult ==
    ASSUME NEW q \in Seq(Job), NEW wk \in [Workers -> Job \cup {<<>>}], NEW w \in Workers, wk[w] # <<>>,
           NEW st, NEW Res, NEW res \in [Calls -> [1 .. Keys -> Res]], NEW res2, NEW how,
           wk[w][2] \in 1 .. Keys, res2 = [res EXCEPT ![wk[w][1]][wk[w][2]] = how],
           JobsOk(q, wk, st, res)
    PROVE  JobsOk(q, [wk EXCEPT ![w] = <<>>], st, res2)
<1> DEFINE wk2 == [wk EXCEPT ![w] = <<>>]
<1>1. wk2[w] = <<>> /\ \A v \in Workers : v # w => wk2[v] = wk[v]
  BY Zenon
<1>2. /\ JobsOk(q, wk2, st, res)
      /\ \A n \in 1 .. Len(q) : q[n][1] \in Gets => q[n] # wk[w]
      /\ \A v \in Workers : v # w /\ wk[v] # <<>> /\ wk[v][1] \in Gets => wk[v] # wk[w]
  BY JobsDrop, Zenon
<1> HIDE DEF wk2
<1>3. wk[w] \in Job
  BY Zenon
<1>4. ASSUME NEW job \in Job, job # wk[w], Undone(job, st, res) PROVE Undone(job, st, res2)
  <2>1. /\ job[1] \in Calls /\ job = <<job[1], job[2]>>
        /\ wk[w][1] \in Calls /\ wk[w] = <<wk[w][1], wk[w][2]>>
    BY <1>3, JobFacts, Zenon
  <2>2. job[1] # wk[w][1] \/ job[2] # wk[w][2]
    BY <1>4, <2>1, Zenon
  <2>3. job[2] \in 1 .. Keys
    BY <1>4, Zenon DEF Undone
  <2>4. res2[job[1]][job[2]] = res[job[1]][job[2]]
    BY <2>1, <2>2, <2>3, Zenon
  <2>5. QED
    BY <1>4, <2>4, Zenon DEF Undone
<1>5. \A n \in 1 .. Len(q) : q[n] \in Job
  OBVIOUS
<1>6. \A v \in Workers : wk2[v] # <<>> => v # w /\ wk2[v] = wk[v] /\ wk[v] \in Job
  BY <1>1, Zenon
<1>7. /\ \A n \in 1 .. Len(q) : q[n][1] \in Gets => Undone(q[n], st, res2)
      /\ \A v \in Workers : wk2[v] # <<>> /\ wk2[v][1] \in Gets => Undone(wk2[v], st, res2)
  <2>1. /\ \A n \in 1 .. Len(q) : q[n][1] \in Gets => Undone(q[n], st, res)
        /\ \A v \in Workers : wk2[v] # <<>> /\ wk2[v][1] \in Gets => Undone(wk2[v], st, res)
    BY <1>2, Zenon DEF JobsOk
  <2>2. QED
    BY <1>2, <1>4, <1>5, <1>6, <2>1, Zenon
<1>8. JobsOk(q, wk2, st, res2)
  BY <1>2, <1>7, Zenon DEF JobsOk
<1>9. QED
  BY <1>8, Zenon DEF wk2

LEMMA BatchTypes ==
    ASSUME BatchInv
    PROVE  /\ state \in [Calls -> {"new", "called", "done", "raised"}]
           /\ queue \in Seq(Job)
           /\ worker \in [Workers -> Job \cup {<<>>}]
           /\ result \in [Calls -> [1 .. Keys -> {"none", "hit", "miss", "raise"}]]
           /\ held \in [Calls -> SUBSET (1 .. Keys)]
           /\ answer \in [Calls -> 0 .. Keys]
           /\ Gets \subseteq Calls
<1>1. /\ state \in [Calls -> {"new", "called", "done", "raised"}]
      /\ queue \in Seq(Job)
      /\ worker \in [Workers -> Job \cup {<<>>}]
      /\ result \in [Calls -> [1 .. Keys -> {"none", "hit", "miss", "raise"}]]
      /\ held \in [Calls -> SUBSET (1 .. Keys)]
      /\ answer \in [Calls -> 0 .. Keys]
  BY Zenon DEF BatchInv, BatchTypeOK, Idle, Items
<1>2. Gets \subseteq Calls
  BY Zenon DEF Gets, Calls
<1>3. QED
  BY <1>1, <1>2, Zenon

\* What a call reports is a prefix of hits.
LEMMA PrefixFacts ==
    ASSUME Keys \in Nat \ {0}, NEW c
    PROVE  Prefix(c) \in 0 .. Keys /\ \A i \in 1 .. Prefix(c) : result[c][i] = "hit"
<1> DEFINE S == {i \in 1 .. Keys : \A j \in 1 .. i : result[c][j] = "hit"}
<1>1. Prefix(c) = Cardinality(S)
  BY Zenon DEF Prefix, Items
<1>2. S \in SUBSET (1 .. Keys) /\ \A i \in S : \A j \in 1 .. i : j \in S
  OBVIOUS
<1>3. \A i \in S : result[c][i] = "hit"
  OBVIOUS
<1> HIDE DEF S
<1>4. S = 1 .. Cardinality(S) /\ Cardinality(S) \in 0 .. Keys
  BY <1>2, Leading, Zenon
<1>5. QED
  BY <1>1, <1>3, <1>4, Zenon

LEMMA BatchCall ==
    ASSUME Keys \in Nat \ {0}, Lookups \cap Gets = {}, BatchInv, NEW c \in Calls, Call(c)
    PROVE  BatchInv'
<1>1. /\ state[c] = "new" /\ state' = [state EXCEPT ![c] = "called"]
      /\ UNCHANGED <<worker, result, held, answer>>
      /\ queue' = queue \o (IF c \in Lookups THEN <<<<c, 0>>>> ELSE Fan(c))
  BY Zenon DEF Call, Outer
<1>2. JobsOk(queue, worker, state, result) /\ JobsOk(queue, worker, state', result)
  <2>1. JobsOk(queue, worker, state, result)
    BY Zenon DEF BatchInv, JobsInv
  <2>2. \A d \in Gets : (state'[d] = "new" => state[d] = "new") /\ result[d] = result[d]
    BY <1>1, BatchTypes, Zenon
  <2>3. QED
    BY <2>1, <2>2, JobsFrame, Zenon
<1>3. queue' \in Seq(Job) /\ JobsInv'
  <2>1. CASE c \in Lookups
    <3>1. <<c, 0>> \in Job
      BY Zenon DEF Job, Outer
    <3> DEFINE one == <<<<c, 0>>>>
    <3>a. one \in Seq(Job) /\ Len(one) = 1 /\ one[1] = <<c, 0>>
      BY <3>1
    <3> HIDE DEF one
    <3>2. PICK r \in Seq(Job) : r = one /\ Len(r) = 1 /\ r[1] = <<c, 0>>
      BY <3>a, Zenon
    <3>3. queue' = queue \o r /\ \A n \in 1 .. Len(r) : r[n][1] \notin Gets
      BY <1>1, <2>1, <3>2 DEF one
    <3>4. queue' \in Seq(Job)
      BY <3>3, BatchTypes, Joined, Zenon
    <3>5. JobsOk(queue \o r, worker, state', result)
      BY <1>2, <3>3, BatchTypes, JobsApart, Zenon
    <3>6. QED
      BY <1>1, <3>3, <3>4, <3>5, Zenon DEF JobsInv
  <2>2. CASE c \notin Lookups
    <3>1. c \in Gets /\ queue' = queue \o Fan(c)
      BY <1>1, <2>2, Zenon DEF Calls, Gets
    <3>2. \A i \in 1 .. Keys : result[c][i] = "none"
      BY <1>1, <3>1, Zenon DEF BatchInv, ObjectsInv
    <3>3. JobsOk(queue \o Fan(c), worker, state', result)
      BY <1>1, <1>2, <3>1, <3>2, BatchTypes, JobsFanned, Zenon
    <3>4. queue' \in Seq(Job)
      BY <3>1, BatchTypes, FanFacts, Joined, Zenon
    <3>5. QED
      BY <1>1, <3>1, <3>3, <3>4, Zenon DEF JobsInv
  <2>3. QED
    BY <2>1, <2>2, Zenon
<1>4. BatchTypeOK'
  <2>1. state' \in [Calls -> {"new", "called", "done", "raised"}]
    BY <1>1, BatchTypes, Zenon
  <2>2. QED
    BY <1>1, <1>3, <2>1, Zenon DEF BatchInv, BatchTypeOK
<1>5. ObjectsInv'
  <2>1. \A d \in Gets : state'[d] = state[d] \/ (d = c /\ state[d] = "new" /\ state'[d] = "called")
    BY <1>1, BatchTypes, Zenon
  <2>2. QED
    BY <1>1, <2>1 DEF BatchInv, ObjectsInv, Complete
<1>6. QED
  BY <1>3, <1>4, <1>5, Zenon DEF BatchInv

LEMMA BatchStart ==
    ASSUME Keys \in Nat \ {0}, Lookups \cap Gets = {}, BatchInv, NEW w \in Workers, Start(w)
    PROVE  BatchInv'
<1>1. /\ worker[w] = <<>> /\ queue # <<>>
      /\ worker' = worker \/ worker' = [worker EXCEPT ![w] = Head(queue)]
      /\ queue' = Tail(queue) \o Spawned(Head(queue))
      /\ UNCHANGED <<state, result, held, answer>>
  BY Zenon DEF Start, Idle
<1>2. Head(queue) \in Job /\ Head(queue) = queue[1] /\ Tail(queue) \in Seq(Job) /\ 1 \in 1 .. Len(queue)
  BY <1>1, BatchTypes
<1>3. JobsOk(queue, worker, state, result)
  BY Zenon DEF BatchInv, JobsInv
<1>4. JobsOk(Tail(queue), worker', state, result)
  BY <1>1, <1>3, BatchTypes, JobsStart, Zenon
<1>5. PICK r \in Seq(Job) : r = Spawned(Head(queue)) /\ \A n \in 1 .. Len(r) : r[n][1] \notin Gets
  <2>1. CASE Head(queue)[2] = 0
    <3>1. Head(queue)[1] \notin Gets
      BY <1>2, <1>3, <2>1 DEF JobsOk, Undone
    <3>2. Head(queue)[1] \in Calls
      BY <1>2, JobFacts, Zenon
    <3>3. Spawned(Head(queue)) = Fan(Head(queue)[1])
      BY <2>1, Zenon DEF Spawned, Outer
    <3>4. PICK c \in Calls : c = Head(queue)[1]
      BY <3>2, Zenon
    <3>5. Fan(c) \in Seq(Job) /\ Len(Fan(c)) = Keys /\ \A n \in 1 .. Keys : Fan(c)[n] = <<c, n>>
      BY FanFacts, Zenon
    <3>6. QED
      BY <3>1, <3>3, <3>4, <3>5
  <2>2. CASE Head(queue)[2] # 0
    <3>1. Spawned(Head(queue)) = <<>>
      BY <2>2, Zenon DEF Spawned, Outer
    <3> DEFINE none == Spawned(Head(queue))
    <3>a. <<>> \in Seq(Job) /\ Len(<<>>) = 0
      OBVIOUS
    <3>2. none \in Seq(Job) /\ Len(none) = 0
      BY <3>1, <3>a, Zenon
    <3> HIDE DEF none
    <3>3. none \in Seq(Job) /\ \A n \in 1 .. Len(none) : none[n][1] \notin Gets
      BY <3>2
    <3>4. QED
      BY <3>3, Zenon DEF none
  <2>3. QED
    BY <2>1, <2>2, Zenon
<1>6. queue' \in Seq(Job)
  BY <1>1, <1>2, <1>5, Joined, Zenon
<1>7. JobsInv'
  <2>1. JobsOk(Tail(queue) \o r, worker', state, result)
    BY <1>2, <1>4, <1>5, JobsApart, Zenon
  <2>2. QED
    BY <1>1, <1>5, <2>1, Zenon DEF JobsInv
<1>8. BatchTypeOK'
  <2>1. worker' \in [Workers -> Job \cup {<<>>}]
    BY <1>1, <1>2, BatchTypes, Zenon
  <2>2. QED
    BY <1>1, <1>6, <2>1, Zenon DEF BatchInv, BatchTypeOK, Idle
<1>9. ObjectsInv'
  BY <1>1, Zenon DEF BatchInv, ObjectsInv, Complete
<1>10. QED
  BY <1>7, <1>8, <1>9, Zenon DEF BatchInv

LEMMA BatchItem ==
    ASSUME Keys \in Nat \ {0}, Lookups \cap Gets = {}, BatchInv, NEW w \in Workers,
           NEW how \in {"hit", "miss", "raise"}, Item(w, how)
    PROVE  BatchInv'
<1>1. PICK c, i : c = worker[w][1] /\ i = worker[w][2]
  BY Zenon
<1>2. /\ worker[w] # <<>> /\ i # 0
      /\ result' = [result EXCEPT ![c][i] = how]
      /\ held' = IF how = "hit" /\ c \notin Lookups THEN [held EXCEPT ![c] = @ \cup {i}] ELSE held
      /\ worker' = [worker EXCEPT ![w] = <<>>]
      /\ UNCHANGED <<state, queue, answer>>
  BY <1>1, Zenon DEF Item, Idle, Outer
<1>3. worker[w] \in Job /\ c \in Calls /\ i \in 1 .. Keys
  <2>1. worker[w] \in Job
    BY <1>2, BatchTypes, Zenon
  <2>2. QED
    BY <1>1, <1>2, <2>1, JobFacts, Zenon
<1>4. JobsOk(queue, worker, state, result)
  BY Zenon DEF BatchInv, JobsInv
<1>5. JobsInv'
  <2>1. JobsOk(queue, [worker EXCEPT ![w] = <<>>], state, result')
    BY <1>1, <1>2, <1>3, <1>4, BatchTypes, JobsResult, Zenon
  <2>2. QED
    BY <1>2, <2>1, Zenon DEF JobsInv
<1>6. BatchTypeOK'
  <2>1. worker' \in [Workers -> Job \cup {<<>>}]
    BY <1>2, BatchTypes, Zenon
  <2>2. result' \in [Calls -> [1 .. Keys -> {"none", "hit", "miss", "raise"}]]
    BY <1>2, <1>3, BatchTypes, Zenon
  <2>3. held' \in [Calls -> SUBSET (1 .. Keys)]
    BY <1>2, <1>3, BatchTypes, Zenon
  <2>4. QED
    BY <1>2, <2>1, <2>2, <2>3, Zenon DEF BatchInv, BatchTypeOK, Idle, Items
<1>7. \A d \in Calls : d # c => result'[d] = result[d] /\ held'[d] = held[d]
  BY <1>2, <1>3, BatchTypes, Zenon
<1>8. CASE c \notin Gets
  <2>1. \A d \in Gets : result'[d] = result[d] /\ held'[d] = held[d]
    BY <1>7, <1>8, BatchTypes, Zenon
  <2>2. ObjectsInv'
    <3> SUFFICES ASSUME NEW d \in Gets
                 PROVE  /\ state'[d] = "new" => \A j \in 1 .. Keys : result'[d][j] = "none"
                        /\ state'[d] # "done" => held'[d] = {j \in 1 .. Keys : result'[d][j] = "hit"}
                        /\ state'[d] = "done" => Complete(d)' /\ held'[d] = 1 .. answer'[d]
      BY Zenon DEF ObjectsInv
    <3>1. result'[d] = result[d] /\ held'[d] = held[d] /\ state' = state /\ answer' = answer
      BY <1>2, <2>1, Zenon
    <3>2. QED
      BY <3>1 DEF BatchInv, ObjectsInv, Complete
  <2>3. QED
    BY <1>5, <1>6, <2>2, Zenon DEF BatchInv
<1>9. CASE c \in Gets
  <2>1. c \notin Lookups
    BY <1>9, Zenon
  <2>2. Undone(worker[w], state, result)
    BY <1>1, <1>2, <1>4, <1>9, Zenon DEF JobsOk
  <2>3. state[c] # "new" /\ result[c][i] = "none"
    BY <1>1, <2>2, Zenon DEF Undone
  <2>4. state[c] # "done"
    BY <1>3, <1>9, <2>3, Zenon DEF BatchInv, ObjectsInv, Complete, Items
  <2>5. held[c] = {j \in 1 .. Keys : result[c][j] = "hit"}
    BY <1>9, <2>4, Zenon DEF BatchInv, ObjectsInv
  <2>6. result'[c] = [result[c] EXCEPT ![i] = how] /\ result[c] \in [1 .. Keys -> {"none", "hit", "miss", "raise"}]
    BY <1>2, <1>3, BatchTypes, Zenon
  <2>7. held'[c] = IF how = "hit" THEN held[c] \cup {i} ELSE held[c]
    BY <1>2, <1>3, <2>1, BatchTypes, Zenon
  <2>8. held'[c] = {j \in 1 .. Keys : result'[c][j] = "hit"}
    BY <1>3, <2>3, <2>5, <2>6, <2>7, Zenon
  <2>9. \A d \in Gets : d # c => result'[d] = result[d] /\ held'[d] = held[d]
    BY <1>7, BatchTypes, Zenon
  <2>10. ObjectsInv'
    BY <1>2, <2>3, <2>4, <2>8, <2>9 DEF BatchInv, ObjectsInv, Complete
  <2>11. QED
    BY <1>5, <1>6, <2>10, Zenon DEF BatchInv
<1>10. QED
  BY <1>5, <1>6, <1>8, <1>9, Zenon DEF BatchInv

LEMMA BatchLookupEnd ==
    ASSUME Keys \in Nat \ {0}, Lookups \cap Gets = {}, BatchInv, NEW w \in Workers, LookupEnd(w)
    PROVE  BatchInv'
<1>1. PICK c : c = worker[w][1]
  BY Zenon
<1>2. /\ worker[w] # <<>> /\ worker[w][2] = 0
      /\ answer' = [answer EXCEPT ![c] = Prefix(c)]
      /\ state' = [state EXCEPT ![c] = "done"]
      /\ worker' = [worker EXCEPT ![w] = <<>>]
      /\ UNCHANGED <<queue, result, held>>
  BY <1>1, Zenon DEF LookupEnd, Idle, Outer
<1>3. JobsOk(queue, worker, state, result)
  BY Zenon DEF BatchInv, JobsInv
<1>4. c \notin Gets
  <2>1. c \in Gets => Undone(worker[w], state, result)
    BY <1>1, <1>2, <1>3, Zenon DEF JobsOk
  <2>2. ~Undone(worker[w], state, result)
    BY <1>2 DEF Undone
  <2>3. QED
    BY <2>1, <2>2, Zenon
<1>5. c \in Calls
  <2>1. worker[w] \in Job
    BY <1>2, BatchTypes, Zenon
  <2>2. QED
    BY <1>1, <2>1, JobFacts, Zenon
<1>6. \A d \in Gets : state'[d] = state[d] /\ answer'[d] = answer[d]
  BY <1>2, <1>4, BatchTypes, Zenon
<1>7. JobsInv'
  <2>1. JobsOk(queue, worker', state, result)
    BY <1>2, <1>3, BatchTypes, JobsDrop, Zenon
  <2>2. JobsOk(queue, worker', state', result)
    BY <1>6, <2>1, JobsFrame, Zenon
  <2>3. QED
    BY <1>2, <2>2, Zenon DEF JobsInv
<1>8. BatchTypeOK'
  <2>1. Prefix(c) \in 0 .. Keys
    BY PrefixFacts, Zenon
  <2>2. answer' \in [Calls -> 0 .. Keys] /\ state' \in [Calls -> {"new", "called", "done", "raised"}]
        /\ worker' \in [Workers -> Job \cup {<<>>}]
    BY <1>2, <2>1, BatchTypes, Zenon
  <2>3. QED
    BY <1>2, <2>2, Zenon DEF BatchInv, BatchTypeOK, Idle, Items
<1>9. ObjectsInv'
  <2>1. ObjectsInv
    BY Zenon DEF BatchInv
  <2>2. \A d \in Gets : Complete(d)' <=> Complete(d)
    BY <1>2, Zenon DEF Complete
  <2>3. ASSUME NEW d \in Gets
        PROVE  /\ state'[d] = "new" => \A i \in 1 .. Keys : result'[d][i] = "none"
               /\ state'[d] # "done" => held'[d] = {i \in 1 .. Keys : result'[d][i] = "hit"}
               /\ state'[d] = "done" => Complete(d)' /\ held'[d] = 1 .. answer'[d]
    <3>1. state'[d] = state[d] /\ answer'[d] = answer[d] /\ result' = result /\ held' = held
      BY <1>2, <1>6, Zenon
    <3>2. QED
      BY <2>1, <2>2, <3>1, Zenon DEF ObjectsInv
  <2>4. QED
    BY <2>3, Zenon DEF ObjectsInv
<1>10. QED
  BY <1>7, <1>8, <1>9, Zenon DEF BatchInv

LEMMA BatchGetEnd ==
    ASSUME Keys \in Nat \ {0}, Lookups \cap Gets = {}, BatchInv, NEW c \in Calls, GetEnd(c)
    PROVE  BatchInv'
<1>1. /\ state[c] = "called" /\ c \notin Lookups /\ Complete(c)
      /\ answer' = [answer EXCEPT ![c] = Prefix(c)]
      /\ held' = [held EXCEPT ![c] = held[c] \ {i \in 1 .. Keys : i > Prefix(c)}]
      /\ state' = [state EXCEPT ![c] = "done"]
      /\ UNCHANGED <<queue, worker, result>>
  BY Zenon DEF GetEnd, Released, Items
<1>2. Prefix(c) \in 0 .. Keys /\ \A i \in 1 .. Prefix(c) : result[c][i] = "hit"
  BY PrefixFacts, Zenon
<1>3. PICK p \in 0 .. Keys : p = Prefix(c)
  BY <1>2, Zenon
<1>4. c \in Gets
  BY <1>1, Zenon DEF Gets, Calls
<1>5. held[c] = {i \in 1 .. Keys : result[c][i] = "hit"}
  BY <1>1, <1>4, Zenon DEF BatchInv, ObjectsInv
<1>6. held'[c] = held[c] \ {i \in 1 .. Keys : i > p} /\ answer'[c] = p
  BY <1>1, <1>3, BatchTypes, Zenon
<1>7. held'[c] = 1 .. p
  <2>1. \A i \in 1 .. p : result[c][i] = "hit"
    BY <1>2, <1>3, Zenon
  <2>2. \A i : i \in held'[c] <=> i \in 1 .. Keys /\ result[c][i] = "hit" /\ ~(i > p)
    BY <1>5, <1>6, Zenon
  <2>3. \A i : i \in 1 .. Keys /\ ~(i > p) <=> i \in 1 .. p
    OBVIOUS
  <2>4. \A i : i \in held'[c] <=> i \in 1 .. p
    BY <2>1, <2>2, <2>3, Zenon
  <2>5. QED
    BY <2>4, Zenon
<1>8. \A d \in Gets : d # c => state'[d] = state[d] /\ answer'[d] = answer[d] /\ held'[d] = held[d]
  BY <1>1, BatchTypes, Zenon
<1>9. state'[c] = "done" /\ Complete(c)'
  BY <1>1, BatchTypes, Zenon DEF Complete
<1>10. ObjectsInv'
  <2> SUFFICES ASSUME NEW d \in Gets
               PROVE  /\ state'[d] = "new" => \A i \in 1 .. Keys : result'[d][i] = "none"
                      /\ state'[d] # "done" => held'[d] = {i \in 1 .. Keys : result'[d][i] = "hit"}
                      /\ state'[d] = "done" => Complete(d)' /\ held'[d] = 1 .. answer'[d]
    BY Zenon DEF ObjectsInv
  <2>1. CASE d = c
    BY <1>6, <1>7, <1>9, <2>1, Zenon
  <2>2. CASE d # c
    <3>1. /\ state'[d] = state[d] /\ answer'[d] = answer[d] /\ held'[d] = held[d]
          /\ result' = result
      BY <1>1, <1>8, <2>2, Zenon
    <3>2. QED
      BY <3>1, Zenon DEF BatchInv, ObjectsInv, Complete
  <2>3. QED
    BY <2>1, <2>2, Zenon
<1>11. JobsInv'
  <2>1. JobsOk(queue, worker, state, result)
    BY Zenon DEF BatchInv, JobsInv
  <2>2. \A d \in Gets : (state'[d] = "new" => state[d] = "new") /\ result[d] = result[d]
    BY <1>8, <1>9, Zenon
  <2>3. JobsOk(queue, worker, state', result)
    BY <2>1, <2>2, JobsFrame, Zenon
  <2>4. QED
    BY <1>1, <2>3, Zenon DEF JobsInv
<1>12. BatchTypeOK'
  <2>1. answer' \in [Calls -> 0 .. Keys] /\ state' \in [Calls -> {"new", "called", "done", "raised"}]
        /\ held' \in [Calls -> SUBSET (1 .. Keys)]
    BY <1>1, <1>2, BatchTypes, Zenon
  <2>2. QED
    BY <1>1, <2>1, Zenon DEF BatchInv, BatchTypeOK, Idle, Items
<1>13. QED
  BY <1>10, <1>11, <1>12, Zenon DEF BatchInv

LEMMA BatchGetRaises ==
    ASSUME Keys \in Nat \ {0}, Lookups \cap Gets = {}, BatchInv, NEW c \in Calls, BatchRaises(c)
    PROVE  BatchInv'
<1>1. /\ state[c] = "called" /\ state' = [state EXCEPT ![c] = "raised"]
      /\ UNCHANGED <<queue, worker, result, held, answer>>
  BY Zenon DEF BatchRaises
<1>2. \A d \in Gets : state'[d] = state[d] \/ (state[d] = "called" /\ state'[d] = "raised")
  BY <1>1, BatchTypes, Zenon
<1>3. JobsInv'
  <2>1. JobsOk(queue, worker, state, result)
    BY Zenon DEF BatchInv, JobsInv
  <2>2. \A d \in Gets : (state'[d] = "new" => state[d] = "new") /\ result[d] = result[d]
    BY <1>2, Zenon
  <2>3. JobsOk(queue, worker, state', result)
    BY <2>1, <2>2, JobsFrame, Zenon
  <2>4. QED
    BY <1>1, <2>3, Zenon DEF JobsInv
<1>4. ObjectsInv'
  BY <1>1, <1>2 DEF BatchInv, ObjectsInv, Complete
<1>5. BatchTypeOK'
  <2>1. state' \in [Calls -> {"new", "called", "done", "raised"}]
    BY <1>1, BatchTypes, Zenon
  <2>2. QED
    BY <1>1, <2>1, Zenon DEF BatchInv, BatchTypeOK
<1>6. QED
  BY <1>3, <1>4, <1>5, Zenon DEF BatchInv

\* The batched calls keep their jobs and their objects accounted for.
LEMMA BatchAlways == BatchSpec => []BatchInv
<1> USE KeysAssumption
<1>0. Lookups \cap Gets = {}
  BY CallsAssumption, Zenon DEF Gets
<1>1. BatchInit => BatchInv
  <2> SUFFICES ASSUME BatchInit PROVE BatchInv
    BY Zenon
  <2>1. BatchTypeOK
    BY DEF BatchInit, BatchTypeOK, Idle, Items
  <2>2. Len(queue) = 0 /\ \A w \in Workers : worker[w] = <<>>
    BY Zenon DEF BatchInit, Idle
  <2>3. 1 .. Len(queue) = {}
    BY <2>2
  <2>4. JobsInv
    BY <2>2, <2>3, Zenon DEF JobsInv, JobsOk
  <2>5. Gets \subseteq Calls
    BY Zenon DEF Gets, Calls
  <2>6. ObjectsInv
    BY <2>5, Zenon DEF BatchInit, Items, ObjectsInv
  <2>7. QED
    BY <2>1, <2>4, <2>6, Zenon DEF BatchInv
<1>2. BatchInv /\ [BatchNext]_batchVars => BatchInv'
  <2> SUFFICES ASSUME BatchInv, [BatchNext]_batchVars PROVE BatchInv'
    BY Zenon
  <2>1. CASE UNCHANGED batchVars
    BY <2>1, Zenon DEF batchVars, BatchInv, JobsInv, ObjectsInv, BatchTypeOK, Complete
  <2>2. QED
    BY <1>0, <2>1, BatchCall, BatchStart, BatchItem, BatchLookupEnd, BatchGetEnd, BatchGetRaises, Zenon
       DEF BatchNext, WorkerStep
<1>3. QED
  BY <1>1, <1>2, PTL DEF BatchSpec

\* When a batched get has returned, the GPU objects alive are those of the reported
\* leading hits: the ones behind the first miss are released, none of the others
\* is, for any calls sharing a pool of any size, any number of keys, and however
\* the pool interleaves them with lookups and with gets that raise.
THEOREM ObjectsAccounted == BatchSpec => []NoObjectLost
<1>1. BatchInv => NoObjectLost
  BY Zenon DEF BatchInv, ObjectsInv, Gets, NoObjectLost
<1>2. QED
  BY <1>1, BatchAlways, PTL
-----------------------------------------------------------------------------
(* Who waits for the pool.  A batched call waits for the results of its    *)
(* keys; the jobs that bring them are in the pool until they have.         *)

\* A job is in the pool's queue; a thread runs it.
Queued(job) == \E n \in 1 .. Len(queue) : queue[n] = job
Running(job) == \E w \in Workers : worker[w] = job

\* Key i of call c has its result, or its job is still in the pool.
Due(c, i) == result[c][i] # "none" \/ Queued(<<c, i>>) \/ Running(<<c, i>>)

\* A get that waits has every key it lacks in the pool; a lookup is queued itself,
\* or a thread runs it and its keys are in the pool.  No lookup raises.
DueAt(c) ==
    /\ state[c] = "called" =>
          \/ c \in Lookups /\ Queued(<<c, 0>>)
          \/ /\ c \in Lookups => Running(<<c, 0>>)
             /\ \A i \in 1 .. Keys : Due(c, i)
    /\ c \in Lookups => \A i \in 1 .. Keys : result[c][i] # "raise"

DueInv == \A c \in Calls : DueAt(c)

\* The caller of c, or the thread that runs it, goes on: what GetEnd, BatchRaises
\* and LookupEnd wait for.
CallerGoesOn(c) ==
    \/ c \notin Lookups /\ Complete(c)
    \/ \E i \in 1 .. Keys :
          /\ result[c][i] = "raise"
          /\ c \in Maps => \A j \in 1 .. i - 1 : result[c][j] \in {"hit", "miss"}
    \/ Running(<<c, 0>>) /\ Complete(c)

\* A thread of the pool goes on: it is idle and there is a job to take, or it runs
\* a key, which ends with its DAOS call.
PoolGoesOn ==
    \E w \in Workers :
        \/ worker[w] = <<>> /\ queue # <<>>
        \/ worker[w] # <<>> /\ worker[w][2] # 0

\* A call that waits is about to end, or the pool it waits for moves, or every
\* thread of the pool waits for the pool.
OnlySelfWaits == \A c \in Calls : state[c] = "called" => CallerGoesOn(c) \/ PoolGoesOn \/ SelfWait

\* Nothing that c waits for is taken away.
LEMMA DueFrame ==
    ASSUME NEW c, DueAt(c),
           state'[c] = "called" => /\ state[c] = "called"
                                   /\ Running(<<c, 0>>) => Running(<<c, 0>>)'
                                   /\ Queued(<<c, 0>>) =>
                                         \/ Queued(<<c, 0>>)'
                                         \/ Running(<<c, 0>>)' /\ \A i \in 1 .. Keys : Due(c, i)'
                                   /\ \A i \in 1 .. Keys : Due(c, i) => Due(c, i)',
           c \in Lookups => \A i \in 1 .. Keys : result'[c][i] = "raise" => result[c][i] = "raise"
    PROVE  DueAt(c)'
<1>1. c \in Lookups => \A i \in 1 .. Keys : result'[c][i] # "raise"
  BY Zenon DEF DueAt
<1>2. CASE state'[c] = "called"
  BY <1>1, <1>2, Zenon DEF DueAt
<1>3. CASE state'[c] # "called"
  BY <1>1, <1>3, Zenon DEF DueAt
<1>4. QED
  BY <1>2, <1>3, Zenon

\* The next queue is made of two parts: the jobs of both are in it.
LEMMA QueuedParts ==
    ASSUME NEW q \in Seq(Job), NEW r \in Seq(Job), queue' = q \o r
    PROVE  /\ \A n \in 1 .. Len(q) : Queued(q[n])'
           /\ \A n \in 1 .. Len(r) : Queued(r[n])'
<1>1. /\ Len(queue') = Len(q) + Len(r) /\ Len(q) \in Nat /\ Len(r) \in Nat
      /\ \A n \in 1 .. Len(q) : queue'[n] = q[n]
      /\ \A n \in 1 .. Len(r) : queue'[Len(q) + n] = r[n]
  <2>1. /\ Len(q \o r) = Len(q) + Len(r) /\ Len(q) \in Nat /\ Len(r) \in Nat
        /\ \A n \in 1 .. Len(q) : (q \o r)[n] = q[n]
        /\ \A n \in 1 .. Len(r) : (q \o r)[Len(q) + n] = r[n]
    BY Joined
  <2>2. QED
    BY <2>1, Zenon
<1>2. ASSUME NEW n \in 1 .. Len(q) PROVE Queued(q[n])'
  <2>1. n \in 1 .. Len(queue')
    BY <1>1
  <2>2. QED
    BY <1>1, <2>1, Zenon DEF Queued
<1>3. ASSUME NEW n \in 1 .. Len(r) PROVE Queued(r[n])'
  <2>1. Len(q) + n \in 1 .. Len(queue')
    BY <1>1
  <2>2. QED
    BY <1>1, <2>1, Zenon DEF Queued
<1>4. QED
  BY <1>2, <1>3, Zenon

\* A job queued is still queued when the queue grows.
LEMMA QueuedStays ==
    ASSUME queue \in Seq(Job), NEW r \in Seq(Job), queue' = queue \o r
    PROVE  \A job : Queued(job) => Queued(job)'
<1> SUFFICES ASSUME NEW job, Queued(job) PROVE Queued(job)'
  BY Zenon
<1>1. PICK n \in 1 .. Len(queue) : queue[n] = job
  BY Zenon DEF Queued
<1>2. PICK q \in Seq(Job) : q = queue
  BY Zenon
<1>3. Queued(q[n])' /\ q[n] = job
  BY <1>1, <1>2, QueuedParts, Zenon
<1>4. QED
  BY <1>3, Zenon

\* The last part of Due depends only on these.
LEMMA DueStays ==
    ASSUME NEW c, NEW i,
           result[c][i] # "none" => result'[c][i] # "none",
           Queued(<<c, i>>) => Queued(<<c, i>>)' \/ Running(<<c, i>>)',
           Running(<<c, i>>) => Running(<<c, i>>)' \/ result'[c][i] # "none"
    PROVE  Due(c, i) => Due(c, i)'
  BY Zenon DEF Due

LEMMA DueCall ==
    ASSUME Keys \in Nat \ {0}, Lookups \cap Gets = {}, BatchInv, DueInv, NEW c \in Calls, Call(c)
    PROVE  DueInv'
<1>1. /\ state[c] = "new" /\ state' = [state EXCEPT ![c] = "called"]
      /\ UNCHANGED <<worker, result>>
      /\ queue' = queue \o (IF c \in Lookups THEN <<<<c, 0>>>> ELSE Fan(c))
  BY Zenon DEF Call, Outer
<1>2. \A job : Running(job) => Running(job)'
  BY <1>1, Zenon DEF Running
<1>3. PICK r \in Seq(Job) : /\ queue' = queue \o r
                            /\ c \in Lookups => Len(r) = 1 /\ r[1] = <<c, 0>>
                            /\ c \notin Lookups => Len(r) = Keys /\ \A n \in 1 .. Keys : r[n] = <<c, n>>
  <2>1. CASE c \in Lookups
    <3>1. <<c, 0>> \in Job
      BY Zenon DEF Job, Outer
    <3> DEFINE one == <<<<c, 0>>>>
    <3>2. one \in Seq(Job) /\ Len(one) = 1 /\ one[1] = <<c, 0>>
      BY <3>1
    <3>3. queue' = queue \o one
      BY <1>1, <2>1, Zenon
    <3> HIDE DEF one
    <3>4. QED
      BY <2>1, <3>2, <3>3, Zenon
  <2>2. CASE c \notin Lookups
    BY <1>1, <2>2, FanFacts, Zenon
  <2>3. QED
    BY <2>1, <2>2, Zenon
<1>4. \A job : Queued(job) => Queued(job)'
  BY <1>3, BatchTypes, QueuedStays, Zenon
<1>5. \A n \in 1 .. Len(r) : Queued(r[n])'
  <2>1. PICK q \in Seq(Job) : q = queue
    BY BatchTypes, Zenon
  <2>2. QED
    BY <1>3, <2>1, QueuedParts, Zenon
<1>6. ASSUME NEW d \in Calls, d # c PROVE DueAt(d)'
  <2>1. DueAt(d) /\ state'[d] = state[d] /\ result'[d] = result[d]
    BY <1>1, <1>6, BatchTypes, Zenon DEF DueInv
  <2>2. \A i \in 1 .. Keys : Due(d, i) => Due(d, i)'
    BY <1>2, <1>4, <2>1, DueStays, Zenon
  <2>3. QED
    BY <1>2, <1>4, <2>1, <2>2, DueFrame, Zenon
<1>7. CASE c \in Lookups
  <2>a. Len(r) = 1
    BY <1>3, <1>7, Zenon
  <2>1. 1 \in 1 .. Len(r)
    BY <2>a
  <2>2. Queued(r[1])' /\ r[1] = <<c, 0>>
    BY <1>3, <1>5, <1>7, <2>1, Zenon
  <2>3. Queued(<<c, 0>>)'
    BY <2>2, Zenon
  <2>4. \A i \in 1 .. Keys : result'[c][i] # "raise"
    BY <1>1, <1>7, Zenon DEF DueInv, DueAt
  <2>5. DueAt(c)'
    BY <1>7, <2>3, <2>4, Zenon DEF DueAt
  <2>6. QED
    BY <1>6, <2>5, Zenon DEF DueInv
<1>8. CASE c \notin Lookups
  <2>1. ASSUME NEW i \in 1 .. Keys PROVE Due(c, i)'
    <3>1. Queued(r[i])' /\ r[i] = <<c, i>>
      BY <1>3, <1>5, <1>8, Zenon
    <3>2. Queued(<<c, i>>)'
      BY <3>1, Zenon
    <3>3. QED
      BY <3>2, Zenon DEF Due
  <2>2. DueAt(c)'
    BY <1>8, <2>1, Zenon DEF DueAt
  <2>3. QED
    BY <1>6, <2>2, Zenon DEF DueInv
<1>9. QED
  BY <1>7, <1>8, Zenon

LEMMA DueStart ==
    ASSUME Keys \in Nat \ {0}, Lookups \cap Gets = {}, BatchInv, DueInv, NEW w \in Workers, Start(w)
    PROVE  DueInv'
<1>1. /\ worker[w] = <<>> /\ queue # <<>>
      /\ worker' = IF Cancelled(Head(queue)) THEN worker ELSE [worker EXCEPT ![w] = Head(queue)]
      /\ queue' = Tail(queue) \o Spawned(Head(queue))
      /\ UNCHANGED <<state, result>>
  BY Zenon DEF Start, Idle
<1>2. PICK h \in Job, q \in Seq(Job) :
            /\ h = Head(queue) /\ q = Tail(queue)
            /\ \A n \in 1 .. Len(queue) : queue[n] = h \/ \E m \in 1 .. Len(q) : queue[n] = q[m]
  <2>1. queue \in Seq(Job)
    BY BatchTypes, Zenon
  <2>2. Head(queue) \in Job /\ Tail(queue) \in Seq(Job)
    BY <1>1, <2>1
  <2>3. ASSUME NEW n \in 1 .. Len(queue)
        PROVE  queue[n] = Head(queue) \/ \E m \in 1 .. Len(Tail(queue)) : queue[n] = Tail(queue)[m]
    <3>1. CASE n = 1
      BY <1>1, <2>1, <3>1
    <3>2. CASE n # 1
      <4>1. n - 1 \in 1 .. Len(Tail(queue)) /\ queue[n] = Tail(queue)[n - 1]
        BY <1>1, <2>1, <3>2
      <4>2. QED
        BY <4>1, Zenon
    <3>3. QED
      BY <3>1, <3>2, Zenon
  <2>4. QED
    BY <2>2, <2>3, Zenon
<1>3. PICK r \in Seq(Job) : /\ r = Spawned(h)
                            /\ h[2] = 0 => Len(r) = Keys /\ \A n \in 1 .. Keys : r[n] = <<h[1], n>>
  <2>1. CASE h[2] = 0
    <3>1. PICK c \in Calls : c = h[1]
      BY JobFacts, Zenon
    <3>2. Spawned(h) = Fan(c)
      BY <2>1, <3>1, Zenon DEF Spawned, Outer
    <3>3. QED
      BY <3>1, <3>2, FanFacts, Zenon
  <2>2. CASE h[2] # 0
    <3>1. Spawned(h) = <<>>
      BY <2>2, Zenon DEF Spawned, Outer
    <3>2. <<>> \in Seq(Job)
      OBVIOUS
    <3>3. QED
      BY <2>2, <3>1, <3>2, Zenon
  <2>3. QED
    BY <2>1, <2>2, Zenon
<1>4. /\ \A n \in 1 .. Len(q) : Queued(q[n])'
      /\ \A n \in 1 .. Len(r) : Queued(r[n])'
  BY <1>1, <1>2, <1>3, QueuedParts, Zenon
<1>5. ASSUME NEW job, Queued(job), job # h PROVE Queued(job)'
  <2>1. PICK m \in 1 .. Len(q) : q[m] = job
    BY <1>2, <1>5, Zenon DEF Queued
  <2>2. QED
    BY <1>4, <2>1, Zenon
<1>6. ~Cancelled(h) => Running(h)'
  <2>1. ~Cancelled(h) => worker'[w] = h
    BY <1>1, <1>2, BatchTypes, Zenon
  <2>2. QED
    BY <2>1, Zenon DEF Running
<1>7. ASSUME NEW job \in Job, Running(job) PROVE Running(job)'
  <2>1. PICK v \in Workers : worker[v] = job
    BY <1>7, Zenon DEF Running
  <2>2. job # <<>>
    BY JobFacts, Zenon
  <2>3. v # w
    BY <1>1, <2>1, <2>2, Zenon
  <2>4. worker'[v] = job
    BY <1>1, <2>1, <2>3, BatchTypes, Zenon
  <2>5. QED
    BY <2>4, Zenon DEF Running
<1>8. ASSUME NEW c \in Calls PROVE DueAt(c)'
  <2>0. DueAt(c) /\ state'[c] = state[c] /\ result'[c] = result[c]
    BY <1>1, Zenon DEF DueInv
  <2>1. CASE state[c] # "called"
    BY <2>0, <2>1, DueFrame, Zenon
  <2>2. CASE state[c] = "called"
    <3>1. <<c, 0>> \in Job /\ \A i \in 1 .. Keys : <<c, i>> \in Job
      BY Zenon DEF Job, Items, Outer
    <3>2. ASSUME NEW k, h = <<c, k>> PROVE Running(h)' /\ h[1] = c
      <4>1. h[1] = c
        BY <3>2
      <4>2. ~Cancelled(h)
        BY <2>2, <4>1, Zenon DEF Cancelled
      <4>3. QED
        BY <1>6, <4>1, <4>2, Zenon
    <3>3. \A i \in 1 .. Keys : Due(c, i) => Due(c, i)'
      <4> SUFFICES ASSUME NEW i \in 1 .. Keys PROVE Due(c, i) => Due(c, i)'
        BY Zenon
      <4>1. Queued(<<c, i>>) => Queued(<<c, i>>)' \/ Running(<<c, i>>)'
        BY <1>5, <3>2, Zenon
      <4>2. Running(<<c, i>>) => Running(<<c, i>>)'
        BY <1>7, <3>1, Zenon
      <4>3. QED
        BY <2>0, <4>1, <4>2, DueStays, Zenon
    <3>4. CASE h = <<c, 0>>
      <4>1. h[2] = 0 /\ h[1] = c
        BY <3>4
      <4>2. ASSUME NEW i \in 1 .. Keys PROVE Due(c, i)'
        <5>1. Queued(r[i])' /\ r[i] = <<c, i>>
          BY <1>3, <1>4, <4>1, Zenon
        <5>2. Queued(<<c, i>>)'
          BY <5>1, Zenon
        <5>3. QED
          BY <5>2, Zenon DEF Due
      <4>3. Running(<<c, 0>>)'
        BY <3>2, <3>4, Zenon
      <4>4. QED
        BY <2>0, <3>3, <4>2, <4>3, DueFrame, Zenon
    <3>5. CASE h # <<c, 0>>
      <4>1. Queued(<<c, 0>>) => Queued(<<c, 0>>)'
        BY <1>5, <3>5, Zenon
      <4>2. Running(<<c, 0>>) => Running(<<c, 0>>)'
        BY <1>7, <3>1, Zenon
      <4>3. QED
        BY <2>0, <3>3, <4>1, <4>2, DueFrame, Zenon
    <3>6. QED
      BY <3>4, <3>5, Zenon
  <2>3. QED
    BY <2>1, <2>2, Zenon
<1>9. QED
  BY <1>8, Zenon DEF DueInv

\* A thread that is rid of its job leaves the other jobs where they are.
LEMMA RunningLeft ==
    ASSUME worker \in [Workers -> Job \cup {<<>>}], NEW w \in Workers, worker' = [worker EXCEPT ![w] = <<>>]
    PROVE  \A job : Running(job) /\ job # worker[w] => Running(job)'
<1> SUFFICES ASSUME NEW job, Running(job), job # worker[w] PROVE Running(job)'
  BY Zenon
<1>1. PICK v \in Workers : worker[v] = job
  BY Zenon DEF Running
<1>2. worker'[v] = job
  BY <1>1, Zenon
<1>3. QED
  BY <1>2, Zenon DEF Running

LEMMA DueItem ==
    ASSUME Keys \in Nat \ {0}, BatchInv, DueInv, NEW w \in Workers,
           NEW how \in {"hit", "miss", "raise"}, Item(w, how)
    PROVE  DueInv'
<1>1. PICK c, i : c = worker[w][1] /\ i = worker[w][2]
  BY Zenon
<1>2. /\ worker[w] # <<>> /\ i # 0
      /\ how = "raise" => c \notin Lookups
      /\ result' = [result EXCEPT ![c][i] = how]
      /\ worker' = [worker EXCEPT ![w] = <<>>]
      /\ UNCHANGED <<state, queue>>
  BY <1>1, Zenon DEF Item, Idle, Outer
<1>3. worker[w] = <<c, i>> /\ c \in Calls /\ i \in 1 .. Keys
  <2>1. worker[w] \in Job
    BY <1>2, BatchTypes, Zenon
  <2>2. QED
    BY <1>1, <1>2, <2>1, JobFacts, Zenon
<1>4. \A job : Queued(job) => Queued(job)'
  BY <1>2, Zenon DEF Queued
<1>5. \A job : Running(job) /\ job # <<c, i>> => Running(job)'
  BY <1>2, <1>3, BatchTypes, RunningLeft, Zenon
<1>6. how # "none" /\ result'[c][i] = how
  BY <1>2, <1>3, BatchTypes
<1>7. \A d \in Calls, j \in 1 .. Keys : d # c \/ j # i => result'[d][j] = result[d][j]
  BY <1>2, <1>3, BatchTypes, Zenon
<1>8. ASSUME NEW d \in Calls PROVE DueAt(d)'
  <2>1. DueAt(d) /\ state'[d] = state[d]
    BY <1>2, Zenon DEF DueInv
  <2>2. \A j \in 1 .. Keys : Due(d, j) => Due(d, j)'
    <3> SUFFICES ASSUME NEW j \in 1 .. Keys PROVE Due(d, j) => Due(d, j)'
      BY Zenon
    <3>1. CASE d = c /\ j = i
      BY <1>6, <3>1, Zenon DEF Due
    <3>2. CASE d # c \/ j # i
      <4>1. <<d, j>> # <<c, i>>
        BY <3>2
      <4>2. result'[d][j] = result[d][j]
        BY <1>7, <3>2, Zenon
      <4>3. QED
        BY <1>4, <1>5, <4>1, <4>2, DueStays, Zenon
    <3>3. QED
      BY <3>1, <3>2, Zenon
  <2>3. Running(<<d, 0>>) => Running(<<d, 0>>)'
    <3>1. <<d, 0>> # <<c, i>>
      BY <1>2
    <3>2. QED
      BY <1>5, <3>1, Zenon
  <2>4. d \in Lookups => \A j \in 1 .. Keys : result'[d][j] = "raise" => result[d][j] = "raise"
    BY <1>2, <1>6, <1>7, Zenon
  <2>5. QED
    BY <1>4, <2>1, <2>2, <2>3, <2>4, DueFrame, Zenon
<1>9. QED
  BY <1>8, Zenon DEF DueInv

LEMMA DueLookupEnd ==
    ASSUME Keys \in Nat \ {0}, BatchInv, DueInv, NEW w \in Workers, LookupEnd(w)
    PROVE  DueInv'
<1>1. PICK c : c = worker[w][1]
  BY Zenon
<1>2. /\ worker[w] # <<>> /\ worker[w][2] = 0
      /\ state' = [state EXCEPT ![c] = "done"]
      /\ worker' = [worker EXCEPT ![w] = <<>>]
      /\ UNCHANGED <<queue, result>>
  BY <1>1, Zenon DEF LookupEnd, Idle, Outer
<1>3. worker[w] = <<c, 0>> /\ c \in Calls
  <2>1. worker[w] \in Job
    BY <1>2, BatchTypes, Zenon
  <2>2. QED
    BY <1>1, <1>2, <2>1, JobFacts, Zenon
<1>4. \A job : Queued(job) => Queued(job)'
  BY <1>2, Zenon DEF Queued
<1>5. \A job : Running(job) /\ job # <<c, 0>> => Running(job)'
  BY <1>2, <1>3, BatchTypes, RunningLeft, Zenon
<1>6. ASSUME NEW d \in Calls PROVE DueAt(d)'
  <2>1. DueAt(d) /\ result'[d] = result[d]
    BY <1>2, Zenon DEF DueInv
  <2>2. CASE d = c
    <3>1. state'[d] = "done"
      BY <1>2, <1>3, <2>2, BatchTypes, Zenon
    <3>2. state'[d] # "called"
      BY <3>1
    <3>3. QED
      BY <2>1, <3>2, DueFrame, Zenon
  <2>3. CASE d # c
    <3>1. state'[d] = state[d]
      BY <1>2, <2>3, BatchTypes, Zenon
    <3>2. \A j : <<d, j>> # <<c, 0>>
      BY <2>3
    <3>3. \A j : Running(<<d, j>>) => Running(<<d, j>>)'
      BY <1>5, <3>2, Zenon
    <3>4. \A j \in 1 .. Keys : Due(d, j) => Due(d, j)'
      BY <1>4, <2>1, <3>3, DueStays, Zenon
    <3>5. QED
      BY <1>4, <2>1, <3>1, <3>3, <3>4, DueFrame, Zenon
  <2>4. QED
    BY <2>2, <2>3, Zenon
<1>7. QED
  BY <1>6, Zenon DEF DueInv

\* A caller goes on: nothing in the pool moves.
LEMMA DueCaller ==
    ASSUME BatchInv, DueInv, NEW c \in Calls, GetEnd(c) \/ BatchRaises(c)
    PROVE  DueInv'
<1>1. PICK end \in {"done", "raised"} : state' = [state EXCEPT ![c] = end] /\ UNCHANGED <<queue, worker, result>>
  BY Zenon DEF GetEnd, BatchRaises
<1>2. \A job : (Queued(job) => Queued(job)') /\ (Running(job) => Running(job)')
  BY <1>1, Zenon DEF Queued, Running
<1>3. ASSUME NEW d \in Calls PROVE DueAt(d)'
  <2>1. DueAt(d) /\ result'[d] = result[d]
    BY <1>1, Zenon DEF DueInv
  <2>2. state'[d] = "called" => state[d] = "called"
    BY <1>1, BatchTypes
  <2>3. \A j \in 1 .. Keys : Due(d, j) => Due(d, j)'
    BY <1>2, <2>1, DueStays, Zenon
  <2>4. QED
    BY <1>2, <2>1, <2>2, <2>3, DueFrame, Zenon
<1>4. QED
  BY <1>3, Zenon DEF DueInv

\* Of the keys of a call whose results are all in, one that raises is the first.
LEMMA FirstRaise ==
    ASSUME Keys \in Nat \ {0}, BatchInv, NEW c \in Calls,
           \A i \in 1 .. Keys : result[c][i] # "none",
           NEW k \in 1 .. Keys, result[c][k] = "raise"
    PROVE  \E i \in 1 .. Keys : /\ result[c][i] = "raise"
                                /\ \A j \in 1 .. i - 1 : result[c][j] \in {"hit", "miss"}
<1> DEFINE D == {n \in Nat : n \in 1 .. Keys /\ result[c][n] = "raise"}
<1>1. k \in D
  OBVIOUS
<1>2. PICK n \in D : \A m \in D : ~(<<m, n>> \in OpToRel(<, Nat))
  BY <1>1, NatLessThanWellFounded, WFMin, Zenon
<1>3. \A i, j \in Nat : i < j => <<i, j>> \in OpToRel(<, Nat)
  BY Zenon DEF OpToRel
<1>4. \A m \in D : ~(m < n)
  BY <1>2, <1>3, Zenon
<1>5. n \in 1 .. Keys /\ result[c][n] = "raise"
  BY <1>2, Zenon
<1>6. ASSUME NEW j \in 1 .. n - 1 PROVE result[c][j] \in {"hit", "miss"}
  <2>1. j \in 1 .. Keys /\ j \in Nat /\ j < n
    BY <1>5
  <2>2. result[c][j] # "raise"
    BY <1>4, <2>1, Zenon
  <2>3. result[c][j] \in {"none", "hit", "miss", "raise"}
    BY <2>1, BatchTypes, ZenonT(30)
  <2>4. QED
    BY <2>1, <2>2, <2>3, Zenon
<1>7. QED
  BY <1>5, <1>6, Zenon

\* Every batched call that waits, waits for something that moves, unless every thread
\* of the pool runs a batched_contains that waits for the pool itself: no key of a
\* call is lost between batched_get_blocking or batched_async_contains and the
\* pool, however calls of all kinds share it, and pool.map's cancellation drops
\* only keys of a call that has raised.  The safety half of CallsEnd.
THEOREM NothingElseStalls == BatchSpec => []OnlySelfWaits
<1> USE KeysAssumption
<1>0. Lookups \cap Gets = {}
  BY CallsAssumption, Zenon DEF Gets
<1>1. BatchInit => DueInv
  BY DEF BatchInit, DueInv, DueAt, Items, Calls
<1>2. BatchInv /\ DueInv /\ [BatchNext]_batchVars => DueInv'
  <2> SUFFICES ASSUME BatchInv, DueInv, [BatchNext]_batchVars PROVE DueInv'
    BY Zenon
  <2>1. CASE UNCHANGED batchVars
    BY <2>1, Zenon DEF batchVars, DueInv, DueAt, Due, Queued, Running
  <2>2. QED
    BY <1>0, <2>1, DueCall, DueStart, DueItem, DueLookupEnd, DueCaller, Zenon DEF BatchNext, WorkerStep
<1>3. BatchInv /\ DueInv => OnlySelfWaits
  <2> SUFFICES ASSUME BatchInv, DueInv, NEW c \in Calls, state[c] = "called", ~PoolGoesOn, ~SelfWait
               PROVE  CallerGoesOn(c)
    BY Zenon DEF OnlySelfWaits
  <2>1. \A w \in Workers : worker[w] # <<>> => worker[w][2] = 0
    BY Zenon DEF PoolGoesOn
  <2>2. queue = <<>>
    <3>1. PICK w \in Workers : ~(worker[w] # <<>> /\ worker[w][2] = 0)
      BY Zenon DEF SelfWait, Idle, Outer
    <3>2. worker[w] = <<>>
      BY <2>1, <3>1, Zenon
    <3>3. QED
      BY <3>2, Zenon DEF PoolGoesOn
  <2>3. \A job : ~Queued(job)
    <3>1. 1 .. Len(queue) = {}
      BY <2>2
    <3>2. QED
      BY <3>1, Zenon DEF Queued
  <2>4. \A i \in 1 .. Keys : ~Running(<<c, i>>)
    <3> SUFFICES ASSUME NEW i \in 1 .. Keys, NEW w \in Workers, worker[w] = <<c, i>> PROVE FALSE
      BY Zenon DEF Running
    <3>1. worker[w] # <<>> /\ worker[w][2] # 0
      OBVIOUS
    <3>2. QED
      BY <2>1, <3>1, Zenon
  <2>5. (c \in Lookups => Running(<<c, 0>>)) /\ \A i \in 1 .. Keys : result[c][i] # "none"
    BY <2>3, <2>4, Zenon DEF DueInv, DueAt, Due
  <2>6. CASE \E k \in 1 .. Keys : result[c][k] = "raise"
    BY <2>5, <2>6, FirstRaise, Zenon DEF CallerGoesOn
  <2>7. CASE \A k \in 1 .. Keys : result[c][k] # "raise"
    <3>1. \A i \in 1 .. Keys : result[c][i] \in {"none", "hit", "miss", "raise"}
      BY BatchTypes, ZenonT(30)
    <3>2. Complete(c)
      BY <2>5, <2>7, <3>1, Zenon DEF Complete, Items
    <3>3. QED
      BY <2>5, <3>2, Zenon DEF CallerGoesOn
  <2>8. QED
    BY <2>6, <2>7, Zenon
<1>4. QED
  BY <1>1, <1>2, <1>3, BatchAlways, PTL DEF BatchSpec
=============================================================================
