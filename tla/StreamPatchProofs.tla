------------------------- MODULE StreamPatchProofs -------------------------
(***************************************************************************)
(* For any keys, requests and sub-batch size: marks do not outlive their   *)
(* load, what is readable has landed, and a retrieve copies the right      *)
(* objects.                                                                *)
(***************************************************************************)
EXTENDS StreamPatch, FiniteSetTheorems, TLAPS

L1Types ==
    /\ l1 \in [Keys -> {"absent", "writing", "readable"}]
    /\ holds \in [Requests -> SUBSET Keys]
    /\ quit \in BOOLEAN

LoadTypes ==
    /\ phase \in [Requests -> {"new", "lookup", "decided", "loading", "done", "popped"}]
    /\ hits \in [Requests -> Nat]
    /\ \A r \in Requests : hits[r] =< Len(Wants[r])
    /\ batch \in [Requests -> Seq(Keys)]
    /\ ok \in [Requests -> SUBSET Keys]
    /\ finishing \in Requests \cup {None}

ReadTypes ==
    /\ at \in [Requests -> {"idle", "found", "resolve", "copy", "done", "failed", "released"}]
    /\ sent \in [Requests -> Nat]
    /\ DOMAIN gpu = Requests

\* A key has its bit set only while the request it was loaded for is loading, and
\* the request to be finished is loading; a retrieve begins after the lookup.
LoadInv ==
    /\ \A r \in Requests : ok[r] \subseteq Range(batch[r])
    /\ \A r \in Requests : phase[r] # "loading" => ok[r] = {}
    /\ finishing # None => phase[finishing] = "loading"
    /\ \A r \in Requests : at[r] # "idle" => phase[r] \notin {"new", "lookup"}

\* Every mark belongs to a load that will spend it.
MarkInv == \A k \in early : \E r \in Requests : phase[r] = "loading" /\ k \in ok[r]

\* While r loads, each key of its batch is reserved for it: not landed yet, or
\* published and held.  So it cannot be evicted, and no other load has it.
Reserved(r, k) == l1[k] = "writing" \/ (l1[k] = "readable" /\ k \in holds[r])

CacheInv ==
    /\ \A r \in Requests : phase[r] = "loading" => \A k \in Range(batch[r]) : Reserved(r, k)
    /\ \A r, s \in Requests :
         phase[r] = "loading" /\ phase[s] = "loading" /\ r # s => Range(batch[r]) \cap Range(batch[s]) = {}
    /\ \A r \in Requests : ok[r] \subseteq landed
    /\ \A k \in Keys : Readable(k) => k \in landed
    /\ \A r \in Requests : \A k \in holds[r] : Readable(k)

\* What a copy has left in the blocks of the first n chunks.
Exact(r, n) == \A p \in DOMAIN gpu[r] : p =< n => gpu[r][p] \in {Wants[r][p], Unheld}

ReadInv ==
    \A r \in Requests :
      /\ at[r] \in {"idle", "found"} => sent[r] = 0 /\ gpu[r] = <<>>
      /\ at[r] \in {"resolve", "copy"} => DOMAIN gpu[r] = 1 .. hits[r] /\ Exact(r, sent[r] * Sub)
-----------------------------------------------------------------------------
(* Types.                                                                  *)

\* Sub-batches are numbered.
LEMMA SlicesAreNumbers == \A n \in Nat : Slices(n) \subseteq Nat
BY DEF Slices

\* The proxy is given a sequence of keys, the ones reserved at that moment.
LEMMA BatchIsSeq ==
    ASSUME L1Types, LoadTypes, NEW r \in Requests, submit_load_task(r)
    PROVE  /\ batch'[r] \in Seq(Keys)
           /\ \A k \in Range(batch'[r]) : k \in Keys /\ l1[k] = "absent" /\ l1'[k] = "writing"
           /\ \A s \in Requests \ {r} : batch'[s] = batch[s]
<1> DEFINE gaps == {p \in 1 .. hits[r] : l1[Wants[r][p]] = "absent"}
<1>1. IsFiniteSet(gaps)
  <2>1. hits[r] \in Nat
    BY Zenon DEF LoadTypes
  <2>2. IsFiniteSet(1 .. hits[r])
    BY <2>1, FS_Interval
  <2>3. QED
    BY <2>2, FS_Subset, Zenon
<1>2. Cardinality(gaps) \in Nat
  BY <1>1, FS_CardinalityType, Zenon
<1>3. PICK ps \in [1 .. Cardinality(gaps) -> gaps] :
        batch' = [batch EXCEPT ![r] = [i \in DOMAIN ps |-> Wants[r][ps[i]]]]
  BY Zenon DEF submit_load_task
<1>4. \A p \in gaps : Wants[r][p] \in Keys /\ l1[Wants[r][p]] = "absent" /\ Wants[r][p] \in KeysAt(Wants[r], gaps)
  BY WantsAssumption DEF LoadTypes, KeysAt
<1>5. batch'[r] = [i \in 1 .. Cardinality(gaps) |-> Wants[r][ps[i]]]
  BY <1>3, Zenon DEF LoadTypes
<1> HIDE DEF gaps
<1>6. \A i \in 1 .. Cardinality(gaps) : Wants[r][ps[i]] \in Keys
  BY <1>3, <1>4, Zenon
<1>7. batch'[r] \in Seq(Keys)
  BY <1>2, <1>5, <1>6
<1>8. \A k \in Range(batch'[r]) : k \in Keys /\ l1[k] = "absent" /\ k \in KeysAt(Wants[r], gaps)
  <2>1. \A i \in 1 .. Cardinality(gaps) : ps[i] \in gaps
    BY <1>3, Zenon
  <2>2. Range(batch'[r]) = {Wants[r][ps[i]] : i \in 1 .. Cardinality(gaps)}
    BY <1>5 DEF Range
  <2>3. QED
    BY <1>4, <2>1, <2>2
<1>9. l1' = [k \in Keys |-> IF k \in KeysAt(Wants[r], gaps) THEN "writing" ELSE l1[k]]
  BY Zenon DEF submit_load_task, gaps
<1>10. QED
  BY <1>3, <1>7, <1>8, <1>9, Zenon DEF LoadTypes

\* What is given to the inner adapter is what it may set bits of.
LEMMA SubKeysInBatch ==
    ASSUME LoadTypes, NEW r \in Requests, NEW i
    PROVE  SubKeys(r, i) \subseteq Range(batch[r]) /\ Range(batch[r]) \subseteq Keys
<1>1. batch[r] \in Seq(Keys)
  BY Zenon DEF LoadTypes
<1>2. DOMAIN batch[r] = 1 .. Len(batch[r])
  BY <1>1
<1>3. QED
  BY <1>1, <1>2 DEF SubKeys, KeysAt, Slice, Range
\* finish_write_and_reserve_read, key by key.
LEMMA FinishWrite ==
    ASSUME L1Types, NEW r \in Requests, NEW ks \in SUBSET Keys, NEW gone, finish_write(r, ks, gone)
    PROVE  /\ l1' \in [Keys -> {"absent", "writing", "readable"}]
           /\ holds' \in [Requests -> SUBSET Keys]
           /\ \A k \in Keys : l1'[k] = IF k \in ks /\ l1[k] = "writing" THEN "readable"
                                     ELSE IF k \in gone THEN "absent" ELSE l1[k]
           /\ \A k \in Keys : k \in holds'[r] <=> k \in holds[r] \/ (k \in ks /\ l1[k] = "writing")
           /\ \A s \in Requests \ {r} : holds'[s] = holds[s]
BY Zenon DEF finish_write, L1Types

Types == L1Types /\ LoadTypes /\ ReadTypes

\* Types are kept by every step.
LEMMA TypesKept ==
    ASSUME Types, LoadInv, [Next]_vars
    PROVE  Types'
<1> USE DEF Types
<1>1. ASSUME NEW r \in Requests, Prefetch(r) \/ LookedUp(r) \/ Janitor(r) PROVE Types'
  <2>1. L1Types' /\ ReadTypes'
    BY <1>1, Zenon DEF Prefetch, LookedUp, Janitor, L1Types, ReadTypes, l1Vars, readVars
  <2>2. CASE Prefetch(r) \/ Janitor(r)
    BY <2>1, <2>2, Zenon DEF Prefetch, Janitor, LoadTypes
  <2>3. CASE LookedUp(r)
    <3>1. Len(Wants[r]) \in Nat
      BY WantsAssumption
    <3>2. QED
      BY <2>1, <2>3, <3>1 DEF LookedUp, LoadTypes
  <2>4. QED
    BY <1>1, <2>2, <2>3, Zenon
<1>2. ASSUME NEW r \in Requests, submit_load_task(r) PROVE Types'
  <2>1. L1Types' /\ ReadTypes'
    BY <1>2, Zenon DEF submit_load_task, L1Types, ReadTypes, readVars
  <2>2. batch' \in [Requests -> Seq(Keys)]
    <3>1. batch'[r] \in Seq(Keys)
      BY <1>2, BatchIsSeq, Zenon
    <3>2. \E s : batch' = [batch EXCEPT ![r] = s]
      BY <1>2, Zenon DEF submit_load_task
    <3>3. QED
      BY <3>1, <3>2, Zenon DEF LoadTypes
  <2>3. QED
    BY <1>2, <2>1, <2>2, Zenon DEF submit_load_task, LoadTypes
<1>3. ASSUME NEW r \in Requests, Finish(r) PROVE Types'
  <2>1. L1Types' /\ ReadTypes'
    <3>1. ok[r] \ (ok[r] \cap early) \in SUBSET Keys
      BY Zenon DEF LoadTypes
    <3>2. QED
      BY <1>3, <3>1, FinishWrite, Zenon DEF Finish, L1Types, ReadTypes, readVars
  <2>2. <<>> \in Seq(Keys)
    OBVIOUS
  <2>3. QED
    BY <1>3, <2>1, <2>2, Zenon DEF Finish, LoadTypes
<1>4. ASSUME NEW r \in Requests, NEW i \in Nat, query_load_result(r, i) PROVE Types'
  <2>1. L1Types' /\ ReadTypes'
    <3>1. Published(r, i) \in SUBSET Keys
      BY Zenon DEF LoadTypes, Published
    <3>2. QED
      BY <1>4, <3>1, FinishWrite, Zenon DEF query_load_result, L1Types, ReadTypes, readVars
  <2>2. QED
    BY <1>4, <2>1, Zenon DEF query_load_result, LoadTypes
<1>5. ASSUME NEW r \in Requests, NEW i \in Nat, LoadEnds(r, i) PROVE Types'
  BY <1>5, SubKeysInBatch DEF LoadEnds, L1Types, LoadTypes, ReadTypes, readVars
<1>6. ASSUME NEW k \in Keys, Evict(k) PROVE Types'
  BY <1>6, Zenon DEF Evict, L1Types, LoadTypes, ReadTypes, loadVars, readVars
<1>7. ASSUME NEW r \in Requests, Query(r) \/ Read(r) \/ Resolve(r) \/ Copy(r) \/ Fails(r) \/ Release(r) PROVE Types'
  <2>1. LoadTypes' /\ L1Types'
    BY <1>7, Zenon DEF Query, Read, Resolve, Copy, Fails, Release, L1Types, LoadTypes, l1Vars, loadVars
  <2>2. ReadTypes'
    BY <1>7 DEF Query, Read, Resolve, Copy, Fails, Release, ReadTypes
  <2>3. QED
    BY <2>1, <2>2, Zenon
<1>8. CASE UNCHANGED vars
  BY <1>8, Zenon DEF vars, l1Vars, loadVars, readVars, L1Types, LoadTypes, ReadTypes
<1>9. \A r \in Requests : Slices(Len(batch[r])) \subseteq Nat
  BY SlicesAreNumbers DEF LoadTypes
<1>10. QED
  BY <1>1, <1>2, <1>3, <1>4, <1>5, <1>6, <1>7, <1>8, <1>9, Zenon DEF Next, Controller, Retrieve
-----------------------------------------------------------------------------
(* Loads and marks.                                                        *)

\* Every step keeps LoadInv.
LEMMA LoadInvKept ==
    ASSUME Types, LoadInv, [Next]_vars
    PROVE  LoadInv'
<1> USE DEF Types
<1>1. ASSUME NEW r \in Requests, Prefetch(r) \/ LookedUp(r) \/ Janitor(r) PROVE LoadInv'
  <2>1. /\ UNCHANGED <<batch, ok, finishing, at>>
        /\ \E w \in {"lookup", "decided", "popped"} :
             /\ phase' = [phase EXCEPT ![r] = w]
             /\ w = "lookup" => phase[r] = "new"
        /\ phase[r] # "loading"
    BY <1>1, Zenon DEF Prefetch, LookedUp, Janitor, readVars
  <2>2. QED
    BY <2>1, Zenon DEF LoadInv, LoadTypes
<1>2. ASSUME NEW r \in Requests, submit_load_task(r) PROVE LoadInv'
  <2>1. /\ UNCHANGED <<ok, finishing, at>> /\ finishing = None
        /\ \E w \in {"done", "loading"} : phase' = [phase EXCEPT ![r] = w]
        /\ phase[r] = "decided"
    BY <1>2, Zenon DEF submit_load_task, readVars
  <2>2. \A s \in Requests \ {r} : batch'[s] = batch[s]
    BY <1>2, BatchIsSeq, Zenon
  <2>3. QED
    BY <2>1, <2>2, Zenon DEF LoadInv, LoadTypes
<1>3. ASSUME NEW r \in Requests, Finish(r) PROVE LoadInv'
  <2>1. phase[r] = "loading"
    BY <1>3, RequestsAssumption, Zenon DEF Finish, LoadInv
  <2>2. QED
    BY <1>3, <2>1, Zenon DEF Finish, LoadInv, LoadTypes, readVars
<1>4. ASSUME NEW r \in Requests, NEW i \in Nat, query_load_result(r, i) PROVE LoadInv'
  BY <1>4, Zenon DEF query_load_result, LoadInv, readVars
<1>5. ASSUME NEW r \in Requests, NEW i \in Nat, LoadEnds(r, i) PROVE LoadInv'
  <2>1. PICK good \in SUBSET SubKeys(r, i) : ok' = [ok EXCEPT ![r] = @ \cup good]
    BY <1>5, Zenon DEF LoadEnds
  <2>2. good \subseteq Range(batch[r])
    BY <2>1, SubKeysInBatch, Zenon
  <2>3. UNCHANGED <<phase, batch, finishing, at>> /\ phase[r] = "loading"
    BY <1>5, Zenon DEF LoadEnds, readVars
  <2>4. QED
    BY <2>1, <2>2, <2>3, Zenon DEF LoadInv, LoadTypes
<1>6. ASSUME NEW k \in Keys, Evict(k) PROVE LoadInv'
  BY <1>6, Zenon DEF Evict, LoadInv, loadVars, readVars
<1>7. ASSUME NEW r \in Requests, Query(r) \/ Read(r) \/ Resolve(r) \/ Copy(r) \/ Fails(r) \/ Release(r) PROVE LoadInv'
  <2>1. UNCHANGED <<phase, batch, ok, finishing>>
    BY <1>7, Zenon DEF Query, Read, Resolve, Copy, Fails, Release, loadVars
  <2>2. /\ \E w : at' = [at EXCEPT ![r] = w]
        /\ at[r] # "idle" \/ phase[r] \notin {"new", "lookup"}
    BY <1>7, Zenon DEF Query, Decided, Read, Resolve, Copy, Fails, Release
  <2>3. QED
    BY <2>1, <2>2, Zenon DEF LoadInv, ReadTypes
<1>8. CASE UNCHANGED vars
  BY <1>8, Zenon DEF vars, l1Vars, loadVars, readVars, LoadInv
<1>9. \A r \in Requests : Slices(Len(batch[r])) \subseteq Nat
  BY SlicesAreNumbers DEF LoadTypes
<1>10. QED
  BY <1>1, <1>2, <1>3, <1>4, <1>5, <1>6, <1>7, <1>8, <1>9, Zenon DEF Next, Controller, Retrieve

\* Every step keeps MarkInv: a load that goes takes the marks of its keys along.
LEMMA MarkInvKept ==
    ASSUME Types, LoadInv, MarkInv, [Next]_vars
    PROVE  MarkInv'
<1> USE DEF Types
<1>1. ASSUME NEW r \in Requests, Prefetch(r) \/ LookedUp(r) \/ Janitor(r) \/ submit_load_task(r) PROVE MarkInv'
  <2>1. /\ UNCHANGED <<early, ok>>
        /\ \E w : phase' = [phase EXCEPT ![r] = w]
        /\ phase[r] # "loading"
    BY <1>1, Zenon DEF Prefetch, LookedUp, Janitor, submit_load_task
  <2>2. QED
    BY <2>1, Zenon DEF MarkInv, LoadTypes
<1>2. ASSUME NEW r \in Requests, Finish(r) PROVE MarkInv'
  <2>1. early' = early \ ok[r]
    BY <1>2, Zenon DEF Finish, SpendMarks
  <2>2. \A s \in Requests \ {r} : phase'[s] = phase[s] /\ ok'[s] = ok[s]
    BY <1>2, Zenon DEF Finish, LoadTypes
  <2>3. QED
    BY <2>1, <2>2, Zenon DEF MarkInv
<1>3. ASSUME NEW r \in Requests, NEW i \in Nat, query_load_result(r, i) PROVE MarkInv'
  BY <1>3, Zenon DEF query_load_result, Published, MarkInv
<1>4. ASSUME NEW r \in Requests, NEW i \in Nat, LoadEnds(r, i) PROVE MarkInv'
  BY <1>4, Zenon DEF LoadEnds, MarkInv, LoadTypes
<1>5. ASSUME NEW k \in Keys, Evict(k) PROVE MarkInv'
  BY <1>5, Zenon DEF Evict, MarkInv, loadVars
<1>6. ASSUME NEW r \in Requests, Query(r) \/ Read(r) \/ Resolve(r) \/ Copy(r) \/ Fails(r) \/ Release(r) PROVE MarkInv'
  BY <1>6, Zenon DEF Query, Read, Resolve, Copy, Fails, Release, MarkInv, loadVars
<1>7. CASE UNCHANGED vars
  BY <1>7, Zenon DEF vars, loadVars, MarkInv
<1>8. \A r \in Requests : Slices(Len(batch[r])) \subseteq Nat
  BY SlicesAreNumbers DEF LoadTypes
<1>9. QED
  BY <1>1, <1>2, <1>3, <1>4, <1>5, <1>6, <1>7, <1>8, Zenon DEF Next, Controller, Retrieve
-----------------------------------------------------------------------------
(* The L1 cache, as long as no retrieve has given up before its load.      *)

\* Publishing keys whose bit is set, and giving up reserved keys of the same
\* batch that have none, keeps what CacheInv says of every load but r's own.
LEMMA PublishKeeps ==
    ASSUME Types, LoadInv, CacheInv, NEW r \in Requests, phase[r] = "loading",
           NEW ks \in SUBSET ok[r], NEW gone \in SUBSET (Range(batch[r]) \ ok[r]),
           \A k \in gone : l1[k] = "writing",
           finish_write(r, ks, gone), UNCHANGED landed
    PROVE  /\ \A k \in Keys : l1'[k] = "readable" => k \in landed'
           /\ \A s \in Requests : \A k \in holds'[s] : l1'[k] = "readable"
           /\ \A s \in Requests \ {r} : phase[s] = "loading" => \A k \in Range(batch[s]) : Reserved(s, k)'
           /\ gone = {} => \A k \in Range(batch[r]) : Reserved(r, k)'
<1> USE DEF Types
<1>1. ks \in SUBSET Keys
  BY Zenon DEF LoadTypes
<1>2. Range(batch[r]) \subseteq Keys /\ \A s \in Requests : Range(batch[s]) \subseteq Keys
  BY SubKeysInBatch, Zenon
<1>3. /\ holds' \in [Requests -> SUBSET Keys]
      /\ \A k \in Keys : l1'[k] = IF k \in ks /\ l1[k] = "writing" THEN "readable"
                                ELSE IF k \in gone THEN "absent" ELSE l1[k]
      /\ \A k \in Keys : k \in holds'[r] <=> k \in holds[r] \/ (k \in ks /\ l1[k] = "writing")
      /\ \A s \in Requests \ {r} : holds'[s] = holds[s]
  BY <1>1, FinishWrite
<1>4. \A k \in Keys : l1'[k] = "readable" => k \in landed'
  BY <1>3, Zenon DEF CacheInv, Readable
<1>5. ASSUME NEW s \in Requests, NEW k \in holds'[s] PROVE l1'[k] = "readable"
  <2>1. k \in Keys
    BY <1>3, <1>5, Zenon
  <2>2. CASE k \in holds[s]
    <3>1. l1[k] = "readable"
      BY <2>2, Zenon DEF CacheInv, Readable
    <3>2. QED
      BY <1>3, <2>1, <3>1, Zenon
  <2>3. CASE k \notin holds[s]
    BY <1>3, <1>5, <2>1, <2>3, Zenon
  <2>4. QED
    BY <2>2, <2>3, Zenon
<1>6. ASSUME NEW s \in Requests \ {r}, phase[s] = "loading", NEW k \in Range(batch[s]) PROVE Reserved(s, k)'
  <2>1. k \in Keys /\ k \notin Range(batch[r])
    BY <1>2, <1>6, Zenon DEF CacheInv
  <2>2. k \notin ks /\ k \notin gone
    BY <2>1, Zenon DEF LoadInv
  <2>3. Reserved(s, k)
    BY <1>6, Zenon DEF CacheInv
  <2>4. l1'[k] = l1[k] /\ holds'[s] = holds[s]
    BY <1>3, <2>1, <2>2, Zenon
  <2>5. QED
    BY <2>3, <2>4, Zenon DEF Reserved
<1>7. ASSUME gone = {}, NEW k \in Range(batch[r]) PROVE Reserved(r, k)'
  <2>1. k \in Keys
    BY <1>2, Zenon
  <2>2. Reserved(r, k)
    BY Zenon DEF CacheInv
  <2>3. QED
    BY <1>3, <1>7, <2>1, <2>2, Zenon DEF Reserved
<1>8. QED
  BY <1>4, <1>5, <1>6, <1>7, Zenon

\* The controller keeps CacheInv.
LEMMA ControllerKeepsCache ==
    ASSUME Types, LoadInv, CacheInv, NEW r \in Requests,
           \/ submit_load_task(r) \/ Finish(r)
           \/ \E i \in Nat : query_load_result(r, i) \/ LoadEnds(r, i)
    PROVE  CacheInv'
<1> USE DEF Types
<1>0. \A s \in Requests : Range(batch[s]) \subseteq Keys
  BY SubKeysInBatch, Zenon
<1>1. CASE submit_load_task(r)
  <2>1. /\ \A k \in Range(batch'[r]) : k \in Keys /\ l1[k] = "absent" /\ l1'[k] = "writing"
        /\ \A s \in Requests \ {r} : batch'[s] = batch[s]
    BY <1>1, BatchIsSeq, Zenon
  <2>2. /\ UNCHANGED <<holds, landed, ok>>
        /\ \A k \in Keys : l1'[k] = l1[k] \/ (l1[k] = "absent" /\ l1'[k] = "writing")
        /\ \A s \in Requests \ {r} : phase'[s] = phase[s]
    <3>1. \A k \in KeysAt(Wants[r], {p \in 1 .. hits[r] : l1[Wants[r][p]] = "absent"}) : l1[k] = "absent"
      BY Zenon DEF KeysAt
    <3>2. QED
      BY <1>1, <3>1, Zenon DEF submit_load_task, LoadTypes, L1Types
  <2>3. \A s \in Requests \ {r} : phase[s] = "loading" => \A k \in Range(batch[s]) : l1[k] # "absent"
    BY Zenon DEF CacheInv, Reserved
  <2>4. ASSUME NEW s \in Requests, phase'[s] = "loading", NEW k \in Range(batch'[s]) PROVE Reserved(s, k)'
    <3>1. CASE s = r
      BY <2>1, <2>4, <3>1, Zenon DEF Reserved
    <3>2. CASE s # r
      <4>1. k \in Range(batch[s]) /\ phase[s] = "loading" /\ k \in Keys
        BY <1>0, <2>1, <2>2, <2>4, <3>2, Zenon
      <4>2. Reserved(s, k) /\ l1[k] # "absent"
        BY <4>1, Zenon DEF CacheInv, Reserved
      <4>3. QED
        BY <2>2, <4>1, <4>2, Zenon DEF Reserved
    <3>3. QED
      BY <3>1, <3>2, Zenon
  <2>5. ASSUME NEW s \in Requests, NEW u \in Requests, phase'[s] = "loading", phase'[u] = "loading", s # u
        PROVE  Range(batch'[s]) \cap Range(batch'[u]) = {}
    <3>1. \A v \in Requests \ {r} : phase'[v] = "loading" => Range(batch'[v]) \cap Range(batch'[r]) = {}
      BY <2>1, <2>2, <2>3
    <3>2. CASE s = r \/ u = r
      BY <2>5, <3>1, <3>2, Zenon
    <3>3. CASE s # r /\ u # r
      BY <2>1, <2>2, <2>5, <3>3, Zenon DEF CacheInv
    <3>4. QED
      BY <3>2, <3>3, Zenon
  <2>6. /\ \A s \in Requests : ok'[s] \subseteq landed'
        /\ \A k \in Keys : l1'[k] = "readable" => k \in landed'
    BY <2>2, Zenon DEF CacheInv, Readable
  <2>7. \A s \in Requests : \A k \in holds'[s] : l1'[k] = "readable"
    BY <2>2, Zenon DEF CacheInv, Readable, L1Types
  <2>8. QED
    BY <2>4, <2>5, <2>6, <2>7, Zenon DEF CacheInv, Readable
<1>2. CASE Finish(r)
  <2> DEFINE ks == ok[r] \ (ok[r] \cap early)
             lost == {k \in Range(batch[r]) \ ok[r] : l1[k] = "writing"}
  <2>1. phase[r] = "loading"
    BY <1>2, RequestsAssumption, Zenon DEF Finish, LoadInv
  <2>2. ks \in SUBSET ok[r] /\ lost \in SUBSET (Range(batch[r]) \ ok[r]) /\ \A k \in lost : l1[k] = "writing"
    BY Zenon
  <2>3. /\ finish_write(r, ks, lost) /\ UNCHANGED landed
        /\ phase'[r] = "done" /\ ok'[r] = {}
        /\ \A s \in Requests \ {r} : phase'[s] = phase[s] /\ ok'[s] = ok[s] /\ batch'[s] = batch[s]
    BY <1>2, Zenon DEF Finish, LoadTypes
  <2> HIDE DEF ks, lost
  <2>4. /\ \A k \in Keys : l1'[k] = "readable" => k \in landed'
        /\ \A s \in Requests : \A k \in holds'[s] : l1'[k] = "readable"
        /\ \A s \in Requests \ {r} : phase[s] = "loading" => \A k \in Range(batch[s]) : Reserved(s, k)'
    BY <2>1, <2>2, <2>3, PublishKeeps, Zenon
  <2>5. \A s \in Requests : phase'[s] = "loading" => \A k \in Range(batch'[s]) : Reserved(s, k)'
    BY <2>3, <2>4, Zenon
  <2>6. \A s, u \in Requests :
          phase'[s] = "loading" /\ phase'[u] = "loading" /\ s # u => Range(batch'[s]) \cap Range(batch'[u]) = {}
    BY <2>3, Zenon DEF CacheInv
  <2>7. \A s \in Requests : ok'[s] \subseteq landed'
    BY <2>3, Zenon DEF CacheInv
  <2>8. QED
    BY <2>4, <2>5, <2>6, <2>7, Zenon DEF CacheInv, Readable
<1>3. ASSUME NEW i \in Nat, query_load_result(r, i) PROVE CacheInv'
  <2>1. /\ Published(r, i) \in SUBSET ok[r] /\ phase[r] = "loading"
        /\ finish_write(r, Published(r, i), {})
        /\ UNCHANGED <<landed, phase, ok, batch>>
    BY <1>3, Zenon DEF query_load_result, Published
  <2>2. {} \in SUBSET (Range(batch[r]) \ ok[r]) /\ \A k \in {} : l1[k] = "writing"
    BY Zenon
  <2>3. /\ \A k \in Keys : l1'[k] = "readable" => k \in landed'
        /\ \A s \in Requests : \A k \in holds'[s] : l1'[k] = "readable"
        /\ \A s \in Requests \ {r} : phase[s] = "loading" => \A k \in Range(batch[s]) : Reserved(s, k)'
        /\ \A k \in Range(batch[r]) : Reserved(r, k)'
    BY <2>1, <2>2, PublishKeeps, Zenon
  <2>4. \A s \in Requests : phase'[s] = "loading" => \A k \in Range(batch'[s]) : Reserved(s, k)'
    BY <2>1, <2>3, Zenon
  <2>5. \A s, u \in Requests :
          phase'[s] = "loading" /\ phase'[u] = "loading" /\ s # u => Range(batch'[s]) \cap Range(batch'[u]) = {}
    BY <2>1, Zenon DEF CacheInv
  <2>6. \A s \in Requests : ok'[s] \subseteq landed'
    BY <2>1, Zenon DEF CacheInv
  <2>7. QED
    BY <2>3, <2>4, <2>5, <2>6, Zenon DEF CacheInv, Readable
<1>4. ASSUME NEW i \in Nat, LoadEnds(r, i) PROVE CacheInv'
  <2>1. UNCHANGED <<l1, holds, phase, batch>>
    BY <1>4, Zenon DEF LoadEnds
  <2>2. landed \subseteq landed' /\ \A s \in Requests : ok'[s] \subseteq ok[s] \cup landed'
    BY <1>4 DEF LoadEnds, LoadTypes
  <2>3. QED
    BY <2>1, <2>2, Zenon DEF CacheInv, Reserved, Readable
<1>5. QED
  BY <1>1, <1>2, <1>3, <1>4, Zenon

\* Every step that does not end with a retrieve giving up keeps CacheInv.
LEMMA CacheInvKept ==
    ASSUME Types, LoadInv, ~quit => CacheInv, [Next]_vars
    PROVE  ~quit' => CacheInv'
<1> USE DEF Types
<1>1. ASSUME NEW r \in Requests, Prefetch(r) \/ LookedUp(r) \/ Janitor(r) PROVE ~quit' => CacheInv'
  <2>1. /\ UNCHANGED <<l1, holds, landed, batch, ok, quit>>
        /\ \E w \in {"lookup", "decided", "popped"} : phase' = [phase EXCEPT ![r] = w]
    BY <1>1, Zenon DEF Prefetch, LookedUp, Janitor, l1Vars
  <2>2. \A s \in Requests : phase'[s] = "loading" => phase[s] = "loading"
    BY <2>1, Zenon DEF LoadTypes
  <2>3. QED
    BY <2>1, <2>2, Zenon DEF CacheInv, Reserved, Readable
<1>2. ASSUME NEW r \in Requests,
             \/ submit_load_task(r) \/ Finish(r)
             \/ \E i \in Nat : query_load_result(r, i) \/ LoadEnds(r, i)
      PROVE  ~quit' => CacheInv'
  <2>1. quit' = quit
    BY <1>2, Zenon DEF submit_load_task, Finish, query_load_result, LoadEnds
  <2>2. QED
    BY <1>2, <2>1, ControllerKeepsCache, Zenon
<1>3. ASSUME NEW k \in Keys, Evict(k) PROVE ~quit' => CacheInv'
  <2> SUFFICES ASSUME CacheInv PROVE CacheInv'
    BY <1>3, Zenon DEF Evict
  <2>1. /\ UNCHANGED <<holds, phase, batch, ok>>
        /\ l1[k] = "readable" /\ \A r \in Requests : k \notin holds[r]
        /\ l1' = [l1 EXCEPT ![k] = "absent"] /\ landed' = landed \ {k}
    BY <1>3, Zenon DEF Evict, loadVars
  <2>2. \A r \in Requests : Range(batch[r]) \subseteq Keys
    BY SubKeysInBatch, Zenon
  <2>3. \A r \in Requests : phase[r] = "loading" => k \notin Range(batch[r])
    BY <2>1, Zenon DEF CacheInv, Reserved
  <2>4. \A r \in Requests : k \notin ok[r]
    BY <2>3, Zenon DEF LoadInv
  <2>5. \A r \in Requests : phase'[r] = "loading" => \A j \in Range(batch'[r]) : Reserved(r, j)'
    <3>1. SUFFICES ASSUME NEW r \in Requests, phase[r] = "loading", NEW j \in Range(batch[r]) PROVE Reserved(r, j)'
      BY <2>1, Zenon
    <3>2. j \in Keys /\ j # k /\ Reserved(r, j)
      BY <2>2, <2>3, <3>1, Zenon DEF CacheInv
    <3>3. QED
      BY <2>1, <3>2, Zenon DEF Reserved, L1Types
  <2>6. /\ \A r \in Requests : ok'[r] \subseteq landed'
        /\ \A j \in Keys : l1'[j] = "readable" => j \in landed'
        /\ \A r \in Requests : \A j \in holds'[r] : l1'[j] = "readable"
    BY <2>1, <2>4, Zenon DEF CacheInv, Readable, L1Types
  <2>7. QED
    BY <2>1, <2>5, <2>6, Zenon DEF CacheInv, Readable
<1>4. ASSUME NEW r \in Requests, Query(r) \/ Read(r) \/ Resolve(r) \/ Copy(r) \/ Fails(r) PROVE ~quit' => CacheInv'
  <2>1. UNCHANGED <<l1, holds, landed, phase, batch, ok, quit>>
    BY <1>4, Zenon DEF Query, Read, Resolve, Copy, Fails, l1Vars, loadVars
  <2>2. QED
    BY <2>1, Zenon DEF CacheInv, Reserved, Readable
<1>5. ASSUME NEW r \in Requests, Release(r) PROVE ~quit' => CacheInv'
  <2>1. /\ UNCHANGED <<l1, landed, phase, batch, ok>>
        /\ holds' = [holds EXCEPT ![r] = {}]
        /\ ~quit' => ~quit /\ phase[r] # "loading"
    BY <1>5, Zenon DEF Release, loadVars
  <2>2. QED
    BY <2>1, Zenon DEF CacheInv, Reserved, Readable, L1Types
<1>6. CASE UNCHANGED vars
  BY <1>6, Zenon DEF vars, l1Vars, loadVars, CacheInv, Reserved, Readable
<1>7. \A r \in Requests : Slices(Len(batch[r])) \subseteq Nat
  BY SlicesAreNumbers DEF LoadTypes
<1>8. QED
  BY <1>1, <1>2, <1>3, <1>4, <1>5, <1>6, <1>7, Zenon DEF Next, Controller, Retrieve
-----------------------------------------------------------------------------
(* The retrieve.                                                           *)

\* A sub-batch is an interval of chunks, and the one after the last is empty.
LEMMA SliceIsInterval ==
    ASSUME NEW i \in Nat, NEW n \in Nat
    PROVE  /\ i * Sub \in Nat /\ (i + 1) * Sub = i * Sub + Sub
           /\ Slice(i + 1, n) = {} => n =< i * Sub
           /\ Cardinality(Slice(i + 1, n)) \in Nat
           /\ \A p \in 1 .. n : p =< (i + 1) * Sub
                => p =< i * Sub \/ p \in i * Sub + 1 .. i * Sub + Cardinality(Slice(i + 1, n))
           /\ i * Sub + Cardinality(Slice(i + 1, n)) =< n \/ Cardinality(Slice(i + 1, n)) = 0
<1> DEFINE a == i * Sub
           b == IF n =< a + Sub THEN n ELSE a + Sub
<1>1. a \in Nat /\ (i + 1) * Sub = a + Sub
  BY SubAssumption
<1>2. Slice(i + 1, n) = {p \in 1 .. n : a < p /\ p =< a + Sub}
  BY <1>1 DEF Slice
<1> HIDE DEF a
<1>3. Slice(i + 1, n) = a + 1 .. b
  <2>1. \A p \in Int : (p \in 1 .. n /\ a < p /\ p =< a + Sub) <=> p \in a + 1 .. b
    BY <1>1, SubAssumption
  <2>2. 1 .. n \subseteq Int /\ a + 1 .. b \subseteq Int
    BY <1>1, SubAssumption
  <2> HIDE DEF b
  <2>3. QED
    BY <1>2, <2>1, <2>2, Zenon
<1>4. b \in Nat
  BY <1>1, SubAssumption
<1> HIDE DEF b
<1>5. Cardinality(a + 1 .. b) = IF a + 1 > b THEN 0 ELSE b - (a + 1) + 1
  BY <1>1, <1>4, FS_Interval
<1>6. Cardinality(Slice(i + 1, n)) = IF a >= b THEN 0 ELSE b - a
  BY <1>1, <1>3, <1>4, <1>5
<1>7. Slice(i + 1, n) = {} => n =< a
  <2>1. SUFFICES ASSUME n > a PROVE Slice(i + 1, n) # {}
    BY <1>1
  <2>2. a + 1 \in Slice(i + 1, n)
    BY <1>1, <1>2, <2>1, SubAssumption
  <2>3. QED
    BY <2>2, Zenon
<1>8. \A p \in 1 .. n : p =< a + Sub => p =< a \/ p \in a + 1 .. a + Cardinality(Slice(i + 1, n))
  BY <1>1, <1>4, <1>6, SubAssumption DEF b
<1>9. a + Cardinality(Slice(i + 1, n)) =< n \/ Cardinality(Slice(i + 1, n)) = 0
  BY <1>1, <1>4, <1>6, SubAssumption DEF b
<1>10. Cardinality(Slice(i + 1, n)) \in Nat
  BY <1>1, <1>4, <1>6
<1>11. QED
  BY <1>1, <1>7, <1>8, <1>9, <1>10, Zenon DEF a

\* A copy takes the object a chunk names, or one the request does not hold.
LEMMA ContentExact ==
    ASSUME Types, CacheInv, NEW r \in Requests, NEW k \in Keys
    PROVE  Content(r, k) \in {k, Unheld}
BY Zenon DEF Types, Content, CacheInv, Readable

\* Every step keeps what the retrieves have copied right.
LEMMA ReadInvKept ==
    ASSUME Types, LoadInv, CacheInv, ReadInv, RetrieveExact, ~quit, ~quit', [Next]_vars
    PROVE  ReadInv' /\ RetrieveExact'
<1> USE DEF Types
<1>1. ASSUME UNCHANGED readVars, \A r \in Requests : at[r] # "idle" => hits'[r] = hits[r]
      PROVE  ReadInv' /\ RetrieveExact'
  BY <1>1, Zenon DEF readVars, ReadInv, Exact, RetrieveExact
<1>2. ASSUME NEW r \in Requests,
             \/ Prefetch(r) \/ LookedUp(r) \/ Janitor(r) \/ submit_load_task(r) \/ Finish(r)
             \/ \E i \in Nat : query_load_result(r, i) \/ LoadEnds(r, i)
      PROVE  ReadInv' /\ RetrieveExact'
  <2>1. UNCHANGED readVars
    BY <1>2, Zenon DEF Prefetch, LookedUp, Janitor, submit_load_task, Finish, query_load_result, LoadEnds
  <2>2. CASE LookedUp(r)
    <3>1. \A s \in Requests \ {r} : hits'[s] = hits[s]
      BY <2>2, Zenon DEF LookedUp, LoadTypes
    <3>2. at[r] = "idle"
      BY <2>2, Zenon DEF LookedUp, LoadInv
    <3>3. QED
      BY <1>1, <2>1, <3>1, <3>2, Zenon
  <2>3. CASE ~LookedUp(r)
    <3>1. UNCHANGED hits
      BY <1>2, <2>3, Zenon DEF Prefetch, Janitor, submit_load_task, Finish, query_load_result, LoadEnds
    <3>2. QED
      BY <1>1, <2>1, <3>1, Zenon
  <2>4. QED
    BY <2>2, <2>3, Zenon
<1>3. ASSUME NEW k \in Keys, Evict(k) PROVE ReadInv' /\ RetrieveExact'
  BY <1>1, <1>3, Zenon DEF Evict, loadVars
<1>4. ASSUME NEW r \in Requests, UNCHANGED hits,
             \A s \in Requests \ {r} : at'[s] = at[s] /\ sent'[s] = sent[s] /\ gpu'[s] = gpu[s],
             at'[r] \in {"idle", "found"} => sent'[r] = 0 /\ gpu'[r] = <<>>,
             at'[r] \in {"resolve", "copy"} => DOMAIN gpu'[r] = 1 .. hits[r] /\ Exact(r, sent[r] * Sub)',
             at'[r] = "done" => \A p \in DOMAIN gpu'[r] : gpu'[r][p] \in {Wants[r][p], Unheld}
      PROVE  ReadInv' /\ RetrieveExact'
  BY <1>4 DEF ReadInv, Exact, RetrieveExact
<1>5. \A r \in Requests : hits[r] \in Nat /\ \A p \in 1 .. hits[r] : Wants[r][p] \in Keys
  BY WantsAssumption DEF LoadTypes
<1>6. ASSUME NEW r \in Requests, Query(r) \/ Resolve(r) \/ Fails(r) PROVE ReadInv' /\ RetrieveExact'
  <2>1. UNCHANGED <<hits, sent, gpu>> /\ \A s \in Requests \ {r} : at'[s] = at[s]
    BY <1>6, Zenon DEF Query, Resolve, Fails, loadVars, ReadTypes
  <2>2. \/ at[r] = "idle" /\ at'[r] \in {"done", "found"}
        \/ at[r] = "resolve" /\ at'[r] = "copy"
        \/ at'[r] = "failed"
    BY <1>6, Zenon DEF Query, Resolve, Fails, ReadTypes
  <2>3. gpu[r] = <<>> => DOMAIN gpu[r] = {}
    OBVIOUS
  <2>4. QED
    BY <1>4, <2>1, <2>2, <2>3, Zenon DEF ReadInv, Exact
<1>7. ASSUME NEW r \in Requests, Read(r) PROVE ReadInv' /\ RetrieveExact'
  <2>1. /\ UNCHANGED <<hits, sent>>
        /\ \A s \in Requests \ {r} : at'[s] = at[s] /\ gpu'[s] = gpu[s]
        /\ at[r] = "found"
    BY <1>7, Zenon DEF Read, loadVars, ReadTypes
  <2>2. sent[r] = 0
    BY <2>1, Zenon DEF ReadInv
  <2>3. CASE at'[r] = "done"
    <3>1. gpu'[r] = [p \in 1 .. hits[r] |-> Content(r, Wants[r][p])]
      BY <1>7, <2>3, Zenon DEF Read, ReadTypes
    <3>2. \A p \in 1 .. hits[r] : gpu'[r][p] \in {Wants[r][p], Unheld}
      BY <1>5, <3>1, ContentExact, Zenon
    <3>3. QED
      BY <1>4, <2>1, <2>3, <3>1, <3>2, Zenon
  <2>4. CASE at'[r] # "done"
    <3>1. gpu'[r] = [p \in 1 .. hits[r] |-> Nothing] /\ at'[r] = "resolve"
      BY <1>7, <2>4, Zenon DEF Read, ReadTypes
    <3>2. \A p \in 1 .. hits[r] : ~(p =< sent[r] * Sub)
      BY <1>5, <2>2, SubAssumption
    <3>3. DOMAIN gpu'[r] = 1 .. hits[r] /\ Exact(r, sent[r] * Sub)'
      BY <2>1, <3>1, <3>2, Zenon DEF Exact
    <3>4. QED
      BY <1>4, <2>1, <3>1, <3>3, Zenon
  <2>5. QED
    BY <2>3, <2>4, Zenon
<1>8. ASSUME NEW r \in Requests, Copy(r) PROVE ReadInv' /\ RetrieveExact'
  <2> DEFINE i == sent[r]
             n == Cardinality(Slice(i + 1, hits[r]))
  <2>1. i \in Nat /\ hits[r] \in Nat
    BY <1>5, Zenon DEF ReadTypes
  <2>2. /\ i * Sub \in Nat /\ (i + 1) * Sub = i * Sub + Sub
        /\ n \in Nat
        /\ \A p \in 1 .. hits[r] : p =< (i + 1) * Sub => p =< i * Sub \/ p \in i * Sub + 1 .. i * Sub + n
    BY <2>1, SliceIsInterval, Zenon
  <2>3. Slice(i + 2, hits[r]) = {} => hits[r] =< (i + 1) * Sub
    <3>1. i + 1 \in Nat /\ (i + 1) + 1 = i + 2
      BY <2>1
    <3>2. QED
      BY <2>1, <3>1, SliceIsInterval, Zenon
  <2>4. /\ UNCHANGED hits
        /\ \A s \in Requests \ {r} : at'[s] = at[s] /\ gpu'[s] = gpu[s] /\ sent'[s] = sent[s]
        /\ at[r] = "copy" /\ sent'[r] = i + 1
        /\ at'[r] = IF Slice(i + 2, hits[r]) # {} THEN "resolve" ELSE "done"
    BY <1>8, Zenon DEF Copy, loadVars, ReadTypes
  <2>5. gpu'[r] = [b \in DOMAIN gpu[r] |->
                     IF b \in i * Sub + 1 .. i * Sub + 1 + n - 1
                     THEN Content(r, Wants[r][i * Sub + 1 + b - (i * Sub + 1)]) ELSE gpu[r][b]]
    BY <1>8, Zenon DEF Copy, FirstBlock, Part, ReadTypes
  <2>6. DOMAIN gpu[r] = 1 .. hits[r] /\ Exact(r, i * Sub)
    BY <2>4, Zenon DEF ReadInv
  <2> HIDE DEF i, n
  <2>7. ASSUME NEW p \in 1 .. hits[r], p =< (i + 1) * Sub PROVE gpu'[r][p] \in {Wants[r][p], Unheld}
    <3>1. CASE p \in i * Sub + 1 .. i * Sub + n
      <4>1. p \in i * Sub + 1 .. i * Sub + 1 + n - 1 /\ i * Sub + 1 + p - (i * Sub + 1) = p
        BY <2>1, <2>2, <3>1
      <4>2. gpu'[r][p] = Content(r, Wants[r][p])
        BY <2>5, <2>6, <4>1, Zenon
      <4>3. QED
        BY <1>5, <4>2, ContentExact, Zenon
    <3>2. CASE p \notin i * Sub + 1 .. i * Sub + n
      <4>1. p \notin i * Sub + 1 .. i * Sub + 1 + n - 1 /\ p =< i * Sub
        BY <2>1, <2>2, <2>7, <3>2
      <4>2. gpu'[r][p] = gpu[r][p]
        BY <2>5, <2>6, <4>1, Zenon
      <4>3. QED
        BY <2>6, <4>1, <4>2, Zenon DEF Exact
    <3>3. QED
      BY <3>1, <3>2, Zenon
  <2>8. DOMAIN gpu'[r] = 1 .. hits[r]
    BY <2>5, <2>6, Zenon
  <2>9. Exact(r, sent[r] * Sub)'
    BY <2>4, <2>7, <2>8, Zenon DEF Exact
  <2>10. at'[r] = "done" => \A p \in DOMAIN gpu'[r] : gpu'[r][p] \in {Wants[r][p], Unheld}
    <3>1. at'[r] = "done" => \A p \in 1 .. hits[r] : p =< (i + 1) * Sub
      BY <2>1, <2>2, <2>3, <2>4, SubAssumption
    <3>2. QED
      BY <2>7, <2>8, <3>1, Zenon
  <2>11. QED
    BY <1>4, <2>4, <2>8, <2>9, <2>10, Zenon
<1>9. ASSUME NEW r \in Requests, Release(r) PROVE ReadInv' /\ RetrieveExact'
  <2>1. /\ UNCHANGED hits
        /\ \A s \in Requests \ {r} : at'[s] = at[s] /\ sent'[s] = sent[s] /\ gpu'[s] = gpu[s]
        /\ at'[r] = "released"
    BY <1>9, Zenon DEF Release, loadVars, ReadTypes
  <2>2. QED
    BY <1>4, <2>1, Zenon
<1>10. CASE UNCHANGED vars
  BY <1>1, <1>10, Zenon DEF vars, loadVars
<1>11. \A r \in Requests : Slices(Len(batch[r])) \subseteq Nat
  BY SlicesAreNumbers DEF LoadTypes
<1>12. QED
  BY <1>2, <1>3, <1>6, <1>7, <1>8, <1>9, <1>10, <1>11, Zenon DEF Next, Controller, Retrieve
-----------------------------------------------------------------------------
(* The theorems.                                                           *)

Inv == Types /\ LoadInv /\ MarkInv /\ (~quit => CacheInv /\ ReadInv /\ RetrieveExact)

\* Inv is an invariant.
LEMMA Invariant == Spec => []Inv
<1>1. Init => Inv
  <2> SUFFICES ASSUME Init PROVE Inv
    BY Zenon
  <2>1. <<>> \in Seq(Keys) /\ Range(<<>>) = {} /\ \A r \in Requests : Len(Wants[r]) \in Nat
    BY WantsAssumption DEF Range
  <2>2. Types
    <3>1. L1Types
      BY Zenon DEF Init, L1Types
    <3>2. LoadTypes
      BY <2>1 DEF Init, LoadTypes
    <3>3. ReadTypes
      BY Zenon DEF Init, ReadTypes
    <3>4. QED
      BY <3>1, <3>2, <3>3, Zenon DEF Types
  <2>3. LoadInv /\ MarkInv
    BY Zenon DEF Init, LoadInv, MarkInv
  <2>4. CacheInv
    BY Zenon DEF Init, CacheInv, Readable
  <2>5. ReadInv /\ RetrieveExact
    BY Zenon DEF Init, ReadInv, RetrieveExact
  <2>6. QED
    BY <2>2, <2>3, <2>4, <2>5, Zenon DEF Inv
<1>2. Inv /\ [Next]_vars => Inv'
  <2> SUFFICES ASSUME Inv, [Next]_vars PROVE Inv'
    BY Zenon
  <2>1. Types' /\ LoadInv' /\ MarkInv'
    BY TypesKept, LoadInvKept, MarkInvKept, Zenon DEF Inv
  <2>2. ~quit' => CacheInv'
    BY CacheInvKept, ZenonT(30) DEF Inv
  <2>3. ~quit' => ~quit
    BY ZenonT(30) DEF Next, Controller, Retrieve, Prefetch, LookedUp, Janitor, submit_load_task, Finish,
           query_load_result, LoadEnds, Query, Read, Resolve, Copy, Fails, Release, Evict, vars
  <2>4. ~quit' => ReadInv' /\ RetrieveExact'
    BY <2>3, ReadInvKept, Zenon DEF Inv
  <2>5. QED
    BY <2>1, <2>2, <2>4, Zenon DEF Inv
<1>3. QED
  BY <1>1, <1>2, PTL DEF Spec

\* Marks: _early is empty whenever no load is under way, however loads of the
\* same keys overlap and whatever fails.
THEOREM MarksAreSpent == Spec => []MarksSpent
<1>1. Inv => MarksSpent
  BY Zenon DEF Inv, MarkInv, MarksSpent
<1>2. QED
  BY <1>1, Invariant, PTL

\* L1: what query_load_result and the controller's finish make readable has
\* landed, as long as no retrieve gives its keys back before its load is over.
THEOREM ReadableHasLanded == Spec => []ReadableIsLoaded
<1>1. Inv => ReadableIsLoaded
  BY Zenon DEF Inv, CacheInv, ReadableIsLoaded
<1>2. QED
  BY <1>1, Invariant, PTL

\* The patched transfer: sub-batch by sub-batch, every chunk's blocks receive the
\* object of that chunk, for any number of chunks and any sub-batch size.
THEOREM RetrievesAreExact == Spec => []RetrieveExact
<1>1. Inv => RetrieveExact
  BY Zenon DEF Inv, RetrieveExact
<1>2. QED
  BY <1>1, Invariant, PTL
-----------------------------------------------------------------------------
(* No result is left behind.                                               *)

Parts(r) == Slices(Len(batch[r]))

\* The proxy's table of a load: what it has taken has ended, what has ended is a
\* sub-batch of the load, and a load all of whose sub-batches are taken is the one
\* to be finished.
Row(r) ==
    /\ phase[r] # "loading" => ended[r] = {} /\ taken[r] = {}
    /\ phase[r] = "loading" => taken[r] \subseteq ended[r] /\ ended[r] \subseteq Parts(r)
    /\ phase[r] = "loading" /\ finishing # r => taken[r] # Parts(r)

TableInv ==
    /\ ended \in [Requests -> SUBSET Nat] /\ taken \in [Requests -> SUBSET Nat]
    /\ \A r \in Requests : Row(r)

\* A request that was reported is the janitor's until its result is popped.
DrainInv == \A r \in Requests : at[r] # "idle" => r \in drain \/ phase[r] = "popped"

\* A reported request whose result has not been popped is in _drain, and is over for
\* the janitor to pop, or the controller or the inner adapter has a step to take for
\* it: submit its load, end or take one of its sub-batches, or finish the request
\* that query_load_result has returned.
ReportDue ==
    \A r \in Requests : at[r] # "idle" /\ phase[r] # "popped" =>
      /\ r \in drain
      /\ \/ phase[r] \in {"done", "decided"}
         \/ finishing \in Requests
         \/ phase[r] = "loading" /\ (Parts(r) \ ended[r] # {} \/ ended[r] \ taken[r] # {})

\* A load has a sub-batch.
LEMMA LoadHasParts ==
    ASSUME Types, NEW r \in Requests, submit_load_task(r), phase'[r] = "loading"
    PROVE  Parts(r)' # {}
<1> DEFINE gaps == {p \in 1 .. hits[r] : l1[Wants[r][p]] = "absent"}
<1>1. gaps # {}
  BY Zenon DEF submit_load_task, Types, LoadTypes
<1>2. IsFiniteSet(gaps)
  <2>1. hits[r] \in Nat
    BY Zenon DEF Types, LoadTypes
  <2>2. IsFiniteSet(1 .. hits[r])
    BY <2>1, FS_Interval
  <2>3. QED
    BY <2>2, FS_Subset, Zenon
<1>3. Cardinality(gaps) \in Nat /\ Cardinality(gaps) # 0
  BY <1>1, <1>2, FS_CardinalityType, FS_EmptySet, Zenon
<1>4. PICK ps \in [1 .. Cardinality(gaps) -> gaps] :
        batch' = [batch EXCEPT ![r] = [i \in DOMAIN ps |-> Wants[r][ps[i]]]]
  BY Zenon DEF submit_load_task
<1>5. batch'[r] = [i \in 1 .. Cardinality(gaps) |-> Wants[r][ps[i]]]
  BY <1>4, Zenon DEF Types, LoadTypes
<1> HIDE DEF gaps
<1>6. batch'[r] \in Seq(Keys)
  BY BatchIsSeq, Zenon DEF Types
<1>7. Len(batch'[r]) = Cardinality(gaps)
  <2>1. DOMAIN batch'[r] = 1 .. Cardinality(gaps)
    BY <1>5, Zenon
  <2>2. QED
    BY <1>3, <1>6, <2>1
<1>8. ASSUME NEW n \in Nat, n # 0 PROVE Slices(n) # {}
  <2>1. 1 \in 1 .. n /\ 1 \in Slice(1, n)
    BY <1>8, SubAssumption DEF Slice
  <2>2. QED
    BY <2>1, Zenon DEF Slices
<1>9. QED
  BY <1>3, <1>7, <1>8, Zenon DEF Parts

\* The table is kept by every step.
LEMMA TableKept == ASSUME Types, LoadInv, TableInv, [Next]_vars PROVE TableInv'
<1>1. ASSUME NEW r \in Requests, Prefetch(r) \/ LookedUp(r) \/ Janitor(r) PROVE TableInv'
  <2>1. /\ UNCHANGED <<batch, ended, taken, finishing>>
        /\ \E w \in {"lookup", "decided", "popped"} : phase' = [phase EXCEPT ![r] = w]
        /\ phase[r] # "loading"
    BY <1>1, Zenon DEF Prefetch, LookedUp, Janitor
  <2>2. QED
    BY <2>1, Zenon DEF TableInv, Row, Parts, Types, LoadTypes
<1>2. ASSUME NEW r \in Requests, submit_load_task(r) PROVE TableInv'
  <2>1. /\ UNCHANGED <<ended, taken, finishing>> /\ ended[r] = {} /\ taken[r] = {}
        /\ \E w \in {"done", "loading"} : phase' = [phase EXCEPT ![r] = w]
    BY <1>2, Zenon DEF submit_load_task, TableInv, Row
  <2>2. \A s \in Requests \ {r} : batch'[s] = batch[s]
    BY <1>2, BatchIsSeq, Zenon DEF Types
  <2>3. phase'[r] = "loading" => Parts(r)' # {}
    BY <1>2, LoadHasParts, Zenon
  <2>4. \A s \in Requests \ {r} : phase'[s] = phase[s]
    BY <2>1, Zenon DEF Types, LoadTypes
  <2>5. QED
    BY <2>1, <2>2, <2>3, <2>4, Zenon DEF TableInv, Row, Parts
<1>3. ASSUME NEW r \in Requests, Finish(r) PROVE TableInv'
  <2>1. /\ finishing = r /\ finishing' = None /\ phase' = [phase EXCEPT ![r] = "done"]
        /\ batch' = [batch EXCEPT ![r] = <<>>]
        /\ ended' = [ended EXCEPT ![r] = {}] /\ taken' = [taken EXCEPT ![r] = {}]
    BY <1>3, Zenon DEF Finish
  <2>2. /\ phase'[r] = "done" /\ ended'[r] = {} /\ taken'[r] = {}
        /\ \A s \in Requests \ {r} :
             phase'[s] = phase[s] /\ batch'[s] = batch[s] /\ ended'[s] = ended[s] /\ taken'[s] = taken[s]
    BY <2>1, Zenon DEF TableInv, Types, LoadTypes
  <2>3. ended' \in [Requests -> SUBSET Nat] /\ taken' \in [Requests -> SUBSET Nat]
    BY <2>1, Zenon DEF TableInv
  <2>4. Row(r)'
    BY <2>2, Zenon DEF Row
  <2>5. ASSUME NEW s \in Requests \ {r} PROVE Row(s)'
    <3>1. Row(s) /\ finishing # s /\ Parts(s)' = Parts(s)
      BY <2>1, <2>2, Zenon DEF TableInv, Parts
    <3>2. QED
      BY <2>2, <3>1, Zenon DEF Row
  <2>6. QED
    BY <2>3, <2>4, <2>5, Zenon DEF TableInv
<1>4. ASSUME NEW r \in Requests, NEW i \in Nat, query_load_result(r, i) PROVE TableInv'
  <2>1. /\ UNCHANGED <<phase, batch, ended>> /\ i \in ended[r] /\ phase[r] = "loading"
        /\ taken' = [taken EXCEPT ![r] = @ \cup {i}] /\ finishing = None
        /\ finishing' = IF taken'[r] = Parts(r) THEN r ELSE None
    BY <1>4, Zenon DEF query_load_result, Parts
  <2>2. taken'[r] = taken[r] \cup {i} /\ \A s \in Requests \ {r} : taken'[s] = taken[s]
    BY <2>1, Zenon DEF TableInv
  <2>3. taken' \in [Requests -> SUBSET Nat]
    BY <2>1, Zenon DEF TableInv
  <2>4. \A s \in Requests : Parts(s)' = Parts(s)
    BY <2>1, Zenon DEF Parts
  <2>5. Row(r)'
    <3>1. Row(r) /\ Parts(r)' = Parts(r)
      BY <2>4, Zenon DEF TableInv
    <3>2. QED
      BY <2>1, <2>2, <3>1, Zenon DEF Row
  <2>6. ASSUME NEW s \in Requests \ {r} PROVE Row(s)'
    <3>1. Row(s) /\ finishing # s /\ Parts(s)' = Parts(s)
      BY <2>1, <2>4, RequestsAssumption, Zenon DEF TableInv
    <3>2. QED
      BY <2>1, <2>2, <3>1, Zenon DEF Row
  <2>7. QED
    BY <2>1, <2>3, <2>5, <2>6, Zenon DEF TableInv
<1>5. ASSUME NEW r \in Requests, NEW i \in Nat, LoadEnds(r, i) PROVE TableInv'
  <2>1. /\ UNCHANGED <<phase, batch, taken, finishing>> /\ phase[r] = "loading" /\ i \in Parts(r)
        /\ ended' = [ended EXCEPT ![r] = @ \cup {i}]
    BY <1>5, Zenon DEF LoadEnds, Parts
  <2>2. /\ ended'[r] = ended[r] \cup {i} /\ \A s \in Requests \ {r} : ended'[s] = ended[s]
        /\ ended' \in [Requests -> SUBSET Nat]
    BY <2>1, Zenon DEF TableInv
  <2>3. QED
    BY <2>1, <2>2, Zenon DEF TableInv, Row, Parts
<1>6. ASSUME UNCHANGED loadVars PROVE TableInv'
  BY <1>6, Zenon DEF loadVars, TableInv, Row, Parts
<1>7. ASSUME NEW r \in Requests, Query(r) \/ Read(r) \/ Resolve(r) \/ Copy(r) \/ Fails(r) \/ Release(r)
      PROVE  UNCHANGED loadVars
  BY <1>7, Zenon DEF Query, Read, Resolve, Copy, Fails, Release
<1>8. ASSUME NEW k \in Keys, Evict(k) PROVE UNCHANGED loadVars
  BY <1>8, Zenon DEF Evict
<1>9. UNCHANGED vars => UNCHANGED loadVars
  BY Zenon DEF vars
<1>10. \A r \in Requests : Slices(Len(batch[r])) \subseteq Nat
  BY SlicesAreNumbers DEF Types, LoadTypes
<1>11. QED
  BY <1>1, <1>2, <1>3, <1>4, <1>5, <1>6, <1>7, <1>8, <1>9, <1>10, Zenon DEF Next, Controller, Retrieve

\* A step that leaves a popped request popped, the janitor's table and the retrieves.
LEMMA DrainFrame ==
    ASSUME DrainInv, UNCHANGED <<drain, at>>, \A r \in Requests : phase[r] = "popped" => phase'[r] = "popped"
    PROVE  DrainInv'
  BY Zenon DEF DrainInv

\* The janitor's table is kept by every step.
LEMMA DrainKept == ASSUME Types, LoadInv, DrainInv, [Next]_vars PROVE DrainInv'
<1>1. ASSUME NEW r \in Requests, Prefetch(r) \/ LookedUp(r) \/ submit_load_task(r) \/ Finish(r) PROVE DrainInv'
  <2>1. UNCHANGED <<drain, at>> /\ \E w : phase' = [phase EXCEPT ![r] = w]
    BY <1>1, Zenon DEF Prefetch, LookedUp, submit_load_task, Finish, readVars
  <2>2. phase[r] # "popped"
    BY <1>1, RequestsAssumption, Zenon DEF Prefetch, LookedUp, submit_load_task, Finish, LoadInv
  <2>3. \A s \in Requests : phase[s] = "popped" => phase'[s] = "popped"
    BY <2>1, <2>2, Zenon DEF Types, LoadTypes
  <2>4. QED
    BY <2>1, <2>3, DrainFrame, Zenon
<1>2. ASSUME NEW r \in Requests, Janitor(r) PROVE DrainInv'
  BY <1>2, Zenon DEF Janitor, readVars, DrainInv, Types, LoadTypes
<1>3. ASSUME NEW r \in Requests, NEW i, query_load_result(r, i) \/ LoadEnds(r, i) PROVE DrainInv'
  BY <1>3, DrainFrame, Zenon DEF query_load_result, LoadEnds, readVars
<1>4. ASSUME NEW r \in Requests, Query(r) PROVE DrainInv'
  <2>1. UNCHANGED phase /\ drain' = drain \cup {r} /\ \A s \in Requests \ {r} : at'[s] = at[s]
    BY <1>4, Zenon DEF Query, loadVars, Noted, Types, ReadTypes
  <2>2. QED
    BY <2>1, Zenon DEF DrainInv
<1>5. ASSUME NEW r \in Requests, Read(r) \/ Resolve(r) \/ Copy(r) \/ Fails(r) \/ Release(r) PROVE DrainInv'
  <2>1. UNCHANGED <<phase, drain>> /\ at[r] # "idle" /\ \E w : at' = [at EXCEPT ![r] = w]
    BY <1>5, Zenon DEF Read, Resolve, Copy, Fails, Release, loadVars
  <2>2. \A s \in Requests \ {r} : at'[s] = at[s]
    BY <2>1, Zenon DEF Types, ReadTypes
  <2>3. QED
    BY <2>1, <2>2, Zenon DEF DrainInv
<1>6. ASSUME NEW k \in Keys, Evict(k) PROVE DrainInv'
  BY <1>6, DrainFrame, Zenon DEF Evict, loadVars, readVars
<1>7. CASE UNCHANGED vars
  BY <1>7, DrainFrame, Zenon DEF vars, loadVars, readVars
<1>8. QED
  BY <1>1, <1>2, <1>3, <1>4, <1>5, <1>6, <1>7, Zenon DEF Next, Controller, Retrieve

\* The real result of a request reported early is never lost on the way to being
\* popped, whatever became of its retrieve: it is in _drain, and its load is over or
\* can go on, so only a load the inner adapter does not end keeps the janitor waiting.
THEOREM ResultsDue == Spec => []ReportDue
<1>1. Init => TableInv /\ DrainInv
  BY Zenon DEF Init, TableInv, Row, DrainInv
<1>2. Inv /\ TableInv /\ DrainInv /\ [Next]_vars => (TableInv /\ DrainInv)'
  BY TableKept, DrainKept, Zenon DEF Inv
<1>3. Inv /\ TableInv /\ DrainInv => ReportDue
  <2> SUFFICES ASSUME Inv, TableInv, DrainInv, NEW r \in Requests, at[r] # "idle", phase[r] # "popped"
               PROVE  /\ r \in drain
                      /\ \/ phase[r] \in {"done", "decided"}
                         \/ finishing \in Requests
                         \/ phase[r] = "loading" /\ (Parts(r) \ ended[r] # {} \/ ended[r] \ taken[r] # {})
    BY Zenon DEF ReportDue
  <2>1. r \in drain /\ phase[r] \in {"decided", "loading", "done"}
    BY Zenon DEF DrainInv, Inv, LoadInv, Types, LoadTypes
  <2>2. CASE phase[r] = "loading" /\ finishing \notin Requests
    <3>1. taken[r] \subseteq ended[r] /\ ended[r] \subseteq Parts(r) /\ taken[r] # Parts(r)
      BY <2>2, Zenon DEF TableInv, Row
    <3>2. QED
      BY <2>1, <2>2, <3>1, Zenon
  <2>3. QED
    BY <2>1, <2>2, Zenon
<1>4. QED
  BY <1>1, <1>2, <1>3, Invariant, PTL DEF Spec
=============================================================================
