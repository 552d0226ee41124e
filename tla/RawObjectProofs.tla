--------------------------- MODULE RawObjectProofs ---------------------------
(***************************************************************************)
(* Proofs about the in-process connector: the object-API path, for any set *)
(* of layers and clients, and the I/O pool (IoPool), for any callers,      *)
(* batch size, threads and stall threshold.                                *)
(***************************************************************************)
EXTENDS RawObject, IoPool, FiniteSetTheorems, TLAPS

\* Every variable of the v3 path keeps its type, under any interleaving of
\* puts, gets, removes, failing RPCs and dying processes.
THEOREM TypeCorrect == Spec => []TypeOK
<1> USE DEF TypeOK, vars, Akeys, Payload, Meta, payload_akeys, meta_akeys, Calls, Putting, Getting
<1>1. Init => TypeOK
  BY DEF Init
<1>2. TypeOK /\ [Next]_vars => TypeOK'
  <2> SUFFICES ASSUME TypeOK, [Next]_vars PROVE TypeOK'
    BY Zenon
  <2>1. CASE UNCHANGED vars
    BY <2>1, Zenon
  <2>2. ASSUME NEW c \in Clients, Call(c) PROVE TypeOK'
    <3>1. ASSUME NEW S \in SUBSET Layers, PutCall(c, S) PROVE TypeOK'
      BY <3>1, Zenon DEF PutCall, Rpc
    <3>2. ASSUME NEW S \in SUBSET Layers, GetCall(c, S) PROVE TypeOK'
      <4>1. Maybe \subseteq Layers
        BY Zenon DEF Maybe
      <4>2. QED
        BY <3>2, <4>1, Zenon DEF GetCall, Rpc
    <3>3. ASSUME NEW S \in SUBSET Layers, RemoveCall(c, S) PROVE TypeOK'
      BY <3>3, Zenon DEF RemoveCall, Rpc
    <3>4. ASSUME NEW l \in Layers, Exists(c, l) PROVE TypeOK'
      BY <3>4, Zenon DEF Exists
    <3>5. QED
      BY <2>2, <3>1, <3>2, <3>3, <3>4, Zenon DEF Call
  <2>3. ASSUME NEW c \in Clients, Land(c) PROVE TypeOK'
    <3>1. ASSUME NEW a \in Akeys, Update(c, a) PROVE TypeOK'
      BY <3>1, Zenon DEF Update
    <3>2. ASSUME NEW a \in Akeys, Punch(c, a) PROVE TypeOK'
      BY <3>2, Zenon DEF Punch
    <3>3. ASSUME NEW l \in Layers, FetchMeta(c, l) PROVE TypeOK'
      BY <3>3 DEF FetchMeta
    <3>4. ASSUME NEW l \in Layers, FetchPayload(c, l) PROVE TypeOK'
      BY <3>4 DEF FetchPayload
    <3>5. QED
      BY <2>3, <3>1, <3>2, <3>3, <3>4, Zenon DEF Land
  <2>4. ASSUME NEW c \in Clients, Done(c) PROVE TypeOK'
    <3>1. CASE PutPayloadDone(c)
      BY <3>1, Zenon DEF PutPayloadDone, Rpc
    <3>2. CASE PutMetaDone(c)
      BY <3>2, Zenon DEF PutMetaDone, Return
    <3>3. CASE GetMetaDone(c)
      BY <3>3, SMTT(30) DEF GetMetaDone, Rpc, Return
    <3>4. CASE GetPayloadDone(c)
      <4>1. \A l \in Layers : Content(c, l) \in {"stored", "garbage"}
        BY Zenon DEF Content
      <4>2. QED
        BY <3>4, <4>1 DEF GetPayloadDone, Return
    <3>5. CASE RemoveDone(c)
      BY <3>5, Zenon DEF RemoveDone, Return
    <3>6. QED
      BY <2>4, <3>1, <3>2, <3>3, <3>4, <3>5, Zenon DEF Done
  <2>5. ASSUME NEW c \in Clients, RpcFail(c) PROVE TypeOK'
    BY <2>5, Zenon DEF RpcFail, Return
  <2>6. ASSUME NEW c \in Clients, Crash(c) PROVE TypeOK'
    BY <2>6, Zenon DEF Crash, Return
  <2>7. QED
    BY <2>1, <2>2, <2>3, <2>4, <2>5, <2>6, Zenon DEF Next
<1>3. QED
  BY <1>1, <1>2, PTL DEF Spec
-----------------------------------------------------------------------------
(* Staging buffers.                                                        *)

\* The buffers a client's last get handed out.
Handed(c) == {m[1] : m \in out[c]}

\* NoBufferLeak made inductive: a put or a remove leaves the client's buffers
\* alone, and a get that is under way has handed out nothing yet.
BufferInv ==
    \A c \in Clients : /\ pc[c] \notin Getting => staged[c] = Handed(c)
                       /\ pc[c] \in Getting => out[c] = {}

LEMMA BufferInit == Init => BufferInv
  BY DEF Init, BufferInv, Handed, Getting

\* An action that leaves client d alone preserves BufferInv for d.
LEMMA BufferOther ==
    ASSUME BufferInv, NEW d \in Clients,
           pc'[d] = pc[d], staged'[d] = staged[d], out'[d] = out[d]
    PROVE  /\ pc'[d] \notin Getting => staged'[d] = Handed(d)'
           /\ pc'[d] \in Getting => out'[d] = {}
  BY Zenon DEF BufferInv, Handed

LEMMA BufferStep == TypeOK /\ BufferInv /\ [Next]_vars => BufferInv'
<1> SUFFICES ASSUME TypeOK, BufferInv, [Next]_vars, NEW d \in Clients
             PROVE  /\ pc'[d] \notin Getting => staged'[d] = Handed(d)'
                    /\ pc'[d] \in Getting => out'[d] = {}
  BY Zenon DEF BufferInv
<1> USE DEF Getting, Putting, Calls
<1>1. CASE UNCHANGED vars
  BY <1>1, BufferOther, Zenon DEF vars
<1>2. ASSUME NEW c \in Clients, Call(c) \/ Land(c) \/ Done(c) \/ RpcFail(c) \/ Crash(c), d # c
      PROVE  pc'[d] = pc[d] /\ staged'[d] = staged[d] /\ out'[d] = out[d]
  <2>1. CASE Call(c)
    BY <1>2, <2>1, ZenonT(30) DEF TypeOK, Call, PutCall, GetCall, RemoveCall, Exists, Rpc, Return
  <2>2. CASE Land(c)
    BY <1>2, <2>2, Zenon DEF TypeOK, Land, Update, Punch, FetchMeta, FetchPayload
  <2>3. CASE Done(c)
    BY <1>2, <2>3, Zenon DEF TypeOK, Done, PutPayloadDone, PutMetaDone, GetMetaDone, GetPayloadDone,
       RemoveDone, Rpc, Return
  <2>4. CASE RpcFail(c) \/ Crash(c)
    BY <1>2, <2>4, Zenon DEF TypeOK, RpcFail, Crash, Return
  <2>5. QED
    BY <1>2, <2>1, <2>2, <2>3, <2>4, Zenon
<1>3. CASE Call(d)
  <2>1. ASSUME NEW S, GetCall(d, S) PROVE pc'[d] \in Getting /\ out'[d] = {}
    BY <2>1, Zenon DEF GetCall, Rpc, TypeOK
  <2>2. ASSUME NEW S, PutCall(d, S) \/ RemoveCall(d, S)
        PROVE  pc[d] = "idle" /\ pc'[d] \notin Getting /\ staged' = staged /\ out' = out
    BY <2>2, Zenon DEF PutCall, RemoveCall, Rpc, TypeOK
  <2>3. ASSUME NEW l, Exists(d, l) PROVE pc' = pc /\ staged' = staged /\ out' = out
    BY <2>3, Zenon DEF Exists
  <2>4. QED
    BY <1>3, <2>1, <2>2, <2>3, BufferOther, Zenon DEF Call, BufferInv, Handed
<1>4. CASE Land(d)
  <2>1. pc' = pc /\ staged' = staged /\ out' = out
    BY <1>4, Zenon DEF Land, Update, Punch, FetchMeta, FetchPayload
  <2>2. QED
    BY <2>1, BufferOther, Zenon
<1>5. CASE Done(d)
  <2>1. CASE PutPayloadDone(d)
    BY <2>1, Zenon DEF PutPayloadDone, Rpc, BufferInv, Handed, TypeOK
  <2>2. CASE PutMetaDone(d) \/ RemoveDone(d)
    BY <2>2, Zenon DEF PutMetaDone, RemoveDone, Return, BufferInv, Handed, TypeOK
  <2>3. CASE GetMetaDone(d)
    BY <2>3 DEF GetMetaDone, Rpc, Return, BufferInv, Handed, TypeOK
  <2>4. CASE GetPayloadDone(d)
    <3> DEFINE whole == {l \in staged[d] : FullLength(d, l)}
               given == {<<l, Content(d, l)>> : l \in whole}
    <3>1. staged'[d] = whole /\ out'[d] = given
      BY <2>4, Zenon DEF GetPayloadDone, TypeOK
    <3>2. \A l \in whole : <<l, Content(d, l)>> \in given /\ <<l, Content(d, l)>>[1] = l
      BY Zenon
    <3>3. \A m \in given : m[1] \in whole
      OBVIOUS
    <3> HIDE DEF whole, given
    <3>4. whole = {m[1] : m \in given}
      BY <3>2, <3>3, Zenon
    <3>5. pc'[d] = "idle"
      BY <2>4, Zenon DEF GetPayloadDone, Return, TypeOK
    <3>6. QED
      BY <3>1, <3>4, <3>5, Zenon DEF Handed
  <2>5. QED
    BY <1>5, <2>1, <2>2, <2>3, <2>4, Zenon DEF Done
<1>6. CASE RpcFail(d)
  BY <1>6, Zenon DEF RpcFail, Return, BufferInv, Handed, TypeOK
<1>7. CASE Crash(d)
  BY <1>7, Zenon DEF Crash, Return, Handed, TypeOK
<1>8. QED
  BY <1>1, <1>2, <1>3, <1>4, <1>5, <1>6, <1>7, BufferOther, Zenon DEF Next

\* No get leaks a staging buffer: a client that is not in a call holds exactly
\* the buffers its last get handed out (_get_raw, _get_raw_folded, _release).
THEOREM BuffersKept == Spec => []NoBufferLeak
<1>1. BufferInv => NoBufferLeak
  BY Zenon DEF BufferInv, NoBufferLeak, Handed, Getting
<1>2. QED
  BY <1>1, BufferInit, BufferStep, TypeCorrect, PTL DEF Spec
-----------------------------------------------------------------------------
(* The commit record.                                                      *)

\* The akeys an RPC still has to touch are those of its call.
TodoInv ==
    \A c \in Clients :
        /\ pc[c] = "put_payload" => todo[c] \subseteq payload_akeys(args[c])
        /\ pc[c] = "put_meta" => todo[c] \subseteq meta_akeys(args[c])
        /\ pc[c] = "remove" => todo[c] \subseteq payload_akeys(args[c]) \cup meta_akeys(args[c])

\* CommitRecord made inductive: what the first update of a put has been
\* through is stored, the second update starts only when all of it is, and
\* what a remove is about to punch counts as evicted.
CommitInv ==
    /\ CommitRecord
    /\ \A c \in Clients :
        /\ pc[c] = "remove" => args[c] \subseteq evicted
        /\ pc[c] \in Putting => ret[c] = "none"
        /\ pc[c] = "put_payload" =>
             \A l \in args[c] \ evicted : <<"payload", l>> \in todo[c] \/ store[<<"payload", l>>]
        /\ pc[c] = "put_meta" =>
             \A l \in args[c] \ evicted : /\ store[<<"payload", l>>]
                                          /\ <<"meta", l>> \in todo[c] \/ store[<<"meta", l>>]

LEMMA TodoStep == TypeOK /\ TodoInv /\ [Next]_vars => TodoInv'
<1> SUFFICES ASSUME TypeOK, TodoInv, [Next]_vars PROVE TodoInv'
  BY Zenon
<1> USE DEF TodoInv, TypeOK, payload_akeys, meta_akeys
<1>1. CASE UNCHANGED vars
  BY <1>1, Zenon DEF vars
<1>2. ASSUME NEW c \in Clients, Call(c) PROVE TodoInv'
  <2>1. ASSUME NEW S \in SUBSET Layers, PutCall(c, S) PROVE TodoInv'
    BY <2>1, Zenon DEF PutCall, Rpc
  <2>2. ASSUME NEW S \in SUBSET Layers, GetCall(c, S) PROVE TodoInv'
    BY <2>2, Zenon DEF GetCall, Rpc
  <2>3. ASSUME NEW S \in SUBSET Layers, RemoveCall(c, S) PROVE TodoInv'
    BY <2>3 DEF RemoveCall, Rpc
  <2>4. ASSUME NEW l \in Layers, Exists(c, l) PROVE TodoInv'
    BY <2>4, Zenon DEF Exists
  <2>5. QED
    BY <1>2, <2>1, <2>2, <2>3, <2>4, Zenon DEF Call
<1>3. ASSUME NEW c \in Clients, Land(c) PROVE TodoInv'
  <2>1. pc' = pc /\ args' = args /\ \A d \in Clients : todo'[d] \subseteq todo[d]
    <3>1. ASSUME NEW a \in Akeys, Update(c, a) \/ Punch(c, a)
          PROVE  pc' = pc /\ args' = args /\ todo' = [todo EXCEPT ![c] = @ \ {a}]
      BY <3>1, Zenon DEF Update, Punch
    <3>2. ASSUME NEW l \in Layers, FetchMeta(c, l) \/ FetchPayload(c, l)
          PROVE  pc' = pc /\ args' = args /\ \E a : todo' = [todo EXCEPT ![c] = @ \ {a}]
      BY <3>2, Zenon DEF FetchMeta, FetchPayload
    <3>3. QED
      BY <1>3, <3>1, <3>2 DEF Land
  <2>2. QED
    BY <2>1, Zenon
<1>4. ASSUME NEW c \in Clients, Done(c) PROVE TodoInv'
  BY <1>4 DEF Done, PutPayloadDone, PutMetaDone, GetMetaDone, GetPayloadDone, RemoveDone, Rpc, Return
<1>5. ASSUME NEW c \in Clients, RpcFail(c) \/ Crash(c) PROVE TodoInv'
  BY <1>5 DEF RpcFail, Crash, Return
<1>6. QED
  BY <1>1, <1>2, <1>3, <1>4, <1>5, Zenon DEF Next

\* At every moment an RPC can only touch the akeys of the call it belongs to.
LEMMA TodoCorrect == Spec => []TodoInv
<1>1. Init => TodoInv
  BY Zenon DEF Init, TodoInv
<1>2. QED
  BY <1>1, TodoStep, TypeCorrect, PTL DEF Spec

LEMMA CommitStep == TypeOK /\ TodoInv /\ CommitInv /\ [Next]_vars => CommitInv'
<1> SUFFICES ASSUME TypeOK, TodoInv, CommitInv, [Next]_vars PROVE CommitInv'
  BY Zenon
<1> USE DEF CommitInv, CommitRecord, TypeOK, Akeys, Payload, Meta, Putting
<1>1. CASE UNCHANGED vars
  BY <1>1, Zenon DEF vars
<1>2. ASSUME NEW c \in Clients, Call(c) PROVE CommitInv'
  <2>1. ASSUME NEW S \in SUBSET Layers, PutCall(c, S) PROVE CommitInv'
    BY <2>1 DEF PutCall, Rpc, payload_akeys
  <2>2. ASSUME NEW S \in SUBSET Layers, GetCall(c, S) PROVE CommitInv'
    BY <2>2 DEF GetCall, Rpc
  <2>3. ASSUME NEW S \in SUBSET Layers, RemoveCall(c, S) PROVE CommitInv'
    BY <2>3 DEF RemoveCall, Rpc
  <2>4. ASSUME NEW l \in Layers, Exists(c, l) PROVE CommitInv'
    BY <2>4, Zenon DEF Exists
  <2>5. QED
    BY <1>2, <2>1, <2>2, <2>3, <2>4, Zenon DEF Call
<1>3. ASSUME NEW c \in Clients, Land(c) PROVE CommitInv'
  <2>1. ASSUME NEW a \in Akeys, Update(c, a) PROVE CommitInv'
    <3>1. a \in Meta => a[2] \in evicted \/ store[<<"payload", a[2]>>]
      BY <2>1 DEF Update, TodoInv, payload_akeys, meta_akeys
    <3>2. \A b \in Akeys : store'[b] <=> store[b] \/ b = a
      BY <2>1, Zenon DEF Update
    <3>3. CommitRecord'
      <4>1. evicted' = evicted
        BY <2>1, Zenon DEF Update
      <4>2. QED
        BY <3>1, <3>2, <4>1
    <3>4. /\ pc' = pc /\ args' = args /\ ret' = ret /\ evicted' = evicted
          /\ \A d \in Clients : todo[d] \ {a} \subseteq todo'[d]
      BY <2>1 DEF Update
    <3>5. QED
      BY <3>2, <3>3, <3>4
  <2>2. ASSUME NEW a \in Akeys, Punch(c, a) PROVE CommitInv'
    <3>1. a[2] \in evicted
      BY <2>2 DEF Punch, TodoInv, payload_akeys, meta_akeys
    <3>2. \A b \in Akeys : store'[b] <=> store[b] /\ b # a
      BY <2>2, Zenon DEF Punch
    <3>3. \A l \in Layers \ evicted : /\ store'[<<"payload", l>>] <=> store[<<"payload", l>>]
                                      /\ store'[<<"meta", l>>] <=> store[<<"meta", l>>]
      <4> SUFFICES ASSUME NEW l \in Layers \ evicted, NEW kind \in {"payload", "meta"}
                   PROVE  store'[<<kind, l>>] <=> store[<<kind, l>>]
        BY Zenon
      <4>1. <<kind, l>> \in Akeys /\ <<kind, l>> # a
        BY <3>1
      <4>2. QED
        BY <3>2, <4>1, Zenon
    <3>4. /\ pc' = pc /\ args' = args /\ ret' = ret /\ evicted' = evicted
          /\ \A d \in Clients : todo'[d] = IF d = c THEN todo[d] \ {a} ELSE todo[d]
      BY <2>2, Zenon DEF Punch
    <3>5. \A d \in Clients : pc[d] \in Putting => d # c
      BY <2>2, Zenon DEF Punch
    <3>6. QED
      BY <3>3, <3>4, <3>5, ZenonT(30)
  <2>3. ASSUME NEW l \in Layers, FetchMeta(c, l) \/ FetchPayload(c, l) PROVE CommitInv'
    BY <2>3 DEF FetchMeta, FetchPayload
  <2>4. QED
    BY <1>3, <2>1, <2>2, <2>3, Zenon DEF Land
<1>4. ASSUME NEW c \in Clients, Done(c) PROVE CommitInv'
  <2>1. CASE PutPayloadDone(c)
    BY <2>1 DEF PutPayloadDone, Rpc, meta_akeys
  <2>2. CASE PutMetaDone(c)
    BY <2>2 DEF PutMetaDone, Return
  <2>3. CASE GetMetaDone(c)
    BY <2>3 DEF GetMetaDone, Rpc, Return
  <2>4. CASE GetPayloadDone(c) \/ RemoveDone(c)
    BY <2>4 DEF GetPayloadDone, RemoveDone, Return
  <2>5. QED
    BY <1>4, <2>1, <2>2, <2>3, <2>4, Zenon DEF Done
<1>5. ASSUME NEW c \in Clients, RpcFail(c) \/ Crash(c) PROVE CommitInv'
  BY <1>5 DEF RpcFail, Crash, Return
<1>6. QED
  BY <1>1, <1>2, <1>3, <1>4, <1>5, Zenon DEF Next

LEMMA CommitCorrect == Spec => []CommitInv
<1>1. Init => CommitInv
  BY Zenon DEF Init, CommitInv, CommitRecord, Akeys, Payload, Meta, Putting
<1>2. QED
  BY <1>1, CommitStep, TodoCorrect, TypeCorrect, PTL DEF Spec

\* The commit protocol of _put_raw and _put_raw_folded: the metadata akey of a
\* layer that was never evicted is never there without its payload, for any
\* number of layers and clients, with puts that overlap, fail halfway or die
\* and removes of its siblings.
THEOREM MetadataCommits == Spec => []CommitRecord
<1>1. CommitInv => CommitRecord
  BY Zenon DEF CommitInv
<1>2. QED
  BY <1>1, CommitCorrect, PTL

\* A put that returns has committed every layer of its batch that was never
\* evicted (batched_put).
THEOREM PutsCommit == Spec => PutCommits
<1> DEFINE Step == \A c \in Clients :
                      pc[c] = "put_meta" /\ ret'[c] = "ok" => \A l \in args[c] \ evicted : Committed(l)
<1>1. TypeOK /\ TodoInv /\ CommitInv /\ [Next]_vars => [Step]_vars
  <2> SUFFICES ASSUME TypeOK, CommitInv, Next,
                      NEW d \in Clients, pc[d] = "put_meta", ret'[d] = "ok"
               PROVE  \A l \in args[d] \ evicted : Committed(l)
    BY Zenon
  <2>1. ret[d] = "none"
    BY Zenon DEF CommitInv, Putting
  <2>2. PutMetaDone(d)
    <3>1. PICK c \in Clients : Call(c) \/ Land(c) \/ Done(c) \/ RpcFail(c) \/ Crash(c)
      BY Zenon DEF Next
    <3>2. ~Call(d) /\ ~RpcFail(d) /\ ~Crash(d) /\ (Done(d) => PutMetaDone(d))
      BY <2>1, Zenon DEF TypeOK, Call, PutCall, GetCall, RemoveCall, Exists, RpcFail, Crash, Return, Done,
         PutPayloadDone, GetMetaDone, GetPayloadDone, RemoveDone
    <3>3. Land(c) => ret' = ret
      BY Zenon DEF Land, Update, Punch, FetchMeta, FetchPayload
    <3>4. c # d => ret'[d] = ret[d]
      BY <3>1, <3>3, Zenon DEF TypeOK, Call, PutCall, GetCall, RemoveCall, Exists, RpcFail, Crash, Return,
         Done, PutPayloadDone, PutMetaDone, GetMetaDone, GetPayloadDone, RemoveDone
    <3>5. QED
      BY <2>1, <3>1, <3>2, <3>3, <3>4, Zenon
  <2>3. todo[d] = {}
    BY <2>2, Zenon DEF PutMetaDone
  <2>4. QED
    BY <2>3, Zenon DEF CommitInv, Committed
<1>2. QED
  BY <1>1, CommitCorrect, TodoCorrect, TypeCorrect, PTL DEF Spec, PutCommits

\* Evicting one layer of a chunk leaves its siblings alone (_remove_one): a
\* committed layer stays committed unless a remove in progress names it.
THEOREM SiblingsStay == Spec => StoredStays
<1> DEFINE Step == \A l \in Layers :
                      /\ Committed(l)
                      /\ ~\E c \in Clients : pc[c] = "remove" /\ l \in args[c]
                      => Committed(l)'
<1>1. TypeOK /\ TodoInv /\ [Next]_vars => [Step]_vars
  <2> SUFFICES ASSUME TypeOK, TodoInv, Next, NEW l \in Layers, Committed(l),
                      ~\E c \in Clients : pc[c] = "remove" /\ l \in args[c]
               PROVE  Committed(l)'
    BY Zenon
  <2>1. <<"payload", l>> \in Akeys /\ <<"meta", l>> \in Akeys
    BY Zenon DEF Akeys, Payload, Meta
  <2>2. PICK c \in Clients : Call(c) \/ Land(c) \/ Done(c) \/ RpcFail(c) \/ Crash(c)
    BY Zenon DEF Next
  <2>3. CASE store' = store
    BY <2>3, Zenon DEF Committed
  <2>4. ASSUME NEW a \in Akeys, Update(c, a) PROVE Committed(l)'
    BY <2>1, <2>4, Zenon DEF Update, Committed, TypeOK
  <2>5. ASSUME NEW a \in Akeys, Punch(c, a) PROVE Committed(l)'
    <3>1. a # <<"payload", l>> /\ a # <<"meta", l>>
      BY <2>5 DEF Punch, TodoInv, payload_akeys, meta_akeys
    <3>2. QED
      BY <2>1, <2>5, <3>1, Zenon DEF Punch, Committed, TypeOK
  <2>6. CASE Call(c) \/ Done(c) \/ RpcFail(c) \/ Crash(c)
    <3>1. store' = store
      BY <2>6, Zenon DEF Call, PutCall, GetCall, RemoveCall, Exists, RpcFail, Crash, Done,
         PutPayloadDone, PutMetaDone, GetMetaDone, GetPayloadDone, RemoveDone
    <3>2. QED
      BY <2>3, <3>1, Zenon
  <2>7. CASE Land(c)
    BY <2>3, <2>4, <2>5, <2>7, Zenon DEF Land, FetchMeta, FetchPayload
  <2>8. QED
    BY <2>2, <2>6, <2>7, Zenon
<1>2. QED
  BY <1>1, TodoCorrect, TypeCorrect, PTL DEF Spec, StoredStays
-----------------------------------------------------------------------------
(* The refinement of KvContract.                                           *)

\* The state functions the contract's variables stand for.
Open == [c \in Clients |-> pc[c] \in Getting]
Asked == [c \in Clients |-> IF pc[c] \in Getting THEN args[c] ELSE {}]

\* What a get has found is what it asked for; outside a get nothing is seen.
GetInv ==
    \A c \in Clients :
        /\ pc[c] = "get_meta" => /\ todo[c] \subseteq meta_akeys(args[c])
                                 /\ got[c] \subseteq args[c]
                                 /\ filled[c] = {}
        /\ pc[c] = "get_payload" => staged[c] \subseteq args[c]
        /\ pc[c] \notin Getting => seen[c] = {}

\* A get has seen every layer that is stored or being stored, and every layer
\* whose payload it has fetched although it may be gone by now.
SeenInv ==
    \A c \in Clients : pc[c] \in Getting => Maybe \subseteq seen[c] /\ filled[c] \subseteq seen[c]

LEMMA GetStep == TypeOK /\ GetInv /\ [Next]_vars => GetInv'
<1> SUFFICES ASSUME TypeOK, GetInv, [Next]_vars PROVE GetInv'
  BY Zenon
<1> USE DEF GetInv, TypeOK, meta_akeys, Getting
<1>1. CASE UNCHANGED vars
  BY <1>1, Zenon DEF vars
<1>2. ASSUME NEW c \in Clients, Call(c) PROVE GetInv'
  <2>1. ASSUME NEW S \in SUBSET Layers, PutCall(c, S) \/ RemoveCall(c, S) PROVE GetInv'
    BY <2>1 DEF PutCall, RemoveCall, Rpc
  <2>2. ASSUME NEW S \in SUBSET Layers, GetCall(c, S) PROVE GetInv'
    BY <2>2, Zenon DEF GetCall, Rpc
  <2>3. ASSUME NEW l \in Layers, Exists(c, l) PROVE GetInv'
    BY <2>3, Zenon DEF Exists
  <2>4. QED
    BY <1>2, <2>1, <2>2, <2>3, Zenon DEF Call
<1>3. ASSUME NEW c \in Clients, Land(c) PROVE GetInv'
  <2>1. ASSUME NEW a \in Akeys, Update(c, a) \/ Punch(c, a) PROVE GetInv'
    BY <2>1 DEF Update, Punch
  <2>2. ASSUME NEW l \in Layers, FetchMeta(c, l) PROVE GetInv'
    BY <2>2 DEF FetchMeta
  <2>3. ASSUME NEW l \in Layers, FetchPayload(c, l) PROVE GetInv'
    BY <2>3, Zenon DEF FetchPayload
  <2>4. QED
    BY <1>3, <2>1, <2>2, <2>3, Zenon DEF Land
<1>4. ASSUME NEW c \in Clients, Done(c) PROVE GetInv'
  <2>1. CASE PutPayloadDone(c) \/ PutMetaDone(c)
    BY <2>1 DEF PutPayloadDone, PutMetaDone, Rpc, Return
  <2>2. CASE GetMetaDone(c)
    BY <2>2 DEF GetMetaDone, Rpc, Return
  <2>3. CASE GetPayloadDone(c)
    BY <2>3, Zenon DEF GetPayloadDone, Return
  <2>4. CASE RemoveDone(c)
    BY <2>4, Zenon DEF RemoveDone, Return
  <2>5. QED
    BY <1>4, <2>1, <2>2, <2>3, <2>4, Zenon DEF Done
<1>5. ASSUME NEW c \in Clients, RpcFail(c) \/ Crash(c) PROVE GetInv'
  BY <1>5 DEF RpcFail, Crash, Return
<1>6. QED
  BY <1>1, <1>2, <1>3, <1>4, <1>5, Zenon DEF Next

\* Only a put that begins adds to the layers that may be stored: its updates
\* store layers it was called with.
LEMMA MaybeShrinks ==
    ASSUME TypeOK, TodoInv, NEW c \in Clients,
           \/ \E S \in SUBSET Layers : GetCall(c, S) \/ RemoveCall(c, S)
           \/ \E l \in Layers : Exists(c, l)
           \/ Land(c) \/ Done(c) \/ RpcFail(c) \/ Crash(c)
    PROVE  Maybe' \subseteq Maybe
<1>1. CASE \E S \in SUBSET Layers : GetCall(c, S) \/ RemoveCall(c, S)
  BY <1>1 DEF GetCall, RemoveCall, Rpc, Maybe, Putting, TypeOK
<1>2. CASE \E l \in Layers : Exists(c, l)
  BY <1>2, Zenon DEF Exists, Maybe
<1>3. CASE Land(c)
  <2>1. ASSUME NEW a \in Akeys, Update(c, a) PROVE Maybe' \subseteq Maybe
    <3> SUFFICES ASSUME NEW l \in Layers, l \in Maybe' PROVE l \in Maybe
      BY Zenon DEF Maybe
    <3>1. ASSUME a = <<"payload", l>> PROVE pc[c] \in Putting /\ l \in args[c]
      <4>1. pc[c] \in Putting /\ a \in todo[c]
        BY <2>1, Zenon DEF Update
      <4>2. CASE pc[c] = "put_payload"
        <5>1. a \in payload_akeys(args[c])
          BY <4>1, <4>2, Zenon DEF TodoInv
        <5>2. QED
          BY <3>1, <4>1, <5>1 DEF payload_akeys
      <4>3. CASE pc[c] = "put_meta"
        <5>1. a \in meta_akeys(args[c])
          BY <4>1, <4>3, Zenon DEF TodoInv
        <5>2. QED
          BY <3>1, <5>1 DEF meta_akeys
      <4>4. QED
        BY <4>1, <4>2, <4>3, Zenon DEF Putting
    <3>2. a # <<"payload", l>> => (store'[<<"payload", l>>] <=> store[<<"payload", l>>])
      BY <2>1, Zenon DEF Update, TypeOK, Akeys, Payload
    <3>3. QED
      BY <2>1, <3>1, <3>2, Zenon DEF Maybe, Update
  <2>2. ASSUME NEW a \in Akeys, Punch(c, a) PROVE Maybe' \subseteq Maybe
    <3>1. \A b \in Akeys : store'[b] => store[b]
      BY <2>2, Zenon DEF Punch, TypeOK
    <3>2. QED
      BY <2>2, <3>1, Zenon DEF Punch, Maybe, Akeys, Payload
  <2>3. ASSUME NEW l \in Layers, FetchMeta(c, l) \/ FetchPayload(c, l) PROVE Maybe' \subseteq Maybe
    BY <2>3, Zenon DEF FetchMeta, FetchPayload, Maybe
  <2>4. QED
    BY <1>3, <2>1, <2>2, <2>3, Zenon DEF Land
<1>4. CASE Done(c)
  BY <1>4, Zenon DEF Done, PutPayloadDone, PutMetaDone, GetMetaDone, GetPayloadDone, RemoveDone, Rpc, Return,
     Maybe, Putting, TypeOK
<1>5. CASE RpcFail(c) \/ Crash(c)
  BY <1>5, Zenon DEF RpcFail, Crash, Return, Maybe, Putting, TypeOK
<1>6. QED
  BY <1>1, <1>2, <1>3, <1>4, <1>5, Zenon

LEMMA MaybeGrows ==
    ASSUME TypeOK, NEW c \in Clients, NEW S \in SUBSET Layers, PutCall(c, S)
    PROVE  Maybe' = Maybe \cup S
<1>1. store' = store /\ pc[c] = "idle" /\ pc'[c] \in Putting /\ args'[c] = S
  BY Zenon DEF PutCall, Rpc, Putting, TypeOK
<1>2. \A d \in Clients \ {c} : pc'[d] = pc[d] /\ args'[d] = args[d]
  BY Zenon DEF PutCall, Rpc, TypeOK
<1>3. pc[c] \notin Putting
  BY <1>1, Zenon DEF Putting
<1>4. QED
  BY <1>1, <1>2, <1>3, Zenon DEF Maybe

LEMMA SeenStep == TypeOK /\ TodoInv /\ GetInv /\ SeenInv /\ [Next]_vars => SeenInv'
<1> SUFFICES ASSUME TypeOK, TodoInv, SeenInv, [Next]_vars,
                    NEW d \in Clients, pc'[d] \in Getting
             PROVE  Maybe' \subseteq seen'[d] /\ filled'[d] \subseteq seen'[d]
  BY Zenon DEF SeenInv
<1> USE DEF TypeOK, Getting
<1>1. CASE UNCHANGED vars
  BY <1>1, Zenon DEF vars, SeenInv, Maybe
<1>2. ASSUME NEW c \in Clients, NEW S \in SUBSET Layers, PutCall(c, S)
      PROVE  Maybe' \subseteq seen'[d] /\ filled'[d] \subseteq seen'[d]
  <2>1. Maybe' = Maybe \cup S
    BY <1>2, MaybeGrows, Zenon
  <2>2. pc[d] \in Getting /\ seen'[d] = seen[d] \cup S /\ filled'[d] = filled[d]
    BY <1>2, Zenon DEF PutCall, Rpc
  <2>3. QED
    BY <2>1, <2>2, Zenon DEF SeenInv
<1>3. ASSUME NEW c \in Clients, NEW S \in SUBSET Layers, GetCall(c, S)
      PROVE  Maybe' \subseteq seen'[d] /\ filled'[d] \subseteq seen'[d]
  <2>1. Maybe' \subseteq Maybe
    BY <1>3, MaybeShrinks, Zenon
  <2>2. CASE d = c
    BY <1>3, <2>1, <2>2, Zenon DEF GetCall
  <2>3. CASE d # c
    BY <1>3, <2>1, <2>3, Zenon DEF GetCall, Rpc, SeenInv
  <2>4. QED
    BY <2>2, <2>3, Zenon
<1>4. ASSUME NEW c \in Clients, NEW l \in Layers, FetchPayload(c, l)
      PROVE  Maybe' \subseteq seen'[d] /\ filled'[d] \subseteq seen'[d]
  <2>1. Maybe' \subseteq Maybe
    BY <1>4, MaybeShrinks, Zenon DEF Land
  <2>2. filled'[d] \subseteq filled[d] \cup Maybe
    BY <1>4, Zenon DEF FetchPayload, Maybe
  <2>3. QED
    BY <1>4, <2>1, <2>2, Zenon DEF FetchPayload, SeenInv
<1>5. ASSUME NEW c \in Clients,
             \/ \E S \in SUBSET Layers : RemoveCall(c, S)
             \/ \E l \in Layers : Exists(c, l) \/ FetchMeta(c, l)
             \/ \E a \in Akeys : Update(c, a) \/ Punch(c, a)
             \/ Done(c) \/ RpcFail(c) \/ Crash(c)
      PROVE  Maybe' \subseteq seen'[d] /\ filled'[d] \subseteq seen'[d]
  <2>1. Maybe' \subseteq Maybe
    BY <1>5, MaybeShrinks, Zenon DEF Land
  <2>2. pc[d] \in Getting /\ seen'[d] = seen[d] /\ filled'[d] = filled[d]
    BY <1>5, Zenon DEF RemoveCall, Exists, FetchMeta, Update, Punch, Done, RpcFail, Crash, PutPayloadDone,
       PutMetaDone, GetMetaDone, GetPayloadDone, RemoveDone, Rpc, Return
  <2>3. QED
    BY <2>1, <2>2, Zenon DEF SeenInv
<1>6. QED
  BY <1>1, <1>2, <1>3, <1>4, <1>5, Zenon DEF Next, Call, Land

LEMMA SeenCorrect == Spec => [](GetInv /\ SeenInv)
<1>1. Init => GetInv /\ SeenInv
  BY Zenon DEF Init, GetInv, SeenInv, Getting
<1>2. QED
  BY <1>1, GetStep, SeenStep, TodoCorrect, TypeCorrect, PTL DEF Spec
-----------------------------------------------------------------------------
(* The mapping.                                                            *)

\* How one client's entry into a get, or return from it, shows in the mapping.
LEMMA OpenOf ==
    ASSUME NEW c \in Clients, NEW b \in BOOLEAN, (pc'[c] \in Getting) <=> b,
           \A d \in Clients \ {c} : pc'[d] = pc[d]
    PROVE  Open' = [Open EXCEPT ![c] = b]
<1>1. \A d \in Clients : (pc'[d] \in Getting) = (IF d = c THEN b ELSE pc[d] \in Getting)
  <2> TAKE d \in Clients
  <2>1. CASE d = c
    <3>1. CASE b
      BY <2>1, <3>1, Zenon
    <3>2. CASE ~b
      BY <2>1, <3>2, Zenon
    <3>3. QED
      BY <3>1, <3>2, Zenon
  <2>2. CASE d # c
    <3>1. pc'[d] = pc[d]
      BY <2>2, Zenon
    <3>2. QED
      BY <2>2, <3>1, Zenon
  <2>3. QED
    BY <2>1, <2>2, Zenon
<1>2. Open' = [d \in Clients |-> IF d = c THEN b ELSE pc[d] \in Getting]
  BY <1>1, Zenon DEF Open
<1>3. [Open EXCEPT ![c] = b] = [d \in Clients |-> IF d = c THEN b ELSE pc[d] \in Getting]
  BY Zenon DEF Open
<1>4. QED
  BY <1>2, <1>3, Zenon

LEMMA OpenSame ==
    ASSUME NEW c \in Clients, (pc'[c] \in Getting) <=> (pc[c] \in Getting),
           \A d \in Clients \ {c} : pc'[d] = pc[d]
    PROVE  Open' = Open
<1>1. \A d \in Clients : (pc'[d] \in Getting) = (pc[d] \in Getting)
  <2> TAKE d \in Clients
  <2>1. CASE d = c
    BY <2>1
  <2>2. CASE d # c
    <3>1. pc'[d] = pc[d]
      BY <2>2, Zenon
    <3>2. QED
      BY <3>1, Zenon
  <2>3. QED
    BY <2>1, <2>2, Zenon
<1>2. QED
  BY <1>1, Zenon DEF Open

\* A step of c that is not the begin or the end of a get, nor the begin of a put,
\* loses whatever may no longer be stored.
LEMMA LoseStep ==
    ASSUME NEW c \in Clients, (pc'[c] \in Getting) <=> (pc[c] \in Getting),
           pc[c] \in Getting => args'[c] = args[c],
           \A d \in Clients \ {c} : pc'[d] = pc[d] /\ args'[d] = args[d],
           Maybe' \subseteq Maybe, seen' = seen, out' = out
    PROVE  Contract!Next
<1>1. Maybe \ Maybe' \in SUBSET Layers
  BY Zenon DEF Maybe
<1>2. Open' = Open
  BY OpenSame, Zenon
<1>3. Asked' = Asked
  <2>1. \A d \in Clients : (IF pc'[d] \in Getting THEN args'[d] ELSE {})
                           = (IF pc[d] \in Getting THEN args[d] ELSE {})
    BY Zenon
  <2>2. QED
    BY <2>1, Zenon DEF Asked
<1>4. Contract!Lose(Maybe \ Maybe')
  BY <1>2, <1>3, Zenon DEF Contract!Lose, Open, Asked
<1>5. QED
  BY <1>1, <1>4, Zenon DEF Contract!Next

\* A get that ends hands out layers it asked for and has seen.
LEMMA AnswerStep ==
    ASSUME TypeOK, NEW c \in Clients, pc[c] \in Getting, NEW how, Return(c, how), store' = store,
           NEW H \in SUBSET (args[c] \cap seen[c]), out' = [out EXCEPT ![c] = H \X {"stored"}]
    PROVE  Contract!Next
<1>0. \A d \in Clients : /\ pc'[d] = IF d = c THEN "idle" ELSE pc[d]
                         /\ args'[d] = IF d = c THEN {} ELSE args[d]
  BY Zenon DEF Return, TypeOK
<1>1. /\ Open' = [Open EXCEPT ![c] = FALSE]
      /\ Asked' = [Asked EXCEPT ![c] = {}]
  <2>1. \A d \in Clients : pc'[d] \in Getting <=> d # c /\ pc[d] \in Getting
    BY <1>0, Zenon DEF Getting
  <2>2. Open' = [Open EXCEPT ![c] = FALSE]
    BY <1>0, <2>1, OpenOf, Zenon
  <2>3. Asked' = [Asked EXCEPT ![c] = {}]
    BY <1>0, <2>1, Zenon DEF Asked
  <2>4. QED
    BY <2>2, <2>3, Zenon
<1>2. Maybe' = Maybe
  BY Zenon DEF Return, Maybe, TypeOK, Putting, Getting
<1>3. Contract!Answer(c, H)
  BY <1>1, <1>2, Zenon DEF Contract!Answer, Open, Asked, Return
<1>4. H \in SUBSET Layers
  BY Zenon DEF TypeOK
<1>5. QED
  BY <1>3, <1>4, Zenon DEF Contract!Next

\* The step of one client, as a step of the contract or a stutter.
LEMMA ClientStep ==
    ASSUME TypeOK, TodoInv, BufferInv, GetInv, SeenInv, NEW c \in Clients,
           Call(c) \/ Land(c) \/ Done(c) \/ RpcFail(c) \/ Crash(c)
    PROVE  Contract!Next
<1> USE DEF TypeOK, Getting
<1>1. ASSUME NEW S \in SUBSET Layers, PutCall(c, S) PROVE Contract!Next
  <2>1. Maybe' = Maybe \cup S
    BY <1>1, MaybeGrows, Zenon
  <2>2. /\ pc[c] = "idle" /\ pc'[c] = "put_payload" /\ out' = out
        /\ \A d \in Clients \ {c} : pc'[d] = pc[d] /\ args'[d] = args[d]
    BY <1>1, Zenon DEF PutCall, Rpc
  <2>3. Open' = Open
    BY <2>2, OpenSame, Zenon
  <2>4. Asked' = Asked
    BY <2>2, Zenon DEF Asked
  <2>5. seen' = [d \in Clients |-> IF Open[d] THEN seen[d] \cup S ELSE seen[d]]
    BY <1>1, Zenon DEF PutCall, Open
  <2>6. Contract!Submit(S)
    BY <2>1, <2>2, <2>3, <2>4, <2>5, Zenon DEF Contract!Submit, Open, Asked
  <2>7. QED
    BY <2>6, Zenon DEF Contract!Next
<1>2. ASSUME NEW S \in SUBSET Layers, GetCall(c, S) PROVE Contract!Next
  <2>1. /\ pc[c] = "idle" /\ pc'[c] = "get_meta" /\ args'[c] = S /\ store' = store
        /\ \A d \in Clients \ {c} : pc'[d] = pc[d] /\ args'[d] = args[d]
    BY <1>2, Zenon DEF GetCall, Rpc
  <2>2. Open' = [Open EXCEPT ![c] = TRUE]
    BY <2>1, OpenOf, Zenon
  <2>3. Asked' = [Asked EXCEPT ![c] = S]
    BY <2>1, Zenon DEF Asked
  <2>4. Maybe' = Maybe
    BY <2>1, Zenon DEF Maybe, Putting
  <2>5. ~Open[c]
    BY <2>1, Zenon DEF Open
  <2>6. Contract!Begin(c, S)
    BY <1>2, <2>2, <2>3, <2>4, <2>5, Zenon DEF Contract!Begin, GetCall, Open, Asked
  <2>7. QED
    BY <2>6, Zenon DEF Contract!Next
<1>3. ASSUME NEW S \in SUBSET Layers, RemoveCall(c, S) PROVE Contract!Next
  BY <1>3, MaybeShrinks, LoseStep, Zenon DEF RemoveCall, Rpc
<1>4. ASSUME NEW l \in Layers, Exists(c, l) PROVE Contract!Next
  BY <1>4, MaybeShrinks, LoseStep, Zenon DEF Exists
<1>5. CASE Land(c)
  <2>1. pc' = pc /\ args' = args /\ seen' = seen /\ out' = out
    BY <1>5, Zenon DEF Land, Update, Punch, FetchMeta, FetchPayload
  <2>2. QED
    BY <1>5, <2>1, MaybeShrinks, LoseStep, Zenon
<1>6. CASE PutPayloadDone(c) \/ PutMetaDone(c) \/ RemoveDone(c)
  <2>1. Maybe' \subseteq Maybe
    BY <1>6, MaybeShrinks, Zenon DEF Done
  <2>2. /\ pc[c] \notin Getting /\ pc'[c] \notin Getting /\ out' = out
        /\ \A d \in Clients \ {c} : pc'[d] = pc[d] /\ args'[d] = args[d] /\ seen'[d] = seen[d]
    BY <1>6, Zenon DEF PutPayloadDone, PutMetaDone, RemoveDone, Rpc, Return
  <2>3. seen' = seen
    <3>1. seen[c] = {}
      BY <2>2, Zenon DEF GetInv
    <3>2. seen' = seen \/ seen' = [seen EXCEPT ![c] = {}]
      BY <1>6, Zenon DEF PutPayloadDone, PutMetaDone, RemoveDone, Return
    <3>3. [seen EXCEPT ![c] = {}] = seen
      BY <3>1, Zenon
    <3>4. QED
      BY <3>2, <3>3, Zenon
  <2>4. QED
    BY <2>1, <2>2, <2>3, LoseStep, Zenon
<1>7. CASE GetMetaDone(c)
  <2>1. PICK A \in SUBSET got[c] :
             \/ A = {} /\ Return(c, "ok")
             \/ /\ A # {}
                /\ Rpc(c, "get_payload", payload_akeys(A))
                /\ UNCHANGED <<args, got, filled, ret, seen>>
    BY <1>7, Zenon DEF GetMetaDone
  <2>2. pc[c] \in Getting /\ store' = store /\ out' = out
    BY <1>7, Zenon DEF GetMetaDone
  <2>3. CASE A = {}
    <3>1. out' = [out EXCEPT ![c] = {} \X {"stored"}]
      BY <2>2, Zenon DEF BufferInv
    <3>2. QED
      BY <2>1, <2>2, <2>3, <3>1, AnswerStep, Zenon
  <2>4. CASE A # {}
    <3>1. /\ pc'[c] \in Getting /\ args' = args /\ seen' = seen
          /\ \A d \in Clients \ {c} : pc'[d] = pc[d]
      BY <2>1, <2>4, Zenon DEF Rpc
    <3>2. Maybe' \subseteq Maybe
      BY <1>7, MaybeShrinks, Zenon DEF Done
    <3>3. QED
      BY <2>2, <3>1, <3>2, LoseStep, Zenon
  <2>5. QED
    BY <2>3, <2>4, Zenon
<1>8. CASE GetPayloadDone(c)
  <2> DEFINE H == {l \in staged[c] : FullLength(c, l)}
  <2>1. H \in SUBSET (args[c] \cap seen[c])
    BY <1>8, Zenon DEF GetPayloadDone, FullLength, GetInv, SeenInv
  <2>2. {<<l, Content(c, l)>> : l \in H} = H \X {"stored"}
    BY DEF Content, FullLength
  <2>3. out' = [out EXCEPT ![c] = H \X {"stored"}] /\ store' = store /\ Return(c, "ok") /\ pc[c] \in Getting
    BY <1>8, <2>2, Zenon DEF GetPayloadDone
  <2> HIDE DEF H
  <2>4. QED
    BY <2>1, <2>3, AnswerStep, Zenon
<1>9. CASE RpcFail(c)
  <2>1. Return(c, "raise") /\ store' = store /\ out' = out
    BY <1>9, Zenon DEF RpcFail
  <2>2. CASE pc[c] \in Getting
    <3>1. out' = [out EXCEPT ![c] = {} \X {"stored"}]
      BY <2>1, <2>2, Zenon DEF BufferInv
    <3>2. QED
      BY <2>1, <2>2, <3>1, AnswerStep, Zenon
  <2>3. CASE pc[c] \notin Getting
    <3>1. /\ pc'[c] \notin Getting /\ seen' = seen
          /\ \A d \in Clients \ {c} : pc'[d] = pc[d] /\ args'[d] = args[d]
      BY <2>1, <2>3, Zenon DEF Return, GetInv
    <3>2. Maybe' \subseteq Maybe
      BY <1>9, MaybeShrinks, Zenon
    <3>3. QED
      BY <2>1, <2>3, <3>1, <3>2, LoseStep, Zenon
  <2>4. QED
    BY <2>2, <2>3, Zenon
<1>10. CASE Crash(c)
  <2>1. Maybe' \subseteq Maybe
    BY <1>10, MaybeShrinks, Zenon
  <2>2. /\ pc'[c] = "idle" /\ args'[c] = {} /\ seen'[c] = {} /\ out'[c] = {}
        /\ \A d \in Clients \ {c} : pc'[d] = pc[d] /\ args'[d] = args[d] /\ seen'[d] = seen[d] /\ out'[d] = out[d]
    BY <1>10, Zenon DEF Crash, Return
  <2>3. Open' = [d \in Clients |-> IF d \in {c} THEN FALSE ELSE Open[d]]
    <3>1. Open' = [Open EXCEPT ![c] = FALSE]
      BY <2>2, OpenOf, Zenon
    <3>2. QED
      BY <3>1, Zenon DEF Open
  <2>4. Asked' = [d \in Clients |-> IF d \in {c} THEN {} ELSE Asked[d]]
    BY <2>2, Zenon DEF Asked
  <2>5. /\ seen' = [d \in Clients |-> IF d \in {c} THEN {} ELSE seen[d]]
        /\ out' = [d \in Clients |-> IF d \in {c} THEN {} ELSE out[d]]
    BY <1>10, Zenon DEF Crash, Return
  <2>6. PICK S \in SUBSET Layers : Maybe' = Maybe \ S
    <3>1. Maybe \ Maybe' \in SUBSET Layers /\ Maybe' = Maybe \ (Maybe \ Maybe')
      BY <2>1, Zenon DEF Maybe
    <3>2. QED
      BY <3>1, Zenon
  <2>7. PICK P \in SUBSET Clients : P = {c}
    BY Zenon
  <2>8. Contract!Forget(P, S)
    BY <2>3, <2>4, <2>5, <2>6, <2>7, Zenon DEF Contract!Forget, Open, Asked
  <2>9. QED
    BY <2>8, Zenon DEF Contract!Next
<1>11. QED
  BY <1>1, <1>2, <1>3, <1>4, <1>5, <1>6, <1>7, <1>8, <1>9, <1>10, Zenon DEF Call, Done

\* The v3 path implements KvContract, for any set of layers and clients: no get
\* hands out a buffer no put filled, nor a layer that was neither stored nor being
\* stored at some moment of the call, whatever puts, removes, failures and crashes
\* it meets (_get_raw, _get_raw_folded).
THEOREM KeepsContract == Spec => ContractSpec
<1>1. Init => Contract!Init
  <2> SUFFICES ASSUME Init PROVE Contract!Init
    BY Zenon
  <2>1. Maybe = {}
    BY Zenon DEF Init, Maybe, Putting, Akeys, Payload
  <2>2. \A c \in Clients : (pc[c] \in Getting) = FALSE
    BY DEF Init, Getting
  <2>3. [c \in Clients |-> pc[c] \in Getting] = [c \in Clients |-> FALSE]
    BY <2>2, Zenon
  <2>4. [c \in Clients |-> IF pc[c] \in Getting THEN args[c] ELSE {}] = [c \in Clients |-> {}]
    BY <2>2, Zenon
  <2>5. QED
    BY <2>1, <2>3, <2>4, Zenon DEF Init, Contract!Init
<1>2. TypeOK /\ TodoInv /\ BufferInv /\ GetInv /\ SeenInv /\ [Next]_vars => [Contract!Next]_(Contract!vars)
  <2> SUFFICES ASSUME TypeOK, TodoInv, BufferInv, GetInv, SeenInv, [Next]_vars
               PROVE  Contract!Next \/ UNCHANGED Contract!vars
    BY Zenon
  <2>1. CASE UNCHANGED vars
    BY <2>1, Zenon DEF vars, Contract!vars, Maybe
  <2>2. CASE Next
    BY <2>2, ClientStep, Zenon DEF Next
  <2>3. QED
    BY <2>1, <2>2, Zenon
<1>3. Spec => []BufferInv
  BY BufferInit, BufferStep, TypeCorrect, PTL DEF Spec
<1>4. QED
  BY <1>1, <1>2, <1>3, SeenCorrect, TodoCorrect, TypeCorrect, PTL DEF Spec, ContractSpec, Contract!Spec
-----------------------------------------------------------------------------
(* The I/O pool: no queue behind a wedge.                                  *)

Work == (Requests \cup {"none"}) \X Nat
BusySet == {w \in Workers : running[w] # <<>>}

\* What the detector may conclude from its two numbers.  _inflight counts at least
\* the items in the queue and in the threads; the ghost clock runs only while all
\* threads are inside a call, and never ahead of the time since _last_done.
PoolInv ==
    /\ queue \in Seq(Work)
    /\ running \in [Workers -> Work \cup {<<>>}]
    /\ inflight \in Nat
    /\ inflight >= Len(queue) + Cardinality(BusySet)
    /\ quiet \in 0 .. Stall + 1
    /\ stuck \in 0 .. quiet
    /\ stuck > 0 => BusySet = Workers

LEMMA WorkFacts == \A x \in Work : x # <<>>
  BY DEF Work

LEMMA BusyFinite ==
    ASSUME IsFiniteSet(Workers)
    PROVE  IsFiniteSet(BusySet) /\ Cardinality(BusySet) \in Nat
<1>1. BusySet \subseteq Workers
  BY Zenon DEF BusySet
<1>2. QED
  BY <1>1, FS_Subset, FS_CardinalityType, Zenon

\* The item _run submits next has the shape of an item.
LEMMA NextIsWork == ASSUME Size \in Nat, NEW r \in Requests PROVE NextItem(r) \in Work
<1> DEFINE D == {i \in 1 .. Size : item[<<r, i>>] # "new"}
<1>1. IsFiniteSet(1 .. Size)
  <2>1. 1 \in Int /\ Size \in Int
    OBVIOUS
  <2>2. QED
    BY <2>1, FS_Interval, Zenon
<1>2. Cardinality(D) \in Nat
  <2>1. D \subseteq 1 .. Size
    BY Zenon
  <2>2. QED
    BY <1>1, <2>1, FS_Subset, FS_CardinalityType, Zenon
<1> HIDE DEF D
<1>3. NextItem(r) = <<r, 1 + Cardinality(D)>>
  BY Zenon DEF NextItem, D
<1>4. QED
  BY <1>2, <1>3 DEF Work

\* A thread that takes an item, or is rid of one.
LEMMA BusyMore ==
    ASSUME IsFiniteSet(Workers), PoolInv, NEW w \in Workers, running[w] = <<>>, NEW x \in Work,
           running' = [running EXCEPT ![w] = x]
    PROVE  Cardinality(BusySet') = Cardinality(BusySet) + 1
<1>1. BusySet' = BusySet \cup {w} /\ w \notin BusySet
  BY WorkFacts, Zenon DEF BusySet, PoolInv
<1>2. QED
  BY <1>1, BusyFinite, FS_AddElement, Zenon

LEMMA BusyLess ==
    ASSUME IsFiniteSet(Workers), PoolInv, NEW w \in Workers, running[w] # <<>>,
           running' = [running EXCEPT ![w] = <<>>]
    PROVE  Cardinality(BusySet') = Cardinality(BusySet) - 1
<1>1. BusySet' = BusySet \ {w} /\ w \in BusySet
  BY Zenon DEF BusySet, PoolInv
<1>2. QED
  BY <1>1, BusyFinite, FS_RemoveElement, Zenon

\* What a step does to the queue, the threads and the detector's numbers.
LEMMA PoolStep ==
    ASSUME IsFiniteSet(Workers), Size \in Nat, Stall \in Nat, PoolInv, [PoolNext]_poolVars
    PROVE  PoolInv'
<1>1. /\ queue \in Seq(Work) /\ Len(queue) \in Nat
      /\ running \in [Workers -> Work \cup {<<>>}]
      /\ inflight \in Nat /\ quiet \in Nat /\ stuck \in Nat
      /\ Cardinality(BusySet) \in Nat
  BY BusyFinite DEF PoolInv
<1>2. ASSUME UNCHANGED <<running, quiet, stuck>>, queue' \in Seq(Work), inflight' \in Nat,
             inflight' - Len(queue') >= inflight - Len(queue)
      PROVE  PoolInv'
  <2>1. BusySet' = BusySet
    BY <1>2, Zenon DEF BusySet
  <2>2. Len(queue') \in Nat
    BY <1>2
  <2>3. inflight' >= Len(queue') + Cardinality(BusySet)
    BY <1>1, <1>2, <2>2 DEF PoolInv
  <2>4. QED
    BY <1>2, <2>1, <2>3, Zenon DEF PoolInv
<1>3. CASE UNCHANGED poolVars
  BY <1>1, <1>2, <1>3 DEF poolVars
<1>4. ASSUME NEW r \in Requests, BatchedGet(r) \/ Gather(r) PROVE PoolInv'
  BY <1>1, <1>2, <1>4 DEF BatchedGet, Gather
<1>5. ASSUME NEW r \in Requests, Run(r) PROVE PoolInv'
  <2>1. /\ queue' = Append(queue, NextItem(r)) /\ inflight' = inflight + 1
        /\ UNCHANGED <<running, quiet, stuck>>
    BY <1>5, Zenon DEF Run
  <2>2. queue' \in Seq(Work) /\ Len(queue') = Len(queue) + 1
    BY <1>1, <2>1, NextIsWork
  <2>3. QED
    BY <1>1, <1>2, <2>1, <2>2
<1>6. ASSUME NEW r \in Requests, Refuse(r) PROVE PoolInv'
  <2>1. inflight' \in {inflight, inflight + 1} /\ UNCHANGED <<queue, running, quiet, stuck>>
    BY <1>6, Zenon DEF Refuse
  <2>2. QED
    BY <1>1, <1>2, <2>1
<1>7. ASSUME NEW r \in Requests, Cancel(r) PROVE PoolInv'
  <2>1. /\ queue' = [n \in 1 .. Len(queue) |-> IF queue[n][1] = r THEN <<"none", 0>> ELSE queue[n]]
        /\ UNCHANGED <<running, quiet, stuck, inflight>>
    BY <1>7, Zenon DEF Cancel, Void, None
  <2>2. <<"none", 0>> \in Work
    BY Zenon DEF Work
  <2>3. queue' \in Seq(Work) /\ Len(queue') = Len(queue)
    BY <1>1, <2>1, <2>2
  <2>4. QED
    BY <1>1, <1>2, <2>1, <2>3
<1>8. ASSUME Close PROVE PoolInv'
  <2>1. queue' = <<>> /\ UNCHANGED <<running, quiet, stuck, inflight>>
    BY <1>8, Zenon DEF Close, cancel_futures
  <2>2. queue' \in Seq(Work) /\ Len(queue') = 0
    BY <2>1
  <2>3. QED
    BY <1>1, <1>2, <2>1, <2>2
<1>9. ASSUME NEW w \in Workers, Start(w) PROVE PoolInv'
  <2>1. /\ running[w] = <<>> /\ queue # <<>> /\ queue' = Tail(queue)
        /\ running' = running \/ running' = [running EXCEPT ![w] = Head(queue)]
        /\ UNCHANGED <<inflight, quiet, stuck>>
    BY <1>9, Zenon DEF Start, Busy, Idle
  <2>2. Head(queue) \in Work /\ queue' \in Seq(Work) /\ Len(queue') = Len(queue) - 1
    BY <1>1, <2>1
  <2>3. CASE running' = running
    BY <1>1, <1>2, <2>1, <2>2, <2>3
  <2>4. CASE running' = [running EXCEPT ![w] = Head(queue)]
    <3>1. Cardinality(BusySet') = Cardinality(BusySet) + 1
      BY <2>1, <2>2, <2>4, BusyMore, Zenon
    <3>2. running' \in [Workers -> Work \cup {<<>>}]
      BY <1>1, <2>2, <2>4, Zenon
    <3>3. w \in Workers /\ w \notin BusySet
      BY <2>1, Zenon DEF BusySet
    <3>4. stuck = 0
      BY <1>1, <3>3 DEF PoolInv
    <3>5. inflight' >= Len(queue') + Cardinality(BusySet')
      BY <1>1, <2>1, <2>2, <3>1 DEF PoolInv
    <3>6. QED
      BY <1>1, <2>1, <2>2, <3>2, <3>4, <3>5 DEF PoolInv
  <2>5. QED
    BY <2>1, <2>3, <2>4, Zenon
<1>10. ASSUME NEW w \in Workers, Finish(w) PROVE PoolInv'
  <2>1. /\ running[w] # <<>> /\ running' = [running EXCEPT ![w] = <<>>]
        /\ inflight' = inflight - 1 /\ quiet' = 0 /\ stuck' = 0 /\ queue' = queue
    BY <1>10, Zenon DEF Finish, Busy, Idle, Completed
  <2>2. Cardinality(BusySet') = Cardinality(BusySet) - 1
    BY <2>1, BusyLess, Zenon
  <2>3. running' \in [Workers -> Work \cup {<<>>}]
    BY <1>1, <2>1, Zenon
  <2>4. w \in BusySet
    BY <2>1, Zenon DEF BusySet
  <2>5. Cardinality(BusySet) # 0
    BY <2>4, BusyFinite, FS_EmptySet, Zenon
  <2>6. inflight' \in Nat /\ inflight' >= Len(queue') + Cardinality(BusySet')
    BY <1>1, <2>1, <2>2, <2>5 DEF PoolInv
  <2>7. QED
    BY <1>1, <2>1, <2>3, <2>6 DEF PoolInv
<1>11. ASSUME NEW w \in Workers, Hang(w) PROVE PoolInv'
  BY <1>1, <1>2, <1>11 DEF Hang
<1>12. ASSUME Tick PROVE PoolInv'
  <2>1. UNCHANGED <<queue, running, inflight>>
    BY <1>12, Zenon DEF Tick
  <2>2. BusySet' = BusySet
    BY <2>1, Zenon DEF BusySet
  <2>3. (\A w \in Workers : Busy(w)) => BusySet = Workers
    BY Zenon DEF Busy, Idle, BusySet
  <2>4. /\ quiet' = IF quiet <= Stall THEN quiet + 1 ELSE quiet
        /\ stuck' = stuck \/ (stuck' = stuck + 1 /\ stuck <= Stall /\ \A w \in Workers : Busy(w))
    BY <1>12, Zenon DEF Tick
  <2>5. quiet' \in 0 .. Stall + 1 /\ stuck' \in 0 .. quiet'
    BY <1>1, <2>4 DEF PoolInv
  <2>6. stuck' > 0 => BusySet = Workers
    BY <1>1, <2>3, <2>4, Zenon DEF PoolInv
  <2>7. QED
    BY <2>1, <2>2, <2>5, <2>6, Zenon DEF PoolInv
<1>13. QED
  BY <1>3, <1>4, <1>5, <1>6, <1>7, <1>8, <1>9, <1>10, <1>11, <1>12, Zenon DEF PoolNext, LoopStep

\* Every step but the acceptance of an item leaves the queue or shortens it.
LEMMA QueueStep ==
    ASSUME queue \in Seq(Work), [PoolNext]_poolVars, \A r \in Requests : ~Run(r)
    PROVE  Len(queue') <= Len(queue)
<1>1. Len(queue) \in Nat
  OBVIOUS
<1>2. CASE queue' = queue
  BY <1>1, <1>2
<1>3. ASSUME NEW r \in Requests, Cancel(r) PROVE Len(queue') <= Len(queue)
  <2>1. queue' = [n \in 1 .. Len(queue) |-> IF queue[n][1] = r THEN Void ELSE queue[n]]
    BY <1>3, Zenon DEF Cancel
  <2>2. Len(queue') = Len(queue)
    BY <1>1, <2>1
  <2>3. QED
    BY <1>1, <2>2
<1>4. ASSUME Close PROVE Len(queue') <= Len(queue)
  BY <1>1, <1>4 DEF Close, cancel_futures
<1>5. ASSUME NEW w \in Workers, Start(w) PROVE Len(queue') <= Len(queue)
  <2>1. queue # <<>> /\ queue' = Tail(queue)
    BY <1>5, Zenon DEF Start
  <2>2. Len(queue') = Len(queue) - 1
    BY <2>1
  <2>3. QED
    BY <1>1, <2>2
<1>6. QED
  BY <1>2, <1>3, <1>4, <1>5, Zenon DEF PoolNext, poolVars, LoopStep, BatchedGet, Refuse, Gather,
     Finish, Hang, Tick

\* What the detector may conclude always holds.
LEMMA PoolAlways == PoolSpec => []PoolInv
<1> USE WorkersAssumption, SizeAssumption, StallAssumption
<1>1. PoolInit => PoolInv
  <2> SUFFICES ASSUME PoolInit PROVE PoolInv
    BY Zenon
  <2>1. BusySet = {}
    BY Zenon DEF PoolInit, Idle, BusySet
  <2>2. Cardinality(BusySet) = 0
    BY <2>1, FS_EmptySet, Zenon
  <2>3. queue \in Seq(Work) /\ Len(queue) = 0
    BY DEF PoolInit
  <2>4. QED
    BY <2>2, <2>3 DEF PoolInit, Idle, PoolInv
<1>2. PoolInv /\ [PoolNext]_poolVars => PoolInv'
  BY PoolStep, Zenon
<1>3. QED
  BY <1>1, <1>2, PTL DEF PoolSpec

\* Once every pool thread has been inside its call for more than STALL_SECS, _run
\* queues nothing behind them, for any number of callers, batch sizes and threads
\* and any stall threshold: refused, cancelled and orphaned items only ever make
\* _inflight err on the side of refusing.
THEOREM WedgeRefuses == PoolSpec => NoQueueBehindWedge
<1> USE WorkersAssumption, SizeAssumption, StallAssumption
<1>1. PoolInv /\ [PoolNext]_poolVars => [stuck > Stall => Len(queue') <= Len(queue)]_poolVars
  <2> SUFFICES ASSUME PoolInv, [PoolNext]_poolVars, stuck > Stall PROVE Len(queue') <= Len(queue)
    BY Zenon
  <2>1. BusySet = Workers /\ quiet > Stall
    BY DEF PoolInv
  <2>2. inflight >= Cardinality(Workers)
    BY <2>1, BusyFinite DEF PoolInv
  <2>3. Wedged
    BY <2>1, <2>2, Zenon DEF Wedged
  <2>4. \A r \in Requests : ~Run(r)
    BY <2>3, Zenon DEF Run
  <2>5. QED
    BY <2>4, QueueStep, Zenon DEF PoolInv
<1>2. QED
  BY <1>1, PoolAlways, PTL DEF PoolSpec, NoQueueBehindWedge
-----------------------------------------------------------------------------
(* Who waits for the I/O pool.                                             *)

\* An item is in the executor's queue; a thread is inside it.
InQueue(x) == \E n \in 1 .. Len(queue) : queue[n] = x
InThread(x) == \E w \in Workers : running[w] = x

\* An item that is not over is where its future can still be resolved.
Backed(x) == /\ item[x] = "queued" => InQueue(x)
             /\ item[x] = "running" => InThread(x)

ItemsInv == item \in [Items -> {"new", "queued", "running", "done"}] /\ \A x \in Items : Backed(x)

HungInv == hung \subseteq Workers

\* A thread goes on: it is free and there is an item to take, or its call returns.
ThreadGoesOn == \E w \in Workers : \/ ~Busy(w) /\ queue # <<>>
                                   \/ Busy(w) /\ w \notin hung

\* A batch that is awaited is over, or a thread goes on, or a call that does not
\* return has one of its items or has every thread.
OnlyHungWaits ==
    \A r \in Requests :
        phase[r] = "waiting" =>
            \/ Over(r)
            \/ ThreadGoesOn
            \/ \E w \in hung, i \in 1 .. Size : running[w] = <<r, i>>
            \/ hung = Workers

LEMMA ItemFacts == Items \subseteq Work /\ Void \notin Items /\ Void \in Work
<1>1. Items \subseteq Work
  BY SizeAssumption DEF Items, Work
<1>2. Void \notin Items
  BY RequestsAssumption DEF Items, Void, None
<1>3. Void \in Work
  BY DEF Void, None, Work
<1>4. QED
  BY <1>1, <1>2, <1>3, Zenon

\* The item stays where it was.
LEMMA BackedStays ==
    ASSUME NEW x, Backed(x), item'[x] \in {item[x], "new", "done"},
           item'[x] = "queued" /\ InQueue(x) => InQueue(x)',
           item'[x] = "running" /\ InThread(x) => InThread(x)'
    PROVE  Backed(x)'
<1>1. item'[x] = "queued" => item[x] = "queued"
  OBVIOUS
<1>2. item'[x] = "running" => item[x] = "running"
  OBVIOUS
<1>3. QED
  BY <1>1, <1>2, Zenon DEF Backed

LEMMA ItemsRun == ASSUME PoolInv, ItemsInv, NEW r \in Requests, Run(r) PROVE ItemsInv'
<1>1. PICK y \in Work : y = NextItem(r)
  BY SizeAssumption, NextIsWork, Zenon
<1>2. /\ item' = [item EXCEPT ![y] = "queued"] /\ queue' = Append(queue, y) /\ running' = running
      /\ queue \in Seq(Work)
  BY <1>1, Zenon DEF Run, PoolInv
<1>3. item \in [Items -> {"new", "queued", "running", "done"}] /\ \A x \in Items : Backed(x)
  BY Zenon DEF ItemsInv
<1>4. item' \in [Items -> {"new", "queued", "running", "done"}]
  BY <1>2, <1>3, Zenon
<1>5. \A x : InThread(x) => InThread(x)'
  BY <1>2, Zenon DEF InThread
<1>6. /\ Len(queue) \in Nat /\ Len(queue') = Len(queue) + 1 /\ queue'[Len(queue) + 1] = y
      /\ \A n \in 1 .. Len(queue) : queue'[n] = queue[n]
  BY <1>2
<1>7. \A n \in 1 .. Len(queue) : n \in 1 .. Len(queue')
  BY <1>6
<1>8. InQueue(y)'
  <2>1. Len(queue) + 1 \in 1 .. Len(queue')
    BY <1>6
  <2>2. QED
    BY <1>6, <2>1, Zenon DEF InQueue
<1>9. ASSUME NEW x, InQueue(x) PROVE InQueue(x)'
  <2>1. PICK n \in 1 .. Len(queue) : queue[n] = x
    BY <1>9, Zenon DEF InQueue
  <2>2. QED
    BY <1>6, <1>7, <2>1, Zenon DEF InQueue
<1>10. ASSUME NEW x \in Items PROVE Backed(x)'
  <2>1. CASE x = y
    <3>1. item'[x] = "queued"
      BY <1>2, <1>3, <2>1, Zenon
    <3>2. item'[x] # "running"
      BY <3>1
    <3>3. InQueue(x)'
      BY <1>8, <2>1, Zenon
    <3>4. QED
      BY <3>2, <3>3, Zenon DEF Backed
  <2>2. CASE x # y
    <3>1. item'[x] = item[x]
      BY <1>2, <1>3, <2>2, Zenon
    <3>2. QED
      BY <1>3, <1>5, <1>9, <3>1, BackedStays, Zenon
  <2>3. QED
    BY <2>1, <2>2, Zenon
<1>11. QED
  BY <1>4, <1>10, Zenon DEF ItemsInv

LEMMA ItemsCancel == ASSUME PoolInv, ItemsInv, NEW r \in Requests, Cancel(r) PROVE ItemsInv'
<1>1. /\ item' = [x \in Items |-> IF x[1] = r /\ item[x] = "queued" THEN "done" ELSE item[x]]
      /\ queue' = [n \in 1 .. Len(queue) |-> IF queue[n][1] = r THEN Void ELSE queue[n]]
      /\ running' = running /\ queue \in Seq(Work)
  BY Zenon DEF Cancel, PoolInv
<1>2. item \in [Items -> {"new", "queued", "running", "done"}] /\ \A x \in Items : Backed(x)
  BY Zenon DEF ItemsInv
<1>3. item' \in [Items -> {"new", "queued", "running", "done"}]
  BY <1>1, <1>2, Zenon
<1>4. \A x : InThread(x) => InThread(x)'
  BY <1>1, Zenon DEF InThread
<1>5. Len(queue') = Len(queue) /\ \A n \in 1 .. Len(queue) : queue[n][1] # r => queue'[n] = queue[n]
  <2>1. Len(queue) \in Nat
    BY <1>1
  <2>2. Len(queue') = Len(queue)
    BY <1>1, <2>1
  <2>3. QED
    BY <1>1, <2>2, Zenon
<1>6. ASSUME NEW x, InQueue(x), x[1] # r PROVE InQueue(x)'
  <2>1. PICK n \in 1 .. Len(queue) : queue[n] = x
    BY <1>6, Zenon DEF InQueue
  <2>2. queue'[n] = x /\ n \in 1 .. Len(queue')
    BY <1>5, <1>6, <2>1, Zenon
  <2>3. QED
    BY <2>2, Zenon DEF InQueue
<1>7. ASSUME NEW x \in Items PROVE Backed(x)'
  <2>1. item'[x] = IF x[1] = r /\ item[x] = "queued" THEN "done" ELSE item[x]
    BY <1>1, Zenon
  <2>2. item'[x] \in {item[x], "done"}
    BY <2>1, Zenon
  <2>3. item'[x] = "queued" => x[1] # r
    BY <2>1
  <2>4. QED
    BY <1>2, <1>4, <1>6, <2>2, <2>3, BackedStays, Zenon
<1>8. QED
  BY <1>3, <1>7, Zenon DEF ItemsInv

LEMMA ItemsClose == ASSUME PoolInv, ItemsInv, Close PROVE ItemsInv'
<1>1. item' = [x \in Items |-> IF item[x] = "queued" THEN "done" ELSE item[x]] /\ running' = running
  BY Zenon DEF Close, cancel_futures
<1>2. item \in [Items -> {"new", "queued", "running", "done"}] /\ \A x \in Items : Backed(x)
  BY Zenon DEF ItemsInv
<1>3. item' \in [Items -> {"new", "queued", "running", "done"}]
  BY <1>1, <1>2, Zenon
<1>4. \A x : InThread(x) => InThread(x)'
  BY <1>1, Zenon DEF InThread
<1>5. ASSUME NEW x \in Items PROVE Backed(x)'
  <2>1. item'[x] = IF item[x] = "queued" THEN "done" ELSE item[x]
    BY <1>1, Zenon
  <2>2. item'[x] # "queued" /\ item'[x] \in {item[x], "done"}
    BY <2>1
  <2>3. QED
    BY <1>2, <1>4, <2>2, BackedStays, Zenon
<1>6. QED
  BY <1>3, <1>5, Zenon DEF ItemsInv

LEMMA ItemsStart == ASSUME PoolInv, ItemsInv, NEW w \in Workers, Start(w) PROVE ItemsInv'
<1>1. /\ running[w] = <<>> /\ queue # <<>> /\ queue' = Tail(queue)
      /\ Head(queue) = Void => UNCHANGED <<running, item>>
      /\ Head(queue) # Void => /\ running' = [running EXCEPT ![w] = Head(queue)]
                               /\ item' = [item EXCEPT ![Head(queue)] = "running"]
  BY Zenon DEF Start, Busy, Idle
<1>2. item \in [Items -> {"new", "queued", "running", "done"}] /\ \A x \in Items : Backed(x)
  BY Zenon DEF ItemsInv
<1>3. item' \in [Items -> {"new", "queued", "running", "done"}]
  BY <1>1, <1>2, Zenon
<1>4. queue \in Seq(Work) /\ running \in [Workers -> Work \cup {<<>>}]
  BY Zenon DEF PoolInv
<1>5. ASSUME NEW x, InQueue(x), x # Head(queue) PROVE InQueue(x)'
  <2>1. PICK n \in 1 .. Len(queue) : queue[n] = x
    BY <1>5, Zenon DEF InQueue
  <2>2. n # 1
    BY <1>1, <1>4, <1>5, <2>1
  <2>3. n - 1 \in 1 .. Len(queue') /\ queue'[n - 1] = queue[n]
    BY <1>1, <1>4, <2>2
  <2>4. QED
    BY <2>1, <2>3, Zenon DEF InQueue
<1>6. ASSUME NEW x \in Items, InThread(x) PROVE InThread(x)'
  <2>1. PICK v \in Workers : running[v] = x
    BY <1>6, Zenon DEF InThread
  <2>2. v # w
    BY <1>1, <2>1, ItemFacts, WorkFacts, Zenon
  <2>3. running'[v] = x
    BY <1>1, <1>4, <2>1, <2>2, Zenon
  <2>4. QED
    BY <2>3, Zenon DEF InThread
<1>7. ASSUME NEW x \in Items PROVE Backed(x)'
  <2>1. CASE x = Head(queue)
    <3>1. Head(queue) # Void
      BY <2>1, ItemFacts, Zenon
    <3>2. running'[w] = x /\ item'[x] = "running"
      BY <1>1, <1>2, <1>4, <2>1, <3>1, Zenon
    <3>3. item'[x] # "queued"
      BY <3>2
    <3>4. InThread(x)'
      BY <3>2, Zenon DEF InThread
    <3>5. QED
      BY <3>3, <3>4, Zenon DEF Backed
  <2>2. CASE x # Head(queue)
    <3>1. item'[x] = item[x]
      BY <1>1, <1>2, <2>2, Zenon
    <3>2. QED
      BY <1>2, <1>5, <1>6, <2>2, <3>1, BackedStays, Zenon
  <2>3. QED
    BY <2>1, <2>2, Zenon
<1>8. QED
  BY <1>3, <1>7, Zenon DEF ItemsInv

LEMMA ItemsFinish == ASSUME PoolInv, ItemsInv, NEW w \in Workers, Finish(w) PROVE ItemsInv'
<1>1. /\ item' = [item EXCEPT ![running[w]] = "done"] /\ running' = [running EXCEPT ![w] = <<>>]
      /\ queue' = queue
  BY Zenon DEF Finish, Idle
<1>2. item \in [Items -> {"new", "queued", "running", "done"}] /\ \A x \in Items : Backed(x)
  BY Zenon DEF ItemsInv
<1>3. item' \in [Items -> {"new", "queued", "running", "done"}]
  BY <1>1, <1>2, Zenon
<1>4. running \in [Workers -> Work \cup {<<>>}]
  BY Zenon DEF PoolInv
<1>5. \A x : InQueue(x) => InQueue(x)'
  BY <1>1, Zenon DEF InQueue
<1>6. ASSUME NEW x, InThread(x), x # running[w] PROVE InThread(x)'
  <2>1. PICK v \in Workers : running[v] = x
    BY <1>6, Zenon DEF InThread
  <2>2. running'[v] = x
    BY <1>1, <1>4, <1>6, <2>1, Zenon
  <2>3. QED
    BY <2>2, Zenon DEF InThread
<1>7. ASSUME NEW x \in Items PROVE Backed(x)'
  <2>1. CASE x = running[w]
    <3>1. item'[x] = "done"
      BY <1>1, <1>2, <2>1, Zenon
    <3>2. item'[x] # "queued" /\ item'[x] # "running"
      BY <3>1
    <3>3. QED
      BY <3>2, Zenon DEF Backed
  <2>2. CASE x # running[w]
    <3>1. item'[x] = item[x]
      BY <1>1, <1>2, <2>2, Zenon
    <3>2. QED
      BY <1>2, <1>5, <1>6, <2>2, <3>1, BackedStays, Zenon
  <2>3. QED
    BY <2>1, <2>2, Zenon
<1>8. QED
  BY <1>3, <1>7, Zenon DEF ItemsInv

LEMMA ItemsStep == ASSUME PoolInv, ItemsInv, [PoolNext]_poolVars PROVE ItemsInv'
<1>1. CASE UNCHANGED <<queue, running>> /\ (item' = item \/ \E r \in Requests : item' = Fresh(r))
  <2>1. \A x : (InQueue(x) => InQueue(x)') /\ (InThread(x) => InThread(x)')
    BY <1>1, Zenon DEF InQueue, InThread
  <2>2. item \in [Items -> {"new", "queued", "running", "done"}] /\ \A x \in Items : Backed(x)
    BY Zenon DEF ItemsInv
  <2>3. \A x \in Items : item'[x] \in {item[x], "new"}
    BY <1>1, Zenon DEF Fresh
  <2>4. item' \in [Items -> {"new", "queued", "running", "done"}]
    BY <1>1, <2>2, Zenon DEF Fresh
  <2>5. \A x \in Items : Backed(x)'
    BY <2>1, <2>2, <2>3, BackedStays, Zenon
  <2>6. QED
    BY <2>4, <2>5, Zenon DEF ItemsInv
<1>2. ASSUME NEW r \in Requests, BatchedGet(r) \/ Refuse(r) \/ Gather(r) PROVE ItemsInv'
  BY <1>1, <1>2, Zenon DEF BatchedGet, Refuse, Gather
<1>3. CASE Tick \/ (\E w \in Workers : Hang(w)) \/ UNCHANGED poolVars
  BY <1>1, <1>3, Zenon DEF Tick, Hang, poolVars
<1>4. QED
  BY <1>2, <1>3, ItemsRun, ItemsCancel, ItemsClose, ItemsStart, ItemsFinish, Zenon DEF PoolNext, LoopStep

\* A batched_get that waits, waits for something that moves, unless a DAOS call that
\* never returns has one of its items or every thread of the pool: _run, a
\* caller that gives up and close() never lose an item whose future is still
\* awaited, for any callers, batch sizes and pools.  The safety half of BatchEnds.
THEOREM OnlyHungCallsStall == PoolSpec => []OnlyHungWaits
<1> USE WorkersAssumption, SizeAssumption, StallAssumption
<1>1. PoolInit => ItemsInv
  <2> SUFFICES ASSUME PoolInit PROVE ItemsInv
    BY Zenon
  <2>1. item = [x \in Items |-> "new"]
    BY Zenon DEF PoolInit
  <2>2. \A x \in Items : item[x] # "queued" /\ item[x] # "running"
    BY <2>1
  <2>3. item \in [Items -> {"new", "queued", "running", "done"}]
    BY <2>1, Zenon
  <2>4. QED
    BY <2>2, <2>3, Zenon DEF ItemsInv, Backed
<1>2. PoolInv /\ ItemsInv /\ [PoolNext]_poolVars => ItemsInv'
  BY ItemsStep, Zenon
<1>3. HungInv /\ [PoolNext]_poolVars => HungInv'
  BY Zenon DEF HungInv, PoolNext, poolVars, LoopStep, BatchedGet, Run, Refuse, Gather, Cancel, Close, Start, Finish,
     Hang, Tick
<1>4. ItemsInv /\ HungInv => OnlyHungWaits
  <2> SUFFICES ASSUME ItemsInv, hung \subseteq Workers, NEW r \in Requests, ~Over(r), ~ThreadGoesOn, hung # Workers
               PROVE  \E w \in hung, i \in 1 .. Size : running[w] = <<r, i>>
    BY Zenon DEF OnlyHungWaits, HungInv
  <2>1. PICK i \in 1 .. Size : item[<<r, i>>] \in {"queued", "running"}
    BY Zenon DEF Over
  <2>2. <<r, i>> \in Items
    BY Zenon DEF Items
  <2>3. PICK v \in Workers : v \notin hung
    BY Zenon
  <2>4. queue = <<>>
    BY <2>3, Zenon DEF ThreadGoesOn
  <2>5. 1 .. Len(queue) = {}
    BY <2>4
  <2>6. ~InQueue(<<r, i>>)
    BY <2>5, Zenon DEF InQueue
  <2>7. PICK w \in Workers : running[w] = <<r, i>>
    BY <2>1, <2>2, <2>6, Zenon DEF ItemsInv, Backed, InThread
  <2>8. running[w] # <<>>
    BY <2>7
  <2>9. w \in hung
    BY <2>8, Zenon DEF ThreadGoesOn, Busy, Idle
  <2>10. QED
    BY <2>7, <2>9, Zenon
<1>5. PoolInit => HungInv
  BY Zenon DEF PoolInit, HungInv
<1>6. QED
  BY <1>1, <1>2, <1>3, <1>4, <1>5, PoolAlways, PTL DEF PoolSpec
-----------------------------------------------------------------------------
(* The detector tells load from a wedge.                                   *)

\* As long as no caller gave up and the pool is open, nothing in the queue has been
\* cancelled and _inflight is the number of items in the queue and in the threads.
CountInv ==
    ~gaveup /\ ~closed =>
        /\ inflight = Len(queue) + Cardinality(BusySet)
        /\ \A n \in 1 .. Len(queue) : queue[n] # Void

\* The count is exact, and while it keeps work out a thread goes on or a call hangs.
WedgedByWork ==
    ~gaveup /\ ~closed =>
        /\ inflight = Len(queue) + Cardinality(BusySet)
        /\ Wedged /\ Workers # {} => ThreadGoesOn \/ hung # {}

\* A step that touches neither the queue nor the threads nor the count.
LEMMA CountFrame ==
    ASSUME CountInv, UNCHANGED <<queue, running, inflight, gaveup, closed>> PROVE CountInv'
<1>1. BusySet' = BusySet
  BY Zenon DEF BusySet
<1>2. QED
  BY <1>1, Zenon DEF CountInv

LEMMA CountStep ==
    ASSUME IsFiniteSet(Workers), Size \in Nat, PoolInv, CountInv, [PoolNext]_poolVars PROVE CountInv'
<1>1. /\ queue \in Seq(Work) /\ Len(queue) \in Nat
      /\ inflight \in Nat /\ Cardinality(BusySet) \in Nat
  BY BusyFinite DEF PoolInv
<1>2. CASE UNCHANGED poolVars
  BY <1>2, CountFrame, Zenon DEF poolVars
<1>3. ASSUME NEW r \in Requests, BatchedGet(r) \/ Gather(r) PROVE CountInv'
  BY <1>3, CountFrame, Zenon DEF BatchedGet, Gather
<1>4. ASSUME NEW r \in Requests, Run(r) PROVE CountInv'
  <2>1. /\ queue' = Append(queue, NextItem(r)) /\ inflight' = inflight + 1
        /\ UNCHANGED <<running, gaveup, closed>>
    BY <1>4, Zenon DEF Run
  <2>2. BusySet' = BusySet
    BY <2>1, Zenon DEF BusySet
  <2>3. NextItem(r) \in Work /\ NextItem(r) # Void
    <3>1. NextItem(r)[1] = r /\ Void[1] = "none"
      BY DEF NextItem, Void, None
    <3>2. QED
      BY <3>1, NextIsWork, RequestsAssumption, Zenon
  <2>4. /\ Len(queue') = Len(queue) + 1 /\ queue'[Len(queue) + 1] = NextItem(r)
        /\ \A n \in 1 .. Len(queue) : queue'[n] = queue[n]
    BY <1>1, <2>1, <2>3
  <2>5. \A n \in 1 .. Len(queue') : n \in 1 .. Len(queue) \/ n = Len(queue) + 1
    BY <1>1, <2>4
  <2>6. ASSUME ~gaveup, ~closed PROVE inflight' = Len(queue') + Cardinality(BusySet')
    BY <1>1, <2>1, <2>2, <2>4, <2>6 DEF CountInv
  <2>7. ASSUME ~gaveup, ~closed, NEW n \in 1 .. Len(queue') PROVE queue'[n] # Void
    BY <2>3, <2>4, <2>5, <2>7, Zenon DEF CountInv
  <2>8. Void' = Void
    BY Zenon DEF Void, None
  <2>9. QED
    BY <2>1, <2>6, <2>7, <2>8, Zenon DEF CountInv
<1>5. ASSUME NEW r \in Requests, Refuse(r) PROVE CountInv'
  <2>1. CASE closed
    BY <1>5, <2>1, Zenon DEF Refuse, CountInv
  <2>2. CASE ~closed
    BY <1>5, <2>2, CountFrame, Zenon DEF Refuse
  <2>3. QED
    BY <2>1, <2>2, Zenon
<1>6. ASSUME NEW r \in Requests, Cancel(r) PROVE CountInv'
  BY <1>6, Zenon DEF Cancel, CountInv
<1>7. ASSUME Close PROVE CountInv'
  BY <1>7, Zenon DEF Close, CountInv
<1>8. ASSUME NEW w \in Workers, Start(w) PROVE CountInv'
  <2> SUFFICES ASSUME ~gaveup', ~closed'
               PROVE  /\ inflight' = Len(queue') + Cardinality(BusySet')
                      /\ \A n \in 1 .. Len(queue') : queue'[n] # Void
    BY Zenon DEF CountInv, Void, None
  <2>1. /\ running[w] = <<>> /\ queue # <<>> /\ queue' = Tail(queue) /\ ~gaveup /\ ~closed
        /\ Head(queue) # Void => running' = [running EXCEPT ![w] = Head(queue)]
        /\ inflight' = inflight
    BY <1>8, Zenon DEF Start, Busy, Idle
  <2>2. /\ Head(queue) \in Work /\ Head(queue) = queue[1] /\ 1 \in 1 .. Len(queue)
        /\ Len(queue') = Len(queue) - 1
        /\ \A n \in 1 .. Len(queue') : n + 1 \in 1 .. Len(queue) /\ queue'[n] = queue[n + 1]
    BY <1>1, <2>1
  <2>3. Head(queue) # Void
    BY <2>1, <2>2, Zenon DEF CountInv
  <2>4. Cardinality(BusySet') = Cardinality(BusySet) + 1
    BY <2>1, <2>2, <2>3, BusyMore, Zenon
  <2>5. inflight' = Len(queue') + Cardinality(BusySet')
    BY <1>1, <2>1, <2>2, <2>4 DEF CountInv
  <2>6. \A n \in 1 .. Len(queue') : queue'[n] # Void
    BY <2>1, <2>2, Zenon DEF CountInv
  <2>7. QED
    BY <2>5, <2>6, Zenon
<1>9. ASSUME NEW w \in Workers, Finish(w) PROVE CountInv'
  <2>1. /\ running[w] # <<>> /\ running' = [running EXCEPT ![w] = <<>>]
        /\ inflight' = inflight - 1 /\ UNCHANGED <<queue, gaveup, closed>>
    BY <1>9, Zenon DEF Finish, Busy, Idle, Completed
  <2>2. Cardinality(BusySet') = Cardinality(BusySet) - 1
    BY <2>1, BusyLess, Zenon
  <2>3. ASSUME ~gaveup, ~closed PROVE inflight' = Len(queue') + Cardinality(BusySet')
    BY <1>1, <2>1, <2>2, <2>3 DEF CountInv
  <2>4. QED
    BY <2>1, <2>3, Zenon DEF CountInv
<1>10. ASSUME NEW w \in Workers, Hang(w) PROVE CountInv'
  BY <1>10, CountFrame, Zenon DEF Hang
<1>11. ASSUME Tick PROVE CountInv'
  BY <1>11, CountFrame, Zenon DEF Tick
<1>12. QED
  BY <1>2, <1>3, <1>4, <1>5, <1>6, <1>7, <1>8, <1>9, <1>10, <1>11, Zenon DEF PoolNext, LoopStep

\* The detector is right about an open pool whose callers wait: _inflight is exactly
\* the work queued and running, so _run refuses only with work in the pool, and
\* while it does a thread takes an item or ends a call, which resets _last_done,
\* unless a call hangs.  For any callers, batch sizes, threads and stall
\* threshold; the safety half of LoadIsNotWedge.
THEOREM WedgeIsWork == PoolSpec => []WedgedByWork
<1> USE WorkersAssumption, SizeAssumption, StallAssumption
<1>1. PoolInit => CountInv
  <2> SUFFICES ASSUME PoolInit PROVE CountInv
    BY Zenon
  <2>1. BusySet = {}
    BY Zenon DEF PoolInit, Idle, BusySet
  <2>2. Cardinality(BusySet) = 0
    BY <2>1, FS_EmptySet, Zenon
  <2>3. Len(queue) = 0 /\ inflight = 0 /\ \A n \in 1 .. 0 : FALSE
    BY DEF PoolInit
  <2>4. inflight = Len(queue) + Cardinality(BusySet)
    BY <2>2, <2>3
  <2>5. QED
    BY <2>3, <2>4, Zenon DEF CountInv
<1>2. PoolInv /\ CountInv /\ [PoolNext]_poolVars => CountInv'
  BY CountStep, Zenon
<1>3. PoolInv /\ CountInv => WedgedByWork
  <2> SUFFICES ASSUME PoolInv, CountInv, ~gaveup, ~closed, Wedged, Workers # {}
               PROVE  ThreadGoesOn \/ hung # {}
    BY Zenon DEF WedgedByWork, CountInv
  <2>1. Cardinality(Workers) \in Nat /\ Cardinality(Workers) # 0
    BY FS_CardinalityType, FS_EmptySet, Zenon
  <2>2. CASE BusySet # {}
    BY <2>2, Zenon DEF BusySet, ThreadGoesOn, Busy, Idle
  <2>3. CASE BusySet = {}
    <3>1. Cardinality(BusySet) = 0
      BY <2>3, FS_EmptySet, Zenon
    <3>2. inflight = Len(queue) + Cardinality(BusySet) /\ inflight >= Cardinality(Workers)
      BY Zenon DEF CountInv, Wedged
    <3>3. queue # <<>>
      BY <2>1, <3>1, <3>2 DEF PoolInv
    <3>4. QED
      BY <2>3, <3>3, Zenon DEF BusySet, ThreadGoesOn, Busy, Idle
  <2>4. QED
    BY <2>2, <2>3, Zenon
<1>4. QED
  BY <1>1, <1>2, <1>3, PoolAlways, PTL DEF PoolSpec
=============================================================================
