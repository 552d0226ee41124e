------------------------------ MODULE RawObject ------------------------------
(***************************************************************************)
(* The object-API (v3) path of the in-process connector, for one chunk,    *)
(* that is, one dkey.  Every layer of the chunk has a payload akey and a   *)
(* metadata akey; the metadata akey is the commit record.  A put writes    *)
(* all payload akeys in one RPC and then all metadata akeys in a second,   *)
(* a get fetches metadata, allocates staging buffers, fetches payloads, a  *)
(* remove punches akeys.  Every RPC touches several akeys, which may live  *)
(* on different shards, so its effects land akey by akey, in any order,    *)
(* interleaved with the RPCs of the other clients; it may fail after some  *)
(* of them have landed; the process may die at any point.                  *)
(*                                                                         *)
(* Keys are content-addressed, so a layer has one possible value and a     *)
(* stored akey is a Boolean.  A staging buffer is either written by the    *)
(* payload fetch (filled) or holds whatever memory was there before.       *)
(***************************************************************************)
CONSTANTS
    Layers,     \* the layers of the chunk (one element: whole-chunk mode)
    Clients     \* the threads that call the connector, of any process

VARIABLES
    store,      \* store[a]: akey a holds a value
    pc,         \* pc[c]: the RPC c is waiting for
    args,       \* args[c]: the layers of c's call
    todo,       \* todo[c]: akeys c's RPC has not touched yet
    got,        \* got[c]: layers whose metadata akey c has fetched
    staged,     \* staged[c]: layers c holds a staging buffer for
    filled,     \* filled[c]: staged buffers the payload fetch wrote to
    ret,        \* ret[c]: how c's last call ended
    out,        \* out[c]: the buffers c's last get handed to its caller
    seen,       \* history: layers that may have been stored during c's get
    evicted     \* history: layers a remove has been called for

vars == <<store, pc, args, todo, got, staged, filled, ret, out, seen, evicted>>

Payload == {"payload"} \X Layers
Meta == {"meta"} \X Layers
Akeys == Payload \cup Meta

payload_akeys(S) == {"payload"} \X S
meta_akeys(S) == {"meta"} \X S

Putting == {"put_payload", "put_meta"}
Getting == {"get_meta", "get_payload"}
Calls == Putting \cup Getting \cup {"remove"}

TypeOK ==
    /\ store \in [Akeys -> BOOLEAN]
    /\ pc \in [Clients -> Calls \cup {"idle"}]
    /\ args \in [Clients -> SUBSET Layers]
    /\ todo \in [Clients -> SUBSET Akeys]
    /\ got \in [Clients -> SUBSET Layers]
    /\ staged \in [Clients -> SUBSET Layers]
    /\ filled \in [Clients -> SUBSET Layers]
    /\ ret \in [Clients -> {"none", "ok", "raise", "yes", "no"}]
    /\ out \in [Clients -> SUBSET (Layers \X {"stored", "garbage"})]
    /\ seen \in [Clients -> SUBSET Layers]
    /\ evicted \subseteq Layers

Init ==
    /\ store = [a \in Akeys |-> FALSE]
    /\ pc = [c \in Clients |-> "idle"]
    /\ args = [c \in Clients |-> {}]
    /\ todo = [c \in Clients |-> {}]
    /\ got = [c \in Clients |-> {}]
    /\ staged = [c \in Clients |-> {}]
    /\ filled = [c \in Clients |-> {}]
    /\ ret = [c \in Clients |-> "none"]
    /\ out = [c \in Clients |-> {}]
    /\ seen = [c \in Clients |-> {}]
    /\ evicted = {}

\* A layer a reader can find, and whose payload is there.
Committed(l) == store[<<"meta", l>>] /\ store[<<"payload", l>>]

\* The layers that are stored, or that some client is storing.
Maybe ==
    {l \in Layers : \/ store[<<"payload", l>>]
                    \/ \E c \in Clients : pc[c] \in Putting /\ l \in args[c]}
-----------------------------------------------------------------------------
(* One RPC: Call issues it, Return ends the connector call it belongs to.  *)

Rpc(c, kind, akeys) ==
    /\ pc' = [pc EXCEPT ![c] = kind]
    /\ todo' = [todo EXCEPT ![c] = akeys]

Return(c, how) ==
    /\ pc' = [pc EXCEPT ![c] = "idle"]
    /\ args' = [args EXCEPT ![c] = {}]
    /\ todo' = [todo EXCEPT ![c] = {}]
    /\ got' = [got EXCEPT ![c] = {}]
    /\ filled' = [filled EXCEPT ![c] = {}]
    /\ seen' = [seen EXCEPT ![c] = {}]
    /\ ret' = [ret EXCEPT ![c] = how]

\* update() of one akey reaches its shard.
Update(c, a) ==
    /\ pc[c] \in Putting
    /\ a \in todo[c]
    /\ store' = [store EXCEPT ![a] = TRUE]
    /\ todo' = [todo EXCEPT ![c] = @ \ {a}]
    /\ UNCHANGED <<pc, args, got, staged, filled, ret, out, seen, evicted>>

\* fetch() of one metadata akey: zero bytes when the akey is not there.
FetchMeta(c, l) ==
    /\ pc[c] = "get_meta"
    /\ <<"meta", l>> \in todo[c]
    /\ got' = [got EXCEPT ![c] = IF store[<<"meta", l>>] THEN @ \cup {l} ELSE @]
    /\ todo' = [todo EXCEPT ![c] = @ \ {<<"meta", l>>}]
    /\ UNCHANGED <<store, pc, args, staged, filled, ret, out, seen, evicted>>

\* fetch() of one payload akey: an absent akey leaves the buffer untouched.
FetchPayload(c, l) ==
    /\ pc[c] = "get_payload"
    /\ <<"payload", l>> \in todo[c]
    /\ filled' = [filled EXCEPT ![c] = IF store[<<"payload", l>>] THEN @ \cup {l} ELSE @]
    /\ todo' = [todo EXCEPT ![c] = @ \ {<<"payload", l>>}]
    /\ UNCHANGED <<store, pc, args, got, staged, ret, out, seen, evicted>>

\* punch of one akey.
Punch(c, a) ==
    /\ pc[c] = "remove"
    /\ a \in todo[c]
    /\ store' = [store EXCEPT ![a] = FALSE]
    /\ todo' = [todo EXCEPT ![c] = @ \ {a}]
    /\ UNCHANGED <<pc, args, got, staged, filled, ret, out, seen, evicted>>
-----------------------------------------------------------------------------
(* put / batched_put: payload akeys first, metadata akeys last.            *)

\* Fault: payload and metadata akeys in one update.
PutCall_OneUpdate(c, S) ==
    /\ pc[c] = "idle"
    /\ Rpc(c, "put_payload", payload_akeys(S) \cup meta_akeys(S))
    /\ args' = [args EXCEPT ![c] = S]
    /\ ret' = [ret EXCEPT ![c] = "none"]
    /\ seen' = [d \in Clients |-> IF pc[d] \in Getting THEN seen[d] \cup S ELSE seen[d]]
    /\ UNCHANGED <<store, got, staged, filled, out, evicted>>

\* _put_raw (one layer) and _put_raw_folded (the layers of a batch).
PutCall(c, S) ==
    /\ pc[c] = "idle"
    /\ Rpc(c, "put_payload", payload_akeys(S))
    /\ args' = [args EXCEPT ![c] = S]
    /\ ret' = [ret EXCEPT ![c] = "none"]
    /\ seen' = [d \in Clients |-> IF pc[d] \in Getting THEN seen[d] \cup S ELSE seen[d]]
    /\ UNCHANGED <<store, got, staged, filled, out, evicted>>

PutPayloadDone(c) ==
    /\ pc[c] = "put_payload"
    /\ todo[c] = {}
    /\ Rpc(c, "put_meta", meta_akeys(args[c]))
    /\ UNCHANGED <<store, args, got, staged, filled, ret, out, seen, evicted>>

PutMetaDone(c) ==
    /\ pc[c] = "put_meta"
    /\ todo[c] = {}
    /\ Return(c, "ok")
    /\ UNCHANGED <<store, staged, out, evicted>>
-----------------------------------------------------------------------------
(* get / batched_get: metadata, allocate, payload, release what is short.  *)

GetCall(c, S) ==
    /\ pc[c] = "idle"
    /\ Rpc(c, "get_meta", meta_akeys(S))
    /\ args' = [args EXCEPT ![c] = S]
    /\ got' = [got EXCEPT ![c] = {}]
    /\ staged' = [staged EXCEPT ![c] = {}]
    /\ filled' = [filled EXCEPT ![c] = {}]
    /\ out' = [out EXCEPT ![c] = {}]
    /\ ret' = [ret EXCEPT ![c] = "none"]
    /\ seen' = [seen EXCEPT ![c] = Maybe]
    /\ UNCHANGED <<store, evicted>>

\* Allocation may fail for any of the layers found; a layer without a buffer
\* is a miss, and with none left the get returns at once.
GetMetaDone(c) ==
    /\ pc[c] = "get_meta"
    /\ todo[c] = {}
    /\ \E A \in SUBSET got[c] :
          /\ staged' = [staged EXCEPT ![c] = A]
          /\ \/ A = {} /\ Return(c, "ok")
             \/ /\ A # {}
                /\ Rpc(c, "get_payload", payload_akeys(A))
                /\ UNCHANGED <<args, got, filled, ret, seen>>
    /\ UNCHANGED <<store, out, evicted>>

\* Fault: trust iov_len, which an absent akey leaves as the caller set it.
FullLength_Ungated(c, l) == l \in staged[c]

\* fetch() returned the full length: gated on sg_nr_out, not on iov_len.
FullLength(c, l) == l \in filled[c]

\* What the caller finds in the buffer of layer l.
Content(c, l) == IF l \in filled[c] THEN "stored" ELSE "garbage"

GetPayloadDone(c) ==
    /\ pc[c] = "get_payload"
    /\ todo[c] = {}
    /\ LET whole == {l \in staged[c] : FullLength(c, l)}
       IN  /\ staged' = [staged EXCEPT ![c] = whole]
           /\ out' = [out EXCEPT ![c] = {<<l, Content(c, l)>> : l \in whole}]
    /\ Return(c, "ok")
    /\ UNCHANGED <<store, evicted>>
-----------------------------------------------------------------------------
(* exists, remove.                                                         *)

Exists(c, l) ==
    /\ pc[c] = "idle"
    /\ ret' = [ret EXCEPT ![c] = IF store[<<"meta", l>>] THEN "yes" ELSE "no"]
    /\ UNCHANGED <<store, pc, args, todo, got, staged, filled, out, seen, evicted>>

\* Fault: a layer key punches the whole dkey.
RemoveCall_Dkey(c, S) ==
    /\ pc[c] = "idle"
    /\ S = Layers \/ \E l \in Layers : S = {l}
    /\ Rpc(c, "remove", Akeys)
    /\ args' = [args EXCEPT ![c] = S]
    /\ ret' = [ret EXCEPT ![c] = "none"]
    /\ evicted' = evicted \cup S
    /\ UNCHANGED <<store, got, staged, filled, out, seen>>

\* A layer key punches its own two akeys, a chunk key the whole dkey.
RemoveCall(c, S) ==
    /\ pc[c] = "idle"
    /\ S = Layers \/ \E l \in Layers : S = {l}
    /\ Rpc(c, "remove", payload_akeys(S) \cup meta_akeys(S))
    /\ args' = [args EXCEPT ![c] = S]
    /\ ret' = [ret EXCEPT ![c] = "none"]
    /\ evicted' = evicted \cup S
    /\ UNCHANGED <<store, got, staged, filled, out, seen>>

RemoveDone(c) ==
    /\ pc[c] = "remove"
    /\ todo[c] = {}
    /\ Return(c, "ok")
    /\ UNCHANGED <<store, staged, out, evicted>>
-----------------------------------------------------------------------------
(* Failures.                                                               *)

\* Fault: the staging buffers are not given back.
RpcFail_KeepsBuffers(c) ==
    /\ pc[c] \in Calls
    /\ Return(c, "raise")
    /\ staged' = [staged EXCEPT ![c] = @]
    /\ UNCHANGED <<store, out, evicted>>

\* The RPC raises after any part of it has landed.  A get gives its staging
\* buffers back before the exception leaves it.
RpcFail(c) ==
    /\ pc[c] \in Calls
    /\ Return(c, "raise")
    /\ staged' = [staged EXCEPT ![c] = IF pc[c] \in Getting THEN {} ELSE @]
    /\ UNCHANGED <<store, out, evicted>>

\* The process dies in the middle of a call, and starts again.
Crash(c) ==
    /\ pc[c] \in Calls
    /\ Return(c, "none")
    /\ staged' = [staged EXCEPT ![c] = {}]
    /\ out' = [out EXCEPT ![c] = {}]
    /\ UNCHANGED <<store, evicted>>

Call(c) ==
    \/ \E S \in SUBSET Layers \ {{}} : PutCall(c, S) \/ GetCall(c, S) \/ RemoveCall(c, S)
    \/ \E l \in Layers : Exists(c, l)

Land(c) ==
    \/ \E a \in Akeys : Update(c, a) \/ Punch(c, a)
    \/ \E l \in Layers : FetchMeta(c, l) \/ FetchPayload(c, l)

Done(c) ==
    PutPayloadDone(c) \/ PutMetaDone(c) \/ GetMetaDone(c) \/ GetPayloadDone(c) \/ RemoveDone(c)

Next == \E c \in Clients : Call(c) \/ Land(c) \/ Done(c) \/ RpcFail(c) \/ Crash(c)

Spec == Init /\ [][Next]_vars
-----------------------------------------------------------------------------
(* Properties.                                                             *)

\* The metadata akey is the commit record (_put_raw, _exists_sync): a layer
\* that was never evicted has its payload when its metadata is present,
\* whatever puts overlap, fail halfway or die, and whatever happens to its
\* siblings.
CommitRecord ==
    \A l \in Layers \ evicted : store[<<"meta", l>>] => store[<<"payload", l>>]

\* Buffer discipline of _get_raw and _get_raw_folded: a get that is over
\* holds exactly the staging buffers it handed to its caller, on the short
\* payload path, the raising path and the allocation failure path alike.
NoBufferLeak == \A c \in Clients : pc[c] = "idle" => staged[c] = {m[1] : m \in out[c]}

\* A put that returns has committed every layer of its batch that was never
\* evicted, although other puts of the same layers fail and die around it
\* (batched_put returns only after both updates).
PutCommits ==
    [][\A c \in Clients :
          pc[c] = "put_meta" /\ ret'[c] = "ok" => \A l \in args[c] \ evicted : Committed(l)]_vars

\* Evicting one layer of a chunk leaves its siblings alone (_remove_one): a
\* committed layer stays committed unless a remove in progress names it.
StoredStays ==
    [][\A l \in Layers :
          /\ Committed(l)
          /\ ~\E c \in Clients : pc[c] = "remove" /\ l \in args[c]
          => Committed(l)']_vars

\* The path keeps the connector's promise to its caller: a get never hands
\* back a buffer no put filled, and never a layer that was not stored or being
\* stored at some moment of the call.
Contract == INSTANCE KvContract WITH
    Keys <- Layers,
    maybe <- Maybe,
    open <- [c \in Clients |-> pc[c] \in Getting],
    asked <- [c \in Clients |-> IF pc[c] \in Getting THEN args[c] ELSE {}],
    hits <- out
ContractSpec == Contract!Spec
=============================================================================
