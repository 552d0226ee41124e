--------------------------- MODULE DfsObjectProofs ---------------------------
(***************************************************************************)
(* Proofs about the DFS path, for any clients, values and payload sizes.   *)
(***************************************************************************)
EXTENDS DfsObject, TLAPS

\* A put has a value to write until it is over; a get holds its staging buffer
\* from the header to the end of the payload; data is as long as the payload.
CallInv ==
    /\ span \in Offsets
    /\ data \in [Offsets -> Values \cup {Hole}]
    /\ pc \in [Clients -> Writing \cup Reading \cup {"idle"}]
    /\ value \in [Clients -> Values \cup {Hole}]
    /\ staged \in [Clients -> BOOLEAN]
    /\ raised \in [Clients -> BOOLEAN]
    /\ out \in [Clients -> SUBSET ({Key} \X Contents)]
    /\ \A c \in Clients :
         /\ pc[c] \in Writing => value[c] \in Values
         /\ pc[c] = "get_header"  => ~staged[c] /\ out[c] = {} /\ ~raised[c]
         /\ pc[c] = "get_payload" => staged[c] /\ out[c] = {} /\ ~raised[c]
         /\ pc[c] \notin Reading /\ ~raised[c] => (staged[c] <=> out[c] # {})

\* The steps of Next, one fact per call.
LEMMA NextSplit ==
    ASSUME Next
    PROVE  \E c \in Clients :
             \/ \E v \in Values : PutOpen(c, v)
             \/ PutHeader(c) \/ PutDone(c)
             \/ \E i \in Offsets : PutChunk(c, i) \/ GetChunk(c, i)
             \/ GetOpen(c) \/ GetHeader(c) \/ GetDone(c)
             \/ Remove(c) \/ Raise(c) \/ Crash(c)
  BY Zenon DEF Next, Put, Get

LEMMA CallStep == ASSUME CallInv, [Next]_vars PROVE CallInv'
<1> USE DEF CallInv, Writing, Reading
<1>1. ASSUME NEW c \in Clients, NEW v \in Values, PutOpen(c, v) PROVE CallInv'
  BY <1>1, Zenon DEF PutOpen
<1>2. ASSUME NEW c \in Clients, PutHeader(c) PROVE CallInv'
  BY <1>2, Zenon DEF PutHeader
<1>3. ASSUME NEW c \in Clients, PutDone(c) PROVE CallInv'
  BY <1>3, Zenon DEF PutDone, Close
<1>4. ASSUME NEW c \in Clients, NEW i \in Offsets, PutChunk(c, i) PROVE CallInv'
  BY <1>4, Zenon DEF PutChunk
<1>5. ASSUME NEW c \in Clients, NEW i \in Offsets, GetChunk(c, i) PROVE CallInv'
  BY <1>5, Zenon DEF GetChunk
<1>6. ASSUME NEW c \in Clients, GetOpen(c) PROVE CallInv'
  BY <1>6, Zenon DEF GetOpen
<1>7. ASSUME NEW c \in Clients, GetHeader(c) PROVE CallInv'
  <2>1. CASE pc'[c] = "idle"
    <3>1. pc' = [pc EXCEPT ![c] = "idle"] /\ UNCHANGED <<staged, out, raised, data, span>>
      BY <1>7, <2>1, Zenon DEF GetHeader, Close
    <3>2. value' = [value EXCEPT ![c] = Hole]
      BY <1>7, <2>1, Zenon DEF GetHeader, Close
    <3>3. ~staged[c] /\ out[c] = {}
      BY <1>7, Zenon DEF GetHeader
    <3>4. QED
      BY <3>1, <3>2, <3>3, Zenon
  <2>2. CASE pc'[c] # "idle"
    <3>1. /\ pc' = [pc EXCEPT ![c] = "get_payload"] /\ staged' = [staged EXCEPT ![c] = TRUE]
          /\ UNCHANGED <<out, raised, data, span, value>>
      BY <1>7, <2>2, Zenon DEF GetHeader, Close
    <3>2. ~raised[c] /\ out[c] = {}
      BY <1>7, Zenon DEF GetHeader
    <3>3. QED
      BY <3>1, <3>2, Zenon
  <2>3. QED
    BY <2>1, <2>2, Zenon
<1>8. ASSUME NEW c \in Clients, GetDone(c) PROVE CallInv'
  <2>1. <<Key, Content(buffer[c])>> \in {Key} \X Contents
    BY Zenon DEF Content, Contents
  <2>2. FullLength(buffer[c]) \in BOOLEAN
    BY Zenon DEF FullLength
  <2>3. QED
    BY <1>8, <2>1, <2>2, Zenon DEF GetDone, Close
<1>9. ASSUME NEW c \in Clients, Remove(c) PROVE CallInv'
  BY <1>9, Zenon DEF Remove, Empty
<1>10. ASSUME NEW c \in Clients, Raise(c) PROVE CallInv'
  BY <1>10, Zenon DEF Raise, Close
<1>11. ASSUME NEW c \in Clients, Crash(c) PROVE CallInv'
  BY <1>11, Zenon DEF Crash, Close
<1>12. CASE UNCHANGED vars
  BY <1>12, Zenon DEF vars
<1>13. QED
  BY <1>1, <1>2, <1>3, <1>4, <1>5, <1>6, <1>7, <1>8, <1>9, <1>10, <1>11, <1>12, NextSplit, Zenon

LEMMA CallInvHolds == Spec => []CallInv
<1>1. Init => CallInv
  BY Zenon DEF Init, CallInv, Empty, Writing, Reading
<1>2. CallInv /\ [Next]_vars => CallInv'
  BY CallStep, Zenon
<1>3. QED
  BY <1>1, <1>2, PTL DEF Spec

\* No step but a remove takes a chunk or the header away.
LEMMA StayStep == ASSUME CallInv, [Next]_vars, Complete, entry' PROVE Complete'
<1>1. CASE UNCHANGED <<span, data, header>>
  BY <1>1, Zenon DEF Complete
<1>2. ASSUME NEW c \in Clients, NEW i \in Offsets, PutChunk(c, i) PROVE Complete'
  <2>1. UNCHANGED <<span, header>> /\ \A j \in Offsets : data'[j] \in {data[j], value[c]}
    BY <1>2, Zenon DEF PutChunk, CallInv
  <2>2. value[c] # Hole
    BY <1>2, ValuesAssumption, Zenon DEF PutChunk, CallInv, Writing
  <2>3. 1 .. span \subseteq Offsets
    BY ChunksAssumption DEF CallInv, Offsets
  <2>4. QED
    BY <2>1, <2>2, <2>3, Zenon DEF Complete
<1>3. ASSUME NEW c \in Clients, PutHeader(c) PROVE Complete'
  BY <1>3, Zenon DEF PutHeader, Complete
<1>4. QED
  BY <1>1, <1>2, <1>3, NextSplit, ZenonT(30) DEF vars, PutOpen, PutDone, GetChunk, GetOpen, GetHeader, GetDone, Remove, Raise,
     Crash

\* Storing a key again is harmless: a complete object stays complete until it
\* is removed, for any number of overlapping, failing or dying writers.
THEOREM CompleteKept == Spec => CompleteStays
<1>1. CallInv /\ [Next]_vars => [Complete /\ entry' => Complete']_vars
  BY StayStep, Zenon
<1>2. QED
  BY <1>1, CallInvHolds, PTL DEF Spec, CompleteStays

\* A get that has returned holds a staging buffer iff it handed it over.
THEOREM BuffersReturned == Spec => []NoBufferLeak
<1>1. CallInv => NoBufferLeak
  BY Zenon DEF CallInv, NoBufferLeak, Reading
<1>2. QED
  BY <1>1, CallInvHolds, PTL
-----------------------------------------------------------------------------
(* The DFS path implements the connector's contract.                       *)

\* The state functions the contract's variables stand for.
Open == [c \in Clients |-> pc[c] \in Reading]
Asked == [c \in Clients |-> IF pc[c] \in Reading THEN {Key} ELSE {}]
Hits == [c \in Clients |-> {hit \in out[c] : span = 1 \/ hit[2] = "stored"}]

\* A get has seen the key if it is stored or being stored, and if the get has
\* read a chunk of it, which may be gone by now.
SeenInv ==
    /\ seen \in [Clients -> SUBSET {Key}]
    /\ buffer \in [Clients -> [Offsets -> Values \cup {Hole}]]
    /\ \A c \in Clients :
         /\ pc[c] \notin Reading => seen[c] = {} /\ buffer[c] = Empty
         /\ pc[c] \in Reading => /\ Maybe \subseteq seen[c]
                                 /\ (\E i \in Offsets : buffer[c][i] # Hole) => Key \in seen[c]

\* Only a put that begins makes the key possibly stored.
LEMMA MaybeShrinks ==
    ASSUME \A i \in Offsets : data'[i] # Hole => data[i] # Hole \/ \E c \in Clients : pc[c] \in Writing,
           \A c \in Clients : pc'[c] \in Writing => pc[c] \in Writing
    PROVE  Maybe' \subseteq Maybe
  BY Zenon DEF Maybe

\* How one client's call leaves the mapping.
LEMMA OpenOf ==
    ASSUME NEW c \in Clients, NEW b \in BOOLEAN, (pc'[c] \in Reading) <=> b,
           \A d \in Clients \ {c} : pc'[d] = pc[d]
    PROVE  Open' = [Open EXCEPT ![c] = b]
<1>1. \A d \in Clients : (pc'[d] \in Reading) = (IF d = c THEN b ELSE pc[d] \in Reading)
  <2> TAKE d \in Clients
  <2>1. CASE d = c /\ b
    BY <2>1, Zenon
  <2>2. CASE d = c /\ ~b
    BY <2>2, Zenon
  <2>3. CASE d # c
    <3>1. pc'[d] = pc[d]
      BY <2>3, Zenon
    <3>2. QED
      BY <2>3, <3>1, Zenon
  <2>4. QED
    BY <2>1, <2>2, <2>3, Zenon
<1>2. Open' = [d \in Clients |-> IF d = c THEN b ELSE pc[d] \in Reading]
  BY <1>1, Zenon DEF Open
<1>3. [Open EXCEPT ![c] = b] = [d \in Clients |-> IF d = c THEN b ELSE pc[d] \in Reading]
  BY Zenon DEF Open
<1>4. QED
  BY <1>2, <1>3, Zenon

LEMMA OpenSame ==
    ASSUME \A c \in Clients : (pc'[c] \in Reading) <=> (pc[c] \in Reading) PROVE Open' = Open
<1>1. \A c \in Clients : (pc'[c] \in Reading) = (pc[c] \in Reading)
  OBVIOUS
<1>2. QED
  BY <1>1, Zenon DEF Open

LEMMA LoseStep ==
    ASSUME \A c \in Clients : (pc'[c] \in Reading) <=> (pc[c] \in Reading),
           Maybe' \subseteq Maybe, seen' = seen, out' = out, span' = span
    PROVE  Contract!Next
<1>1. Maybe \ Maybe' \in SUBSET {Key}
  BY Zenon DEF Maybe
<1>2. Open' = Open /\ Asked' = Asked /\ Hits' = Hits
  BY OpenSame, Zenon DEF Asked, Hits
<1>3. Contract!Lose(Maybe \ Maybe')
  BY <1>2, Zenon DEF Contract!Lose, Open, Asked, Hits
<1>4. QED
  BY <1>1, <1>3, Zenon DEF Contract!Next

LEMMA AnswerStep ==
    ASSUME CallInv, NEW c \in Clients, pc[c] \in Reading, Close(c), UNCHANGED <<data, span>>,
           NEW H \in SUBSET seen[c], H \subseteq {Key}, Hits' = [Hits EXCEPT ![c] = H \X {"stored"}]
    PROVE  Contract!Next
<1>1. pc'[c] = "idle" /\ \A d \in Clients \ {c} : pc'[d] = pc[d]
  BY Zenon DEF CallInv, Close
<1>2. Open' = [Open EXCEPT ![c] = FALSE]
  BY <1>1, OpenOf, Zenon DEF Reading
<1>3. Asked' = [Asked EXCEPT ![c] = {}] /\ Asked[c] = {Key}
  BY <1>1, Zenon DEF Asked, Reading
<1>4. Maybe' = Maybe
  BY <1>1, Zenon DEF Maybe, Reading, Writing
<1>5. Contract!Answer(c, H)
  BY <1>2, <1>3, <1>4, Zenon DEF Contract!Answer, Open, Asked, Hits, Close
<1>6. QED
  BY <1>5, Zenon DEF Contract!Next

LEMMA SeenStep == ASSUME CallInv, SeenInv, [Next]_vars PROVE SeenInv'
<1>1. /\ pc \in [Clients -> Writing \cup Reading \cup {"idle"}]
      /\ seen \in [Clients -> SUBSET {Key}]
      /\ data \in [Offsets -> Values \cup {Hole}]
      /\ buffer \in [Clients -> [Offsets -> Values \cup {Hole}]]
  BY Zenon DEF CallInv, SeenInv
\* A client returns, or goes on in its get, or in its put.
<1>2. ASSUME Maybe' \subseteq Maybe,
             seen' \in [Clients -> SUBSET {Key}], buffer' \in [Clients -> [Offsets -> Values \cup {Hole}]],
             \A c \in Clients :
               \/ pc'[c] \notin Reading /\ seen'[c] = {} /\ buffer'[c] = Empty
               \/ /\ pc'[c] \in Reading /\ pc[c] \in Reading /\ seen'[c] = seen[c]
                  /\ buffer'[c] = buffer[c]
      PROVE  SeenInv'
  BY <1>2, Zenon DEF SeenInv
<1>3. ASSUME NEW c \in Clients, NEW v \in Values, PutOpen(c, v) PROVE SeenInv'
  BY <1>1, <1>3, Zenon DEF PutOpen, SeenInv, Maybe, Reading, Writing
<1>4. ASSUME NEW c \in Clients, PutHeader(c) PROVE SeenInv'
  BY <1>1, <1>2, <1>4, MaybeShrinks, Zenon DEF PutHeader, SeenInv, Reading, Writing
<1>5. ASSUME NEW c \in Clients, NEW i \in Offsets, PutChunk(c, i) PROVE SeenInv'
  <2>1. Maybe' \subseteq Maybe
    BY <1>1, <1>5, MaybeShrinks, Zenon DEF PutChunk, Writing
  <2>2. QED
    BY <1>1, <1>2, <1>5, <2>1, Zenon DEF PutChunk, SeenInv
<1>6. ASSUME NEW c \in Clients, Close(c), data' = data PROVE SeenInv'
  <2>1. Maybe' \subseteq Maybe
    BY <1>1, <1>6, MaybeShrinks, Zenon DEF Close, Writing
  <2>2. Empty \in [Offsets -> Values \cup {Hole}]
    BY Zenon DEF Empty
  <2>3. QED
    BY <1>1, <1>2, <1>6, <2>1, <2>2, Zenon DEF Close, SeenInv, Reading
<1>7. ASSUME NEW c \in Clients, GetOpen(c) PROVE SeenInv'
  <2>1. CASE ~entry
    BY <1>7, <2>1, Zenon DEF GetOpen, SeenInv, Maybe
  <2>2. CASE entry
    <3>1. /\ pc[c] = "idle" /\ pc' = [pc EXCEPT ![c] = "get_header"] /\ seen' = [seen EXCEPT ![c] = Maybe]
          /\ data' = data /\ buffer' = buffer
      BY <1>7, <2>2, Zenon DEF GetOpen
    <3>2. Maybe' \subseteq Maybe /\ Maybe \subseteq {Key}
      BY <1>1, <3>1, MaybeShrinks, Zenon DEF Writing, Maybe
    <3>3. \A i \in Offsets : buffer[c][i] = Hole
      BY <3>1, Zenon DEF SeenInv, Reading, Empty
    <3>4. QED
      BY <1>1, <3>1, <3>2, <3>3, Zenon DEF SeenInv, Reading
  <2>3. QED
    BY <2>1, <2>2, Zenon
<1>8. ASSUME NEW c \in Clients, GetHeader(c) PROVE SeenInv'
  <2>1. CASE Close(c)
    BY <1>6, <1>8, <2>1, Zenon DEF GetHeader
  <2>2. CASE ~Close(c)
    <3>1. pc[c] = "get_header" /\ pc' = [pc EXCEPT ![c] = "get_payload"] /\ UNCHANGED <<data, buffer, seen>>
      BY <1>8, <2>2, Zenon DEF GetHeader
    <3>2. Maybe' \subseteq Maybe
      BY <1>1, <3>1, MaybeShrinks, Zenon DEF Writing
    <3>3. QED
      BY <1>1, <1>2, <3>1, <3>2, Zenon DEF SeenInv, Reading
  <2>3. QED
    BY <2>1, <2>2, Zenon
<1>9. ASSUME NEW c \in Clients, NEW i \in Offsets, GetChunk(c, i) PROVE SeenInv'
  <2>1. /\ pc[c] = "get_payload" /\ UNCHANGED <<pc, data, seen>>
        /\ buffer' = [buffer EXCEPT ![c][i] = IF attached[c] THEN data[i] ELSE Hole]
    BY <1>9, Zenon DEF GetChunk
  <2>2. Maybe' = Maybe
    BY <2>1, Zenon DEF Maybe
  <2>3. data[i] # Hole => Key \in Maybe
    BY Zenon DEF Maybe
  <2>4. \A d \in Clients, j \in Offsets : buffer'[d][j] = buffer[d][j] \/ (d = c /\ buffer'[d][j] \in {data[i], Hole})
    BY <1>1, <2>1, Zenon
  <2>5. buffer' \in [Clients -> [Offsets -> Values \cup {Hole}]]
    BY <1>1, <2>1, Zenon
  <2>6. QED
    BY <2>1, <2>2, <2>3, <2>4, <2>5 DEF SeenInv, Reading
<1>10. ASSUME NEW c \in Clients, Remove(c) PROVE SeenInv'
  <2>1. Maybe' \subseteq Maybe
    BY <1>10, MaybeShrinks, Zenon DEF Remove, Empty
  <2>2. QED
    BY <1>1, <1>2, <1>10, <2>1, Zenon DEF Remove, SeenInv
<1>11. CASE UNCHANGED vars
  BY <1>11, Zenon DEF vars, SeenInv, Maybe
<1>12. QED
  BY <1>3, <1>4, <1>5, <1>6, <1>7, <1>8, <1>9, <1>10, <1>11, NextSplit, Zenon DEF PutDone, GetDone, Raise, Crash

\* A full read of a payload of one chunk is some put's payload.
LEMMA OneChunkStored ==
    ASSUME CallInv, SeenInv, NEW c \in Clients, span = 1, FullLength(buffer[c]) PROVE Content(buffer[c]) = "stored"
<1>1. 1 \in Offsets /\ \A i \in 1 .. span : i = 1
  BY ChunksAssumption DEF Offsets
<1>2. buffer[c][1] # Hole /\ buffer[c][1] \in Values
  BY <1>1 DEF FullLength, SeenInv
<1>3. (\E i \in 1 .. span : buffer[c][i] = Hole) = FALSE
  BY <1>1, <1>2, Zenon
<1>4. \E v \in Values : \A i \in 1 .. span : buffer[c][i] = v
  BY <1>1, <1>2, Zenon
<1>5. QED
  BY <1>3, <1>4, Zenon DEF Content

\* Every step is a step of the contract.
LEMMA MappedStep == ASSUME CallInv, SeenInv, Next PROVE Contract!Next
<1>1. /\ pc \in [Clients -> Writing \cup Reading \cup {"idle"}]
      /\ seen \in [Clients -> SUBSET {Key}]
      /\ out \in [Clients -> SUBSET ({Key} \X Contents)]
      /\ span \in Offsets
  BY Zenon DEF CallInv, SeenInv
<1>2. ASSUME NEW c \in Clients, NEW v \in Values, PutOpen(c, v) PROVE Contract!Next
  <2>1. pc[c] = "idle" /\ pc' = [pc EXCEPT ![c] = "put_header"] /\ UNCHANGED <<data, out, span>>
    BY <1>2, Zenon DEF PutOpen
  <2>2. Open' = Open /\ Asked' = Asked /\ Hits' = Hits
    BY <1>1, <2>1, OpenSame, Zenon DEF Reading, Asked, Hits
  <2>3. Maybe' = Maybe \cup {Key}
    BY <1>1, <2>1, Zenon DEF Maybe, Writing
  <2>4. \A d \in Clients : (IF pc[d] \in Reading THEN {Key} ELSE seen[d])
                           = (IF Open[d] THEN seen[d] \cup {Key} ELSE seen[d])
    BY <1>1, Zenon DEF Open
  <2>5. seen' = [d \in Clients |-> IF Open[d] THEN seen[d] \cup {Key} ELSE seen[d]]
    BY <1>2, <2>4, Zenon DEF PutOpen
  <2>6. Contract!Submit({Key})
    BY <2>2, <2>3, <2>5, Zenon DEF Contract!Submit, Open, Asked, Hits
  <2>7. QED
    BY <2>6, Zenon DEF Contract!Next
<1>3. ASSUME NEW c \in Clients, PutHeader(c) PROVE Contract!Next
  BY <1>1, <1>3, MaybeShrinks, LoseStep, Zenon DEF PutHeader, Reading, Writing
<1>4. ASSUME NEW c \in Clients, NEW i \in Offsets, PutChunk(c, i) PROVE Contract!Next
  BY <1>1, <1>4, MaybeShrinks, LoseStep, Zenon DEF PutChunk, Writing
<1>5. ASSUME NEW c \in Clients, NEW i \in Offsets, GetChunk(c, i) PROVE Contract!Next
  BY <1>1, <1>5, MaybeShrinks, LoseStep, Zenon DEF GetChunk
<1>6. ASSUME NEW c \in Clients, Remove(c) PROVE Contract!Next
  BY <1>1, <1>6, MaybeShrinks, LoseStep, Zenon DEF Remove, Empty
\* A call that is no get returns.
<1>7. ASSUME NEW c \in Clients, pc[c] \notin Reading, Close(c), UNCHANGED <<data, out, span>> PROVE Contract!Next
  <2>1. Maybe' \subseteq Maybe
    BY <1>1, <1>7, MaybeShrinks, Zenon DEF Close, Writing
  <2>2. seen' = seen
    BY <1>1, <1>7, Zenon DEF Close, SeenInv
  <2>3. QED
    BY <1>1, <1>7, <2>1, <2>2, LoseStep, Zenon DEF Close, Reading
\* A get returns with nothing.
<1>8. ASSUME NEW c \in Clients, pc[c] \in Reading, Close(c), UNCHANGED <<data, out, span>> PROVE Contract!Next
  <2>1. {} \X {"stored"} = {}
    BY Zenon
  <2>2. Hits[c] = {}
    BY <1>8, Zenon DEF CallInv, Hits, Reading
  <2>3. PICK H \in SUBSET seen[c] : H = {}
    BY Zenon
  <2>4. Hits' = [Hits EXCEPT ![c] = H \X {"stored"}]
    BY <1>8, <2>1, <2>2, <2>3, Zenon DEF Hits
  <2>5. QED
    BY <1>8, <2>3, <2>4, AnswerStep, Zenon
<1>9. ASSUME NEW c \in Clients, GetOpen(c) PROVE Contract!Next
  <2>1. pc[c] = "idle" /\ out' = [out EXCEPT ![c] = {}] /\ UNCHANGED <<data, span>> /\ seen[c] = {}
    BY <1>9, Zenon DEF GetOpen, SeenInv, Reading
  <2>2. Hits' = [Hits EXCEPT ![c] = {}]
    BY <1>1, <2>1, Zenon DEF Hits
  <2>3. CASE ~entry
    <3>1. pc' = pc /\ seen' = seen
      BY <1>9, <2>3, Zenon DEF GetOpen
    <3>2. PICK P \in SUBSET Clients : P = {c}
      BY Zenon
    <3>3. Open' = Open
      BY <3>1, OpenSame, Zenon
    <3>4. Open = [d \in Clients |-> IF d \in P THEN FALSE ELSE Open[d]]
      <4>1. (pc[c] \in Reading) = FALSE
        BY <2>1 DEF Reading
      <4>2. \A d \in Clients : (pc[d] \in Reading) = (IF d \in P THEN FALSE ELSE pc[d] \in Reading)
        BY <3>2, <4>1, Zenon
      <4>3. QED
        BY <4>2, Zenon DEF Open
    <3>5. /\ Asked' = [d \in Clients |-> IF d \in P THEN {} ELSE Asked[d]]
          /\ seen' = [d \in Clients |-> IF d \in P THEN {} ELSE seen[d]]
      BY <1>1, <2>1, <3>1, <3>2, Zenon DEF Asked, Reading
    <3>6. Hits' = [d \in Clients |-> IF d \in P THEN {} ELSE Hits[d]]
      BY <2>2, <3>2, Zenon DEF Hits
    <3>7. Maybe' = Maybe \ {}
      BY <2>1, <3>1, Zenon DEF Maybe
    <3>8. Contract!Forget(P, {})
      BY <3>3, <3>4, <3>5, <3>6, <3>7, Zenon DEF Contract!Forget, Open, Asked, Hits
    <3>9. QED
      BY <3>8, Zenon DEF Contract!Next
  <2>4. CASE entry
    <3>1. pc' = [pc EXCEPT ![c] = "get_header"] /\ seen' = [seen EXCEPT ![c] = Maybe]
      BY <1>9, <2>4, Zenon DEF GetOpen
    <3>2. Open' = [Open EXCEPT ![c] = TRUE]
      BY <1>1, <3>1, OpenOf, Zenon DEF Reading
    <3>3. Asked' = [Asked EXCEPT ![c] = {Key}] /\ ~Open[c]
      BY <1>1, <2>1, <3>1, Zenon DEF Asked, Open, Reading
    <3>4. Maybe' = Maybe
      BY <1>1, <2>1, <3>1, Zenon DEF Maybe, Writing
    <3>5. Contract!Begin(c, {Key})
      BY <2>2, <3>1, <3>2, <3>3, <3>4, Zenon DEF Contract!Begin, Open, Asked, Hits
    <3>6. QED
      BY <3>5, Zenon DEF Contract!Next
  <2>5. QED
    BY <2>3, <2>4, Zenon
<1>10. ASSUME NEW c \in Clients, GetHeader(c) PROVE Contract!Next
  <2>1. CASE Close(c)
    BY <1>8, <1>10, <2>1, Zenon DEF GetHeader, Reading
  <2>2. CASE ~Close(c)
    <3>1. pc[c] = "get_header" /\ pc' = [pc EXCEPT ![c] = "get_payload"] /\ UNCHANGED <<data, seen, out, span>>
      BY <1>10, <2>2, Zenon DEF GetHeader
    <3>2. QED
      BY <1>1, <3>1, MaybeShrinks, LoseStep, Zenon DEF Reading, Writing
  <2>3. QED
    BY <2>1, <2>2, Zenon
<1>11. ASSUME NEW c \in Clients, GetDone(c) PROVE Contract!Next
  <2>1. /\ pc[c] = "get_payload" /\ Close(c) /\ UNCHANGED <<data, span>>
        /\ out' = [out EXCEPT ![c] = IF FullLength(buffer[c]) THEN {<<Key, Content(buffer[c])>>} ELSE {}]
    BY <1>11, Zenon DEF GetDone
  <2>2. FullLength(buffer[c]) => Key \in seen[c]
    BY <1>1, <2>1, Zenon DEF FullLength, SeenInv, Reading
  <2>3. PICK H \in SUBSET seen[c] :
             H = IF FullLength(buffer[c]) /\ Content(buffer[c]) = "stored" THEN {Key} ELSE {}
    BY <2>2, Zenon
  <2>4. {hit \in (IF FullLength(buffer[c]) THEN {<<Key, Content(buffer[c])>>} ELSE {}) : span = 1 \/ hit[2] = "stored"}
          = H \X {"stored"}
    BY <2>3, OneChunkStored
  <2>5. Hits' = [Hits EXCEPT ![c] = H \X {"stored"}]
    BY <1>1, <2>1, <2>4, Zenon DEF Hits
  <2>6. QED
    BY <2>1, <2>3, <2>5, AnswerStep, Zenon DEF Reading
<1>12. ASSUME NEW c \in Clients, Raise(c) PROVE Contract!Next
  BY <1>7, <1>8, <1>12, Zenon DEF Raise
<1>13. ASSUME NEW c \in Clients, Crash(c) PROVE Contract!Next
  <2>1. /\ pc' = [pc EXCEPT ![c] = "idle"] /\ seen' = [seen EXCEPT ![c] = {}] /\ out' = [out EXCEPT ![c] = {}]
        /\ UNCHANGED <<data, span>>
    BY <1>13, Zenon DEF Crash, Close
  <2>2. PICK P \in SUBSET Clients : P = {c}
    BY Zenon
  <2>3. Open' = [d \in Clients |-> IF d \in P THEN FALSE ELSE Open[d]]
    <3>1. Open' = [Open EXCEPT ![c] = FALSE]
      BY <1>1, <2>1, OpenOf, Zenon DEF Reading
    <3>2. QED
      BY <2>2, <3>1, Zenon DEF Open
  <2>4. /\ Asked' = [d \in Clients |-> IF d \in P THEN {} ELSE Asked[d]]
        /\ Hits' = [d \in Clients |-> IF d \in P THEN {} ELSE Hits[d]]
        /\ seen' = [d \in Clients |-> IF d \in P THEN {} ELSE seen[d]]
    BY <1>1, <2>1, <2>2, Zenon DEF Asked, Hits, Reading
  <2>5. PICK S \in SUBSET {Key} : Maybe' = Maybe \ S
    <3>1. Maybe' \subseteq Maybe
      BY <1>1, <2>1, MaybeShrinks, Zenon DEF Writing
    <3>2. Maybe \ Maybe' \in SUBSET {Key} /\ Maybe' = Maybe \ (Maybe \ Maybe')
      BY <3>1, Zenon DEF Maybe
    <3>3. QED
      BY <3>2, Zenon
  <2>6. Contract!Forget(P, S)
    BY <2>3, <2>4, <2>5, Zenon DEF Contract!Forget, Open, Asked, Hits
  <2>7. QED
    BY <2>6, Zenon DEF Contract!Next
<1>14. ASSUME NEW c \in Clients, PutDone(c) PROVE Contract!Next
  BY <1>7, <1>14, Zenon DEF PutDone, Reading
<1>15. QED
  BY <1>2, <1>3, <1>4, <1>5, <1>6, <1>9, <1>10, <1>11, <1>12, <1>13, <1>14, NextSplit, Zenon

\* The v1 path implements KvContract, for any clients, values and chunks: a get
\* of a one-chunk payload hands out some put's bytes or nothing, and a hit of any
\* size was stored, or being stored, at some moment of the call (_get_sync).
THEOREM KeepsContract == Spec => ContractSpec
<1>1. Init => Contract!Init
  <2> SUFFICES ASSUME Init PROVE Contract!Init
    BY Zenon
  <2>1. Maybe = {}
    BY Zenon DEF Init, Maybe, Writing, Empty
  <2>2. \A c \in Clients : (pc[c] \in Reading) = FALSE
    BY DEF Init, Reading
  <2>3. [c \in Clients |-> pc[c] \in Reading] = [c \in Clients |-> FALSE]
    BY <2>2, Zenon
  <2>4. /\ [c \in Clients |-> IF pc[c] \in Reading THEN {Key} ELSE {}] = [c \in Clients |-> {}]
        /\ [c \in Clients |-> {hit \in out[c] : span = 1 \/ hit[2] = "stored"}] = [c \in Clients |-> {}]
    BY <2>2, Zenon DEF Init
  <2>5. QED
    BY <2>1, <2>3, <2>4, Zenon DEF Init, Contract!Init
<1>2. CallInv /\ SeenInv /\ [Next]_vars => [Contract!Next]_(Contract!vars)
  <2> SUFFICES ASSUME CallInv, SeenInv, [Next]_vars PROVE Contract!Next \/ UNCHANGED Contract!vars
    BY Zenon
  <2>1. CASE UNCHANGED vars
    BY <2>1, Zenon DEF vars, Contract!vars, Maybe
  <2>2. QED
    BY <2>1, MappedStep, Zenon
<1>3. Spec => []SeenInv
  <2>1. Init => SeenInv
    BY DEF Init, SeenInv, Reading, Empty
  <2>2. QED
    BY <2>1, SeenStep, CallInvHolds, PTL DEF Spec
<1>4. QED
  BY <1>1, <1>2, <1>3, CallInvHolds, PTL DEF Spec, ContractSpec, Contract!Spec
=============================================================================
