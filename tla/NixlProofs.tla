----------------------------- MODULE NixlProofs -----------------------------
(***************************************************************************)
(* Proofs about the NIXL plugin: its transfers, for any number of          *)
(* requests, groups and workers, and its registrations, for any number of  *)
(* those, of containers, devices and offsets.                              *)
(***************************************************************************)
EXTENDS NixlXfer, NixlRegistry, FiniteSetTheorems, WellFoundedInduction, TLAPS

-----------------------------------------------------------------------------
(* Transfers: the groups a request waits for.                              *)

Calls(w) == pc[w] \in InCall

\* The groups of r that are still to be counted down: not yet submitted, in the
\* pool's queue, or in a worker's hands.
Out(r) ==
    {g \in 1 .. Groups : \/ g > Groups - unsent[r]
                         \/ \E i \in DOMAIN queue : queue[i] = <<r, g>>
                         \/ \E w \in Workers : Calls(w) /\ job[w] = <<r, g>>}

\* A group is in one place, once.
OnePlace ==
    /\ \A i, j \in DOMAIN queue : queue[i] = queue[j] => i = j
    /\ \A w \in Workers, i \in DOMAIN queue : Calls(w) => job[w] # queue[i]
    /\ \A v, w \in Workers : Calls(v) /\ Calls(w) /\ job[v] = job[w] => v = w
    /\ \A i \in DOMAIN queue : queue[i][2] <= Groups - unsent[queue[i][1]]
    /\ \A w \in Workers : Calls(w) => job[w][2] <= Groups - unsent[job[w][1]]

\* The count of a request is the number of its groups that are out, and a request
\* is not posted, or deleted, only where none is.
CountInv ==
    /\ \A r \in Requests : pending[r] = Cardinality(Out(r))
    /\ \A r \in Requests : caller[r] = "gone" \/ ~posted[r] => pending[r] = 0
    /\ \A r \in Requests : unsent[r] > 0 <=> caller[r] = "posting"
    /\ \A w \in Workers : Calls(w) \/ pc[w] = "notify" <=> job[w] # None

\* What a worker has made of its RPC is what the RPC did.
Hand(w) ==
    Calls(w) /\ job[w][1] \notin misled =>
        /\ event[w] = "ok" => job[w][2] \in landed[job[w][1]]
        /\ pc[w] \in {"fini", "record"} /\ rc[w] = "ok" => job[w][2] \in landed[job[w][1]]
        /\ pc[w] = "finish" /\ status[job[w][1]] = "success" => job[w][2] \in landed[job[w][1]]

\* A group that is no longer out of a request whose status is success has landed.
Credited(r) ==
    r \notin misled /\ posted[r] /\ status[r] = "success" => (1 .. Groups) \ Out(r) \subseteq landed[r]

LandInv ==
    /\ \A w \in Workers : event[w] # "none" => pc[w] \in {"poll", "fini"}
    /\ \A w \in Workers : pc[w] \in {"fini", "record"} => rc[w] \in Results
    /\ \A w \in Workers : Hand(w)
    /\ \A r \in Requests : Credited(r)

\* A worker with an event has the queue it belongs to.
EqInv == \A w \in Workers : pc[w] \in {"poll", "fini"} => eq[w] # 0

LEMMA OutFinite == ASSUME NEW r \in Requests PROVE IsFiniteSet(Out(r)) /\ Cardinality(Out(r)) \in Nat
<1>1. IsFiniteSet(1 .. Groups)
  BY FS_Interval, GroupsAssumption
<1>2. Out(r) \subseteq 1 .. Groups
  BY Zenon DEF Out
<1>3. QED
  BY <1>1, <1>2, FS_Subset, FS_CardinalityType, Zenon

\* A worker in a call has a group that is out, so its request counts it.
LEMMA Counted ==
    ASSUME TypeOK, CountInv, NEW w \in Workers, Calls(w)
    PROVE  /\ job[w] \in Requests \X (1 .. Groups)
           /\ job[w][2] \in Out(job[w][1])
           /\ pending[job[w][1]] \in 1 .. Groups
<1>1. job[w] \in Requests \X (1 .. Groups)
  BY DEF TypeOK, CountInv
<1>2. job[w] = <<job[w][1], job[w][2]>> /\ job[w][1] \in Requests /\ job[w][2] \in 1 .. Groups
  BY <1>1
<1>3. job[w][2] \in Out(job[w][1])
  BY <1>2, Zenon DEF Out
<1>4. Cardinality(Out(job[w][1])) # 0
  BY <1>2, <1>3, OutFinite, FS_EmptySet, Zenon
<1>5. QED
  BY <1>1, <1>2, <1>3, <1>4, GroupsAssumption DEF TypeOK, CountInv

LEMMA CountedPair ==
    ASSUME TypeOK, CountInv, NEW w \in Workers, Calls(w)
    PROVE  \E r \in Requests, g \in 1 .. Groups : job[w] = <<r, g>>
<1>1. job[w] \in Requests \X (1 .. Groups)
  BY Counted, Zenon
<1>2. QED
  BY <1>1

(* Types.                                                                  *)

LEMMA XferTypes == ASSUME TypeOK, EqInv, CountInv, LandInv, [Next]_vars PROVE TypeOK' /\ EqInv'
<1> USE GroupsAssumption DEF TypeOK, EqInv, InCall, Results
<1>1. CASE UNCHANGED vars
  BY <1>1, Zenon DEF vars
<1>2. ASSUME NEW r \in Requests, Prep(r) PROVE TypeOK' /\ EqInv'
  BY <1>2, Zenon DEF Prep, eqs
<1>3. ASSUME NEW r \in Requests, Post(r) PROVE TypeOK' /\ EqInv'
  BY <1>3 DEF Post, Count, eqs
<1>4. ASSUME NEW r \in Requests, Submit(r) PROVE TypeOK' /\ EqInv'
  <2>1. unsent[r] \in 1 .. Groups
    BY <1>4 DEF Submit, CountInv
  <2>2. <<r, 1 + Groups - unsent[r]>> \in Requests \X (1 .. Groups)
    BY <2>1
  <2>3. queue' \in Seq(Requests \X (1 .. Groups))
    BY <1>4, <2>2 DEF Submit
  <2>4. unsent' \in [Requests -> 0 .. Groups]
    BY <1>4, <2>1 DEF Submit
  <2>5. QED
    BY <1>4, <2>3, <2>4, Zenon DEF Submit, ghosts, eqs
<1>5. ASSUME NEW r \in Requests, Release(r) \/ Wake(r) PROVE TypeOK' /\ EqInv'
  BY <1>5, Zenon DEF Release, Wake, ghosts, eqs
<1>6. ASSUME NEW w \in Workers, Take(w) PROVE TypeOK' /\ EqInv'
  <2>1. Head(queue) \in Requests \X (1 .. Groups) /\ Tail(queue) \in Seq(Requests \X (1 .. Groups))
    BY <1>6 DEF Take
  <2>2. QED
    BY <1>6, <2>1, Zenon DEF Take, Goto, handles, ghosts, eqs
<1>7. ASSUME NEW w \in Workers, Borrow(w) PROVE TypeOK' /\ EqInv'
  <2>1. free # <<>> => free[Len(free)] \in 1 .. made /\ SubSeq(free, 1, Len(free) - 1) \in Seq(1 .. made)
    OBVIOUS
  <2>2. CASE free = <<>>
    BY <1>7, <2>2, Zenon DEF Borrow, Goto, handles, ghosts
  <2>3. CASE free # <<>>
    <3>1. eq' \in [Workers -> 0 .. made] /\ eq'[w] # 0 /\ \A v \in Workers : v # w => eq'[v] = eq[v]
      <4>1. PICK e \in 1 .. made : eq' = [eq EXCEPT ![w] = e]
        BY <1>7, <2>1, <2>3, Zenon DEF Borrow
      <4>2. QED
        BY <4>1
    <3>2. free' \in Seq(1 .. made)
      BY <1>7, <2>1, <2>3, Zenon DEF Borrow
    <3>3. QED
      BY <1>7, <2>3, <3>1, <3>2, Zenon DEF Borrow, Goto, handles, ghosts
  <2>4. QED
    BY <2>2, <2>3, Zenon
<1>8. ASSUME NEW w \in Workers, Create(w) PROVE TypeOK' /\ EqInv'
  <2>1. made' \in Nat /\ made <= made'
    BY <1>8 DEF Create
  <2>2. eq' \in [Workers -> 0 .. made']
    <3>1. CASE made' = made + 1 /\ eq' = [eq EXCEPT ![w] = made + 1]
      BY <3>1
    <3>2. CASE UNCHANGED <<made, eq>>
      BY <3>2, Zenon
    <3>3. QED
      BY <1>8, <3>1, <3>2, Zenon DEF Create
  <2>3. dirty \subseteq 1 .. made' /\ free \in Seq(1 .. made')
    BY <2>1
  <2>4. QED
    BY <1>8, <2>1, <2>2, <2>3, Zenon DEF Create, Goto, handles, ghosts
<1>9. ASSUME NEW w \in Workers, eq[w] # 0, giveBack(w) PROVE free' \in Seq(1 .. made) /\ eq' \in [Workers -> 0 .. made]
  BY <1>9 DEF giveBack
<1>10. ASSUME NEW w \in Workers, InitFails(w) PROVE TypeOK' /\ EqInv'
  BY <1>9, <1>10, Zenon DEF InitFails, giveBack, handles, ghosts
<1>11. ASSUME NEW w \in Workers, Issue(w) PROVE TypeOK' /\ EqInv'
  <2>1. CASE eq[w] = 0 /\ Goto(w, "block") /\ UNCHANGED <<event, rc>>
    BY <1>11, <2>1, Zenon DEF Issue, Goto, handles, ghosts, eqs
  <2>2. CASE eq[w] # 0 /\ event' = [event EXCEPT ![w] = "flying"] /\ Goto(w, "poll") /\ UNCHANGED rc
    BY <1>11, <2>2, Zenon DEF Issue, Goto, handles, ghosts, eqs
  <2>3. CASE eq[w] # 0 /\ rc' = [rc EXCEPT ![w] = "error"] /\ Goto(w, "fini") /\ UNCHANGED event
    BY <1>11, <2>3, Zenon DEF Issue, Goto, handles, ghosts, eqs
  <2>4. QED
    BY <1>11, <2>1, <2>2, <2>3, Zenon DEF Issue
<1>12. ASSUME NEW w \in Workers, NEW how \in Results, Complete(w, how) PROVE TypeOK' /\ EqInv'
  <2>1. job[w] \in Requests \X (1 .. Groups)
    BY <1>12 DEF Complete, CountInv, LandInv, Calls
  <2>2. landed' \in [Requests -> SUBSET (1 .. Groups)]
    BY <1>12, <2>1, Zenon DEF Complete, Land
  <2>3. QED
    <3>1. CASE event' = [event EXCEPT ![w] = how] /\ UNCHANGED <<pc, rc>>
      BY <1>12, <2>2, <3>1, Zenon DEF Complete, handles, eqs
    <3>2. CASE rc' = [rc EXCEPT ![w] = how] /\ Goto(w, "record") /\ UNCHANGED event
      BY <1>12, <2>2, <3>2, Zenon DEF Complete, Goto, handles, eqs
    <3>3. QED
      BY <1>12, <3>1, <3>2, Zenon DEF Complete
<1>13. ASSUME NEW w \in Workers, Poll(w) \/ PollTimeout(w) PROVE TypeOK' /\ EqInv'
  <2>1. CASE Poll(w)
    BY <2>1, Zenon DEF Poll, Goto, handles, ghosts, eqs
  <2>2. CASE PollTimeout(w)
    BY <2>2, Zenon DEF PollTimeout, Goto, handles, ghosts, eqs
  <2>3. QED
    BY <1>13, <2>1, <2>2, Zenon
<1>14. ASSUME NEW w \in Workers, PollForeign(w) PROVE TypeOK' /\ EqInv'
  <2>1. job[w] \in Requests \X (1 .. Groups)
    BY <1>14 DEF PollForeign, CountInv, Calls
  <2>2. QED
    BY <1>14, <2>1, ZenonT(30) DEF PollForeign, Goto, handles
<1>15. ASSUME NEW w \in Workers, PollFails(w) PROVE TypeOK' /\ EqInv'
  <2>1. eq[w] \in 1 .. made
    BY <1>15 DEF PollFails
  <2>2. QED
    BY <1>15, <2>1, Zenon DEF PollFails, Goto, handles, ghosts
<1>16. ASSUME NEW w \in Workers, Fini(w) PROVE TypeOK' /\ EqInv'
  <2>1. eq[w] # 0 /\ giveBack(w)
    BY <1>16, Zenon DEF Fini
  <2>2. QED
    <3>1. /\ pc' \in [Workers -> InCall \cup {"idle", "notify"}]
          /\ event' \in [Workers -> Results \cup {"none", "flying"}]
      BY <1>16, Zenon DEF Fini, Goto
    <3>2. free' \in Seq(1 .. made) /\ eq' \in [Workers -> 0 .. made]
      BY <1>9, <2>1, Zenon
    <3>3. EqInv'
      BY <1>16, <2>1, Zenon DEF Fini, giveBack, Goto
    <3>4. QED
      BY <1>16, <3>1, <3>2, <3>3, Zenon DEF Fini, handles, ghosts
<1>17. ASSUME NEW w \in Workers, Record(w) PROVE TypeOK' /\ EqInv'
  <2>1. Status(rc[w]) \in {"success", "backend", "not_found"}
    BY <1>17, Zenon DEF Record, LandInv, Status
  <2>2. status' \in [Requests -> {"success", "backend", "not_found"}]
    BY <1>17, <2>1, Zenon DEF Record
  <2>3. QED
    <3>1. pc' \in [Workers -> InCall \cup {"idle", "notify"}] /\ rc' \in [Workers -> Results \cup {"none"}]
      BY <1>17, Zenon DEF Record, Goto
    <3>2. EqInv'
      BY <1>17, Zenon DEF Record, Goto, eqs
    <3>3. QED
      BY <1>17, <2>2, <3>1, <3>2, Zenon DEF Record, ghosts, eqs
<1>18. ASSUME NEW w \in Workers, FinishOne(w) PROVE TypeOK' /\ EqInv'
  <2>1. job[w][1] \in Requests /\ pending[job[w][1]] \in 1 .. Groups
    BY <1>18, Counted, Zenon DEF FinishOne, Calls
  <2>2. pending' \in [Requests -> 0 .. Groups]
    BY <1>18, <2>1 DEF FinishOne
  <2>3. QED
    <3>1. pc' \in [Workers -> InCall \cup {"idle", "notify"}] /\ job' \in [Workers -> (Requests \X (1 .. Groups)) \cup {None}]
      BY <1>18, ZenonT(30) DEF FinishOne, Goto
    <3>2. EqInv'
      BY <1>18 DEF FinishOne, Goto, eqs
    <3>3. QED
      BY <1>18, <2>2, <3>1, <3>2, Zenon DEF FinishOne, ghosts, eqs
<1>19. ASSUME NEW w \in Workers, Notify(w) PROVE TypeOK' /\ EqInv'
  BY <1>19, Zenon DEF Notify, Woken, Goto, ghosts, eqs
<1>20. CASE Engine
  BY <1>20, Zenon DEF Engine, handles, ghosts, eqs
<1>21. QED
  BY Zenon, <1>1, <1>2, <1>3, <1>4, <1>5, <1>6, <1>7, <1>8, <1>10, <1>11, <1>12, <1>13, <1>14, <1>15, <1>16,
     <1>17, <1>18, <1>19, <1>20 DEF Next, CallerStep, WorkerStep

(* Where the groups are, and how many are out.                             *)

QuietStep(w) ==
    \/ Borrow(w) \/ Create(w) \/ InitFails(w) \/ Issue(w) \/ Poll(w) \/ PollForeign(w)
    \/ PollTimeout(w) \/ PollFails(w) \/ Fini(w) \/ Record(w)
    \/ \E how \in Results : Complete(w, how)

\* Between taking a group and counting it down a worker moves no group.
LEMMA Quiet ==
    ASSUME TypeOK, NEW w \in Workers, QuietStep(w)
    PROVE  /\ UNCHANGED <<caller, posted, pending, unsent, queue, job>>
           /\ \A v \in Workers : Calls(v)' <=> Calls(v)
           /\ \A v \in Workers : pc'[v] = "notify" <=> pc[v] = "notify"
<1> USE DEF TypeOK, Calls, InCall, Goto, handles
<1>1. CASE Borrow(w) \/ Create(w) \/ InitFails(w) \/ Issue(w)
  BY <1>1 DEF Borrow, Create, InitFails, Issue
<1>2. CASE Poll(w) \/ PollForeign(w) \/ PollTimeout(w) \/ PollFails(w)
  BY <1>2 DEF Poll, PollForeign, PollTimeout, PollFails
<1>3. CASE Fini(w) \/ Record(w)
  BY <1>3 DEF Fini, Record
<1>4. ASSUME NEW how \in Results, Complete(w, how)
      PROVE  /\ UNCHANGED <<caller, posted, pending, unsent, queue, job>>
             /\ \A v \in Workers : Calls(v)' <=> Calls(v)
             /\ \A v \in Workers : pc'[v] = "notify" <=> pc[v] = "notify"
  BY <1>4 DEF Complete
<1>5. QED
  BY <1>1, <1>2, <1>3, <1>4, Zenon DEF QuietStep

LEMMA SameOut ==
    ASSUME UNCHANGED <<unsent, queue, job>>, \A v \in Workers : Calls(v)' <=> Calls(v)
    PROVE  \A r \in Requests : Out(r)' = Out(r)
  BY Zenon DEF Out

\* A step that moves no group and changes no count.
LEMMA Unmoved ==
    ASSUME OnePlace, CountInv,
           UNCHANGED <<posted, pending, unsent, queue, job>>,
           \A v \in Workers : Calls(v)' <=> Calls(v),
           \A v \in Workers : pc'[v] = "notify" <=> pc[v] = "notify",
           \A r \in Requests : /\ caller'[r] = "gone" => pending[r] = 0
                               /\ caller'[r] = "posting" <=> caller[r] = "posting"
    PROVE  OnePlace' /\ CountInv'
<1>1. \A r \in Requests : Out(r)' = Out(r)
  BY SameOut, Zenon
<1>2. OnePlace'
  BY Zenon DEF OnePlace
<1>3. CountInv'
  BY <1>1, Zenon DEF CountInv
<1>4. QED
  BY <1>2, <1>3, Zenon

LEMMA OutEmpty ==
    ASSUME TypeOK, CountInv, NEW r \in Requests, pending[r] = 0
    PROVE  /\ Out(r) = {}
           /\ \A i \in DOMAIN queue : queue[i][1] # r
           /\ \A w \in Workers : Calls(w) => job[w][1] # r
<1>1. Out(r) = {}
  BY OutFinite, FS_EmptySet, Zenon DEF CountInv
<1>2. ASSUME NEW i \in DOMAIN queue PROVE queue[i][1] # r
  <2>1. queue[i] \in Requests \X (1 .. Groups)
    BY DEF TypeOK
  <2>2. queue[i] = <<queue[i][1], queue[i][2]>> /\ queue[i][2] \in 1 .. Groups
    BY <2>1
  <2>3. QED
    BY <1>1, <2>2, Zenon DEF Out
<1>3. ASSUME NEW w \in Workers, Calls(w) PROVE job[w][1] # r
  BY <1>1, <1>3, Counted, Zenon
<1>4. QED
  BY <1>1, <1>2, <1>3, Zenon

LEMMA PostStep ==
    ASSUME TypeOK, OnePlace, CountInv, NEW r \in Requests, Post(r)
    PROVE  OnePlace' /\ CountInv' /\ Out(r)' = 1 .. Groups
<1>1. /\ pending[r] = 0 /\ UNCHANGED <<queue, job, pc>>
      /\ unsent'[r] = Groups /\ pending'[r] = Groups /\ posted'[r] /\ caller'[r] = "posting"
      /\ \A s \in Requests : s # r => /\ unsent'[s] = unsent[s] /\ pending'[s] = pending[s]
                                      /\ posted'[s] = posted[s] /\ caller'[s] = caller[s]
  BY Zenon DEF Post, Count, TypeOK
<1>2. /\ \A i \in DOMAIN queue : queue[i][1] # r
      /\ \A w \in Workers : Calls(w) => job[w][1] # r
  BY <1>1, OutEmpty, Zenon
<1>3. /\ \A i \in DOMAIN queue : queue[i][1] \in Requests
      /\ \A w \in Workers : Calls(w) => job[w][1] \in Requests
  <2>1. \A i \in DOMAIN queue : queue[i] \in Requests \X (1 .. Groups)
    BY DEF TypeOK
  <2>2. QED
    BY <2>1, Counted, Zenon
<1>4. OnePlace'
  BY <1>1, <1>2, <1>3 DEF OnePlace, Calls
<1>5. Out(r)' = 1 .. Groups
  BY <1>1, GroupsAssumption DEF Out
<1>6. \A s \in Requests : s # r => Out(s)' = Out(s)
  BY <1>1, Zenon DEF Out, Calls
<1>7. Cardinality(1 .. Groups) = Groups
  BY FS_Interval, GroupsAssumption
<1>8. CountInv'
  BY <1>1, <1>5, <1>6, <1>7, GroupsAssumption DEF CountInv, Calls
<1>9. QED
  BY <1>4, <1>5, <1>8, Zenon

LEMMA SubmitStep ==
    ASSUME TypeOK, OnePlace, CountInv, NEW r \in Requests, Submit(r)
    PROVE  OnePlace' /\ CountInv' /\ \A s \in Requests : Out(s)' = Out(s)
<1> DEFINE g == 1 + Groups - unsent[r]
<1>1. unsent[r] \in 1 .. Groups /\ g \in 1 .. Groups
  BY GroupsAssumption DEF Submit, CountInv, TypeOK
<1>2. /\ unsent'[r] = unsent[r] - 1
      /\ caller'[r] = IF unsent[r] = 1 THEN "ready" ELSE "posting"
      /\ \A s \in Requests : s # r => unsent'[s] = unsent[s] /\ caller'[s] = caller[s]
      /\ UNCHANGED <<posted, pending, pc, job>>
  BY Zenon DEF Submit, TypeOK
<1>3. /\ DOMAIN queue = 1 .. Len(queue) /\ DOMAIN queue' = 1 .. Len(queue) + 1
      /\ queue'[Len(queue) + 1] = <<r, g>>
      /\ \A i \in DOMAIN queue : queue'[i] = queue[i]
      /\ Len(queue) \in Nat
  <2>1. queue \in Seq(Requests \X (1 .. Groups)) /\ queue' = Append(queue, <<r, g>>)
    BY Zenon DEF Submit, TypeOK
  <2>2. QED
    BY <2>1
<1>4. /\ \A i \in DOMAIN queue : queue[i][1] \in Requests /\ queue[i][2] \in 1 .. Groups
      /\ \A w \in Workers : Calls(w) => job[w][1] \in Requests /\ job[w][2] \in 1 .. Groups
  <2>1. \A i \in DOMAIN queue : queue[i] \in Requests \X (1 .. Groups)
    BY DEF TypeOK
  <2>2. \A w \in Workers : Calls(w) => job[w] \in Requests \X (1 .. Groups)
    BY Counted, Zenon
  <2>3. QED
    BY <2>1, <2>2, Zenon
<1> HIDE DEF g
<1>5. /\ \A i \in DOMAIN queue : queue[i] # <<r, g>>
      /\ \A w \in Workers : Calls(w) => job[w] # <<r, g>>
  BY <1>1, <1>4, GroupsAssumption DEF OnePlace, g
<1>6. \A s \in Requests : unsent'[s] <= unsent[s] /\ unsent[s] \in 0 .. Groups /\ unsent'[s] \in 0 .. Groups
  <2>1. \A s \in Requests : unsent[s] \in 0 .. Groups
    BY Zenon DEF TypeOK
  <2>2. unsent'[r] \in 0 .. Groups /\ unsent'[r] <= unsent[r]
    BY <1>1, <1>2, GroupsAssumption
  <2>3. QED
    BY <1>2, <2>1, <2>2, GroupsAssumption
<1>7. OnePlace'
  <2>1. \A i, j \in DOMAIN queue' : queue'[i] = queue'[j] => i = j
    BY <1>3, <1>5 DEF OnePlace
  <2>2. \A w \in Workers, i \in DOMAIN queue' : Calls(w)' => job'[w] # queue'[i]
    BY <1>2, <1>3, <1>5 DEF OnePlace, Calls
  <2>3. \A i \in DOMAIN queue' : queue'[i][2] <= Groups - unsent'[queue'[i][1]]
    <3>1. ASSUME NEW i \in DOMAIN queue PROVE queue[i][2] <= Groups - unsent'[queue[i][1]]
      BY <1>4, <1>6, GroupsAssumption DEF OnePlace
    <3>2. g <= Groups - unsent'[r]
      BY <1>1, <1>2, GroupsAssumption DEF g
    <3>3. QED
      BY <1>3, <3>1, <3>2
  <2>4. \A w \in Workers : Calls(w)' => job'[w][2] <= Groups - unsent'[job'[w][1]]
    BY <1>2, <1>4, <1>6, GroupsAssumption DEF OnePlace, Calls
  <2>5. QED
    BY <1>2, <2>1, <2>2, <2>3, <2>4, Zenon DEF OnePlace, Calls
<1>8. \A s \in Requests : Out(s)' = Out(s)
  <2>1. \A h \in 1 .. Groups : h > Groups - unsent[r] <=> h > Groups - unsent'[r] \/ h = g
    BY <1>1, <1>2, GroupsAssumption DEF g
  <2>2. \A s \in Requests, h \in 1 .. Groups :
          (\E i \in DOMAIN queue' : queue'[i] = <<s, h>>)
            <=> (\E i \in DOMAIN queue : queue[i] = <<s, h>>) \/ (s = r /\ h = g)
    BY <1>3
  <2>3. QED
    BY <1>2, <2>1, <2>2, Zenon DEF Out, Calls
<1>9. CountInv'
  BY <1>1, <1>2, <1>8 DEF CountInv, Calls
<1>10. QED
  BY <1>7, <1>8, <1>9, Zenon

LEMMA TakeStep ==
    ASSUME TypeOK, OnePlace, CountInv, NEW w \in Workers, Take(w)
    PROVE  OnePlace' /\ CountInv' /\ \A s \in Requests : Out(s)' = Out(s)
<1>1. /\ Len(queue) \in Nat \ {0} /\ DOMAIN queue = 1 .. Len(queue) /\ DOMAIN queue' = 1 .. Len(queue) - 1
      /\ \A i \in DOMAIN queue' : queue'[i] = queue[i + 1]
      /\ queue[1] \in Requests \X (1 .. Groups)
  BY DEF Take, TypeOK
<1>2. /\ job'[w] = queue[1] /\ \A v \in Workers : v # w => job'[v] = job[v]
      /\ ~Calls(w) /\ Calls(w)' /\ pc[w] = "idle" /\ pc'[w] = "borrow"
      /\ \A v \in Workers : v # w => pc'[v] = pc[v]
      /\ UNCHANGED <<caller, posted, pending, unsent>>
  BY <1>1 DEF Take, TypeOK, Goto, handles, Calls, InCall
<1>3. \A v \in Workers : v # w => (Calls(v)' <=> Calls(v))
  BY <1>2, Zenon DEF Calls
<1>4. OnePlace'
  <2>1. \A i, j \in DOMAIN queue' : queue'[i] = queue'[j] => i = j
    <3>1. \A i, j \in DOMAIN queue : queue[i] = queue[j] => i = j
      BY Zenon DEF OnePlace
    <3>2. QED
      BY <1>1, <3>1
  <2>2. \A v \in Workers, i \in DOMAIN queue' : Calls(v)' => job'[v] # queue'[i]
    <3>1. ASSUME NEW i \in DOMAIN queue'
          PROVE  i + 1 \in DOMAIN queue /\ 1 \in DOMAIN queue /\ i + 1 # 1 /\ queue'[i] = queue[i + 1]
      BY <1>1
    <3>2. ASSUME NEW v \in Workers, v # w, NEW i \in DOMAIN queue', Calls(v)' PROVE job'[v] # queue'[i]
      <4>1. Calls(v) /\ job'[v] = job[v]
        BY <1>2, <1>3, <3>2, Zenon
      <4>2. i + 1 \in DOMAIN queue /\ queue'[i] = queue[i + 1]
        BY <3>1, <3>2, Zenon
      <4>3. job[v] # queue[i + 1]
        BY <4>1, <4>2, Zenon DEF OnePlace
      <4>4. QED
        BY <4>1, <4>2, <4>3, Zenon
    <3>3. ASSUME NEW i \in DOMAIN queue' PROVE job'[w] # queue'[i]
      BY <1>2, <3>1, ZenonT(30) DEF OnePlace
    <3>4. QED
      BY <3>2, <3>3, Zenon
  <2>3. \A u, v \in Workers : Calls(u)' /\ Calls(v)' /\ job'[u] = job'[v] => u = v
    BY <1>1, <1>2, <1>3 DEF OnePlace
  <2>4. \A i \in DOMAIN queue' : queue'[i][2] <= Groups - unsent'[queue'[i][1]]
    BY <1>1, <1>2 DEF OnePlace
  <2>5. \A v \in Workers : Calls(v)' => job'[v][2] <= Groups - unsent'[job'[v][1]]
    BY <1>1, <1>2, <1>3 DEF OnePlace
  <2>6. QED
    BY <2>1, <2>2, <2>3, <2>4, <2>5, Zenon DEF OnePlace
<1>5. \A s \in Requests : Out(s)' = Out(s)
  <2>1. ASSUME NEW s \in Requests, NEW h \in 1 .. Groups
        PROVE  (\E i \in DOMAIN queue : queue[i] = <<s, h>>)
                 <=> (\E i \in DOMAIN queue' : queue'[i] = <<s, h>>) \/ job'[w] = <<s, h>>
    <3>1. ASSUME NEW i \in DOMAIN queue, queue[i] = <<s, h>>, i # 1
          PROVE  \E j \in DOMAIN queue' : queue'[j] = <<s, h>>
      <4>1. i - 1 \in DOMAIN queue' /\ queue'[i - 1] = queue[i]
        BY <1>1, <3>1
      <4>2. QED
        BY <3>1, <4>1, Zenon
    <3>2. ASSUME NEW i \in DOMAIN queue', queue'[i] = <<s, h>>
          PROVE  \E j \in DOMAIN queue : queue[j] = <<s, h>>
      BY <1>1, <3>2
    <3>3. 1 \in DOMAIN queue
      BY <1>1
    <3>4. QED
      BY <1>2, <3>1, <3>2, <3>3, Zenon
  <2>2. \A s \in Requests, h \in 1 .. Groups :
          (\E v \in Workers : Calls(v)' /\ job'[v] = <<s, h>>)
            <=> (\E v \in Workers : Calls(v) /\ job[v] = <<s, h>>) \/ job'[w] = <<s, h>>
    BY <1>2, <1>3, Zenon
  <2>3. QED
    BY <1>2, <2>1, <2>2, Zenon DEF Out
<1>6. CountInv'
  <2>1. job'[w] # None
    <3>1. PICK s \in Requests, h \in 1 .. Groups : queue[1] = <<s, h>>
      BY <1>1
    <3>2. QED
      BY <1>2, <3>1 DEF None
  <2>2. QED
    BY <1>2, <1>3, <1>5, <2>1 DEF CountInv
<1>7. QED
  BY <1>4, <1>5, <1>6, Zenon

LEMMA FinishStep ==
    ASSUME TypeOK, OnePlace, CountInv, NEW w \in Workers, FinishOne(w),
           NEW r \in Requests, NEW g \in 1 .. Groups, job[w] = <<r, g>>
    PROVE  /\ OnePlace' /\ CountInv'
           /\ Out(r)' = Out(r) \ {g}
           /\ \A s \in Requests : s # r => Out(s)' = Out(s)
<1>1. Calls(w) /\ pc[w] = "finish"
  BY Zenon DEF FinishOne, Calls, InCall
<1>2. job[w][1] = r /\ job[w][2] = g /\ g \in Out(r) /\ pending[r] \in 1 .. Groups
  BY <1>1, Counted
<1>3. /\ pending'[r] = pending[r] - 1 /\ \A s \in Requests : s # r => pending'[s] = pending[s]
      /\ UNCHANGED <<caller, posted, unsent, queue>>
  BY <1>2, Zenon DEF FinishOne, TypeOK
<1>4. /\ \A v \in Workers : v # w => pc'[v] = pc[v] /\ job'[v] = job[v]
      /\ \/ pc'[w] = "notify" /\ job'[w] = job[w]
         \/ pc'[w] = "idle" /\ job'[w] = None
  <2>1. CASE pending[r] = 1
    BY <1>2, <2>1, Zenon DEF FinishOne, TypeOK, Goto
  <2>2. CASE pending[r] # 1
    BY <1>2, <2>2, Zenon DEF FinishOne, TypeOK, Goto
  <2>3. QED
    BY <2>1, <2>2, Zenon
<1>5. ~Calls(w)' /\ \A v \in Workers : v # w => (Calls(v)' <=> Calls(v))
  BY <1>4, Zenon DEF Calls, InCall
<1>6. OnePlace'
  BY <1>3, <1>4, <1>5 DEF OnePlace
<1>7. \A s \in Requests : s # r => Out(s)' = Out(s)
  BY <1>2, <1>3, <1>4, <1>5 DEF Out
<1>8. Out(r)' = Out(r) \ {g}
  <2>1. g \notin Out(r)'
    <3>1. ~(g > Groups - unsent'[r])
      <4>1. g <= Groups - unsent[r] /\ unsent[r] \in 0 .. Groups /\ unsent' = unsent
        BY <1>1, <1>2, <1>3, Zenon DEF OnePlace, TypeOK
      <4>2. QED
        BY <4>1, GroupsAssumption
    <3>2. \A i \in DOMAIN queue' : queue'[i] # <<r, g>>
      BY <1>1, <1>2, <1>3 DEF OnePlace
    <3>3. \A v \in Workers : Calls(v)' => job'[v] # <<r, g>>
      BY <1>1, <1>2, <1>4, <1>5, Zenon DEF OnePlace
    <3>4. QED
      BY <3>1, <3>2, <3>3, Zenon DEF Out
  <2>2. \A h \in 1 .. Groups : h # g => (h \in Out(r)' <=> h \in Out(r))
    BY <1>2, <1>3, <1>4, <1>5 DEF Out
  <2>3. QED
    BY <2>1, <2>2, Zenon DEF Out
<1>9. CountInv'
  <2>1. Cardinality(Out(r) \ {g}) = Cardinality(Out(r)) - 1
    BY <1>2, OutFinite, FS_RemoveElement, ZenonT(30)
  <2>2. \A s \in Requests : pending'[s] = Cardinality(Out(s)')
    BY <1>2, <1>3, <1>7, <1>8, <2>1, Zenon DEF CountInv
  <2>3. \A s \in Requests : caller'[s] = "gone" \/ ~posted'[s] => pending'[s] = 0
    BY <1>2, <1>3 DEF CountInv
  <2>4. \A v \in Workers : Calls(v)' \/ pc'[v] = "notify" <=> job'[v] # None
    BY <1>1, <1>4, <1>5, Zenon DEF CountInv
  <2>5. QED
    BY <1>3, <2>2, <2>3, <2>4, Zenon DEF CountInv
<1>10. QED
  BY <1>6, <1>7, <1>8, <1>9, Zenon

LEMMA NotifyStep ==
    ASSUME TypeOK, OnePlace, CountInv, NEW w \in Workers, Notify(w)
    PROVE  OnePlace' /\ CountInv' /\ \A s \in Requests : Out(s)' = Out(s)
<1>1. /\ \A v \in Workers : v # w => pc'[v] = pc[v] /\ job'[v] = job[v]
      /\ pc'[w] = "idle" /\ job'[w] = None /\ pc[w] = "notify"
      /\ UNCHANGED <<posted, pending, unsent, queue>>
  BY Zenon DEF Notify, TypeOK, Goto
<1>2. ~Calls(w) /\ ~Calls(w)' /\ \A v \in Workers : v # w => (Calls(v)' <=> Calls(v))
  BY <1>1, Zenon DEF Calls, InCall
<1>3. \A s \in Requests : (caller'[s] = "gone" <=> caller[s] = "gone") /\ (caller'[s] = "posting" <=> caller[s] = "posting")
  BY ZenonT(30) DEF Notify, TypeOK, Woken
<1>4. OnePlace'
  <2>1. \A v \in Workers : Calls(v)' => Calls(v) /\ job'[v] = job[v]
    BY <1>1, <1>2, Zenon
  <2>2. QED
    BY <1>1, <2>1 DEF OnePlace
<1>5. \A s \in Requests : Out(s)' = Out(s)
  BY <1>1, <1>2, Zenon DEF Out
<1>6. CountInv'
  BY <1>1, <1>2, <1>3, <1>5, Zenon DEF CountInv
<1>7. QED
  BY <1>4, <1>5, <1>6, Zenon

LEMMA CountStep == ASSUME TypeOK, OnePlace, CountInv, [Next]_vars PROVE OnePlace' /\ CountInv'
<1>1. CASE UNCHANGED vars \/ Engine
  BY <1>1, Unmoved, Zenon DEF vars, Engine, handles, Calls, CountInv
<1>2. ASSUME NEW r \in Requests, Prep(r) PROVE OnePlace' /\ CountInv'
  <2>1. /\ pending[r] = 0 /\ UNCHANGED <<pending, unsent, queue, pc, job>>
        /\ caller[r] = "gone" /\ caller'[r] = "ready" /\ ~posted'[r]
        /\ \A s \in Requests : s # r => caller'[s] = caller[s] /\ posted'[s] = posted[s]
    BY <1>2 DEF Prep, CountInv, TypeOK
  <2>2. \A v \in Workers : Calls(v)' <=> Calls(v)
    BY <2>1, Zenon DEF Calls
  <2>3. \A s \in Requests : Out(s)' = Out(s)
    BY <2>1, <2>2, SameOut, Zenon
  <2>4. OnePlace'
    BY <2>1, <2>2, Zenon DEF OnePlace
  <2>5. CountInv'
    BY <2>1, <2>2, <2>3, Zenon DEF CountInv
  <2>6. QED
    BY <2>4, <2>5, Zenon
<1>3. ASSUME NEW r \in Requests, Release(r) \/ Wake(r) PROVE OnePlace' /\ CountInv'
  <2>1. UNCHANGED <<posted, pending, unsent, queue, job, pc>>
    BY <1>3, Zenon DEF Release, Wake
  <2>2. \A s \in Requests : /\ caller'[s] = "gone" => pending[s] = 0
                            /\ caller'[s] = "posting" <=> caller[s] = "posting"
    BY <1>3 DEF Release, Wake, Released, TypeOK, CountInv
  <2>3. QED
    BY <2>1, <2>2, Unmoved, Zenon DEF Calls
<1>4. ASSUME NEW w \in Workers, QuietStep(w) PROVE OnePlace' /\ CountInv'
  BY <1>4, Quiet, Unmoved, Zenon DEF CountInv
<1>5. ASSUME NEW w \in Workers, FinishOne(w) PROVE OnePlace' /\ CountInv'
  <2>1. PICK r \in Requests, g \in 1 .. Groups : job[w] = <<r, g>>
    BY <1>5, Counted DEF FinishOne, Calls, InCall
  <2>2. QED
    BY <1>5, <2>1, FinishStep, ZenonT(30)
<1>6. QED
  BY <1>1, <1>2, <1>3, <1>4, <1>5, PostStep, SubmitStep, TakeStep, NotifyStep, Zenon
     DEF Next, CallerStep, WorkerStep, QuietStep

(* What has landed.                                                        *)

\* A step of a caller that leaves statuses, workers and ghosts alone.
LEMMA LandStays ==
    ASSUME LandInv, UNCHANGED <<posted, status, landed, misled, pc, job, rc, event>>,
           \A r \in Requests : Out(r)' = Out(r)
    PROVE  LandInv'
  BY Zenon DEF LandInv, Hand, Credited, Calls

\* A request whose groups are all in begins anew.
LEMMA LandAnew ==
    ASSUME TypeOK, CountInv, LandInv, NEW r \in Requests, pending[r] = 0,
           ~posted'[r] \/ Out(r)' = 1 .. Groups,
           \A s \in Requests : s # r => /\ posted'[s] = posted[s] /\ status'[s] = status[s]
                                        /\ landed'[s] = landed[s] /\ Out(s)' = Out(s),
           misled' = misled \ {r}, UNCHANGED <<pc, job, rc, event>>
    PROVE  LandInv'
<1>1. \A w \in Workers : Calls(w) => job[w][1] \in Requests /\ job[w][1] # r
  BY OutEmpty, Counted, Zenon
<1>2. \A w \in Workers : Hand(w)'
  BY <1>1, Zenon DEF LandInv, Hand, Calls
<1>3. \A s \in Requests : Credited(s)'
  BY Zenon DEF LandInv, Credited
<1>4. QED
  BY <1>2, <1>3, Zenon DEF LandInv

\* A worker's step that lands nothing and changes no status: it is enough to look at
\* the worker.
LEMMA LandWorker ==
    ASSUME LandInv, NEW w \in Workers,
           UNCHANGED <<posted, status, landed>>, misled \subseteq misled',
           \A r \in Requests : Out(r)' = Out(r),
           \A v \in Workers : v # w => pc'[v] = pc[v] /\ job'[v] = job[v] /\ rc'[v] = rc[v] /\ event'[v] = event[v],
           event'[w] # "none" => pc'[w] \in {"poll", "fini"},
           pc'[w] \in {"fini", "record"} => rc'[w] \in Results,
           Hand(w)'
    PROVE  LandInv'
<1>1. \A v \in Workers : Hand(v)'
  BY ZenonT(30) DEF LandInv, Hand, Calls
<1>2. \A s \in Requests : Credited(s)'
  BY Zenon DEF LandInv, Credited
<1>3. QED
  BY <1>1, <1>2, Zenon DEF LandInv

LEMMA LandQuiet ==
    ASSUME TypeOK, CountInv, LandInv, NEW w \in Workers,
           \/ Borrow(w) \/ Create(w) \/ InitFails(w) \/ Issue(w) \/ Poll(w) \/ PollForeign(w)
           \/ PollTimeout(w) \/ PollFails(w) \/ Fini(w)
    PROVE  LandInv'
<1>1. UNCHANGED job /\ \A r \in Requests : Out(r)' = Out(r)
  BY Quiet, SameOut, Zenon DEF QuietStep
<1>2. /\ UNCHANGED <<posted, status, landed>> /\ misled \subseteq misled'
      /\ \A v \in Workers : v # w => pc'[v] = pc[v] /\ rc'[v] = rc[v] /\ event'[v] = event[v]
  <2>1. CASE Borrow(w) \/ Create(w) \/ InitFails(w)
    BY <2>1, Zenon DEF TypeOK, Borrow, Create, InitFails, Goto, handles, ghosts
  <2>2. CASE Issue(w)
    BY <2>2, ZenonT(30) DEF TypeOK, Issue, Goto, handles, ghosts
  <2>3. CASE Fini(w)
    BY <2>3, Zenon DEF TypeOK, Fini, Goto, handles, ghosts
  <2>4. CASE Poll(w) \/ PollForeign(w)
    BY <2>4, Zenon DEF TypeOK, Poll, PollForeign, Goto, handles, ghosts
  <2>5. CASE PollTimeout(w)
    BY <2>5, Zenon DEF TypeOK, PollTimeout, Goto, handles, ghosts
  <2>6. CASE PollFails(w)
    BY <2>6, Zenon DEF TypeOK, PollFails, Goto, handles, ghosts
  <2>7. QED
    BY <2>1, <2>2, <2>3, <2>4, <2>5, <2>6, Zenon
<1>3. SUFFICES /\ event'[w] # "none" => pc'[w] \in {"poll", "fini"}
               /\ pc'[w] \in {"fini", "record"} => rc'[w] \in Results
               /\ Hand(w)'
  BY <1>1, <1>2, LandWorker, Zenon
<1>4. Calls(w) /\ job[w][1] \in Requests
  BY Counted, Zenon DEF Borrow, Create, InitFails, Issue, Poll, PollForeign, PollTimeout, PollFails, Fini, Calls, InCall
<1>5. CASE Borrow(w) \/ Create(w) \/ InitFails(w)
  <2>1. event[w] # "none" => pc[w] \in {"poll", "fini"}
    BY Zenon DEF LandInv
  <2>2. event[w] = "none" /\ UNCHANGED <<event, rc>> /\ pc'[w] \in {"create", "issue"}
    <3>1. CASE Borrow(w)
      BY <2>1, <3>1 DEF Borrow, Goto, TypeOK
    <3>2. CASE Create(w)
      BY <2>1, <3>2, Zenon DEF Create, Goto, TypeOK
    <3>3. CASE InitFails(w)
      BY <2>1, <3>3, Zenon DEF InitFails
    <3>4. QED
      BY <1>5, <3>1, <3>2, <3>3, Zenon
  <2>3. QED
    BY <2>2, Zenon DEF Hand
<1>6. CASE Issue(w)
  BY <1>1, <1>2, <1>4, <1>6 DEF Issue, TypeOK, LandInv, Hand, Goto, Results
<1>7. CASE Poll(w)
  <2>1. /\ pc'[w] = "fini" /\ event[w] \in Results
        /\ rc'[w] = event[w] /\ event' = event /\ misled' = misled
    BY <1>7, Zenon DEF Poll, TypeOK, Goto, ghosts
  <2>2. QED
    BY <1>1, <1>2, <1>4, <2>1, Zenon DEF LandInv, Hand
<1>8. CASE PollForeign(w)
  <2>1. pc'[w] = "fini" /\ rc'[w] \in Results /\ job[w][1] \in misled'
    BY <1>8, Zenon DEF PollForeign, TypeOK, Goto
  <2>2. QED
    BY <1>1, <2>1, Zenon DEF Hand
<1>9. CASE PollTimeout(w) \/ PollFails(w)
  <2>1. pc'[w] = "fini" /\ rc'[w] = "error" /\ event'[w] \in {event[w], "none"} /\ misled' = misled
    <3>1. CASE PollTimeout(w)
      BY <3>1, Zenon DEF PollTimeout, TypeOK, Goto, ghosts
    <3>2. CASE PollFails(w)
      BY <3>2, Zenon DEF PollFails, TypeOK, Goto, ghosts
    <3>3. QED
      BY <1>9, <3>1, <3>2, Zenon
  <2>2. QED
    BY <1>1, <1>2, <1>4, <2>1, Zenon DEF LandInv, Hand, Results
<1>10. CASE Fini(w)
  <2>1. pc[w] = "fini" /\ pc'[w] = "record" /\ event'[w] = "none" /\ rc' = rc /\ misled' = misled
    BY <1>10, Zenon DEF Fini, TypeOK, Goto, ghosts
  <2>2. QED
    BY <1>1, <1>2, <1>4, <2>1, Zenon DEF LandInv, Hand
<1>11. QED
  BY <1>5, <1>6, <1>7, <1>8, <1>9, <1>10, Zenon

LEMMA LandComplete ==
    ASSUME TypeOK, CountInv, LandInv, NEW w \in Workers, NEW how \in Results, Complete(w, how)
    PROVE  LandInv'
<1>1. UNCHANGED job /\ \A r \in Requests : Out(r)' = Out(r)
  BY Quiet, SameOut, Zenon DEF QuietStep
<1>2. Calls(w)
  BY Zenon DEF Complete, LandInv, Calls, InCall
<1>3. PICK r \in Requests, g \in 1 .. Groups : job[w] = <<r, g>>
  BY <1>2, CountedPair, Zenon
<1>4. /\ \A s \in Requests : landed[s] \subseteq landed'[s]
      /\ how = "ok" => g \in landed'[r]
  BY <1>3 DEF Complete, Land, TypeOK
<1>5. /\ UNCHANGED <<posted, status, misled>>
      /\ \A v \in Workers : v # w => pc'[v] = pc[v] /\ rc'[v] = rc[v] /\ event'[v] = event[v]
      /\ \/ event[w] = "flying" /\ event'[w] = how /\ pc'[w] = pc[w] /\ rc'[w] = rc[w]
         \/ pc[w] = "block" /\ rc'[w] = how /\ pc'[w] = "record" /\ event'[w] = event[w]
  BY DEF Complete, Goto, handles, TypeOK
<1>6. \A v \in Workers : Calls(v) => job[v][1] \in Requests
  BY Counted, Zenon
<1>7. \A v \in Workers : v # w => Hand(v)'
  BY <1>1, <1>4, <1>5, <1>6 DEF LandInv, Hand, Calls
<1>8. Hand(w)'
  <2>1. job'[w] = <<r, g>> /\ job'[w][1] = r /\ job'[w][2] = g /\ job[w][1] = r /\ job[w][2] = g
    BY <1>1, <1>3
  <2>2. Hand(w) /\ (event[w] # "none" => pc[w] \in {"poll", "fini"})
    BY Zenon DEF LandInv
  <2>3. CASE event[w] = "flying" /\ event'[w] = how /\ pc'[w] = pc[w] /\ rc'[w] = rc[w]
    BY <1>2, <1>4, <1>5, <2>1, <2>2, <2>3, Zenon DEF Hand, Calls
  <2>4. CASE pc[w] = "block" /\ rc'[w] = how /\ pc'[w] = "record" /\ event'[w] = event[w]
    <3>1. event'[w] = "none"
      BY <2>2, <2>4, Zenon
    <3>2. QED
      BY <1>4, <2>1, <2>4, <3>1, Zenon DEF Hand
  <2>5. QED
    BY <1>5, <2>3, <2>4, Zenon
<1>9. \A s \in Requests : Credited(s)'
  BY <1>1, <1>4, <1>5, Zenon DEF LandInv, Credited
<1>10. QED
  BY <1>5, <1>7, <1>8, <1>9, Zenon DEF LandInv

\* recordError keeps the first error, and turns nothing but a landed group into success.
LEMMA LandRecord ==
    ASSUME TypeOK, CountInv, LandInv, NEW w \in Workers, Record(w)
    PROVE  LandInv'
<1>1. UNCHANGED job /\ \A r \in Requests : Out(r)' = Out(r)
  BY Quiet, SameOut, Zenon DEF QuietStep
<1>2. Calls(w)
  BY Zenon DEF Record, Calls, InCall
<1>3. PICK r \in Requests, g \in 1 .. Groups : job[w] = <<r, g>>
  BY <1>2, CountedPair, Zenon
<1>4. /\ UNCHANGED <<posted, landed, misled, event>> /\ pc[w] = "record" /\ pc'[w] = "finish"
      /\ \A v \in Workers : v # w => pc'[v] = pc[v] /\ rc'[v] = rc[v]
  BY Zenon DEF Record, Goto, ghosts, TypeOK
<1>5. /\ \A s \in Requests : status'[s] = "success" => status[s] = "success"
      /\ status'[r] = "success" => rc[w] = "ok"
  <2>1. status'[r] = IF status[r] = "success" THEN Status(rc[w]) ELSE status[r]
    BY <1>3 DEF Record, TypeOK
  <2>2. rc[w] \in Results
    BY <1>4, Zenon DEF LandInv
  <2>3. Status(rc[w]) = "success" => rc[w] = "ok"
    BY <2>2, Zenon DEF Status, Results
  <2>4. \A s \in Requests : s # r => status'[s] = status[s]
    BY <1>3 DEF Record, TypeOK
  <2>5. QED
    BY <2>1, <2>3, <2>4, Zenon
<1>6. \A v \in Workers : Calls(v) => job[v][1] \in Requests
  BY Counted, Zenon
<1>7. \A v \in Workers : v # w => Hand(v)'
  BY <1>1, <1>4, <1>5, <1>6, Zenon DEF LandInv, Hand, Calls
<1>8. Hand(w)'
  <2>1. job'[w][1] = r /\ job'[w][2] = g /\ job[w][1] = r /\ job[w][2] = g
    BY <1>1, <1>3
  <2>2. r \notin misled /\ rc[w] = "ok" => g \in landed[r]
    BY <1>2, <1>4, <2>1, Zenon DEF LandInv, Hand
  <2>3. event'[w] # "ok"
    BY <1>4, Zenon DEF LandInv
  <2>4. QED
    BY <1>4, <1>5, <2>1, <2>2, <2>3, Zenon DEF Hand
<1>9. \A s \in Requests : Credited(s)'
  BY <1>1, <1>4, <1>5, Zenon DEF LandInv, Credited
<1>10. QED
  BY <1>4, <1>7, <1>8, <1>9, Zenon DEF LandInv

LEMMA LandFinish ==
    ASSUME TypeOK, OnePlace, CountInv, LandInv, NEW w \in Workers, FinishOne(w)
    PROVE  LandInv'
<1>1. Calls(w) /\ pc[w] = "finish"
  BY Zenon DEF FinishOne, Calls, InCall
<1>2. PICK r \in Requests, g \in 1 .. Groups : job[w] = <<r, g>>
  BY <1>1, Counted
<1>3. Out(r)' = Out(r) \ {g} /\ \A s \in Requests : s # r => Out(s)' = Out(s)
  BY <1>2, FinishStep, Zenon
<1>4. /\ UNCHANGED <<posted, status, landed, misled, rc, event>> /\ pc'[w] \in {"notify", "idle"}
      /\ \A v \in Workers : v # w => pc'[v] = pc[v] /\ job'[v] = job[v]
  BY DEF FinishOne, Goto, ghosts, TypeOK
<1>5. \A v \in Workers : Hand(v)'
  BY <1>4, Zenon DEF LandInv, Hand, Calls, InCall
<1>6. r \notin misled /\ status[r] = "success" => g \in landed[r]
  <2>1. Hand(w)
    BY Zenon DEF LandInv
  <2>2. job[w][1] = r /\ job[w][2] = g
    BY <1>2
  <2>3. QED
    BY <1>1, <2>1, <2>2, Zenon DEF Hand
<1>7. \A s \in Requests : Credited(s)'
  BY <1>3, <1>4, <1>6, Zenon DEF LandInv, Credited
<1>8. QED
  BY <1>1, <1>4, <1>5, <1>7, Zenon DEF LandInv

LEMMA LandStep == ASSUME TypeOK, OnePlace, CountInv, LandInv, [Next]_vars PROVE LandInv'
<1>1. CASE UNCHANGED vars \/ Engine
  <2>1. UNCHANGED <<posted, status, landed, misled, pc, job, rc, event, unsent, queue>>
    BY <1>1, Zenon DEF vars, Engine, handles, ghosts
  <2>2. QED
    BY <2>1, SameOut, LandStays, Zenon DEF Calls
<1>2. ASSUME NEW r \in Requests, Prep(r) PROVE LandInv'
  <2>1. pending[r] = 0 /\ UNCHANGED <<unsent, queue, pc, job, rc, event>> /\ misled' = misled \ {r}
    BY <1>2, Zenon DEF Prep, CountInv
  <2>2. ~posted'[r] /\ \A s \in Requests : s # r => posted'[s] = posted[s] /\ status'[s] = status[s] /\ landed'[s] = landed[s]
    BY <1>2, Zenon DEF Prep, TypeOK
  <2>3. \A s \in Requests : Out(s)' = Out(s)
    BY <2>1, SameOut, Zenon DEF Calls
  <2>4. QED
    BY <2>1, <2>2, <2>3, LandAnew, Zenon
<1>3. ASSUME NEW r \in Requests, Post(r) PROVE LandInv'
  <2>1. pending[r] = 0 /\ UNCHANGED <<queue, pc, job, rc, event>> /\ misled' = misled \ {r}
    BY <1>3, Zenon DEF Post
  <2>2. \A s \in Requests : s # r => /\ posted'[s] = posted[s] /\ status'[s] = status[s] /\ landed'[s] = landed[s]
                                     /\ unsent'[s] = unsent[s]
    BY <1>3, Zenon DEF Post, TypeOK
  <2>3. \A s \in Requests : s # r => Out(s)' = Out(s)
    BY <2>1, <2>2, Zenon DEF Out, Calls
  <2>4. QED
    BY <1>3, <2>1, <2>2, <2>3, PostStep, LandAnew, Zenon
<1>4. ASSUME NEW r \in Requests, Submit(r) PROVE LandInv'
  BY <1>4, SubmitStep, LandStays, Zenon DEF Submit, ghosts
<1>5. ASSUME NEW r \in Requests, Release(r) \/ Wake(r) PROVE LandInv'
  <2>1. UNCHANGED <<posted, status, landed, misled, pc, job, rc, event, unsent, queue>>
    BY <1>5, Zenon DEF Release, Wake, ghosts
  <2>2. QED
    BY <2>1, SameOut, LandStays, Zenon DEF Calls
<1>6. ASSUME NEW w \in Workers, Take(w) PROVE LandInv'
  <2>1. /\ UNCHANGED <<posted, status, landed, misled, rc, event>> /\ pc[w] = "idle" /\ pc'[w] = "borrow"
        /\ \A v \in Workers : v # w => pc'[v] = pc[v] /\ job'[v] = job[v]
    BY <1>6, Zenon DEF Take, Goto, handles, ghosts, TypeOK
  <2>2. event[w] = "none"
    BY <2>1, Zenon DEF LandInv
  <2>3. Hand(w)'
    BY <2>1, <2>2, Zenon DEF Hand
  <2>4. QED
    BY <1>6, <2>1, <2>2, <2>3, TakeStep, LandWorker, Zenon
<1>7. ASSUME NEW w \in Workers, Notify(w) PROVE LandInv'
  <2>1. /\ UNCHANGED <<posted, status, landed, misled, rc, event>> /\ pc[w] = "notify" /\ pc'[w] = "idle"
        /\ \A v \in Workers : v # w => pc'[v] = pc[v] /\ job'[v] = job[v]
    BY <1>7, Zenon DEF Notify, Goto, ghosts, TypeOK
  <2>2. event[w] = "none"
    BY <2>1, Zenon DEF LandInv
  <2>3. Hand(w)'
    BY <2>1, <2>2, Zenon DEF Hand
  <2>4. QED
    BY <1>7, <2>1, <2>2, <2>3, NotifyStep, LandWorker, Zenon
<1>8. QED
  BY <1>1, <1>2, <1>3, <1>4, <1>5, <1>6, <1>7, LandQuiet, LandComplete, LandRecord, LandFinish, Zenon
     DEF Next, CallerStep, WorkerStep

XferInv == TypeOK /\ EqInv /\ OnePlace /\ CountInv /\ LandInv

LEMMA XferInit == ASSUME Init PROVE XferInv
<1> USE DEF Init
<1>1. TypeOK
  <2>1. pending \in [Requests -> 0 .. Groups] /\ unsent \in [Requests -> 0 .. Groups]
    BY GroupsAssumption
  <2>2. posted \in [Requests -> BOOLEAN] /\ landed \in [Requests -> SUBSET (1 .. Groups)]
    BY Zenon
  <2>3. queue \in Seq(Requests \X (1 .. Groups)) /\ free \in Seq(1 .. made)
    OBVIOUS
  <2>4. eq \in [Workers -> 0 .. made] /\ made \in Nat
    OBVIOUS
  <2>5. QED
    BY <2>1, <2>2, <2>3, <2>4, Zenon DEF TypeOK, Results, InCall
<1>2. \A w \in Workers : ~Calls(w) /\ pc[w] = "idle" /\ event[w] = "none" /\ job[w] = None
  BY Zenon DEF Calls, InCall
<1>3. \A r \in Requests : Out(r) = {}
  <2>1. \A r \in Requests, g \in 1 .. Groups : ~(g > Groups - unsent[r])
    BY GroupsAssumption
  <2>2. DOMAIN queue = {}
    OBVIOUS
  <2>3. QED
    BY <1>2, <2>1, <2>2, Zenon DEF Out
<1>4. CountInv
  <2>1. \A r \in Requests : pending[r] = Cardinality(Out(r))
    BY <1>3, FS_EmptySet, Zenon
  <2>2. \A r \in Requests : pending[r] = 0 /\ unsent[r] = 0 /\ caller[r] = "gone"
    BY Zenon
  <2>3. \A w \in Workers : ~(pc[w] = "notify")
    BY <1>2, Zenon
  <2>4. QED
    BY <1>2, <2>1, <2>2, <2>3 DEF CountInv
<1>5. EqInv /\ OnePlace
  BY <1>2 DEF EqInv, OnePlace
<1>6. LandInv
  BY <1>2, Zenon DEF LandInv, Hand, Credited
<1>7. QED
  BY <1>1, <1>4, <1>5, <1>6, Zenon DEF XferInv

\* The count of a request is the number of its groups that are out, a group is in one
\* place, and a group that is in has landed unless the request's status says so.
THEOREM XferHolds == Spec => []XferInv
<1>1. XferInv /\ [Next]_vars => XferInv'
  BY XferTypes, CountStep, LandStep, Zenon DEF XferInv
<1>2. QED
  BY <1>1, XferInit, PTL DEF Spec

\* checkXfer says success only when every group's RPC of the last post has succeeded
\* and found its keys, for any number of requests, groups and workers.  Left out are
\* requests that harvested what a failed poll left on an event queue.
THEOREM SuccessReal == Spec => []SuccessIsReal
<1>1. XferInv => SuccessIsReal
  <2> SUFFICES ASSUME XferInv, NEW r \in Requests \ misled, checkXfer(r) = "success"
               PROVE  landed[r] = 1 .. Groups
    BY Zenon DEF SuccessIsReal
  <2>1. posted[r] /\ pending[r] = 0 /\ status[r] = "success"
    BY Zenon DEF checkXfer, XferInv, TypeOK
  <2>2. Out(r) = {}
    BY <2>1, OutEmpty, Zenon DEF XferInv
  <2>3. 1 .. Groups \subseteq landed[r]
    BY <2>1, <2>2, Zenon DEF XferInv, LandInv, Credited
  <2>4. QED
    BY <2>3, Zenon DEF XferInv, TypeOK
<1>2. QED
  BY <1>1, XferHolds, PTL

\* releaseReqH lets the calls finish: a worker is never in a call of a request that
\* has been deleted, for any number of requests, groups and workers.
THEOREM CallsAreOutlived == Spec => []CallsOutlived
<1>1. XferInv => CallsOutlived
  <2> SUFFICES ASSUME XferInv, NEW w \in Workers, Calls(w) PROVE caller[job[w][1]] # "gone"
    BY Zenon DEF CallsOutlived, Calls
  <2>1. job[w][1] \in Requests /\ pending[job[w][1]] # 0
    BY Counted DEF XferInv
  <2>2. QED
    BY <2>1, Zenon DEF XferInv, CountInv
<1>2. QED
  BY <1>1, XferHolds, PTL
-----------------------------------------------------------------------------
(* A caller asleep in waitDone().                                          *)

Notifying(r) == \E w \in Workers : pc[w] = "notify" /\ job[w][1] = r

\* It has groups to wait for, or the worker that counted the last one down has still
\* to notify it: finishOne's decrement and its notify are two steps.
WakeInv == \A r \in Requests : caller[r] = "asleep" => pending[r] # 0 \/ Notifying(r)

\* Whoever sleeps in waitDone() has a waker: one of its groups is in the pool's queue,
\* or in the hands of a worker.
WakerLeft ==
    \A r \in Requests : caller[r] = "asleep" =>
        \/ \E i \in DOMAIN queue : queue[i][1] = r
        \/ \E w \in Workers : job[w] # None /\ job[w][1] = r

\* A step that puts nobody to sleep without a group, and takes no notifying worker away.
LEMMA WakeFrame ==
    ASSUME WakeInv,
           \A s \in Requests : caller'[s] = "asleep" =>
               pending'[s] # 0 \/ (caller[s] = "asleep" /\ pending'[s] = pending[s]),
           \A v \in Workers : pc[v] = "notify" => pc'[v] = "notify" /\ job'[v] = job[v]
    PROVE  WakeInv'
<1> SUFFICES ASSUME NEW s \in Requests, caller'[s] = "asleep", pending'[s] = 0 PROVE Notifying(s)'
  BY Zenon DEF WakeInv
<1>1. caller[s] = "asleep" /\ pending[s] = 0
  BY Zenon
<1>2. PICK w \in Workers : pc[w] = "notify" /\ job[w][1] = s
  BY <1>1, Zenon DEF WakeInv, Notifying
<1>3. pc'[w] = "notify" /\ job'[w][1] = s
  BY <1>2, Zenon
<1>4. QED
  BY <1>3, Zenon DEF Notifying

LEMMA WakeStep == ASSUME TypeOK, CountInv, WakeInv, [Next]_vars PROVE WakeInv'
<1>1. CASE UNCHANGED vars
  BY <1>1, WakeFrame, Zenon DEF vars
<1>2. ASSUME NEW r \in Requests, Prep(r) \/ Post(r) \/ Submit(r) PROVE WakeInv'
  <2>1. /\ UNCHANGED <<pc, job>> /\ caller'[r] # "asleep"
        /\ \A s \in Requests : s # r => caller'[s] = caller[s] /\ pending'[s] = pending[s]
    <3>1. CASE Prep(r)
      BY <3>1, Zenon DEF Prep, TypeOK
    <3>2. CASE Post(r)
      BY <3>2, Zenon DEF Post, TypeOK
    <3>3. CASE Submit(r)
      BY <3>3, Zenon DEF Submit, TypeOK
    <3>4. QED
      BY <1>2, <3>1, <3>2, <3>3, Zenon
  <2>2. QED
    BY <2>1, WakeFrame, Zenon
<1>3. ASSUME NEW r \in Requests, Release(r) \/ Wake(r) PROVE WakeInv'
  <2>1. /\ UNCHANGED <<pc, job, pending>> /\ (caller'[r] = "asleep" => pending[r] # 0)
        /\ \A s \in Requests : s # r => caller'[s] = caller[s]
    BY <1>3, Zenon DEF Release, Wake, Released, TypeOK
  <2>2. QED
    BY <2>1, WakeFrame, Zenon
<1>4. ASSUME NEW w \in Workers, Take(w) PROVE WakeInv'
  <2>1. /\ UNCHANGED <<caller, pending>> /\ pc[w] = "idle"
        /\ \A v \in Workers : v # w => pc'[v] = pc[v] /\ job'[v] = job[v]
    BY <1>4, Zenon DEF Take, Goto, handles, TypeOK
  <2>2. QED
    BY <2>1, WakeFrame, Zenon
<1>5. ASSUME NEW w \in Workers, QuietStep(w) PROVE WakeInv'
  BY <1>5, Quiet, WakeFrame, Zenon
<1>6. ASSUME NEW w \in Workers, FinishOne(w) PROVE WakeInv'
  <2>1. Calls(w) /\ pc[w] = "finish"
    BY <1>6, Zenon DEF FinishOne, Calls, InCall
  <2>2. PICK r \in Requests : job[w][1] = r /\ pending[r] \in 1 .. Groups
    <3>1. job[w] \in Requests \X (1 .. Groups) /\ pending[job[w][1]] \in 1 .. Groups
      BY <2>1, Counted, Zenon
    <3>2. QED
      BY <3>1, Zenon
  <2>3. /\ caller' = caller /\ pending'[r] = pending[r] - 1
        /\ \A s \in Requests : s # r => pending'[s] = pending[s]
        /\ \A v \in Workers : v # w => pc'[v] = pc[v] /\ job'[v] = job[v]
    BY <1>6, <2>2, Zenon DEF FinishOne, Goto, TypeOK
  <2>4. ASSUME NEW s \in Requests, s # r, caller'[s] = "asleep" PROVE pending'[s] # 0 \/ Notifying(s)'
    <3>1. SUFFICES ASSUME pending'[s] = 0 PROVE Notifying(s)'
      BY Zenon
    <3>2. PICK v \in Workers : pc[v] = "notify" /\ job[v][1] = s
      BY <2>3, <2>4, <3>1, Zenon DEF WakeInv, Notifying
    <3>3. pc'[v] = "notify" /\ job'[v][1] = s
      BY <2>1, <2>3, <3>2, Zenon
    <3>4. QED
      BY <3>3, Zenon DEF Notifying
  <2>5. pending'[r] # 0 \/ Notifying(r)'
    <3>1. CASE pending[r] = 1
      <4>1. pc'[w] = "notify" /\ job' = job
        BY <1>6, <2>2, <3>1, Zenon DEF FinishOne, Goto, TypeOK
      <4>2. QED
        BY <2>2, <4>1, Zenon DEF Notifying
    <3>2. CASE pending[r] # 1
      BY <2>2, <2>3, <3>2
    <3>3. QED
      BY <3>1, <3>2, Zenon
  <2>6. QED
    BY <2>4, <2>5, Zenon DEF WakeInv
<1>7. ASSUME NEW w \in Workers, Notify(w) PROVE WakeInv'
  <2>1. job[w] \in Requests \X (1 .. Groups)
    BY <1>7, ZenonT(30) DEF Notify, CountInv, TypeOK
  <2>2. /\ pending' = pending /\ caller'[job[w][1]] # "asleep"
        /\ \A s \in Requests : s # job[w][1] => caller'[s] = caller[s]
        /\ \A v \in Workers : v # w => pc'[v] = pc[v] /\ job'[v] = job[v]
    <3>1. job[w][1] \in Requests
      BY <2>1, Zenon
    <3>2. caller'[job[w][1]] = Woken(caller[job[w][1]])
      BY <1>7, <3>1, Zenon DEF Notify, TypeOK
    <3>3. QED
      BY <1>7, <3>1, <3>2, Zenon DEF Notify, Goto, TypeOK, Woken
  <2>3. QED
    <3> SUFFICES ASSUME NEW s \in Requests, caller'[s] = "asleep", pending'[s] = 0 PROVE Notifying(s)'
      BY Zenon DEF WakeInv
    <3>1. s # job[w][1] /\ caller[s] = "asleep" /\ pending[s] = 0
      BY <2>2, Zenon
    <3>2. PICK v \in Workers : pc[v] = "notify" /\ job[v][1] = s
      BY <3>1, Zenon DEF WakeInv, Notifying
    <3>3. pc'[v] = "notify" /\ job'[v][1] = s
      BY <2>2, <3>1, <3>2, Zenon
    <3>4. QED
      BY <3>3, Zenon DEF Notifying
<1>8. ASSUME Engine PROVE WakeInv'
  BY <1>8, WakeFrame, Zenon DEF Engine, handles
<1>9. QED
  BY <1>1, <1>2, <1>3, <1>4, <1>5, <1>6, <1>7, <1>8, Zenon DEF Next, CallerStep, WorkerStep, QuietStep

\* No wakeup is lost, for any number of requests, groups and workers: a caller that
\* sleeps in releaseReqH, though a group was counted down between its look at the
\* counter and its sleep, always has a group in the queue or in a worker's hands whose
\* end will notify it.  What is left to scheduling is that this worker goes on.
THEOREM NoWakeupLost == Spec => []WakerLeft
<1>1. Init => WakeInv
  BY Zenon DEF Init, WakeInv
<1>2. XferInv /\ WakeInv /\ [Next]_vars => WakeInv'
  BY WakeStep, Zenon DEF XferInv
<1>3. XferInv /\ WakeInv => WakerLeft
  <2> SUFFICES ASSUME XferInv, WakeInv, NEW r \in Requests, caller[r] = "asleep"
               PROVE  \/ \E i \in DOMAIN queue : queue[i][1] = r
                      \/ \E w \in Workers : job[w] # None /\ job[w][1] = r
    BY Zenon DEF WakerLeft
  <2>1. CASE Notifying(r)
    BY <2>1, Zenon DEF Notifying, XferInv, CountInv
  <2>2. CASE pending[r] # 0
    <3>1. PICK g \in Out(r) : TRUE
      BY <2>2, OutFinite, FS_EmptySet, Zenon DEF XferInv, CountInv
    <3>2. unsent[r] \in 0 .. Groups /\ ~(unsent[r] > 0)
      BY Zenon DEF XferInv, CountInv, TypeOK
    <3>3. g \in 1 .. Groups
      BY <3>1, Zenon DEF Out
    <3>4. ~(g > Groups - unsent[r])
      BY <3>2, <3>3, GroupsAssumption
    <3>5. \/ \E i \in DOMAIN queue : queue[i] = <<r, g>>
          \/ \E w \in Workers : Calls(w) /\ job[w] = <<r, g>>
      BY <3>1, <3>4, Zenon DEF Out
    <3>6. <<r, g>>[1] = r
      OBVIOUS
    <3>7. \A w \in Workers : Calls(w) => job[w] # None
      BY Zenon DEF XferInv, CountInv
    <3>8. QED
      BY <3>5, <3>6, <3>7, Zenon
  <2>3. QED
    BY <2>1, <2>2, Zenon DEF WakeInv
<1>4. QED
  BY <1>1, <1>2, <1>3, XferHolds, PTL DEF Spec
-----------------------------------------------------------------------------
(* Registrations.                                                          *)

\* The registrations in container c.
Members(c) == {m \in Live : md[m].cont = c}

\* The entry of conts_ for a container with n registrations.
Entry(n) == [refs |-> n, poh |-> IF n > 0 THEN 1 ELSE 0, coh |-> IF n > 0 THEN 1 ELSE 0]

\* Registrations come one at a time, so those of a container are finitely many.
RefsInv ==
    /\ md \in [Regs -> Registration \cup {NoReg}]
    /\ conts = [c \in Conts |-> Entry(Cardinality(Members(c)))]
    /\ \A c \in Conts : IsFiniteSet(Members(c))

LEMMA NotNone == \A x \in Registration : x # NoReg /\ x.cont \in Conts
  BY DEF Registration, NoReg

LEMMA PutGet == ASSUME NEW n \in Nat
                PROVE  /\ getCont(Entry(n)) = Entry(n + 1)
                       /\ n > 0 => putCont(Entry(n)) = Entry(n - 1)
                       /\ Swept(Entry(n)) = Entry(0)
<1>1. getCont(Entry(n)) = Entry(n + 1)
  BY DEF getCont, Entry
<1>2. n > 0 => putCont(Entry(n)) = Entry(n - 1)
  BY DEF putCont, Entry
<1>3. Swept(Entry(n)) = Entry(0)
  BY DEF Swept, Entry
<1>4. QED
  BY <1>1, <1>2, <1>3, Zenon

\* An error path of registerMem leaves the entry as it was.
LEMMA UndoneSame == ASSUME NEW n \in Nat, NEW at \in {"connect", "open", "object"}
                    PROVE  Undone(Entry(n), at) = Entry(n)
<1>1. at = "connect" => Undone(Entry(n), at) = Entry(n)
  BY Zenon DEF Undone
<1>2. at = "open" => Undone(Entry(n), at) = Entry(n)
  <2>1. [Entry(n) EXCEPT !.poh = @ + 1] = [refs |-> n, poh |-> (IF n > 0 THEN 1 ELSE 0) + 1, coh |-> IF n > 0 THEN 1 ELSE 0]
    BY DEF Entry
  <2>2. [[refs |-> n, poh |-> (IF n > 0 THEN 1 ELSE 0) + 1, coh |-> IF n > 0 THEN 1 ELSE 0] EXCEPT !.poh = @ - 1] = Entry(n)
    BY DEF Entry
  <2>3. QED
    BY <2>1, <2>2, Zenon DEF Undone
<1>3. at = "object" => Undone(Entry(n), at) = putCont(getCont(Entry(n)))
  BY Zenon DEF Undone
<1>4. putCont(getCont(Entry(n))) = Entry(n)
  BY PutGet
<1>5. QED
  BY <1>1, <1>2, <1>3, <1>4, Zenon

LEMMA RefsStep == ASSUME RefsInv, [RegNext]_regVars PROVE RefsInv'
<1>1. \A c \in Conts : Cardinality(Members(c)) \in Nat
  BY FS_CardinalityType, Zenon DEF RefsInv
<1>2. ASSUME NEW m \in Regs, NEW c \in Conts, NEW d \in DevIds, NEW o \in Oids \cup {NoOid}, registerMem(m, c, d, o)
      PROVE  RefsInv'
  <2> DEFINE new == [cont |-> c, oid |-> oid_of(d, o), dev |-> d]
  <2>1. new \in Registration /\ new.cont = c
    BY Zenon DEF Registration, Objects, oid_of
  <2> HIDE DEF new
  <2>2. md' = [md EXCEPT ![m] = new] /\ md[m] = NoReg /\ conts' = [conts EXCEPT ![c] = getCont(@)]
    BY <1>2, Zenon DEF registerMem, new
  <2>3. md' \in [Regs -> Registration \cup {NoReg}]
    BY <2>1, <2>2, Zenon DEF RefsInv
  <2>4. Members(c)' = Members(c) \cup {m} /\ m \notin Members(c)
    BY <2>1, <2>2, <2>3, NotNone, Zenon DEF RefsInv, Members, Live
  <2>5. \A b \in Conts : b # c => Members(b)' = Members(b)
    BY <2>1, <2>2, <2>3, NotNone, Zenon DEF RefsInv, Members, Live
  <2>6. IsFiniteSet(Members(c)') /\ Cardinality(Members(c)') = Cardinality(Members(c)) + 1
    BY <2>4, FS_AddElement, Zenon DEF RefsInv
  <2>7. conts'[c] = Entry(Cardinality(Members(c)'))
    BY <1>1, <2>2, <2>6, PutGet, Zenon DEF RefsInv
  <2>8. conts' = [b \in Conts |-> Entry(Cardinality(Members(b)'))]
    BY <2>2, <2>5, <2>7, Zenon DEF RefsInv
  <2>9. QED
    BY <2>3, <2>5, <2>6, <2>8, Zenon DEF RefsInv
<1>3. ASSUME NEW c \in Conts, NEW at \in {"connect", "open", "object"}, RegisterFails(c, at) PROVE RefsInv'
  <2>1. UNCHANGED md /\ conts' = [conts EXCEPT ![c] = Undone(@, at)]
    BY <1>3, Zenon DEF RegisterFails
  <2>2. Undone(conts[c], at) = conts[c]
    BY <1>1, UndoneSame, Zenon DEF RefsInv
  <2>3. conts' = conts
    BY <2>1, <2>2, Zenon DEF RefsInv
  <2>4. QED
    BY <2>1, <2>3 DEF RefsInv, Members, Live
<1>4. ASSUME NEW m \in Regs, deregisterMem(m) PROVE RefsInv'
  <2>1. PICK c \in Conts : md[m].cont = c /\ m \in Live
    BY <1>4, NotNone, Zenon DEF deregisterMem, Live, RefsInv
  <2>2. md' = [md EXCEPT ![m] = NoReg] /\ conts' = [conts EXCEPT ![c] = putCont(@)]
    BY <1>4, <2>1, Zenon DEF deregisterMem
  <2>3. md' \in [Regs -> Registration \cup {NoReg}]
    BY <2>2, Zenon DEF RefsInv
  <2>4. Members(c)' = Members(c) \ {m} /\ m \in Members(c)
    BY <2>1, <2>2, Zenon DEF RefsInv, Members, Live
  <2>5. \A b \in Conts : b # c => Members(b)' = Members(b)
    BY <2>1, <2>2, Zenon DEF RefsInv, Members, Live
  <2>6. IsFiniteSet(Members(c)') /\ Cardinality(Members(c)') = Cardinality(Members(c)) - 1
    BY <2>4, FS_RemoveElement, Zenon DEF RefsInv
  <2>7. Cardinality(Members(c)) > 0
    BY <1>1, <2>4, FS_EmptySet DEF RefsInv
  <2>8. conts'[c] = Entry(Cardinality(Members(c)'))
    BY <1>1, <2>2, <2>6, <2>7, PutGet, Zenon DEF RefsInv
  <2>9. conts' = [b \in Conts |-> Entry(Cardinality(Members(b)'))]
    BY <2>2, <2>5, <2>8, Zenon DEF RefsInv
  <2>10. QED
    BY <2>3, <2>5, <2>6, <2>9, Zenon DEF RefsInv
<1>5. CASE Destroy
  <2>1. md' = [m \in Regs |-> NoReg] /\ conts' = [c \in Conts |-> Swept(conts[c])]
    BY <1>5, Zenon DEF Destroy
  <2>2. \A c \in Conts : Members(c)' = {}
    BY <2>1, Zenon DEF Members, Live
  <2>3. \A c \in Conts : Swept(conts[c]) = Entry(0)
    BY <1>1, PutGet, Zenon DEF RefsInv
  <2>4. \A c \in Conts : IsFiniteSet(Members(c)') /\ Cardinality(Members(c)') = 0
    BY <2>2, FS_EmptySet, Zenon
  <2>5. conts' = [c \in Conts |-> Entry(Cardinality(Members(c)'))]
    BY <2>1, <2>3, <2>4, Zenon
  <2>6. QED
    BY <2>1, <2>4, <2>5, Zenon DEF RefsInv
<1>6. CASE Construct \/ UNCHANGED regVars
  BY <1>6, Zenon DEF Construct, regVars, RefsInv, Members, Live
<1>7. QED
  BY <1>2, <1>3, <1>4, <1>5, <1>6, Zenon DEF RegNext

\* A container's count is the number of its live registrations, and its handles are
\* open exactly while there is one, for any number of registrations, containers and
\* devices.
THEOREM RefsAreExact == RegSpec => []RefsExact
<1>1. RegInit => RefsInv
  <2> SUFFICES ASSUME RegInit PROVE RefsInv
    BY Zenon
  <2>1. \A c \in Conts : Members(c) = {}
    BY Zenon DEF RegInit, Members, Live
  <2>2. Closed = Entry(0)
    BY DEF Closed, Entry
  <2>3. \A c \in Conts : IsFiniteSet(Members(c)) /\ Cardinality(Members(c)) = 0
    BY <2>1, FS_EmptySet, Zenon
  <2>4. QED
    BY <2>2, <2>3, Zenon DEF RegInit, RefsInv
<1>2. RefsInv => RefsExact
  BY Zenon DEF RefsInv, RefsExact, Members, Entry
<1>3. QED
  BY <1>1, <1>2, RefsStep, PTL DEF RegSpec

\* A non-empty set of indices has a largest one.
LEMMA HasLast == ASSUME NEW n \in Nat, NEW S \in SUBSET (1 .. n), S # {} PROVE \E x \in S : \A y \in S : y =< x
<1> DEFINE T == {k \in Nat : n - k \in S}
<1>1. \A y \in S : n - y \in T
  OBVIOUS
<1>2. T # {}
  BY <1>1, Zenon
<1>3. PICK k \in T : \A j \in T : ~(<<j, k>> \in OpToRel(<, Nat))
  BY <1>2, NatLessThanWellFounded, WFMin, Zenon
<1>4. \A i, j \in Nat : i < j => <<i, j>> \in OpToRel(<, Nat)
  BY Zenon DEF OpToRel
<1>5. \A j \in T : ~(j < k)
  BY <1>3, <1>4, Zenon
<1>6. QED
  BY <1>1, <1>5

\* A dkey and an akey give the offset back.
LEMMA OffsetBack == ASSUME NEW a \in Nat, Span \in Nat \ {0} PROVE dkey(a) * Span + akey(a) = a
<1>1. ASSUME NEW n \in Nat \ {0} PROVE (a \div n) * n + (a % n) = a
  OBVIOUS
<1>2. QED
  BY <1>1, Zenon DEF dkey, akey

\* The indices of a list whose descriptors fall into bucket b.
InBucket(list, b) == {i \in DOMAIN list : Bucket(list[i]) = b}

\* A group's handle is that of a descriptor of its bucket.
LEMMA GroupShape ==
    ASSUME MaxList \in Nat, NEW list \in Lists, NEW i \in DOMAIN list
    PROVE  LET b == Bucket(list[i])
               g == Group(list, b)
           IN  /\ \E k \in InBucket(list, b) : g.oh = list[k].md
               /\ g.dkey = dkey(list[i].addr)
               /\ g.ents = {[desc |-> j, akey |-> akey(list[j].addr)] : j \in InBucket(list, b)}
<1> DEFINE b == Bucket(list[i])
           in == InBucket(list, b)
           last == CHOOSE k \in in : \A j \in in : j =< k
<1>1. PICK n \in 0 .. MaxList : list \in [1 .. n -> Descriptor]
  BY Zenon DEF Lists
<1>2. in \in SUBSET (1 .. n) /\ i \in in
  BY <1>1, Zenon DEF InBucket
<1> HIDE DEF in
<1>3. \E k \in in : \A j \in in : j =< k
  <2>1. n \in Nat /\ in # {}
    BY <1>2
  <2>2. QED
    BY <1>2, <2>1, HasLast, Zenon
<1>4. last \in in
  BY <1>3, Zenon
<1>5. Group(list, b) = [oh |-> list[last].md, dkey |-> b[2], ents |-> {[desc |-> j, akey |-> akey(list[j].addr)] : j \in in}]
  BY Zenon DEF Group, InBucket, in
<1>6. b[2] = dkey(list[i].addr)
  BY Zenon DEF Bucket
<1> HIDE DEF last
<1>7. /\ Group(list, b).oh = list[last].md /\ Group(list, b).dkey = b[2]
      /\ Group(list, b).ents = {[desc |-> j, akey |-> akey(list[j].addr)] : j \in in}
  <2>1. PICK g : g = Group(list, b)
    BY Zenon
  <2>2. PICK o : o = list[last].md
    BY Zenon
  <2>3. PICK s : s = {[desc |-> j, akey |-> akey(list[j].addr)] : j \in in}
    BY Zenon
  <2>4. g = [oh |-> o, dkey |-> b[2], ents |-> s]
    BY <1>5, <2>1, <2>2, <2>3, Zenon
  <2>5. g.oh = o /\ g.dkey = b[2] /\ g.ents = s
    BY <2>4, Zenon
  <2>6. QED
    BY <2>1, <2>2, <2>3, <2>5, Zenon
<1>8. QED
  BY <1>4, <1>6, <1>7, Zenon DEF in

\* In any state of the registrations prepXfer moves a descriptor once, and to its object.
LEMMA GroupsRight ==
    ASSUME Span \in Nat \ {0}, MaxList \in Nat, Addrs \subseteq Nat
    PROVE  RightObject
<1> SUFFICES ASSUME NEW list \in Lists, Valid(list), OneObjectPerDev(list), NEW i \in DOMAIN list
             PROVE  LET at == {p \in prepXfer(list) \X UNION {g.ents : g \in prepXfer(list)} :
                                  p[2] \in p[1].ents /\ p[2].desc = i}
                    IN  /\ Cardinality(at) = 1
                        /\ \A p \in at :
                              /\ p[1].dkey * Span + p[2].akey = list[i].addr
                              /\ md[p[1].oh].cont = md[list[i].md].cont
                              /\ md[p[1].oh].oid = md[list[i].md].oid
  BY Zenon DEF RightObject
<1> DEFINE b == Bucket(list[i])
           G == Group(list, b)
           E == [desc |-> i, akey |-> akey(list[i].addr)]
           at == {p \in prepXfer(list) \X UNION {g.ents : g \in prepXfer(list)} :
                     p[2] \in p[1].ents /\ p[2].desc = i}
<1>1. prepXfer(list) = {Group(list, Bucket(list[j])) : j \in DOMAIN list}
  BY Zenon DEF prepXfer
<1>2. G \in prepXfer(list) /\ E \in G.ents
  <2>1. i \in InBucket(list, b)
    BY Zenon DEF InBucket
  <2>2. QED
    BY <1>1, <2>1, GroupShape
<1>3. ASSUME NEW g \in prepXfer(list), NEW e \in g.ents, e.desc = i PROVE g = G /\ e = E
  <2>1. PICK j \in DOMAIN list : g = Group(list, Bucket(list[j]))
    BY <1>1, Zenon
  <2>2. PICK k \in InBucket(list, Bucket(list[j])) : e = [desc |-> k, akey |-> akey(list[k].addr)]
    <3>1. g.ents = {[desc |-> k, akey |-> akey(list[k].addr)] : k \in InBucket(list, Bucket(list[j]))}
      BY <2>1, GroupShape, Zenon
    <3>2. QED
      BY <3>1, Zenon
  <2>3. k = i
    BY <1>3, <2>2, Zenon
  <2>4. QED
    BY <2>1, <2>2, <2>3, Zenon DEF InBucket
<1> HIDE DEF G, E
<1>4. at = {<<G, E>>}
  <2>1. <<G, E>> \in at
    BY <1>2, Zenon DEF E
  <2>2. \A p \in at : p = <<G, E>>
    BY <1>3
  <2>3. QED
    BY <2>1, <2>2, Zenon
<1>5. Cardinality(at) = 1
  <2>1. Cardinality({<<G, E>>}) = 1
    BY FS_Singleton, Zenon
  <2>2. QED
    BY <1>4, <2>1, Zenon
<1>6. G.dkey * Span + E.akey = list[i].addr
  <2>1. G.dkey = dkey(list[i].addr)
    BY GroupShape, Zenon DEF G
  <2>2. list[i].addr \in Nat
    <3>1. PICK n \in 0 .. MaxList : list \in [1 .. n -> Descriptor]
      BY Zenon DEF Lists
    <3>2. list[i] \in Descriptor
      BY <3>1, Zenon
    <3>3. QED
      BY <3>2, Zenon DEF Descriptor
  <2>3. QED
    BY <2>1, <2>2, OffsetBack, Zenon DEF E
<1>7. md[G.oh].cont = md[list[i].md].cont /\ md[G.oh].oid = md[list[i].md].oid
  <2>1. PICK k \in InBucket(list, b) : G.oh = list[k].md
    BY GroupShape, Zenon DEF G
  <2>2. k \in DOMAIN list /\ md[list[k].md].dev = md[list[i].md].dev
    BY Zenon DEF InBucket, Bucket
  <2>3. QED
    BY <2>1, <2>2 DEF OneObjectPerDev
<1>8. \A p \in at : p[1] = G /\ p[2] = E
  BY <1>4
<1> HIDE DEF at
<1>9. \A p \in at : /\ p[1].dkey * Span + p[2].akey = list[i].addr
                   /\ md[p[1].oh].cont = md[list[i].md].cont
                   /\ md[p[1].oh].oid = md[list[i].md].oid
  BY <1>6, <1>7, <1>8, Zenon
<1>10. QED
  BY <1>5, <1>9, Zenon DEF at

\* Every descriptor of an accepted list with one object per devId is moved once, to
\* its own object, under a dkey and an akey that give its offset back, for any span,
\* any offsets and lists of any length.
THEOREM ObjectRight == RegSpec => []RightObject
<1>1. RightObject
  BY GroupsRight, SpanAssumption, AddrsAssumption, Zenon
<1>2. QED
  BY <1>1, PTL
=============================================================================
