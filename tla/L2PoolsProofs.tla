---------------------------- MODULE L2PoolsProofs ----------------------------
(***************************************************************************)
(* Proofs about the L2 adapter's pools and its fair dispatcher, for any    *)
(* set of tasks, any number of keys of a task and any number of workers.   *)
(***************************************************************************)
EXTENDS L2Pools, FiniteSetTheorems, TLAPS

Queued(p) == Range(queue[p])
Mine(S, t) == {m \in S : m[1] = t}
Held == IF picked # <<>> THEN {picked} ELSE {}

\* Every task _inflight counts: a refused one stays counted.
InFlight == {t \in Tasks : phase[t] \in {"queued", "run", "refused"}}

\* The task pool runs what it was given once, and once it is joined no task is
\* queued or running: later ones are refused.
TaskInv ==
    /\ IsInjective(waiting)
    /\ \A t \in Tasks : phase[t] = "queued" <=> t \in Range(waiting)
    /\ IsFiniteSet(InFlight) /\ inflight = Cardinality(InFlight)
    /\ stage \in {"io", "meta", "dfs", "closed"} => \A t \in Tasks : phase[t] \notin {"queued", "run"}
    /\ ~mounted => stage \in {"dfs", "closed"}
    /\ ~signals => stage = "closed"

\* The items the dispatcher has not picked are the last ones of their call.
Unpicked(t) == {i \in Indices : i > Width - Len(queues[t])}

\* What the dispatcher has queued is the end of a running call's items, and these
\* are nowhere else.
CallsInv ==
    \A t \in Tasks :
        /\ Len(queues[t]) =< Width
        /\ \A j \in 1 .. Len(queues[t]) : queues[t][j] = Width - Len(queues[t]) + j
        /\ queues[t] # <<>> => phase[t] = "run" /\ kind[t] = "fair"

FreshInv ==
    \A t \in Tasks : \A i \in Unpicked(t) :
        <<t, i>> # picked /\ <<t, i>> \notin Queued("io") /\ <<t, i>> \notin running /\ <<t, i>> \notin results

\* An item waits in one place, once, has no result while it does, and belongs to
\* a task that runs.
HeldInv ==
    picked # <<>> =>
        /\ phase[picked[1]] = "run" /\ kind[picked[1]] = "fair"
        /\ picked \notin Queued("io") /\ picked \notin running /\ picked \notin results

QueueInv ==
    \A p \in Pools :
        /\ IsInjective(queue[p])
        /\ \A m \in Queued(p) : /\ phase[m[1]] = "run" /\ PoolOf(m[1]) = p
                                /\ m \notin running /\ m \notin results

RunInv ==
    /\ \A m \in running : phase[m[1]] = "run" /\ m \notin results
    /\ \A m \in results : phase[m[1]] \in {"run", "done"}
    /\ \A m \in released : phase[m[1]] = "run" /\ kind[m[1]] = "fair" /\ m \in results

PlaceInv == CallsInv /\ FreshInv /\ HeldInv /\ QueueInv /\ RunInv

\* No item of a task that runs is lost.
CoverInv ==
    \A t \in Tasks :
        /\ phase[t] = "run" => \A i \in Indices :
               \/ i \in Unpicked(t)
               \/ <<t, i>> = picked
               \/ <<t, i>> \in Queued(PoolOf(t))
               \/ <<t, i>> \in running
               \/ <<t, i>> \in results
        /\ phase[t] = "done" => ItemsOf(t) \subseteq results

\* What a call still waits for, and the slots of the semaphore.
LeftInv ==
    /\ \A t \in Tasks : left[t] = Len(queues[t]) + Cardinality(Mine(Held, t))
                                  + Cardinality(Mine(FairItems, t)) + Cardinality(Mine(released, t))
    /\ IsFiniteSet(FairItems) /\ slots + Cardinality(FairItems) = Slots

\* The call at position i of the order has its turn before the one at position j.
Ahead(i, j) == IF i > rr <=> j > rr THEN i < j ELSE i > rr

\* The order holds the calls with items left, once each, and one that has had a
\* turn since the last one of another comes after that other.
OrderInv ==
    /\ IsInjective(order)
    /\ \A t \in Tasks : t \in Range(order) <=> queues[t] # <<>>
    /\ \A t \in Tasks : phase[t] \notin {"run", "done"} =>
           passed[t] = Zero /\ \A c \in Tasks : passed[c][t] = 0
    /\ \A i \in DOMAIN order : \A d \in Tasks : passed[order[i]][d] =< 1
    /\ \A i, j \in DOMAIN order : passed[order[i]][order[j]] = 1 => Ahead(i, j)

PoolsInv == TypeOK /\ TaskInv /\ PlaceInv /\ CoverInv /\ LeftInv /\ OrderInv
-----------------------------------------------------------------------------
(* Sequences.                                                              *)

\* Naturals that add up to nothing are nothing.
LEMMA SumOfNone ==
    ASSUME NEW a \in Nat, NEW b \in Nat, NEW c \in Nat, NEW d \in Nat, a + b + c + d = 0
    PROVE  a = 0 /\ b = 0 /\ c = 0 /\ d = 0
  OBVIOUS

LEMMA TailOfOne ==
    ASSUME NEW T, NEW q \in Seq(T), Len(q) = 1
    PROVE  Tail(q) = <<>>
<1>1. q # <<>>
  <2>1. q = <<>> => Len(q) = 0
    OBVIOUS
  <2>2. QED
    BY <2>1
<1>2. Tail(q) \in Seq(T) /\ Len(Tail(q)) = Len(q) - 1
  BY <1>1
<1>3. Len(Tail(q)) = 0
  BY <1>2
<1>4. \A r \in Seq(T) : Len(r) = 0 => r = <<>>
  OBVIOUS
<1>5. QED
  BY <1>2, <1>3, <1>4, Zenon

LEMMA AppendFacts ==
    ASSUME NEW T, NEW q \in Seq(T), NEW x \in T
    PROVE  /\ Append(q, x) \in Seq(T)
           /\ Range(Append(q, x)) = Range(q) \cup {x}
           /\ IsInjective(q) /\ x \notin Range(q) => IsInjective(Append(q, x))
<1>1. /\ Append(q, x) \in Seq(T) /\ Len(Append(q, x)) = Len(q) + 1 /\ Len(q) \in Nat
      /\ DOMAIN q = 1 .. Len(q) /\ DOMAIN Append(q, x) = 1 .. Len(q) + 1
      /\ \A i \in 1 .. Len(q) : Append(q, x)[i] = q[i]
      /\ Append(q, x)[Len(q) + 1] = x
  OBVIOUS
<1>2. Range(Append(q, x)) = Range(q) \cup {x}
  BY <1>1 DEF Range
<1>3. IsInjective(q) /\ x \notin Range(q) => IsInjective(Append(q, x))
  BY <1>1 DEF Range, IsInjective
<1>4. QED
  BY <1>1, <1>2, <1>3, Zenon

LEMMA TailFacts ==
    ASSUME NEW T, NEW q \in Seq(T), q # <<>>, IsInjective(q)
    PROVE  /\ Head(q) \in T /\ Tail(q) \in Seq(T)
           /\ Head(q) \in Range(q)
           /\ Range(Tail(q)) = Range(q) \ {Head(q)}
           /\ IsInjective(Tail(q))
<1>1. Len(q) \in Nat \ {0} /\ DOMAIN q = 1 .. Len(q) /\ q[1] = Head(q)
  OBVIOUS
<1>2. Head(q) \in T /\ Tail(q) \in Seq(T) /\ Len(Tail(q)) = Len(q) - 1
      /\ \A i \in 1 .. Len(q) - 1 : Tail(q)[i] = q[i + 1]
  OBVIOUS
<1>3. DOMAIN Tail(q) = 1 .. Len(q) - 1
  BY <1>2
<1>4. IsInjective(Tail(q)) /\ Head(q) \in Range(q)
  BY <1>1, <1>2, <1>3 DEF IsInjective, Range
<1>5. Range(Tail(q)) \subseteq Range(q) \ {Head(q)}
  BY <1>1, <1>2, <1>3 DEF IsInjective, Range
<1>6. ASSUME NEW x \in Range(q), x # Head(q) PROVE x \in Range(Tail(q))
  <2>1. PICK i \in 1 .. Len(q) : q[i] = x
    BY <1>1, <1>6, Zenon DEF Range
  <2>2. i - 1 \in 1 .. Len(q) - 1 /\ Tail(q)[i - 1] = x
    BY <1>1, <1>2, <1>6, <2>1
  <2>3. QED
    BY <1>3, <2>2, Zenon DEF Range
<1>7. QED
  BY <1>2, <1>4, <1>5, <1>6, Zenon

LEMMA JoinFacts ==
    ASSUME NEW T, NEW q \in Seq(T), NEW r \in Seq(T)
    PROVE  /\ q \o r \in Seq(T) /\ Len(q \o r) = Len(q) + Len(r)
           /\ \A i \in 1 .. Len(q) : (q \o r)[i] = q[i]
           /\ \A i \in 1 .. Len(q) + Len(r) : i > Len(q) => (q \o r)[i] = r[i - Len(q)]
           /\ Range(q \o r) = Range(q) \cup Range(r)
           /\ IsInjective(q) /\ IsInjective(r) /\ Range(q) \cap Range(r) = {} => IsInjective(q \o r)
<1>1. q \o r \in Seq(T) /\ Len(q \o r) = Len(q) + Len(r) /\ Len(q) \in Nat /\ Len(r) \in Nat
  OBVIOUS
<1>2. /\ DOMAIN (q \o r) = 1 .. Len(q) + Len(r) /\ DOMAIN q = 1 .. Len(q) /\ DOMAIN r = 1 .. Len(r)
      /\ \A i \in 1 .. Len(q) : (q \o r)[i] = q[i]
      /\ \A i \in 1 .. Len(q) + Len(r) : i > Len(q) => (q \o r)[i] = r[i - Len(q)]
  OBVIOUS
<1>3. Range(q \o r) \subseteq Range(q) \cup Range(r)
  <2>1. SUFFICES ASSUME NEW i \in 1 .. Len(q) + Len(r) PROVE (q \o r)[i] \in Range(q) \cup Range(r)
    BY <1>2, Zenon DEF Range
  <2>2. CASE i =< Len(q)
    BY <1>1, <1>2, <2>2 DEF Range
  <2>3. CASE i > Len(q)
    BY <1>1, <1>2, <2>3 DEF Range
  <2>4. QED
    BY <1>1, <2>2, <2>3
<1>4. Range(q) \subseteq Range(q \o r)
  BY <1>1, <1>2 DEF Range
<1>5. Range(r) \subseteq Range(q \o r)
  <2>1. SUFFICES ASSUME NEW i \in 1 .. Len(r) PROVE r[i] \in Range(q \o r)
    BY <1>2, Zenon DEF Range
  <2>2. i + Len(q) \in 1 .. Len(q) + Len(r) /\ (q \o r)[i + Len(q)] = r[i]
    BY <1>1, <1>2
  <2>3. QED
    BY <1>2, <2>2, Zenon DEF Range
<1>6. ASSUME IsInjective(q), IsInjective(r), Range(q) \cap Range(r) = {} PROVE IsInjective(q \o r)
  <2>1. SUFFICES ASSUME NEW i \in 1 .. Len(q) + Len(r), NEW j \in 1 .. Len(q) + Len(r), (q \o r)[i] = (q \o r)[j]
                 PROVE  i = j
    BY <1>2, Zenon DEF IsInjective
  <2>2. CASE i =< Len(q) /\ j =< Len(q)
    BY <1>1, <1>2, <1>6, <2>1, <2>2 DEF IsInjective
  <2>3. CASE i > Len(q) /\ j > Len(q)
    <3>1. i - Len(q) \in 1 .. Len(r) /\ j - Len(q) \in 1 .. Len(r)
      BY <1>1, <2>3
    <3>2. r[i - Len(q)] = r[j - Len(q)]
      BY <1>2, <2>1, <2>3, Zenon
    <3>3. QED
      BY <1>1, <1>2, <1>6, <3>1, <3>2 DEF IsInjective
  <2>4. ASSUME NEW k \in 1 .. Len(q) + Len(r)
        PROVE  /\ k =< Len(q) => (q \o r)[k] \in Range(q)
               /\ k > Len(q) => (q \o r)[k] \in Range(r)
    <3>1. CASE k =< Len(q)
      BY <1>1, <1>2, <3>1 DEF Range
    <3>2. CASE k > Len(q)
      BY <1>1, <1>2, <3>2 DEF Range
    <3>3. QED
      BY <1>1, <3>1, <3>2, Zenon
  <2>5. ~(i =< Len(q) /\ j > Len(q)) /\ ~(i > Len(q) /\ j =< Len(q))
    BY <1>6, <2>1, <2>4, Zenon
  <2>6. QED
    BY <1>1, <2>2, <2>3, <2>5
<1>7. QED
  BY <1>1, <1>2, <1>3, <1>4, <1>5, <1>6, Zenon

\* The items of a call as map() submits them, and as run() queues them.
LEMMA AllItems ==
    ASSUME NEW t \in Tasks
    PROVE  LET q == [i \in Indices |-> <<t, i>>]
           IN  q \in Seq(Item) /\ IsInjective(q) /\ Range(q) = ItemsOf(t)
BY WidthAssumption DEF Indices, Item, ItemsOf, Range, IsInjective

LEMMA AllIndices ==
    LET q == [i \in Indices |-> i]
    IN  q \in Seq(Indices) /\ Len(q) = Width /\ q # <<>> /\ \A j \in 1 .. Width : q[j] = j
BY WidthAssumption DEF Indices

LEMMA RemoveFacts ==
    ASSUME NEW T, NEW q \in Seq(T), NEW a \in Nat, a < Len(q)
    PROVE  LET r == SubSeq(q, 1, a) \o SubSeq(q, a + 2, Len(q))
           IN  /\ r \in Seq(T) /\ Len(r) = Len(q) - 1
               /\ \A k \in 1 .. Len(q) - 1 : r[k] = IF k =< a THEN q[k] ELSE q[k + 1]
<1> DEFINE u == SubSeq(q, 1, a)
<1> DEFINE v == SubSeq(q, a + 2, Len(q))
<1>1. u \in Seq(T) /\ Len(u) = a /\ \A k \in 1 .. a : u[k] = q[k]
  OBVIOUS
<1>2. v \in Seq(T) /\ Len(v) = Len(q) - a - 1 /\ \A k \in 1 .. Len(q) - a - 1 : v[k] = q[k + a + 1]
  OBVIOUS
<1> HIDE DEF u, v
<1>0. Len(q) \in Nat
  OBVIOUS
<1>3. u \o v \in Seq(T) /\ Len(u \o v) = Len(q) - 1
  <2>1. u \o v \in Seq(T) /\ Len(u \o v) = Len(u) + Len(v)
    BY <1>1, <1>2, JoinFacts, Zenon
  <2>2. QED
    BY <1>0, <1>1, <1>2, <2>1
<1>4. ASSUME NEW k \in 1 .. Len(q) - 1 PROVE (u \o v)[k] = IF k =< a THEN q[k] ELSE q[k + 1]
  <2>0. /\ \A i \in 1 .. Len(u) : (u \o v)[i] = u[i]
        /\ \A i \in 1 .. Len(u) + Len(v) : i > Len(u) => (u \o v)[i] = v[i - Len(u)]
    BY <1>1, <1>2, JoinFacts
  <2>1. CASE k =< a
    BY <1>0, <1>1, <1>2, <2>0, <2>1
  <2>2. CASE k > a
    <3>1. k - a \in 1 .. Len(q) - a - 1 /\ (u \o v)[k] = v[k - a]
      BY <1>0, <1>1, <1>2, <2>0, <2>2
    <3>2. v[k - a] = q[(k - a) + a + 1]
      BY <1>2, <3>1, Zenon
    <3>3. QED
      BY <2>2, <3>1, <3>2
  <2>3. k =< a \/ k > a
    BY <1>0
  <2>4. QED
    BY <2>1, <2>2, <2>3, Zenon
<1>5. QED
  BY <1>3, <1>4, Zenon DEF u, v
-----------------------------------------------------------------------------
(* Types.                                                                  *)

\* What the dispatcher thread picks: the first item left of the call whose turn it is.
LEMMA PickFacts ==
    ASSUME TypeOK, PlaceInv, OrderInv, Pick
    PROVE  \E at \in Nat, c \in Tasks :
             /\ at < Len(order) /\ c = order[at + 1]
             /\ rr = at \/ (rr = Len(order) /\ at = 0)
             /\ queues[c] # <<>> /\ phase[c] = "run" /\ kind[c] = "fair"
             /\ Head(queues[c]) = Width - Len(queues[c]) + 1 /\ Head(queues[c]) \in Indices
             /\ picked' = <<c, Head(queues[c])>>
             /\ queues' = [queues EXCEPT ![c] = Tail(queues[c])]
             /\ \/ Len(queues[c]) = 1 /\ rr' = at
                   /\ order' = SubSeq(order, 1, at) \o SubSeq(order, at + 2, Len(order))
                \/ Len(queues[c]) > 1 /\ rr' = at + 1 /\ order' = order
             /\ passed' = [d \in Tasks |-> IF d = c THEN Zero
                                           ELSE IF queues[d] # <<>> THEN [passed[d] EXCEPT ![c] = @ + 1]
                                           ELSE passed[d]]
<1> DEFINE at == rr % Len(order)
<1> DEFINE c == order[at + 1]
<1>1. order \in Seq(Tasks) /\ order # <<>> /\ rr \in 0 .. Len(order)
  BY Zenon DEF TypeOK, FairTypeOK, Pick
<1>2. at \in Nat /\ at < Len(order) /\ (rr = at \/ (rr = Len(order) /\ at = 0))
  BY <1>1
<1>3. c \in Tasks /\ c \in Range(order)
  BY <1>1, <1>2 DEF Range
<1>4. queues[c] # <<>> /\ queues[c] \in Seq(Indices)
  BY <1>3, Zenon DEF OrderInv, TypeOK, FairTypeOK
<1>5. phase[c] = "run" /\ kind[c] = "fair" /\ Len(queues[c]) =< Width
      /\ queues[c][1] = Width - Len(queues[c]) + 1
  BY <1>3, <1>4 DEF PlaceInv, CallsInv
<1>6. Head(queues[c]) = queues[c][1] /\ Head(queues[c]) \in Indices /\ Len(queues[c]) \in Nat \ {0}
  BY <1>4
<1>7. /\ picked' = <<c, Head(queues[c])>>
      /\ queues' = [queues EXCEPT ![c] = Tail(queues[c])]
      /\ order' = Keep(at, Len(queues[c]) = 1)
      /\ rr' = Turn(at, Len(queues[c]) = 1)
      /\ passed' = [d \in Tasks |-> IF d = c THEN Zero
                                           ELSE IF queues[d] # <<>> THEN [passed[d] EXCEPT ![c] = @ + 1]
                                           ELSE passed[d]]
  BY Zenon DEF Pick
<1> HIDE DEF at, c
<1>8. \/ Len(queues[c]) = 1 /\ rr' = at
                   /\ order' = SubSeq(order, 1, at) \o SubSeq(order, at + 2, Len(order))
      \/ Len(queues[c]) > 1 /\ rr' = at + 1 /\ order' = order
  <2>1. CASE Len(queues[c]) = 1
    BY <1>7, <2>1, Zenon DEF Keep, Turn
  <2>2. CASE Len(queues[c]) # 1
    <3>1. rr' = at + 1 /\ order' = order
      BY <1>7, <2>2, Zenon DEF Keep, Turn
    <3>2. Len(queues[c]) > 1
      <4>1. \A n \in Nat \ {0} : n # 1 => n > 1
        OBVIOUS
      <4>2. QED
        BY <1>6, <2>2, <4>1, Zenon
    <3>3. QED
      BY <3>1, <3>2, Zenon
  <2>3. QED
    BY <2>1, <2>2, Zenon
<1>9. c = order[at + 1]
  BY Zenon DEF c
<1>10. QED
  BY <1>2, <1>3, <1>4, <1>5, <1>6, <1>7, <1>8, <1>9, Zenon

LEMMA ItemShape == \A m \in Item : m[1] \in Tasks /\ m[2] \in Indices /\ m = <<m[1], m[2]>> /\ m # <<>>
BY DEF Item

LEMMA PairItem == \A t \in Tasks, i \in Indices : <<t, i>> \in Item
BY Zenon DEF Item

LEMMA MineFinite ==
    ASSUME NEW S \in SUBSET Item, NEW t
    PROVE  IsFiniteSet(Mine(S, t)) /\ Cardinality(Mine(S, t)) \in Nat
<1>0. Width \in Int /\ 1 \in Int
  BY WidthAssumption
<1>1. IsFiniteSet(Indices) /\ IsFiniteSet({t})
  BY <1>0, FS_Interval, FS_Singleton, Zenon DEF Indices
<1>2. IsFiniteSet({t} \X Indices)
  BY <1>1, FS_Product, Zenon
<1>3. Mine(S, t) \subseteq {t} \X Indices
  BY Zenon DEF Mine, Item
<1>4. QED
  BY <1>2, <1>3, FS_Subset, FS_CardinalityType, Zenon

\* What the pools and the semaphore hold is items, and the dispatcher's own
\* of these are finitely many.
LEMMA HeldItems ==
    ASSUME TypeOK
    PROVE  /\ \A p \in Pools : Queued(p) \subseteq Item /\ queue[p] \in Seq(Item)
           /\ FairItems \subseteq Item /\ Held \subseteq Item
           /\ Held = {} <=> picked = <<>>
<1>1. ASSUME NEW p \in Pools PROVE Queued(p) \subseteq Item /\ queue[p] \in Seq(Item)
  BY <1>1 DEF TypeOK, Queued, Range
<1>2. "io" \in Pools
  BY Zenon DEF Pools
<1>3. FairItems \subseteq Item
  BY <1>1, <1>2, Zenon DEF TypeOK, FairItems, Queued
<1>4. Held \subseteq Item /\ (Held = {} <=> picked = <<>>)
  BY Zenon DEF TypeOK, FairTypeOK, Held
<1>5. QED
  BY <1>1, <1>3, <1>4, Zenon

LEMMA Add == ASSUME NEW S, IsFiniteSet(S), NEW x, x \notin S
             PROVE  IsFiniteSet(S \cup {x}) /\ Cardinality(S \cup {x}) = Cardinality(S) + 1 /\ Cardinality(S) \in Nat
BY FS_AddElement, FS_CardinalityType, Zenon

LEMMA Drop == ASSUME NEW S, IsFiniteSet(S), NEW x \in S
              PROVE  IsFiniteSet(S \ {x}) /\ Cardinality(S \ {x}) = Cardinality(S) - 1 /\ Cardinality(S) \in Nat \ {0}
BY FS_RemoveElement, FS_CardinalityType, FS_EmptySet, Zenon

LEMMA NextCases ==
    ASSUME NEW P,
           UNCHANGED vars => P,
           \A t \in Tasks, k \in Kinds : Submit(t, k) => P,
           \A t \in Tasks : Finish(t) => P,
           Start => P,
           FairPick => P,
           FairSubmit => P,
           \A m \in Item : ItemEnd(m) => P,
           \A m \in Item : FairCount(m) => P,
           \A p \in Pools : ItemStart(p) => P,
           Close \/ CloseStep => P,
           [Next]_vars
    PROVE  P
BY Zenon DEF Next

LEMMA TypeStep == ASSUME TypeOK, TaskInv, PlaceInv, LeftInv, OrderInv, [Next]_vars PROVE TypeOK'
<1>1. CASE UNCHANGED vars
  BY <1>1, Zenon DEF vars, fairVars, taskVars, poolVars, closing, TypeOK, FairTypeOK
<1>2. ASSUME NEW t \in Tasks, NEW k \in Kinds, Submit(t, k) PROVE TypeOK'
  <2>0. \/ phase' = [phase EXCEPT ![t] = "refused"] /\ waiting' = waiting
        \/ phase' = [phase EXCEPT ![t] = "queued"] /\ waiting' = Append(waiting, t)
    BY <1>2, Zenon DEF Submit
  <2>1. waiting' \in Seq(Tasks)
    <3>1. waiting \in Seq(Tasks)
      BY Zenon DEF TypeOK
    <3>2. Append(waiting, t) \in Seq(Tasks)
      BY <3>1
    <3>3. QED
      BY <2>0, <3>1, <3>2, Zenon
  <2>2. phase' \in [Tasks -> {"new", "queued", "run", "done", "failed", "refused"}]
        /\ kind' \in [Tasks -> Kinds] /\ inflight' \in Nat
    <3>1. kind' = [kind EXCEPT ![t] = k] /\ inflight' = inflight + 1
      BY <1>2, Zenon DEF Submit
    <3>2. QED
      BY <2>0, <3>1 DEF TypeOK
  <2>3. QED
    BY <1>2, <2>1, <2>2, Zenon DEF Submit, TypeOK, FairTypeOK, fairVars, poolVars, closing
<1>3. ASSUME NEW t \in Tasks, phase[t] \in {"queued", "run"} PROVE inflight - 1 \in Nat
  <2>1. t \in InFlight
    BY <1>3, Zenon DEF InFlight
  <2>2. IsFiniteSet(InFlight) /\ inflight = Cardinality(InFlight)
    BY Zenon DEF TaskInv
  <2>3. Cardinality(InFlight) \in Nat \ {0}
    BY <2>1, <2>2, Drop, Zenon
  <2>4. QED
    BY <2>2, <2>3
<1>4. ASSUME NEW t \in Tasks, Finish(t) PROVE TypeOK'
  <2>1. inflight' \in Nat
    BY <1>3, <1>4, Zenon DEF Finish
  <2>2. phase' \in [Tasks -> {"new", "queued", "run", "done", "failed", "refused"}]
    BY <1>4, Zenon DEF Finish, TypeOK
  <2>3. QED
    BY <1>4, <2>1, <2>2, Zenon DEF Finish, TypeOK, FairTypeOK, fairVars, poolVars, closing
<1>5. CASE Start
  <2> DEFINE t == Head(waiting)
  <2>1. t \in Tasks /\ waiting' \in Seq(Tasks) /\ t \in Range(waiting)
    BY <1>5, TailFacts, Zenon DEF Start, TypeOK, TaskInv
  <2>2. inflight - 1 \in Nat /\ inflight \in Nat
    BY <1>3, <2>1, Zenon DEF TaskInv, TypeOK
  <2>3. inflight' \in Nat
    BY <1>5, <2>2, Zenon DEF Start
  <2>4. phase' \in [Tasks -> {"new", "queued", "run", "done", "failed", "refused"}]
    BY <1>5, <2>1, Zenon DEF Start, TypeOK
  <2>5. queue' \in [Pools -> Seq(Item)]
    <3>1. CASE UNCHANGED queue
      BY <3>1, Zenon DEF TypeOK
    <3>2. CASE queue' = [queue EXCEPT ![PoolOf(t)] = @ \o [i \in Indices |-> <<t, i>>]]
      <4>1. PoolOf(t) \in Pools
        BY Zenon DEF PoolOf, Pools
      <4>2. queue[PoolOf(t)] \o [i \in Indices |-> <<t, i>>] \in Seq(Item)
        BY <2>1, <4>1, AllItems, JoinFacts, Zenon DEF TypeOK
      <4>3. QED
        BY <3>2, <4>1, <4>2, Zenon DEF TypeOK
    <3>3. QED
      BY <1>5, <3>1, <3>2, Zenon DEF Start
  <2>6. FairTypeOK'
    <3>1. CASE UNCHANGED fairVars
      BY <3>1, Zenon DEF TypeOK, FairTypeOK, fairVars
    <3>2. CASE Run(t)
      <4>1. queues' \in [Tasks -> Seq(Indices)]
        BY <2>1, <3>2, AllIndices, Zenon DEF TypeOK, FairTypeOK, Run
      <4>2. left' \in [Tasks -> 0 .. Width]
        BY <2>1, <3>2, WidthAssumption DEF TypeOK, FairTypeOK, Run
      <4>3. order' \in Seq(Tasks) /\ rr' \in 0 .. Len(order')
        BY <2>1, <3>2 DEF TypeOK, FairTypeOK, Run
      <4>4. QED
        BY <3>2, <4>1, <4>2, <4>3, Zenon DEF TypeOK, FairTypeOK, Run
    <3>3. QED
      BY <1>5, <3>1, <3>2, Zenon DEF Start
  <2>7. QED
    BY <1>5, <2>1, <2>3, <2>4, <2>5, <2>6, Zenon DEF Start, TypeOK, closing
<1>6. CASE FairPick
  <2>1. PICK at \in Nat, c \in Tasks :
             /\ at < Len(order)
             /\ queues[c] # <<>>
             /\ Head(queues[c]) \in Indices
             /\ picked' = <<c, Head(queues[c])>>
             /\ queues' = [queues EXCEPT ![c] = Tail(queues[c])]
             /\ \/ Len(queues[c]) = 1 /\ rr' = at
                   /\ order' = SubSeq(order, 1, at) \o SubSeq(order, at + 2, Len(order))
                \/ Len(queues[c]) > 1 /\ rr' = at + 1 /\ order' = order
             /\ passed' = [d \in Tasks |-> IF d = c THEN Zero
                                           ELSE IF queues[d] # <<>> THEN [passed[d] EXCEPT ![c] = @ + 1]
                                           ELSE passed[d]]
    <3>1. Pick
      BY <1>6, Zenon DEF FairPick
    <3>2. QED
      BY <3>1, PickFacts, Zenon
  <2>2. queues' \in [Tasks -> Seq(Indices)]
    <3>1. Tail(queues[c]) \in Seq(Indices)
      BY <2>1 DEF TypeOK, FairTypeOK
    <3>2. QED
      BY <2>1, <3>1, Zenon DEF TypeOK, FairTypeOK
  <2>3. picked' \in Item
    BY <2>1, PairItem, Zenon
  <2>4. order' \in Seq(Tasks) /\ rr' \in 0 .. Len(order')
    <3>1. order \in Seq(Tasks) /\ Len(order) \in Nat
      BY DEF TypeOK, FairTypeOK
    <3>5. at \in Nat /\ at < Len(order)
      BY <2>1, Zenon
    <3>6. at \in 0 .. (Len(order) - 1) /\ at + 1 \in 0 .. Len(order)
      BY <3>1, <3>5
    <3>2. CASE order' = order /\ rr' = at + 1
      BY <3>1, <3>2, <3>6, Zenon
    <3>3. CASE order' = SubSeq(order, 1, at) \o SubSeq(order, at + 2, Len(order)) /\ rr' = at
      <4>1. order' \in Seq(Tasks) /\ Len(order') = Len(order) - 1
        BY <3>1, <3>3, <3>5, RemoveFacts, Zenon
      <4>2. QED
        BY <3>3, <3>6, <4>1, Zenon
    <3>4. QED
      BY <2>1, <3>2, <3>3, Zenon
  <2>5. passed' \in [Tasks -> [Tasks -> Nat]]
    <3>1. Zero \in [Tasks -> Nat]
      BY Zenon DEF Zero
    <3>2. \A d \in Tasks : passed[d] \in [Tasks -> Nat] /\ [passed[d] EXCEPT ![c] = @ + 1] \in [Tasks -> Nat]
      BY DEF TypeOK, FairTypeOK
    <3>3. QED
      BY <2>1, <3>1, <3>2, Zenon
  <2>6. QED
    BY <1>6, <2>2, <2>3, <2>4, <2>5, Zenon DEF FairPick, Pick, TypeOK, FairTypeOK, taskVars, poolVars, closing
<1>7. CASE FairSubmit
  <2>1. picked \in Item /\ slots' \in 0 .. Slots
    BY <1>7, SlotsAssumption DEF FairSubmit, Acquire, TypeOK, FairTypeOK
  <2>2. queue' \in [Pools -> Seq(Item)]
    <3>1. "io" \in Pools
      BY Zenon DEF Pools
    <3>2. Append(queue["io"], picked) \in Seq(Item)
      BY <2>1, <3>1, AppendFacts, Zenon DEF TypeOK
    <3>3. QED
      BY <1>7, <3>1, <3>2, Zenon DEF FairSubmit, TypeOK
  <2>3. QED
    BY <1>7, <2>1, <2>2, Zenon DEF FairSubmit, Acquire, TypeOK, FairTypeOK, taskVars, closing
<1>8. ASSUME NEW m \in Item, ItemEnd(m) PROVE TypeOK'
  <2>1. running' \subseteq Item /\ results' \subseteq Item
    BY <1>8, Zenon DEF ItemEnd, TypeOK
  <2>2. CASE kind[m[1]] # "fair"
    BY <1>8, <2>1, <2>2, Zenon DEF ItemEnd, TypeOK, FairTypeOK, fairVars, taskVars, closing
  <2>3. CASE kind[m[1]] = "fair"
    <3>1. m \in FairItems
      BY <1>8, <2>3, Zenon DEF ItemEnd, FairItems
    <3>2. Cardinality(FairItems) \in Nat \ {0}
      BY <3>1, Drop, Zenon DEF LeftInv
    <3>3. slots + 1 \in 0 .. Slots
      BY <3>2, SlotsAssumption DEF LeftInv, TypeOK, FairTypeOK
    <3>4. QED
      BY <1>8, <2>1, <2>3, <3>3, Zenon DEF ItemEnd, Release, TypeOK, FairTypeOK, taskVars, closing
  <2>4. QED
    BY <2>2, <2>3, Zenon
<1>9. ASSUME NEW m \in Item, FairCount(m) PROVE TypeOK'
  <2>1. m[1] \in Tasks /\ released \subseteq Item /\ m \in released
    BY <1>9, ItemShape, Zenon DEF FairCount, Count, TypeOK, FairTypeOK
  <2>2. m \in Mine(released, m[1])
    BY <2>1, Zenon DEF Mine
  <2>3. Cardinality(Mine(released, m[1])) \in Nat \ {0}
    BY <2>1, <2>2, MineFinite, Drop, Zenon
  <2>4. /\ Cardinality(Mine(Held, m[1])) \in Nat
        /\ Cardinality(Mine(FairItems, m[1])) \in Nat
        /\ Len(queues[m[1]]) \in Nat
    BY <2>1, MineFinite, HeldItems DEF TypeOK, FairTypeOK
  <2>5. left[m[1]] \in 1 .. Width
    <3>1. left[m[1]] \in 0 .. Width
      BY <2>1, Zenon DEF TypeOK, FairTypeOK
    <3>2. left[m[1]] = Len(queues[m[1]]) + Cardinality(Mine(Held, m[1]))
                         + Cardinality(Mine(FairItems, m[1])) + Cardinality(Mine(released, m[1]))
      BY <2>1, Zenon DEF LeftInv
    <3>3. left[m[1]] # 0
      <4>1. Cardinality(Mine(released, m[1])) \in Nat /\ Cardinality(Mine(released, m[1])) # 0
        BY <2>3, Zenon
      <4>2. SUFFICES ASSUME left[m[1]] = 0 PROVE FALSE
        BY Zenon
      <4>3. Len(queues[m[1]]) + Cardinality(Mine(Held, m[1]))
              + Cardinality(Mine(FairItems, m[1])) + Cardinality(Mine(released, m[1])) = 0
        BY <3>2, <4>2, Zenon
      <4>4. /\ Len(queues[m[1]]) = 0 /\ Cardinality(Mine(Held, m[1])) = 0
            /\ Cardinality(Mine(FairItems, m[1])) = 0 /\ Cardinality(Mine(released, m[1])) = 0
        BY <2>4, <4>1, <4>3, SumOfNone
      <4>5. QED
        BY <4>1, <4>4, Zenon
    <3>4. QED
      BY <3>1, <3>3, WidthAssumption
  <2>6. left' \in [Tasks -> 0 .. Width]
    <3>1. left[m[1]] - 1 \in 0 .. Width
      BY <2>5, WidthAssumption
    <3>2. left \in [Tasks -> 0 .. Width] /\ left' = [left EXCEPT ![m[1]] = left[m[1]] - 1]
      BY <1>9, Zenon DEF FairCount, Count, TypeOK, FairTypeOK
    <3>3. QED
      BY <2>1, <3>1, <3>2, Zenon
  <2>7. QED
    BY <1>9, <2>6, Zenon DEF FairCount, Count, TypeOK, FairTypeOK, taskVars, poolVars, closing
<1>10. ASSUME NEW p \in Pools, ItemStart(p) PROVE TypeOK'
  <2>1. Head(queue[p]) \in Item /\ Tail(queue[p]) \in Seq(Item)
    BY <1>10, HeldItems DEF ItemStart
  <2>2. queue' \in [Pools -> Seq(Item)] /\ running' \subseteq Item
    BY <1>10, <2>1, Zenon DEF ItemStart, TypeOK
  <2>3. QED
    BY <1>10, <2>2, Zenon DEF ItemStart, TypeOK, FairTypeOK, fairVars, taskVars, closing
<1>11. CASE Close \/ CloseStep
  <2>1. CASE Close \/ Drained \/ Unmount \/ CloseSignals
    BY <2>1, Zenon DEF Close, Drained, Unmount, CloseSignals, Stages, TypeOK, FairTypeOK, fairVars, taskVars, poolVars
  <2>2. CASE StopFair
    BY <2>2, Zenon DEF StopFair, FairClose, Stages, TypeOK, FairTypeOK, taskVars, poolVars
  <2>3. CASE Shutdown
    <3>1. stage' \in Stages
      BY <2>3 DEF Shutdown, After, Stages
    <3>2. QED
      BY <2>3, <3>1, Zenon DEF Shutdown, TypeOK, FairTypeOK, fairVars, taskVars, poolVars
  <2>4. QED
    BY <1>11, <2>1, <2>2, <2>3, Zenon DEF CloseStep
<1>12. QED
  BY <1>1, <1>2, <1>4, <1>5, <1>6, <1>7, <1>8, <1>9, <1>10, <1>11, NextCases, Zenon
-----------------------------------------------------------------------------
(* Tasks and close().                                                      *)

LEMMA SameTasks ==
    ASSUME TaskInv, UNCHANGED <<phase, waiting, inflight>>, UNCHANGED closing
    PROVE  TaskInv'
BY Zenon DEF TaskInv, InFlight, closing

LEMMA TaskStep == ASSUME TypeOK, TaskInv, [Next]_vars PROVE TaskInv'
<1>1. CASE UNCHANGED vars
  BY <1>1, SameTasks, Zenon DEF vars, taskVars
<1>2. ASSUME NEW t \in Tasks, NEW k \in Kinds, Submit(t, k) PROVE TaskInv'
  <2>1. phase[t] = "new" /\ inflight' = inflight + 1 /\ UNCHANGED closing
    BY <1>2, Zenon DEF Submit
  <2>2. \/ TasksShut /\ phase' = [phase EXCEPT ![t] = "refused"] /\ waiting' = waiting
        \/ ~TasksShut /\ phase' = [phase EXCEPT ![t] = "queued"] /\ waiting' = Append(waiting, t)
    BY <1>2, Zenon DEF Submit
  <2>3. t \notin Range(waiting) /\ t \notin InFlight
    BY <2>1, Zenon DEF TaskInv, InFlight
  <2>4. InFlight' = InFlight \cup {t}
    BY <2>2, Zenon DEF InFlight, TypeOK
  <2>5. IsFiniteSet(InFlight') /\ inflight' = Cardinality(InFlight')
    BY <2>1, <2>3, <2>4, Add, Zenon DEF TaskInv
  <2>6. IsInjective(waiting') /\ \A u \in Tasks : phase'[u] = "queued" <=> u \in Range(waiting')
    <3>1. CASE waiting' = waiting /\ phase' = [phase EXCEPT ![t] = "refused"]
      BY <2>3, <3>1, Zenon DEF TaskInv, TypeOK
    <3>2. CASE waiting' = Append(waiting, t) /\ phase' = [phase EXCEPT ![t] = "queued"]
      <4>1. Range(waiting') = Range(waiting) \cup {t} /\ IsInjective(waiting')
        BY <2>3, <3>2, AppendFacts DEF TaskInv, TypeOK
      <4>2. QED
        BY <3>2, <4>1, Zenon DEF TaskInv, TypeOK
    <3>3. QED
      BY <2>2, <3>1, <3>2, Zenon
  <2>7. stage \in {"io", "meta", "dfs", "closed"} => \A u \in Tasks : phase'[u] \notin {"queued", "run"}
    BY <2>2, Zenon DEF TasksShut, TaskInv, TypeOK
  <2>8. QED
    BY <2>1, <2>5, <2>6, <2>7, Zenon DEF TaskInv, closing
<1>3. ASSUME NEW t \in Tasks, Finish(t) PROVE TaskInv'
  <2>1. phase[t] = "run" /\ phase' = [phase EXCEPT ![t] = "done"] /\ inflight' = inflight - 1
        /\ UNCHANGED closing /\ UNCHANGED waiting
    BY <1>3, Zenon DEF Finish
  <2>2. t \in InFlight /\ InFlight' = InFlight \ {t}
    BY <2>1, Zenon DEF InFlight, TypeOK
  <2>3. IsFiniteSet(InFlight') /\ inflight' = Cardinality(InFlight')
    BY <2>1, <2>2, Drop, Zenon DEF TaskInv
  <2>4. \A u \in Tasks : phase'[u] = "queued" <=> u \in Range(waiting')
    BY <2>1, Zenon DEF TaskInv, TypeOK
  <2>5. QED
    BY <2>1, <2>3, <2>4, Zenon DEF TaskInv, TypeOK, closing
<1>4. CASE Start
  <2>1. PICK t \in Tasks : t = Head(waiting) /\ t \in Range(waiting) /\ IsInjective(waiting')
                           /\ Range(waiting') = Range(waiting) \ {t}
    BY <1>4, TailFacts, Zenon DEF Start, TypeOK, TaskInv
  <2>2. \/ phase' = [phase EXCEPT ![t] = "failed"] /\ inflight' = inflight - 1
        \/ phase' = [phase EXCEPT ![t] = "run"] /\ inflight' = inflight
    BY <1>4, <2>1, Zenon DEF Start
  <2>3. UNCHANGED closing /\ phase[t] = "queued"
    BY <1>4, <2>1, Zenon DEF Start, TaskInv
  <2>4. \A u \in Tasks : phase'[u] = "queued" <=> u \in Range(waiting')
    BY <2>1, <2>2, Zenon DEF TaskInv, TypeOK
  <2>5. IsFiniteSet(InFlight') /\ inflight' = Cardinality(InFlight')
    <3>1. CASE phase' = [phase EXCEPT ![t] = "failed"] /\ inflight' = inflight - 1
      <4>1. t \in InFlight /\ InFlight' = InFlight \ {t}
        BY <2>3, <3>1, Zenon DEF InFlight, TypeOK
      <4>2. QED
        BY <3>1, <4>1, Drop, Zenon DEF TaskInv
    <3>2. CASE phase' = [phase EXCEPT ![t] = "run"] /\ inflight' = inflight
      <4>1. InFlight' = InFlight
        BY <2>3, <3>2, Zenon DEF InFlight, TypeOK
      <4>2. QED
        BY <3>2, <4>1, Zenon DEF TaskInv
    <3>3. QED
      BY <2>2, <3>1, <3>2, Zenon
  <2>6. stage \notin {"io", "meta", "dfs", "closed"}
    BY <2>3, Zenon DEF TaskInv
  <2>7. QED
    BY <2>1, <2>3, <2>4, <2>5, <2>6, Zenon DEF TaskInv, closing
<1>5. CASE Close \/ CloseStep
  <2>1. UNCHANGED <<phase, waiting, inflight>>
    BY <1>5, Zenon DEF Close, CloseStep, Drained, StopFair, Shutdown, Unmount, CloseSignals, taskVars
  <2>2. InFlight' = InFlight
    BY <2>1, Zenon DEF InFlight
  <2>3. stage' \in {"io", "meta", "dfs", "closed"} => \A t \in Tasks : phase[t] \notin {"queued", "run"}
    <3>1. CASE Close \/ Drained \/ StopFair
      BY <3>1, Zenon DEF Close, Drained, StopFair
    <3>2. CASE Unmount \/ CloseSignals
      BY <3>2, Zenon DEF Unmount, CloseSignals, TaskInv
    <3>3. CASE Shutdown
      <4>1. CASE stage = "tasks"
        <5>0. Joined("tasks")
          BY <3>3, <4>1, Zenon DEF Shutdown
        <5>1. waiting = <<>> /\ Active = {}
          BY <5>0, Zenon DEF Joined, Pools
        <5>2. QED
          BY <5>1 DEF Active, TaskInv, Range
      <4>2. CASE stage \in {"io", "meta"}
        BY <4>2, Zenon DEF TaskInv
      <4>3. QED
        BY <3>3, <4>1, <4>2, Zenon DEF Shutdown
    <3>4. QED
      BY <1>5, <3>1, <3>2, <3>3, Zenon DEF CloseStep
  <2>4. (~mounted' => stage' \in {"dfs", "closed"}) /\ (~signals' => stage' = "closed")
    <3>1. CASE Close \/ Drained \/ StopFair
      BY <3>1, Zenon DEF Close, Drained, StopFair, TaskInv
    <3>2. CASE Unmount \/ CloseSignals
      BY <3>2, Zenon DEF Unmount, CloseSignals, TaskInv
    <3>3. CASE Shutdown
      BY <3>3, Zenon DEF Shutdown, TaskInv
    <3>4. QED
      BY <1>5, <3>1, <3>2, <3>3, Zenon DEF CloseStep
  <2>5. QED
    BY <2>1, <2>2, <2>3, <2>4, Zenon DEF TaskInv
<1>6. CASE FairPick
  BY <1>6, SameTasks, Zenon DEF FairPick, taskVars
<1>7. CASE FairSubmit
  BY <1>7, SameTasks, Zenon DEF FairSubmit, taskVars
<1>8. ASSUME NEW m \in Item, ItemEnd(m) PROVE TaskInv'
  BY <1>8, SameTasks, Zenon DEF ItemEnd, taskVars
<1>9. ASSUME NEW m \in Item, FairCount(m) PROVE TaskInv'
  BY <1>9, SameTasks, Zenon DEF FairCount, taskVars
<1>10. ASSUME NEW p \in Pools, ItemStart(p) PROVE TaskInv'
  BY <1>10, SameTasks, Zenon DEF ItemStart, taskVars
<1>11. QED
  BY <1>1, <1>2, <1>3, <1>4, <1>5, <1>6, <1>7, <1>8, <1>9, <1>10, NextCases, Zenon
-----------------------------------------------------------------------------
(* Where the items are.                                                    *)

places == <<queues, picked, queue, running, results, released>>

ItemsInv == PlaceInv /\ CoverInv /\ LeftInv

LEMMA SamePlaces ==
    ASSUME ItemsInv, UNCHANGED places, UNCHANGED <<phase, kind, left, slots>>
    PROVE  ItemsInv'
<1>1. /\ \A t : Unpicked(t)' = Unpicked(t) /\ PoolOf(t)' = PoolOf(t)
      /\ \A p : Queued(p)' = Queued(p)
      /\ FairItems' = FairItems /\ Held' = Held
  BY Zenon DEF places, Unpicked, PoolOf, Queued, FairItems, Held
<1>2. PlaceInv'
  BY <1>1 DEF ItemsInv, PlaceInv, CallsInv, FreshInv, HeldInv, QueueInv, RunInv, places
<1>3. CoverInv'
  BY <1>1, Zenon DEF ItemsInv, CoverInv, places
<1>4. LeftInv'
  BY <1>1, Zenon DEF ItemsInv, LeftInv, Mine, places
<1>5. QED
  BY <1>2, <1>3, <1>4, Zenon DEF ItemsInv

\* A task that is not running has no item anywhere, so it may change kind or phase.
LEMMA IdleTask ==
    ASSUME TypeOK, ItemsInv, NEW t \in Tasks, phase[t] \notin {"run", "done"}
    PROVE  /\ queues[t] = <<>>
           /\ \A i : /\ <<t, i>> # picked /\ <<t, i>> \notin running /\ <<t, i>> \notin results
                     /\ <<t, i>> \notin released /\ \A p \in Pools : <<t, i>> \notin Queued(p)
<1>1. queues[t] = <<>>
  BY Zenon DEF ItemsInv, PlaceInv, CallsInv
<1>2. ASSUME NEW i PROVE <<t, i>> # picked
  <2>1. picked # <<>> => picked[1] # t
    BY Zenon DEF ItemsInv, PlaceInv, HeldInv
  <2>2. <<t, i>> # <<>> /\ <<t, i>>[1] = t
    BY Zenon
  <2>3. QED
    BY <2>1, <2>2, Zenon
<1>3. ASSUME NEW i PROVE /\ <<t, i>> \notin running /\ <<t, i>> \notin results
                         /\ <<t, i>> \notin released
  BY Zenon DEF ItemsInv, PlaceInv, RunInv
<1>4. ASSUME NEW i, NEW p \in Pools PROVE <<t, i>> \notin Queued(p)
  BY Zenon DEF ItemsInv, PlaceInv, QueueInv
<1>5. QED
  BY <1>1, <1>2, <1>3, <1>4, Zenon

LEMMA IdleChange ==
    ASSUME TypeOK, ItemsInv, UNCHANGED places, UNCHANGED <<left, slots>>,
           NEW t \in Tasks, phase[t] \notin {"run", "done"}, phase'[t] \notin {"run", "done"},
           \A u \in Tasks : u # t => phase'[u] = phase[u] /\ kind'[u] = kind[u]
    PROVE  ItemsInv'
<1>1. \A p \in Pools : Queued(p)' = Queued(p) /\ Queued(p) \subseteq Item
  BY HeldItems, Zenon DEF places, Queued
<1>2. Held' = Held /\ \A u : Unpicked(u)' = Unpicked(u)
  BY Zenon DEF places, Held, Unpicked
<1>3. \A m \in Item : m \in running \/ m \in results \/ m \in released \/ m = picked
                      \/ (\E p \in Pools : m \in Queued(p))
                      => m[1] \in Tasks /\ m[1] # t
  BY IdleTask, ItemShape
<1>4. running \subseteq Item /\ results \subseteq Item /\ released \subseteq Item /\ picked \in Item \cup {<<>>}
      /\ "io" \in Pools
  BY Zenon DEF TypeOK, FairTypeOK, Pools
<1>5. \A u \in Tasks : u # t => PoolOf(u)' = PoolOf(u)
  BY Zenon DEF PoolOf
<1>6. CallsInv'
  BY IdleTask, Zenon DEF ItemsInv, PlaceInv, CallsInv, places
<1>7. FreshInv'
  BY <1>1, <1>2, <1>4, Zenon DEF ItemsInv, PlaceInv, FreshInv, places
<1>8. HeldInv'
  BY <1>1, <1>3, <1>4, Zenon DEF ItemsInv, PlaceInv, HeldInv, places
<1>9. QueueInv'
  <2>1. ASSUME NEW p \in Pools PROVE IsInjective(queue'[p])
    BY Zenon DEF ItemsInv, PlaceInv, QueueInv, places
  <2>2. ASSUME NEW p \in Pools, NEW m \in Queued(p)
        PROVE  phase'[m[1]] = "run" /\ PoolOf(m[1])' = p /\ m \notin running /\ m \notin results
    <3>1. m[1] \in Tasks /\ m[1] # t
      BY <1>1, <1>3, <2>2, Zenon
    <3>2. QED
      BY <1>5, <2>2, <3>1, Zenon DEF ItemsInv, PlaceInv, QueueInv
  <2>3. QED
    BY <1>1, <2>1, <2>2, Zenon DEF QueueInv, places
<1>10. RunInv'
  BY <1>3, <1>4, Zenon DEF ItemsInv, PlaceInv, RunInv, places
<1>11. CoverInv'
  BY <1>1, <1>2, <1>5, Zenon DEF ItemsInv, CoverInv, places, PoolOf, Pools
<1>12. FairItems' = FairItems
  <2>1. ASSUME NEW m \in running \cup Queued("io") PROVE kind'[m[1]] = kind[m[1]]
    BY <1>1, <1>3, <1>4, <2>1, Zenon
  <2>2. QED
    BY <2>1, Zenon DEF FairItems, Queued, places
<1>13. LeftInv'
  BY <1>2, <1>12, Zenon DEF ItemsInv, LeftInv, Mine, places
<1>14. QED
  BY <1>6, <1>7, <1>8, <1>9, <1>10, <1>11, <1>13, Zenon DEF ItemsInv, PlaceInv

\* _execute_*, with map(): every item of the task is queued on its pool.
LEMMA MapStep ==
    ASSUME TypeOK, ItemsInv, NEW t \in Tasks, phase[t] = "queued", kind[t] # "fair",
           phase' = [phase EXCEPT ![t] = "run"],
           queue' = [queue EXCEPT ![PoolOf(t)] = @ \o [i \in Indices |-> <<t, i>>]],
           UNCHANGED <<fairVars, kind, running, results>>
    PROVE  ItemsInv'
<1>0. PICK p \in Pools : p = PoolOf(t)
  BY Zenon DEF PoolOf, Pools
<1> DEFINE all == [i \in Indices |-> <<t, i>>]
<1>1. p \in Pools /\ "io" \in Pools
  BY <1>0, Zenon DEF Pools
<1>2. all \in Seq(Item) /\ IsInjective(all) /\ Range(all) = ItemsOf(t) /\ queue[p] \in Seq(Item)
  BY <1>1, AllItems, HeldItems, Zenon
<1>3. Queued(p) \cap ItemsOf(t) = {}
  BY <1>1, IdleTask DEF ItemsOf
<1>4. IsInjective(queue[p]) /\ Range(queue[p]) = Queued(p)
  BY <1>1, Zenon DEF ItemsInv, PlaceInv, QueueInv, Queued
<1> HIDE DEF all
<1>5. queue'[p] = queue[p] \o all /\ \A r \in Pools : r # p => queue'[r] = queue[r]
  BY <1>0, <1>1, Zenon DEF all, TypeOK
<1>6. IsInjective(queue'[p]) /\ Queued(p)' = Queued(p) \cup ItemsOf(t)
  <2>1. Range(queue[p] \o all) = Range(queue[p]) \cup Range(all) /\ IsInjective(queue[p] \o all)
    BY <1>2, <1>3, <1>4, JoinFacts
  <2>2. Queued(p)' = Range(queue'[p])
    BY Zenon DEF Queued
  <2>3. QED
    BY <1>2, <1>4, <1>5, <2>1, <2>2, Zenon
<1>7. \A r \in Pools : r # p => Queued(r)' = Queued(r)
  BY <1>5, Zenon DEF Queued
<1>8. \A u : PoolOf(u)' = PoolOf(u) /\ Unpicked(u)' = Unpicked(u)
  BY Zenon DEF PoolOf, Unpicked, fairVars
<1>9. /\ phase'[t] = "run" /\ \A u \in Tasks : u # t => phase'[u] = phase[u]
      /\ UNCHANGED <<kind, running, results, queues, picked, released, left, slots>>
  BY Zenon DEF TypeOK, fairVars
<1>10. /\ running \subseteq Item /\ results \subseteq Item /\ released \subseteq Item
       /\ picked \in Item \cup {<<>>} /\ \A r \in Pools : Queued(r) \subseteq Item
  BY HeldItems, Zenon DEF TypeOK, FairTypeOK
<1>11. \A m \in ItemsOf(t) : m[1] = t /\ m \in Item /\ m \notin running /\ m \notin results
                             /\ m # picked /\ m \notin released
  <2>1. SUFFICES ASSUME NEW m \in ItemsOf(t)
                 PROVE  m[1] = t /\ m \in Item /\ m \notin running /\ m \notin results
                        /\ m # picked /\ m \notin released
    BY Zenon
  <2>2. PICK i \in Indices : m = <<t, i>>
    BY DEF ItemsOf
  <2>3. m \notin running /\ m \notin results /\ m # picked /\ m \notin released
    BY <2>2, IdleTask, Zenon
  <2>4. m[1] = t
    BY <2>2, Zenon
  <2>5. m \in Item
    BY <2>2, PairItem, Zenon
  <2>6. QED
    BY <2>3, <2>4, <2>5, Zenon
<1>12. CallsInv'
  BY <1>9, IdleTask, Zenon DEF ItemsInv, PlaceInv, CallsInv
<1>13. FreshInv'
  <2>1. SUFFICES ASSUME NEW u \in Tasks, NEW i \in Unpicked(u)
                 PROVE  <<u, i>> # picked /\ <<u, i>> \notin Queued("io")' /\ <<u, i>> \notin running /\ <<u, i>> \notin results
    BY <1>8, <1>9, Zenon DEF FreshInv
  <2>2. <<u, i>> # picked /\ <<u, i>> \notin Queued("io") /\ <<u, i>> \notin running /\ <<u, i>> \notin results
    BY Zenon DEF ItemsInv, PlaceInv, FreshInv
  <2>3. u # t
    <3>1. queues[t] = <<>>
      BY IdleTask, Zenon
    <3>2. Unpicked(t) = {}
      BY <3>1, WidthAssumption DEF Unpicked, Indices
    <3>3. QED
      BY <3>2, Zenon
  <2>4. <<u, i>> \notin ItemsOf(t)
    BY <2>3, Zenon DEF ItemsOf
  <2>5. QED
    BY <1>1, <1>6, <1>7, <2>2, <2>4, Zenon
<1>14. HeldInv'
  <2>1. SUFFICES ASSUME picked # <<>>
                 PROVE  phase'[picked[1]] = "run" /\ kind[picked[1]] = "fair" /\ picked \notin Queued("io")'
                        /\ picked \notin running /\ picked \notin results
    BY <1>9, Zenon DEF HeldInv
  <2>2. picked \in Item /\ picked[1] \in Tasks /\ picked \notin ItemsOf(t)
    BY <1>10, <1>11, <2>1, ItemShape, Zenon
  <2>3. phase[picked[1]] = "run" /\ kind[picked[1]] = "fair" /\ picked \notin Queued("io")
        /\ picked \notin running /\ picked \notin results
    BY <2>1, Zenon DEF ItemsInv, PlaceInv, HeldInv
  <2>4. QED
    BY <1>1, <1>6, <1>7, <1>9, <2>2, <2>3, Zenon
<1>15. QueueInv'
  <2>1. ASSUME NEW r \in Pools PROVE IsInjective(queue'[r])
    BY <1>5, <1>6, Zenon DEF ItemsInv, PlaceInv, QueueInv
  <2>2. ASSUME NEW r \in Pools, NEW m \in Queued(r)'
        PROVE  phase'[m[1]] = "run" /\ PoolOf(m[1]) = r /\ m \notin running /\ m \notin results
    <3>1. CASE m \in Queued(r)
      <4>1. m[1] \in Tasks
        BY <1>10, <3>1, ItemShape, Zenon
      <4>2. QED
        BY <1>9, <3>1, <4>1, Zenon DEF ItemsInv, PlaceInv, QueueInv
    <3>2. CASE m \notin Queued(r)
      <4>1. r = p /\ m \in ItemsOf(t)
        BY <1>6, <1>7, <2>2, <3>2, Zenon
      <4>2. QED
        BY <1>0, <1>9, <1>11, <4>1, Zenon
    <3>3. QED
      BY <3>1, <3>2, Zenon
  <2>3. QED
    BY <1>8, <1>9, <2>1, <2>2, Zenon DEF QueueInv
<1>16. RunInv'
  BY <1>9, <1>10, ItemShape, Zenon DEF ItemsInv, PlaceInv, RunInv
<1>17. CoverInv'
  <2>1. SUFFICES ASSUME NEW u \in Tasks
                 PROVE  /\ phase'[u] = "run" => \A i \in Indices :
                             \/ i \in Unpicked(u)
                             \/ <<u, i>> = picked
                             \/ <<u, i>> \in Queued(PoolOf(u))'
                             \/ <<u, i>> \in running
                             \/ <<u, i>> \in results
                        /\ phase'[u] = "done" => ItemsOf(u) \subseteq results
    BY <1>8, <1>9, Zenon DEF CoverInv
  <2>2. CASE u = t
    BY <1>0, <1>6, <1>8, <1>9, <2>2, Zenon DEF ItemsOf
  <2>3. CASE u # t
    <3>1. PoolOf(u) \in Pools
      BY Zenon DEF PoolOf, Pools
    <3>2. Queued(PoolOf(u)) \subseteq Queued(PoolOf(u))'
      BY <1>6, <1>7, <1>8, <3>1, Zenon
    <3>3. QED
      BY <1>9, <2>3, <3>2, Zenon DEF ItemsInv, CoverInv
  <2>4. QED
    BY <2>2, <2>3, Zenon
<1>18. FairItems' = FairItems
  <2>1. \A m \in ItemsOf(t) : kind[m[1]] # "fair"
    BY <1>11, Zenon
  <2>2. FairItems = {m \in running \cup Queued("io") : kind[m[1]] = "fair"}
        /\ FairItems' = {m \in running \cup Queued("io")' : kind[m[1]] = "fair"}
    BY <1>9, Zenon DEF FairItems, Queued
  <2>3. QED
    BY <1>1, <1>6, <1>7, <2>1, <2>2, Zenon
<1>19. LeftInv'
  BY <1>9, <1>18, Zenon DEF ItemsInv, LeftInv, Mine, Held
<1>20. QED
  BY <1>12, <1>13, <1>14, <1>15, <1>16, <1>17, <1>19, Zenon DEF ItemsInv, PlaceInv

\* _execute_load with the dispatcher: run() queues every index.
LEMMA RunStep ==
    ASSUME TypeOK, ItemsInv, NEW t \in Tasks, phase[t] = "queued", kind[t] = "fair",
           phase' = [phase EXCEPT ![t] = "run"], Run(t),
           UNCHANGED <<kind, queue, running, results>>
    PROVE  ItemsInv'
<1>1. /\ queues' = [queues EXCEPT ![t] = [i \in Indices |-> i]] /\ left' = [left EXCEPT ![t] = Width]
      /\ UNCHANGED <<picked, slots, released>>
  BY Zenon DEF Run
<1>2. /\ queues'[t] = [i \in Indices |-> i] /\ left'[t] = Width /\ phase'[t] = "run"
      /\ \A u \in Tasks : u # t => queues'[u] = queues[u] /\ left'[u] = left[u] /\ phase'[u] = phase[u]
  BY <1>1, Zenon DEF TypeOK, FairTypeOK
<1>3. Len(queues'[t]) = Width /\ queues'[t] # <<>> /\ \A j \in 1 .. Width : queues'[t][j] = j
  BY <1>2, AllIndices, Zenon
<1>4. /\ \A u \in Tasks : u # t => Unpicked(u)' = Unpicked(u)
      /\ Unpicked(t)' = Indices
  BY <1>2, <1>3, WidthAssumption DEF Unpicked, Indices
<1>5. /\ \A u : PoolOf(u)' = PoolOf(u)
      /\ \A p : Queued(p)' = Queued(p)
      /\ FairItems' = FairItems /\ Held' = Held
  BY <1>1, Zenon DEF PoolOf, Queued, FairItems, Held
<1>6. /\ running \subseteq Item /\ results \subseteq Item /\ released \subseteq Item
      /\ picked \in Item \cup {<<>>} /\ (\A p \in Pools : Queued(p) \subseteq Item) /\ "io" \in Pools
  BY HeldItems, Zenon DEF TypeOK, FairTypeOK, Pools
<1>7. CallsInv'
  <2>1. SUFFICES ASSUME NEW u \in Tasks
                 PROVE  /\ Len(queues'[u]) =< Width
                        /\ \A j \in 1 .. Len(queues'[u]) : queues'[u][j] = Width - Len(queues'[u]) + j
                        /\ queues'[u] # <<>> => phase'[u] = "run" /\ kind'[u] = "fair"
    BY Zenon DEF CallsInv
  <2>2. CASE u = t
    <3>1. \A j \in Nat : Width - Width + j = j
      BY WidthAssumption
    <3>2. Len(queues'[u]) = Width /\ Width \in Nat /\ \A j \in 1 .. Width : queues'[u][j] = j
      BY <1>3, <2>2, WidthAssumption, Zenon
    <3>3. \A j \in 1 .. Len(queues'[u]) : queues'[u][j] = Width - Len(queues'[u]) + j
      BY <3>1, <3>2
    <3>4. phase'[u] = "run" /\ kind'[u] = "fair"
      BY <1>2, <2>2, Zenon
    <3>5. QED
      BY <3>2, <3>3, <3>4
  <2>3. CASE u # t
    BY <1>2, <2>3 DEF ItemsInv, PlaceInv, CallsInv
  <2>4. QED
    BY <2>2, <2>3, Zenon
<1>8. FreshInv'
  BY <1>1, <1>4, <1>5, <1>6, IdleTask, Zenon DEF ItemsInv, PlaceInv, FreshInv
<1>9. HeldInv'
  BY <1>1, <1>2, <1>5, <1>6, ItemShape, Zenon DEF ItemsInv, PlaceInv, HeldInv
<1>10. QueueInv'
  BY <1>2, <1>5, <1>6, ItemShape DEF ItemsInv, PlaceInv, QueueInv
<1>11. RunInv'
  BY <1>1, <1>2, <1>6, ItemShape DEF ItemsInv, PlaceInv, RunInv
<1>12. CoverInv'
  BY <1>1, <1>2, <1>4, <1>5, Zenon DEF ItemsInv, CoverInv
<1>13. LeftInv'
  <2>1. Mine(Held, t) = {} /\ Mine(FairItems, t) = {} /\ Mine(released, t) = {}
    <3>1. \A m \in Held \cup FairItems \cup released : m \in Item /\ m[1] # t
      <4>1. \A m \in Held \cup FairItems \cup released : m \in Item
                /\ (m = picked \/ m \in running \/ m \in Queued("io") \/ m \in released)
        BY <1>6, HeldItems, Zenon DEF Held, FairItems, Queued
      <4>2. QED
        BY <1>6, <4>1, IdleTask, ItemShape
    <3>2. QED
      BY <3>1, Zenon DEF Mine
  <2>2. Cardinality({}) = 0
    BY FS_EmptySet, Zenon
  <2>3. ASSUME NEW u \in Tasks
        PROVE  left'[u] = Len(queues'[u]) + Cardinality(Mine(Held, u))
                                  + Cardinality(Mine(FairItems, u)) + Cardinality(Mine(released, u))
    <3>1. CASE u = t
      <4>1. left'[u] = Width /\ Len(queues'[u]) = Width /\ Width \in Nat
        BY <1>2, <1>3, <3>1, WidthAssumption, Zenon
      <4>2. Cardinality(Mine(Held, u)) = 0 /\ Cardinality(Mine(FairItems, u)) = 0 /\ Cardinality(Mine(released, u)) = 0
        BY <2>1, <2>2, <3>1, Zenon
      <4>3. QED
        BY <4>1, <4>2
    <3>2. CASE u # t
      BY <1>2, <3>2, Zenon DEF ItemsInv, LeftInv
    <3>3. QED
      BY <3>1, <3>2, Zenon
  <2>4. QED
    BY <1>1, <1>5, <2>3, Zenon DEF ItemsInv, LeftInv, Mine
<1>14. QED
  BY <1>7, <1>8, <1>9, <1>10, <1>11, <1>12, <1>13, Zenon DEF ItemsInv, PlaceInv

LEMMA FirstLeft ==
    ASSUME NEW w \in Nat, NEW n \in Nat, n >= 1, n =< w
    PROVE  /\ w - n + 1 \in Nat
           /\ \A j \in Nat : j > w - n <=> j = w - n + 1 \/ j > w - (n - 1)
           /\ ~(w - n + 1 > w - (n - 1))
OBVIOUS

\* _loop, under the condition variable: the first index left of a call is held.
LEMMA PickStep == ASSUME TypeOK, ItemsInv, OrderInv, FairPick PROVE ItemsInv'
<1>0. PICK c \in Tasks :
             /\ queues[c] # <<>> /\ phase[c] = "run" /\ kind[c] = "fair"
             /\ Head(queues[c]) = Width - Len(queues[c]) + 1 /\ Head(queues[c]) \in Indices
             /\ picked' = <<c, Head(queues[c])>>
             /\ queues' = [queues EXCEPT ![c] = Tail(queues[c])]
  <2>1. Pick /\ PlaceInv
    BY Zenon DEF FairPick, ItemsInv
  <2>2. QED
    BY <2>1, PickFacts, Zenon
<1>1. picked = <<>> /\ UNCHANGED <<released, left, slots, phase, kind, queue, running, results>>
  BY Zenon DEF FairPick, Pick, taskVars, poolVars
<1>2. PICK i \in Indices : i = Head(queues[c])
  BY <1>0, Zenon
<1>3. i = Width - Len(queues[c]) + 1 /\ picked' = <<c, i>>
  BY <1>0, <1>2, Zenon
<1>4. Len(queues[c]) \in Nat \ {0} /\ Len(queues[c]) =< Width /\ queues[c] \in Seq(Indices)
      /\ \A j \in 1 .. Len(queues[c]) : queues[c][j] = Width - Len(queues[c]) + j
  BY <1>0 DEF ItemsInv, PlaceInv, CallsInv, TypeOK, FairTypeOK
<1>5. queues'[c] = Tail(queues[c]) /\ \A u \in Tasks : u # c => queues'[u] = queues[u]
  BY <1>0, Zenon DEF TypeOK, FairTypeOK
<1>6. Len(queues'[c]) = Len(queues[c]) - 1
      /\ \A j \in 1 .. Len(queues[c]) - 1 : queues'[c][j] = queues[c][j + 1]
  BY <1>4, <1>5
<1> PICK n \in Nat : n = Len(queues[c])
  BY <1>4, Zenon
<1>a. n >= 1 /\ n =< Width /\ Width \in Nat /\ i = Width - n + 1 /\ Len(queues'[c]) = n - 1
  BY <1>3, <1>4, <1>6, WidthAssumption
<1>b. /\ \A j \in Nat : j > Width - n <=> j = i \/ j > Width - (n - 1)
      /\ ~(i > Width - (n - 1)) /\ i \in Nat
  BY <1>a, FirstLeft, Zenon
<1>7. i \in Unpicked(c) /\ Unpicked(c)' = Unpicked(c) \ {i}
  <2>1. Unpicked(c) = {j \in Indices : j > Width - n}
    BY Zenon DEF Unpicked
  <2>2. Unpicked(c)' = {j \in Indices : j > Width - (n - 1)}
    BY <1>a, Zenon DEF Unpicked
  <2>3. Indices \subseteq Nat
    BY <1>a DEF Indices
  <2>4. QED
    BY <1>b, <2>1, <2>2, <2>3, Zenon
<1>8. \A u \in Tasks : u # c => Unpicked(u)' = Unpicked(u)
  BY <1>5, Zenon DEF Unpicked
<1>9. /\ \A u : PoolOf(u)' = PoolOf(u)
      /\ \A p : Queued(p)' = Queued(p)
      /\ FairItems' = FairItems
  BY <1>1, Zenon DEF PoolOf, Queued, FairItems
<1>10. CallsInv'
  <2>1. SUFFICES ASSUME NEW u \in Tasks
                 PROVE  /\ Len(queues'[u]) =< Width
                        /\ \A j \in 1 .. Len(queues'[u]) : queues'[u][j] = Width - Len(queues'[u]) + j
                        /\ queues'[u] # <<>> => phase'[u] = "run" /\ kind'[u] = "fair"
    BY Zenon DEF CallsInv
  <2>2. CASE u = c
    <3>1. ASSUME NEW j \in 1 .. n - 1 PROVE queues'[c][j] = Width - (n - 1) + j
      <4>1. queues'[c][j] = queues[c][j + 1]
        BY <1>6, Zenon
      <4>2. j + 1 \in 1 .. n
        BY <1>a
      <4>3. queues[c][j + 1] = Width - n + (j + 1)
        BY <1>4, <4>2, Zenon
      <4>4. QED
        BY <1>a, <4>1, <4>3
    <3>2. n - 1 =< Width /\ phase'[c] = "run" /\ kind'[c] = "fair"
      BY <1>0, <1>1, <1>a
    <3>3. QED
      BY <1>a, <2>2, <3>1, <3>2, Zenon
  <2>3. CASE u # c
    BY <1>1, <1>5, <2>3 DEF ItemsInv, PlaceInv, CallsInv
  <2>4. QED
    BY <2>2, <2>3, Zenon
<1>11. \A u \in Tasks : Unpicked(u)' \subseteq Unpicked(u) /\ \A j \in Unpicked(u)' : <<u, j>> # <<c, i>>
  BY <1>7, <1>8, Zenon
<1>12. FreshInv'
  <2>1. SUFFICES ASSUME NEW u \in Tasks, NEW j \in Unpicked(u)'
                 PROVE  <<u, j>> # picked' /\ <<u, j>> \notin Queued("io")' /\ <<u, j>> \notin running' /\ <<u, j>> \notin results'
    BY Zenon DEF FreshInv
  <2>2. j \in Unpicked(u) /\ <<u, j>> # picked'
    BY <1>3, <1>11, Zenon
  <2>3. QED
    BY <1>1, <1>9, <2>2, Zenon DEF ItemsInv, PlaceInv, FreshInv
<1>13. HeldInv'
  <2>1. <<c, i>> \notin Queued("io") /\ <<c, i>> \notin running /\ <<c, i>> \notin results
    BY <1>7, Zenon DEF ItemsInv, PlaceInv, FreshInv
  <2>2. picked'[1] = c
    BY <1>3, Zenon
  <2>3. QED
    BY <1>0, <1>1, <1>3, <1>9, <2>1, <2>2, Zenon DEF HeldInv
<1>14. QueueInv' /\ RunInv'
  BY <1>1, <1>9, Zenon DEF ItemsInv, PlaceInv, QueueInv, RunInv
<1>15. CoverInv'
  <2>1. SUFFICES ASSUME NEW u \in Tasks
                 PROVE  /\ phase'[u] = "run" => \A j \in Indices :
                             \/ j \in Unpicked(u)'
                             \/ <<u, j>> = picked'
                             \/ <<u, j>> \in Queued(PoolOf(u))'
                             \/ <<u, j>> \in running'
                             \/ <<u, j>> \in results'
                        /\ phase'[u] = "done" => ItemsOf(u) \subseteq results'
    BY Zenon DEF CoverInv
  <2>2. Queued(PoolOf(u))' = Queued(PoolOf(u))
    BY <1>1, Zenon DEF Queued, PoolOf
  <2>3. ASSUME NEW j \in Indices, j \in Unpicked(u) PROVE j \in Unpicked(u)' \/ <<u, j>> = picked'
    BY <1>3, <1>7, <1>8, <2>3, Zenon
  <2>4. ASSUME NEW j \in Indices PROVE <<u, j>> # picked
    BY <1>1, Zenon
  <2>5. QED
    BY <1>1, <2>2, <2>3, <2>4, Zenon DEF ItemsInv, CoverInv
<1>16. LeftInv'
  <2>1. Held = {} /\ Held' = {<<c, i>>}
    BY <1>1, <1>3, Zenon DEF Held
  <2>2. Mine(Held', c) = {<<c, i>>} /\ \A u \in Tasks : u # c => Mine(Held', u) = {}
    BY <2>1 DEF Mine
  <2>3. \A u \in Tasks : Mine(Held, u) = {}
    BY <2>1, Zenon DEF Mine
  <2>4. Cardinality({<<c, i>>}) = 1 /\ Cardinality({}) = 0
    BY FS_EmptySet, FS_Singleton, Zenon
  <2>5. ASSUME NEW u \in Tasks
        PROVE  left[u] = Len(queues'[u]) + Cardinality(Mine(Held', u))
                                  + Cardinality(Mine(FairItems, u)) + Cardinality(Mine(released, u))
    <3>0. /\ left[u] = Len(queues[u]) + 0 + Cardinality(Mine(FairItems, u)) + Cardinality(Mine(released, u))
          /\ Cardinality(Mine(FairItems, u)) \in Nat /\ Cardinality(Mine(released, u)) \in Nat
      <4>1. left[u] = Len(queues[u]) + Cardinality(Mine(Held, u))
                                  + Cardinality(Mine(FairItems, u)) + Cardinality(Mine(released, u))
        BY Zenon DEF ItemsInv, LeftInv
      <4>2. Cardinality(Mine(Held, u)) = 0
        BY <2>3, <2>4, Zenon
      <4>3. released \subseteq Item /\ FairItems \subseteq Item
        BY HeldItems, Zenon DEF TypeOK, FairTypeOK
      <4>4. QED
        BY <4>1, <4>2, <4>3, MineFinite, Zenon
    <3>1. CASE u = c
      <4>1. Cardinality(Mine(Held', u)) = 1
        BY <2>2, <2>4, <3>1, Zenon
      <4>2. QED
        BY <1>4, <1>6, <3>0, <3>1, <4>1
    <3>2. CASE u # c
      <4>1. Cardinality(Mine(Held', u)) = 0 /\ queues'[u] = queues[u]
        BY <1>5, <2>2, <2>4, <3>2, Zenon
      <4>2. QED
        BY <3>0, <4>1, Zenon
    <3>3. QED
      BY <3>1, <3>2, Zenon
  <2>6. QED
    BY <1>1, <1>9, <2>5, Zenon DEF ItemsInv, LeftInv, Mine
<1>17. QED
  BY <1>10, <1>12, <1>13, <1>14, <1>15, <1>16, Zenon DEF ItemsInv, PlaceInv

One(m, t) == IF m[1] = t THEN 1 ELSE 0

LEMMA MineAdd ==
    ASSUME NEW S \in SUBSET Item, NEW m \in Item, m \notin S, NEW t
    PROVE  Cardinality(Mine(S \cup {m}, t)) = Cardinality(Mine(S, t)) + One(m, t)
<1>1. IsFiniteSet(Mine(S, t)) /\ Cardinality(Mine(S, t)) \in Nat /\ m \notin Mine(S, t)
  BY MineFinite, Zenon DEF Mine
<1>2. CASE m[1] = t
  <2>1. Mine(S \cup {m}, t) = Mine(S, t) \cup {m}
    BY <1>2, Zenon DEF Mine
  <2>2. QED
    BY <1>1, <1>2, <2>1, Add, Zenon DEF One
<1>3. CASE m[1] # t
  <2>1. Mine(S \cup {m}, t) = Mine(S, t)
    BY <1>3, Zenon DEF Mine
  <2>2. QED
    BY <1>1, <1>3, <2>1 DEF One
<1>4. QED
  BY <1>2, <1>3, Zenon

LEMMA MineDrop ==
    ASSUME NEW S \in SUBSET Item, NEW m \in S, NEW t
    PROVE  Cardinality(Mine(S, t)) = Cardinality(Mine(S \ {m}, t)) + One(m, t)
<1>1. S \ {m} \in SUBSET Item /\ m \in Item /\ m \notin S \ {m} /\ (S \ {m}) \cup {m} = S
  BY Zenon
<1>2. Cardinality(Mine((S \ {m}) \cup {m}, t)) = Cardinality(Mine(S \ {m}, t)) + One(m, t)
  BY <1>1, MineAdd, Zenon
<1>3. QED
  BY <1>1, <1>2, Zenon

LEMMA MineHeld ==
    ASSUME NEW t
    PROVE  /\ picked = <<>> => Cardinality(Mine(Held, t)) = 0
           /\ picked \in Item => Cardinality(Mine(Held, t)) = One(picked, t)
<1>0. Mine({}, t) = {} /\ Cardinality({}) = 0
  BY FS_EmptySet, Zenon DEF Mine
<1>1. CASE picked = <<>>
  <2>1. Held = {}
    BY <1>1, Zenon DEF Held
  <2>2. picked \notin Item
    BY <1>1, ItemShape, Zenon
  <2>3. QED
    BY <1>0, <2>1, <2>2, Zenon
<1>2. CASE picked \in Item
  <2>1. picked # <<>> /\ Held = {} \cup {picked}
    BY <1>2, ItemShape, Zenon DEF Held
  <2>2. Cardinality(Mine({} \cup {picked}, t)) = Cardinality(Mine({}, t)) + One(picked, t)
    BY <1>2, MineAdd, Zenon
  <2>3. One(picked, t) \in Nat
    BY Zenon DEF One
  <2>4. Cardinality(Mine(Held, t)) = 0 + One(picked, t)
    BY <1>0, <2>1, <2>2, Zenon
  <2>5. QED
    BY <2>1, <2>3, <2>4
<1>3. QED
  BY <1>1, <1>2, Zenon

LEMMA OneNat == \A m, t : One(m, t) \in Nat
BY Zenon DEF One

\* _loop, outside the condition variable: the held item goes to the I/O pool.
LEMMA SubmitStep == ASSUME TypeOK, ItemsInv, FairSubmit PROVE ItemsInv'
<1>1. PICK m \in Item : m = picked
  BY Zenon DEF FairSubmit, Acquire, TypeOK, FairTypeOK
<1>2. /\ picked # <<>> /\ picked' = <<>> /\ slots' = slots - 1 /\ slots > 0
      /\ UNCHANGED <<queues, released, left, phase, kind, running, results>>
      /\ queue' = [queue EXCEPT !["io"] = Append(queue["io"], m)]
  BY <1>1, Zenon DEF FairSubmit, Acquire, taskVars
<1>3. m[1] \in Tasks /\ phase[m[1]] = "run" /\ kind[m[1]] = "fair" /\ PoolOf(m[1]) = "io"
      /\ m \notin Queued("io") /\ m \notin running /\ m \notin results
  BY <1>1, <1>2, ItemShape, Zenon DEF ItemsInv, PlaceInv, HeldInv, PoolOf
<1>4. "io" \in Pools /\ "meta" \in Pools /\ (\A p \in Pools : p = "io" \/ p = "meta")
      /\ queue'["io"] = Append(queue["io"], m) /\ queue'["meta"] = queue["meta"]
  BY <1>2, Zenon DEF Pools, TypeOK
<1>5. Queued("io")' = Queued("io") \cup {m} /\ IsInjective(queue'["io"])
  <2>1. queue["io"] \in Seq(Item) /\ Queued("io") = Range(queue["io"]) /\ IsInjective(queue["io"])
    BY <1>4, HeldItems, Zenon DEF Queued, ItemsInv, PlaceInv, QueueInv
  <2>2. Range(Append(queue["io"], m)) = Range(queue["io"]) \cup {m} /\ IsInjective(Append(queue["io"], m))
    BY <1>3, <2>1, AppendFacts
  <2>3. QED
    BY <1>4, <2>1, <2>2, Zenon DEF Queued
<1>6. Queued("meta")' = Queued("meta")
  BY <1>4, Zenon DEF Queued
<1>7. \A u : PoolOf(u)' = PoolOf(u) /\ Unpicked(u)' = Unpicked(u)
  BY <1>2, Zenon DEF PoolOf, Unpicked
<1>8. CallsInv' /\ HeldInv' /\ RunInv'
  BY <1>2, Zenon DEF ItemsInv, PlaceInv, CallsInv, HeldInv, RunInv
<1>9. FreshInv'
  <2>1. SUFFICES ASSUME NEW u \in Tasks, NEW i \in Unpicked(u)
                 PROVE  <<u, i>> # picked' /\ <<u, i>> \notin Queued("io")' /\ <<u, i>> \notin running' /\ <<u, i>> \notin results'
    BY <1>7, Zenon DEF FreshInv
  <2>2. <<u, i>> # m /\ <<u, i>> \notin Queued("io") /\ <<u, i>> \notin running /\ <<u, i>> \notin results
    BY <1>1, Zenon DEF ItemsInv, PlaceInv, FreshInv
  <2>3. <<u, i>> # picked'
    BY <1>2, Zenon
  <2>4. QED
    BY <1>2, <1>5, <2>2, <2>3, Zenon
<1>10. QueueInv'
  <2>1. ASSUME NEW p \in Pools PROVE IsInjective(queue'[p])
    BY <1>4, <1>5, Zenon DEF ItemsInv, PlaceInv, QueueInv
  <2>2. ASSUME NEW p \in Pools, NEW n \in Queued(p)'
        PROVE  phase[n[1]] = "run" /\ PoolOf(n[1]) = p /\ n \notin running /\ n \notin results
    <3>1. CASE n \in Queued(p)
      BY <3>1, Zenon DEF ItemsInv, PlaceInv, QueueInv
    <3>2. CASE n \notin Queued(p)
      <4>1. p = "io" /\ n = m
        BY <1>4, <1>5, <1>6, <2>2, <3>2, Zenon
      <4>2. QED
        BY <1>3, <4>1, Zenon
    <3>3. QED
      BY <3>1, <3>2, Zenon
  <2>3. QED
    BY <1>2, <1>7, <2>1, <2>2, Zenon DEF QueueInv
<1>11. CoverInv'
  <2>1. SUFFICES ASSUME NEW u \in Tasks
                 PROVE  /\ phase[u] = "run" => \A i \in Indices :
                             \/ i \in Unpicked(u)
                             \/ <<u, i>> = picked'
                             \/ <<u, i>> \in Queued(PoolOf(u))'
                             \/ <<u, i>> \in running
                             \/ <<u, i>> \in results
                        /\ phase[u] = "done" => ItemsOf(u) \subseteq results
    BY <1>2, <1>7, Zenon DEF CoverInv
  <2>2. PoolOf(u) \in Pools /\ PoolOf(u)' = PoolOf(u)
    BY <1>7, Zenon DEF PoolOf, Pools
  <2>3. Queued(PoolOf(u)) \subseteq Queued(PoolOf(u))'
    BY <1>4, <1>5, <1>6, <2>2, Zenon
  <2>4. ASSUME NEW i, <<u, i>> = picked PROVE <<u, i>> \in Queued(PoolOf(u))'
    <3>1. u = m[1] /\ <<u, i>> = m
      BY <1>1, <2>4, Zenon
    <3>2. PoolOf(u)' = "io"
      BY <1>3, <2>2, <3>1, Zenon
    <3>3. QED
      BY <1>5, <3>1, <3>2, Zenon
  <2>5. QED
    BY <2>3, <2>4, Zenon DEF ItemsInv, CoverInv
<1>12. FairItems' = FairItems \cup {m} /\ m \notin FairItems
  <2>1. FairItems = {n \in running \cup Queued("io") : kind[n[1]] = "fair"}
        /\ FairItems' = {n \in running \cup Queued("io")' : kind[n[1]] = "fair"}
    BY <1>2, Zenon DEF FairItems, Queued
  <2>2. QED
    BY <1>3, <1>5, <2>1, Zenon
<1>13. LeftInv'
  <2>1. FairItems \in SUBSET Item /\ released \in SUBSET Item
    BY HeldItems, Zenon DEF TypeOK, FairTypeOK
  <2>2. ASSUME NEW u \in Tasks
        PROVE  left[u] = Len(queues[u]) + Cardinality(Mine(Held', u))
                           + Cardinality(Mine(FairItems', u)) + Cardinality(Mine(released, u))
    <3>1. left[u] = Len(queues[u]) + Cardinality(Mine(Held, u))
                           + Cardinality(Mine(FairItems, u)) + Cardinality(Mine(released, u))
      BY Zenon DEF ItemsInv, LeftInv
    <3>2. Cardinality(Mine(Held, u)) = One(m, u)
      BY <1>1, MineHeld, Zenon
    <3>3. Cardinality(Mine(Held', u)) = 0
      <4>1. Held' = {} /\ Mine({}, u) = {}
        BY <1>2, Zenon DEF Held, Mine
      <4>2. QED
        BY <4>1, FS_EmptySet, Zenon
    <3>4. Cardinality(Mine(FairItems', u)) = Cardinality(Mine(FairItems, u)) + One(m, u)
      BY <1>12, <2>1, MineAdd, Zenon
    <3>5. /\ One(m, u) \in Nat /\ Cardinality(Mine(FairItems, u)) \in Nat
          /\ Cardinality(Mine(released, u)) \in Nat /\ Len(queues[u]) \in Nat
      BY <2>1, MineFinite, OneNat DEF TypeOK, FairTypeOK
    <3>6. QED
      BY <3>1, <3>2, <3>3, <3>4, <3>5
  <2>3. IsFiniteSet(FairItems') /\ Cardinality(FairItems') = Cardinality(FairItems) + 1 /\ Cardinality(FairItems) \in Nat
    BY <1>12, Add, Zenon DEF ItemsInv, LeftInv
  <2>4. slots' + Cardinality(FairItems') = Slots
    BY <1>2, <2>3, SlotsAssumption DEF ItemsInv, LeftInv, TypeOK, FairTypeOK
  <2>5. QED
    BY <1>2, <2>2, <2>3, <2>4, Zenon DEF LeftInv, Mine
<1>14. QED
  BY <1>8, <1>9, <1>10, <1>11, <1>13, Zenon DEF ItemsInv, PlaceInv

\* A pool worker takes the oldest item of its queue.
LEMMA TakeStep == ASSUME TypeOK, ItemsInv, NEW p \in Pools, ItemStart(p) PROVE ItemsInv'
<1>1. queue[p] \in Seq(Item) /\ IsInjective(queue[p]) /\ Range(queue[p]) = Queued(p) /\ queue[p] # <<>>
  BY HeldItems, Zenon DEF ItemStart, ItemsInv, PlaceInv, QueueInv, Queued
<1>2. PICK m \in Item : m = Head(queue[p])
  BY <1>1
<1>3. m \in Queued(p) /\ Range(Tail(queue[p])) = Queued(p) \ {m} /\ IsInjective(Tail(queue[p]))
  BY <1>1, <1>2, TailFacts
<1>4. /\ running' = running \cup {m} /\ queue' = [queue EXCEPT ![p] = Tail(queue[p])]
      /\ UNCHANGED <<queues, picked, slots, released, left, phase, kind, results>>
  BY <1>2, Zenon DEF ItemStart, fairVars, taskVars
<1>5. queue'[p] = Tail(queue[p]) /\ \A r \in Pools : r # p => queue'[r] = queue[r]
  BY <1>4, Zenon DEF TypeOK
<1>6. Queued(p)' = Queued(p) \ {m} /\ \A r \in Pools : r # p => Queued(r)' = Queued(r)
  BY <1>3, <1>5, Zenon DEF Queued
<1>7. phase[m[1]] = "run" /\ PoolOf(m[1]) = p /\ m \notin running /\ m \notin results
  BY <1>3, Zenon DEF ItemsInv, PlaceInv, QueueInv
<1>8. \A u : PoolOf(u)' = PoolOf(u) /\ Unpicked(u)' = Unpicked(u)
  BY <1>4, Zenon DEF PoolOf, Unpicked
<1>9. "io" \in Pools /\ p \in {"io", "meta"}
  BY Zenon DEF Pools
<1>10. p # "io" => kind[m[1]] = "meta"
  BY <1>7, Zenon DEF PoolOf
<1>11. CallsInv'
  BY <1>4, Zenon DEF ItemsInv, PlaceInv, CallsInv
<1>12. FreshInv'
  <2>1. SUFFICES ASSUME NEW u \in Tasks, NEW i \in Unpicked(u)
                 PROVE  <<u, i>> # picked /\ <<u, i>> \notin Queued("io")' /\ <<u, i>> \notin running' /\ <<u, i>> \notin results
    BY <1>4, <1>8, Zenon DEF FreshInv
  <2>2. <<u, i>> # picked /\ <<u, i>> \notin Queued("io") /\ <<u, i>> \notin running /\ <<u, i>> \notin results
    BY Zenon DEF ItemsInv, PlaceInv, FreshInv
  <2>3. <<u, i>> # m
    <3>1. CASE p = "io"
      BY <1>3, <2>2, <3>1, Zenon
    <3>2. CASE p # "io"
      <4>1. i \in Indices /\ i > Width - Len(queues[u])
        BY Zenon DEF Unpicked
      <4>2. queues[u] # <<>>
        BY <4>1, WidthAssumption DEF Indices
      <4>3. kind[u] = "fair"
        BY <4>2, Zenon DEF ItemsInv, PlaceInv, CallsInv
      <4>4. <<u, i>>[1] = u
        BY Zenon
      <4>5. QED
        BY <1>10, <3>2, <4>3, <4>4, Zenon
    <3>3. QED
      BY <3>1, <3>2, Zenon
  <2>4. QED
    BY <1>4, <1>6, <1>9, <2>2, <2>3, Zenon
<1>13. HeldInv'
  <2>1. SUFFICES ASSUME picked # <<>>
                 PROVE  phase[picked[1]] = "run" /\ kind[picked[1]] = "fair" /\ picked \notin Queued("io")'
                        /\ picked \notin running' /\ picked \notin results
    BY <1>4, Zenon DEF HeldInv
  <2>2. phase[picked[1]] = "run" /\ kind[picked[1]] = "fair" /\ picked \notin Queued("io")
        /\ picked \notin running /\ picked \notin results
    BY <2>1, Zenon DEF ItemsInv, PlaceInv, HeldInv
  <2>3. picked # m
    BY <1>3, <1>9, <1>10, <2>2, Zenon
  <2>4. QED
    BY <1>4, <1>6, <1>9, <2>2, <2>3, Zenon
<1>14. QueueInv'
  <2>1. ASSUME NEW r \in Pools PROVE IsInjective(queue'[r])
    BY <1>3, <1>5, Zenon DEF ItemsInv, PlaceInv, QueueInv
  <2>2. ASSUME NEW r \in Pools, NEW n \in Queued(r)'
        PROVE  phase[n[1]] = "run" /\ PoolOf(n[1]) = r /\ n \notin running' /\ n \notin results
    <3>1. n \in Queued(r) /\ (r = p => n # m)
      BY <1>6, <2>2, Zenon
    <3>2. phase[n[1]] = "run" /\ PoolOf(n[1]) = r /\ n \notin running /\ n \notin results
      BY <3>1, Zenon DEF ItemsInv, PlaceInv, QueueInv
    <3>3. n # m
      BY <1>7, <3>1, <3>2, Zenon
    <3>4. QED
      BY <1>4, <3>2, <3>3, Zenon
  <2>3. QED
    BY <1>4, <1>8, <2>1, <2>2, Zenon DEF QueueInv
<1>15. RunInv'
  BY <1>4, <1>7, Zenon DEF ItemsInv, PlaceInv, RunInv
<1>16. CoverInv'
  <2>1. SUFFICES ASSUME NEW u \in Tasks
                 PROVE  /\ phase[u] = "run" => \A i \in Indices :
                             \/ i \in Unpicked(u)
                             \/ <<u, i>> = picked
                             \/ <<u, i>> \in Queued(PoolOf(u))'
                             \/ <<u, i>> \in running'
                             \/ <<u, i>> \in results
                        /\ phase[u] = "done" => ItemsOf(u) \subseteq results
    BY <1>4, <1>8, Zenon DEF CoverInv
  <2>2. PoolOf(u) \in Pools /\ PoolOf(u)' = PoolOf(u)
    BY <1>8, Zenon DEF PoolOf, Pools
  <2>3. Queued(PoolOf(u)) \subseteq Queued(PoolOf(u))' \cup {m}
    BY <1>6, <2>2, Zenon
  <2>4. m \in running' /\ running \subseteq running'
    BY <1>4, Zenon
  <2>5. QED
    BY <2>3, <2>4, Zenon DEF ItemsInv, CoverInv
<1>17. FairItems' = FairItems
  <2>1. FairItems = {n \in running \cup Queued("io") : kind[n[1]] = "fair"}
        /\ FairItems' = {n \in running \cup {m} \cup Queued("io")' : kind[n[1]] = "fair"}
    BY <1>4, Zenon DEF FairItems, Queued
  <2>2. CASE p = "io"
    BY <1>3, <1>6, <2>1, <2>2, Zenon
  <2>3. CASE p # "io"
    BY <1>6, <1>9, <1>10, <2>1, <2>3, Zenon
  <2>4. QED
    BY <2>2, <2>3, Zenon
<1>18. LeftInv'
  BY <1>4, <1>17, Zenon DEF ItemsInv, LeftInv, Mine, Held
<1>19. QED
  BY <1>11, <1>12, <1>13, <1>14, <1>15, <1>16, <1>18, Zenon DEF ItemsInv, PlaceInv

\* An item has its result; one of the dispatcher gives its slot back with it.
LEMMA EndStep == ASSUME TypeOK, ItemsInv, NEW m \in Item, ItemEnd(m) PROVE ItemsInv'
<1>1. /\ m \in running /\ running' = running \ {m} /\ results' = results \cup {m}
      /\ UNCHANGED <<queues, picked, queue, left, phase, kind>>
  BY Zenon DEF ItemEnd, Release, fairVars, taskVars
<1>2. \/ kind[m[1]] = "fair" /\ released' = released \cup {m} /\ slots' = slots + 1
      \/ kind[m[1]] # "fair" /\ released' = released /\ slots' = slots
  BY Zenon DEF ItemEnd, Release, fairVars
<1>3. phase[m[1]] = "run" /\ m \notin results /\ m \notin released
  BY <1>1, Zenon DEF ItemsInv, PlaceInv, RunInv
<1>4. /\ \A u : PoolOf(u)' = PoolOf(u) /\ Unpicked(u)' = Unpicked(u)
      /\ \A r : Queued(r)' = Queued(r)
      /\ Held' = Held
  BY <1>1, Zenon DEF PoolOf, Unpicked, Queued, Held
<1>5. m # picked /\ \A r \in Pools : m \notin Queued(r)
  BY <1>1, ItemShape, Zenon DEF ItemsInv, PlaceInv, HeldInv, QueueInv
<1>6. CallsInv'
  BY <1>1, Zenon DEF ItemsInv, PlaceInv, CallsInv
<1>7. FreshInv'
  BY <1>1, <1>4, Zenon DEF ItemsInv, PlaceInv, FreshInv
<1>8. HeldInv'
  BY <1>1, <1>4, <1>5, Zenon DEF ItemsInv, PlaceInv, HeldInv
<1>9. QueueInv'
  <2>1. ASSUME NEW r \in Pools, NEW n \in Queued(r)
        PROVE  phase[n[1]] = "run" /\ PoolOf(n[1]) = r /\ n \notin running' /\ n \notin results'
    <3>1. phase[n[1]] = "run" /\ PoolOf(n[1]) = r /\ n \notin running /\ n \notin results
      BY <2>1, Zenon DEF ItemsInv, PlaceInv, QueueInv
    <3>2. n # m
      BY <1>5, <2>1, Zenon
    <3>3. QED
      BY <1>1, <3>1, <3>2, Zenon
  <2>2. \A r \in Pools : IsInjective(queue[r])
    BY Zenon DEF ItemsInv, PlaceInv, QueueInv
  <2>3. QED
    BY <1>1, <1>4, <2>1, <2>2, Zenon DEF QueueInv
<1>10. RunInv'
  BY <1>1, <1>2, <1>3, Zenon DEF ItemsInv, PlaceInv, RunInv
<1>11. CoverInv'
  <2>1. \A u \in Tasks : Queued(PoolOf(u))' = Queued(PoolOf(u))
    BY <1>1, Zenon DEF Queued, PoolOf
  <2>2. results \subseteq results' /\ running \subseteq running' \cup results'
    BY <1>1, Zenon
  <2>3. QED
    BY <1>1, <1>4, <2>1, <2>2, Zenon DEF ItemsInv, CoverInv
<1>12. FairItems = {n \in running \cup Queued("io") : kind[n[1]] = "fair"}
       /\ FairItems' = {n \in (running \ {m}) \cup Queued("io") : kind[n[1]] = "fair"}
  BY <1>1, Zenon DEF FairItems, Queued
<1>13. FairItems \in SUBSET Item /\ released \in SUBSET Item /\ "io" \in Pools
  BY HeldItems, Zenon DEF TypeOK, FairTypeOK, Pools
<1>14. CASE kind[m[1]] # "fair"
  <2>1. FairItems' = FairItems
    BY <1>12, <1>14
  <2>2. LeftInv'
    BY <1>1, <1>2, <1>4, <1>14, <2>1, Zenon DEF ItemsInv, LeftInv, Mine
  <2>3. QED
    BY <1>6, <1>7, <1>8, <1>9, <1>10, <1>11, <2>2, Zenon DEF ItemsInv, PlaceInv
<1>15. CASE kind[m[1]] = "fair"
  <2>1. m \in FairItems /\ FairItems' = FairItems \ {m}
    BY <1>1, <1>5, <1>12, <1>13, <1>15, Zenon
  <2>2. released' = released \cup {m} /\ slots' = slots + 1
    BY <1>2, <1>15, Zenon
  <2>3. ASSUME NEW u \in Tasks
        PROVE  left[u] = Len(queues[u]) + Cardinality(Mine(Held, u))
                           + Cardinality(Mine(FairItems', u)) + Cardinality(Mine(released', u))
    <3>1. left[u] = Len(queues[u]) + Cardinality(Mine(Held, u))
                           + Cardinality(Mine(FairItems, u)) + Cardinality(Mine(released, u))
      BY Zenon DEF ItemsInv, LeftInv
    <3>2. Cardinality(Mine(FairItems, u)) = Cardinality(Mine(FairItems', u)) + One(m, u)
      BY <1>13, <2>1, MineDrop, Zenon
    <3>3. Cardinality(Mine(released', u)) = Cardinality(Mine(released, u)) + One(m, u)
      BY <1>3, <1>13, <2>2, MineAdd, Zenon
    <3>4. /\ One(m, u) \in Nat /\ Cardinality(Mine(FairItems', u)) \in Nat
          /\ Cardinality(Mine(released, u)) \in Nat /\ Len(queues[u]) \in Nat
          /\ Cardinality(Mine(Held, u)) \in Nat
      <4>1. FairItems' \in SUBSET Item /\ Held \in SUBSET Item
        BY <1>13, <2>1, HeldItems, Zenon
      <4>2. QED
        BY <1>13, <4>1, MineFinite, OneNat DEF TypeOK, FairTypeOK
    <3>5. QED
      BY <3>1, <3>2, <3>3, <3>4
  <2>4. IsFiniteSet(FairItems') /\ Cardinality(FairItems') = Cardinality(FairItems) - 1
        /\ Cardinality(FairItems) \in Nat \ {0}
    BY <2>1, Drop, Zenon DEF ItemsInv, LeftInv
  <2>5. slots' + Cardinality(FairItems') = Slots
    BY <2>2, <2>4, SlotsAssumption DEF ItemsInv, LeftInv, TypeOK, FairTypeOK
  <2>6. LeftInv'
    BY <1>1, <1>4, <2>3, <2>4, <2>5, Zenon DEF LeftInv, Mine
  <2>7. QED
    BY <1>6, <1>7, <1>8, <1>9, <1>10, <1>11, <2>6, Zenon DEF ItemsInv, PlaceInv
<1>16. QED
  BY <1>14, <1>15, Zenon

\* The end of _one: the item is counted down.
LEMMA CountStep == ASSUME TypeOK, ItemsInv, NEW m \in Item, FairCount(m) PROVE ItemsInv'
<1>1. /\ m \in released /\ released' = released \ {m} /\ left' = [left EXCEPT ![m[1]] = @ - 1]
      /\ UNCHANGED <<queues, picked, queue, running, results, phase, kind, slots>>
  BY Zenon DEF FairCount, Count, taskVars, poolVars
<1>2. /\ \A u : PoolOf(u)' = PoolOf(u) /\ Unpicked(u)' = Unpicked(u)
      /\ \A r : Queued(r)' = Queued(r)
      /\ Held' = Held /\ FairItems' = FairItems
  BY <1>1, Zenon DEF PoolOf, Unpicked, Queued, Held, FairItems
<1>3. PlaceInv'
  BY <1>1, <1>2, Zenon DEF ItemsInv, PlaceInv, CallsInv, FreshInv, HeldInv, QueueInv, RunInv
<1>4. CoverInv'
  <2>1. \A u \in Tasks : Queued(PoolOf(u))' = Queued(PoolOf(u))
    BY <1>1, Zenon DEF Queued, PoolOf
  <2>2. QED
    BY <1>1, <1>2, <2>1, Zenon DEF ItemsInv, CoverInv
<1>5. released \in SUBSET Item /\ FairItems \in SUBSET Item /\ Held \in SUBSET Item /\ m[1] \in Tasks
  BY HeldItems, ItemShape, Zenon DEF TypeOK, FairTypeOK
<1>6. ASSUME NEW u \in Tasks
      PROVE  left'[u] = Len(queues[u]) + Cardinality(Mine(Held, u))
                           + Cardinality(Mine(FairItems, u)) + Cardinality(Mine(released', u))
  <2> DEFINE ready == Len(queues[u])
             held  == Cardinality(Mine(Held, u))
             out   == Cardinality(Mine(FairItems, u))
             ended == Cardinality(Mine(released, u))
             still == Cardinality(Mine(released', u))
  <2>1. left[u] = ready + held + out + ended
    BY Zenon DEF ItemsInv, LeftInv
  <2>2. ended = still + One(m, u)
    BY <1>1, <1>5, MineDrop, Zenon
  <2>3. released' \in SUBSET Item
    BY <1>1, <1>5, Zenon
  <2>4. still \in Nat /\ out \in Nat /\ held \in Nat /\ ready \in Nat /\ left[u] \in Nat
    BY <1>5, <2>3, MineFinite DEF TypeOK, FairTypeOK
  <2> HIDE DEF ready, held, out, ended, still
  <2>5. CASE u = m[1]
    <3>1. left'[u] = left[u] - 1 /\ One(m, u) = 1
      BY <1>1, <1>5, <2>5, Zenon DEF One, TypeOK, FairTypeOK
    <3>2. left'[u] = ready + held + out + still
      BY <2>1, <2>2, <2>4, <3>1
    <3>3. QED
      BY <3>2, Zenon DEF ready, held, out, still
  <2>6. CASE u # m[1]
    <3>1. left'[u] = left[u] /\ One(m, u) = 0
      BY <1>1, <1>5, <2>6, Zenon DEF One, TypeOK, FairTypeOK
    <3>2. left'[u] = ready + held + out + still
      BY <2>1, <2>2, <2>4, <3>1
    <3>3. QED
      BY <3>2, Zenon DEF ready, held, out, still
  <2>7. QED
    BY <2>5, <2>6, Zenon
<1>7. LeftInv'
  BY <1>1, <1>2, <1>6, Zenon DEF ItemsInv, LeftInv, Mine
<1>8. QED
  BY <1>3, <1>4, <1>7, Zenon DEF ItemsInv

\* The wait of run(), or of map()'s iterator, ends when every item of the task has
\* its result and none is left anywhere.
LEMMA Over ==
    ASSUME TypeOK, ItemsInv, NEW t \in Tasks, phase[t] = "run", Answered(t)
    PROVE  /\ ItemsOf(t) \subseteq results
           /\ queues[t] = <<>>
           /\ \A m \in Item : m = picked \/ m \in running \/ m \in released \/ (\E p \in Pools : m \in Queued(p))
                              => m[1] # t
<1>1. CASE kind[t] # "fair"
  <2>1. ItemsOf(t) \subseteq results
    BY <1>1, Zenon DEF Answered
  <2>2. \A m \in Item : m[1] = t => m \in results
    BY <2>1, ItemShape, Zenon DEF ItemsOf
  <2>3. queues[t] = <<>>
    BY <1>1, Zenon DEF ItemsInv, PlaceInv, CallsInv
  <2>4. ASSUME NEW m \in Item, m = picked \/ m \in running \/ m \in released PROVE m[1] # t
    BY <1>1, <2>2, <2>4, ItemShape, Zenon DEF ItemsInv, PlaceInv, HeldInv, RunInv
  <2>5. ASSUME NEW m \in Item, NEW p \in Pools, m \in Queued(p) PROVE m[1] # t
    BY <2>2, <2>5, Zenon DEF ItemsInv, PlaceInv, QueueInv
  <2>6. QED
    BY <2>1, <2>3, <2>4, <2>5, Zenon
<1>2. CASE kind[t] = "fair"
  <2>1. released \in SUBSET Item /\ FairItems \in SUBSET Item /\ Held \in SUBSET Item /\ "io" \in Pools
    BY HeldItems, Zenon DEF TypeOK, FairTypeOK, Pools
  <2>2. left[t] = 0 /\ left[t] = Len(queues[t]) + Cardinality(Mine(Held, t))
                           + Cardinality(Mine(FairItems, t)) + Cardinality(Mine(released, t))
    BY <1>2, Zenon DEF Answered, ItemsInv, LeftInv
  <2>3. /\ IsFiniteSet(Mine(Held, t)) /\ Cardinality(Mine(Held, t)) \in Nat
        /\ IsFiniteSet(Mine(FairItems, t)) /\ Cardinality(Mine(FairItems, t)) \in Nat
        /\ IsFiniteSet(Mine(released, t)) /\ Cardinality(Mine(released, t)) \in Nat
    BY <2>1, MineFinite, Zenon
  <2>4. queues[t] \in Seq(Indices) /\ Len(queues[t]) \in Nat
    BY DEF TypeOK, FairTypeOK
  <2>5. /\ Len(queues[t]) = 0 /\ Cardinality(Mine(Held, t)) = 0
        /\ Cardinality(Mine(FairItems, t)) = 0 /\ Cardinality(Mine(released, t)) = 0
    <3>1. Len(queues[t]) + Cardinality(Mine(Held, t))
            + Cardinality(Mine(FairItems, t)) + Cardinality(Mine(released, t)) = 0
      BY <2>2, Zenon
    <3>2. QED
      BY <2>3, <2>4, <3>1, SumOfNone, ZenonT(30)
  <2>6. Mine(Held, t) = {} /\ Mine(FairItems, t) = {} /\ Mine(released, t) = {}
    BY <2>3, <2>5, FS_EmptySet, Zenon
  <2>7. queues[t] = <<>> /\ Unpicked(t) = {}
    BY <2>4, <2>5, WidthAssumption DEF Unpicked, Indices
  <2>8. ASSUME NEW m \in Item, m = picked PROVE m[1] # t
    BY <2>6, <2>8, ItemShape, Zenon DEF Mine, Held
  <2>9. ASSUME NEW m \in Item, m \in released PROVE m[1] # t
    BY <2>6, <2>9, Zenon DEF Mine
  <2>10. ASSUME NEW m \in Item, m \in running \/ m \in Queued("io") PROVE m[1] # t
    BY <1>2, <2>6, <2>10, Zenon DEF Mine, FairItems, Queued
  <2>11. ASSUME NEW m \in Item, NEW p \in Pools, m \in Queued(p) PROVE m[1] # t
    <3>1. PoolOf(m[1]) = p
      BY <2>11, Zenon DEF ItemsInv, PlaceInv, QueueInv
    <3>2. PoolOf(t) = "io"
      BY <1>2, Zenon DEF PoolOf
    <3>3. QED
      BY <2>10, <2>11, <3>1, <3>2, Zenon
  <2>12. ASSUME NEW i \in Indices PROVE <<t, i>> \in results
    <3>1. <<t, i>> \in Item /\ <<t, i>>[1] = t /\ PoolOf(t) \in Pools
      BY PairItem, Zenon DEF PoolOf, Pools
    <3>2. i \notin Unpicked(t) /\ <<t, i>> # picked /\ <<t, i>> \notin running /\ <<t, i>> \notin Queued(PoolOf(t))
      BY <2>7, <2>8, <2>10, <2>11, <3>1, Zenon
    <3>3. QED
      BY <3>2, Zenon DEF ItemsInv, CoverInv
  <2>13. ItemsOf(t) \subseteq results
    BY <2>12 DEF ItemsOf
  <2>14. QED
    BY <2>7, <2>8, <2>9, <2>10, <2>11, <2>13, Zenon
<1>3. QED
  BY <1>1, <1>2, Zenon

LEMMA FinishStep == ASSUME TypeOK, ItemsInv, NEW t \in Tasks, Finish(t) PROVE ItemsInv'
<1>1. /\ phase[t] = "run" /\ Answered(t) /\ phase' = [phase EXCEPT ![t] = "done"]
      /\ UNCHANGED <<queues, picked, queue, running, results, released, left, slots, kind>>
  BY Zenon DEF Finish, fairVars, poolVars
<1>2. phase'[t] = "done" /\ \A u \in Tasks : u # t => phase'[u] = phase[u]
  BY <1>1, Zenon DEF TypeOK
<1>3. /\ \A u : PoolOf(u)' = PoolOf(u) /\ Unpicked(u)' = Unpicked(u)
      /\ \A r : Queued(r)' = Queued(r)
      /\ Held' = Held /\ FairItems' = FairItems
  BY <1>1, Zenon DEF PoolOf, Unpicked, Queued, Held, FairItems
<1>4. /\ running \subseteq Item /\ results \subseteq Item /\ released \subseteq Item
      /\ picked \in Item \cup {<<>>} /\ (\A p \in Pools : Queued(p) \subseteq Item)
  BY HeldItems, Zenon DEF TypeOK, FairTypeOK
<1>5. /\ ItemsOf(t) \subseteq results /\ queues[t] = <<>>
      /\ \A m \in Item : m = picked \/ m \in running \/ m \in released \/ (\E p \in Pools : m \in Queued(p))
                              => m[1] # t
  BY <1>1, Over, Zenon
<1>6. CallsInv'
  BY <1>1, <1>2, <1>5, ZenonT(30) DEF ItemsInv, PlaceInv, CallsInv
<1>7. FreshInv'
  BY <1>1, <1>3, Zenon DEF ItemsInv, PlaceInv, FreshInv
<1>8. HeldInv'
  BY <1>1, <1>2, <1>3, <1>4, <1>5, ItemShape, Zenon DEF ItemsInv, PlaceInv, HeldInv
<1>9. QueueInv'
  <2>1. ASSUME NEW r \in Pools, NEW n \in Queued(r)
        PROVE  phase'[n[1]] = "run" /\ PoolOf(n[1]) = r /\ n \notin running /\ n \notin results
    <3>1. n \in Item /\ n[1] \in Tasks /\ n[1] # t
      BY <1>4, <1>5, <2>1, ItemShape, Zenon
    <3>2. QED
      BY <1>2, <2>1, <3>1, Zenon DEF ItemsInv, PlaceInv, QueueInv
  <2>2. \A r \in Pools : IsInjective(queue[r])
    BY Zenon DEF ItemsInv, PlaceInv, QueueInv
  <2>3. QED
    BY <1>1, <1>3, <2>1, <2>2, Zenon DEF QueueInv
<1>10. RunInv'
  BY <1>1, <1>2, <1>4, <1>5, ItemShape DEF ItemsInv, PlaceInv, RunInv
<1>11. CoverInv'
  <2>1. \A u \in Tasks : Queued(PoolOf(u))' = Queued(PoolOf(u))
    BY <1>1, Zenon DEF Queued, PoolOf
  <2>2. QED
    BY <1>1, <1>2, <1>3, <1>5, <2>1, Zenon DEF ItemsInv, CoverInv
<1>12. LeftInv'
  BY <1>1, <1>3, Zenon DEF ItemsInv, LeftInv, Mine
<1>13. QED
  BY <1>6, <1>7, <1>8, <1>9, <1>10, <1>11, <1>12, Zenon DEF ItemsInv, PlaceInv

LEMMA ItemsStep == ASSUME TypeOK, TaskInv, ItemsInv, OrderInv, [Next]_vars PROVE ItemsInv'
<1>1. CASE UNCHANGED vars
  BY <1>1, SamePlaces, Zenon DEF vars, fairVars, taskVars, poolVars, places
<1>2. ASSUME NEW t \in Tasks, NEW k \in Kinds, Submit(t, k) PROVE ItemsInv'
  <2>1. \/ phase' = [phase EXCEPT ![t] = "refused"]
        \/ phase' = [phase EXCEPT ![t] = "queued"]
    BY <1>2, Zenon DEF Submit
  <2>2. phase[t] = "new" /\ kind' = [kind EXCEPT ![t] = k] /\ UNCHANGED <<fairVars, poolVars>>
    BY <1>2, Zenon DEF Submit
  <2>3. /\ phase[t] \notin {"run", "done"} /\ phase'[t] \notin {"run", "done"}
        /\ \A u \in Tasks : u # t => phase'[u] = phase[u] /\ kind'[u] = kind[u]
    BY <2>1, <2>2, Zenon DEF TypeOK
  <2>4. UNCHANGED places /\ UNCHANGED <<left, slots>>
    BY <2>2, Zenon DEF fairVars, poolVars, places
  <2>5. QED
    BY <2>3, <2>4, IdleChange, Zenon
<1>3. ASSUME NEW t \in Tasks, Finish(t) PROVE ItemsInv'
  BY <1>3, FinishStep, Zenon
<1>4. CASE Start
  <2>1. PICK t \in Tasks : t = Head(waiting) /\ phase[t] = "queued"
    BY <1>4, TailFacts, Zenon DEF Start, TypeOK, TaskInv
  <2>2. UNCHANGED <<kind, running, results>>
    BY <1>4, Zenon DEF Start
  <2>3. \/ phase' = [phase EXCEPT ![t] = "failed"] /\ UNCHANGED <<fairVars, queue>>
        \/ phase' = [phase EXCEPT ![t] = "run"] /\ kind[t] = "fair" /\ Run(t) /\ UNCHANGED queue
        \/ phase' = [phase EXCEPT ![t] = "run"] /\ kind[t] # "fair" /\ UNCHANGED fairVars
           /\ queue' = [queue EXCEPT ![PoolOf(t)] = @ \o [i \in Indices |-> <<t, i>>]]
    BY <1>4, <2>1, Zenon DEF Start
  <2>4. CASE phase' = [phase EXCEPT ![t] = "failed"] /\ UNCHANGED <<fairVars, queue>>
    <3>1. /\ phase[t] \notin {"run", "done"} /\ phase'[t] \notin {"run", "done"}
          /\ \A u \in Tasks : u # t => phase'[u] = phase[u] /\ kind'[u] = kind[u]
      BY <2>1, <2>2, <2>4, Zenon DEF TypeOK
    <3>2. UNCHANGED places /\ UNCHANGED <<left, slots>>
      BY <2>2, <2>4, Zenon DEF fairVars, places
    <3>3. QED
      BY <3>1, <3>2, IdleChange, Zenon
  <2>5. CASE phase' = [phase EXCEPT ![t] = "run"] /\ kind[t] = "fair" /\ Run(t) /\ UNCHANGED queue
    BY <2>1, <2>2, <2>5, RunStep, Zenon
  <2>6. CASE phase' = [phase EXCEPT ![t] = "run"] /\ kind[t] # "fair" /\ UNCHANGED fairVars
             /\ queue' = [queue EXCEPT ![PoolOf(t)] = @ \o [i \in Indices |-> <<t, i>>]]
    <3>1. UNCHANGED <<fairVars, kind, running, results>>
      BY <2>2, <2>6, Zenon
    <3>2. QED
      BY <2>1, <2>6, <3>1, MapStep, Zenon
  <2>7. QED
    BY <2>3, <2>4, <2>5, <2>6, Zenon
<1>5. CASE FairPick
  BY <1>5, PickStep, Zenon
<1>6. CASE FairSubmit
  BY <1>6, SubmitStep, Zenon
<1>7. ASSUME NEW m \in Item, ItemEnd(m) PROVE ItemsInv'
  BY <1>7, EndStep, Zenon
<1>8. ASSUME NEW m \in Item, FairCount(m) PROVE ItemsInv'
  BY <1>8, CountStep, Zenon
<1>9. ASSUME NEW p \in Pools, ItemStart(p) PROVE ItemsInv'
  BY <1>9, TakeStep, Zenon
<1>10. CASE Close \/ CloseStep
  <2>1. UNCHANGED <<queues, picked, slots, released, left>> /\ UNCHANGED <<taskVars, poolVars>>
    BY <1>10, Zenon DEF Close, CloseStep, Drained, StopFair, FairClose, Shutdown, Unmount, CloseSignals, fairVars
  <2>2. QED
    BY <2>1, SamePlaces, Zenon DEF taskVars, poolVars, places
<1>11. QED
  BY <1>1, <1>2, <1>3, <1>4, <1>5, <1>6, <1>7, <1>8, <1>9, <1>10, NextCases, Zenon
-----------------------------------------------------------------------------
(* The turns of the calls.                                                 *)

LEMMA SameOrder ==
    ASSUME OrderInv, UNCHANGED <<queues, order, rr, passed>>,
           \A t \in Tasks : phase'[t] \notin {"run", "done"} => phase[t] \notin {"run", "done"}
    PROVE  OrderInv'
<1>1. \A i, j : Ahead(i, j)' <=> Ahead(i, j)
  BY Zenon DEF Ahead
<1>2. QED
  BY <1>1, Zenon DEF OrderInv

\* A call joins at the end of the order; it has had no turn, and missed none.
LEMMA JoinStep ==
    ASSUME TypeOK, ItemsInv, OrderInv, NEW t \in Tasks, phase[t] = "queued",
           phase' = [phase EXCEPT ![t] = "run"], Run(t)
    PROVE  OrderInv'
<1>1. order' = Append(order, t) /\ UNCHANGED <<rr, passed>> /\ queues' = [queues EXCEPT ![t] = [i \in Indices |-> i]]
  BY Zenon DEF Run
<1>2. order \in Seq(Tasks) /\ IsInjective(order)
  BY Zenon DEF TypeOK, FairTypeOK, OrderInv
<1>3. t \notin Range(order) /\ queues[t] = <<>>
  BY IdleTask, Zenon DEF OrderInv
<1>4. IsInjective(order') /\ Range(order') = Range(order) \cup {t}
  BY <1>1, <1>2, <1>3, AppendFacts, ZenonT(30)
<1>5. \A u \in Tasks : u \in Range(order') <=> queues'[u] # <<>>
  <2>1. queues'[t] # <<>> /\ \A u \in Tasks : u # t => queues'[u] = queues[u]
    BY <1>1, AllIndices, Zenon DEF TypeOK, FairTypeOK
  <2>2. QED
    BY <1>4, <2>1, Zenon DEF OrderInv
<1>6. phase'[t] = "run" /\ \A u \in Tasks : u # t => phase'[u] = phase[u]
  BY Zenon DEF TypeOK
<1>7. \A u \in Tasks : phase'[u] \notin {"run", "done"} => passed[u] = Zero /\ \A c \in Tasks : passed[c][u] = 0
  BY <1>6, Zenon DEF OrderInv
<1>8. \A d \in Tasks : passed[t][d] = 0 /\ passed[d][t] = 0
  BY DEF OrderInv, Zero
<1>9. /\ DOMAIN order = 1 .. Len(order) /\ Len(order) \in Nat /\ DOMAIN order' = 1 .. Len(order) + 1
      /\ (\A i \in 1 .. Len(order) : order'[i] = order[i] /\ order[i] \in Tasks) /\ order'[Len(order) + 1] = t
  BY <1>1, <1>2
<1>10. \A i \in DOMAIN order' : i \in DOMAIN order \/ order'[i] = t
  BY <1>9
<1>11. ASSUME NEW i \in DOMAIN order', NEW d \in Tasks PROVE passed[order'[i]][d] =< 1
  <2>1. CASE i \in DOMAIN order
    <3>1. order'[i] = order[i]
      BY <1>9, <2>1, Zenon
    <3>2. passed[order[i]][d] =< 1
      BY <2>1, Zenon DEF OrderInv
    <3>3. QED
      BY <3>1, <3>2, Zenon
  <2>2. CASE order'[i] = t
    <3>1. passed[order'[i]][d] = 0
      BY <1>8, <2>2, Zenon
    <3>2. QED
      BY <3>1
  <2>3. QED
    BY <1>10, <2>1, <2>2, Zenon
<1>12. ASSUME NEW i \in DOMAIN order', NEW j \in DOMAIN order', passed[order'[i]][order'[j]] = 1 PROVE Ahead(i, j)
  <2>1. order'[i] # t /\ order'[j] # t
    <3>1. order'[i] \in Tasks /\ order'[j] \in Tasks
      BY <1>9, <1>10, Zenon
    <3>2. QED
      BY <1>8, <1>12, <3>1
  <2>2. i \in DOMAIN order /\ j \in DOMAIN order /\ order'[i] = order[i] /\ order'[j] = order[j]
    BY <1>9, <1>10, <2>1, Zenon
  <2>3. QED
    BY <1>12, <2>2, Zenon DEF OrderInv
<1>13. \A i, j : Ahead(i, j)' <=> Ahead(i, j)
  BY <1>1, Zenon DEF Ahead
<1>14. QED
  BY <1>1, <1>4, <1>5, <1>7, <1>11, <1>12, <1>13, Zenon DEF OrderInv

LEMMA TurnStep == ASSUME TypeOK, ItemsInv, OrderInv, FairPick PROVE OrderInv'
<1>0. PICK at \in Nat, c \in Tasks :
             /\ at < Len(order) /\ c = order[at + 1]
             /\ rr = at \/ (rr = Len(order) /\ at = 0)
             /\ queues[c] # <<>> /\ phase[c] = "run"
             /\ queues' = [queues EXCEPT ![c] = Tail(queues[c])]
             /\ \/ Len(queues[c]) = 1 /\ rr' = at
                   /\ order' = SubSeq(order, 1, at) \o SubSeq(order, at + 2, Len(order))
                \/ Len(queues[c]) > 1 /\ rr' = at + 1 /\ order' = order
             /\ passed' = [d \in Tasks |-> IF d = c THEN Zero
                                           ELSE IF queues[d] # <<>> THEN [passed[d] EXCEPT ![c] = @ + 1]
                                           ELSE passed[d]]
  <2>1. Pick /\ PlaceInv
    BY Zenon DEF FairPick, ItemsInv
  <2>2. QED
    BY <2>1, PickFacts, Zenon
<1>1. phase' = phase
  BY Zenon DEF FairPick, taskVars
<1>2. PICK n \in Nat : n = Len(order) /\ DOMAIN order = 1 .. n /\ \A i \in 1 .. n : order[i] \in Tasks
  BY DEF TypeOK, FairTypeOK
<1>3. at + 1 \in 1 .. n /\ \A i \in 1 .. n : order[i] = c => i = at + 1
  BY <1>0, <1>2 DEF OrderInv, IsInjective
<1>4. passed \in [Tasks -> [Tasks -> Nat]] /\ \A d \in Tasks : Zero[d] = 0
  BY Zenon DEF TypeOK, FairTypeOK, Zero
\* No call that still waits has seen a turn of c since its own: c is first in line.
<1>5. ASSUME NEW i \in 1 .. n, i # at + 1 PROVE passed[order[i]][c] = 0
  <2>1. ~Ahead(i, at + 1)
    BY <1>0, <1>2, <1>3, <1>5 DEF Ahead
  <2>2. passed[order[i]][c] # 1
    BY <1>0, <1>2, <1>3, <2>1, Zenon DEF OrderInv
  <2>3. passed[order[i]][c] =< 1 /\ passed[order[i]][c] \in Nat
    BY <1>2, <1>4, Zenon DEF OrderInv
  <2>4. QED
    BY <2>2, <2>3
<1>6. /\ \A d \in Tasks : passed'[c][d] = 0
      /\ \A u \in Tasks : u # c /\ queues[u] # <<>> => passed'[u][c] = passed[u][c] + 1
      /\ \A u \in Tasks : u # c /\ queues[u] = <<>> => passed'[u] = passed[u]
      /\ \A u, d \in Tasks : u # c /\ d # c => passed'[u][d] = passed[u][d]
  BY <1>0, <1>4, Zenon
<1>7. \A i \in 1 .. n : queues[order[i]] # <<>>
  BY <1>2, Zenon DEF OrderInv, Range
<1>8. ASSUME NEW i \in 1 .. n, NEW d \in Tasks PROVE passed'[order[i]][d] =< 1
  <2>0. order[i] \in Tasks
    BY <1>2, Zenon
  <2>1. CASE i = at + 1
    <3>1. order[i] = c
      BY <1>0, <2>1, Zenon
    <3>2. passed'[order[i]][d] = 0
      BY <1>6, <3>1, Zenon
    <3>3. QED
      BY <3>2
  <2>2. CASE i # at + 1 /\ d = c
    <3>1. order[i] # c
      BY <1>3, <2>2, Zenon
    <3>2. passed'[order[i]][c] = 0 + 1
      BY <1>5, <1>6, <1>7, <2>0, <2>2, <3>1
    <3>3. QED
      BY <2>2, <3>2
  <2>3. CASE i # at + 1 /\ d # c
    BY <1>2, <1>3, <1>6, <2>0, <2>3 DEF OrderInv
  <2>4. QED
    BY <2>1, <2>2, <2>3, Zenon
<1>9. ASSUME NEW i \in 1 .. n, NEW j \in 1 .. n, passed'[order[i]][order[j]] = 1
      PROVE  i # at + 1 /\ (j # at + 1 => Ahead(i, j))
  <2>1. order[i] \in Tasks /\ order[j] \in Tasks
    BY <1>2, Zenon
  <2>2. ASSUME i = at + 1 PROVE FALSE
    <3>1. order[i] = c
      BY <1>0, <2>2, Zenon
    <3>2. passed'[order[i]][order[j]] = 0
      BY <1>6, <2>1, <3>1, Zenon
    <3>3. QED
      BY <1>9, <3>2
  <2>3. ASSUME j # at + 1 PROVE Ahead(i, j)
    <3>1. order[i] # c /\ order[j] # c
      BY <1>3, <2>2, <2>3, Zenon
    <3>2. passed[order[i]][order[j]] = 1
      BY <1>6, <1>9, <2>1, <3>1, Zenon
    <3>3. QED
      BY <1>2, <3>2, Zenon DEF OrderInv
  <2>4. QED
    BY <2>2, <2>3, Zenon
<1>10. \A u \in Tasks : phase'[u] \notin {"run", "done"} => passed'[u] = Zero /\ \A d \in Tasks : passed'[d][u] = 0
  <2>1. SUFFICES ASSUME NEW u \in Tasks, phase[u] \notin {"run", "done"}
                 PROVE  passed'[u] = Zero /\ \A d \in Tasks : passed'[d][u] = 0
    BY <1>1, Zenon
  <2>2. u # c /\ queues[u] = <<>>
    BY <1>0, <2>1, IdleTask, Zenon
  <2>3. passed[u] = Zero /\ \A d \in Tasks : passed[d][u] = 0
    BY <2>1, Zenon DEF OrderInv
  <2>4. passed'[u] = Zero
    BY <1>6, <2>2, <2>3, Zenon
  <2>5. ASSUME NEW d \in Tasks PROVE passed'[d][u] = 0
    BY <1>6, <2>2, <2>3, Zenon
  <2>6. QED
    BY <2>4, <2>5, Zenon
<1>11. queues'[c] = Tail(queues[c]) /\ \A u \in Tasks : u # c => queues'[u] = queues[u]
  BY <1>0, Zenon DEF TypeOK, FairTypeOK
<1>12. queues[c] \in Seq(Indices)
  BY Zenon DEF TypeOK, FairTypeOK
<1>13. CASE Len(queues[c]) > 1 /\ rr' = at + 1 /\ order' = order
  <2>1. queues'[c] # <<>>
    <3>1. Len(Tail(queues[c])) = Len(queues[c]) - 1
      BY <1>0, <1>12
    <3>2. PICK k \in Nat : k = Len(queues[c]) /\ k > 1
      BY <1>12, <1>13
    <3>3. Len(queues'[c]) = k - 1
      BY <1>11, <3>1, <3>2, Zenon
    <3>4. QED
      BY <3>2, <3>3
  <2>2. \A u \in Tasks : u \in Range(order') <=> queues'[u] # <<>>
    BY <1>0, <1>11, <1>13, <2>1, Zenon DEF OrderInv
  <2>3. ASSUME NEW i \in 1 .. n, NEW j \in 1 .. n, passed'[order[i]][order[j]] = 1 PROVE Ahead(i, j)'
    <3>1. i # at + 1 /\ (j # at + 1 => Ahead(i, j))
      BY <1>9, <2>3, Zenon
    <3>2. Ahead(i, j)' <=> IF i > at + 1 <=> j > at + 1 THEN i < j ELSE i > at + 1
      BY <1>13, Zenon DEF Ahead
    <3>3. CASE j = at + 1
      BY <1>3, <3>1, <3>2, <3>3
    <3>4. CASE j # at + 1
      <4>1. Ahead(i, j)
        BY <3>1, <3>4, Zenon
      <4>2. QED
        BY <1>0, <1>2, <3>1, <3>2, <3>4, <4>1 DEF Ahead
    <3>5. QED
      BY <3>3, <3>4, Zenon
  <2>4. QED
    BY <1>2, <1>8, <1>10, <1>13, <2>2, <2>3, Zenon DEF OrderInv
<1>14. CASE Len(queues[c]) = 1 /\ rr' = at
            /\ order' = SubSeq(order, 1, at) \o SubSeq(order, at + 2, Len(order))
  <2> DEFINE old(k) == IF k =< at THEN k ELSE k + 1
  <2>1. /\ order' \in Seq(Tasks) /\ Len(order') = n - 1
        /\ \A k \in 1 .. n - 1 : order'[k] = IF k =< at THEN order[k] ELSE order[k + 1]
    <3>1. order \in Seq(Tasks)
      BY Zenon DEF TypeOK, FairTypeOK
    <3>2. QED
      BY <1>0, <1>2, <1>14, <3>1, RemoveFacts, Zenon
  <2>2. DOMAIN order' = 1 .. n - 1
    BY <1>2, <2>1
  <2>3. ASSUME NEW k \in 1 .. n - 1 PROVE old(k) \in 1 .. n /\ old(k) # at + 1 /\ order'[k] = order[old(k)]
    <3>1. CASE k =< at
      BY <1>0, <1>2, <2>1, <3>1
    <3>2. CASE ~(k =< at)
      BY <1>0, <1>2, <2>1, <3>2
    <3>3. QED
      BY <3>1, <3>2, Zenon
  <2>4. IsInjective(order')
    <3>1. ASSUME NEW k \in 1 .. n - 1, NEW l \in 1 .. n - 1, order'[k] = order'[l] PROVE k = l
      <4>1. \A i, j \in 1 .. n : order[i] = order[j] => i = j
        BY <1>2, Zenon DEF OrderInv, IsInjective
      <4>2. /\ old(k) \in 1 .. n /\ order'[k] = order[old(k)]
            /\ old(l) \in 1 .. n /\ order'[l] = order[old(l)]
        BY <2>3, Zenon
      <4>3. old(k) = old(l)
        BY <3>1, <4>1, <4>2, Zenon
      <4>4. QED
        BY <1>2, <4>3
    <3>2. QED
      BY <2>2, <3>1, Zenon DEF IsInjective
  <2>5. queues'[c] = <<>>
    <3>1. Tail(queues[c]) = <<>>
      BY <1>12, <1>14, TailOfOne, Zenon
    <3>2. QED
      BY <1>11, <3>1, Zenon
  <2>6. Range(order') = Range(order) \ {c}
    <3>1. ASSUME NEW k \in 1 .. n - 1 PROVE order'[k] \in Range(order) \ {c}
      BY <1>2, <1>3, <2>3, Zenon DEF Range
    <3>2. ASSUME NEW i \in 1 .. n, order[i] # c PROVE order[i] \in Range(order')
      <4>1. i # at + 1
        BY <1>0, <3>2, Zenon
      <4>2. PICK k \in 1 .. n - 1 : old(k) = i
        <5>1. CASE i =< at
          <6>1. i \in 1 .. n - 1 /\ old(i) = i
            BY <1>0, <1>2, <5>1
          <6>2. QED
            BY <6>1, Zenon
        <5>2. CASE i > at + 1
          <6>1. i - 1 \in 1 .. n - 1 /\ old(i - 1) = i
            BY <1>0, <1>2, <5>2
          <6>2. QED
            BY <6>1, Zenon
        <5>3. QED
          BY <4>1, <5>1, <5>2
      <4>3. QED
        BY <2>2, <2>3, <4>2, Zenon DEF Range
    <3>3. QED
      BY <1>2, <2>2, <3>1, <3>2, Zenon DEF Range
  <2>7. \A u \in Tasks : u \in Range(order') <=> queues'[u] # <<>>
    BY <1>11, <2>5, <2>6, Zenon DEF OrderInv
  <2>8. ASSUME NEW i \in 1 .. n - 1, NEW d \in Tasks PROVE passed'[order'[i]][d] =< 1
    BY <1>8, <2>3, Zenon
  <2>9. ASSUME NEW i \in 1 .. n - 1, NEW j \in 1 .. n - 1, passed'[order'[i]][order'[j]] = 1 PROVE Ahead(i, j)'
    <3>1. old(i) \in 1 .. n /\ old(j) \in 1 .. n /\ old(j) # at + 1
      BY <2>3, Zenon
    <3>2. passed'[order[old(i)]][order[old(j)]] = 1
      BY <2>3, <2>9, Zenon
    <3>3. Ahead(old(i), old(j))
      BY <1>9, <3>1, <3>2, Zenon
    <3>4. Ahead(i, j)' <=> IF i > at <=> j > at THEN i < j ELSE i > at
      BY <1>14, Zenon DEF Ahead
    <3>5. IF old(i) > rr <=> old(j) > rr THEN old(i) < old(j) ELSE old(i) > rr
      BY <3>3, Zenon DEF Ahead
    <3>6. QED
      BY <1>0, <1>2, <3>1, <3>4, <3>5
  <2>10. QED
    BY <1>10, <2>2, <2>4, <2>7, <2>8, <2>9, Zenon DEF OrderInv
<1>15. QED
  BY <1>0, <1>13, <1>14, Zenon

LEMMA OrderStep == ASSUME TypeOK, TaskInv, ItemsInv, OrderInv, [Next]_vars PROVE OrderInv'
<1>1. CASE UNCHANGED vars
  BY <1>1, SameOrder, Zenon DEF vars, fairVars, taskVars
<1>2. ASSUME NEW t \in Tasks, NEW k \in Kinds, Submit(t, k) PROVE OrderInv'
  <2>1. \/ phase' = [phase EXCEPT ![t] = "refused"]
        \/ phase' = [phase EXCEPT ![t] = "queued"]
    BY <1>2, Zenon DEF Submit
  <2>2. phase[t] = "new" /\ UNCHANGED <<queues, order, rr, passed>>
    BY <1>2, Zenon DEF Submit, fairVars
  <2>3. \A u \in Tasks : phase'[u] \notin {"run", "done"} => phase[u] \notin {"run", "done"}
    BY <2>1, <2>2, Zenon DEF TypeOK
  <2>4. QED
    BY <2>2, <2>3, SameOrder, Zenon
<1>3. ASSUME NEW t \in Tasks, Finish(t) PROVE OrderInv'
  <2>1. phase' = [phase EXCEPT ![t] = "done"] /\ UNCHANGED <<queues, order, rr, passed>>
    BY <1>3, Zenon DEF Finish, fairVars
  <2>2. \A u \in Tasks : phase'[u] \notin {"run", "done"} => phase[u] \notin {"run", "done"}
    BY <2>1, Zenon DEF TypeOK
  <2>3. QED
    BY <2>1, <2>2, SameOrder, Zenon
<1>4. CASE Start
  <2>1. PICK t \in Tasks : t = Head(waiting) /\ phase[t] = "queued"
    BY <1>4, TailFacts, Zenon DEF Start, TypeOK, TaskInv
  <2>2. \/ phase' = [phase EXCEPT ![t] = "failed"] /\ UNCHANGED fairVars
        \/ phase' = [phase EXCEPT ![t] = "run"] /\ Run(t)
        \/ phase' = [phase EXCEPT ![t] = "run"] /\ UNCHANGED fairVars
    BY <1>4, <2>1, Zenon DEF Start
  <2>3. CASE UNCHANGED fairVars
    <3>1. \A u \in Tasks : phase'[u] \notin {"run", "done"} => phase[u] \notin {"run", "done"}
      BY <2>1, <2>2, Zenon DEF TypeOK
    <3>2. QED
      BY <2>3, <3>1, SameOrder, Zenon DEF fairVars
  <2>4. CASE phase' = [phase EXCEPT ![t] = "run"] /\ Run(t)
    BY <2>1, <2>4, JoinStep, Zenon
  <2>5. QED
    BY <2>2, <2>3, <2>4, Zenon
<1>5. CASE FairPick
  BY <1>5, TurnStep, Zenon
<1>6. CASE FairSubmit
  BY <1>6, SameOrder, Zenon DEF FairSubmit, Acquire, taskVars
<1>7. ASSUME NEW m \in Item, ItemEnd(m) PROVE OrderInv'
  BY <1>7, SameOrder, Zenon DEF ItemEnd, Release, fairVars, taskVars
<1>8. ASSUME NEW m \in Item, FairCount(m) PROVE OrderInv'
  BY <1>8, SameOrder, Zenon DEF FairCount, Count, taskVars
<1>9. ASSUME NEW p \in Pools, ItemStart(p) PROVE OrderInv'
  BY <1>9, SameOrder, Zenon DEF ItemStart, fairVars, taskVars
<1>10. CASE Close \/ CloseStep
  <2>1. UNCHANGED <<queues, order, rr, passed>> /\ UNCHANGED taskVars
    BY <1>10, Zenon DEF Close, CloseStep, Drained, StopFair, FairClose, Shutdown, Unmount, CloseSignals, fairVars
  <2>2. QED
    BY <2>1, SameOrder, Zenon DEF taskVars
<1>11. QED
  BY <1>1, <1>2, <1>3, <1>4, <1>5, <1>6, <1>7, <1>8, <1>9, <1>10, NextCases, Zenon
-----------------------------------------------------------------------------
(* The theorems.                                                           *)

LEMMA PoolsInit == ASSUME Init PROVE PoolsInv
<1>1. TypeOK
  <2>1. FairTypeOK
    <3>1. queues \in [Tasks -> Seq(Indices)] /\ order \in Seq(Tasks) /\ rr \in 0 .. Len(order)
      BY DEF Init, FairInit
    <3>2. slots \in 0 .. Slots /\ left \in [Tasks -> 0 .. Width] /\ passed \in [Tasks -> [Tasks -> Nat]]
      BY WidthAssumption, SlotsAssumption DEF Init, FairInit, Zero
    <3>3. picked \in Item \cup {<<>>} /\ released \subseteq Item /\ stop \in BOOLEAN
      BY Zenon DEF Init, FairInit
    <3>4. QED
      BY <3>1, <3>2, <3>3, Zenon DEF FairTypeOK
  <2>2. phase \in [Tasks -> {"new", "queued", "run", "done", "failed", "refused"}]
        /\ kind \in [Tasks -> Kinds] /\ queue \in [Pools -> Seq(Item)] /\ waiting \in Seq(Tasks)
    BY DEF Init, Kinds, Pools
  <2>3. running \subseteq Item /\ results \subseteq Item /\ inflight \in Nat /\ stage \in Stages
    BY Zenon DEF Init, Stages
  <2>4. mounted \in BOOLEAN /\ signals \in BOOLEAN
    BY Zenon DEF Init
  <2>5. QED
    BY <2>1, <2>2, <2>3, <2>4, Zenon DEF TypeOK
<1>2. TaskInv
  <2>1. InFlight = {}
    BY Zenon DEF Init, InFlight
  <2>2. IsFiniteSet(InFlight) /\ inflight = Cardinality(InFlight)
    BY <2>1, FS_EmptySet, Zenon DEF Init
  <2>3. IsInjective(waiting) /\ Range(waiting) = {}
    BY DEF Init, IsInjective, Range
  <2>4. QED
    BY <2>2, <2>3, Zenon DEF Init, TaskInv
<1>3. Held = {} /\ FairItems = {} /\ \A p \in Pools : Queued(p) = {} /\ queue[p] = <<>>
  BY DEF Init, FairInit, Held, FairItems, Queued, Range, Pools
<1>4. \A t \in Tasks : queues[t] = <<>> /\ Len(queues[t]) = 0 /\ phase[t] = "new" /\ left[t] = 0
                       /\ passed[t] = Zero /\ \A d \in Tasks : passed[t][d] = 0
  BY Zenon DEF Init, FairInit, Zero
<1>5. \A t \in Tasks : Unpicked(t) = {}
  BY <1>4, WidthAssumption DEF Unpicked, Indices
<1>6. PlaceInv
  <2>1. CallsInv
    <3>1. 0 =< Width /\ 1 .. 0 = {}
      BY WidthAssumption
    <3>2. QED
      BY <1>4, <3>1, Zenon DEF CallsInv
  <2>2. FreshInv /\ HeldInv /\ RunInv
    BY <1>5, Zenon DEF Init, FairInit, FreshInv, HeldInv, RunInv
  <2>3. QueueInv
    BY <1>3 DEF QueueInv, IsInjective
  <2>4. QED
    BY <2>1, <2>2, <2>3, Zenon DEF PlaceInv
<1>7. CoverInv
  BY <1>4, Zenon DEF CoverInv
<1>8. LeftInv
  <2>1. \A t : Mine(Held, t) = {} /\ Mine(FairItems, t) = {} /\ Mine(released, t) = {}
    BY <1>3, Zenon DEF Init, FairInit, Mine
  <2>2. IsFiniteSet({}) /\ Cardinality({}) = 0
    BY FS_EmptySet, Zenon
  <2>3. ASSUME NEW t \in Tasks
        PROVE  left[t] = Len(queues[t]) + Cardinality(Mine(Held, t))
                           + Cardinality(Mine(FairItems, t)) + Cardinality(Mine(released, t))
    <3>1. Cardinality(Mine(Held, t)) = 0 /\ Cardinality(Mine(FairItems, t)) = 0 /\ Cardinality(Mine(released, t)) = 0
      BY <2>1, <2>2, Zenon
    <3>2. QED
      BY <1>4, <3>1
  <2>4. IsFiniteSet(FairItems) /\ slots + Cardinality(FairItems) = Slots
    <3>1. IsFiniteSet(FairItems) /\ Cardinality(FairItems) = 0
      BY <1>3, <2>2, Zenon
    <3>2. QED
      BY <3>1, SlotsAssumption DEF Init, FairInit
  <2>5. QED
    BY <2>3, <2>4, Zenon DEF LeftInv
<1>9. OrderInv
  <2>1. order = <<>> /\ DOMAIN order = {} /\ Range(order) = {}
    BY DEF Init, FairInit, Range
  <2>2. QED
    BY <1>4, <2>1, Zenon DEF OrderInv, IsInjective
<1>10. QED
  BY <1>1, <1>2, <1>6, <1>7, <1>8, <1>9, Zenon DEF PoolsInv

\* The types of the pools and the dispatcher, and where every task and item is.
THEOREM PoolsHold == Spec => []PoolsInv
<1>1. Init => PoolsInv
  BY PoolsInit, Zenon
<1>2. PoolsInv /\ [Next]_vars => PoolsInv'
  <2>1. SUFFICES ASSUME PoolsInv, [Next]_vars PROVE PoolsInv'
    BY Zenon
  <2>2. TypeOK /\ TaskInv /\ PlaceInv /\ CoverInv /\ LeftInv /\ OrderInv /\ ItemsInv
    BY <2>1, Zenon DEF PoolsInv, ItemsInv
  <2>3. TypeOK' /\ TaskInv' /\ ItemsInv' /\ OrderInv'
    BY <2>1, <2>2, TypeStep, TaskStep, ItemsStep, OrderStep, Zenon
  <2>4. QED
    BY <2>3, Zenon DEF PoolsInv, ItemsInv
<1>3. QED
  BY <1>1, <1>2, PTL DEF Spec

\* AllAnswered: a task of the L2 adapter is over only with a result for each of its
\* keys, and what the dispatcher's state["left"] counts is exactly the keys that are
\* queued, held, on the pool or not counted yet.
THEOREM AnsweredAll == Spec => []AllAnswered
<1>1. PoolsInv => AllAnswered
  <2>1. SUFFICES ASSUME PoolsInv, NEW t \in Tasks
                 PROVE  /\ left[t] = Len(queues[t]) + Cardinality(Mine(Held, t))
                                  + Cardinality(Mine(FairItems, t)) + Cardinality(Mine(released, t))
                        /\ phase[t] = "done" => ItemsOf(t) \subseteq results
    BY Zenon DEF AllAnswered, Mine, Held
  <2>2. QED
    BY <2>1, Zenon DEF PoolsInv, LeftInv, CoverInv
<1>2. QED
  BY <1>1, PoolsHold, PTL

\* OneByOne: while a load waits for its next turn no other one gets two, whatever
\* calls join and leave the round robin of _loop meanwhile.
THEOREM TurnsAreFair == Spec => []OneByOne
<1>1. PoolsInv => OneByOne
  <2>1. SUFFICES ASSUME PoolsInv, NEW c \in Tasks, NEW d \in Tasks, queues[c] # <<>> PROVE passed[c][d] =< 1
    BY Zenon DEF OneByOne
  <2>2. c \in Range(order)
    BY <2>1, Zenon DEF PoolsInv, OrderInv
  <2>3. PICK i \in DOMAIN order : order[i] = c
    BY <2>2, Zenon DEF Range
  <2>4. QED
    BY <2>1, <2>3, Zenon DEF PoolsInv, OrderInv
<1>2. QED
  BY <1>1, PoolsHold, PTL

\* NoUseAfterClose: when close() unmounts no item can still call into the mount, and
\* when it closes the eventfds no task can still signal one.
THEOREM NothingAfterClose == Spec => []NoUseAfterClose
<1>1. PoolsInv => NoUseAfterClose
  <2>1. SUFFICES ASSUME PoolsInv PROVE NoUseAfterClose
    BY Zenon
  <2>2. ~signals => \A t \in Tasks : phase[t] \notin {"queued", "run"}
    BY <2>1, Zenon DEF PoolsInv, TaskInv
  <2>3. ASSUME ~mounted PROVE running = {} /\ queue = [p \in Pools |-> <<>>] /\ picked = <<>>
    <3>1. \A t \in Tasks : phase[t] # "run"
      BY <2>1, <2>3, Zenon DEF PoolsInv, TaskInv
    <3>2. TypeOK
      BY <2>1, Zenon DEF PoolsInv
    <3>3. running = {} /\ picked = <<>>
      BY <2>1, <3>1, <3>2, ItemShape, Zenon DEF PoolsInv, PlaceInv, RunInv, HeldInv, TypeOK, FairTypeOK
    <3>4. ASSUME NEW p \in Pools PROVE queue[p] = <<>>
      <4>1. Queued(p) = {} /\ queue[p] \in Seq(Item)
        BY <2>1, <3>1, <3>2, HeldItems, ItemShape, Zenon DEF PoolsInv, PlaceInv, QueueInv
      <4>2. DOMAIN queue[p] = {}
        BY <4>1, Zenon DEF Queued, Range
      <4>3. \A q \in Seq(Item) : DOMAIN q = {} => q = <<>>
        OBVIOUS
      <4>4. QED
        BY <4>1, <4>2, <4>3, Zenon
    <3>5. queue = [p \in Pools |-> <<>>]
      BY <3>2, <3>4, Zenon DEF TypeOK
    <3>6. QED
      BY <3>3, <3>5, Zenon
  <2>4. QED
    BY <2>2, <2>3, Zenon DEF NoUseAfterClose
<1>2. QED
  BY <1>1, PoolsHold, PTL
-----------------------------------------------------------------------------
(* No deadlock.  The guards of the steps the code's scheduling carries out *)
(* stand here for the steps being possible.                                *)

\* ItemEnd, FairCount, Finish, ItemStart, Start, FairPick or FairSubmit can be taken.
PoolsGoOn ==
    \/ running # {}
    \/ released # {}
    \/ \E t \in Tasks : phase[t] = "run" /\ Answered(t)
    \/ \E p \in Pools : queue[p] # <<>> /\ FreeWorker(p)
    \/ waiting # <<>> /\ FreeTaskWorker
    \/ picked = <<>> /\ ~stop /\ order # <<>>
    \/ picked # <<>> /\ slots > 0

\* One of the steps of close() can be taken.
CloseGoesOn ==
    \/ stage \in {"drain", "fair", "dfs"}
    \/ stage \in {"tasks", "io", "meta"} /\ Joined(stage)

\* Whoever waits for a task, waits for something that moves.
NoSelfDeadlock == (\E t \in Tasks : phase[t] \in {"queued", "run"}) => PoolsGoOn \/ Stranded

\* close() goes on, or what it joins does.
CloseNotStuck == stage \notin {"open", "closed"} => CloseGoesOn \/ PoolsGoOn \/ Stranded

\* A pool none of whose workers is inside a call has one for what is queued.
LEMMA IdlePools ==
    ASSUME PoolsInv, ~PoolsGoOn
    PROVE  /\ running = {} /\ released = {} /\ \A p \in Pools : queue[p] = <<>>
           /\ FairItems = {} /\ picked = <<>>
<1>1. running = {} /\ released = {}
  BY Zenon DEF PoolsGoOn
<1>2. ASSUME NEW p \in Pools PROVE queue[p] = <<>>
  <2>1. Load(p) = {}
    BY <1>1, Zenon DEF Load
  <2>2. Cardinality(Load(p)) = 0
    BY <2>1, FS_EmptySet, Zenon
  <2>3. FreeWorker(p)
    BY <2>2, SlotsAssumption DEF FreeWorker
  <2>4. QED
    BY <2>3, Zenon DEF PoolsGoOn
<1>3. FairItems = {}
  <2>1. "io" \in Pools
    BY Zenon DEF Pools
  <2>2. queue["io"] = <<>>
    BY <1>2, <2>1, Zenon
  <2>3. Range(queue["io"]) = {}
    BY <2>2 DEF Range
  <2>4. QED
    BY <1>1, <2>3, Zenon DEF FairItems
<1>4. picked = <<>>
  <2>1. slots + Cardinality(FairItems) = Slots /\ slots \in 0 .. Slots
    BY Zenon DEF PoolsInv, LeftInv, TypeOK, FairTypeOK
  <2>2. Cardinality(FairItems) = 0
    BY <1>3, FS_EmptySet, Zenon
  <2>3. slots > 0
    BY <2>1, <2>2, SlotsAssumption
  <2>4. QED
    BY <2>3, Zenon DEF PoolsGoOn
<1>5. QED
  BY <1>1, <1>2, <1>3, <1>4, Zenon

\* A task whose items are nowhere on their way has its answers.
LEMMA IdleAnswered ==
    ASSUME PoolsInv, ~PoolsGoOn, order = <<>>, NEW t \in Tasks, phase[t] = "run"
    PROVE  Answered(t)
<1>1. queues[t] = <<>>
  <2>1. Range(order) = {}
    BY DEF Range
  <2>2. QED
    BY <2>1, Zenon DEF PoolsInv, OrderInv
<1>2. Len(queues[t]) = 0 /\ Unpicked(t) = {}
  <2>1. Len(queues[t]) = 0
    BY <1>1
  <2>2. QED
    BY <2>1, WidthAssumption DEF Unpicked, Indices
<1>3. PoolOf(t) \in Pools
  BY Zenon DEF PoolOf, Pools
<1>4. Queued(PoolOf(t)) = {}
  <2>1. PICK p \in Pools : p = PoolOf(t)
    BY <1>3, Zenon
  <2>2. queue[p] = <<>>
    BY IdlePools, Zenon
  <2>3. Range(queue[p]) = {}
    BY <2>2 DEF Range
  <2>4. QED
    BY <2>1, <2>3, Zenon DEF Queued
<1>5. CASE kind[t] # "fair"
  <2>1. ASSUME NEW i \in Indices PROVE <<t, i>> \in results
    <3>1. <<t, i>> # <<>>
      OBVIOUS
    <3>2. <<t, i>> # picked /\ <<t, i>> \notin running
      BY <3>1, IdlePools, Zenon
    <3>3. QED
      BY <1>2, <1>4, <3>2, Zenon DEF PoolsInv, CoverInv
  <2>2. ItemsOf(t) \subseteq results
    BY <2>1 DEF ItemsOf
  <2>3. QED
    BY <1>5, <2>2, Zenon DEF Answered
<1>6. CASE kind[t] = "fair"
  <2>1. Mine(Held, t) = {} /\ Mine(FairItems, t) = {} /\ Mine(released, t) = {}
    BY IdlePools, Zenon DEF Mine, Held
  <2>2. Cardinality(Mine(Held, t)) = 0 /\ Cardinality(Mine(FairItems, t)) = 0 /\ Cardinality(Mine(released, t)) = 0
    BY <2>1, FS_EmptySet, Zenon
  <2>3. left[t] = Len(queues[t]) + Cardinality(Mine(Held, t))
                      + Cardinality(Mine(FairItems, t)) + Cardinality(Mine(released, t))
    BY Zenon DEF PoolsInv, LeftInv
  <2>4. left[t] = 0
    BY <1>2, <2>2, <2>3
  <2>5. QED
    BY <1>6, <2>4, Zenon DEF Answered
<1>7. QED
  BY <1>5, <1>6, Zenon

LEMMA IdleTasks ==
    ASSUME PoolsInv, ~PoolsGoOn, ~Stranded
    PROVE  /\ \A t \in Tasks : phase[t] \notin {"queued", "run"}
           /\ waiting = <<>> /\ Active = {}
<1>1. order = <<>>
  BY IdlePools, Zenon DEF PoolsGoOn, Stranded
<1>2. \A t \in Tasks : phase[t] # "run"
  BY <1>1, IdleAnswered, Zenon DEF PoolsGoOn
<1>3. Active = {}
  BY <1>2, Zenon DEF Active
<1>4. FreeTaskWorker
  <2>1. Cardinality(Active) = 0
    BY <1>3, FS_EmptySet, Zenon
  <2>2. QED
    BY <2>1, TaskWorkersAssumption DEF FreeTaskWorker
<1>5. waiting = <<>>
  BY <1>4, Zenon DEF PoolsGoOn
<1>6. Range(waiting) = {}
  BY <1>5 DEF Range
<1>7. \A t \in Tasks : phase[t] # "queued"
  BY <1>6, Zenon DEF PoolsInv, TaskInv
<1>8. QED
  BY <1>2, <1>3, <1>5, <1>7, Zenon

\* A task that waits for its keys never keeps them from being run ("classic executor
\* self-deadlock"): while any accepted task is not over, a worker of one of the
\* pools or the dispatcher has a step to take, for any tasks, keys and sizes of
\* the pools, unless close() has stranded a fair load.  The safety half of TasksEnd.
THEOREM NoDeadlock == Spec => []NoSelfDeadlock
<1>1. PoolsInv => NoSelfDeadlock
  BY IdleTasks, Zenon DEF NoSelfDeadlock
<1>2. QED
  BY <1>1, PoolsHold, PTL

\* close() never waits for nothing: at each stage its next step can be taken, or a
\* pool it joins has a step to take, unless it has stranded a fair load.  The
\* safety half of CloseReturns.
THEOREM CloseGoesThrough == Spec => []CloseNotStuck
<1>1. PoolsInv => CloseNotStuck
  <2> SUFFICES ASSUME PoolsInv, stage \notin {"open", "closed"}, ~PoolsGoOn, ~Stranded
               PROVE  CloseGoesOn
    BY Zenon DEF CloseNotStuck
  <2>1. stage \in Stages
    BY Zenon DEF PoolsInv, TypeOK
  <2>2. stage \in {"drain", "fair", "dfs"} \/ stage = "tasks" \/ stage \in Pools
    BY <2>1 DEF Stages, Pools
  <2>3. CASE stage \in {"drain", "fair", "dfs"}
    BY <2>3, Zenon DEF CloseGoesOn
  <2>4. CASE stage = "tasks"
    <3>1. waiting = <<>> /\ Active = {}
      BY IdleTasks, Zenon
    <3>2. Joined(stage)
      BY <2>4, <3>1 DEF Joined, Pools
    <3>3. QED
      BY <2>4, <3>2, Zenon DEF CloseGoesOn
  <2>5. CASE stage \in Pools
    <3>1. queue[stage] = <<>>
      BY <2>5, IdlePools, Zenon
    <3>2. Load(stage) = {}
      BY IdlePools, Zenon DEF Load
    <3>3. Joined(stage)
      BY <2>5, <3>1, <3>2, Zenon DEF Joined, Pools
    <3>4. QED
      BY <2>5, <3>3, Zenon DEF CloseGoesOn, Pools
  <2>6. QED
    BY <2>2, <2>3, <2>4, <2>5, Zenon
<1>2. QED
  BY <1>1, PoolsHold, PTL
=============================================================================
