---------------------------- MODULE FairDispatcher ----------------------------
(***************************************************************************)
(* The L2 adapter's fair load schedule (load_schedule = "fair"): run()     *)
(* queues the keys of one load task, one dispatcher thread takes keys from *)
(* the queued calls in turn and hands them to the I/O pool, as many at a   *)
(* time as there are slots, and run() returns when its last key is done.   *)
(* The actions here change the dispatcher's own state only; L2Pools joins  *)
(* them to the pools they submit to and are called from.                   *)
(***************************************************************************)
EXTENDS Naturals, Sequences, FiniteSets, Functions

CONSTANTS
    Tasks,      \* tasks of the adapter: the calls of run()
    Width,      \* items of a call
    Slots       \* workers of the I/O pool, the initial value of the semaphore

ASSUME WidthAssumption == Width \in Nat \ {0}
ASSUME SlotsAssumption == Slots \in Nat \ {0}

VARIABLES
    queues,     \* queues[c]: indices of c's items not picked yet
    order,      \* _order: the calls with a non-empty queue
    rr,         \* _rr
    picked,     \* the item the dispatcher thread holds, or <<>>
    slots,      \* value of the semaphore
    released,   \* items that gave their slot back and are not counted yet
    left,       \* left[c]: state["left"]
    stop,       \* _stop
    passed      \* passed[c][d]: picks of d since c, still queued, last had one

fairVars == <<queues, order, rr, picked, slots, released, left, stop, passed>>

Indices == 1 .. Width
Item == Tasks \X Indices

FairTypeOK ==
    /\ queues \in [Tasks -> Seq(Indices)]
    /\ order \in Seq(Tasks)
    /\ rr \in 0 .. Len(order)
    /\ picked \in Item \cup {<<>>}
    /\ slots \in 0 .. Slots
    /\ released \subseteq Item
    /\ left \in [Tasks -> 0 .. Width]
    /\ stop \in BOOLEAN
    /\ passed \in [Tasks -> [Tasks -> Nat]]

Zero == [d \in Tasks |-> 0]

FairInit ==
    /\ queues = [c \in Tasks |-> <<>>]
    /\ order = <<>>
    /\ rr = 0
    /\ picked = <<>>
    /\ slots = Slots
    /\ released = {}
    /\ left = [c \in Tasks |-> 0]
    /\ stop = FALSE
    /\ passed = [c \in Tasks |-> Zero]
-----------------------------------------------------------------------------
\* Fault: one item too few to wait for.
Run_OffByOne(c) ==
    /\ queues' = [queues EXCEPT ![c] = [i \in Indices |-> i]]
    /\ order' = Append(order, c)
    /\ left' = [left EXCEPT ![c] = Width - 1]
    /\ UNCHANGED <<rr, picked, slots, released, stop, passed>>

\* run() up to its wait for state["done"], which is left[c] = 0.
Run(c) ==
    /\ queues' = [queues EXCEPT ![c] = [i \in Indices |-> i]]
    /\ order' = Append(order, c)
    /\ left' = [left EXCEPT ![c] = Width]
    /\ UNCHANGED <<rr, picked, slots, released, stop, passed>>

\* Fault: _rr does not move on.
Turn_Stays(at, last) == at

\* _rr after the pick at position at: it moves on past a call that has items
\* left, and stays where it is when the call leaves the order.
Turn(at, last) == IF last THEN at ELSE at + 1

Keep(at, last) ==
    IF last THEN SubSeq(order, 1, at) \o SubSeq(order, at + 2, Len(order)) ELSE order

\* _loop, under the condition variable: the next item of the call at _rr.
Pick ==
    /\ picked = <<>> /\ ~stop /\ order # <<>>
    /\ LET at == rr % Len(order)
           c == order[at + 1]
           last == Len(queues[c]) = 1
       IN /\ picked' = <<c, Head(queues[c])>>
          /\ queues' = [queues EXCEPT ![c] = Tail(@)]
          /\ order' = Keep(at, last)
          /\ rr' = Turn(at, last)
          /\ passed' = [d \in Tasks |-> IF d = c THEN Zero
                                        ELSE IF queues[d] # <<>> THEN [passed[d] EXCEPT ![c] = @ + 1]
                                        ELSE passed[d]]
    /\ UNCHANGED <<slots, released, left, stop>>

\* _loop, outside it: the slot is taken and the item goes to the pool.
Acquire ==
    /\ picked # <<>> /\ slots > 0
    /\ slots' = slots - 1
    /\ picked' = <<>>
    /\ UNCHANGED <<queues, order, rr, released, left, stop, passed>>

\* _one's finally, whether the item raised or not.
Release(m) ==
    /\ slots' = slots + 1
    /\ released' = released \cup {m}
    /\ UNCHANGED <<queues, order, rr, picked, left, stop, passed>>

\* The rest of it, under the condition variable.
Count(m) ==
    /\ m \in released
    /\ left' = [left EXCEPT ![m[1]] = @ - 1]
    /\ released' = released \ {m}
    /\ UNCHANGED <<queues, order, rr, picked, slots, stop, passed>>

FairClose ==
    /\ stop' = TRUE
    /\ UNCHANGED <<queues, order, rr, picked, slots, released, left, passed>>
-----------------------------------------------------------------------------
(* Properties.                                                             *)

\* "Interleaving the keys of all active tasks one-by-one": while a call waits
\* for its next turn, no other call gets two.
OneByOne == \A c, d \in Tasks : queues[c] # <<>> => passed[c][d] =< 1
=============================================================================
