------------------------------ MODULE GdsBatch ------------------------------
(***************************************************************************)
(* Batched calls of the GDS backend and the one thread pool they share.    *)
(* batched_get_blocking (by a caller's thread) and                         *)
(* batched_get_non_blocking (by the event loop) fan their keys out to the  *)
(* pool and wait outside it; batched_async_contains runs batched_contains  *)
(* ON the pool, which fans its keys out to the same pool and waits there.  *)
(* LMCache consumes hits as a prefix, so a call answers with the number of *)
(* leading hits and gives every other GPU object back.                     *)
(***************************************************************************)
EXTENDS Naturals, Sequences, FiniteSets

CONSTANTS
    Lookups,        \* batched_async_contains calls
    Maps,           \* batched_get_blocking calls
    Gathers,        \* batched_get_non_blocking calls
    Workers,        \* threads of the pool
    Keys            \* keys per call

ASSUME KeysAssumption == Keys \in Nat \ {0}
ASSUME CallsAssumption == Lookups \cap (Maps \cup Gathers) = {}      \* a call is of one method

Calls == Lookups \cup Maps \cup Gathers
Items == 1 .. Keys
Outer == 0                      \* the job that runs batched_contains itself
Job == Calls \X (Items \cup {Outer})
Idle == <<>>

VARIABLES
    state,      \* state[c]: "new", "called", "done" or "raised"
    queue,      \* the pool's queue
    worker,     \* worker[w]: the job w runs, or Idle
    result,     \* result[c][i]
    held,       \* held[c]: items whose GPU object is alive
    answer      \* answer[c]: leading hits reported

batchVars == <<state, queue, worker, result, held, answer>>

BatchTypeOK ==
    /\ state \in [Calls -> {"new", "called", "done", "raised"}]
    /\ queue \in Seq(Job)
    /\ worker \in [Workers -> Job \cup {Idle}]
    /\ result \in [Calls -> [Items -> {"none", "hit", "miss", "raise"}]]
    /\ held \in [Calls -> SUBSET Items]
    /\ answer \in [Calls -> 0 .. Keys]

BatchInit ==
    /\ state = [c \in Calls |-> "new"]
    /\ queue = <<>>
    /\ worker = [w \in Workers |-> Idle]
    /\ result = [c \in Calls |-> [i \in Items |-> "none"]]
    /\ held = [c \in Calls |-> {}]
    /\ answer = [c \in Calls |-> 0]

Fan(c) == [i \in Items |-> <<c, i>>]
Complete(c) == \A i \in Items : result[c][i] \in {"hit", "miss"}

\* A lookup submits one job, the gets one per key.
Call(c) ==
    /\ state[c] = "new"
    /\ state' = [state EXCEPT ![c] = "called"]
    /\ queue' = queue \o (IF c \in Lookups THEN <<<<c, Outer>>>> ELSE Fan(c))
    /\ UNCHANGED <<worker, result, held, answer>>

\* Fault: the keys of a lookup are not submitted.
Spawned_None(job) == <<>>

\* batched_contains submits its keys from the worker that runs it.
Spawned(job) == IF job[2] = Outer THEN Fan(job[1]) ELSE <<>>

\* pool.map cancels what it still has queued when one of its keys raises: a
\* worker that comes upon such a job drops it.
Cancelled(job) == job[1] \in Maps /\ state[job[1]] = "raised"

Start(w) ==
    /\ worker[w] = Idle /\ queue # <<>>
    /\ worker' = IF Cancelled(Head(queue)) THEN worker ELSE [worker EXCEPT ![w] = Head(queue)]
    /\ queue' = Tail(queue) \o Spawned(Head(queue))
    /\ UNCHANGED <<state, result, held, answer>>

\* contains() or get_blocking() of one key; a get that hits holds an object,
\* one whose open fails with anything but ENOENT raises.
Item(w, how) ==
    LET c == worker[w][1]
        i == worker[w][2]
    IN
    /\ worker[w] # Idle /\ i # Outer
    /\ how = "raise" => c \notin Lookups
    /\ result' = [result EXCEPT ![c][i] = how]
    /\ held' = IF how = "hit" /\ c \notin Lookups THEN [held EXCEPT ![c] = @ \cup {i}] ELSE held
    /\ worker' = [worker EXCEPT ![w] = Idle]
    /\ UNCHANGED <<state, queue, answer>>

\* The loops that stop at the first miss.
Prefix(c) == Cardinality({i \in Items : \A j \in 1 .. i : result[c][j] = "hit"})

\* The worker of a lookup has all its answers.
LookupEnd(w) ==
    LET c == worker[w][1] IN
    /\ worker[w] # Idle /\ worker[w][2] = Outer
    /\ Complete(c)
    /\ answer' = [answer EXCEPT ![c] = Prefix(c)]
    /\ state' = [state EXCEPT ![c] = "done"]
    /\ worker' = [worker EXCEPT ![w] = Idle]
    /\ UNCHANGED <<queue, result, held>>

\* Fault: the objects behind the first miss stay.
Released_None(c) == {}

\* The objects behind the first miss are released.
Released(c) == {i \in Items : i > Prefix(c)}

GetEnd(c) ==
    /\ state[c] = "called" /\ c \notin Lookups
    /\ Complete(c)
    /\ answer' = [answer EXCEPT ![c] = Prefix(c)]
    /\ held' = [held EXCEPT ![c] = @ \ Released(c)]
    /\ state' = [state EXCEPT ![c] = "done"]
    /\ UNCHANGED <<queue, worker, result>>

\* pool.map hands results on in order, so it raises after the keys before;
\* gather raises at once and lets the others run.
BatchRaises(c) ==
    /\ state[c] = "called"
    /\ \E i \in Items :
          /\ result[c][i] = "raise"
          /\ c \in Maps => \A j \in 1 .. i - 1 : result[c][j] \in {"hit", "miss"}
    /\ state' = [state EXCEPT ![c] = "raised"]
    /\ UNCHANGED <<queue, worker, result, held, answer>>
-----------------------------------------------------------------------------
WorkerStep(w) == Start(w) \/ LookupEnd(w) \/ \E how \in {"hit", "miss", "raise"} : Item(w, how)

BatchNext ==
    \/ \E c \in Calls : Call(c) \/ GetEnd(c) \/ BatchRaises(c)
    \/ \E w \in Workers : WorkerStep(w)

\* A DAOS call returns, an idle worker takes the next job, and a caller whose
\* results are in goes on.
Fairness ==
    /\ \A w \in Workers : WF_batchVars(WorkerStep(w))
    /\ \A c \in Calls : WF_batchVars(GetEnd(c) \/ BatchRaises(c))

BatchSpec == BatchInit /\ [][BatchNext]_batchVars /\ Fairness
-----------------------------------------------------------------------------
(* Properties.                                                             *)

\* "stop at the first miss, release anything after it": when a batched get has
\* returned, the only GPU objects alive are those handed to the caller.  (A get
\* that raises leaves the objects of its other keys.)
NoObjectLost == \A c \in Maps \cup Gathers : state[c] = "done" => held[c] = 1 .. answer[c]

\* batched_contains runs on every thread of the pool, and each waits for keys
\* that are queued behind it.
SelfWait == \A w \in Workers : worker[w] # Idle /\ worker[w][2] = Outer

\* Every call is answered, unless as many lookups as the pool has threads hold
\* them all.
CallsEnd == \A c \in Calls : state[c] = "called" ~> (state[c] \in {"done", "raised"} \/ SelfWait)
=============================================================================
