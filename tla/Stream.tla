------------------------------- MODULE Stream -------------------------------
(***************************************************************************)
(* stream_completions: run a callable over items on a thread pool, at most *)
(* max_inflight at a time, and yield each result as it completes.  The     *)
(* generator keeps a table of pending futures; asyncio.wait hands it the   *)
(* set of those that are done, and it yields them one by one, submitting   *)
(* the next item before each yield.  A callable that raises yields its     *)
(* exception, so to the stream a failure is a result like any other.  Not  *)
(* so what close() does to the pool: a future it cancels, and a submission *)
(* it refuses, raise out of the generator.                                 *)
(***************************************************************************)
EXTENDS Naturals, Sequences, FiniteSets, Functions

CONSTANTS
    Items,          \* number of items
    MaxInflight,    \* max_inflight
    Workers         \* number of threads of the pool

VARIABLES
    closed,     \* close() has been called (an input)
    others,     \* threads of the pool that run something else (an input)
    at,         \* where the generator is
    taken,      \* items taken from the iterator
    exhausted,  \* the iterator has said so
    pending,    \* indices in the pending table
    batch,      \* indices of the done set still to be handled
    queue,      \* the pool's queue
    running,    \* indices the pool runs
    completed,  \* indices whose callable has returned
    cancelled,  \* indices whose future was cancelled
    yielded     \* indices in the order they were yielded

vars == <<at, taken, exhausted, pending, batch, queue, running, completed, cancelled, yielded>>

Indices == 1 .. Items

TypeOK ==
    /\ at \in {"idle", "fill", "wait", "handle", "yield", "ended", "stopped", "aborted"}
    /\ taken \in 0 .. Items
    /\ exhausted \in BOOLEAN
    /\ pending \subseteq Indices
    /\ batch \subseteq Indices
    /\ queue \in Seq(Indices)
    /\ running \subseteq Indices
    /\ completed \subseteq Indices
    /\ cancelled \subseteq Indices
    /\ yielded \in Seq(Indices)

Init ==
    /\ at = "idle"
    /\ taken = 0
    /\ exhausted = FALSE
    /\ pending = {}
    /\ batch = {}
    /\ queue = <<>>
    /\ running = {}
    /\ completed = {}
    /\ cancelled = {}
    /\ yielded = <<>>

More == taken < Items

\* submit_one, with the table as the caller has left it.
submit_one(table) ==
    IF More
    THEN /\ taken' = taken + 1
         /\ pending' = table \cup {taken + 1}
         /\ queue' = Append(queue, taken + 1)
         /\ UNCHANGED exhausted
    ELSE /\ exhausted' = TRUE
         /\ pending' = table
         /\ UNCHANGED <<taken, queue>>

Room(table) == ~exhausted /\ Cardinality(table) < MaxInflight

\* stream_get is called.
Begin ==
    /\ at = "idle"
    /\ at' = "fill"
    /\ UNCHANGED <<taken, exhausted, pending, batch, queue, running, completed, cancelled, yielded>>

\* run_in_executor on a pool that is shut down raises: whatever was in hand is lost.
Raises(table) == Room(table) /\ More /\ closed

Fill ==
    /\ at = "fill"
    /\ IF Raises(pending) THEN at' = "aborted" /\ UNCHANGED <<taken, exhausted, pending, queue>>
       ELSE IF Room(pending) THEN submit_one(pending) /\ UNCHANGED at
       ELSE at' = "wait" /\ UNCHANGED <<taken, exhausted, pending, queue>>
    /\ UNCHANGED <<batch, running, completed, cancelled, yielded>>

\* asyncio.wait(FIRST_COMPLETED), or the end of the stream.
Wait ==
    /\ at = "wait"
    /\ IF pending = {}
       THEN at' = "ended" /\ UNCHANGED batch
       ELSE /\ pending \cap (completed \cup cancelled) # {}
            /\ batch' = pending \cap (completed \cup cancelled)
            /\ at' = "handle"
    /\ UNCHANGED <<taken, exhausted, pending, queue, running, completed, cancelled, yielded>>

\* Fault: the future stays in the table.
Popped_Not(i) == pending

Popped(i) == pending \ {i}

\* The next future of the done set, in the set's own order.  CancelledError is no
\* Exception, and leaves the generator.
Handle(i) ==
    /\ at = "handle" /\ i \in batch
    /\ batch' = batch \ {i}
    /\ IF i \in cancelled \/ Raises(Popped(i))
       THEN /\ at' = "aborted"
            /\ pending' = Popped(i)
            /\ UNCHANGED <<taken, exhausted, queue, yielded>>
       ELSE /\ IF Room(Popped(i))
               THEN submit_one(Popped(i))
               ELSE pending' = Popped(i) /\ UNCHANGED <<taken, exhausted, queue>>
            /\ yielded' = Append(yielded, i)
            /\ at' = "yield"
    /\ UNCHANGED <<running, completed, cancelled>>

\* The consumer asks for the next result.
Resume ==
    /\ at = "yield"
    /\ at' = IF batch = {} THEN "wait" ELSE "handle"
    /\ UNCHANGED <<taken, exhausted, pending, batch, queue, running, completed, cancelled, yielded>>

\* The consumer stops: the generator is closed, its futures run on unseen.
Stop ==
    /\ at = "yield"
    /\ at' = "stopped"
    /\ UNCHANGED <<taken, exhausted, pending, batch, queue, running, completed, cancelled, yielded>>

Start ==
    /\ queue # <<>> /\ Cardinality(running) + others < Workers
    /\ running' = running \cup {Head(queue)}
    /\ queue' = Tail(queue)
    /\ UNCHANGED <<at, taken, exhausted, pending, batch, completed, cancelled, yielded>>

Finish(i) ==
    /\ i \in running
    /\ running' = running \ {i}
    /\ completed' = completed \cup {i}
    /\ UNCHANGED <<at, taken, exhausted, pending, batch, queue, cancelled, yielded>>

\* Fault: queued work is dropped and its futures never end.
cancel_futures_Drops ==
    /\ queue' = <<>>
    /\ UNCHANGED <<at, taken, exhausted, pending, batch, running, completed, cancelled, yielded>>

\* What close() does to the stream: shutdown(cancel_futures=True).
cancel_futures ==
    /\ cancelled' = cancelled \cup Range(queue)
    /\ queue' = <<>>
    /\ UNCHANGED <<at, taken, exhausted, pending, batch, running, completed, yielded>>
-----------------------------------------------------------------------------
Generator == Begin \/ Fill \/ Wait \/ Resume \/ \E i \in Indices : Handle(i)
-----------------------------------------------------------------------------
(* Properties.                                                             *)

\* No item is yielded twice, none before it completed; a stream that ends has
\* yielded them all, and only close() makes it raise ("A callable that raises does
\* not abort the stream").
ExactlyOnce ==
    /\ IsInjective(yielded)
    /\ Range(yielded) \subseteq completed
    /\ at = "ended" => Range(yielded) = Indices
    /\ at = "aborted" => closed

\* A stream ends, its consumer stops it, or close() aborts it: no future it waits
\* for is forgotten by the pool.
StreamEnds == at # "idle" ~> (at \in {"ended", "stopped", "aborted"})
=============================================================================
