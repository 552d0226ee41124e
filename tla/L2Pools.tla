------------------------------- MODULE L2Pools -------------------------------
(***************************************************************************)
(* The L2 adapter's thread pools, its fair dispatcher and its close().  A  *)
(* task runs on the task pool, fans its keys out to the I/O pool (stores,  *)
(* and loads scheduled "fifo"), to the metadata pool (lookups) or through  *)
(* the dispatcher to the I/O pool (loads scheduled "fair"), and waits for  *)
(* them.  close() drains for a while, stops the dispatcher, shuts the      *)
(* pools down one after the other, each with wait=True, and then closes    *)
(* the DFS mount and the eventfds.                                         *)
(***************************************************************************)
EXTENDS FairDispatcher

CONSTANT TaskWorkers    \* task_workers

ASSUME TaskWorkersAssumption == TaskWorkers \in Nat \ {0}

Pools == {"io", "meta"}
Kinds == Pools \cup {"fair"}

VARIABLES
    phase,      \* phase[t]: the task's state
    waiting,    \* tasks queued on the task pool, oldest first
    kind,       \* kind[t]: where the keys of t go
    queue,      \* queue[p]: items queued on pool p
    running,    \* items on a pool worker
    results,    \* items with a result
    inflight,   \* _inflight
    stage,      \* how far close() is
    mounted,    \* the DFS handle is open
    signals     \* the eventfds are open

closing == <<stage, mounted, signals>>
poolVars == <<queue, running, results>>
taskVars == <<phase, waiting, kind, inflight>>
vars == <<fairVars, taskVars, poolVars, closing>>

Stages == {"open", "drain", "fair", "tasks", "io", "meta", "dfs", "closed"}

TypeOK ==
    /\ FairTypeOK
    /\ phase \in [Tasks -> {"new", "queued", "run", "done", "failed", "refused"}]
    /\ waiting \in Seq(Tasks)
    /\ kind \in [Tasks -> Kinds]
    /\ queue \in [Pools -> Seq(Item)]
    /\ running \subseteq Item
    /\ results \subseteq Item
    /\ inflight \in Nat
    /\ stage \in Stages
    /\ mounted \in BOOLEAN
    /\ signals \in BOOLEAN

Init ==
    /\ FairInit
    /\ phase = [t \in Tasks |-> "new"]
    /\ waiting = <<>>
    /\ kind = [t \in Tasks |-> "io"]
    /\ queue = [p \in Pools |-> <<>>]
    /\ running = {}
    /\ results = {}
    /\ inflight = 0
    /\ stage = "open"
    /\ mounted = TRUE
    /\ signals = TRUE

Active == {t \in Tasks : phase[t] = "run"}
PoolOf(t) == IF kind[t] = "meta" THEN "meta" ELSE "io"
Load(p) == {m \in running : PoolOf(m[1]) = p}
ItemsOf(t) == {t} \X Indices

\* shutdown() has been called: submit() raises from then on.
TasksShut == stage \in {"tasks", "io", "meta", "dfs", "closed"}
Shut(p) == stage \in {"dfs", "closed"} \/ stage = p \/ (p = "io" /\ stage = "meta")

FreeTaskWorker == Cardinality(Active) < TaskWorkers
\* Fault: keys run on the threads of the task pool.
FreeWorker_OnePool(p) == Cardinality(Active) + Cardinality(running) < TaskWorkers

FreeWorker(p) == Cardinality(Load(p)) < Slots
-----------------------------------------------------------------------------
(* Tasks.                                                                  *)

\* submit_*_task: the task is counted before the pool takes or refuses it.
Submit(t, k) ==
    /\ phase[t] = "new"
    /\ inflight' = inflight + 1
    /\ kind' = [kind EXCEPT ![t] = k]
    /\ IF TasksShut
       THEN phase' = [phase EXCEPT ![t] = "refused"] /\ UNCHANGED waiting
       ELSE phase' = [phase EXCEPT ![t] = "queued"] /\ waiting' = Append(waiting, t)
    /\ UNCHANGED <<fairVars, poolVars, closing>>

\* _execute_* begins.  run() only queues the keys; map() submits every key, or
\* raises, and the task fails without a call to DAOS.
Start ==
    /\ waiting # <<>> /\ FreeTaskWorker
    /\ waiting' = Tail(waiting)
    /\ LET t == Head(waiting)
           p == PoolOf(t)
       IN IF kind[t] # "fair" /\ Shut(p)
          THEN /\ phase' = [phase EXCEPT ![t] = "failed"]
               /\ inflight' = inflight - 1
               /\ UNCHANGED <<fairVars, queue>>
          ELSE /\ phase' = [phase EXCEPT ![t] = "run"]
               /\ UNCHANGED inflight
               /\ IF kind[t] = "fair"
                  THEN Run(t) /\ UNCHANGED queue
                  ELSE /\ queue' = [queue EXCEPT ![p] = @ \o [i \in Indices |-> <<t, i>>]]
                       /\ UNCHANGED fairVars
    /\ UNCHANGED <<kind, running, results, closing>>

\* The dispatcher thread: a pick, and the submission of what was picked.
FairPick == Pick /\ UNCHANGED <<taskVars, poolVars, closing>>

FairSubmit ==
    /\ Acquire
    /\ queue' = [queue EXCEPT !["io"] = Append(@, picked)]
    /\ UNCHANGED <<taskVars, running, results, closing>>

FairCount(m) == Count(m) /\ UNCHANGED <<taskVars, poolVars, closing>>

\* A pool worker takes the oldest item; its DAOS call ends, well or badly.
ItemStart(p) ==
    /\ queue[p] # <<>> /\ FreeWorker(p)
    /\ queue' = [queue EXCEPT ![p] = Tail(@)]
    /\ running' = running \cup {Head(queue[p])}
    /\ UNCHANGED <<fairVars, taskVars, results, closing>>

ItemEnd(m) ==
    /\ m \in running
    /\ running' = running \ {m}
    /\ results' = results \cup {m}
    /\ IF kind[m[1]] = "fair" THEN Release(m) ELSE UNCHANGED fairVars
    /\ UNCHANGED <<taskVars, queue, closing>>

\* The wait of run(), or of map()'s iterator, is over.
Answered(t) == IF kind[t] = "fair" THEN left[t] = 0 ELSE ItemsOf(t) \subseteq results

\* The result, _finish() and the eventfd.
Finish(t) ==
    /\ phase[t] = "run" /\ Answered(t)
    /\ phase' = [phase EXCEPT ![t] = "done"]
    /\ inflight' = inflight - 1
    /\ UNCHANGED <<fairVars, waiting, kind, poolVars, closing>>
-----------------------------------------------------------------------------
(* close().                                                                *)

Close ==
    /\ stage = "open"
    /\ stage' = "drain"
    /\ UNCHANGED <<fairVars, taskVars, poolVars, mounted, signals>>

\* Drained, or 30 s have passed.
Drained ==
    /\ stage = "drain"
    /\ stage' = "fair"
    /\ UNCHANGED <<fairVars, taskVars, poolVars, mounted, signals>>

StopFair ==
    /\ stage = "fair"
    /\ FairClose
    /\ stage' = "tasks"
    /\ UNCHANGED <<taskVars, poolVars, mounted, signals>>

\* Fault: shutdown(wait=False).
Joined_NoWait(s) == s \in Stages

\* Fault: close() waits for _inflight, which a refused task leaves counted.
Joined_Inflight(s) ==
    CASE s = "tasks" -> inflight = 0
      [] s \in Pools -> queue[s] = <<>> /\ Load(s) = {}

\* Each shutdown(wait=True) returns when its pool has run all it was given.
Joined(s) ==
    CASE s = "tasks" -> waiting = <<>> /\ Active = {}
      [] s \in Pools -> queue[s] = <<>> /\ Load(s) = {}

After == [tasks |-> "io", io |-> "meta", meta |-> "dfs"]

Shutdown ==
    /\ stage \in {"tasks", "io", "meta"}
    /\ Joined(stage)
    /\ stage' = After[stage]
    /\ UNCHANGED <<fairVars, taskVars, poolVars, mounted, signals>>

Unmount ==
    /\ stage = "dfs" /\ mounted
    /\ mounted' = FALSE
    /\ UNCHANGED <<fairVars, taskVars, poolVars, stage, signals>>

CloseSignals ==
    /\ stage = "dfs" /\ ~mounted
    /\ signals' = FALSE
    /\ stage' = "closed"
    /\ UNCHANGED <<fairVars, taskVars, poolVars, mounted>>
-----------------------------------------------------------------------------
CloseStep == Drained \/ StopFair \/ Shutdown \/ Unmount \/ CloseSignals

Next ==
    \/ \E t \in Tasks : (\E k \in Kinds : Submit(t, k)) \/ Finish(t)
    \/ Start
    \/ FairPick \/ FairSubmit
    \/ \E m \in Item : ItemEnd(m) \/ FairCount(m)
    \/ \E p \in Pools : ItemStart(p)
    \/ Close
    \/ CloseStep

\* Every DAOS call ends; the pool threads, the dispatcher thread and the
\* closing thread run.
Fairness ==
    /\ \A m \in Item : WF_vars(ItemEnd(m)) /\ WF_vars(FairCount(m))
    /\ \A t \in Tasks : WF_vars(Finish(t))
    /\ \A p \in Pools : WF_vars(ItemStart(p))
    /\ WF_vars(Start)
    /\ WF_vars(FairPick) /\ WF_vars(FairSubmit)
    /\ WF_vars(CloseStep)

Spec == Init /\ [][Next]_vars /\ Fairness
-----------------------------------------------------------------------------
(* Properties.                                                             *)

FairItems == {m \in running \cup Range(queue["io"]) : kind[m[1]] = "fair"}

\* A task is over only with a result for each of its keys, and "left" counts
\* every key that is queued, held by the dispatcher, on the pool or not counted
\* yet: none is dropped or run twice, however calls join and leave the order.
AllAnswered ==
    \A t \in Tasks :
        LET mine(S) == Cardinality({m \in S : m[1] = t})
            held == IF picked # <<>> THEN {picked} ELSE {}
        IN /\ left[t] = Len(queues[t]) + mine(held) + mine(FairItems) + mine(released)
           /\ phase[t] = "done" => ItemsOf(t) \subseteq results

\* close() releases the DFS mount only when no item can still call into it,
\* and the eventfds only when no task can still signal one, even though the
\* drain gives up after 30 s with tasks queued or running.
NoUseAfterClose ==
    /\ ~mounted => running = {} /\ queue = [p \in Pools |-> <<>>] /\ picked = <<>>
    /\ ~signals => \A t \in Tasks : phase[t] \notin {"queued", "run"}

\* close() stops the dispatcher before it joins the task pool: keys still
\* queued there are never picked, and run() waits for them without end.
Stranded == stop /\ order # <<>>

\* A task waiting for its keys never keeps them from being run: every accepted
\* task ends, however many tasks wait at once ("classic executor
\* self-deadlock"), unless close() strands a fair load.
TasksEnd == \A t \in Tasks : phase[t] = "queued" ~> (phase[t] \in {"done", "failed"} \/ Stranded)

\* close() returns, whatever was in flight when it was called, unless it has
\* stranded a fair load.
CloseReturns == stage = "drain" ~> (stage = "closed" \/ Stranded)
=============================================================================
