------------------------------- MODULE IoPool -------------------------------
(***************************************************************************)
(* The I/O thread pool of the in-process connector and its wedge detector. *)
(* A batched_get runs on the asyncio loop thread and submits its items one *)
(* by one through _run, without yielding; pool threads take items in       *)
(* submission order and run them under _tracked.  _run refuses work with   *)
(* DaosPoolWedged when the pool is saturated and nothing has completed for *)
(* STALL_SECS.  A DAOS call whose engine has died never returns.  Time is  *)
(* counted in ticks and saturates past the threshold, which is the only    *)
(* thing the code compares it with.                                        *)
(***************************************************************************)
EXTENDS Naturals, Sequences, FiniteSets

CONSTANTS
    Requests,   \* callers of batched_get
    Size,       \* keys per batch
    Workers,    \* threads of the pool
    Stall,      \* STALL_SECS, in ticks
    MaxInflight \* bound on _inflight, which cancelled items leave counted

ASSUME WorkersAssumption == IsFiniteSet(Workers)
ASSUME RequestsAssumption == "none" \notin Requests
ASSUME SizeAssumption == Size \in Nat \ {0}
ASSUME StallAssumption == Stall \in Nat \ {0}
ASSUME MaxInflightAssumption == MaxInflight \in Nat

None == "none"
Idle == <<>>
Items == Requests \X (1 .. Size)
Void == <<None, 0>>     \* a queued item whose future is cancelled

VARIABLES
    phase,      \* phase[r]: where the batch of r is
    item,       \* item[x]: where item x is
    queue,      \* the executor's queue, oldest first
    running,    \* running[w]: the item thread w is inside
    hung,       \* threads inside a call that will not return
    inflight,   \* _inflight
    quiet,      \* ticks since _last_done
    stuck,      \* ghost: ticks for which no thread was free and none finished
    loop,       \* the batch the loop thread is submitting, or None
    closed,     \* close() has been called
    gaveup      \* history: a caller has given up on a batch it awaited

poolVars == <<phase, item, queue, running, hung, inflight, quiet, stuck, loop, closed, gaveup>>

Busy(w) == running[w] # Idle

PoolTypeOK ==
    /\ phase \in [Requests -> {"idle", "submitting", "waiting", "failed"}]
    /\ item \in [Items -> {"new", "queued", "running", "done"}]
    /\ queue \in Seq(Items \cup {Void})
    /\ running \in [Workers -> Items \cup {Idle}]
    /\ hung \subseteq Workers
    /\ inflight \in Nat
    /\ quiet \in 0 .. Stall + 1
    /\ stuck \in 0 .. Stall + 1
    /\ loop \in Requests \cup {None}
    /\ closed \in BOOLEAN
    /\ gaveup \in BOOLEAN

PoolInit ==
    /\ phase = [r \in Requests |-> "idle"]
    /\ item = [x \in Items |-> "new"]
    /\ queue = <<>>
    /\ running = [w \in Workers |-> Idle]
    /\ hung = {}
    /\ inflight = 0
    /\ quiet = 0
    /\ stuck = 0
    /\ loop = None
    /\ closed = FALSE
    /\ gaveup = FALSE

\* Fault: a saturated pool needs one item more.
Wedged_OffByOne == inflight > Cardinality(Workers) /\ quiet > Stall

\* The condition of _run and of _wedged_for.
Wedged == inflight >= Cardinality(Workers) /\ quiet > Stall
-----------------------------------------------------------------------------
(* The loop thread.                                                        *)

BatchedGet(r) ==
    /\ loop = None
    /\ phase[r] = "idle"
    /\ inflight + Size <= MaxInflight
    /\ phase' = [phase EXCEPT ![r] = "submitting"]
    /\ loop' = r
    /\ UNCHANGED <<item, queue, running, hung, inflight, quiet, stuck, closed, gaveup>>

\* The next item of the batch the loop thread is submitting.
NextItem(r) == <<r, 1 + Cardinality({i \in 1 .. Size : item[<<r, i>>] # "new"})>>

\* _run accepts the item; the batch is awaited once the last one is in.
Run(r) ==
    LET x == NextItem(r) IN
    /\ loop = r
    /\ ~Wedged
    /\ ~closed
    /\ inflight' = inflight + 1
    /\ item' = [item EXCEPT ![x] = "queued"]
    /\ queue' = Append(queue, x)
    /\ IF x[2] = Size
       THEN phase' = [phase EXCEPT ![r] = "waiting"] /\ loop' = None
       ELSE UNCHANGED <<phase, loop>>
    /\ UNCHANGED <<running, hung, quiet, stuck, closed, gaveup>>

\* The exception leaves _run before gather() sees the items already accepted:
\* batched_get raises and nobody awaits them any more.  A pool that is shut
\* down refuses the item after _inflight was counted up.
Refuse(r) ==
    /\ loop = r
    /\ \/ Wedged /\ UNCHANGED inflight
       \/ ~Wedged /\ closed /\ inflight' = inflight + 1
    /\ phase' = [phase EXCEPT ![r] = "failed"]
    /\ loop' = None
    /\ UNCHANGED <<item, queue, running, hung, quiet, stuck, closed, gaveup>>

Fresh(r) == [x \in Items |-> IF x[1] = r THEN "new" ELSE item[x]]
Over(r) == \A i \in 1 .. Size : item[<<r, i>>] \notin {"queued", "running"}

\* gather() returns; or the orphans of a batch that raised have run out, and
\* the caller tries again.
Gather(r) ==
    /\ phase[r] \in {"waiting", "failed"}
    /\ Over(r)
    /\ phase' = [phase EXCEPT ![r] = "idle"]
    /\ item' = Fresh(r)
    /\ UNCHANGED <<queue, running, hung, inflight, quiet, stuck, loop, closed, gaveup>>

\* The caller gives up: futures still queued are cancelled, so _tracked never
\* runs for them; running ones go on.
Cancel(r) ==
    /\ loop = None
    /\ phase[r] = "waiting"
    /\ gaveup' = TRUE
    /\ phase' = [phase EXCEPT ![r] = "failed"]
    /\ item' = [x \in Items |-> IF x[1] = r /\ item[x] = "queued" THEN "done" ELSE item[x]]
    /\ queue' = [n \in 1 .. Len(queue) |-> IF queue[n][1] = r THEN Void ELSE queue[n]]
    /\ UNCHANGED <<running, hung, inflight, quiet, stuck, loop, closed>>

\* Fault: queued work is dropped and its futures are not cancelled.
cancel_futures_DropsWork == queue' = <<>> /\ UNCHANGED item

cancel_futures ==
    /\ queue' = <<>>
    /\ item' = [x \in Items |-> IF item[x] = "queued" THEN "done" ELSE item[x]]

\* shutdown(wait=False, cancel_futures=True), then the handle is closed.
Close ==
    /\ loop = None
    /\ ~closed
    /\ closed' = TRUE
    /\ cancel_futures
    /\ UNCHANGED <<phase, running, hung, inflight, quiet, stuck, loop, gaveup>>
-----------------------------------------------------------------------------
(* The pool threads: _tracked around one DAOS call.                        *)

\* A thread drops an item that was cancelled.
Start(w) ==
    /\ ~Busy(w)
    /\ queue # <<>>
    /\ IF Head(queue) = Void
       THEN UNCHANGED <<running, item>>
       ELSE /\ running' = [running EXCEPT ![w] = Head(queue)]
            /\ item' = [item EXCEPT ![Head(queue)] = "running"]
    /\ queue' = Tail(queue)
    /\ UNCHANGED <<phase, hung, inflight, quiet, stuck, loop, closed, gaveup>>

\* Fault: a call that raises is not counted down.
Completed_OnSuccess == inflight' \in {inflight, inflight - 1} /\ quiet' = 0

Completed == inflight' = inflight - 1 /\ quiet' = 0

\* The call returned or raised: the finally of _tracked runs either way.
Finish(w) ==
    /\ Busy(w)
    /\ w \notin hung
    /\ item' = [item EXCEPT ![running[w]] = "done"]
    /\ running' = [running EXCEPT ![w] = Idle]
    /\ Completed
    /\ stuck' = 0
    /\ UNCHANGED <<phase, queue, hung, loop, closed, gaveup>>

\* The engine behind the call dies.
Hang(w) ==
    /\ Busy(w)
    /\ w \notin hung
    /\ hung' = hung \cup {w}
    /\ UNCHANGED <<phase, item, queue, running, inflight, quiet, stuck, loop, closed, gaveup>>

\* On this scale submitting a batch takes no time, and neither does a free
\* thread to take an item off the queue.
Tick ==
    /\ loop = None
    /\ queue = <<>> \/ \A w \in Workers : Busy(w)
    /\ quiet <= Stall \/ stuck <= Stall
    /\ quiet' = IF quiet <= Stall THEN quiet + 1 ELSE quiet
    /\ stuck' = IF (\A w \in Workers : Busy(w)) /\ stuck <= Stall THEN stuck + 1 ELSE stuck
    /\ UNCHANGED <<phase, item, queue, running, hung, inflight, loop, closed, gaveup>>

LoopStep(r) == BatchedGet(r) \/ Run(r) \/ Refuse(r) \/ Gather(r) \/ Cancel(r)

PoolNext ==
    \/ \E r \in Requests : LoopStep(r)
    \/ \E w \in Workers : Start(w) \/ Finish(w) \/ Hang(w)
    \/ Close
    \/ Tick

\* The loop thread and the pool threads are scheduled; a call that is not hung
\* returns.
Fairness ==
    /\ \A r \in Requests : WF_poolVars(Run(r) \/ Refuse(r)) /\ WF_poolVars(Gather(r))
    /\ \A w \in Workers : WF_poolVars(Start(w)) /\ WF_poolVars(Finish(w))
    /\ WF_poolVars(Tick)

PoolSpec == PoolInit /\ [][PoolNext]_poolVars /\ Fairness
-----------------------------------------------------------------------------
(* Properties.                                                             *)

\* Once every thread has been inside its call for more than STALL_SECS, no
\* submission joins the queue behind them (the comment on STALL_SECS: say so
\* at once instead of joining the queue).
NoQueueBehindWedge == [][stuck > Stall => Len(queue') <= Len(queue)]_poolVars

\* Every batched_get ends, with results or with an exception, unless one of
\* its calls hangs.
BatchEnds ==
    \A r \in Requests : phase[r] = "submitting" ~> phase[r] = "idle" \/ hung # {}

\* The detector tells load from a wedge (tests/test_wedge.py): while every call
\* returns, an open pool does not go on refusing work.  (Items a caller gave up
\* on before they started stay counted, so this needs callers that wait.)
LoadIsNotWedge == [](hung = {} /\ ~closed /\ ~gaveup) => []<>~Wedged
=============================================================================
