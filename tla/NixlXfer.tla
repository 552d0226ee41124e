------------------------------ MODULE NixlXfer ------------------------------
(***************************************************************************)
(* The transfer path of the NIXL plugin.  A request is prepared as a few   *)
(* groups, each one DAOS RPC; postXfer queues the groups on the thread     *)
(* pool, a worker borrows an event queue, issues the RPC, polls with a     *)
(* deadline, records an error and counts the request's pending groups      *)
(* down; checkXfer reads the count, releaseReqH waits for it and deletes   *)
(* the request.  A dead engine answers nothing; only the deadline of       *)
(* the event queue gets a worker back.  An RPC that finds no key ("absent") *)
(* is that of a READ; a WRITE behaves like a READ whose keys are all there. *)
(***************************************************************************)
EXTENDS Integers, Sequences

CONSTANTS
    Requests,       \* request handles, each used by one caller at a time
    Groups,         \* groups per request
    Workers         \* threads of the pool

ASSUME GroupsAssumption == Groups \in Nat \ {0}

VARIABLES
    caller,     \* caller[r]: where the caller of r is; "gone": r is deleted
    posted,     \* posted[r]
    pending,    \* pending[r]
    status,     \* status[r]
    unsent,     \* unsent[r]: groups postXfer has not submitted yet
    landed,     \* ghost: groups of r's last post whose RPC succeeded
    misled,     \* ghost: requests given another job's completion since their last post
    queue,      \* the pool's queue
    pc,         \* pc[w]: where worker w is
    job,        \* job[w]: the group w works on
    rc,         \* rc[w]: what w makes of its RPC
    eq,         \* eq[w]: the event queue w holds, or 0
    event,      \* event[w]: its RPC, when issued with an event
    free,       \* event queues to borrow, the last given back on top
    made,       \* event queues ever created
    dirty,      \* event queues that still carry an event of an earlier job
    dead        \* the DAOS engine does not answer

vars == <<caller, posted, pending, status, unsent, landed, misled, queue, pc, job, rc, eq,
          event, free, made, dirty, dead>>
handles == <<caller, posted, pending, status, unsent>>
eqs == <<eq, free, made, dirty>>
ghosts == <<landed, misled>>

Results == {"ok", "absent", "error"}
None == <<>>
InCall == {"borrow", "create", "issue", "block", "poll", "fini", "record", "finish"}

TypeOK ==
    /\ caller \in [Requests -> {"ready", "posting", "asleep", "woken", "gone"}]
    /\ posted \in [Requests -> BOOLEAN]
    /\ pending \in [Requests -> 0 .. Groups]
    /\ status \in [Requests -> {"success", "backend", "not_found"}]
    /\ unsent \in [Requests -> 0 .. Groups]
    /\ landed \in [Requests -> SUBSET (1 .. Groups)]
    /\ misled \subseteq Requests
    /\ queue \in Seq(Requests \X (1 .. Groups))
    /\ pc \in [Workers -> InCall \cup {"idle", "notify"}]
    /\ job \in [Workers -> (Requests \X (1 .. Groups)) \cup {None}]
    /\ rc \in [Workers -> Results \cup {"none"}]
    /\ eq \in [Workers -> 0 .. made]
    /\ event \in [Workers -> Results \cup {"none", "flying"}]
    /\ free \in Seq(1 .. made)
    /\ made \in Nat
    /\ dirty \subseteq 1 .. made
    /\ dead \in BOOLEAN

Init ==
    /\ caller = [r \in Requests |-> "gone"]
    /\ posted = [r \in Requests |-> FALSE]
    /\ pending = [r \in Requests |-> 0]
    /\ status = [r \in Requests |-> "success"]
    /\ unsent = [r \in Requests |-> 0]
    /\ landed = [r \in Requests |-> {}]
    /\ misled = {}
    /\ queue = <<>>
    /\ pc = [w \in Workers |-> "idle"]
    /\ job = [w \in Workers |-> None]
    /\ rc = [w \in Workers |-> "none"]
    /\ eq = [w \in Workers |-> 0]
    /\ event = [w \in Workers |-> "none"]
    /\ free = <<>>
    /\ made = 0
    /\ dirty = {}
    /\ dead = FALSE

Goto(w, to) == pc' = [pc EXCEPT ![w] = to]
Working(r) == \E w \in Workers : job[w] # None /\ job[w][1] = r
-----------------------------------------------------------------------------
(* The caller of a request.                                                *)

\* prepXfer makes a new request; its memory is nobody else's.
Prep(r) ==
    /\ caller[r] = "gone" /\ ~Working(r)
    /\ caller' = [caller EXCEPT ![r] = "ready"]
    /\ posted' = [posted EXCEPT ![r] = FALSE]
    /\ status' = [status EXCEPT ![r] = "success"]
    /\ landed' = [landed EXCEPT ![r] = {}]
    /\ misled' = misled \ {r}
    /\ UNCHANGED <<pending, unsent, queue, pc, job, rc, eqs, event, dead>>

\* groups.size()
Count == Groups

\* postXfer, of a request that is not in flight; it may be posted again.
Post(r) ==
    /\ caller[r] = "ready" /\ pending[r] = 0
    /\ caller' = [caller EXCEPT ![r] = "posting"]
    /\ posted' = [posted EXCEPT ![r] = TRUE]
    /\ status' = [status EXCEPT ![r] = "success"]
    /\ pending' = [pending EXCEPT ![r] = Count]
    /\ unsent' = [unsent EXCEPT ![r] = Groups]
    /\ landed' = [landed EXCEPT ![r] = {}]
    /\ misled' = misled \ {r}
    /\ UNCHANGED <<queue, pc, job, rc, eqs, event, dead>>

\* submit() of the next group; postXfer returns after the last one.
Submit(r) ==
    /\ caller[r] = "posting"
    /\ queue' = Append(queue, <<r, 1 + Groups - unsent[r]>>)
    /\ unsent' = [unsent EXCEPT ![r] = @ - 1]
    /\ caller' = [caller EXCEPT ![r] = IF unsent[r] = 1 THEN "ready" ELSE @]
    /\ UNCHANGED <<posted, pending, status, ghosts, pc, job, rc, eqs, event, dead>>

checkXfer(r) == IF ~posted[r] \/ pending[r] # 0 THEN "in_prog" ELSE status[r]

\* Fault: releaseReqH does not wait.
Released_NoWait(r) == caller[r] = "ready"

Released(r) == ~posted[r] \/ pending[r] = 0

\* releaseReqH: delete at once, or sleep in waitDone().
Release(r) ==
    /\ caller[r] = "ready"
    /\ caller' = [caller EXCEPT ![r] = IF Released(r) THEN "gone" ELSE "asleep"]
    /\ UNCHANGED <<posted, pending, status, unsent, ghosts, queue, pc, job, rc, eqs, event, dead>>

\* waitDone() looks at the predicate again.
Wake(r) ==
    /\ caller[r] = "woken"
    /\ caller' = [caller EXCEPT ![r] = IF Released(r) THEN "gone" ELSE "asleep"]
    /\ UNCHANGED <<posted, pending, status, unsent, ghosts, queue, pc, job, rc, eqs, event, dead>>
-----------------------------------------------------------------------------
(* A worker: take a job, get an event queue.                               *)

Take(w) ==
    /\ pc[w] = "idle" /\ queue # <<>>
    /\ job' = [job EXCEPT ![w] = Head(queue)]
    /\ queue' = Tail(queue)
    /\ Goto(w, "borrow")
    /\ UNCHANGED <<handles, ghosts, rc, eqs, event, dead>>

\* borrow(): the queue on top of the free list, or a new one, made unlocked.
Borrow(w) ==
    /\ pc[w] = "borrow"
    /\ IF free = <<>>
       THEN Goto(w, "create") /\ UNCHANGED <<eq, free>>
       ELSE /\ eq' = [eq EXCEPT ![w] = free[Len(free)]]
            /\ free' = SubSeq(free, 1, Len(free) - 1)
            /\ Goto(w, "issue")
    /\ UNCHANGED <<handles, ghosts, queue, job, rc, event, made, dirty, dead>>

Create(w) ==
    /\ pc[w] = "create"
    /\ \/ made' = made + 1 /\ eq' = [eq EXCEPT ![w] = made + 1]
       \/ UNCHANGED <<made, eq>>
    /\ Goto(w, "issue")
    /\ UNCHANGED <<handles, ghosts, queue, job, rc, event, free, dirty, dead>>

giveBack(w) == free' = Append(free, eq[w]) /\ eq' = [eq EXCEPT ![w] = 0]

\* daos_event_init fails.
InitFails(w) ==
    /\ pc[w] = "issue" /\ eq[w] # 0
    /\ giveBack(w)
    /\ UNCHANGED <<handles, ghosts, queue, pc, job, rc, event, made, dirty, dead>>
-----------------------------------------------------------------------------
(* The RPC.                                                                *)

\* daos_obj_fetch / daos_obj_update, with an event or blocking.
Issue(w) ==
    /\ pc[w] = "issue"
    /\ IF eq[w] = 0
       THEN Goto(w, "block") /\ UNCHANGED <<event, rc>>
       ELSE \/ event' = [event EXCEPT ![w] = "flying"] /\ Goto(w, "poll") /\ UNCHANGED rc
            \/ rc' = [rc EXCEPT ![w] = "error"] /\ Goto(w, "fini") /\ UNCHANGED event
    /\ UNCHANGED <<handles, ghosts, queue, job, eqs, dead>>

Land(w, how) ==
    landed' = IF how = "ok" THEN [landed EXCEPT ![job[w][1]] = @ \cup {job[w][2]}] ELSE landed

\* The engine answers.
Complete(w, how) ==
    /\ ~dead
    /\ \/ /\ event[w] = "flying"
          /\ event' = [event EXCEPT ![w] = how]
          /\ UNCHANGED <<pc, rc>>
       \/ /\ pc[w] = "block"
          /\ rc' = [rc EXCEPT ![w] = how]
          /\ Goto(w, "record")
          /\ UNCHANGED event
    /\ Land(w, how)
    /\ UNCHANGED <<handles, misled, queue, job, eqs, dead>>

\* daos_eq_poll returns the worker's own event.
Poll(w) ==
    /\ pc[w] = "poll" /\ event[w] \in Results
    /\ rc' = [rc EXCEPT ![w] = event[w]]
    /\ Goto(w, "fini")
    /\ UNCHANGED <<handles, ghosts, queue, job, eqs, event, dead>>

\* It returns an event an earlier job left on the queue.
PollForeign(w) ==
    /\ pc[w] = "poll" /\ eq[w] \in dirty
    /\ \E how \in Results : rc' = [rc EXCEPT ![w] = how]
    /\ dirty' = IF event[w] = "flying" THEN dirty ELSE dirty \ {eq[w]}
    /\ misled' = misled \cup {job[w][1]}
    /\ Goto(w, "fini")
    /\ UNCHANGED <<handles, landed, queue, job, eq, free, made, event, dead>>

\* The deadline passes (NIXL_DAOS_EQ_TIMEOUT, 60 s unless set; with 0 every call
\* blocks, as after a failed Create): the event is aborted, the RPC given up.
PollTimeout(w) ==
    /\ pc[w] = "poll" /\ event[w] = "flying"
    /\ event' = [event EXCEPT ![w] = "none"]
    /\ rc' = [rc EXCEPT ![w] = "error"]
    /\ Goto(w, "fini")
    /\ UNCHANGED <<handles, ghosts, queue, job, eqs, dead>>

\* The poll itself fails; nothing is aborted, so the event stays on the queue.
PollFails(w) ==
    /\ pc[w] = "poll"
    /\ rc' = [rc EXCEPT ![w] = "error"]
    /\ dirty' = IF event[w] = "flying" THEN dirty \cup {eq[w]} ELSE dirty
    /\ Goto(w, "fini")
    /\ UNCHANGED <<handles, ghosts, queue, job, eq, free, made, event, dead>>

\* daos_event_fini, then the queue goes back.
Fini(w) ==
    /\ pc[w] = "fini"
    /\ event' = [event EXCEPT ![w] = "none"]
    /\ giveBack(w)
    /\ Goto(w, "record")
    /\ UNCHANGED <<handles, ghosts, queue, job, rc, made, dirty, dead>>
-----------------------------------------------------------------------------
(* The end of a group.                                                     *)

\* Fault: an absent key passes for a hit.
Status_NoAbsent(how) == IF how = "error" THEN "backend" ELSE "success"

Status(how) == CASE how = "error" -> "backend" [] how = "absent" -> "not_found" [] how = "ok" -> "success"

\* recordError: the first non-success wins.
Record(w) ==
    LET r == job[w][1] IN
    /\ pc[w] = "record"
    /\ status' = [status EXCEPT ![r] = IF @ = "success" THEN Status(rc[w]) ELSE @]
    /\ rc' = [rc EXCEPT ![w] = "none"]
    /\ Goto(w, "finish")
    /\ UNCHANGED <<caller, posted, pending, unsent, ghosts, queue, job, eqs, event, dead>>

\* finishOne: count down; whoever reaches zero goes on to notify.
FinishOne(w) ==
    LET r == job[w][1] IN
    /\ pc[w] = "finish"
    /\ pending' = [pending EXCEPT ![r] = @ - 1]
    /\ IF pending[r] = 1
       THEN Goto(w, "notify") /\ UNCHANGED job
       ELSE Goto(w, "idle") /\ job' = [job EXCEPT ![w] = None]
    /\ UNCHANGED <<caller, posted, status, unsent, ghosts, queue, rc, eqs, event, dead>>

\* Fault: the waiter is not notified.
Woken_Not(s) == s

Woken(s) == IF s = "asleep" THEN "woken" ELSE s

\* ... under the request's own mutex.
Notify(w) ==
    /\ pc[w] = "notify"
    /\ caller' = [caller EXCEPT ![job[w][1]] = Woken(@)]
    /\ job' = [job EXCEPT ![w] = None]
    /\ Goto(w, "idle")
    /\ UNCHANGED <<posted, pending, status, unsent, ghosts, queue, rc, eqs, event, dead>>

\* The engine stops answering, or is brought back.
Engine ==
    /\ dead' = ~dead
    /\ UNCHANGED <<handles, ghosts, queue, pc, job, rc, eqs, event>>
-----------------------------------------------------------------------------
CallerStep(r) == Submit(r) \/ Wake(r)

WorkerStep(w) ==
    \/ Take(w) \/ Borrow(w) \/ Create(w) \/ Issue(w) \/ Poll(w) \/ PollTimeout(w)
    \/ Fini(w) \/ Record(w) \/ FinishOne(w) \/ Notify(w)

Next ==
    \/ \E r \in Requests : Prep(r) \/ Post(r) \/ Release(r) \/ CallerStep(r)
    \/ \E w \in Workers :
          \/ WorkerStep(w) \/ InitFails(w) \/ PollForeign(w) \/ PollFails(w)
          \/ \E how \in Results : Complete(w, how)
    \/ Engine

\* postXfer goes on, a notified waiter runs, and a worker takes its next step;
\* in a poll that is the deadline at the latest.
Fairness ==
    /\ \A r \in Requests : WF_vars(CallerStep(r))
    /\ \A w \in Workers : WF_vars(WorkerStep(w))

Spec == Init /\ [][Next]_vars /\ Fairness
-----------------------------------------------------------------------------
(* Properties.                                                             *)

\* checkXfer says success only when every group's RPC of the last post has
\* succeeded and found its keys: no group is still running, none failed, and
\* none is masked by another (postXfer, recordError, finishOne).  Left out are
\* requests that harvested what a failed poll left on an event queue.
SuccessIsReal ==
    \A r \in Requests \ misled :
        caller[r] = "ready" /\ checkXfer(r) = "success" => landed[r] = 1 .. Groups

\* releaseReqH lets the calls finish: no worker is in the middle of a group of
\* a request that has been deleted.
CallsOutlived == \A w \in Workers : pc[w] \in InCall => caller[job[w][1]] # "gone"

\* A worker that could get no event queue is inside a call without a deadline.
Blocked == \E w \in Workers : pc[w] = "block"

\* A caller asleep in releaseReqH is woken and returns: no notification is lost.
ReleaseReturns == \A r \in Requests : caller[r] = "asleep" ~> caller[r] = "gone" \/ Blocked
=============================================================================
