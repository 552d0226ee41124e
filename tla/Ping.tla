-------------------------------- MODULE Ping --------------------------------
(***************************************************************************)
(* ping() of the in-process connector: a health probe on a thread of its   *)
(* own, with a timeout.  _ping_inflight keeps a second probe from queueing *)
(* behind one that is stuck in libdaos.  The flag is set by the coroutine  *)
(* and cleared by the probe thread when the call comes back, which may be  *)
(* long after the coroutine gave up, and once more by the coroutine when   *)
(* the call raised.  While the server is down a probe does not return; it  *)
(* may still end with an error once DAOS gives up.  close() shuts the ping *)
(* thread's pool down without waiting: a probe that is out still ends, and *)
(* a later ping() cannot submit one.                                       *)
(***************************************************************************)
EXTENDS Naturals, Sequences

CONSTANT
    Callers     \* coroutines that call ping()

None == "none"

VARIABLES
    closed,     \* close() has been called (an input)
    up,         \* the server answers
    wedged,     \* the I/O pool is wedged (_wedged_for)
    flag,       \* _ping_inflight
    queue,      \* probes waiting for the ping thread, oldest first
    probing,    \* the caller whose probe the thread is in, or None
    result,     \* result[p]: what the probe of p came back with
    pc,         \* pc[p]: inside ping(), or not
    answer,     \* answer[p]: what the last ping() of p returned
    overlap     \* history: a ping() has begun while another was in progress

vars == <<up, wedged, flag, queue, probing, result, pc, answer, overlap>>

Answers == {"none", "ok", "busy", "timeout", "error"}

TypeOK ==
    /\ up \in BOOLEAN
    /\ wedged \in BOOLEAN
    /\ flag \in BOOLEAN
    /\ queue \in Seq(Callers)
    /\ probing \in Callers \cup {None}
    /\ result \in [Callers -> {"none", "ok", "error"}]
    /\ pc \in [Callers -> {"idle", "await"}]
    /\ answer \in [Callers -> Answers]
    /\ overlap \in BOOLEAN

Init ==
    /\ up = TRUE
    /\ wedged = FALSE
    /\ flag = FALSE
    /\ queue = <<>>
    /\ probing = None
    /\ result = [p \in Callers |-> "none"]
    /\ pc = [p \in Callers |-> "idle"]
    /\ answer = [p \in Callers |-> "none"]
    /\ overlap = FALSE

\* p's probe is still with the executor.
Outstanding(p) == probing = p \/ \E i \in DOMAIN queue : queue[i] = p

\* p may call ping().
MayCall(p) ==
    /\ pc[p] = "idle"
    /\ ~Outstanding(p)

\* Answered at once: the pool is wedged, or a probe is already out.
PingRefused(p) ==
    /\ MayCall(p)
    /\ wedged \/ flag
    /\ answer' = [answer EXCEPT ![p] = IF wedged THEN "busy" ELSE "timeout"]
    /\ UNCHANGED <<up, wedged, flag, queue, probing, result, pc, overlap>>

PingStart(p) ==
    /\ MayCall(p)
    /\ ~wedged
    /\ ~flag
    /\ ~closed
    /\ flag' = TRUE
    /\ queue' = Append(queue, p)
    /\ result' = [result EXCEPT ![p] = "none"]
    /\ pc' = [pc EXCEPT ![p] = "await"]
    /\ answer' = [answer EXCEPT ![p] = "none"]
    /\ overlap' = (overlap \/ \E q \in Callers : pc[q] = "await")
    /\ UNCHANGED <<up, wedged, probing>>

\* The pool is shut down: run_in_executor raises, which the except clears up.
PingClosed(p) ==
    /\ MayCall(p)
    /\ ~wedged
    /\ ~flag
    /\ closed
    /\ answer' = [answer EXCEPT ![p] = "error"]
    /\ UNCHANGED <<up, wedged, flag, queue, probing, result, pc, overlap>>

\* The queue once the probe of p, if it is still there, has been cancelled.
Cancelled(p) ==
    IF \E i \in DOMAIN queue : queue[i] = p
    THEN LET i == CHOOSE i \in DOMAIN queue : queue[i] = p IN
         SubSeq(queue, 1, i - 1) \o SubSeq(queue, i + 1, Len(queue))
    ELSE queue

\* Fault: the timeout clears the flag of a probe still out.
PingTimeout_Clears(p) ==
    /\ pc[p] = "await"
    /\ result[p] = "none"
    /\ probing # None
    /\ ~up
    /\ pc' = [pc EXCEPT ![p] = "idle"]
    /\ queue' = Cancelled(p)
    /\ flag' = FALSE
    /\ answer' = [answer EXCEPT ![p] = "timeout"]
    /\ UNCHANGED <<up, wedged, probing, result, overlap>>

\* wait_for() gives up.  A probe still queued is cancelled with it; a running
\* one stays, and so does the flag.  A server that is up answers within the
\* timeout, and a free thread takes a queued probe within it.
PingTimeout(p) ==
    /\ pc[p] = "await"
    /\ result[p] = "none"
    /\ probing # None
    /\ ~up
    /\ pc' = [pc EXCEPT ![p] = "idle"]
    /\ queue' = Cancelled(p)
    /\ answer' = [answer EXCEPT ![p] = "timeout"]
    /\ UNCHANGED <<up, wedged, flag, probing, result, overlap>>

\* The coroutine wakes up with the probe's result; an exception clears the
\* flag a second time.
PingWake(p) ==
    /\ pc[p] = "await"
    /\ result[p] # "none"
    /\ flag' = IF result[p] = "error" THEN FALSE ELSE flag
    /\ pc' = [pc EXCEPT ![p] = "idle"]
    /\ answer' = [answer EXCEPT ![p] = result[p]]
    /\ UNCHANGED <<up, wedged, queue, probing, result, overlap>>

\* The ping thread: _ping_sync.
ProbeStart ==
    /\ probing = None
    /\ queue # <<>>
    /\ probing' = Head(queue)
    /\ queue' = Tail(queue)
    /\ UNCHANGED <<up, wedged, flag, result, pc, answer, overlap>>

\* Fault: the flag is cleared after the call, not in a finally.
Clear_OnSuccess(how) == flag' = (flag /\ how = "error")

\* The finally of _ping_sync, however the call ended.
Clear(how) == flag' = FALSE

ProbeEnd(how) ==
    /\ probing # None
    /\ Clear(how)
    /\ result' = [result EXCEPT ![probing] = how]
    /\ probing' = None
    /\ UNCHANGED <<up, wedged, queue, pc, answer, overlap>>

ProbeOk == up /\ ProbeEnd("ok")
ProbeError == (~up \/ closed) /\ ProbeEnd("error")

\* The environment: the server goes away and comes back, the pool wedges.
Server ==
    /\ up' = ~up
    /\ UNCHANGED <<wedged, flag, queue, probing, result, pc, answer, overlap>>

Wedge ==
    /\ wedged' = ~wedged
    /\ UNCHANGED <<up, flag, queue, probing, result, pc, answer, overlap>>

Caller(p) == PingRefused(p) \/ PingStart(p) \/ PingClosed(p) \/ PingTimeout(p) \/ PingWake(p)

Environment == ProbeStart \/ ProbeOk \/ ProbeError \/ Server \/ Wedge
-----------------------------------------------------------------------------
(* Properties.                                                             *)

\* A second probe does not queue behind one that is still out (the comment in
\* ping(), tests/test_ping.py): while pings take turns, as those of one health
\* monitor do, the executor holds at most one.
OneProbe == ~overlap => Len(queue) + (IF probing = None THEN 0 ELSE 1) <= 1

\* Once the server answers for good and the pool is not wedged, ping() of an open
\* connector reports success again, however many probes timed out before
\* (_ping_sync's finally).
Recovers == \A p \in Callers : <>[](up /\ ~wedged /\ ~closed) => []<>(answer[p] = "ok")
=============================================================================
