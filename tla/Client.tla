------------------------------- MODULE Client -------------------------------
(***************************************************************************)
(* A client of DAOS from its constructor to close(), and what it does in   *)
(* between: the connector answers pings or streams a request's chunks, a   *)
(* tool verifies the event ABI on the mount it has opened.  Pings and the  *)
(* stream share nothing but the life of the connector, so a behaviour does *)
(* one or the other, as cfg.duty says.  The stream shares the I/O pool     *)
(* with warm-up calls that were running when the warm-up gave up, and      *)
(* close() comes at any time.                                              *)
(***************************************************************************)
EXTENDS Startup

CONSTANTS
    Callers,                                    \* coroutines that call ping()
    Items, MaxInflight,                         \* the stream
    Sizes, Declared, Guard, MaxSize, Polls      \* the ABI probe

ASSUME CallersAssumption == "none" \notin Callers     \* stands for no caller
ASSUME StreamAssumption == Items \in Nat /\ MaxInflight \in Nat \ {0}  \* else ValueError
ASSUME AbiAssumption == Sizes \subseteq Nat \ {0} /\ Declared \in Sizes /\ Polls \in Nat \ {0}

VARIABLES
    duty,       \* what the client does once it is up
    up, wedged, flag, probes, probing, answered, inPing, answer, overlap,
    at, taken, exhausted, pending, batch, queue, running, completed, cancelled, yielded,
    real, shim, abi, touched, eq, event, obj, read, polls, result, gaveup

pingVars == <<up, wedged, flag, probes, probing, answered, inPing, answer, overlap>>
streamVars == <<at, taken, exhausted, pending, batch, queue, running, completed, cancelled, yielded>>
abiVars == <<real, shim, abi, touched, eq, event, obj, read, polls, result, gaveup>>
allVars == <<vars, duty, pingVars, streamVars, abiVars>>

Closed == pc = "closed"

P == INSTANCE Ping WITH closed <- Closed, queue <- probes, result <- answered, pc <- inPing
S == INSTANCE Stream WITH closed <- Closed, others <- Cardinality(Running)
A == INSTANCE AbiProbe WITH at <- abi, queue <- eq

ClientTypeOK == TypeOK /\ P!TypeOK /\ S!TypeOK /\ A!TypeOK

\* A duty that is not the client's stays as it began.  Pings have a thread of their
\* own, which a warm-up does not touch, so the connector that pings has none.
ClientInit ==
    /\ Init
    /\ duty \in CASE cfg.user = "connector" -> {"stream"} \cup (IF cfg.probe THEN {} ELSE {"ping"})
                  [] cfg.user = "tool" -> {"abi"}
                  [] OTHER -> {"none"}
    /\ P!Init
    /\ S!Init
    /\ IF duty = "abi" THEN A!Init ELSE A!Init /\ real = Declared /\ shim = 0
-----------------------------------------------------------------------------
Starting ==
    /\ Construct \/ Task
    /\ UNCHANGED <<duty, pingVars, streamVars, abiVars>>

\* ping() goes on after close(): the health monitor does not know of it.
Serves(d) == duty = d /\ (pc = "up" \/ Closed)

Pings(A_) == Serves("ping") /\ A_ /\ UNCHANGED <<vars, duty, streamVars, abiVars>>
Streams(A_) == Serves("stream") /\ A_ /\ UNCHANGED <<vars, duty, pingVars, abiVars>>
Verifies(A_) == duty = "abi" /\ pc = "up" /\ A_ /\ UNCHANGED <<vars, duty, pingVars, streamVars>>

\* The tool closes its mount when verify_abi is over.
CloseClient ==
    /\ duty = "abi" => abi = "over"
    /\ Close
    /\ S!cancel_futures
    /\ UNCHANGED <<duty, pingVars, abiVars>>

Ping == Pings((\E p \in Callers : P!Caller(p)) \/ P!Environment)
Stream == Streams(S!Generator \/ S!Stop \/ S!Start \/ \E i \in 1 .. Items : S!Finish(i))
Verify == Verifies(A!Next)

ClientNext == Starting \/ Ping \/ Stream \/ Verify \/ CloseClient

\* The constructor's calls and the warm-up's return.  Every caller keeps calling
\* ping(), and not only while the flag is set; a probe of a server that answers
\* comes back.  The event loop and the pool run, and a read returns.
ClientFairness ==
    /\ WF_allVars(Starting)
    /\ \A i \in Index :
         WF_allVars((TaskEnd(i, "ok") \/ TaskEnd(i, "bad"))
                    /\ UNCHANGED <<duty, pingVars, streamVars, abiVars>>)
    /\ \A p \in Callers : SF_allVars(Pings(P!PingStart(p))) /\ WF_allVars(Pings(P!PingWake(p)))
    /\ WF_allVars(Pings(P!ProbeStart))
    /\ WF_allVars(Pings(P!ProbeOk))
    /\ WF_allVars(Streams(S!Generator))
    /\ WF_allVars(Streams(S!Start))
    /\ \A i \in 1 .. Items : WF_allVars(Streams(S!Finish(i)))

ClientSpec == ClientInit /\ [][ClientNext]_allVars /\ ClientFairness
-----------------------------------------------------------------------------
(* Properties.                                                             *)

\* A second probe does not queue behind one that is still out, while pings take
\* turns, with close() at any time.
OneProbe == P!OneProbe

\* Once an open connector's server answers for good and its pool is not wedged,
\* ping() reports success again.
Recovers == duty = "ping" /\ <>(pc = "up") => P!Recovers

\* Each chunk of a stream is yielded once, after its read; only close() aborts a
\* stream.
ExactlyOnce == S!ExactlyOnce

\* A stream that has begun ends, whatever warm-up calls still hold the pool and
\* whenever close() comes.
StreamEnds == S!StreamEnds

\* verify_abi returns only where the event fits its allocation.
AbiProved == A!AbiProved

\* While libdaos has the probe's read, the mount and the queue are open and the
\* event is in place; the file handle is open unless the probe stopped waiting.
LifetimeKept == A!LifetimeKept /\ (read = "flying" => held = {"mount"})
=============================================================================
