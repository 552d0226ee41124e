------------------------------ MODULE AbiProbe ------------------------------
(***************************************************************************)
(* verify_abi: before DAOS events are used, one asynchronous read proves   *)
(* that the daos_event_t this build of libdaos drives fits the allocation. *)
(* The size is the declared one, or what the shim says; the allocation has *)
(* a guard behind it that must stay intact.  libdaos keeps pointers to the *)
(* event, the buffer and the file handle until the read has landed.        *)
(* Sizes are in units; the event queue is libdaos's.                       *)
(***************************************************************************)
EXTENDS Naturals

CONSTANTS
    Sizes,      \* sizes a build's daos_event_t may have
    Declared,   \* sizeof(DaosEvent)
    Guard,      \* len(_CANARY)
    MaxSize,    \* the largest size the shim is believed
    Polls       \* polls before the probe gives up

VARIABLES
    real,       \* the size libdaos uses
    shim,       \* what the shim says, 0 without one
    at,         \* where verify_abi is
    touched,    \* the units of the event libdaos has written
    queue,      \* the event queue is open
    event,      \* none, ready (daos_event_init) or over (daos_event_fini)
    obj,        \* none, open or closed: the file handle
    read,       \* none, flying, good, short or failed
    polls,      \* polls that came back empty
    result,     \* how verify_abi ends
    gaveup      \* history: the probe stopped waiting for its read

vars == <<real, shim, at, touched, queue, event, obj, read, polls, result, gaveup>>

\* _probe_event_size: an implausible size is ignored.
EVENT_SIZE == IF shim \in 1 .. MaxSize THEN shim ELSE Declared

TypeOK ==
    /\ real \in Sizes
    /\ shim \in Sizes \cup {0}
    /\ at \in {"queue", "event", "canary", "open", "submit", "poll", "judge", "close", "fini", "over"}
    /\ touched \in Sizes \cup {0}
    /\ queue \in BOOLEAN
    /\ event \in {"none", "ready", "over"}
    /\ obj \in {"none", "open", "closed"}
    /\ read \in {"none", "flying", "good", "short", "failed", "aborted"}
    /\ polls \in 0 .. Polls
    /\ result \in {"none", "proved", "abi", "error"}
    /\ gaveup \in BOOLEAN

Init ==
    /\ real \in Sizes
    /\ shim \in Sizes \cup {0}
    /\ at = "queue"
    /\ touched = 0
    /\ queue = FALSE
    /\ event = "none"
    /\ obj = "none"
    /\ read = "none"
    /\ polls = 0
    /\ result = "none"
    /\ gaveup = FALSE
-----------------------------------------------------------------------------
\* daos_eq_create.
CreateQueue ==
    /\ at = "queue"
    /\ \/ queue' = TRUE /\ at' = "event" /\ UNCHANGED result
       \/ at' = "over" /\ result' = "error" /\ UNCHANGED queue
    /\ UNCHANGED <<real, shim, touched, event, obj, read, polls, gaveup>>

\* new_event: the buffer must hold the declared structure; daos_event_init writes
\* some of the event.  Without a slot there is nothing to fini.
NewEvent ==
    /\ at = "event"
    /\ \/ /\ EVENT_SIZE + Guard >= Declared
          /\ \E n \in Sizes : n <= real /\ touched' = n
          /\ event' = "ready" /\ at' = "canary"
          /\ UNCHANGED result
       \/ at' = "fini" /\ result' = "error" /\ UNCHANGED <<event, touched>>
    /\ UNCHANGED <<real, shim, queue, obj, read, polls, gaveup>>

canary_ok == touched <= EVENT_SIZE

AfterInit ==
    /\ at = "canary"
    /\ IF canary_ok THEN at' = "open" /\ UNCHANGED result ELSE at' = "fini" /\ result' = "abi"
    /\ UNCHANGED <<real, shim, touched, queue, event, obj, read, polls, gaveup>>

OpenObj ==
    /\ at = "open"
    /\ \/ obj' = "open" /\ at' = "submit" /\ UNCHANGED result
       \/ at' = "fini" /\ result' = "error" /\ UNCHANGED obj
    /\ UNCHANGED <<real, shim, touched, queue, event, read, polls, gaveup>>

\* Fault: the file is closed once the read is submitted.
AfterSubmit_Closed == "closed"

\* The file stays open until the read has been harvested.
AfterSubmit == "open"

submit ==
    /\ at = "submit"
    /\ \/ read' = "flying" /\ obj' = AfterSubmit /\ at' = "poll" /\ UNCHANGED result
       \/ at' = "close" /\ result' = "error" /\ UNCHANGED <<read, obj>>
    /\ UNCHANGED <<real, shim, touched, queue, event, polls, gaveup>>

\* libdaos ends the read, well or not; driving the event it writes all of it.
Land ==
    /\ read = "flying"
    /\ read' \in {"good", "short", "failed"}
    /\ touched' = real
    /\ UNCHANGED <<real, shim, at, queue, event, obj, polls, result, gaveup>>

\* A poll that finds nothing, the last of which gives the probe up; that fails;
\* or that hands back an address, the event's own or not.
poll ==
    /\ at = "poll"
    /\ \/ /\ read = "flying" /\ polls < Polls
          /\ polls' = polls + 1
          /\ IF polls' = Polls
             THEN at' = "close" /\ result' = "abi" /\ gaveup' = TRUE
             ELSE UNCHANGED <<at, result, gaveup>>
       \/ at' = "close" /\ result' = "error" /\ gaveup' = TRUE /\ UNCHANGED polls
       \/ read # "flying" /\ at' = "judge" /\ UNCHANGED <<polls, result, gaveup>>
       \/ read # "flying" /\ at' = "close" /\ result' = "abi" /\ UNCHANGED <<polls, gaveup>>
    /\ UNCHANGED <<real, shim, touched, queue, event, obj, read>>

\* Fault: only the event's error and length are looked at.
Verdict_NoCanary == IF read = "good" THEN "proved" ELSE "error"

\* The canary first, then the event's error and the length (AsyncRead.check).
Verdict == IF ~canary_ok THEN "abi" ELSE IF read = "good" THEN "proved" ELSE "error"

Judge ==
    /\ at = "judge"
    /\ result' = Verdict
    /\ at' = "close"
    /\ UNCHANGED <<real, shim, touched, queue, event, obj, read, polls, gaveup>>

\* The inner finally.
CloseObj ==
    /\ at = "close"
    /\ obj' = "closed"
    /\ at' = "fini"
    /\ UNCHANGED <<real, shim, touched, queue, event, read, polls, result, gaveup>>

\* The outer finally: an event in flight refuses its fini, which is swallowed;
\* the queue is destroyed by force, which ends what is in flight.
FiniEvent ==
    /\ at = "fini"
    /\ event' = IF event = "ready" /\ read # "flying" THEN "over" ELSE event
    /\ read' = IF read = "flying" THEN "aborted" ELSE read
    /\ queue' = FALSE
    /\ at' = "over"
    /\ UNCHANGED <<real, shim, touched, obj, polls, result, gaveup>>

verify_abi ==
    CreateQueue \/ NewEvent \/ AfterInit \/ OpenObj \/ submit \/ poll \/ Judge \/ CloseObj \/ FiniEvent

Next == verify_abi \/ Land

Spec == Init /\ [][Next]_vars
-----------------------------------------------------------------------------
(* Properties.                                                             *)

\* verify_abi returns only where the event fits its allocation, whatever the shim
\* says and however little daos_event_init writes ("Prove the daos_event_t
\* layout by exercising a real async read").
AbiProved == result = "proved" => real <= EVENT_SIZE

\* The lifetime contract of AsyncRead: while libdaos has the read, the file handle
\* is open and the event and its queue stay, unless the probe stopped waiting: its
\* two finally blocks then close the handle under the read.
LifetimeKept == read = "flying" => queue /\ event = "ready" /\ (obj = "open" \/ gaveup)
=============================================================================
