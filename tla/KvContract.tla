----------------------------- MODULE KvContract -----------------------------
(***************************************************************************)
(* What a KV-cache connector promises its caller, whatever the layout it   *)
(* stores objects in.  A get may always answer "miss" or raise; when it    *)
(* answers "hit" the buffer it hands back holds what a put stored under    *)
(* that key, and the key could be in the store at some moment of the call. *)
(* The container may lose an object at any time (eviction, a writer that   *)
(* dies), but it never invents one.                                        *)
(***************************************************************************)
CONSTANTS
    Keys,       \* the objects of the container
    Clients     \* the threads that call the connector

VARIABLES
    maybe,      \* keys the store may hold: stored, or being stored
    open,       \* open[c]: c is inside a get
    asked,      \* asked[c]: the keys of the get c is inside
    seen,       \* seen[c]: keys in maybe at some moment of that get
    hits        \* hits[c]: what c's last get handed back, with its content

vars == <<maybe, open, asked, seen, hits>>

Init ==
    /\ maybe = {}
    /\ open = [c \in Clients |-> FALSE]
    /\ asked = [c \in Clients |-> {}]
    /\ seen = [c \in Clients |-> {}]
    /\ hits = [c \in Clients |-> {}]

\* A put for the keys S begins.
Submit(S) ==
    /\ maybe' = maybe \cup S
    /\ seen' = [c \in Clients |-> IF open[c] THEN seen[c] \cup S ELSE seen[c]]
    /\ UNCHANGED <<open, asked, hits>>

\* Objects leave the store.
Lose(S) ==
    /\ maybe' = maybe \ S
    /\ UNCHANGED <<open, asked, seen, hits>>

Begin(c, S) ==
    /\ ~open[c]
    /\ open' = [open EXCEPT ![c] = TRUE]
    /\ asked' = [asked EXCEPT ![c] = S]
    /\ seen' = [seen EXCEPT ![c] = maybe]
    /\ hits' = [hits EXCEPT ![c] = {}]
    /\ UNCHANGED maybe

\* The get of c answers: a subset of what it may have seen, each "stored".
Answer(c, H) ==
    /\ open[c]
    /\ H \subseteq asked[c] \cap seen[c]
    /\ open' = [open EXCEPT ![c] = FALSE]
    /\ asked' = [asked EXCEPT ![c] = {}]
    /\ seen' = [seen EXCEPT ![c] = {}]
    /\ hits' = [hits EXCEPT ![c] = H \X {"stored"}]
    /\ UNCHANGED maybe

\* The process whose threads are P dies: their gets end and their buffers go,
\* and a put they were in the middle of may leave nothing behind.
Forget(P, S) ==
    LET without(f, v) == [c \in Clients |-> IF c \in P THEN v ELSE f[c]] IN
    /\ maybe' = maybe \ S
    /\ open' = without(open, FALSE)
    /\ asked' = without(asked, {})
    /\ seen' = without(seen, {})
    /\ hits' = without(hits, {})

Next ==
    \/ \E S \in SUBSET Keys : Submit(S) \/ Lose(S)
    \/ \E c \in Clients, S \in SUBSET Keys : Begin(c, S) \/ Answer(c, S)
    \/ \E P \in SUBSET Clients, S \in SUBSET Keys : Forget(P, S)

Spec == Init /\ [][Next]_vars
=============================================================================
