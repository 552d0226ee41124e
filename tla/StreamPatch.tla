----------------------------- MODULE StreamPatch -----------------------------
(***************************************************************************)
(* The streaming prototype of the MP server (DAOS_MP_STREAM).  A request's *)
(* L2 keys are loaded in sub-batches behind a proxy; as each sub-batch     *)
(* lands its keys are made readable in L1 at once and marked in _early, so *)
(* that the finish the prefetch controller does at the end skips them.     *)
(* The request is reported found as soon as the lookup has decided, while  *)
(* loads still run: the retrieve gets placeholders for keys that have not  *)
(* landed, and the transfer to the GPU waits for them sub-batch by         *)
(* sub-batch.  The real prefetch result is popped by a janitor.            *)
(* The L1 manager and the prefetch controller are LMCache's, and are       *)
(* modelled from how the patch uses them: one controller thread polls the  *)
(* proxy and finishes the request whose load has come back; a key is       *)
(* absent, reserved for writing, or readable; a readable key without       *)
(* readers may be evicted.                                                 *)
(***************************************************************************)
EXTENDS Naturals, Sequences, FiniteSets, Functions

CONSTANTS
    Keys,       \* object keys
    Requests,   \* prefetch requests
    Wants,      \* Wants[r]: the keys of r, in order
    Sub         \* keys per sub-batch

ASSUME SubAssumption == Sub \in Nat \ {0}
ASSUME WantsAssumption == Wants \in [Requests -> Seq(Keys)]

None == "none"
ASSUME RequestsAssumption == None \notin Requests

VARIABLES
    l1,         \* l1[k]: absent, writing or readable
    holds,      \* holds[r]: keys the load of r has a read reservation on
    landed,     \* ghost: keys whose L1 buffer holds the object they name
    early,      \* _early
    phase,      \* phase[r]: where the controller is with r
    hits,       \* hits[r]: the L2 keys the lookup found, a prefix
    batch,      \* batch[r]: the keys given to submit_load_task
    ended,      \* ended[r]: sub-batches whose inner load is over
    ok,         \* ok[r]: keys whose bit the inner adapter has set
    taken,      \* taken[r]: sub-batches whose bitmap the proxy has taken
    finishing,  \* the request the controller is about to finish, or None
    drain,      \* _drain
    at,         \* at[r]: where the retrieve of r is
    pending,    \* pending[r]: positions read_prefetched_results left pending
    sent,       \* sent[r]: sub-batches handed to the transfer
    gpu,        \* gpu[r]: what was copied to each chunk's blocks
    quit        \* history: a retrieve has given its keys back before its load was over

l1Vars == <<l1, holds, landed>>
loadVars == <<phase, hits, batch, ended, ok, taken, finishing>>
readVars == <<at, pending, sent, gpu>>
vars == <<l1Vars, early, loadVars, drain, readVars, quit>>

Nothing == "nothing"
Unheld == "unheld"

TypeOK ==
    /\ l1 \in [Keys -> {"absent", "writing", "readable"}]
    /\ holds \in [Requests -> SUBSET Keys]
    /\ landed \subseteq Keys
    /\ early \subseteq Keys
    /\ phase \in [Requests -> {"new", "lookup", "decided", "loading", "done", "popped"}]
    /\ hits \in [Requests -> Nat]
    /\ batch \in [Requests -> Seq(Keys)]
    /\ ended \in [Requests -> SUBSET Nat]
    /\ ok \in [Requests -> SUBSET Keys]
    /\ taken \in [Requests -> SUBSET Nat]
    /\ finishing \in Requests \cup {None}
    /\ drain \subseteq Requests
    /\ at \in [Requests -> {"idle", "found", "resolve", "copy", "done", "failed", "released"}]
    /\ pending \in [Requests -> SUBSET Nat]
    /\ sent \in [Requests -> Nat]
    /\ gpu \in [Requests -> Seq(Keys \cup {Nothing, Unheld})]
    /\ quit \in BOOLEAN

Init ==
    /\ l1 = [k \in Keys |-> "absent"]
    /\ holds = [r \in Requests |-> {}]
    /\ landed = {}
    /\ early = {}
    /\ phase = [r \in Requests |-> "new"]
    /\ hits = [r \in Requests |-> 0]
    /\ batch = [r \in Requests |-> <<>>]
    /\ ended = [r \in Requests |-> {}]
    /\ ok = [r \in Requests |-> {}]
    /\ taken = [r \in Requests |-> {}]
    /\ finishing = None
    /\ drain = {}
    /\ at = [r \in Requests |-> "idle"]
    /\ pending = [r \in Requests |-> {}]
    /\ sent = [r \in Requests |-> 0]
    /\ gpu = [r \in Requests |-> <<>>]
    /\ quit = FALSE

-----------------------------------------------------------------------------
(* Sub-batches.                                                            *)

\* The positions of sub-batch i among n, range(0, n, sub).
Slice(i, n) == {p \in 1 .. n : (i - 1) * Sub < p /\ p =< i * Sub}
Slices(n) == {i \in 1 .. n : Slice(i, n) # {}}
KeysAt(s, ps) == {s[p] : p \in ps}
SubKeys(r, i) == KeysAt(batch[r], Slice(i, Len(batch[r])))
-----------------------------------------------------------------------------
(* The L1 manager.                                                         *)

\* finish_write_and_reserve_read: a key reserved for writing becomes readable
\* and is held for r; any other key is left alone.  gone are the keys whose
\* reservation is given up.
finish_write(r, ks, gone) ==
    LET fin == {k \in ks : l1[k] = "writing"} IN
    /\ l1' = [k \in Keys |-> IF k \in fin THEN "readable"
                             ELSE IF k \in gone THEN "absent" ELSE l1[k]]
    /\ holds' = [holds EXCEPT ![r] = @ \cup fin]

Evict(k) ==
    /\ l1[k] = "readable"
    /\ \A r \in Requests : k \notin holds[r]
    /\ l1' = [l1 EXCEPT ![k] = "absent"]
    /\ landed' = landed \ {k}
    /\ UNCHANGED <<holds, early, loadVars, drain, readVars, quit>>

\* unsafe_read finds the key.
Readable(k) == l1[k] = "readable"
-----------------------------------------------------------------------------
(* The prefetch controller and the proxy.                                  *)

\* A prefetch of keys that are not in L1; its lookup finds a prefix of them in L2.
Prefetch(r) ==
    /\ phase[r] = "new"
    /\ \A k \in Range(Wants[r]) : l1[k] = "absent"
    /\ phase' = [phase EXCEPT ![r] = "lookup"]
    /\ UNCHANGED <<l1Vars, early, hits, batch, ended, ok, taken, finishing, drain, readVars, quit>>

LookedUp(r) ==
    /\ phase[r] = "lookup"
    /\ \E h \in 0 .. Len(Wants[r]) : hits' = [hits EXCEPT ![r] = h]
    /\ phase' = [phase EXCEPT ![r] = "decided"]
    /\ UNCHANGED <<l1Vars, early, batch, ended, ok, taken, finishing, drain, readVars, quit>>

\* The controller reserves the found keys that are absent, and hands them, in
\* their order, to submit_load_task, which submits every sub-batch; with none
\* left the request is over.
submit_load_task(r) ==
    LET gaps == {p \in 1 .. hits[r] : l1[Wants[r][p]] = "absent"} IN
    /\ phase[r] = "decided"
    /\ finishing = None
    /\ \E ps \in [1 .. Cardinality(gaps) -> gaps] :
         /\ \A i, j \in DOMAIN ps : i < j => ps[i] < ps[j]
         /\ batch' = [batch EXCEPT ![r] = [i \in DOMAIN ps |-> Wants[r][ps[i]]]]
    /\ l1' = [k \in Keys |-> IF k \in KeysAt(Wants[r], gaps) THEN "writing" ELSE l1[k]]
    /\ phase' = [phase EXCEPT ![r] = IF gaps = {} THEN "done" ELSE "loading"]
    /\ UNCHANGED <<holds, landed, early, hits, ended, ok, taken, finishing, drain, readVars, quit>>

\* The inner adapter ends a sub-batch, in any order; it sets the bit of every
\* key it read whole.
LoadEnds(r, i) ==
    /\ phase[r] = "loading"
    /\ i \in Slices(Len(batch[r])) \ ended[r]
    /\ ended' = [ended EXCEPT ![r] = @ \cup {i}]
    /\ \E good \in SUBSET SubKeys(r, i) :
         /\ ok' = [ok EXCEPT ![r] = @ \cup good]
         /\ landed' = landed \cup good
    /\ UNCHANGED <<l1, holds, early, phase, hits, batch, taken, finishing, drain, readVars, quit>>

\* Fault: the whole sub-batch is published, not the keys whose bit is set.
Published_All(r, i) == SubKeys(r, i)

Published(r, i) == SubKeys(r, i) \cap ok[r]

\* query_load_result meets a sub-batch that is over: its keys are marked, then
\* finished; after the last one it returns the combined bitmap, and the next
\* thing the controller does is to finish the request.  (_early is touched by
\* this thread only; _ready, which nothing reads, is left out.)
query_load_result(r, i) ==
    /\ phase[r] = "loading"
    /\ finishing = None
    /\ i \in ended[r] \ taken[r]
    /\ taken' = [taken EXCEPT ![r] = @ \cup {i}]
    /\ early' = early \cup Published(r, i)
    /\ finish_write(r, Published(r, i), {})
    /\ finishing' = IF taken'[r] = Slices(Len(batch[r])) THEN r ELSE None
    /\ UNCHANGED <<landed, phase, hits, batch, ended, ok, drain, readVars, quit>>

\* Fault: the marks stay.
SpendMarks_Not(skip) == UNCHANGED early

SpendMarks(skip) == early' = early \ skip

\* The controller finishes the keys whose bit is set, through _patched_fwrr,
\* which skips the marked ones, and gives up the reservation of the others; the
\* proxy has dropped its table of the request.
Finish(r) ==
    LET skip == ok[r] \cap early
        rest == ok[r] \ skip
        lost == {k \in Range(batch[r]) \ ok[r] : l1[k] = "writing"}
    IN
    /\ finishing = r
    /\ SpendMarks(skip)
    /\ finish_write(r, rest, lost)
    /\ phase' = [phase EXCEPT ![r] = "done"]
    /\ finishing' = None
    /\ batch' = [batch EXCEPT ![r] = <<>>]
    /\ ended' = [ended EXCEPT ![r] = {}]
    /\ ok' = [ok EXCEPT ![r] = {}]
    /\ taken' = [taken EXCEPT ![r] = {}]
    /\ UNCHANGED <<landed, hits, drain, readVars, quit>>

\* _janitor: the real result of a request reported early is popped.
Janitor(r) ==
    /\ r \in drain
    /\ phase[r] = "done"
    /\ phase' = [phase EXCEPT ![r] = "popped"]
    /\ drain' = drain \ {r}
    /\ UNCHANGED <<l1Vars, early, hits, batch, ended, ok, taken, finishing, readVars, quit>>
-----------------------------------------------------------------------------
(* The retrieve.                                                           *)

Decided(r) == phase[r] \in {"decided", "loading", "done"}

\* Fault: the request id is not kept for the janitor.
Noted_Not(r) == drain

Noted(r) == drain \cup {r}

\* query_prefetch_status: found as soon as the lookup has decided.
Query(r) ==
    /\ at[r] = "idle"
    /\ Decided(r)
    /\ drain' = Noted(r)
    /\ at' = [at EXCEPT ![r] = IF hits[r] = 0 THEN "done" ELSE "found"]
    /\ UNCHANGED <<l1Vars, early, loadVars, pending, sent, gpu, quit>>

\* What a copy for r takes from the L1 buffer of a key.  unsafe_read also hands
\* out a key that another request holds, or nobody; the buffer may then be
\* evicted before the copy.
Content(r, k) ==
    IF k \notin holds[r] THEN Unheld
    ELSE IF k \in landed THEN k ELSE Nothing

\* read_prefetched_results: a placeholder for every key not readable yet.  With
\* no placeholder the transfer is the original one, all chunks at once.
Read(r) ==
    LET n == hits[r]
        gaps == {p \in 1 .. n : ~Readable(Wants[r][p])}
    IN
    /\ at[r] = "found"
    /\ pending' = [pending EXCEPT ![r] = gaps]
    /\ IF gaps = {}
       THEN /\ gpu' = [gpu EXCEPT ![r] = [p \in 1 .. n |-> Content(r, Wants[r][p])]]
            /\ at' = [at EXCEPT ![r] = "done"]
       ELSE /\ gpu' = [gpu EXCEPT ![r] = [p \in 1 .. n |-> Nothing]]
            /\ at' = [at EXCEPT ![r] = "resolve"]
    /\ UNCHANGED <<l1Vars, early, loadVars, drain, sent, quit>>

Part(r) == Slice(sent[r] + 1, hits[r])

\* Every pending key of the sub-batch is readable.
Arrived(r) == \A p \in Part(r) \cap pending[r] : Readable(Wants[r][p])

\* _resolve returns.
Resolve(r) ==
    /\ at[r] = "resolve"
    /\ Arrived(r)
    /\ at' = [at EXCEPT ![r] = "copy"]
    /\ UNCHANGED <<l1Vars, early, loadVars, drain, pending, sent, gpu, quit>>

\* Fault: the blocks of a sub-batch are not scaled by its size.
FirstBlock_Unscaled(r) == sent[r] + 1

\* b[i * c : (i + len(part)) * c] begins at the first chunk of the part.
FirstBlock(r) == sent[r] * Sub + 1

\* orig_transfer on one sub-batch: the chunks of the part, in order.
Copy(r) ==
    LET n == Cardinality(Part(r))
        first == FirstBlock(r)
        chunk(b) == Wants[r][sent[r] * Sub + 1 + b - first]
    IN
    /\ at[r] = "copy"
    /\ gpu' = [gpu EXCEPT ![r] = [b \in DOMAIN @ |->
                 IF b \in first .. first + n - 1 THEN Content(r, chunk(b)) ELSE @[b]]]
    /\ sent' = [sent EXCEPT ![r] = @ + 1]
    /\ at' = [at EXCEPT ![r] = IF Slice(sent[r] + 2, hits[r]) # {} THEN "resolve" ELSE "done"]
    /\ UNCHANGED <<l1Vars, early, loadVars, drain, pending, quit>>

\* The retrieve raises: a key has not landed in 60 s; or vLLM drops a request
\* it was told is found.
Fails(r) ==
    /\ \/ at[r] = "resolve" /\ ~Arrived(r)
       \/ at[r] = "found"
    /\ at' = [at EXCEPT ![r] = "failed"]
    /\ UNCHANGED <<l1Vars, early, loadVars, drain, pending, sent, gpu, quit>>

\* The caller gives the keys of the request back.
Release(r) ==
    /\ at[r] \in {"done", "failed"}
    /\ at' = [at EXCEPT ![r] = "released"]
    /\ holds' = [holds EXCEPT ![r] = {}]
    /\ quit' = (quit \/ phase[r] \notin {"done", "popped"})
    /\ pending' = [pending EXCEPT ![r] = {}]
    /\ sent' = [sent EXCEPT ![r] = 0]
    /\ gpu' = [gpu EXCEPT ![r] = <<>>]
    /\ UNCHANGED <<l1, landed, early, loadVars, drain>>
-----------------------------------------------------------------------------
Controller(r) ==
    \/ LookedUp(r) \/ submit_load_task(r) \/ Finish(r)
    \/ \E i \in Slices(Len(batch[r])) : query_load_result(r, i)

Retrieve(r) == Read(r) \/ Resolve(r) \/ Copy(r) \/ Release(r)

Next ==
    \/ \E r \in Requests :
         \/ Prefetch(r) \/ Controller(r) \/ Janitor(r)
         \/ \E i \in Slices(Len(batch[r])) : LoadEnds(r, i)
         \/ Query(r) \/ Retrieve(r) \/ Fails(r)
    \/ \E k \in Keys : Evict(k)

\* The controller, the janitor and the retrieve run; an inner load ends.
Fairness ==
    \A r \in Requests :
      /\ WF_vars(Controller(r))
      /\ WF_vars(Janitor(r))
      /\ WF_vars(\E i \in Slices(Len(batch[r])) : LoadEnds(r, i))
      /\ WF_vars(Retrieve(r) \/ Fails(r))

Spec == Init /\ [][Next]_vars /\ Fairness
-----------------------------------------------------------------------------
(* Properties.                                                             *)

\* A key that can be read holds the object it names (query_load_result makes
\* readable only what landed, and _patched_fwrr finishes nothing twice), as long
\* as no retrieve gives its keys back before its own load is over.  When one
\* does, the mark of the key may be spent by a second load of it, and the late
\* finish of the first makes a third load readable before it has landed.
ReadableIsLoaded == ~quit => \A k \in Keys : Readable(k) => k \in landed

\* A retrieve that succeeds has copied to the blocks of every chunk the object of
\* that chunk (_transfer slices blocks and chunks alike and waits for every
\* placeholder), for every chunk whose key it had reserved when it copied it.
RetrieveExact ==
    ~quit => \A r \in Requests : at[r] = "done" =>
      \A p \in DOMAIN gpu[r] : gpu[r][p] \in {Wants[r][p], Unheld}

\* A mark outlives neither the load that set it nor the finish that is to skip
\* it: with no load under way _early is empty (_patched_fwrr discards each mark
\* once), so it cannot make a later finish skip a key nobody has published.
MarksSpent ==
    (\A r \in Requests : phase[r] # "loading") => early = {}

\* The real result of every request that was reported is popped in the end,
\* whatever became of its loads and of its retrieve ("drained by a janitor
\* thread to avoid leaks").
ResultsPopped == \A r \in Requests : at[r] # "idle" ~> phase[r] = "popped"
=============================================================================
