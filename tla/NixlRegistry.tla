--------------------------- MODULE NixlRegistry ---------------------------
(***************************************************************************)
(* Registrations of the NIXL plugin and the grouping of a transfer.  A     *)
(* registration opens a DAOS object; the pool and container handles under  *)
(* it are shared by every registration of the same "pool/container",       *)
(* counted in conts_, and closed with the last one.  prepXfer turns a list *)
(* of descriptors, each a registration and an offset, into the groups that *)
(* become one RPC each.  registerMem and deregisterMem hold the engine's   *)
(* mutex, so each is one step, with the failures of its DAOS calls.        *)
(***************************************************************************)
EXTENDS Integers, Sequences, FiniteSets

CONSTANTS
    Regs,           \* slots for registrations (nixlDaosObjMD)
    Conts,          \* "pool/container" names
    DevIds,         \* devIds callers use
    Oids,           \* object ids of the three-field metaInfo
    Addrs,          \* offsets descriptors use
    Span,           \* dkeySpan_
    MaxList         \* descriptors in a transfer

ASSUME SpanAssumption == Span \in Nat \ {0} /\ MaxList \in Nat
ASSUME AddrsAssumption == Addrs \subseteq Nat

VARIABLES
    md,         \* md[m]: registration m, or NoReg
    conts,      \* conts[c]: entry of conts_ (refs = 0: none) and the handles held
    up          \* the engine exists

regVars == <<md, conts, up>>

NoReg == [cont |-> "none"]
NoOid == "devId"
Closed == [refs |-> 0, poh |-> 0, coh |-> 0]
Live == {m \in Regs : md[m] # NoReg}
Objects == {<<"devId", d>> : d \in DevIds} \cup {<<"oid", o>> : o \in Oids}
Registration == [cont : Conts, oid : Objects, dev : DevIds]

RegTypeOK ==
    /\ md \in [Regs -> Registration \cup {NoReg}]
    /\ conts \in [Conts -> [refs : 0 .. Cardinality(Regs), poh : {0, 1}, coh : {0, 1}]]
    /\ up \in BOOLEAN

RegInit ==
    /\ md = [m \in Regs |-> NoReg]
    /\ conts = [c \in Conts |-> Closed]
    /\ up = TRUE
-----------------------------------------------------------------------------
(* The containers.                                                         *)

\* daos_pool_connect and daos_cont_open, or one more reference to the entry.
getCont(e) ==
    IF e.refs > 0 THEN [e EXCEPT !.refs = @ + 1]
                  ELSE [refs |-> 1, poh |-> e.poh + 1, coh |-> e.coh + 1]

\* Fault: the handles go with the first registration.
putCont_First(e) == [refs |-> e.refs - 1, poh |-> e.poh - 1, coh |-> e.coh - 1]

\* The last reference closes the container and disconnects the pool.
putCont(e) ==
    IF e.refs > 1 THEN [e EXCEPT !.refs = @ - 1]
                  ELSE [refs |-> 0, poh |-> e.poh - 1, coh |-> e.coh - 1]

\* The entry after a DAOS call of registerMem failed and was undone.
Undone(e, at) ==
    CASE at = "connect" -> e
      [] at = "open" -> [[e EXCEPT !.poh = @ + 1] EXCEPT !.poh = @ - 1]
      [] at = "object" -> putCont(getCont(e))

RegisterFails(c, at) ==
    /\ up
    /\ at \in {"connect", "open"} => conts[c].refs = 0
    /\ conts' = [conts EXCEPT ![c] = Undone(@, at)]
    /\ UNCHANGED <<md, up>>

\* The object id of parseTarget, or the one derived from devId.
oid_of(d, o) == IF o = NoOid THEN <<"devId", d>> ELSE <<"oid", o>>

registerMem(m, c, d, o) ==
    LET new == [cont |-> c, oid |-> oid_of(d, o), dev |-> d] IN
    /\ up
    /\ md[m] = NoReg
    /\ conts' = [conts EXCEPT ![c] = getCont(@)]
    /\ md' = [md EXCEPT ![m] = new]
    /\ UNCHANGED up

\* The object is closed; whether or not that worked, the registration goes.
deregisterMem(m) ==
    /\ up
    /\ m \in Live
    /\ conts' = [conts EXCEPT ![md[m].cont] = putCont(@)]
    /\ md' = [md EXCEPT ![m] = NoReg]
    /\ UNCHANGED up

\* An entry is closed whatever its count.
Swept(e) == IF e.refs > 0 THEN [refs |-> 0, poh |-> e.poh - 1, coh |-> e.coh - 1] ELSE e

\* ~nixlDaosEngine, after the workers are gone; registrations left are lost.
Destroy ==
    /\ up
    /\ up' = FALSE
    /\ conts' = [c \in Conts |-> Swept(conts[c])]
    /\ md' = [m \in Regs |-> NoReg]

\* Another engine in a process that may still hold what the first one leaked.
Construct ==
    /\ ~up
    /\ up' = TRUE
    /\ UNCHANGED <<md, conts>>
-----------------------------------------------------------------------------
(* prepXfer.  A descriptor pairs a registration and an offset with a local *)
(* buffer; fits says that the lengths of the two agree.                    *)

Descriptor == [md : Regs, addr : Addrs, fits : BOOLEAN]
Lists == UNION {[1 .. n -> Descriptor] : n \in 0 .. MaxList}

dkey(addr) == addr \div Span
akey(addr) == addr % Span

\* Fault: the bucket forgets which object the offset is in.
Bucket_NoObject(d) == <<NoOid, dkey(d.addr)>>

Bucket(d) == <<md[d.md].dev, dkey(d.addr)>>

\* The early returns: nothing to do, no metadata, lengths that differ.
Valid(list) ==
    /\ list # <<>>
    /\ \A i \in DOMAIN list : list[i].md \in Live /\ list[i].fits

\* A group keeps the handle of the last descriptor of its bucket.
Group(list, b) ==
    LET in == {i \in DOMAIN list : Bucket(list[i]) = b}
        last == CHOOSE i \in in : \A j \in in : j =< i
    IN  [oh |-> list[last].md, dkey |-> b[2], ents |-> {[desc |-> i, akey |-> akey(list[i].addr)] : i \in in}]

prepXfer(list) ==
    IF Valid(list) THEN {Group(list, Bucket(list[i])) : i \in DOMAIN list} ELSE {}
-----------------------------------------------------------------------------
RegNext ==
    \/ \E m \in Regs, c \in Conts, d \in DevIds, o \in Oids \cup {NoOid} : registerMem(m, c, d, o)
    \/ \E c \in Conts, at \in {"connect", "open", "object"} : RegisterFails(c, at)
    \/ \E m \in Regs : deregisterMem(m)
    \/ Destroy
    \/ Construct

RegSpec == RegInit /\ [][RegNext]_regVars
-----------------------------------------------------------------------------
(* Properties.                                                             *)

\* Over any sequence of registrations, failures, deregistrations and engines,
\* a container's count is the number of its live registrations, and its pool
\* and container handles are open exactly while there is one: never closed
\* "under a live object handle", never leaked (getCont, putCont and the error
\* paths of registerMem).
RefsExact ==
    \A c \in Conts :
        LET n == Cardinality({m \in Live : md[m].cont = c})
            open == IF n > 0 THEN 1 ELSE 0
        IN  conts[c] = [refs |-> n, poh |-> open, coh |-> open]

\* A devId may be registered for two objects, by two metaInfo strings; this
\* list does not use two such registrations.
OneObjectPerDev(list) ==
    \A i, j \in DOMAIN list :
        LET a == md[list[i].md]
            b == md[list[j].md]
        IN  a.dev = b.dev => a.cont = b.cont /\ a.oid = b.oid

\* prepXfer moves every descriptor of an accepted list exactly once, to the
\* object it was registered for, under a dkey and an akey that give its offset
\* back ("One group of descriptors that share an object and a dkey"), as long
\* as the list has one object per devId: buckets are keyed by devId, so two
\* objects under one devId would be written through one handle.
RightObject ==
    \A list \in Lists : Valid(list) /\ OneObjectPerDev(list) =>
        \A i \in DOMAIN list :
            LET at == {p \in prepXfer(list) \X UNION {g.ents : g \in prepXfer(list)} :
                          p[2] \in p[1].ents /\ p[2].desc = i}
            IN  /\ Cardinality(at) = 1
                /\ \A p \in at :
                      /\ p[1].dkey * Span + p[2].akey = list[i].addr
                      /\ md[p[1].oh].cont = md[list[i].md].cont
                      /\ md[p[1].oh].oid = md[list[i].md].oid
=============================================================================
