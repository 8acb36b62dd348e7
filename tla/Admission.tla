----------------------------- MODULE Admission -----------------------------
(***************************************************************************)
(* The admission table of the Rust daemon: it bounds the work held in all  *)
(* queues together (rows and bytes) and owns the set of event ids that are *)
(* somewhere between admission and retirement.  reserve() is all or        *)
(* nothing under one mutex; every permit it hands out gives its share back *)
(* exactly once, when the job that owns it is dropped.                     *)
(*                                                                         *)
(* The variable  permits  stands for the Permit values that exist in the   *)
(* process.  Rust's ownership moves them around, this module only says     *)
(* when they appear and when they are dropped.                             *)
(***************************************************************************)
EXTENDS Integers, Sequences, FiniteSets, FiniteSetsExt, SequencesExt

CONSTANTS
    Ids,        \* event ids
    Lanes,      \* writer lanes (Online, Stats and Logs in the code)
    Sizes,      \* the admission sizes (write_size) a request may carry
    RowLimit,   \* max_queue_rows
    ByteLimit,  \* max_queue_bytes
    MaxSpecs    \* bound on the events of one request (max_events)

ASSUME AdmissionAssumption ==
    /\ RowLimit \in Nat
    /\ ByteLimit \in Nat
    /\ Sizes \subseteq Nat
    /\ MaxSpecs \in Nat

VARIABLES
    active,     \* State.active: the ids owned by some permit
    usage,      \* State.usage: rows, bytes and rows per lane
    permits     \* the Permit values that have not been dropped

vars == <<active, usage, permits>>

\* What a request asks for, and what a permit remembers of it.
Permit == [id : Ids, bytes : Sizes, lane : Lanes]

NoUsage == [rows |-> 0, bytes |-> 0, lanes |-> [l \in Lanes |-> 0]]

----------------------------------------------------------------------------
(* Helpers on requests: a request is a sequence of Permit records.         *)

\* usize::saturating_sub
Room(limit, used) == IF used < limit THEN limit - used ELSE 0

BatchBytes(specs) ==
    LET sum[n \in 0 .. Len(specs)] ==
            IF n = 0 THEN 0 ELSE sum[n - 1] + specs[n].bytes
    IN  sum[Len(specs)]

OfLane(S, l) == {p \in S : p.lane = l}

IdsOf(S) == {p.id : p \in S}

DistinctIds(specs) ==
    \A i, j \in DOMAIN specs : specs[i].id = specs[j].id => i = j

\* Defect variant of Admits: ids that are still pending are let in.
AdmitsPending(specs) ==
    /\ Len(specs) <= Room(RowLimit, usage.rows)
    /\ BatchBytes(specs) <= Room(ByteLimit, usage.bytes)
    /\ DistinctIds(specs)

\* The three refusals of reserve(), in its order: "queue full", "duplicate
\* event_id in batch" and "event still pending; retry later ...".
Admits(specs) ==
    /\ Len(specs) <= Room(RowLimit, usage.rows)
    /\ BatchBytes(specs) <= Room(ByteLimit, usage.bytes)
    /\ DistinctIds(specs)
    /\ IdsOf(ToSet(specs)) \cap active = {}

Charge(u, specs) ==
    [rows  |-> u.rows + Len(specs),
     bytes |-> u.bytes + BatchBytes(specs),
     lanes |-> [l \in Lanes |->
                  u.lanes[l] + Cardinality(OfLane(ToSet(specs), l))]]

Refund(u, p) ==
    [rows  |-> u.rows - 1,
     bytes |-> u.bytes - p.bytes,
     lanes |-> [u.lanes EXCEPT ![p.lane] = @ - 1]]

----------------------------------------------------------------------------
Init ==
    /\ active = {}
    /\ usage = NoUsage
    /\ permits = {}

\* Admission::reserve that succeeds; one that fails changes nothing.
Reserve(specs) ==
    /\ Admits(specs)
    /\ active' = active \cup IdsOf(ToSet(specs))
    /\ usage' = Charge(usage, specs)
    /\ permits' = permits \cup ToSet(specs)

\* Defect variant of Retire: the counters go down, the id stays.
RetireKeepsId(p) ==
    /\ p \in permits
    /\ usage' = Refund(usage, p)
    /\ permits' = permits \ {p}
    /\ UNCHANGED active

\* Permit::drop.  The assertion "permit retired twice" is the conjunct
\* p.id \in active of the invariant ActiveExact.
Retire(p) ==
    /\ p \in permits
    /\ active' = active \ {p.id}
    /\ usage' = Refund(usage, p)
    /\ permits' = permits \ {p}

\* The process dies and a new one starts with Admission::new: no permit
\* survives the address space it lived in.
Restart ==
    /\ active' = {}
    /\ usage' = NoUsage
    /\ permits' = {}

Next ==
    \/ \E specs \in BoundedSeq(Permit, MaxSpecs) : Reserve(specs)
    \/ \E p \in permits : Retire(p)
    \/ Restart

Spec == Init /\ [][Next]_vars

----------------------------------------------------------------------------
(* Properties                                                              *)

TypeOK ==
    /\ active \subseteq Ids
    /\ permits \subseteq Permit
    /\ usage.rows \in Nat
    /\ usage.lanes \in [Lanes -> Nat]

\* An id is owned by at most one permit and the active set is exactly the set
\* of owned ids: the drop of a permit always finds its id (the assertion in
\* Permit::drop never fires), and no id stays blocked after its last permit
\* went away.
ActiveExact ==
    /\ \A p, q \in permits : p.id = q.id => p = q
    /\ active = IdsOf(permits)

\* The row counters are exactly the outstanding permits, in total and lane by
\* lane: no "-= 1" in Permit::drop underflows, an idle daemon reports zero.
RowsExact ==
    /\ usage.rows = Cardinality(permits)
    /\ \A l \in Lanes : usage.lanes[l] = Cardinality(OfLane(permits, l))

\* The byte counter is exactly the weight of the outstanding permits.
BytesExact == usage.bytes = BatchBytes(SetToSeq(permits))

\* Whatever is queued, executing or waiting for its completion marker together
\* never holds more rows or bytes than configured.
WithinLimits ==
    /\ usage.rows \in 0 .. RowLimit
    /\ usage.bytes \in 0 .. ByteLimit
=============================================================================
