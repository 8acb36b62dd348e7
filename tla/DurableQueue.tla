---------------------------- MODULE DurableQueue ----------------------------
(***************************************************************************)
(* What the SQL sink promises, without threads, locks, files or crashes: a *)
(* durable queue per lane whose events are applied to the database at      *)
(* least once and in the order they were taken over, and discharged only   *)
(* when they have been applied and their completion is on record.  A crash *)
(* is invisible at this level: the sink that restarts owes exactly what it *)
(* owed before.                                                            *)
(***************************************************************************)
EXTENDS Integers, Sequences, SequencesExt, Selection

CONSTANTS
    Ids,        \* events
    Lanes,      \* lanes, each applied in its own order
    LaneOf,     \* the lane of an event
    MaxAccept   \* bound on the events of one batch

VARIABLES
    owed,       \* per lane: the events taken over and not yet discharged
    applied,    \* events whose SQL has committed at least once
    retired     \* events whose completion has been recorded durably

dqVars == <<owed, applied, retired>>

OfLane == [l \in Lanes |-> {i \in Ids : LaneOf[i] = l}]
OfLaneSeq(s, l) == Among(s, OfLane[l])

Init ==
    /\ owed = [l \in Lanes |-> <<>>]
    /\ applied = {}
    /\ retired = {}

\* A batch is taken over: every lane appends its share in the batch's order.
Accept(s) ==
    /\ UNCHANGED <<applied, retired>>
    /\ \A i \in ToSet(s) : i \notin ToSet(owed[LaneOf[i]])
    /\ owed' = [l \in Lanes |-> owed[l] \o OfLaneSeq(s, l)]

\* The SQL of an event commits, never before the SQL of the events taken over
\* earlier in its lane.
Apply(l, k) ==
    /\ k \in DOMAIN owed[l]
    /\ \A m \in 1 .. k - 1 : owed[l][m] \in applied
    /\ applied' = applied \cup {owed[l][k]}
    /\ UNCHANGED <<owed, retired>>

\* Completion is recorded for a run of applied events at the head of a lane,
\* and for events that were taken over again although already applied.
Discharge(l, n, again) ==
    LET S == ToSet(SubSeq(owed[l], 1, n)) \cup again
    IN /\ n \in 0 .. Len(owed[l])
       /\ S \subseteq applied
       /\ owed' = [owed EXCEPT ![l] = SubSeq(@, n + 1, Len(@))]
       /\ retired' = retired \cup S
       /\ UNCHANGED applied

Next ==
    \/ \E s \in BoundedSeq(Ids, MaxAccept) : Accept(s)
    \/ \E l \in Lanes : \E k \in DOMAIN owed[l] : Apply(l, k)
    \/ \E l \in Lanes, again \in SUBSET applied :
          \E n \in 0 .. Len(owed[l]) : Discharge(l, n, again)

Spec == Init /\ [][Next]_dqVars
=============================================================================
