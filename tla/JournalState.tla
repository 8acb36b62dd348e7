---------------------------- MODULE JournalState ----------------------------
(***************************************************************************)
(* What the lines of the journal mean to the one who reads them back: the  *)
(* pending events in physical order and the window of completed ids.  The  *)
(* window is kept twice by the daemon, by read_state on disk and by Dedupe *)
(* in memory, with the same rule.                                          *)
(***************************************************************************)
EXTENDS Integers, Sequences, SequencesExt

CONSTANT DedupeEvents   \* dedupe_events: capacity of the window

ASSUME JournalStateAssumption == DedupeEvents \in Nat

\* Dedupe::remember and the window of read_state: first in, first out, a known
\* id keeps its place, capacity zero remembers nothing.
RememberId(window, i) ==
    IF DedupeEvents = 0 \/ i \in ToSet(window) THEN window
    ELSE LET longer == Append(window, i)
         IN IF Len(longer) > DedupeEvents THEN Tail(longer) ELSE longer

\* A pending line: ignored for an id in the window or already pending.
PutPending(d, i) ==
    IF i \in ToSet(d.done) \cup ToSet(d.pend) THEN d
    ELSE [d EXCEPT !.pend = Append(@, i)]

\* The map of pending events without event i; an id is in it at most once.
Without(pend, i) ==
    IF i \in ToSet(pend)
    THEN RemoveAt(pend, CHOOSE k \in DOMAIN pend : pend[k] = i)
    ELSE pend

\* A completion line.
PutDone(d, i) ==
    [d EXCEPT !.pend = Without(@, i), !.done = RememberId(@, i)]
=============================================================================
