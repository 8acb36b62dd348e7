------------------------------ MODULE Startup ------------------------------
(***************************************************************************)
(* The system starts, or comes back after an outage: the daemons migrate   *)
(* or wait, module SchemaOwner, while the plugin connects, loses its       *)
(* connections and asks again, module DatabaseLink.  What they share is    *)
(* the row of the recorded version.                                        *)
(***************************************************************************)
EXTENDS SchemaOwner, DatabaseLink

ASSUME StartupAssumption == PluginVersion \in 1 .. SchemaVersion

vars == <<recorded, done, holder, stage, at, link, calls, stale, queries>>

Init == SchemaInit /\ LinkInit

Next ==
    \/ SchemaNext /\ UNCHANGED linkVars
    \/ LinkNext(recorded) /\ UNCHANGED schemaVars

Spec == Init /\ [][Next]_vars

(* Fairness.  Processes and timers run, a daemon that ended is started     *)
(* again, callbacks are delivered, the server ends sessions without a      *)
(* client; the lock, the connections and the statements may fail for any   *)
(* time, but not for ever.                                                 *)
Failure == SchemaFailure \/ LinkFailure(recorded)

FairSpec ==
    /\ Spec
    /\ SchemaFairness
    /\ \A h \in Handles : WF_vars(Connected(h) /\ UNCHANGED schemaVars)
    /\ WF_vars(VersionIsThere(recorded) /\ UNCHANGED schemaVars)
    /\ WF_vars(AskAgain /\ UNCHANGED schemaVars)
    /\ WF_vars(SchemaReadyTimer /\ UNCHANGED schemaVars)
    /\ WF_vars(ReconnectTimer /\ UNCHANGED schemaVars)
    /\ <>[][~Failure]_vars

----------------------------------------------------------------------------
(* Properties                                                              *)

\* The plugin opens its queues only onto the schema it was written for, at
\* whatever statement the daemons died and whichever of its connects, checks
\* and timers came late: every migration up to its version is complete.
ReadyIsMigrated ==
    /\ RecordedIsComplete
    /\ link.ready =>
         \A v \in 1 .. PluginVersion : done[v] = Statements[v]

\* However connects, checks, time-outs, lost connections and late callbacks of
\* older attempts interleave, a link that is not ready has a timer that starts
\* over; missing handles are on their way, and with both there the check is
\* under way or about to be repeated; a link given up keeps nothing open.
NeverStuck ==
    /\ link.ready \/ link.reconnect \/ link.patience
    /\ link.reconnect => link = [Closed EXCEPT !.reconnect = TRUE]
    /\ link.patience =>
         /\ Handles \ link.open = calls \cap Handles
         /\ link.open = Handles => "version" \in calls \/ link.retry
    /\ link.ready => link.open = Handles /\ ~link.patience /\ ~link.retry

\* Once failures stop, the system comes up and stays up: every daemon gets past
\* the schema and the plugin gets its database, though they start in any order,
\* wait for each other with deadlines, and may all have to begin again.
UpInTheEnd ==
    <>[](link.ready /\ \A d \in Daemons : stage[d] = "serving")
============================================================================
