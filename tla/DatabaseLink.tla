---------------------------- MODULE DatabaseLink ----------------------------
(***************************************************************************)
(* The plugin's connection to the database: two handles opened by two      *)
(* asynchronous connects, a check of the schema version that is repeated   *)
(* until the daemons have migrated, three timers, and the generation that  *)
(* makes callbacks of an attempt given up void.  Callbacks of the game     *)
(* server never run concurrently, so every callback and timer is a step.   *)
(***************************************************************************)
EXTENDS Integers

CONSTANTS
    PluginVersion,  \* WHALETRACKER_SCHEMA_VERSION of the plugin
    MaxQueries      \* bound: queries of players in flight

ASSUME LinkAssumption ==
    /\ PluginVersion \in Nat
    /\ MaxQueries \in Nat

VARIABLES
    link,       \* the globals g_hDatabase ... g_iDatabaseConnectGeneration
    calls,      \* callbacks outstanding, of the attempt in progress
    stale,      \* callbacks outstanding, of attempts given up
    queries     \* loads and saves in flight: their callbacks know no generation

linkVars == <<link, calls, stale, queries>>

\* The two handles.  The flag g_b...Connected follows the handle in every step.
Handles == {"async", "sync"}

Kinds == Handles \cup {"version"}

Closed ==
    [open        |-> {},        \* the handles, not null and connected
     ready       |-> FALSE,     \* g_bDatabaseReady
     schemaReady |-> FALSE,     \* g_bSchemaReady
     checking    |-> FALSE,     \* g_bSchemaCheckInFlight
     connecting  |-> FALSE,     \* g_bDatabaseConnectInFlight
     reconnect   |-> FALSE,     \* g_hReconnectTimer
     retry       |-> FALSE,     \* g_hSchemaRetryTimer
     patience    |-> FALSE]     \* g_hDatabaseConnectTimeoutTimer

\* A new generation: what is outstanding belongs to an old one now.
GiveUpCalls == stale' = stale \cup calls

----------------------------------------------------------------------------
\* WhaleTracker_SQLConnect.
SQLConnect ==
    /\ link' = [Closed EXCEPT !.connecting = TRUE, !.patience = TRUE]
    /\ calls' = Handles
    /\ GiveUpCalls

\* OnPluginStart; what an earlier load left outstanding is not delivered.
LinkInit ==
    /\ link = [Closed EXCEPT !.connecting = TRUE, !.patience = TRUE]
    /\ calls = Handles
    /\ stale = {}
    /\ queries = 0

\* Defect variant of ScheduleReconnect: no timer, the next failure will do.
DropOnly ==
    /\ link' = Closed
    /\ calls' = {}
    /\ GiveUpCalls

\* WhaleTracker_ScheduleReconnect: everything is closed, unless that is done.
ScheduleReconnect ==
    IF link.reconnect
    THEN UNCHANGED <<link, calls, stale>>
    ELSE /\ link' = [Closed EXCEPT !.reconnect = TRUE]
         /\ calls' = {}
         /\ GiveUpCalls

\* WhaleTracker_RequestSchemaReadyCheck, from state now with these outstanding.
RequestCheck(now, outstanding) ==
    IF ~now.ready /\ ~now.schemaReady /\ ~now.checking /\ now.open = Handles
    THEN /\ link' = [now EXCEPT !.checking = TRUE]
         /\ calls' = outstanding \cup {"version"}
    ELSE link' = now /\ calls' = outstanding

----------------------------------------------------------------------------
(* Callbacks of the attempt in progress                                    *)

\* T_SQLConnect and T_SQLSyncConnect.
Connected(h) ==
    /\ h \in calls
    /\ RequestCheck([link EXCEPT !.open = @ \cup {h}], calls \ {h})
    /\ UNCHANGED <<stale, queries>>

ConnectFails(h) ==
    /\ h \in calls
    /\ ScheduleReconnect
    /\ UNCHANGED queries

\* WhaleTracker_SchemaVersionCallback finds the schema it needs, and
\* WhaleTracker_MaybeMarkDatabaseReady follows.
VersionIsThere(version) ==
    /\ "version" \in calls
    /\ version >= PluginVersion
    /\ calls' = calls \ {"version"}
    /\ link' = IF link.open = Handles
               THEN [link EXCEPT !.checking = FALSE, !.schemaReady = TRUE,
                                 !.ready = TRUE, !.connecting = FALSE,
                                 !.patience = FALSE]
               ELSE [link EXCEPT !.checking = FALSE, !.schemaReady = TRUE]
    /\ UNCHANGED <<stale, queries>>

\* The version is too low or the query was refused: ask again in a while.
AskAgain ==
    /\ "version" \in calls
    /\ calls' = calls \ {"version"}
    /\ link' = [link EXCEPT !.checking = FALSE, !.retry = TRUE]
    /\ UNCHANGED <<stale, queries>>

\* The connection was lost under the query.
CheckLost ==
    /\ "version" \in calls
    /\ ScheduleReconnect
    /\ UNCHANGED queries

----------------------------------------------------------------------------
(* Callbacks of attempts given up, and timers                              *)

\* Defect variant of Ignored: the generation is not compared.
IgnoredNot(k) ==
    /\ k \in stale
    /\ stale' = stale \ {k}
    /\ IF k = "version" THEN UNCHANGED <<link, calls>>
       ELSE RequestCheck([link EXCEPT !.open = @ \cup {k}], calls)
    /\ UNCHANGED queries

\* A callback of an old generation closes the handle it brings.
Ignored(k) ==
    /\ k \in stale
    /\ stale' \in {stale, stale \ {k}}      \* attempts may have left several
    /\ UNCHANGED <<link, calls, queries>>

\* WhaleTracker_SchemaReadyTimer.
SchemaReadyTimer ==
    /\ link.retry
    /\ RequestCheck([link EXCEPT !.retry = FALSE], calls)
    /\ UNCHANGED <<stale, queries>>

\* WhaleTracker_DatabaseConnectTimeoutTimer.
ConnectTimeoutTimer ==
    /\ link.patience
    /\ ScheduleReconnect
    /\ UNCHANGED queries

\* WhaleTracker_ReconnectTimer.
ReconnectTimer ==
    /\ link.reconnect
    /\ SQLConnect
    /\ UNCHANGED queries

----------------------------------------------------------------------------
(* The users of the link                                                   *)

\* A load or a save goes out.
Query ==
    /\ link.ready
    /\ queries < MaxQueries
    /\ queries' = queries + 1
    /\ UNCHANGED <<link, calls, stale>>

\* Its answer comes, in this attempt or in a later one.
Answered ==
    /\ queries > 0
    /\ queries' = queries - 1
    /\ UNCHANGED <<link, calls, stale>>

\* It reports a lost connection, whichever connection that was.
ConnectionLost ==
    /\ queries > 0
    /\ queries' = queries - 1
    /\ ScheduleReconnect

\* OnMapStart asks WhaleTracker_IsDatabaseHealthy and the answer is no, or a
\* synchronous save finds no handle or loses its connection.
Unhealthy ==
    /\ ScheduleReconnect
    /\ UNCHANGED queries

----------------------------------------------------------------------------
\* Failures, a check refused or an attempt timed out though the schema is there
\* included.
LinkFailure(version) ==
    \/ \E h \in Handles : ConnectFails(h)
    \/ CheckLost
    \/ ConnectionLost
    \/ Unhealthy
    \/ version >= PluginVersion /\ (AskAgain \/ ConnectTimeoutTimer)

\* The version the check reads is the one the database has.
LinkNext(version) ==
    \/ \E h \in Handles : Connected(h) \/ ConnectFails(h)
    \/ VersionIsThere(version)
    \/ AskAgain
    \/ CheckLost
    \/ \E k \in Kinds : Ignored(k)
    \/ SchemaReadyTimer
    \/ ConnectTimeoutTimer
    \/ ReconnectTimer
    \/ Query
    \/ Answered
    \/ ConnectionLost
    \/ Unhealthy
=============================================================================
