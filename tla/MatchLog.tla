------------------------------ MODULE MatchLog ------------------------------
(***************************************************************************)
(* What the plugin keeps about the players of a match, from their arrival  *)
(* to the rows of the match's log: the slots of the clients with their     *)
(* match records, the loads that fill them, the records of players who     *)
(* left, and the log that is opened, published at round ends and finalised.*)
(*                                                                         *)
(* A record counts hits, told apart by the match they were made in or      *)
(* before, so that a hit that is lost, counted twice or carried into       *)
(* another match shows.  Writes of the log lane take effect in their order, and nothing  *)
(* here reads them before they have, so they are in the table at once;     *)
(* rows of whaletracker_online are also read, so their removal may be      *)
(* late; of their contents only that they are a record of the player made  *)
(* some time ago.                                                          *)
(***************************************************************************)
EXTENDS Integers, FiniteSets, Sequences, FiniteSetsExt

CONSTANTS
    MaxClients,     \* slots of the server
    Players,
    NoPlayer,
    Suspects,       \* players whose rates may be found implausible
    LateIdentity,   \* a client may enter the game before it is validated
    MaxMatches,     \* bound on matches begun
    MaxHits,        \* bound on hits
    MaxEvents       \* bound on connections of clients, lost connections, failed
                    \* loads, reloads of the plugin, and online rows found

ASSUME MatchLogAssumption ==
    /\ MaxClients \in Nat \ {0}
    /\ NoPlayer \notin Players
    /\ Suspects \subseteq Players
    /\ LateIdentity \in BOOLEAN
    /\ {MaxMatches, MaxHits, MaxEvents} \subseteq Nat

Slots == 1 .. MaxClients

\* g_sCurrentLogId is empty.
NoLog == 0

\* When a hit was made: in the match t, or before it began and after the one
\* before it ended, when none was tracked.
Within(t) == 2 * t
Before(t) == 2 * t - 1

Origins == Before(1) .. Before(MaxMatches + 1)

Zero == [o \in Origins |-> 0]

VARIABLES
    playing,    \* the map is running; otherwise it is being changed
    client,     \* g_Stats, g_MapStats and their flags, per slot
    match,      \* g_sCurrentLogId, g_sLastFinalizedLogId,
                \* g_DisconnectedStats, and the tables of the logs
    ready,      \* g_bDatabaseReady
    loads,      \* per slot: queries of the load functions that are not answered
    online,     \* per player: its row of whaletracker_online, and whether its
                \* removal is on its way
    events,     \* how many of the events that MaxEvents bounds have happened
    hits,       \* history: hits made
    restored,   \* history: players whose record came from their online row
    lost        \* history: players who left before their record could be kept

matchVars == <<playing, client, match, ready, loads, online, events, hits, restored,
          lost>>

history == <<hits, restored, lost>>

\* One of the events that MaxEvents bounds.
Count == events < MaxEvents /\ events' = events + 1

----------------------------------------------------------------------------
(* Slots                                                                   *)

\* A slot without a client; id is what the last one left there.
Vacant(id) ==
    [player |-> NoPlayer, inGame |-> FALSE, authorized |-> FALSE, id |-> id,
     lifePending |-> FALSE, lifeLoaded |-> FALSE,
     mapPending |-> FALSE, mapLoaded |-> FALSE, live |-> Zero]

ValidClient(c) == c.player # NoPlayer

\* Defect variant of ResetAll: the flags of pending loads are left.
ResetAllStillPending(c) ==
    [c EXCEPT !.id = NoPlayer, !.lifeLoaded = FALSE, !.mapLoaded = FALSE, !.live = Zero]

\* ResetAllStats
ResetAll(c) ==
    [c EXCEPT !.id = NoPlayer, !.lifePending = FALSE, !.lifeLoaded = FALSE,
              !.mapPending = FALSE, !.mapLoaded = FALSE, !.live = Zero]

\* ResetMapStats
ResetMap(c) == [c EXCEPT !.live = Zero, !.mapLoaded = c.lifeLoaded]

\* EnsureClientSteamId
Ensure(c) == IF c.authorized THEN [c EXCEPT !.id = c.player] ELSE c

EnsureAll(cl) == [s \in Slots |-> Ensure(cl[s])]

\* WhaleTracker_AreClientStatsReady
StatsReady(c) ==
    c.inGame /\ c.lifeLoaded /\ ~c.lifePending /\ ~c.mapPending

\* The load functions send no query for this slot; db: g_bDatabaseReady.
NothingToLoad(c, db) ==
    ~db \/ ~c.inGame \/ (c.lifeLoaded /\ c.mapLoaded) \/ Ensure(c).id = NoPlayer

\* RequestClientStateLoads: the slot afterwards ...
Requested(c, db) ==
    IF ~db \/ ~ValidClient(c) \/ (c.lifeLoaded /\ c.mapLoaded) THEN c
    ELSE IF NothingToLoad(c, db) THEN Ensure(c)
    ELSE [Ensure(c) EXCEPT !.lifePending = @ \/ ~c.lifeLoaded,
                           !.mapPending = @ \/ ~c.mapLoaded]

\* ... and the queries LoadClientStats and LoadClientOnlineSnapshot send.
Queries(c, db) ==
    IF NothingToLoad(c, db) THEN <<>>
    ELSE (IF c.lifePending \/ c.lifeLoaded THEN <<>>
          ELSE <<[of |-> "life", id |-> Ensure(c).id]>>)
         \o (IF c.mapPending \/ c.mapLoaded THEN <<>>
             ELSE <<[of |-> "map", id |-> Ensure(c).id]>>)

----------------------------------------------------------------------------
(* Records of a match                                                      *)

\* Defect variant of AppendSnapshot: the new record replaces the stored one.
AppendReplacing(st, p, record) ==
    [q \in DOMAIN st \cup {p} |-> IF q # p THEN st[q] ELSE record]

\* AppendSnapshotToStorage with MergeSnapshotArrays
AppendSnapshot(st, p, record) ==
    [q \in DOMAIN st \cup {p} |->
        IF q # p THEN st[q]
        ELSE IF p \notin DOMAIN st THEN record
        ELSE [o \in Origins |-> st[p][o] + record[o]]]

\* Defect variant of Without: the record stays in the storage.
WithoutRemoval(st, p) == st

\* RemoveSnapshotForSteamId
Without(st, p) == [q \in DOMAIN st \ {p} |-> st[q]]

\* The stored records and the ones of the slots in S.
Gathered(cl, st, S) ==
    LET upTo[s \in 0 .. MaxClients] ==
          IF s = 0 THEN st
          ELSE IF s \in S /\ cl[s].id # NoPlayer
               THEN AppendSnapshot(upTo[s - 1], cl[s].id, cl[s].live)
               ELSE upTo[s - 1]
    IN upTo[MaxClients]

\* IsValidMatchLogSnapshot finds the records of skip implausible.
Plausible(records, skip) == [p \in DOMAIN records \ skip |-> records[p]]

\* InsertPlayerLogRecord of each record: a later row of a player replaces it.
Upsert(old, new) ==
    [p \in Players |-> IF p \in DOMAIN new THEN new[p] ELSE old[p]]

\* A row without hits also stands for none.
NoRows == [p \in Players |-> Zero]

States == {"absent", "open", "published", "final", "deleted"}

Absent == [state |-> "absent", rows |-> NoRows]

\* DeleteMatchLogRecord, or the deletions of CleanupFinalizedLog
Deleted == [state |-> "deleted", rows |-> NoRows]

\* InsertMatchLogRecord with finalized = 0, which keeps points_snapshot_at.
Opened(state) == IF state = "published" THEN state ELSE "open"

\* Defect variant of Cleared: the id of the finished log is kept.
ClearedButId(m) == [m EXCEPT !.stored = <<>>]

\* ClearCurrentMatchTracking
Cleared(m) == [m EXCEPT !.log = NoLog, !.stored = <<>>]

\* FinalizeCurrentMatch, the records being those of cl.
Finalized(cl, m, skip) ==
    LET all == Gathered(EnsureAll(cl), m.stored, {s \in Slots : ValidClient(cl[s])})
        valid == Plausible(all, skip)
    IN IF m.log = NoLog THEN m
       ELSE IF ~ready \/ DOMAIN valid = {} THEN Cleared(m)
       ELSE IF Cardinality(DOMAIN valid) = 1
            THEN Cleared([m EXCEPT !.last = NoLog, !.table[m.log] = Deleted])
       ELSE Cleared([m EXCEPT !.last = m.log,
                              !.table[m.log] = [state |-> "final",
                                                rows |-> Upsert(@.rows, valid)]])

\* The slots after FinalizeCurrentMatch, which looks up the ids of all clients.
Identified(cl, m) == IF m.log = NoLog THEN cl ELSE EnsureAll(cl)

\* BeginMatchTracking with CleanupFinalizedLog, which deletes a log with little
\* damage in it.
Begun(m, little) ==
    [m EXCEPT !.log = m.begun + 1, !.begun = @ + 1, !.stored = <<>>,
              !.last = IF ready THEN NoLog ELSE @,
              !.table = [t \in DOMAIN @ |->
                            IF t = m.last /\ ready /\ little THEN Deleted ELSE @[t]]]

MayBegin == match.begun < MaxMatches

----------------------------------------------------------------------------
(* whaletracker_online                                                     *)

\* The records QueueClientOnlineSnapshot writes.
Current(cl) ==
    LET shown == {s \in Slots : StatsReady(cl[s]) /\ cl[s].authorized}
    IN [p \in {cl[s].player : s \in shown} |->
           cl[CHOOSE s \in shown : cl[s].player = p].live]

\* The REPLACE of the rows of P; it is executed after a removal under way.
Listed(on, P) == [p \in Players |-> IF p \in P THEN "listed" ELSE on[p]]

\* A DELETE of the rows of P was handed over: RemoveOnlineStats, ClearOnlineStats.
Leaving(on, P) ==
    [p \in Players |-> IF p \in P /\ on[p] = "listed" THEN "leaving" ELSE on[p]]

----------------------------------------------------------------------------
(* Initial state: the plugin was loaded into an empty server.              *)

MatchInit ==
    /\ playing = TRUE
    /\ client = [s \in Slots |-> Vacant(NoPlayer)]
    /\ match = [log |-> NoLog, begun |-> 0, last |-> NoLog, stored |-> <<>>,
                table |-> [t \in 1 .. MaxMatches |-> Absent]]
    /\ ready = FALSE
    /\ loads = [s \in Slots |-> <<>>]
    /\ online = [p \in Players |-> "absent"]
    /\ events = 0
    /\ hits = [p \in Players |-> Zero]
    /\ restored = {}
    /\ lost = {}

----------------------------------------------------------------------------
(* The clients                                                             *)

\* The engine takes the first free slot.
Connect(s, p) ==
    /\ Count
    /\ ~ValidClient(client[s])
    /\ \A t \in 1 .. s - 1 : ValidClient(client[t])
    /\ \A t \in Slots : client[t].player # p
    /\ client' = [client EXCEPT ![s].player = p]
    /\ UNCHANGED <<playing, match, ready, loads, online, history>>

\* OnClientAuthorized: from now on GetClientAuthId succeeds.
Authorize(s) ==
    /\ ValidClient(client[s]) /\ ~client[s].authorized
    /\ client' = [client EXCEPT ![s] = Ensure([@ EXCEPT !.authorized = TRUE])]
    /\ UNCHANGED <<playing, match, ready, loads, online, events, history>>

\* OnClientPutInServer of the client in slot s, the slots being cl: the match it
\* joins, and its slot, before RequestClientStateLoads.
MatchJoined(m, little) == IF m.log = NoLog THEN Begun(m, little) ELSE m

Entered(cl, m, s) ==
    LET c == Ensure(ResetMap([cl[s] EXCEPT !.inGame = TRUE]))
    IN IF c.id \in DOMAIN m.stored
       THEN [c EXCEPT !.live = m.stored[c.id], !.mapLoaded = TRUE]
       ELSE c

PutInServer(s, little) ==
    LET m == MatchJoined(match, little)
        c == Entered(client, m, s)
    IN /\ playing
       /\ ValidClient(client[s]) /\ ~client[s].inGame
       /\ client[s].authorized \/ LateIdentity
       /\ match.log = NoLog => MayBegin
       /\ match' = [m EXCEPT !.stored = Without(@, c.id)]
       /\ client' = [client EXCEPT ![s] = Requested(c, ready)]
       /\ loads' = [loads EXCEPT ![s] = @ \o Queries(c, ready)]
       /\ UNCHANGED <<playing, ready, online, events, history>>

\* OnClientCookiesCached, or a command that finds the records not loaded.
AskLoads(s) ==
    /\ ValidClient(client[s])
    /\ client' = [client EXCEPT ![s] = Requested(client[s], ready)]
    /\ loads' = [loads EXCEPT ![s] = @ \o Queries(client[s], ready)]
    /\ UNCHANGED <<playing, match, ready, online, events, history>>

Now == IF match.log = NoLog THEN Before(match.begun + 1) ELSE Within(match.log)

HitsMade == MapThenSumSet(LAMBDA po : hits[po[1]][po[2]], Players \X Origins)

\* A hit, counted if WhaleTracker_IsTrackingEnabled.
Hit(s) ==
    LET c == client[s]
    IN /\ playing
       /\ StatsReady(c)
       /\ HitsMade < MaxHits
       /\ client' = [client EXCEPT ![s].live[Now] = @ + 1]
       /\ hits' = [hits EXCEPT ![c.player][Now] = @ + 1]
       /\ UNCHANGED <<playing, match, ready, loads, online, events, restored, lost>>

----------------------------------------------------------------------------
(* The loads.  Callbacks look the client up by its user id, so the answer   *)
(* for a client that left for good does nothing: Leave takes its queries    *)
(* away.  A row is read when its answer arrives; reading it before its      *)
(* removal is the same as the removal being late.                           *)

\* The next answer for the client of slot s is one of this kind.
Answer(s, of) ==
    /\ loads[s] # <<>> /\ Head(loads[s]).of = of
    /\ loads' = [loads EXCEPT ![s] = Tail(@)]

\* WhaleTracker_LoadCallback
LifeLoaded(s) ==
    /\ Answer(s, "life")
    /\ client' = [client EXCEPT ![s].lifePending = FALSE, ![s].lifeLoaded = TRUE]
    /\ UNCHANGED <<playing, match, ready, online, events, history>>

\* Records that p may have had.
Former(p) == {r \in [Origins -> 0 .. MaxHits] : \A o \in Origins : r[o] <= hits[p][o]}

\* WhaleTracker_LoadOnlineSnapshotCallback without a row, or with one that is too
\* old or of another map ...
NoneFound(s) ==
    /\ Answer(s, "map")
    /\ client' = [client EXCEPT ![s].mapPending = FALSE, ![s].mapLoaded = TRUE]
    /\ UNCHANGED <<playing, match, ready, online, events, history>>

\* ... and with the row of the player.
RowFound(s) ==
    /\ Count
    /\ Answer(s, "map")
    /\ LET p == Head(loads[s]).id
       IN /\ online[p] # "absent"
          /\ \E record \in Former(p) :
                client' = [client EXCEPT ![s].mapPending = FALSE, ![s].mapLoaded = TRUE,
                                         ![s].live = record]
    /\ restored' = restored \cup {client[s].player}
    /\ UNCHANGED <<playing, match, ready, online, hits, lost>>

\* Either callback with an error, perhaps of a lost connection.
LoadFails(s, connectionLost) ==
    /\ Count
    /\ \/ /\ Answer(s, "life")
          /\ client' = [client EXCEPT ![s].lifePending = FALSE]
       \/ /\ Answer(s, "map")
          /\ client' = [client EXCEPT ![s].mapPending = FALSE, ![s].mapLoaded = TRUE]
    /\ ready' = (ready /\ ~connectionLost)
    /\ UNCHANGED <<playing, match, online, history>>

DatabaseLost ==
    /\ ready
    /\ Count
    /\ ready' = FALSE
    /\ UNCHANGED <<playing, client, match, loads, online, history>>

\* WhaleTracker_SchemaReadyCallback: every client's records are asked for.
DatabaseReady ==
    /\ ~ready
    /\ ready' = TRUE
    /\ client' = [s \in Slots |-> IF client[s].inGame THEN Requested(client[s], TRUE)
                                  ELSE client[s]]
    /\ loads' = [s \in Slots |-> loads[s] \o Queries(client[s], TRUE)]
    /\ UNCHANGED <<playing, match, online, events, history>>

\* The daemon executes the removal of p's row.
RowRemoved(p) ==
    /\ online[p] = "leaving"
    /\ online' = [online EXCEPT ![p] = "absent"]
    /\ UNCHANGED <<playing, client, match, ready, loads, events, history>>

----------------------------------------------------------------------------
(* Leaving                                                                 *)

\* SaveClientMapStats would keep the record of c; played: it has playtime.
Kept(c, played) ==
    StatsReady(c) /\ c.mapLoaded /\ c.id # NoPlayer /\ (c.live # Zero \/ played)

\* The queries without those whose user id belongs to nobody any more.
Unanswered(s) == [loads EXCEPT ![s] = <<>>]

\* OnClientDisconnect.  When the map changes the clients are disconnected too,
\* but their connections, and Steam's word, stay.
Leave(s, played, skip) ==
    LET c == Ensure(client[s])
        kept == Kept(c, played)
        m == IF kept THEN [match EXCEPT !.stored = AppendSnapshot(@, c.id, c.live)] ELSE match
        cl == [client EXCEPT ![s] = ResetAll(c)]
        lastHuman == \A t \in Slots \ {s} : ~ValidClient(client[t])
        after == IF lastHuman THEN Identified(cl, m) ELSE cl
    IN /\ ValidClient(c)
       /\ match' = IF lastHuman THEN Finalized(cl, m, skip) ELSE m
       /\ online' = IF c.authorized THEN Leaving(online, {c.player}) ELSE online
       /\ lost' = IF match.log # NoLog /\ c.live # Zero /\ ~kept
                  THEN lost \cup {c.player} ELSE lost
       /\ \/ /\ client' = [after EXCEPT ![s] = Vacant(@.id)]
             /\ loads' = Unanswered(s)
          \/ /\ ~playing
             /\ client' = [after EXCEPT ![s].inGame = FALSE]
             /\ UNCHANGED loads
       /\ UNCHANGED <<playing, ready, events, hits, restored>>

----------------------------------------------------------------------------
(* The match                                                               *)

\* Timer_UpdateOnlineStats
UpdateOnlineStats(skip) ==
    LET empty == \A s \in Slots : ~ValidClient(client[s])
        m == IF empty THEN Finalized(client, match, skip) ELSE match
        rows == Current(client)
    IN /\ playing
       /\ ready \/ empty
       /\ online' = IF ready THEN Listed(online, DOMAIN rows) ELSE online
       /\ match' = IF ~ready \/ m.log = NoLog THEN m
                   ELSE [m EXCEPT !.table[m.log] = [state |-> Opened(@.state),
                                                    rows |-> Upsert(@.rows, Plausible(rows, skip))]]
       /\ UNCHANGED <<playing, client, ready, loads, events, history>>

\* WhaleTracker_PublishRoundPointsSnapshot, at a win and at a stalemate
PublishRound(skip) ==
    LET cl == [s \in Slots |-> IF client[s].inGame THEN Ensure(client[s]) ELSE client[s]]
        valid == Plausible(Gathered(cl, match.stored, {s \in Slots : cl[s].inGame}), skip)
    IN /\ playing
       /\ ready
       /\ match.log # NoLog
       /\ client' = cl
       /\ match' = [match EXCEPT !.table[match.log] =
                        [state |-> IF Cardinality(DOMAIN valid) < 2 THEN @.state
                                   ELSE "published",
                         rows |-> Upsert(@.rows, valid)]]
       /\ UNCHANGED <<playing, ready, loads, online, events, history>>

\* OnMapEnd
MapEnd(skip) ==
    /\ playing
    /\ playing' = FALSE
    /\ match' = Finalized(client, match, skip)
    /\ client' = EnsureAll(client)
    /\ UNCHANGED <<ready, loads, online, events, history>>

\* OnMapStart, when the engine has disconnected the clients of the old map; bots:
\* more than one is there already.
MapStart(bots, little) ==
    /\ ~playing
    /\ \A s \in Slots : ~client[s].inGame
    /\ MayBegin
    /\ playing' = TRUE
    /\ match' = IF bots THEN Begun(match, little) ELSE match
    /\ client' = [s \in Slots |-> ResetMap(client[s])]
    /\ online' = Leaving(online, Players)
    /\ UNCHANGED <<ready, loads, events, history>>

\* The plugin is unloaded and loaded again: OnPluginEnd, then OnPluginStart with
\* OnClientPutInServer of every client, then OnMapStart.
Reload(bots, skip) ==
    LET begin == bots \/ Cardinality({s \in Slots : client[s].inGame}) > 1
        ended == [Finalized(client, match, skip) EXCEPT !.last = NoLog]
        shown == IF ready THEN DOMAIN Current(client) ELSE {}
    IN /\ playing
       /\ Count
       /\ begin => MayBegin
       /\ match' = IF begin THEN Begun(ended, FALSE) ELSE Cleared(ended)
       /\ client' = [s \in Slots |->
                        IF client[s].inGame THEN Ensure(ResetMap(ResetAll(client[s])))
                        ELSE ResetAll(client[s])]
       /\ online' = Leaving(Listed(online, shown), Players)
       /\ ready' = FALSE
       /\ loads' = [s \in Slots |-> <<>>]
       /\ UNCHANGED <<playing, history>>

----------------------------------------------------------------------------

MatchNext ==
    \/ \E s \in Slots :
          \/ \E p \in Players : Connect(s, p)
          \/ Authorize(s)
          \/ \E little \in BOOLEAN : PutInServer(s, little)
          \/ AskLoads(s)
          \/ Hit(s)
          \/ LifeLoaded(s)
          \/ NoneFound(s)
          \/ RowFound(s)
          \/ \E connectionLost \in BOOLEAN : LoadFails(s, connectionLost)
          \/ \E played \in BOOLEAN, skip \in SUBSET Suspects : Leave(s, played, skip)
    \/ DatabaseLost
    \/ DatabaseReady
    \/ \E p \in Players : RowRemoved(p)
    \/ \E skip \in SUBSET Suspects :
          \/ UpdateOnlineStats(skip)
          \/ PublishRound(skip)
          \/ MapEnd(skip)
          \/ \E bots \in BOOLEAN : Reload(bots, skip)
    \/ \E bots \in BOOLEAN, little \in BOOLEAN : MapStart(bots, little)

MatchSpec == MatchInit /\ [][MatchNext]_matchVars

----------------------------------------------------------------------------
(* Properties                                                              *)

Logged == {t \in 1 .. MaxMatches : match.table[t].state = "final"}

\* A slot that waits for a load has a query under way that will end its waiting,
\* also after its client left, the map changed, the connection broke or the plugin
\* was loaded anew; otherwise it would never count a hit again.
WaitingIsAnswered ==
    \A s \in Slots :
        LET asked == {loads[s][i].of : i \in DOMAIN loads[s]}
        IN /\ client[s].lifePending => "life" \in asked
           /\ client[s].mapPending => "map" \in asked

\* A hit is in at most one finished log, once: the log of the match it was made in
\* or, if no match was tracked then, of the one that began next.  Storing the
\* records of players who leave, giving them back at their return, copying them
\* at round ends and finalising at every occasion never add a record twice.  A
\* player whose record was taken from whaletracker_online is excepted: after a
\* reload of the plugin the row repeats what the finished log has.
CountedOnce ==
    \A p \in Players \ restored, o \in Origins :
        \A t \in Logged :
            /\ match.table[t].rows[p][o] > 0 => o \in {Within(t), Before(t)}
            /\ match.table[t].rows[p][o] <= hits[p][o]

\* A finished log has every hit of its match, for each player whose rates are not
\* implausible, whatever the players' comings and goings: except of one who left
\* before its records were loaded, which SaveClientMapStats does not keep, or
\* whose record was replaced by a row of whaletracker_online.
NothingForgotten ==
    \A t \in Logged, p \in Players \ (Suspects \cup restored \cup lost) :
        match.table[t].rows[p][Within(t)] = hits[p][Within(t)]

\* What readers see of a log only advances: a finished log is never written again
\* but at most deleted, a deleted one does not come back, and while it runs no
\* row loses hits, though timer, round end and finalisation write it from
\* different collections of records.
LogsAdvance ==
    [][\A t \in 1 .. MaxMatches :
         LET old == match.table[t] new == match'.table[t]
         IN /\ old.state = "deleted" => new = old
            /\ old.state = "final" => new \in {old, Deleted}
            /\ old.state = "published" => new.state # "open"
            /\ new # Deleted =>
                 \A p \in Players \ (restored' \cup lost'), o \in Origins :
                     new.rows[p][o] >= old.rows[p][o]]_matchVars

\* The id a slot falls back to while its client is not validated was its client's:
\* "Keep map copy aligned if only fallback auth is currently available".
FallbackIsOwn ==
    \A s \in Slots : client[s].inGame /\ client[s].id # NoPlayer
                      => client[s].id = client[s].player

=============================================================================
