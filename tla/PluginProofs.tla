---------------------------- MODULE PluginProofs ----------------------------
(***************************************************************************)
(* Theorems about the plugin: with Startup, about the migrations of the    *)
(* schema it needs and its link to the database; and with MatchLog, about  *)
(* its clients and the logs of the matches.                                *)
(*                                                                         *)
(* Startup.  What is on record is complete and nothing that is recorded    *)
(* runs again, for any number of daemons, owners, versions and statements, *)
(* and the link never stands still without a timer or a callback that will *)
(* move it.                                                                *)
(*                                                                         *)
(* MatchLog, for any number of slots, players, matches and hits.  A slot   *)
(* that waits for a load has a query under way (PluginOK).  If clients are *)
(* validated before they enter the game (LateIdentity = FALSE), the record *)
(* of a player is in one place while a match runs, in its slot or in the   *)
(* storage, and has every hit the player made in it and no other           *)
(* (HitsKept); all that is written to a log is such a record.              *)
(***************************************************************************)
EXTENDS Startup, MatchLog, SelectionProofs

-----------------------------------------------------------------------------
(* The migrations.                                                           *)

\* The owners that migrate are the holder of the lock; a statement about to run
\* belongs to the version after the recorded one, and all statements before it
\* have been run.
LockIsExclusive ==
    /\ \A d \in Daemons : stage[d] \in Migrating \cup {"lock"} => d \in Owners
    /\ \A d \in Owners : stage[d] \in Migrating <=> holder = d
    /\ \A d \in Owners : stage[d] = "migrate" <=> at[d] # Nothing

StatementIsNext ==
    \A s \in Sessions :
        at[s] # Nothing =>
            /\ holder = s
            /\ at[s].version = recorded + 1
            /\ at[s].version \in 1 .. SchemaVersion
            /\ at[s].statement \in 1 .. Statements[at[s].version] + 1
            /\ done[at[s].version] >= at[s].statement - 1

Complete ==
    /\ \A v \in 1 .. SchemaVersion : done[v] \in 0 .. Statements[v]
    /\ \A v \in 1 .. recorded : done[v] = Statements[v]
    /\ \A d \in Daemons :
         stage[d] \in {"release", "serving"} => recorded = SchemaVersion

SchemaInv ==
    /\ SchemaTypeOK
    /\ LockIsExclusive
    /\ StatementIsNext
    /\ Complete

\* The link: its flags agree with the callbacks that are outstanding.
Links ==
    [open : SUBSET Handles, ready : BOOLEAN, schemaReady : BOOLEAN,
     checking : BOOLEAN, connecting : BOOLEAN, reconnect : BOOLEAN,
     retry : BOOLEAN, patience : BOOLEAN]

LinkInv ==
    /\ link \in Links
    /\ calls \subseteq Kinds
    /\ link.checking <=> "version" \in calls
    /\ link.checking => link.open = Handles
    /\ link.schemaReady <=> link.ready
    /\ link.retry => link.open = Handles /\ "version" \notin calls
    /\ link.reconnect => calls = {}
    /\ link.ready => calls = {}
    /\ NeverStuck

\* The plugin found the version it needs, and versions are never taken back.
VersionFound == link.ready => recorded >= PluginVersion

StartupInv == SchemaInv /\ LinkInv /\ VersionFound

-----------------------------------------------------------------------------
(* The schema.                                                               *)

LEMMA SchemaInitially == SchemaAssumption /\ SchemaInit => SchemaInv
  BY DEF SchemaAssumption, SchemaInit, SchemaInv, SchemaTypeOK, LockIsExclusive,
         StatementIsNext, Complete, Sessions, Migrating, Nothing

\* What a statement of the next migration does to what is on record.
LEMMA Running ==
    ASSUME SchemaAssumption, SchemaInv, NEW s \in Sessions, at[s] # Nothing,
           Run(at[s])
    PROVE  /\ recorded' \in 0 .. SchemaVersion /\ recorded' >= recorded
           /\ done' \in [1 .. SchemaVersion -> Nat]
           /\ \A v \in 1 .. SchemaVersion : done'[v] \in 0 .. Statements[v]
           /\ \A v \in 1 .. recorded' : done'[v] = Statements[v]
           /\ at[s].statement <= Statements[at[s].version] =>
                recorded' = recorded /\ done'[at[s].version] >= at[s].statement
           /\ at[s].statement > Statements[at[s].version] =>
                recorded' = recorded + 1 /\ done' = done
<1> DEFINE v == at[s].version
           n == at[s].statement
<1>1. /\ v = recorded + 1 /\ v \in 1 .. SchemaVersion
      /\ n \in 1 .. Statements[v] + 1 /\ done[v] >= n - 1
  BY DEF SchemaInv, StatementIsNext
<1>2. /\ Statements[v] \in Nat \ {0} /\ done \in [1 .. SchemaVersion -> Nat]
      /\ recorded \in 0 .. SchemaVersion /\ SchemaVersion \in Nat
      /\ \A w \in 1 .. SchemaVersion : done[w] \in 0 .. Statements[w]
      /\ \A w \in 1 .. recorded : done[w] = Statements[w]
  BY <1>1 DEF SchemaInv, SchemaTypeOK, Complete, SchemaAssumption
<1>3. /\ n <= Statements[v] => /\ recorded' = recorded
                              /\ done' = [done EXCEPT ![v] = IF n > @ THEN n ELSE @]
      /\ ~(n <= Statements[v]) => recorded' = v /\ done' = done
  BY DEF Run
<1> SUFFICES
      /\ recorded' \in 0 .. SchemaVersion /\ recorded' >= recorded
      /\ done' \in [1 .. SchemaVersion -> Nat]
      /\ \A w \in 1 .. SchemaVersion : done'[w] \in 0 .. Statements[w]
      /\ \A w \in 1 .. recorded' : done'[w] = Statements[w]
      /\ n <= Statements[v] => recorded' = recorded /\ done'[v] >= n
      /\ n > Statements[v] => recorded' = recorded + 1 /\ done' = done
  OBVIOUS
<1> HIDE DEF v, n
<1>4. CASE n <= Statements[v]
  <2>1. \A w \in 1 .. SchemaVersion : w # v => done'[w] = done[w]
    BY <1>2, <1>3, <1>4
  <2>2. done'[v] \in n .. Statements[v] /\ done'[v] \in 0 .. Statements[v]
    <3>1. done'[v] = IF n > done[v] THEN n ELSE done[v]
      BY <1>1, <1>2, <1>3, <1>4
    <3>2. done[v] \in 0 .. Statements[v] /\ n \in Nat /\ Statements[v] \in Nat
      BY <1>1, <1>2
    <3> QED BY <1>4, <3>1, <3>2
  <2>3. done' \in [1 .. SchemaVersion -> Nat]
    <3>1. \A w \in 1 .. SchemaVersion : done'[w] \in Nat
      BY <1>2, <2>1, <2>2
    <3>2. \E e : done' = [done EXCEPT ![v] = e]
      BY <1>3, <1>4
    <3> QED BY <1>2, <3>1, <3>2
  <2>4. \A w \in 1 .. SchemaVersion : done'[w] \in 0 .. Statements[w]
    BY <1>2, <2>1, <2>2
  <2>5. \A w \in 1 .. recorded' : done'[w] = Statements[w]
    BY <1>1, <1>2, <1>3, <1>4, <2>1
  <2> QED BY <1>1, <1>2, <1>3, <1>4, <2>2, <2>3, <2>4, <2>5
<1>5. CASE ~(n <= Statements[v])
  <2>1. recorded' = v /\ done' = done /\ n = Statements[v] + 1
    BY <1>1, <1>2, <1>3, <1>5
  <2>2. done[v] = Statements[v]
    BY <1>1, <1>2, <2>1
  <2>3. \A w \in 1 .. recorded' : done'[w] = Statements[w]
    BY <1>1, <1>2, <2>1, <2>2
  <2> QED BY <1>1, <1>2, <1>5, <2>1, <2>3
<1> QED BY <1>4, <1>5

LEMMA NextVersion ==
    ASSUME SchemaVersion \in Nat
    PROVE  \A r \in 0 .. SchemaVersion :
             /\ r + 1 > SchemaVersion => r = SchemaVersion
             /\ ~(r + 1 > SchemaVersion) => r + 1 \in 1 .. SchemaVersion /\ r # SchemaVersion
  OBVIOUS

LEMMA SchemaSteps == SchemaAssumption /\ SchemaInv /\ [SchemaNext]_schemaVars
                     => SchemaInv' /\ recorded' >= recorded
<1> SUFFICES ASSUME SchemaAssumption, SchemaInv, [SchemaNext]_schemaVars
             PROVE  SchemaInv' /\ recorded' >= recorded
  OBVIOUS
<1> USE DEF SchemaInv, SchemaTypeOK, LockIsExclusive, StatementIsNext, Complete,
            Sessions, Migrating, Goto
<1>1. Nothing \in [version : 0 .. SchemaVersion, statement : Nat]
      /\ Nobody \notin Sessions /\ Orphan \notin Daemons /\ Owners \subseteq Daemons
  BY DEF Nothing, SchemaAssumption
<1>2. CASE UNCHANGED schemaVars
  BY <1>2 DEF schemaVars
<1>3. ASSUME NEW d \in Daemons, Begin(d) PROVE SchemaInv' /\ recorded' >= recorded
  BY <1>1, <1>3 DEF Begin
<1>4. ASSUME NEW d \in Daemons, TakeLock(d) PROVE SchemaInv' /\ recorded' >= recorded
  BY <1>1, <1>4 DEF TakeLock
<1>5. ASSUME NEW d \in Daemons, ReadVersion(d) PROVE SchemaInv' /\ recorded' >= recorded
  <2>1. stage[d] = "read" /\ d \in Owners /\ holder = d /\ at[d] = Nothing
        /\ UNCHANGED <<recorded, done, holder>>
    BY <1>1, <1>5 DEF ReadVersion
  <2>2. CASE recorded = SchemaVersion
    BY <1>1, <1>5, <2>1, <2>2 DEF ReadVersion
  <2>3. CASE recorded # SchemaVersion
    <3> DEFINE next == [version |-> recorded + 1, statement |-> 1]
    <3>1. /\ stage' = [stage EXCEPT ![d] = "migrate"]
          /\ at' = [at EXCEPT ![d] = next]
      BY <1>5, <2>3 DEF ReadVersion
    <3>2. /\ next.version \in 1 .. SchemaVersion
          /\ next.statement \in 1 .. Statements[next.version] + 1
          /\ next \in [version : 0 .. SchemaVersion, statement : Nat]
          /\ next # Nothing /\ done[next.version] >= next.statement - 1
          /\ next.version = recorded + 1
      BY <2>3 DEF SchemaAssumption, Nothing
    <3> HIDE DEF next
    <3>3. /\ at' \in [Sessions -> [version : 0 .. SchemaVersion, statement : Nat]]
          /\ at'[d] = next /\ \A s \in Sessions : s # d => at'[s] = Nothing
      BY <2>1, <3>1, <3>2
    <3>4. SchemaTypeOK'
      BY <2>1, <3>1, <3>3
    <3>5. LockIsExclusive'
      BY <1>1, <2>1, <3>1, <3>2, <3>3
    <3>6. StatementIsNext'
      BY <2>1, <3>2, <3>3
    <3>7. Complete' /\ recorded' >= recorded
      BY <2>1, <3>1
    <3> HIDE DEF SchemaTypeOK, LockIsExclusive, StatementIsNext, Complete
    <3> QED BY <3>4, <3>5, <3>6, <3>7
  <2> QED BY <2>2, <2>3
<1>6. ASSUME NEW d \in Daemons, Migrate(d) PROVE SchemaInv' /\ recorded' >= recorded
  <2> DEFINE now == at[d]
             next == Following(now)
  <2>1. /\ d \in Owners /\ holder = d /\ stage[d] = "migrate" /\ now # Nothing
        /\ Run(now) /\ holder' = holder
    BY <1>1, <1>6 DEF Migrate
  <2>2. /\ now.version = recorded + 1 /\ now.version \in 1 .. SchemaVersion
        /\ now.statement \in 1 .. Statements[now.version] + 1
        /\ \A v \in 1 .. SchemaVersion : Statements[v] \in Nat \ {0}
        /\ now = [version |-> now.version, statement |-> now.statement]
    BY <2>1 DEF SchemaAssumption
  <2>3. /\ recorded' \in 0 .. SchemaVersion /\ recorded' >= recorded
        /\ done' \in [1 .. SchemaVersion -> Nat]
        /\ \A v \in 1 .. SchemaVersion : done'[v] \in 0 .. Statements[v]
        /\ \A v \in 1 .. recorded' : done'[v] = Statements[v]
        /\ now.statement <= Statements[now.version] =>
             recorded' = recorded /\ done'[now.version] >= now.statement
        /\ now.statement > Statements[now.version] =>
             recorded' = recorded + 1 /\ done' = done
    BY <2>1, Running
  <2>4. \A s \in Sessions : s # d => at[s] = Nothing
    BY <2>1
  <2>5. \A e \in Daemons : e # d => stage[e] \notin Migrating
    BY <1>1, <2>1
  <2>6. /\ next.version = recorded' + 1 /\ next.statement \in Nat \ {0}
        /\ next.version > SchemaVersion => recorded' = SchemaVersion
        /\ ~(next.version > SchemaVersion) =>
             next.version \in 1 .. SchemaVersion /\ recorded' # SchemaVersion
    <3>1. CASE now.statement <= Statements[now.version]
      <4>1. next.version = now.version /\ next.statement = now.statement + 1
        BY <3>1 DEF Following
      <4>2. recorded' = recorded
        BY <2>3, <3>1
      <4> HIDE DEF now, next
      <4> QED BY <2>2, <4>1, <4>2, NextVersion DEF SchemaAssumption
    <3>2. CASE ~(now.statement <= Statements[now.version])
      <4>1. next.version = now.version + 1 /\ next.statement = 1
        BY <3>2 DEF Following
      <4>2. now.statement > Statements[now.version]
        BY <2>2, <3>2
      <4>3. recorded' = recorded + 1
        BY <2>3, <4>2
      <4> HIDE DEF now, next
      <4>4. recorded' \in 0 .. SchemaVersion
        BY <2>3
      <4> QED BY <2>2, <4>1, <4>3, <4>4, NextVersion DEF SchemaAssumption
    <3> QED BY <3>1, <3>2
  <2>7. next = [version |-> next.version, statement |-> next.statement]
    BY <2>2 DEF Following
  <2>8. CASE next.version > SchemaVersion
    <3>1. /\ stage' = [stage EXCEPT ![d] = "release"]
          /\ at' = [at EXCEPT ![d] = Nothing]
      BY <1>6, <2>8 DEF Migrate
    <3>2. recorded' = SchemaVersion
      BY <2>6, <2>8
    <3> HIDE DEF now, next
    <3> QED BY <1>1, <2>1, <2>3, <2>4, <2>5, <3>1, <3>2
  <2>9. CASE ~(next.version > SchemaVersion)
    <3>1. stage' = stage /\ at' = [at EXCEPT ![d] = next]
      BY <1>6, <2>9 DEF Migrate
    <3>2. /\ next.version \in 1 .. SchemaVersion
          /\ next.statement \in 1 .. Statements[next.version] + 1
          /\ done'[next.version] >= next.statement - 1
      <4>1. next.version \in 1 .. SchemaVersion
        BY <2>6, <2>9
      <4>2. CASE now.statement <= Statements[now.version]
        <5>1. next.version = now.version /\ next.statement = now.statement + 1
          BY <4>2, <2>2 DEF Following
        <5>2. done'[now.version] >= now.statement
          BY <2>3, <4>2
        <5>3. /\ now.statement \in Nat \ {0}
              /\ Statements[now.version] \in Nat
          BY <2>2
        <5> HIDE DEF next, now, SchemaInv, SchemaTypeOK, LockIsExclusive, StatementIsNext,
                     Complete
        <5>4. next.statement \in 1 .. Statements[now.version] + 1
          BY <4>2, <5>1, <5>3
        <5>5. next.statement - 1 = now.statement
          BY <5>1, <5>3
        <5> QED BY <4>1, <5>1, <5>2, <5>4, <5>5
      <4>3. CASE ~(now.statement <= Statements[now.version])
        <5>1. next.statement = 1
          BY <4>3, <2>2 DEF Following
        <5>2. done'[next.version] \in Nat /\ Statements[next.version] \in Nat
          BY <2>2, <2>3, <4>1
        <5> HIDE DEF next, now, SchemaInv, SchemaTypeOK, LockIsExclusive, StatementIsNext,
                     Complete
        <5> QED BY <4>1, <5>1, <5>2
      <4> QED BY <4>2, <4>3
    <3>3. next # Nothing /\ next \in [version : 0 .. SchemaVersion, statement : Nat]
      <4> HIDE DEF next
      <4> QED BY <2>6, <2>7, <3>2 DEF Nothing
    <3>4. recorded' # SchemaVersion
      BY <2>6, <2>9
    <3> HIDE DEF now, next
    <3>5. /\ at' \in [Sessions -> [version : 0 .. SchemaVersion, statement : Nat]]
          /\ at'[d] = next /\ \A s \in Sessions : s # d => at'[s] = Nothing
      BY <2>1, <2>4, <3>1, <3>3
    <3>6. SchemaTypeOK'
      BY <2>1, <2>3, <3>1, <3>5
    <3>7. LockIsExclusive'
      BY <1>1, <2>1, <2>5, <3>1, <3>3, <3>5
    <3>8. StatementIsNext'
      BY <2>1, <2>6, <3>2, <3>5
    <3>9. Complete'
      <4>1. \A e \in Daemons : stage'[e] \notin {"release", "serving"}
        <5>1. \A e \in Daemons : stage[e] \in {"release", "serving"} => recorded = SchemaVersion
          OBVIOUS
        <5>2. recorded # SchemaVersion
          BY <2>2 DEF SchemaAssumption
        <5> QED BY <3>1, <5>1, <5>2
      <4> QED BY <2>3, <4>1
    <3> QED BY <2>3, <3>6, <3>7, <3>8, <3>9
  <2> QED BY <2>8, <2>9
<1>7. ASSUME NEW d \in Daemons, Release(d) PROVE SchemaInv' /\ recorded' >= recorded
  BY <1>1, <1>7 DEF Release
<1>8. ASSUME NEW d \in Daemons, VersionSeen(d) PROVE SchemaInv' /\ recorded' >= recorded
  BY <1>1, <1>8 DEF VersionSeen
<1>9. ASSUME NEW d \in Daemons, NoLock(d) \/ Deadline(d) \/ Stops(d)
      PROVE  SchemaInv' /\ recorded' >= recorded
  <2>1. stage[d] \in {"lock", "poll", "serving"} /\ stage' = [stage EXCEPT ![d] = "down"]
        /\ UNCHANGED <<recorded, done, holder, at>>
    BY <1>9 DEF NoLock, Deadline, Stops
  <2> QED BY <1>1, <2>1
<1>10. ASSUME NEW d \in Daemons, LockLost(d) PROVE SchemaInv' /\ recorded' >= recorded
  BY <1>1, <1>10 DEF LockLost
<1>11. ASSUME NEW d \in Daemons, MigrationFails(d) PROVE SchemaInv' /\ recorded' >= recorded
  BY <1>1, <1>11 DEF MigrationFails
<1>12. ASSUME NEW d \in Daemons, SessionLost(d) PROVE SchemaInv' /\ recorded' >= recorded
  BY <1>1, <1>12 DEF SessionLost
<1>13. ASSUME OrphanRuns PROVE SchemaInv' /\ recorded' >= recorded
  <2>1. /\ holder = Orphan /\ Orphan \in Sessions /\ at[Orphan] # Nothing
        /\ Run(at[Orphan]) /\ UNCHANGED <<holder, stage>>
        /\ at' = [at EXCEPT ![Orphan] = Nothing]
    BY <1>13 DEF OrphanRuns
  <2>2. /\ recorded' \in 0 .. SchemaVersion /\ recorded' >= recorded
        /\ done' \in [1 .. SchemaVersion -> Nat]
        /\ \A v \in 1 .. SchemaVersion : done'[v] \in 0 .. Statements[v]
        /\ \A v \in 1 .. recorded' : done'[v] = Statements[v]
    BY <2>1, Running
  <2>3. \A s \in Sessions : at'[s] = Nothing
    BY <2>1
  <2>4. \A d \in Daemons :
          stage[d] \in {"release", "serving"} => recorded' = SchemaVersion
    BY <2>2 DEF SchemaAssumption
  <2> QED BY <1>1, <2>1, <2>2, <2>3, <2>4
<1>14. ASSUME OrphanEnds PROVE SchemaInv' /\ recorded' >= recorded
  BY <1>1, <1>14 DEF OrphanEnds
<1> QED
  BY <1>2, <1>3, <1>4, <1>5, <1>6, <1>7, <1>8, <1>9, <1>10, <1>11, <1>12, <1>13, <1>14
     DEF SchemaNext, Prepare

-----------------------------------------------------------------------------
(* The link.                                                                 *)

LEMMA LinkInitially == LinkInit => LinkInv
<1> SUFFICES ASSUME LinkInit PROVE LinkInv
  OBVIOUS
<1>1. link \in Links /\ calls \subseteq Kinds
  BY DEF LinkInit, Links, Closed, Handles, Kinds
<1>2. NeverStuck
  BY DEF LinkInit, Closed, Handles, NeverStuck
<1> QED BY <1>1, <1>2 DEF LinkInit, LinkInv, Closed, Handles

\* Whatever gives an attempt up leaves a link that waits for its timer.
LEMMA GivingUp ==
    ASSUME LinkInv, ScheduleReconnect
    PROVE  LinkInv' /\ ~link'.ready
<1>1. CASE link.reconnect
  <2>1. UNCHANGED <<link, calls>>
    BY <1>1 DEF ScheduleReconnect
  <2> QED BY <1>1, <2>1 DEF LinkInv, NeverStuck, Closed
<1>2. CASE ~link.reconnect
  <2>1. link' = [Closed EXCEPT !.reconnect = TRUE] /\ calls' = {}
    BY <1>2 DEF ScheduleReconnect
  <2> QED BY <2>1 DEF LinkInv, Links, Closed, Handles, Kinds, NeverStuck
<1> QED BY <1>1, <1>2

LEMMA Connecting ==
    ASSUME LinkInv, SQLConnect
    PROVE  LinkInv' /\ ~link'.ready
  BY DEF SQLConnect, LinkInv, Links, Closed, Handles, Kinds, NeverStuck

\* A handle more, or a retry that is due: with both handles there is a check.
LEMMA Checking ==
    ASSUME LinkInv, NEW h \in Handles, Connected(h)
    PROVE  LinkInv' /\ ~link'.ready
<1> DEFINE now == [link EXCEPT !.open = @ \cup {h}]
<1>1. /\ link.patience /\ ~link.ready /\ ~link.reconnect /\ ~link.schemaReady
      /\ h \notin link.open /\ ~link.checking /\ ~link.retry /\ "version" \notin calls
  BY DEF Connected, LinkInv, Links, Closed, Handles, Kinds, NeverStuck
<1>2. CASE now.open = Handles
  <2>1. /\ link' = [link EXCEPT !.open = Handles, !.checking = TRUE]
        /\ calls' = (calls \ {h}) \cup {"version"}
    BY <1>1, <1>2 DEF Connected, RequestCheck, LinkInv, Links
  <2>2. calls \cap Handles = {h}
    BY <1>1, <1>2 DEF LinkInv, Links, NeverStuck, Handles
  <2> QED BY <1>1, <2>1, <2>2 DEF LinkInv, Links, Handles, Kinds, NeverStuck
<1>3. CASE now.open # Handles
  <2>1. /\ link' = [link EXCEPT !.open = @ \cup {h}]
        /\ calls' = calls \ {h}
    BY <1>1, <1>3 DEF Connected, RequestCheck
  <2>2. Handles \ link'.open = calls' \cap Handles
    BY <1>1, <2>1 DEF LinkInv, Links, NeverStuck, Handles
  <2> QED BY <1>1, <1>3, <2>1, <2>2 DEF LinkInv, Links, Handles, Kinds, NeverStuck
<1> QED BY <1>2, <1>3

LEMMA Retrying ==
    ASSUME LinkInv, SchemaReadyTimer
    PROVE  LinkInv' /\ ~link'.ready
<1>1. /\ link.retry /\ link.open = Handles /\ "version" \notin calls
      /\ ~link.ready /\ ~link.schemaReady /\ ~link.checking /\ ~link.reconnect
      /\ link.patience /\ calls \cap Handles = {}
  <2>1. link.retry /\ link.open = Handles /\ "version" \notin calls
    BY DEF SchemaReadyTimer, LinkInv
  <2>2. ~link.ready /\ ~link.schemaReady /\ ~link.checking
    BY <2>1 DEF LinkInv, Links, NeverStuck
  <2>3. ~link.reconnect
    BY <2>1 DEF LinkInv, NeverStuck, Closed
  <2>4. link.patience /\ Handles \ link.open = calls \cap Handles
    BY <2>2, <2>3 DEF LinkInv, NeverStuck
  <2> QED BY <2>1, <2>2, <2>3, <2>4
<1>2. /\ link' = [link EXCEPT !.retry = FALSE, !.checking = TRUE]
      /\ calls' = calls \cup {"version"}
  BY <1>1 DEF SchemaReadyTimer, RequestCheck, LinkInv, Links
<1>3. link' \in Links /\ calls' \subseteq Kinds
  BY <1>2 DEF LinkInv, Links, Kinds
<1>4. /\ link'.open = Handles /\ link'.checking /\ link'.patience
      /\ ~link'.ready /\ ~link'.schemaReady /\ ~link'.reconnect /\ ~link'.retry
      /\ "version" \in calls' /\ calls' \cap Handles = {}
  BY <1>1, <1>2 DEF LinkInv, Links, Handles
<1> QED BY <1>3, <1>4 DEF LinkInv, NeverStuck

LEMMA LinkSteps ==
    ASSUME LinkInv, NEW version \in Nat, [LinkNext(version)]_linkVars
    PROVE  LinkInv' /\ (link'.ready => link.ready \/ version >= PluginVersion)
<1>1. CASE UNCHANGED linkVars
  BY <1>1 DEF linkVars, LinkInv, NeverStuck
<1>2. ASSUME NEW h \in Handles, Connected(h)
      PROVE  LinkInv' /\ (link'.ready => link.ready \/ version >= PluginVersion)
  BY <1>2, Checking
<1>3. ASSUME \/ \E h \in Handles : ConnectFails(h)
             \/ CheckLost \/ ConnectTimeoutTimer \/ ConnectionLost \/ Unhealthy
      PROVE  LinkInv' /\ (link'.ready => link.ready \/ version >= PluginVersion)
  BY <1>3, GivingUp DEF ConnectFails, CheckLost, ConnectTimeoutTimer, ConnectionLost, Unhealthy
<1>4. ASSUME VersionIsThere(version)
      PROVE  LinkInv' /\ (link'.ready => link.ready \/ version >= PluginVersion)
  BY <1>4 DEF VersionIsThere, LinkInv, Links, Closed, Handles, Kinds, NeverStuck
<1>5. ASSUME AskAgain
      PROVE  LinkInv' /\ (link'.ready => link.ready \/ version >= PluginVersion)
  BY <1>5 DEF AskAgain, LinkInv, Links, Closed, Handles, Kinds, NeverStuck
<1>6. ASSUME (\E k \in Kinds : Ignored(k)) \/ Query \/ Answered
      PROVE  LinkInv' /\ (link'.ready => link.ready \/ version >= PluginVersion)
  BY <1>6 DEF Ignored, Query, Answered, LinkInv, NeverStuck
<1>7. ASSUME SchemaReadyTimer
      PROVE  LinkInv' /\ (link'.ready => link.ready \/ version >= PluginVersion)
  BY <1>7, Retrying
<1>8. ASSUME ReconnectTimer
      PROVE  LinkInv' /\ (link'.ready => link.ready \/ version >= PluginVersion)
  BY <1>8, Connecting DEF ReconnectTimer
<1> QED BY <1>1, <1>2, <1>3, <1>4, <1>5, <1>6, <1>7, <1>8 DEF LinkNext

-----------------------------------------------------------------------------
(* The composition.                                                          *)

LEMMA StartupInitially == Init => StartupInv
  BY SchemaAssumption, SchemaInitially, LinkInitially
     DEF Init, StartupInv, VersionFound, LinkInit, Closed

LEMMA StartupSteps == StartupInv /\ [Next]_vars => StartupInv'
<1> SUFFICES ASSUME StartupInv, [Next]_vars PROVE StartupInv'
  OBVIOUS
<1>1. [SchemaNext]_schemaVars /\ [LinkNext(recorded)]_linkVars
      /\ (UNCHANGED schemaVars \/ UNCHANGED linkVars)
  BY DEF Next, vars, schemaVars, linkVars
<1>2. SchemaInv' /\ recorded' >= recorded
  BY <1>1, SchemaAssumption, SchemaSteps DEF StartupInv
<1>3. recorded \in Nat /\ recorded' \in Nat /\ PluginVersion \in Nat
  BY <1>2, SchemaAssumption, LinkAssumption
     DEF StartupInv, SchemaInv, SchemaTypeOK, SchemaAssumption, LinkAssumption
<1>4. LinkInv' /\ (link'.ready => link.ready \/ recorded >= PluginVersion)
  BY <1>1, <1>3, LinkSteps DEF StartupInv
<1>5. VersionFound'
  BY <1>2, <1>3, <1>4 DEF StartupInv, VersionFound
<1> QED BY <1>2, <1>4, <1>5 DEF StartupInv

\* The migrations and the link keep what the next theorems rest on.
THEOREM StartupInvariance == Spec => []StartupInv
  BY StartupInitially, StartupSteps, PTL DEF Spec

\* A recorded version is complete, a daemon that serves and a plugin that is
\* ready have every migration they need, at whatever statements daemons died.
THEOREM SchemaIsComplete == Spec => []ReadyIsMigrated
<1>1. StartupInv => ReadyIsMigrated
  <2> SUFFICES ASSUME StartupInv PROVE ReadyIsMigrated
    OBVIOUS
  <2>1. RecordedIsComplete
    BY DEF StartupInv, SchemaInv, Complete, RecordedIsComplete
  <2>2. PluginVersion \in Nat /\ recorded \in Nat
    BY LinkAssumption, SchemaAssumption
       DEF LinkAssumption, SchemaAssumption, StartupInv, SchemaInv, SchemaTypeOK
  <2>3. link.ready => 1 .. PluginVersion \subseteq 1 .. recorded
    BY <2>2 DEF StartupInv, VersionFound
  <2> QED BY <2>1, <2>3 DEF ReadyIsMigrated, RecordedIsComplete
<1> QED BY <1>1, StartupInvariance, PTL

\* Owners and abandoned sessions run the statements of one migration at a time,
\* and never one whose version is on record.
THEOREM MigrationsRunOnce == Spec => []NoMigrationRepeated
<1>1. StartupInv => NoMigrationRepeated
  BY DEF StartupInv, SchemaInv, StatementIsNext, NoMigrationRepeated
<1> QED BY <1>1, StartupInvariance, PTL

\* The plugin's link always has a callback or a timer that moves it on.
THEOREM LinkNeverStuck == Spec => []NeverStuck
<1>1. StartupInv => NeverStuck
  BY DEF StartupInv, LinkInv
<1> QED BY <1>1, StartupInvariance, PTL

-----------------------------------------------------------------------------
(* The plugin's clients and the log of a match.                              *)

Persons == Players \cup {NoPlayer}

Records == [Origins -> Nat]

Clients ==
    [player : Persons, inGame : BOOLEAN, authorized : BOOLEAN, id : Persons,
     lifePending : BOOLEAN, lifeLoaded : BOOLEAN,
     mapPending : BOOLEAN, mapLoaded : BOOLEAN, live : Records]

LoadQuery == [of : {"life", "map"}, id : Persons]

Storages == UNION {[P -> Records] : P \in SUBSET Players}

Entries == [state : States, rows : [Players -> Records]]

Matches ==
    [log : NoLog .. MaxMatches, begun : 0 .. MaxMatches, last : NoLog .. MaxMatches,
     stored : Storages, table : [1 .. MaxMatches -> Entries]]

LEMMA ZeroIsRecord == MatchLogAssumption => Zero \in Records /\ \A o \in Origins : Zero[o] = 0
  BY DEF Zero, Records

\* d is c but for the flags of its loads, and an id that the client was found to have.
Same(d, c) ==
    /\ d.player = c.player /\ d.inGame = c.inGame /\ d.authorized = c.authorized
    /\ d.live = c.live
    /\ d.id = c.id \/ d.id = Ensure(c).id

LEMMA Fields ==
    ASSUME NEW c \in Clients
    PROVE  /\ c.player \in Persons /\ c.id \in Persons /\ c.live \in Records
           /\ c.inGame \in BOOLEAN /\ c.authorized \in BOOLEAN
           /\ c.lifePending \in BOOLEAN /\ c.lifeLoaded \in BOOLEAN
           /\ c.mapPending \in BOOLEAN /\ c.mapLoaded \in BOOLEAN
  BY DEF Clients

LEMMA EnsureMakes ==
    ASSUME NEW c \in Clients
    PROVE  /\ Ensure(c) \in Clients /\ Same(Ensure(c), c)
           /\ Ensure(c).id = IF c.authorized THEN c.player ELSE c.id
           /\ Ensure(c).lifePending = c.lifePending
           /\ Ensure(c).mapPending = c.mapPending
           /\ Ensure(c).lifeLoaded = c.lifeLoaded /\ Ensure(c).mapLoaded = c.mapLoaded
  BY DEF Ensure, Clients, Same

LEMMA ResetAllMakes ==
    ASSUME MatchLogAssumption, NEW c \in Clients
    PROVE  /\ ResetAll(c) \in Clients
           /\ ResetAll(c).player = c.player /\ ResetAll(c).inGame = c.inGame
           /\ ResetAll(c).authorized = c.authorized
           /\ ResetAll(c).live = Zero /\ ResetAll(c).id = NoPlayer
           /\ ~ ResetAll(c).lifePending /\ ~ ResetAll(c).mapPending
  BY ZeroIsRecord DEF ResetAll, Clients, Persons

LEMMA ResetMapMakes ==
    ASSUME MatchLogAssumption, NEW c \in Clients
    PROVE  /\ ResetMap(c) \in Clients
           /\ ResetMap(c).player = c.player /\ ResetMap(c).inGame = c.inGame
           /\ ResetMap(c).authorized = c.authorized
           /\ ResetMap(c).live = Zero /\ ResetMap(c).id = c.id
           /\ ResetMap(c).lifePending = c.lifePending
           /\ ResetMap(c).mapPending = c.mapPending
  BY ZeroIsRecord DEF ResetMap, Clients

LEMMA VacantMakes ==
    ASSUME MatchLogAssumption, NEW i \in Persons
    PROVE  /\ Vacant(i) \in Clients /\ ~ ValidClient(Vacant(i))
           /\ Vacant(i).player = NoPlayer
           /\ ~ Vacant(i).inGame /\ ~ Vacant(i).authorized
           /\ Vacant(i).live = Zero /\ Vacant(i).id = i
           /\ ~ Vacant(i).lifePending /\ ~ Vacant(i).mapPending
  BY ZeroIsRecord DEF Vacant, Clients, Persons, ValidClient

\* What a query of this kind would answer.
Asks(l, of) == \E i \in 1 .. Len(l) : l[i].of = of

LEMMA RequestedMakes ==
    ASSUME NEW c \in Clients, NEW db \in BOOLEAN
    PROVE  /\ Requested(c, db) \in Clients /\ Same(Requested(c, db), c)
           /\ Queries(c, db) \in Seq(LoadQuery)
           /\ ~ c.inGame => Queries(c, db) = <<>>
           /\ Requested(c, db).lifePending => c.lifePending \/ Asks(Queries(c, db), "life")
           /\ Requested(c, db).mapPending => c.mapPending \/ Asks(Queries(c, db), "map")
<1> DEFINE life == [of |-> "life", id |-> Ensure(c).id]
           map == [of |-> "map", id |-> Ensure(c).id]
           a == IF c.lifePending \/ c.lifeLoaded THEN <<>> ELSE <<life>>
           b == IF c.mapPending \/ c.mapLoaded THEN <<>> ELSE <<map>>
<1>1. /\ Ensure(c) \in Clients /\ Same(Ensure(c), c)
      /\ Ensure(c).lifePending = c.lifePending
      /\ Ensure(c).mapPending = c.mapPending
      /\ Ensure(c).lifeLoaded = c.lifeLoaded /\ Ensure(c).mapLoaded = c.mapLoaded
  BY EnsureMakes
<1>2. /\ Requested(c, db) \in Clients /\ Same(Requested(c, db), c)
      /\ Requested(c, db).lifePending =>
           c.lifePending \/ (~ NothingToLoad(c, db) /\ ~ c.lifeLoaded)
      /\ Requested(c, db).mapPending =>
           c.mapPending \/ (~ NothingToLoad(c, db) /\ ~ c.mapLoaded)
  <2> DEFINE e == Ensure(c)
             d == [e EXCEPT !.lifePending = @ \/ ~ c.lifeLoaded,
                            !.mapPending = @ \/ ~ c.mapLoaded]
  <2>1. /\ Requested(c, db) \in {c, e, d}
        /\ Requested(c, db) # c /\ Requested(c, db) # e => ~ NothingToLoad(c, db)
    BY DEF Requested
  <2>2. /\ e \in Clients /\ Same(e, c) /\ e.lifePending = c.lifePending
        /\ e.mapPending = c.mapPending
    BY <1>1
  <2>3. c.lifeLoaded \in BOOLEAN /\ c.mapLoaded \in BOOLEAN /\ Same(c, c)
    BY Fields DEF Same
  <2> HIDE DEF e
  <2>4. /\ d \in Clients /\ d.player = e.player /\ d.inGame = e.inGame
        /\ d.authorized = e.authorized /\ d.live = e.live /\ d.id = e.id
        /\ d.lifePending = (e.lifePending \/ ~ c.lifeLoaded)
        /\ d.mapPending = (e.mapPending \/ ~ c.mapLoaded)
    BY <2>2, <2>3 DEF Clients
  <2> HIDE DEF d
  <2>5. Same(d, c)
    BY <2>2, <2>4 DEF Same
  <2>6. CASE Requested(c, db) \in {c, e}
    BY <2>2, <2>3, <2>6
  <2>7. CASE Requested(c, db) = d /\ ~ NothingToLoad(c, db)
    BY <2>2, <2>4, <2>5, <2>7
  <2> QED BY <2>1, <2>6, <2>7
<1>3. life \in LoadQuery /\ map \in LoadQuery
  BY <1>1 DEF LoadQuery, Clients
<1>4. a \in Seq(LoadQuery) /\ b \in Seq(LoadQuery)
  BY <1>3
<1>5. Queries(c, db) = IF NothingToLoad(c, db) THEN <<>> ELSE a \o b
  BY DEF Queries
<1>6. /\ a \o b \in Seq(LoadQuery) /\ Len(a \o b) = Len(a) + Len(b)
      /\ \A i \in 1 .. Len(a) : (a \o b)[i] = a[i]
      /\ \A i \in 1 .. Len(b) : (a \o b)[Len(a) + i] = b[i]
      /\ Len(a) \in Nat /\ Len(b) \in Nat
  BY <1>4, LenProperties, ConcatProperties
<1>7. ASSUME ~ c.lifePending, ~ c.lifeLoaded PROVE Asks(a \o b, "life")
  <2>1. a = <<life>> /\ Len(a) = 1 /\ a[1] = life
    BY <1>7
  <2>2. (a \o b)[1].of = "life" /\ 1 \in 1 .. Len(a \o b)
    BY <1>6, <2>1
  <2> QED BY <2>2 DEF Asks
<1>8. ASSUME ~ c.mapPending, ~ c.mapLoaded PROVE Asks(a \o b, "map")
  <2>1. b = <<map>> /\ Len(b) = 1 /\ b[1] = map
    BY <1>8
  <2>2. (a \o b)[Len(a) + 1].of = "map" /\ Len(a) + 1 \in 1 .. Len(a \o b)
    BY <1>6, <2>1
  <2> QED BY <2>2 DEF Asks
<1> HIDE DEF a, b
<1>9. Queries(c, db) \in Seq(LoadQuery)
  BY <1>5, <1>6
<1>10. ~ c.inGame => Queries(c, db) = <<>>
  BY <1>5 DEF NothingToLoad
<1> QED BY <1>2, <1>5, <1>7, <1>8, <1>9, <1>10, Fields

LEMMA AsksJoined ==
    ASSUME NEW a \in Seq(LoadQuery), NEW b \in Seq(LoadQuery), NEW of
    PROVE  a \o b \in Seq(LoadQuery) /\ (Asks(a \o b, of) <=> Asks(a, of) \/ Asks(b, of))
<1>1. /\ a \o b \in Seq(LoadQuery) /\ Len(a \o b) = Len(a) + Len(b)
      /\ \A i \in 1 .. Len(a) + Len(b) :
           (a \o b)[i] = IF i <= Len(a) THEN a[i] ELSE b[i - Len(a)]
      /\ Len(a) \in Nat /\ Len(b) \in Nat
  BY ConcatProperties, LenProperties
<1> DEFINE u == a \o b
           m == Len(a)
           n == Len(b)
<1> HIDE DEF u, m, n
<1>2. \A i \in 1 .. m : i \in 1 .. m + n /\ u[i] = a[i]
  BY <1>1 DEF u, m, n
<1>3. \A i \in 1 .. n : i + m \in 1 .. m + n /\ u[i + m] = b[i]
  <2> TAKE i \in 1 .. n
  <2>1. i + m \in 1 .. m + n /\ ~(i + m <= m) /\ (i + m) - m = i
    BY <1>1 DEF m, n
  <2> QED BY <1>1, <2>1 DEF u, m, n
<1>4. \A i \in 1 .. m + n : (i \in 1 .. m /\ u[i] = a[i]) \/ (i - m \in 1 .. n /\ u[i] = b[i - m])
  BY <1>1 DEF u, m, n
<1>5. (\E i \in 1 .. m + n : u[i].of = of)
        <=> (\E i \in 1 .. m : a[i].of = of) \/ (\E i \in 1 .. n : b[i].of = of)
  BY <1>2, <1>3, <1>4
<1> QED BY <1>1, <1>5 DEF Asks, u, m, n

LEMMA AsksRest ==
    ASSUME NEW l \in Seq(LoadQuery), l # <<>>, NEW of
    PROVE  /\ Tail(l) \in Seq(LoadQuery) /\ Head(l) \in LoadQuery
           /\ Asks(l, of) => Head(l).of = of \/ Asks(Tail(l), of)
<1>1. /\ Tail(l) \in Seq(LoadQuery) /\ Head(l) = l[1] /\ Head(l) \in LoadQuery
      /\ Len(l) \in Nat /\ Len(l) >= 1
      /\ Len(Tail(l)) = Len(l) - 1
      /\ \A i \in 1 .. Len(l) - 1 : Tail(l)[i] = l[i + 1]
  BY HeadTailProperties, LenProperties, EmptySeq, ElementOfSeq
<1>2. ASSUME NEW i \in 1 .. Len(l), l[i].of = of, Head(l).of # of
      PROVE  Asks(Tail(l), of)
  <2>1. i # 1
    BY <1>1, <1>2
  <2>2. PICK k \in 1 .. Len(l) - 1 : i = k + 1
    BY <1>1, <2>1
  <2>3. k \in 1 .. Len(Tail(l)) /\ Tail(l)[k].of = of
    BY <1>1, <1>2, <2>2
  <2> QED BY <2>3 DEF Asks
<1> QED BY <1>1, <1>2 DEF Asks

-----------------------------------------------------------------------------
(* Records of a match.                                                       *)

\* What the storage st has of p.
StoredOf(st, p) == IF p \in DOMAIN st THEN st[p] ELSE Zero

LEMMA StorageType ==
    ASSUME NEW st
    PROVE  st \in Storages <=> /\ DOMAIN st \subseteq Players
                               /\ st = [q \in DOMAIN st |-> st[q]]
                               /\ \A q \in DOMAIN st : st[q] \in Records
  BY DEF Storages

LEMMA AppendSnapshotMakes ==
    ASSUME MatchLogAssumption, NEW st \in Storages, NEW p \in Players, NEW r \in Records
    PROVE  /\ AppendSnapshot(st, p, r) \in Storages
           /\ DOMAIN AppendSnapshot(st, p, r) = DOMAIN st \cup {p}
           /\ \A q \in Players : q # p =>
                StoredOf(AppendSnapshot(st, p, r), q) = StoredOf(st, q)
           /\ \A o \in Origins :
                StoredOf(AppendSnapshot(st, p, r), p)[o] = StoredOf(st, p)[o] + r[o]
<1> DEFINE new == AppendSnapshot(st, p, r)
           sum == [o \in Origins |-> st[p][o] + r[o]]
<1>1. DOMAIN st \subseteq Players /\ \A q \in DOMAIN st : st[q] \in Records
  BY StorageType
<1>2. new = [q \in DOMAIN st \cup {p} |->
               IF q # p THEN st[q] ELSE IF p \notin DOMAIN st THEN r ELSE sum]
  BY DEF AppendSnapshot
<1>3. p \in DOMAIN st => sum \in Records
  BY <1>1 DEF Records
<1> HIDE DEF sum
<1>4. DOMAIN new = DOMAIN st \cup {p} /\ new = [q \in DOMAIN new |-> new[q]]
  BY <1>2
<1>5. /\ \A q \in DOMAIN st : q # p => new[q] = st[q]
      /\ new[p] = IF p \notin DOMAIN st THEN r ELSE sum
  BY <1>2
<1> HIDE DEF new
<1>6. \A q \in DOMAIN new : new[q] \in Records
  BY <1>1, <1>3, <1>4, <1>5
<1>7. new \in Storages
  BY <1>1, <1>4, <1>6, StorageType
<1>8. \A q \in Players : q # p => StoredOf(new, q) = StoredOf(st, q)
  BY <1>4, <1>5 DEF StoredOf
<1>9. ASSUME NEW o \in Origins PROVE StoredOf(new, p)[o] = StoredOf(st, p)[o] + r[o]
  <2>1. CASE p \in DOMAIN st
    BY <1>4, <1>5, <2>1 DEF StoredOf, sum
  <2>2. CASE p \notin DOMAIN st
    <3>1. StoredOf(new, p) = r /\ StoredOf(st, p)[o] = 0 /\ r[o] \in Nat
      BY <1>4, <1>5, <2>2, ZeroIsRecord DEF StoredOf, Records
    <3> QED BY <3>1
  <2> QED BY <2>1, <2>2
<1> QED BY <1>4, <1>7, <1>8, <1>9 DEF new

\* The records after the slots up to k have been added.
Gatherings(f, k, cl, st, S) ==
    /\ f = [n \in 0 .. k |-> f[n]]
    /\ f[0] = st
    /\ \A n \in 1 .. k :
         f[n] = IF n \in S /\ cl[n].id # NoPlayer
                THEN AppendSnapshot(f[n - 1], cl[n].id, cl[n].live) ELSE f[n - 1]

LEMMA OneGatheringMore ==
    ASSUME NEW cl, NEW st, NEW S, NEW k \in Nat, NEW f, Gatherings(f, k, cl, st, S)
    PROVE  \E g : Gatherings(g, k + 1, cl, st, S)
<1> DEFINE next == IF k + 1 \in S /\ cl[k + 1].id # NoPlayer
                   THEN AppendSnapshot(f[k], cl[k + 1].id, cl[k + 1].live) ELSE f[k]
           g == [n \in 0 .. k + 1 |-> IF n = k + 1 THEN next ELSE f[n]]
<1>1. \A n \in 0 .. k : n \in 0 .. k + 1 /\ n # k + 1
  OBVIOUS
<1>2. k + 1 \in 0 .. k + 1 /\ 0 \in 0 .. k /\ k \in 0 .. k
  OBVIOUS
<1>3. /\ \A n \in 0 .. k : g[n] = f[n]
      /\ g[k + 1] = next
      /\ g = [n \in 0 .. k + 1 |-> g[n]]
  BY <1>1, <1>2
<1> HIDE DEF g, next
<1>4. ASSUME NEW n \in 1 .. k + 1
      PROVE  g[n] = IF n \in S /\ cl[n].id # NoPlayer
                    THEN AppendSnapshot(g[n - 1], cl[n].id, cl[n].live) ELSE g[n - 1]
  <2>1. CASE n = k + 1
    <3>1. n - 1 = k
      BY <2>1
    <3>2. g[n - 1] = f[k]
      BY <1>2, <1>3, <3>1
    <3>3. g[n] = IF n \in S /\ cl[n].id # NoPlayer
                 THEN AppendSnapshot(f[k], cl[n].id, cl[n].live) ELSE f[k]
      BY <1>3, <2>1 DEF next
    <3> QED BY <3>2, <3>3
  <2>2. CASE n # k + 1
    <3>1. n \in 1 .. k /\ n \in 0 .. k /\ n - 1 \in 0 .. k
      BY <2>2
    <3>2. g[n] = f[n] /\ g[n - 1] = f[n - 1]
      BY <1>3, <3>1
    <3>3. f[n] = IF n \in S /\ cl[n].id # NoPlayer
                 THEN AppendSnapshot(f[n - 1], cl[n].id, cl[n].live) ELSE f[n - 1]
      BY <3>1 DEF Gatherings
    <3> QED BY <3>2, <3>3
  <2> QED BY <2>1, <2>2
<1>5. g[0] = st
  BY <1>2, <1>3 DEF Gatherings
<1>6. Gatherings(g, k + 1, cl, st, S)
  BY <1>3, <1>4, <1>5 DEF Gatherings
<1> QED BY <1>6

LEMMA GatheredIsGathering ==
    ASSUME MatchLogAssumption, NEW cl, NEW st, NEW S
    PROVE  \E f : Gatherings(f, MaxClients, cl, st, S) /\ Gathered(cl, st, S) = f[MaxClients]
<1> DEFINE m == MaxClients
           Body(g) == [n \in 0 .. m |->
                         IF n = 0 THEN st
                         ELSE IF n \in S /\ cl[n].id # NoPlayer
                              THEN AppendSnapshot(g[n - 1], cl[n].id, cl[n].live)
                              ELSE g[n - 1]]
           upTo == CHOOSE g : g = Body(g)
<1>1. m \in Nat
  BY DEF MatchLogAssumption
<1> HIDE DEF m
<1>2. \E f : Gatherings(f, m, cl, st, S)
  <2> DEFINE N == {n \in Nat : \E f : Gatherings(f, n, cl, st, S)}
  <2>1. 0 \in N
    <3> DEFINE f0 == [n \in 0 .. 0 |-> st]
    <3>1. Gatherings(f0, 0, cl, st, S)
      BY DEF Gatherings
    <3> QED BY <3>1
  <2>2. \A n \in N : n + 1 \in N
    BY OneGatheringMore
  <2>3. N = Nat
    <3> HIDE DEF N
    <3>1. N \in SUBSET Nat
      BY DEF N
    <3> QED BY <2>1, <2>2, <3>1, AllNumbers
  <2> QED BY <1>1, <2>3
<1>3. PICK f : Gatherings(f, m, cl, st, S)
  BY <1>2
<1>4. f = Body(f)
  <2>1. f = [n \in 0 .. m |-> f[n]]
    BY <1>3 DEF Gatherings
  <2>2. \A n \in 0 .. m :
          f[n] = IF n = 0 THEN st
                 ELSE IF n \in S /\ cl[n].id # NoPlayer
                      THEN AppendSnapshot(f[n - 1], cl[n].id, cl[n].live)
                      ELSE f[n - 1]
    <3> SUFFICES ASSUME NEW n \in 0 .. m, n # 0
                 PROVE  f[n] = IF n \in S /\ cl[n].id # NoPlayer
                               THEN AppendSnapshot(f[n - 1], cl[n].id, cl[n].live)
                               ELSE f[n - 1]
      BY <1>3 DEF Gatherings
    <3>1. n \in 1 .. m
      OBVIOUS
    <3> QED BY <1>3, <3>1 DEF Gatherings
  <2> QED BY <2>1, <2>2, Zenon
<1>5. upTo = Body(upTo)
  BY <1>4
<1>6. Gathered(cl, st, S) = upTo[m]
  BY DEF Gathered, m
<1> HIDE DEF upTo
<1>7. \A n \in 0 .. m :
        upTo[n] = IF n = 0 THEN st
                  ELSE IF n \in S /\ cl[n].id # NoPlayer
                       THEN AppendSnapshot(upTo[n - 1], cl[n].id, cl[n].live)
                       ELSE upTo[n - 1]
  BY <1>5, Zenon
<1>8. upTo = [n \in 0 .. m |-> upTo[n]]
  BY <1>5, <1>7
<1>9. \A n \in 1 .. m : n \in 0 .. m /\ n # 0
  OBVIOUS
<1>10. 0 \in 0 .. m
  BY <1>1
<1>11. Gatherings(upTo, m, cl, st, S)
  BY <1>7, <1>8, <1>9, <1>10 DEF Gatherings
<1> QED BY <1>6, <1>11 DEF m

LEMMA GatheringType ==
    ASSUME MatchLogAssumption, NEW cl \in [Slots -> Clients], NEW st \in Storages,
           NEW S, NEW f, Gatherings(f, MaxClients, cl, st, S), NEW n \in 0 .. MaxClients
    PROVE  f[n] \in Storages
<1> DEFINE N == {k \in Nat : k <= MaxClients => f[k] \in Storages}
<1>1. MaxClients \in Nat /\ Slots = 1 .. MaxClients
  BY DEF MatchLogAssumption, Slots
<1>2. 0 \in N
  BY DEF Gatherings
<1>3. ASSUME NEW k \in N PROVE k + 1 \in N
  <2> SUFFICES ASSUME k + 1 <= MaxClients PROVE f[k + 1] \in Storages
    OBVIOUS
  <2>1. k \in Nat /\ f[k] \in Storages /\ k + 1 \in 1 .. MaxClients /\ (k + 1) - 1 = k
    BY <1>1
  <2>2. f[k + 1] = IF k + 1 \in S /\ cl[k + 1].id # NoPlayer
                   THEN AppendSnapshot(f[k], cl[k + 1].id, cl[k + 1].live) ELSE f[k]
    BY <2>1 DEF Gatherings
  <2>3. cl[k + 1] \in Clients
    BY <1>1, <2>1
  <2>4. cl[k + 1].live \in Records /\ (cl[k + 1].id # NoPlayer => cl[k + 1].id \in Players)
    BY <2>3, Fields DEF Persons
  <2> DEFINE i == cl[k + 1].id
             r == cl[k + 1].live
             g == f[k]
  <2>5. g \in Storages /\ r \in Records /\ (i # NoPlayer => i \in Players)
    BY <2>1, <2>4
  <2>6. f[k + 1] = IF k + 1 \in S /\ i # NoPlayer THEN AppendSnapshot(g, i, r) ELSE g
    BY <2>2
  <2> HIDE DEF i, r, g
  <2>7. i # NoPlayer => AppendSnapshot(g, i, r) \in Storages
    BY <2>5, AppendSnapshotMakes
  <2> QED BY <2>5, <2>6, <2>7
<1>4. N = Nat
  <2> HIDE DEF N
  <2>1. N \in SUBSET Nat
    BY DEF N
  <2> QED BY <1>2, <1>3, <2>1, AllNumbers
<1> QED BY <1>1, <1>4

LEMMA GatheredType ==
    ASSUME MatchLogAssumption, NEW cl \in [Slots -> Clients], NEW st \in Storages, NEW S
    PROVE  Gathered(cl, st, S) \in Storages
<1>1. PICK f : /\ Gatherings(f, MaxClients, cl, st, S)
               /\ Gathered(cl, st, S) = f[MaxClients]
  BY GatheredIsGathering
<1>2. MaxClients \in 0 .. MaxClients
  BY DEF MatchLogAssumption
<1>3. f[MaxClients] \in Storages
  BY <1>1, <1>2, GatheringType
<1> QED BY <1>1, <1>3

\* Of the records of the slots of S up to n, the one of the slot a is what g has of p
\* beyond what is stored.
HasUpTo(g, n, cl, st, S, p, a) ==
    \A o \in Origins :
      StoredOf(g, p)[o] =
        StoredOf(st, p)[o]
          + IF a \in S /\ a <= n /\ cl[a].id = p THEN cl[a].live[o] ELSE 0

LEMMA GatheringOn ==
    ASSUME MatchLogAssumption, NEW cl \in [Slots -> Clients], NEW st \in Storages,
           NEW S, S \subseteq Slots, NEW p \in Players, NEW a \in Slots,
           \A s \in S : s # a /\ cl[s].id = p => cl[s].live = Zero,
           NEW f, Gatherings(f, MaxClients, cl, st, S), NEW n \in 0 .. MaxClients
    PROVE  HasUpTo(f[n], n, cl, st, S, p, a)
<1> DEFINE Adds(k) == HasUpTo(f[k], k, cl, st, S, p, a)
           N == {k \in Nat : k <= MaxClients => Adds(k)}
<1>1. /\ MaxClients \in Nat /\ Slots = 1 .. MaxClients
      /\ NoPlayer \notin Players
  BY DEF MatchLogAssumption, Slots
<1>2. \A g \in Storages : \A o \in Origins : StoredOf(g, p)[o] \in Nat
  <2> TAKE g \in Storages
  <2>1. StoredOf(g, p) \in Records
    BY StorageType, ZeroIsRecord DEF StoredOf
  <2> QED BY <2>1 DEF Records
<1>3. 0 \in N
  <2>1. f[0] = st
    BY DEF Gatherings
  <2>2. ~ (a <= 0)
    BY <1>1
  <2>3. Adds(0)
    BY <1>2, <2>1, <2>2 DEF HasUpTo
  <2> HIDE DEF Adds
  <2> QED BY <2>3
<1>4. ASSUME NEW k \in N PROVE k + 1 \in N
  <2> SUFFICES ASSUME k + 1 <= MaxClients PROVE Adds(k + 1)
    OBVIOUS
  <2>1. /\ k \in Nat /\ k <= MaxClients /\ k + 1 \in 1 .. MaxClients /\ k + 1 \in Slots
        /\ k \in 0 .. MaxClients
    BY <1>1
  <2>2. Adds(k)
    BY <2>1
  <2> DEFINE c == cl[k + 1]
  <2>3. f[k + 1] = IF k + 1 \in S /\ c.id # NoPlayer
                   THEN AppendSnapshot(f[k], c.id, c.live) ELSE f[k]
    <3>1. (k + 1) - 1 = k
      BY <2>1
    <3> QED BY <2>1, <3>1 DEF Gatherings
  <2>4. c \in Clients /\ c.id \in Persons /\ c.live \in Records
    BY <2>1, Fields
  <2>5. f[k] \in Storages
    BY <2>1, GatheringType
  <2>6. a <= k + 1 <=> a <= k \/ a = k + 1
    BY <1>1, <2>1
  <2>7. ~ (k + 1 <= k)
    BY <2>1
  <2> HIDE DEF c
  <2> SUFFICES ASSUME NEW o \in Origins
               PROVE  StoredOf(f[k + 1], p)[o] =
                        StoredOf(st, p)[o]
                          + IF a \in S /\ a <= k + 1 /\ cl[a].id = p
                            THEN cl[a].live[o] ELSE 0
    BY DEF HasUpTo
  <2> DEFINE g == f[k]
  <2>8. StoredOf(g, p)[o] =
          StoredOf(st, p)[o]
            + IF a \in S /\ a <= k /\ cl[a].id = p THEN cl[a].live[o] ELSE 0
    BY <2>2 DEF HasUpTo
  <2>9. CASE ~ (k + 1 \in S /\ c.id # NoPlayer)
    <3>1. f[k + 1] = g
      BY <2>3, <2>9
    <3>2. k + 1 \in S => c.id # p
      BY <1>1, <2>9
    <3>3. (a \in S /\ a <= k + 1 /\ cl[a].id = p) <=> (a \in S /\ a <= k /\ cl[a].id = p)
      BY <2>6, <3>2 DEF c
    <3> HIDE DEF g
    <3> QED BY <2>8, <3>1, <3>3
  <2>10. CASE k + 1 \in S /\ c.id # NoPlayer
    <3> DEFINE i == c.id
               r == c.live
               new == AppendSnapshot(g, i, r)
    <3>1. f[k + 1] = new
      BY <2>3, <2>10
    <3>2. i \in Players /\ r \in Records
      BY <2>4, <2>10 DEF Persons
    <3> HIDE DEF i, r, g
    <3>3. g \in Storages
      BY <2>5 DEF g
    <3>4. /\ \A q \in Players : q # i => StoredOf(new, q) = StoredOf(g, q)
          /\ \A u \in Origins : StoredOf(new, i)[u] = StoredOf(g, i)[u] + r[u]
      BY <3>2, <3>3, AppendSnapshotMakes, ZenonT(30)
    <3> HIDE DEF new
    <3>5. StoredOf(st, p)[o] \in Nat /\ r[o] \in Nat /\ StoredOf(g, p)[o] \in Nat
      BY <1>2, <3>2, <3>3 DEF Records
    <3> SUFFICES StoredOf(new, p)[o] =
                   StoredOf(st, p)[o]
                     + IF a \in S /\ a <= k + 1 /\ cl[a].id = p THEN cl[a].live[o] ELSE 0
      BY <3>1
    <3>6. CASE i # p
      <4>1. StoredOf(new, p) = StoredOf(g, p)
        BY <3>4, <3>6
      <4>2. (a \in S /\ a <= k + 1 /\ cl[a].id = p) <=> (a \in S /\ a <= k /\ cl[a].id = p)
        BY <2>6, <3>6 DEF c, i
      <4> QED BY <2>8, <4>1, <4>2
    <3>7. CASE i = p /\ a = k + 1
      <4>1. StoredOf(new, p)[o] = StoredOf(g, p)[o] + r[o]
        BY <3>4, <3>7
      <4>2. StoredOf(g, p)[o] = StoredOf(st, p)[o]
        BY <2>7, <2>8, <3>5, <3>7
      <4>3. a \in S /\ a <= k + 1 /\ cl[a].id = p /\ cl[a].live[o] = r[o]
        BY <2>1, <2>10, <3>7 DEF c, i, r
      <4> QED BY <4>1, <4>2, <4>3
    <3>8. CASE i = p /\ a # k + 1
      <4>1. StoredOf(new, p)[o] = StoredOf(g, p)[o] + r[o]
        BY <3>4, <3>8
      <4>2. r = Zero /\ r[o] = 0
        BY <2>10, <3>8, ZeroIsRecord DEF c, i, r
      <4>3. (a \in S /\ a <= k + 1 /\ cl[a].id = p) <=> (a \in S /\ a <= k /\ cl[a].id = p)
        BY <2>6, <3>8
      <4> QED BY <2>8, <3>5, <4>1, <4>2, <4>3
    <3> QED BY <3>6, <3>7, <3>8
  <2> QED BY <2>9, <2>10
<1>5. N = Nat
  <2> HIDE DEF N
  <2>1. N \in SUBSET Nat
    BY DEF N
  <2> QED BY <1>3, <1>4, <2>1, AllNumbers
<1> HIDE DEF Adds
<1>6. Adds(n)
  BY <1>1, <1>5
<1> QED BY <1>6 DEF Adds

LEMMA GatheredMakes ==
    ASSUME MatchLogAssumption, NEW cl \in [Slots -> Clients], NEW st \in Storages,
           NEW S, S \subseteq Slots, NEW p \in Players, NEW a \in Slots,
           \A s \in S : s # a /\ cl[s].id = p => cl[s].live = Zero
    PROVE  \A o \in Origins :
             StoredOf(Gathered(cl, st, S), p)[o] =
               StoredOf(st, p)[o]
                 + IF a \in S /\ cl[a].id = p THEN cl[a].live[o] ELSE 0
<1>1. PICK f : /\ Gatherings(f, MaxClients, cl, st, S)
               /\ Gathered(cl, st, S) = f[MaxClients]
  BY GatheredIsGathering
<1>2. MaxClients \in 0 .. MaxClients /\ \A s \in Slots : s <= MaxClients
  BY DEF MatchLogAssumption, Slots
<1>3. MaxClients \in 0 .. MaxClients
  BY <1>2
<1>4. HasUpTo(f[MaxClients], MaxClients, cl, st, S, p, a)
  BY <1>1, <1>3, GatheringOn
<1> DEFINE m == MaxClients
<1> HIDE DEF m
<1>5. Gathered(cl, st, S) = f[m]
  BY <1>1 DEF m
<1>6. \A s \in Slots : s <= m
  BY <1>2 DEF m
<1>7. HasUpTo(f[m], m, cl, st, S, p, a)
  BY <1>4 DEF m
<1> QED BY <1>5, <1>6, <1>7 DEF HasUpTo

LEMMA RecordsEqual ==
    ASSUME NEW r \in Records, NEW q \in Records, \A o \in Origins : r[o] = q[o]
    PROVE  r = q
  BY DEF Records

LEMMA StoredIsRecord ==
    ASSUME MatchLogAssumption, NEW st \in Storages, NEW p
    PROVE  StoredOf(st, p) \in Records
  BY StorageType, ZeroIsRecord DEF StoredOf

\* r is the record of p: the one stored or, if there is none, the one of its slot.
Held(r, p, cl, st) ==
    IF p \in DOMAIN st THEN r = st[p]
    ELSE \/ \E s \in Slots : cl[s].inGame /\ cl[s].player = p /\ r = cl[s].live
         \/ r = Zero /\ \A s \in Slots : cl[s].inGame => cl[s].player # p

\* No player has two slots.
OneSlot(cl, p) ==
    \A s, t \in Slots : cl[s].player = p /\ cl[t].player = p => s = t

\* What is gathered of p is its record, if slots without it have nothing to add.
LEMMA GatheredHeld ==
    ASSUME MatchLogAssumption, NEW cl \in [Slots -> Clients], NEW st \in Storages,
           NEW S, S \subseteq Slots, NEW p \in Players,
           \A s \in S : cl[s].id = p /\ cl[s].live # Zero => cl[s].player = p /\ cl[s].inGame,
           \A s \in Slots : cl[s].inGame /\ cl[s].player = p => s \in S /\ cl[s].id = p,
           OneSlot(cl, p),
           \A s \in Slots : cl[s].player = p /\ p \in DOMAIN st => cl[s].live = Zero
    PROVE  Held(StoredOf(Gathered(cl, st, S), p), p, cl, st)
<1> DEFINE all == Gathered(cl, st, S)
<1>0. all \in Storages
  BY GatheredType
<1>1. \A s \in Slots : cl[s].live \in Records
  BY Fields
<1>2. 1 \in Slots
  BY DEF MatchLogAssumption, Slots
<1>3. CASE \E a \in Slots : cl[a].inGame /\ cl[a].player = p
  <2>1. PICK a \in Slots : cl[a].inGame /\ cl[a].player = p
    BY <1>3
  <2>2. a \in S /\ cl[a].id = p
    BY <2>1
  <2>3. \A s \in S : s # a /\ cl[s].id = p => cl[s].live = Zero
    BY <2>1 DEF OneSlot
  <2>4. \A o \in Origins :
          StoredOf(all, p)[o] =
            StoredOf(st, p)[o] + IF a \in S /\ cl[a].id = p THEN cl[a].live[o] ELSE 0
    BY <2>3, GatheredMakes
  <2> HIDE DEF all
  <2>5. \A o \in Origins : StoredOf(all, p)[o] = StoredOf(st, p)[o] + cl[a].live[o]
    BY <2>2, <2>4
  <2>6. StoredOf(all, p) \in Records /\ StoredOf(st, p) \in Records
    BY <1>0, StoredIsRecord
  <2>7. CASE p \in DOMAIN st
    <3>1. \A o \in Origins : cl[a].live[o] = 0
      BY <2>1, <2>7, ZeroIsRecord
    <3>2. \A o \in Origins : StoredOf(all, p)[o] = StoredOf(st, p)[o]
      BY <2>5, <2>6, <3>1 DEF Records
    <3>3. StoredOf(all, p) = st[p]
      BY <2>6, <2>7, <3>2, RecordsEqual DEF StoredOf
    <3> QED BY <2>7, <3>3 DEF Held, all
  <2>8. CASE p \notin DOMAIN st
    <3>1. \A o \in Origins : StoredOf(st, p)[o] = 0
      BY <2>8, ZeroIsRecord DEF StoredOf
    <3>2. \A o \in Origins : StoredOf(all, p)[o] = cl[a].live[o]
      BY <1>1, <2>5, <2>6, <3>1 DEF Records
    <3>3. StoredOf(all, p) = cl[a].live
      BY <1>1, <2>6, <3>2, RecordsEqual
    <3> QED BY <2>1, <2>8, <3>3 DEF Held, all
  <2> QED BY <2>7, <2>8
<1>4. CASE ~ \E a \in Slots : cl[a].inGame /\ cl[a].player = p
  <2>1. \A s \in S : cl[s].id = p => cl[s].live = Zero
    BY <1>4
  <2>2. PICK a \in Slots : a = 1
    BY <1>2
  <2>3. \A o \in Origins :
          StoredOf(all, p)[o] =
            StoredOf(st, p)[o] + IF a \in S /\ cl[a].id = p THEN cl[a].live[o] ELSE 0
    BY <2>1, GatheredMakes
  <2> HIDE DEF all
  <2>4. StoredOf(all, p) \in Records /\ StoredOf(st, p) \in Records
    BY <1>0, StoredIsRecord
  <2>5. ASSUME NEW o \in Origins
        PROVE  StoredOf(all, p)[o] = StoredOf(st, p)[o]
    <3>1. (IF a \in S /\ cl[a].id = p THEN cl[a].live[o] ELSE 0) = 0
      BY <2>1, ZeroIsRecord
    <3>2. StoredOf(all, p)[o] = StoredOf(st, p)[o] + 0
      BY <2>3, <3>1
    <3> QED BY <2>4, <3>2 DEF Records
  <2>6. StoredOf(all, p) = StoredOf(st, p)
    BY <2>4, <2>5, RecordsEqual
  <2>7. Held(StoredOf(st, p), p, cl, st)
    BY <1>4 DEF Held, StoredOf
  <2> QED BY <2>6, <2>7 DEF all
<1> QED BY <1>3, <1>4

-----------------------------------------------------------------------------
(* The log.                                                                  *)

LEMMA PlausibleMakes ==
    ASSUME NEW st \in Storages, NEW skip
    PROVE  /\ Plausible(st, skip) \in Storages
           /\ DOMAIN Plausible(st, skip) = DOMAIN st \ skip
           /\ \A p \in DOMAIN st \ skip : Plausible(st, skip)[p] = st[p]
<1> DEFINE new == Plausible(st, skip)
<1>1. DOMAIN new = DOMAIN st \ skip /\ \A p \in DOMAIN st \ skip : new[p] = st[p]
  BY DEF Plausible
<1>2. new = [q \in DOMAIN new |-> new[q]]
  BY DEF Plausible
<1>3. DOMAIN st \subseteq Players /\ \A q \in DOMAIN st : st[q] \in Records
  BY StorageType
<1> HIDE DEF new
<1>4. DOMAIN new \subseteq Players /\ \A q \in DOMAIN new : new[q] \in Records
  BY <1>1, <1>3
<1>5. new \in Storages
  BY <1>2, <1>4, StorageType
<1> QED BY <1>1, <1>5 DEF new

LEMMA UpsertMakes ==
    ASSUME NEW old \in [Players -> Records], NEW st \in Storages
    PROVE  /\ Upsert(old, st) \in [Players -> Records]
           /\ \A p \in Players : Upsert(old, st)[p] = IF p \in DOMAIN st THEN st[p] ELSE old[p]
<1>1. \A q \in DOMAIN st : st[q] \in Records
  BY StorageType
<1> QED BY <1>1 DEF Upsert

LEMMA NewEntries ==
    ASSUME MatchLogAssumption
    PROVE  /\ NoRows \in [Players -> Records]
           /\ Deleted \in Entries /\ Deleted.rows = NoRows /\ Deleted.state = "deleted"
           /\ Absent \in Entries /\ Absent.rows = NoRows /\ Absent.state = "absent"
<1>1. NoRows \in [Players -> Records]
  BY ZeroIsRecord DEF NoRows
<1> QED BY <1>1 DEF Deleted, Absent, Entries, States

LEMMA EntryOf ==
    ASSUME NEW state \in States, NEW rows \in [Players -> Records], NEW e,
           e = [state |-> state, rows |-> rows]
    PROVE  e \in Entries /\ e.state = state /\ e.rows = rows
  BY DEF Entries

LEMMA MatchFields ==
    ASSUME NEW m \in Matches
    PROVE  /\ m.log \in NoLog .. MaxMatches /\ m.begun \in 0 .. MaxMatches
           /\ m.last \in NoLog .. MaxMatches /\ m.stored \in Storages
           /\ m.table \in [1 .. MaxMatches -> Entries]
           /\ \A t \in 1 .. MaxMatches : /\ m.table[t] \in Entries
                                         /\ m.table[t].state \in States
                                         /\ m.table[t].rows \in [Players -> Records]
           /\ m.log # NoLog => m.log \in 1 .. MaxMatches
<1>1. /\ m.log \in NoLog .. MaxMatches /\ m.begun \in 0 .. MaxMatches
      /\ m.last \in NoLog .. MaxMatches /\ m.stored \in Storages
      /\ m.table \in [1 .. MaxMatches -> Entries]
  BY DEF Matches
<1>2. \A e \in Entries : e.state \in States /\ e.rows \in [Players -> Records]
  BY DEF Entries
<1>3. m.log # NoLog => m.log \in 1 .. MaxMatches
  BY <1>1 DEF NoLog
<1> QED BY <1>1, <1>2, <1>3

LEMMA EmptyStorage == <<>> \in Storages /\ DOMAIN <<>> = {}
<1>1. <<>> = [q \in {} |-> q] /\ DOMAIN <<>> = {}
  OBVIOUS
<1> QED BY <1>1, StorageType

\* What the actions make of the record of a match.
LEMMA ClearedMakes ==
    ASSUME MatchLogAssumption, NEW m \in Matches
    PROVE  /\ Cleared(m) \in Matches /\ Cleared(m).log = NoLog
           /\ Cleared(m).begun = m.begun /\ Cleared(m).last = m.last
           /\ Cleared(m).stored = <<>> /\ Cleared(m).table = m.table
<1>1. NoLog \in NoLog .. MaxMatches /\ <<>> \in Storages
  BY EmptyStorage DEF MatchLogAssumption, NoLog
<1> QED BY <1>1 DEF Cleared, Matches

WithLast(m, x) == [m EXCEPT !.last = x]
WithStored(m, st) == [m EXCEPT !.stored = st]
WithEntry(m, t, e) == [m EXCEPT !.table[t] = e]
WithLastAndEntry(m, x, t, e) == [m EXCEPT !.last = x, !.table[t] = e]

LEMMA WithLastMakes ==
    ASSUME NEW m \in Matches, NEW x \in NoLog .. MaxMatches
    PROVE  LET q == WithLast(m, x)
           IN /\ q \in Matches /\ q.log = m.log /\ q.begun = m.begun /\ q.last = x
              /\ q.stored = m.stored /\ q.table = m.table
  BY DEF Matches, WithLast

LEMMA WithStoredMakes ==
    ASSUME NEW m \in Matches, NEW x \in Storages
    PROVE  LET q == WithStored(m, x)
           IN /\ q \in Matches /\ q.log = m.log /\ q.begun = m.begun /\ q.last = m.last
              /\ q.stored = x /\ q.table = m.table
  BY DEF Matches, WithStored

LEMMA WithEntryMakes ==
    ASSUME NEW m \in Matches, NEW t \in 1 .. MaxMatches, NEW e \in Entries
    PROVE  LET q == WithEntry(m, t, e)
           IN /\ q \in Matches /\ q.log = m.log /\ q.begun = m.begun /\ q.last = m.last
              /\ q.stored = m.stored /\ q.table = [m.table EXCEPT ![t] = e]
  BY DEF Matches, WithEntry

LEMMA WithLastAndEntryMakes ==
    ASSUME NEW m \in Matches, NEW x \in NoLog .. MaxMatches, NEW t \in 1 .. MaxMatches,
           NEW e \in Entries
    PROVE  LET q == WithLastAndEntry(m, x, t, e)
           IN /\ q \in Matches /\ q.log = m.log /\ q.begun = m.begun /\ q.last = x
              /\ q.stored = m.stored /\ q.table = [m.table EXCEPT ![t] = e]
  BY DEF Matches, WithLastAndEntry

\* The ways in which a match ends.
Ends(f, m, all, skip) ==
    /\ f \in Matches /\ f.log = NoLog /\ f.begun = m.begun /\ f.stored = <<>>
    /\ \/ f.table = m.table /\ f.last = m.last
       \/ f.last = NoLog /\ f.table = [m.table EXCEPT ![m.log] = Deleted]
       \/ /\ f.last = m.log
          /\ f.table = [m.table EXCEPT ![m.log] =
                          [state |-> "final",
                           rows |-> Upsert(m.table[m.log].rows, Plausible(all, skip))]]

LEMMA FinalizedMakes ==
    ASSUME MatchLogAssumption, NEW cl, NEW m \in Matches, NEW skip,
           NEW all \in Storages,
           all = Gathered(EnsureAll(cl), m.stored, {s \in Slots : ValidClient(cl[s])})
    PROVE  /\ m.log = NoLog => Finalized(cl, m, skip) = m
           /\ m.log # NoLog => Ends(Finalized(cl, m, skip), m, all, skip)
<1> DEFINE valid == Plausible(all, skip)
           row == [state |-> "final", rows |-> Upsert(m.table[m.log].rows, valid)]
           a == [m EXCEPT !.last = NoLog, !.table[m.log] = Deleted]
           b == [m EXCEPT !.last = m.log,
                          !.table[m.log] = [state |-> "final",
                                            rows |-> Upsert(@.rows, valid)]]
<1>1. Finalized(cl, m, skip) =
        IF m.log = NoLog THEN m
        ELSE IF ~ready \/ DOMAIN valid = {} THEN Cleared(m)
        ELSE IF Cardinality(DOMAIN valid) = 1 THEN Cleared(a) ELSE Cleared(b)
  BY DEF Finalized
<1> SUFFICES ASSUME m.log # NoLog
             PROVE  Ends(Finalized(cl, m, skip), m, all, skip)
  BY <1>1
<1>2. /\ m.log \in 1 .. MaxMatches /\ m.table \in [1 .. MaxMatches -> Entries]
      /\ m.table[m.log].rows \in [Players -> Records] /\ m.stored \in Storages
      /\ m.begun \in 0 .. MaxMatches /\ m.last \in NoLog .. MaxMatches
      /\ m.log \in NoLog .. MaxMatches /\ NoLog \in NoLog .. MaxMatches
  BY MatchFields DEF NoLog, MatchLogAssumption
<1>3. valid \in Storages
  BY PlausibleMakes
<1>4. row \in Entries
  <2> DEFINE new == Upsert(m.table[m.log].rows, valid)
  <2> HIDE DEF valid
  <2>1. new \in [Players -> Records]
    BY <1>2, <1>3, UpsertMakes
  <2> HIDE DEF new
  <2>2. row = [state |-> "final", rows |-> new] /\ "final" \in States
    BY DEF new, States
  <2> QED BY <2>1, <2>2, EntryOf
<1>5. Deleted \in Entries
  BY NewEntries
<1> DEFINE i == m.log
<1> HIDE DEF i
<1>6. i \in 1 .. MaxMatches /\ i \in NoLog .. MaxMatches /\ NoLog \in NoLog .. MaxMatches
  BY <1>2 DEF i
<1>7. /\ a = WithLastAndEntry(m, NoLog, i, Deleted)
      /\ b = WithLastAndEntry(m, i, i, row)
  BY DEF i, WithLastAndEntry
<1> HIDE DEF row, valid, b, a
<1>12. /\ a \in Matches /\ a.begun = m.begun /\ a.last = NoLog
       /\ a.table = [m.table EXCEPT ![i] = Deleted]
  BY <1>5, <1>6, <1>7, WithLastAndEntryMakes
<1>13. /\ b \in Matches /\ b.begun = m.begun /\ b.last = i
       /\ b.table = [m.table EXCEPT ![i] = row]
  BY <1>4, <1>6, <1>7, WithLastAndEntryMakes
<1>8. /\ Cleared(m) \in Matches /\ Cleared(m).log = NoLog
      /\ Cleared(m).begun = m.begun /\ Cleared(m).last = m.last
      /\ Cleared(m).stored = <<>> /\ Cleared(m).table = m.table
  BY ClearedMakes
<1>9. /\ Cleared(a) \in Matches /\ Cleared(a).log = NoLog
      /\ Cleared(a).begun = m.begun /\ Cleared(a).last = NoLog
      /\ Cleared(a).stored = <<>>
      /\ Cleared(a).table = [m.table EXCEPT ![m.log] = Deleted]
  BY <1>12, ClearedMakes DEF i
<1>10. /\ Cleared(b) \in Matches /\ Cleared(b).log = NoLog
       /\ Cleared(b).begun = m.begun /\ Cleared(b).last = m.log
       /\ Cleared(b).stored = <<>>
       /\ Cleared(b).table = [m.table EXCEPT ![m.log] = row]
  BY <1>13, ClearedMakes DEF i
<1>11. /\ Ends(Cleared(m), m, all, skip)
       /\ Ends(Cleared(a), m, all, skip)
       /\ Ends(Cleared(b), m, all, skip)
  BY <1>8, <1>9, <1>10 DEF Ends, row, valid
<1> QED BY <1>1, <1>11

-----------------------------------------------------------------------------
(* The end of a match, seen by one player.                                   *)

\* A client in the game is validated; a slot without a validated client has nothing.
Settled(cl) ==
    \A s \in Slots :
        /\ cl[s].inGame => cl[s].authorized
        /\ cl[s].authorized => ValidClient(cl[s])
        /\ ~ cl[s].authorized => cl[s].live = Zero

\* p has one slot at most, and no hits in it that are stored too.
LoneRecord(cl, st, p) ==
    /\ OneSlot(cl, p)
    /\ \A s \in Slots :
         cl[s].player = p /\ (~ cl[s].inGame \/ p \in DOMAIN st) => cl[s].live = Zero

\* An entry that the end of the match makes of old: what it has of p is the record of p
\* (or nothing, and old had what there was).
EndedEntry(e, old, p, cl, st, skip) ==
    /\ e.state = "final"
    /\ \E r : /\ Held(r, p, cl, st)
              /\ e.rows[p] = r \/ (e.rows[p] = old.rows[p] /\ (p \in skip \/ r = Zero))

EndsFor(f, m, p, cl, skip) ==
    /\ f \in Matches /\ f.log = NoLog /\ f.begun = m.begun /\ f.stored = <<>>
    /\ \A t \in 1 .. MaxMatches : t # m.log => f.table[t] = m.table[t]
    /\ \/ f.last = m.last /\ f.table[m.log] = m.table[m.log]
       \/ f.last = NoLog /\ f.table[m.log] = Deleted
       \/ f.last = m.log /\ EndedEntry(f.table[m.log], m.table[m.log], p, cl, m.stored, skip)

LEMMA EnsureAllMakes ==
    ASSUME NEW cl \in [Slots -> Clients]
    PROVE  /\ EnsureAll(cl) \in [Slots -> Clients]
           /\ \A s \in Slots : EnsureAll(cl)[s] = Ensure(cl[s])
  BY EnsureMakes DEF EnsureAll

LEMMA FinalizedType ==
    ASSUME MatchLogAssumption, NEW cl \in [Slots -> Clients], NEW m \in Matches, NEW skip
    PROVE  Finalized(cl, m, skip) \in Matches
<1> DEFINE all == Gathered(EnsureAll(cl), m.stored, {s \in Slots : ValidClient(cl[s])})
<1>1. all \in Storages
  BY EnsureAllMakes, MatchFields, GatheredType
<1> HIDE DEF all
<1>2. PICK a \in Storages : a = all
  BY <1>1
<1>3. a = Gathered(EnsureAll(cl), m.stored, {s \in Slots : ValidClient(cl[s])})
  BY <1>2 DEF all
<1>4. /\ m.log = NoLog => Finalized(cl, m, skip) = m
      /\ m.log # NoLog => Ends(Finalized(cl, m, skip), m, a, skip)
  BY <1>3, FinalizedMakes
<1> QED BY <1>4 DEF Ends

LEMMA FinalizedFor ==
    ASSUME MatchLogAssumption, NEW cl \in [Slots -> Clients], NEW m \in Matches, NEW skip,
           NEW p \in Players, Settled(cl), LoneRecord(cl, m.stored, p), m.log # NoLog
    PROVE  EndsFor(Finalized(cl, m, skip), m, p, cl, skip)
<1> DEFINE e == EnsureAll(cl)
           S == {s \in Slots : ValidClient(cl[s])}
           st == m.stored
           f == Finalized(cl, m, skip)
<1>1. /\ e \in [Slots -> Clients] /\ st \in Storages /\ S \subseteq Slots
      /\ m.log \in 1 .. MaxMatches /\ m.table \in [1 .. MaxMatches -> Entries]
  BY EnsureAllMakes, MatchFields
<1>2. \A s \in Slots : /\ e[s].player = cl[s].player /\ e[s].inGame = cl[s].inGame
                       /\ e[s].live = cl[s].live
                       /\ e[s].id = IF cl[s].authorized THEN cl[s].player ELSE cl[s].id
  BY EnsureAllMakes, EnsureMakes DEF Same
<1>3. PICK all \in Storages : all = Gathered(e, st, S)
  BY <1>1, GatheredType
<1> HIDE DEF e
<1>4. /\ \A s \in S : e[s].id = p /\ e[s].live # Zero => e[s].player = p /\ e[s].inGame
      /\ \A s \in Slots : e[s].inGame /\ e[s].player = p => s \in S /\ e[s].id = p
      /\ OneSlot(e, p)
      /\ \A s \in Slots : e[s].player = p /\ p \in DOMAIN st => e[s].live = Zero
  BY <1>2 DEF Settled, LoneRecord, OneSlot
<1>5. Held(StoredOf(all, p), p, e, st)
  <2> HIDE DEF S, st
  <2> QED BY <1>1, <1>3, <1>4, GatheredHeld
<1>6. Held(StoredOf(all, p), p, cl, st)
  BY <1>2, <1>5 DEF Held
<1>7. Ends(f, m, all, skip)
  BY <1>3, FinalizedMakes DEF e
<1> HIDE DEF f, st, S
<1> DEFINE old == m.table[m.log].rows
           new == Upsert(old, Plausible(all, skip))
<1>8. old \in [Players -> Records]
  BY <1>1, MatchFields
<1>9. Plausible(all, skip) \in Storages
  BY PlausibleMakes
<1>10. new[p] = IF p \in DOMAIN all /\ p \notin skip THEN all[p] ELSE old[p]
  <2> HIDE DEF old
  <2> DEFINE v == Plausible(all, skip)
  <2>1. DOMAIN v = DOMAIN all \ skip /\ \A q \in DOMAIN all \ skip : v[q] = all[q]
    BY PlausibleMakes
  <2>2. v \in Storages
    BY <1>9
  <2>3. new = Upsert(old, v)
    OBVIOUS
  <2> HIDE DEF v, new
  <2>4. Upsert(old, v)[p] = IF p \in DOMAIN v THEN v[p] ELSE old[p]
    BY <1>8, <2>2, UpsertMakes
  <2>5. p \in DOMAIN v => v[p] = all[p]
    BY <2>1
  <2> QED BY <2>1, <2>3, <2>4, <2>5
<1>11. new[p] = StoredOf(all, p) \/ (new[p] = old[p] /\ (p \in skip \/ StoredOf(all, p) = Zero))
  BY <1>10 DEF StoredOf
<1> HIDE DEF new
<1>12. \A t \in 1 .. MaxMatches : t # m.log => f.table[t] = m.table[t]
  BY <1>1, <1>7 DEF Ends
<1>13. \/ f.last = m.last /\ f.table[m.log] = m.table[m.log]
       \/ f.last = NoLog /\ f.table[m.log] = Deleted
       \/ f.last = m.log /\ f.table[m.log] = [state |-> "final", rows |-> new]
  BY <1>1, <1>7 DEF Ends, new
<1>14. ASSUME f.table[m.log] = [state |-> "final", rows |-> new]
       PROVE  EndedEntry(f.table[m.log], m.table[m.log], p, cl, m.stored, skip)
  <2>1. f.table[m.log].state = "final" /\ f.table[m.log].rows = new
    BY <1>14
  <2> QED BY <1>6, <1>11, <2>1 DEF EndedEntry, st
<1>15. f \in Matches /\ f.log = NoLog /\ f.begun = m.begun /\ f.stored = <<>>
  BY <1>7 DEF Ends
<1>16. EndsFor(f, m, p, cl, skip)
  BY <1>12, <1>13, <1>14, <1>15 DEF EndsFor
<1> QED BY <1>16 DEF f

LEMMA BegunMakes ==
    ASSUME MatchLogAssumption, NEW m \in Matches, m.begun < MaxMatches, NEW little,
           ready \in BOOLEAN
    PROVE  LET b == Begun(m, little)
           IN /\ b \in Matches /\ b.log = m.begun + 1 /\ b.begun = m.begun + 1
              /\ b.stored = <<>> /\ b.last \in {NoLog, m.last}
              /\ \A t \in 1 .. MaxMatches :
                   b.table[t] = m.table[t] \/ (t = m.last /\ b.table[t] = Deleted)
<1> DEFINE table == [t \in DOMAIN m.table |->
                       IF t = m.last /\ ready /\ little THEN Deleted ELSE m.table[t]]
           last == IF ready THEN NoLog ELSE m.last
           b == Begun(m, little)
<1>1. /\ m.begun \in 0 .. MaxMatches /\ m.last \in NoLog .. MaxMatches
      /\ m.table \in [1 .. MaxMatches -> Entries]
  BY MatchFields
<1>2. Deleted \in Entries /\ <<>> \in Storages /\ NoLog \in NoLog .. MaxMatches
  BY NewEntries, EmptyStorage DEF MatchLogAssumption, NoLog
<1>3. /\ table \in [1 .. MaxMatches -> Entries]
      /\ \A t \in 1 .. MaxMatches :
           table[t] = m.table[t] \/ (t = m.last /\ table[t] = Deleted)
  BY <1>1, <1>2
<1>4. m.begun + 1 \in 0 .. MaxMatches /\ m.begun + 1 \in NoLog .. MaxMatches
  BY <1>1 DEF MatchLogAssumption, NoLog
<1>5. last \in {NoLog, m.last} /\ last \in NoLog .. MaxMatches
  BY <1>1, <1>2
<1>6. b = [m EXCEPT !.log = m.begun + 1, !.begun = m.begun + 1, !.stored = <<>>,
                    !.last = last, !.table = table]
  BY DEF Begun
<1> HIDE DEF table, last, b
<1>7. /\ b \in Matches /\ b.log = m.begun + 1 /\ b.begun = m.begun + 1
      /\ b.stored = <<>> /\ b.last = last /\ b.table = table
  BY <1>2, <1>3, <1>4, <1>5, <1>6 DEF Matches
<1> QED BY <1>3, <1>5, <1>7 DEF b

-----------------------------------------------------------------------------
(* What the actions make of a slot.                                          *)

Seated(c, p) == [c EXCEPT !.player = p]
Validated(c) == [c EXCEPT !.authorized = TRUE]
Inside(c) == [c EXCEPT !.inGame = TRUE]
Outside(c) == [c EXCEPT !.inGame = FALSE]
Counted(c, o) == [c EXCEPT !.live[o] = @ + 1]
LifeAnswered(c) == [c EXCEPT !.lifePending = FALSE, !.lifeLoaded = TRUE]
LifeFailed(c) == [c EXCEPT !.lifePending = FALSE]
MapAnswered(c) == [c EXCEPT !.mapPending = FALSE, !.mapLoaded = TRUE]
MapFilled(c, r) == [c EXCEPT !.mapPending = FALSE, !.mapLoaded = TRUE, !.live = r]
Given(c, r) == [c EXCEPT !.live = r, !.mapLoaded = TRUE]

LEMMA SlotMakes ==
    ASSUME NEW c \in Clients
    PROVE  /\ \A p \in Persons :
                /\ Seated(c, p) \in Clients /\ Seated(c, p).player = p
                /\ Seated(c, p).inGame = c.inGame /\ Seated(c, p).authorized = c.authorized
                /\ Seated(c, p).id = c.id /\ Seated(c, p).live = c.live
                /\ Seated(c, p).lifePending = c.lifePending
                /\ Seated(c, p).mapPending = c.mapPending
           /\ Validated(c) \in Clients /\ Validated(c).player = c.player
           /\ Validated(c).inGame = c.inGame /\ Validated(c).authorized
           /\ Validated(c).id = c.id /\ Validated(c).live = c.live
           /\ Validated(c).lifePending = c.lifePending
           /\ Validated(c).mapPending = c.mapPending
           /\ Inside(c) \in Clients /\ Inside(c).player = c.player
           /\ Inside(c).inGame /\ Inside(c).authorized = c.authorized
           /\ Inside(c).id = c.id /\ Inside(c).live = c.live
           /\ Inside(c).lifePending = c.lifePending
           /\ Inside(c).mapPending = c.mapPending
           /\ Outside(c) \in Clients /\ Outside(c).player = c.player
           /\ ~ Outside(c).inGame /\ Outside(c).authorized = c.authorized
           /\ Outside(c).id = c.id /\ Outside(c).live = c.live
           /\ Outside(c).lifePending = c.lifePending
           /\ Outside(c).mapPending = c.mapPending
  BY DEF Clients, Seated, Validated, Inside, Outside

LEMMA AnsweredMakes ==
    ASSUME NEW c \in Clients
    PROVE  /\ LifeAnswered(c) \in Clients /\ Same(LifeAnswered(c), c)
           /\ ~ LifeAnswered(c).lifePending /\ LifeAnswered(c).mapPending = c.mapPending
           /\ LifeFailed(c) \in Clients /\ Same(LifeFailed(c), c)
           /\ ~ LifeFailed(c).lifePending /\ LifeFailed(c).mapPending = c.mapPending
           /\ MapAnswered(c) \in Clients /\ Same(MapAnswered(c), c)
           /\ MapAnswered(c).lifePending = c.lifePending /\ ~ MapAnswered(c).mapPending
  BY DEF Clients, LifeAnswered, LifeFailed, MapAnswered, Same

LEMMA FilledMakes ==
    ASSUME NEW c \in Clients, NEW r \in Records
    PROVE  /\ MapFilled(c, r) \in Clients /\ MapFilled(c, r).player = c.player
           /\ MapFilled(c, r).inGame = c.inGame
           /\ MapFilled(c, r).authorized = c.authorized
           /\ MapFilled(c, r).id = c.id /\ MapFilled(c, r).live = r
           /\ MapFilled(c, r).lifePending = c.lifePending
           /\ ~ MapFilled(c, r).mapPending
           /\ Given(c, r) \in Clients /\ Given(c, r).player = c.player
           /\ Given(c, r).inGame = c.inGame /\ Given(c, r).authorized = c.authorized
           /\ Given(c, r).id = c.id /\ Given(c, r).live = r
           /\ Given(c, r).lifePending = c.lifePending
           /\ Given(c, r).mapPending = c.mapPending
  BY DEF Clients, MapFilled, Given

LEMMA CountedMakes ==
    ASSUME NEW c \in Clients, NEW o \in Origins
    PROVE  /\ Counted(c, o) \in Clients /\ Counted(c, o).player = c.player
           /\ Counted(c, o).inGame = c.inGame /\ Counted(c, o).authorized = c.authorized
           /\ Counted(c, o).id = c.id /\ Counted(c, o).live = [c.live EXCEPT ![o] = @ + 1]
           /\ Counted(c, o).lifePending = c.lifePending
           /\ Counted(c, o).mapPending = c.mapPending
<1>1. c.live \in Records /\ [c.live EXCEPT ![o] = @ + 1] \in Records
  BY Fields DEF Records
<1>2. Counted(c, o) = [c EXCEPT !.live = [c.live EXCEPT ![o] = @ + 1]]
  BY DEF Counted
<1> DEFINE r == [c.live EXCEPT ![o] = @ + 1]
<1> HIDE DEF r
<1>3. r \in Records /\ Counted(c, o) = [c EXCEPT !.live = r]
  BY <1>1, <1>2 DEF r
<1>4. /\ Counted(c, o) \in Clients /\ Counted(c, o).player = c.player
      /\ Counted(c, o).inGame = c.inGame /\ Counted(c, o).authorized = c.authorized
      /\ Counted(c, o).id = c.id /\ Counted(c, o).live = r
      /\ Counted(c, o).lifePending = c.lifePending
      /\ Counted(c, o).mapPending = c.mapPending
  BY <1>3 DEF Clients
<1> QED BY <1>4 DEF r

\* The slot s enters the game; what it gets is what is stored under its id.
LEMMA EnteredMakes ==
    ASSUME MatchLogAssumption, NEW cl, NEW s, cl[s] \in Clients, NEW m \in Matches
    PROVE  LET c == cl[s] d == Entered(cl, m, s)
           IN /\ d \in Clients /\ d.player = c.player
              /\ d.inGame /\ d.authorized = c.authorized
              /\ d.id = IF c.authorized THEN c.player ELSE c.id
              /\ d.live = StoredOf(m.stored, d.id)
              /\ d.lifePending = c.lifePending /\ d.mapPending = c.mapPending
<1> DEFINE c == cl[s]
           i == Inside(c)
           x == ResetMap(i)
           e == Ensure(x)
           d == Entered(cl, m, s)
<1>1. d = IF e.id \in DOMAIN m.stored THEN Given(e, m.stored[e.id]) ELSE e
  BY DEF Entered, Inside, Given
<1>2. /\ i \in Clients /\ i.player = c.player /\ i.inGame
      /\ i.authorized = c.authorized /\ i.id = c.id
      /\ i.lifePending = c.lifePending /\ i.mapPending = c.mapPending
  BY SlotMakes
<1> HIDE DEF i, d
<1>3. /\ x \in Clients /\ x.player = c.player /\ x.inGame
      /\ x.authorized = c.authorized /\ x.id = c.id /\ x.live = Zero
      /\ x.lifePending = c.lifePending /\ x.mapPending = c.mapPending
  BY <1>2, ResetMapMakes
<1> HIDE DEF x
<1>4. /\ e \in Clients /\ e.player = c.player /\ e.inGame
      /\ e.authorized = c.authorized /\ e.live = Zero
      /\ e.id = IF c.authorized THEN c.player ELSE c.id
      /\ e.lifePending = c.lifePending /\ e.mapPending = c.mapPending
  BY <1>3, EnsureMakes DEF Same
<1> HIDE DEF e
<1>5. m.stored \in Storages
  BY MatchFields
<1>6. CASE e.id \in DOMAIN m.stored
  <2> DEFINE r == m.stored[e.id]
  <2>1. r \in Records /\ StoredOf(m.stored, e.id) = r
    BY <1>5, <1>6, StorageType DEF StoredOf
  <2> HIDE DEF r
  <2>2. d = Given(e, r)
    BY <1>1, <1>6 DEF r
  <2>3. /\ d \in Clients /\ d.player = e.player /\ d.inGame = e.inGame
        /\ d.authorized = e.authorized /\ d.id = e.id /\ d.live = r
        /\ d.lifePending = e.lifePending /\ d.mapPending = e.mapPending
    <3>1. e \in Clients /\ r \in Records
      BY <1>4, <2>1
    <3>2. /\ Given(e, r) \in Clients /\ Given(e, r).player = e.player
          /\ Given(e, r).inGame = e.inGame /\ Given(e, r).authorized = e.authorized
          /\ Given(e, r).id = e.id /\ Given(e, r).live = r
          /\ Given(e, r).lifePending = e.lifePending
          /\ Given(e, r).mapPending = e.mapPending
      BY <3>1, FilledMakes
    <3> QED BY <2>2, <3>2
  <2>4. d.live = StoredOf(m.stored, d.id)
    BY <2>1, <2>3
  <2> QED BY <1>4, <2>3, <2>4 DEF d
<1>7. CASE e.id \notin DOMAIN m.stored
  <2>1. d = e
    BY <1>1, <1>7
  <2>2. d.live = StoredOf(m.stored, d.id)
    BY <1>4, <1>7, <2>1 DEF StoredOf
  <2> QED BY <1>4, <2>1, <2>2 DEF d
<1> QED BY <1>6, <1>7

\* A slot that waits for a load has a query under way.
Waits(c, l) ==
    /\ c.lifePending => Asks(l, "life")
    /\ c.mapPending => Asks(l, "map")

SlotOK(c, l) ==
    /\ c \in Clients /\ l \in Seq(LoadQuery)
    /\ c.inGame => ValidClient(c)
    /\ Waits(c, l)

SlotsOK ==
    /\ client \in [Slots -> Clients]
    /\ loads \in [Slots -> Seq(LoadQuery)]
    /\ \A s \in Slots : SlotOK(client[s], loads[s])

\* The action makes d of the slot s, and l of its queries, and leaves the others alone.
Makes(s, d, l) ==
    /\ client' = [client EXCEPT ![s] = d]
    /\ loads' = [loads EXCEPT ![s] = l]

LEMMA MakesOne ==
    ASSUME SlotsOK, NEW s \in Slots, NEW d, NEW l, Makes(s, d, l)
    PROVE  /\ client'[s] = d /\ loads'[s] = l
           /\ \A t \in Slots : t # s => client'[t] = client[t] /\ loads'[t] = loads[t]
  BY DEF SlotsOK, Makes

LEMMA OneOK ==
    ASSUME SlotsOK, NEW s \in Slots, NEW d, NEW l, Makes(s, d, l), SlotOK(d, l)
    PROVE  SlotsOK'
<1>1. d \in Clients /\ l \in Seq(LoadQuery)
  BY DEF SlotOK
<1>2. client' \in [Slots -> Clients] /\ loads' \in [Slots -> Seq(LoadQuery)]
  BY <1>1 DEF SlotsOK, Makes
<1>3. \A t \in Slots : SlotOK(client'[t], loads'[t])
  <2> TAKE t \in Slots
  <2>1. CASE t = s
    BY <2>1, MakesOne
  <2>2. CASE t # s
    BY <2>2, MakesOne DEF SlotsOK
  <2> QED BY <2>1, <2>2
<1> QED BY <1>2, <1>3 DEF SlotsOK

LEMMA KeptLoads ==
    ASSUME SlotsOK, NEW s \in Slots, NEW d,
           client' = [client EXCEPT ![s] = d], loads' = loads
    PROVE  Makes(s, d, loads[s])
  BY DEF Makes, SlotsOK

\* What each of the actions on one slot makes of it.
LEMMA ConnectSlot ==
    ASSUME SlotsOK, NEW s \in Slots, NEW p \in Players, Connect(s, p)
    PROVE  Makes(s, Seated(client[s], p), loads[s])
<1>1. client' = [client EXCEPT ![s] = Seated(client[s], p)] /\ loads' = loads
  BY DEF Connect, Seated
<1> QED BY <1>1, KeptLoads

LEMMA AuthorizeSlot ==
    ASSUME SlotsOK, NEW s \in Slots, Authorize(s)
    PROVE  Makes(s, Ensure(Validated(client[s])), loads[s])
<1>1. client' = [client EXCEPT ![s] = Ensure(Validated(client[s]))] /\ loads' = loads
  BY DEF Authorize, Validated
<1> QED BY <1>1, KeptLoads

LEMMA AskLoadsSlot ==
    ASSUME SlotsOK, NEW s \in Slots, AskLoads(s)
    PROVE  Makes(s, Requested(client[s], ready), loads[s] \o Queries(client[s], ready))
  BY DEF AskLoads, Makes

LEMMA PutInServerSlot ==
    ASSUME SlotsOK, NEW s \in Slots, NEW little, PutInServer(s, little)
    PROVE  LET c == Entered(client, MatchJoined(match, little), s)
           IN Makes(s, Requested(c, ready), loads[s] \o Queries(c, ready))
  BY DEF PutInServer, Makes

LEMMA HitSlot ==
    ASSUME SlotsOK, NEW s \in Slots, Hit(s)
    PROVE  Makes(s, Counted(client[s], Now), loads[s])
<1>1. client' = [client EXCEPT ![s] = Counted(client[s], Now)] /\ loads' = loads
  BY DEF Hit, Counted
<1> QED BY <1>1, KeptLoads

LEMMA LifeLoadedSlot ==
    ASSUME SlotsOK, NEW s \in Slots, LifeLoaded(s)
    PROVE  /\ Makes(s, LifeAnswered(client[s]), Tail(loads[s]))
           /\ loads[s] # <<>> /\ Head(loads[s]).of = "life"
<1>1. s \in DOMAIN client
  BY DEF SlotsOK
<1>2. client' = [client EXCEPT ![s] = LifeAnswered(client[s])]
  BY <1>1 DEF LifeLoaded, LifeAnswered
<1> QED BY <1>2 DEF LifeLoaded, Answer, Makes

LEMMA NoneFoundSlot ==
    ASSUME SlotsOK, NEW s \in Slots, NoneFound(s)
    PROVE  /\ Makes(s, MapAnswered(client[s]), Tail(loads[s]))
           /\ loads[s] # <<>> /\ Head(loads[s]).of = "map"
<1>1. s \in DOMAIN client
  BY DEF SlotsOK
<1>2. client' = [client EXCEPT ![s] = MapAnswered(client[s])]
  BY <1>1 DEF NoneFound, MapAnswered
<1> QED BY <1>2 DEF NoneFound, Answer, Makes

LEMMA RowFoundSlot ==
    ASSUME MatchLogAssumption, SlotsOK, NEW s \in Slots, RowFound(s)
    PROVE  /\ \E r \in Records : Makes(s, MapFilled(client[s], r), Tail(loads[s]))
           /\ loads[s] # <<>> /\ Head(loads[s]).of = "map"
<1>1. s \in DOMAIN client
  BY DEF SlotsOK
<1>2. PICK r \in Former(Head(loads[s]).id) :
        client' = [client EXCEPT ![s].mapPending = FALSE, ![s].mapLoaded = TRUE,
                                 ![s].live = r]
  BY DEF RowFound
<1>3. r \in Records
  BY <1>2 DEF Former, Records, MatchLogAssumption
<1>4. client' = [client EXCEPT ![s] = MapFilled(client[s], r)]
  BY <1>1, <1>2 DEF MapFilled
<1>5. /\ loads' = [loads EXCEPT ![s] = Tail(loads[s])]
      /\ loads[s] # <<>> /\ Head(loads[s]).of = "map"
  BY DEF RowFound, Answer
<1>6. Makes(s, MapFilled(client[s], r), Tail(loads[s]))
  BY <1>4, <1>5 DEF Makes
<1> QED BY <1>3, <1>5, <1>6

LEMMA LoadFailsSlot ==
    ASSUME SlotsOK, NEW s \in Slots, NEW lostToo, LoadFails(s, lostToo)
    PROVE  /\ loads[s] # <<>>
           /\ \/ /\ Head(loads[s]).of = "life"
                 /\ Makes(s, LifeFailed(client[s]), Tail(loads[s]))
              \/ /\ Head(loads[s]).of = "map"
                 /\ Makes(s, MapAnswered(client[s]), Tail(loads[s]))
<1>1. s \in DOMAIN client
  BY DEF SlotsOK
<1>2. CASE Answer(s, "life") /\ client' = [client EXCEPT ![s].lifePending = FALSE]
  BY <1>2 DEF Answer, Makes, LifeFailed
<1>3. CASE /\ Answer(s, "map")
           /\ client' = [client EXCEPT ![s].mapPending = FALSE, ![s].mapLoaded = TRUE]
  <2>1. client' = [client EXCEPT ![s] = MapAnswered(client[s])]
    BY <1>1, <1>3 DEF MapAnswered
  <2> QED BY <1>3, <2>1 DEF Answer, Makes
<1> QED BY <1>2, <1>3 DEF LoadFails

\* client and loads afterwards are functions of the slots.
SlotFunctions(cl, ld) ==
    cl = [t \in Slots |-> cl[t]] /\ ld = [t \in Slots |-> ld[t]]

LEMMA AllOK ==
    ASSUME NEW cl, NEW ld, SlotFunctions(cl, ld), client' = cl, loads' = ld,
           \A t \in Slots : SlotOK(cl[t], ld[t])
    PROVE  SlotsOK'
<1>1. \A t \in Slots : cl[t] \in Clients /\ ld[t] \in Seq(LoadQuery)
  BY DEF SlotOK
<1>2. cl \in [Slots -> Clients] /\ ld \in [Slots -> Seq(LoadQuery)]
  BY <1>1 DEF SlotFunctions
<1> QED BY <1>2 DEF SlotsOK

LEMMA DatabaseReadySlots ==
    ASSUME SlotsOK, DatabaseReady
    PROVE  /\ SlotFunctions(client', loads')
           /\ \A t \in Slots :
                /\ client'[t] = IF client[t].inGame THEN Requested(client[t], TRUE)
                                ELSE client[t]
                /\ loads'[t] = loads[t] \o Queries(client[t], TRUE)
  BY DEF DatabaseReady, SlotFunctions

\* What OnClientDisconnect makes of the slot of the client, which was c.
LeftSlot(d, l, c, l0) ==
    \/ \E i \in Persons : d = Vacant(i) /\ l = <<>>
    \/ /\ l = l0
       /\ d \in {Outside(ResetAll(Ensure(c))), Outside(Ensure(ResetAll(Ensure(c))))}

LEMMA LeaveSlots ==
    ASSUME MatchLogAssumption, SlotsOK, NEW s \in Slots, NEW played, NEW skip,
           Leave(s, played, skip)
    PROVE  /\ SlotFunctions(client', loads')
           /\ LeftSlot(client'[s], loads'[s], client[s], loads[s])
           /\ ~ playing \/ \E i \in Persons : client'[s] = Vacant(i) /\ loads'[s] = <<>>
           /\ \A t \in Slots : t # s =>
                client'[t] \in {client[t], Ensure(client[t])} /\ loads'[t] = loads[t]
<1> DEFINE c == Ensure(client[s])
           kept == Kept(c, played)
           m == IF kept THEN [match EXCEPT !.stored = AppendSnapshot(@, c.id, c.live)]
                ELSE match
           cl == [client EXCEPT ![s] = ResetAll(c)]
           lastHuman == \A t \in Slots \ {s} : ~ ValidClient(client[t])
           after == IF lastHuman THEN Identified(cl, m) ELSE cl
<1>1. client \in [Slots -> Clients] /\ loads \in [Slots -> Seq(LoadQuery)]
  BY DEF SlotsOK
<1>2. c \in Clients
  BY <1>1, EnsureMakes
<1>3. ResetAll(c) \in Clients
  BY <1>2, ResetAllMakes
<1>4. \/ /\ client' = [after EXCEPT ![s] = Vacant(after[s].id)]
         /\ loads' = [loads EXCEPT ![s] = <<>>]
      \/ /\ ~ playing
         /\ client' = [after EXCEPT ![s].inGame = FALSE]
         /\ loads' = loads
  BY DEF Leave, Unanswered
<1>5. after = cl \/ after = EnsureAll(cl)
  BY DEF Identified
<1> HIDE DEF after, m, kept, lastHuman
<1>6. /\ cl \in [Slots -> Clients] /\ cl[s] = ResetAll(c)
      /\ \A t \in Slots : t # s => cl[t] = client[t]
  BY <1>1, <1>3
<1> HIDE DEF cl, c
<1>7. /\ EnsureAll(cl) \in [Slots -> Clients]
      /\ \A t \in Slots : EnsureAll(cl)[t] = Ensure(cl[t])
  BY <1>6, EnsureAllMakes
<1>8. /\ after \in [Slots -> Clients] /\ after[s] \in {ResetAll(c), Ensure(ResetAll(c))}
      /\ \A t \in Slots : t # s => after[t] \in {client[t], Ensure(client[t])}
  BY <1>5, <1>6, <1>7
<1>9. after[s].id \in Persons
  BY <1>8, Fields
<1>10. CASE /\ client' = [after EXCEPT ![s] = Vacant(after[s].id)]
            /\ loads' = [loads EXCEPT ![s] = <<>>]
  <2>1. client'[s] = Vacant(after[s].id) /\ loads'[s] = <<>>
    BY <1>1, <1>8, <1>10
  <2>2. SlotFunctions(client', loads')
    BY <1>1, <1>8, <1>10 DEF SlotFunctions
  <2>3. \A t \in Slots : t # s => client'[t] = after[t] /\ loads'[t] = loads[t]
    BY <1>1, <1>8, <1>10
  <2> QED BY <1>8, <1>9, <2>1, <2>2, <2>3 DEF LeftSlot
<1>11. CASE /\ ~ playing
            /\ client' = [after EXCEPT ![s].inGame = FALSE]
            /\ loads' = loads
  <2>1. client' = [after EXCEPT ![s] = Outside(after[s])]
    BY <1>11 DEF Outside
  <2>2. client'[s] = Outside(after[s]) /\ loads'[s] = loads[s]
    BY <1>8, <1>11, <2>1
  <2>3. SlotFunctions(client', loads')
    BY <1>1, <1>8, <1>11, <2>1 DEF SlotFunctions
  <2>4. \A t \in Slots : t # s => client'[t] = after[t] /\ loads'[t] = loads[t]
    BY <1>8, <1>11, <2>1
  <2>5. LeftSlot(client'[s], loads'[s], client[s], loads[s])
    BY <1>8, <2>2 DEF LeftSlot, c
  <2> QED BY <1>8, <1>11, <2>3, <2>4, <2>5
<1> QED BY <1>4, <1>10, <1>11

LEMMA PublishRoundSlots ==
    ASSUME SlotsOK, NEW skip, PublishRound(skip)
    PROVE  /\ SlotFunctions(client', loads')
           /\ \A t \in Slots :
                /\ client'[t] = IF client[t].inGame THEN Ensure(client[t]) ELSE client[t]
                /\ loads'[t] = loads[t]
<1>1. loads' = loads /\ loads = [t \in Slots |-> loads[t]]
  BY DEF SlotsOK, PublishRound
<1>2. client' = [t \in Slots |-> IF client[t].inGame THEN Ensure(client[t]) ELSE client[t]]
  BY DEF PublishRound
<1> QED BY <1>1, <1>2 DEF SlotFunctions

LEMMA MapEndSlots ==
    ASSUME SlotsOK, NEW skip, MapEnd(skip)
    PROVE  /\ SlotFunctions(client', loads')
           /\ \A t \in Slots : client'[t] = Ensure(client[t]) /\ loads'[t] = loads[t]
<1>1. loads' = loads /\ loads = [t \in Slots |-> loads[t]]
  BY DEF SlotsOK, MapEnd
<1>2. client' = [t \in Slots |-> Ensure(client[t])]
  BY DEF MapEnd, EnsureAll
<1> QED BY <1>1, <1>2 DEF SlotFunctions

LEMMA MapStartSlots ==
    ASSUME SlotsOK, NEW bots, NEW little, MapStart(bots, little)
    PROVE  /\ SlotFunctions(client', loads')
           /\ \A t \in Slots : client'[t] = ResetMap(client[t]) /\ loads'[t] = loads[t]
<1>1. loads' = loads /\ loads = [t \in Slots |-> loads[t]]
  BY DEF SlotsOK, MapStart
<1>2. client' = [t \in Slots |-> ResetMap(client[t])]
  BY DEF MapStart
<1> QED BY <1>1, <1>2 DEF SlotFunctions

LEMMA ReloadSlots ==
    ASSUME NEW bots, NEW skip, Reload(bots, skip)
    PROVE  /\ SlotFunctions(client', loads')
           /\ \A t \in Slots :
                /\ client'[t] = IF client[t].inGame
                                THEN Ensure(ResetMap(ResetAll(client[t])))
                                ELSE ResetAll(client[t])
                /\ loads'[t] = <<>>
<1>1. loads' = [t \in Slots |-> <<>>]
  BY DEF Reload
<1>2. client' = [t \in Slots |-> IF client[t].inGame
                                 THEN Ensure(ResetMap(ResetAll(client[t])))
                                 ELSE ResetAll(client[t])]
  BY DEF Reload
<1> QED BY <1>1, <1>2 DEF SlotFunctions
LEMMA SeatedMakes ==
    ASSUME NEW c \in Clients, NEW p \in Persons
    PROVE  /\ Seated(c, p) \in Clients /\ Seated(c, p).player = p
           /\ Seated(c, p).inGame = c.inGame /\ Seated(c, p).authorized = c.authorized
           /\ Seated(c, p).id = c.id /\ Seated(c, p).live = c.live
           /\ Seated(c, p).lifePending = c.lifePending
           /\ Seated(c, p).mapPending = c.mapPending
  BY SlotMakes


-----------------------------------------------------------------------------
(* No slot waits without a query under way.                                  *)

LEMMA RequestedOK ==
    ASSUME NEW c, NEW l, SlotOK(c, l), NEW db \in BOOLEAN
    PROVE  SlotOK(Requested(c, db), l \o Queries(c, db))
<1> DEFINE d == Requested(c, db)
           q == Queries(c, db)
<1>1. /\ d \in Clients /\ Same(d, c) /\ q \in Seq(LoadQuery)
      /\ d.lifePending => c.lifePending \/ Asks(q, "life")
      /\ d.mapPending => c.mapPending \/ Asks(q, "map")
  BY RequestedMakes DEF SlotOK
<1> HIDE DEF d, q
<1>2. l \in Seq(LoadQuery) /\ c \in Clients
  BY DEF SlotOK
<1>3. /\ l \o q \in Seq(LoadQuery)
      /\ Asks(l \o q, "life") <=> Asks(l, "life") \/ Asks(q, "life")
      /\ Asks(l \o q, "map") <=> Asks(l, "map") \/ Asks(q, "map")
  BY <1>1, <1>2, AsksJoined
<1>4. d.inGame => ValidClient(d)
  BY <1>1 DEF Same, SlotOK, ValidClient
<1>5. Waits(d, l \o q)
  BY <1>1, <1>3 DEF SlotOK, Waits
<1>6. SlotOK(d, l \o q)
  BY <1>1, <1>3, <1>4, <1>5 DEF SlotOK
<1> QED BY <1>6 DEF d, q

LEMMA EnsureOK ==
    ASSUME NEW c, NEW l, SlotOK(c, l)
    PROVE  SlotOK(Ensure(c), l)
  BY EnsureMakes DEF SlotOK, Same, Waits, ValidClient

LEMMA ResetOK ==
    ASSUME MatchLogAssumption, NEW c, NEW l, SlotOK(c, l), NEW k \in Seq(LoadQuery)
    PROVE  SlotOK(ResetAll(c), k) /\ SlotOK(ResetMap(c), l) /\ SlotOK(Outside(c), l)
<1>1. c \in Clients /\ l \in Seq(LoadQuery) /\ (c.inGame => ValidClient(c)) /\ Waits(c, l)
  BY DEF SlotOK
<1>2. SlotOK(ResetAll(c), k)
  BY <1>1, ResetAllMakes DEF SlotOK, Waits, ValidClient
<1>3. SlotOK(ResetMap(c), l)
  BY <1>1, ResetMapMakes DEF SlotOK, Waits, ValidClient
<1>4. SlotOK(Outside(c), l)
  BY <1>1, SlotMakes DEF SlotOK, Waits
<1> QED BY <1>2, <1>3, <1>4

LEMMA NoQueries == <<>> \in Seq(LoadQuery)
  BY EmptySeq

LEMMA VacantOK ==
    ASSUME MatchLogAssumption, NEW i \in Persons
    PROVE  SlotOK(Vacant(i), <<>>)
  BY VacantMakes, NoQueries DEF SlotOK, Waits

LEMMA AnsweredOK ==
    ASSUME NEW c, NEW l, SlotOK(c, l), l # <<>>
    PROVE  /\ Head(l).of = "life" =>
                SlotOK(LifeAnswered(c), Tail(l)) /\ SlotOK(LifeFailed(c), Tail(l))
           /\ Head(l).of = "map" =>
                /\ SlotOK(MapAnswered(c), Tail(l))
                /\ \A r \in Records : SlotOK(MapFilled(c, r), Tail(l))
<1>1. c \in Clients /\ l \in Seq(LoadQuery) /\ (c.inGame => ValidClient(c)) /\ Waits(c, l)
  BY DEF SlotOK
<1>2. /\ Tail(l) \in Seq(LoadQuery)
      /\ Asks(l, "life") => Head(l).of = "life" \/ Asks(Tail(l), "life")
      /\ Asks(l, "map") => Head(l).of = "map" \/ Asks(Tail(l), "map")
  BY <1>1, AsksRest
<1> DEFINE k == Tail(l)
<1>3. /\ k \in Seq(LoadQuery)
      /\ Head(l).of = "life" => (c.mapPending => Asks(k, "map"))
      /\ Head(l).of = "map" => (c.lifePending => Asks(k, "life"))
  BY <1>1, <1>2 DEF Waits
<1> HIDE DEF k
<1>4. Head(l).of = "life" => SlotOK(LifeAnswered(c), k)
  BY <1>1, <1>3, AnsweredMakes DEF SlotOK, Waits, Same, ValidClient
<1>5. Head(l).of = "life" => SlotOK(LifeFailed(c), k)
  BY <1>1, <1>3, AnsweredMakes DEF SlotOK, Waits, Same, ValidClient
<1>6. Head(l).of = "map" => SlotOK(MapAnswered(c), k)
  BY <1>1, <1>3, AnsweredMakes DEF SlotOK, Waits, Same, ValidClient
<1>7. Head(l).of = "map" => \A r \in Records : SlotOK(MapFilled(c, r), k)
  BY <1>1, <1>3, FilledMakes DEF SlotOK, Waits, ValidClient
<1> QED BY <1>4, <1>5, <1>6, <1>7 DEF k

\* What the rest of the state has, whoever the clients are.
Plain ==
    /\ playing \in BOOLEAN /\ ready \in BOOLEAN
    /\ match \in Matches
    /\ hits \in [Players -> Records]

PluginOK == SlotsOK /\ Plain

LEMMA NowIsOrigin ==
    ASSUME MatchLogAssumption, Plain
    PROVE  Now \in Origins
<1>1. match.begun \in 0 .. MaxMatches /\ match.log \in NoLog .. MaxMatches
  BY MatchFields DEF Plain
<1> QED BY <1>1 DEF Now, Origins, Within, Before, NoLog, MatchLogAssumption

LEMMA PluginInitially ==
    ASSUME MatchLogAssumption, MatchInit
    PROVE  PluginOK
<1>1. SlotOK(Vacant(NoPlayer), <<>>)
  BY VacantOK DEF Persons
<1>2. Vacant(NoPlayer) \in Clients
  BY VacantMakes DEF Persons
<1>3. SlotsOK
  BY <1>1, <1>2, NoQueries DEF MatchInit, SlotsOK
<1>4. match \in Matches
  <2> DEFINE table == [t \in 1 .. MaxMatches |-> Absent]
  <2>1. table \in [1 .. MaxMatches -> Entries]
    BY NewEntries
  <2>2. <<>> \in Storages /\ NoLog \in NoLog .. MaxMatches /\ 0 \in 0 .. MaxMatches
    BY EmptyStorage DEF NoLog, MatchLogAssumption
  <2>3. match = [log |-> NoLog, begun |-> 0, last |-> NoLog, stored |-> <<>>,
                 table |-> table]
    BY DEF MatchInit
  <2> HIDE DEF table
  <2> QED BY <2>1, <2>2, <2>3 DEF Matches
<1>5. hits \in [Players -> Records]
  BY ZeroIsRecord DEF MatchInit
<1> QED BY <1>3, <1>4, <1>5 DEF PluginOK, Plain, MatchInit

LEMMA SlotActionsOK ==
    ASSUME MatchLogAssumption, PluginOK, NEW s \in Slots,
           \/ \E p \in Players : Connect(s, p)
           \/ Authorize(s)
           \/ \E little \in BOOLEAN : PutInServer(s, little)
           \/ AskLoads(s)
           \/ Hit(s)
           \/ LifeLoaded(s)
           \/ NoneFound(s)
           \/ RowFound(s)
           \/ \E connectionLost \in BOOLEAN : LoadFails(s, connectionLost)
    PROVE  SlotsOK'
<1> DEFINE c == client[s]
           l == loads[s]
<1>1. SlotsOK /\ c \in Clients /\ l \in Seq(LoadQuery) /\ SlotOK(c, l) /\ ready \in BOOLEAN
  BY DEF PluginOK, SlotsOK, Plain
<1>2. ASSUME NEW p \in Players, Connect(s, p) PROVE SlotsOK'
  <2>1. Makes(s, Seated(c, p), l)
    BY <1>1, <1>2, ConnectSlot
  <2>2. p \in Persons /\ p # NoPlayer
    BY DEF Persons, MatchLogAssumption
  <2> DEFINE d == Seated(c, p)
  <2>4. /\ d \in Clients /\ d.player = p /\ d.lifePending = c.lifePending
        /\ d.mapPending = c.mapPending
    <3>1. c \in Clients /\ p \in Persons
      BY <1>1, <2>2
    <3> HIDE DEF c
    <3> QED BY <3>1, SeatedMakes
  <2>5. Makes(s, d, l)
    BY <2>1
  <2> HIDE DEF d
  <2>3. SlotOK(d, l)
    BY <1>1, <2>2, <2>4 DEF SlotOK, Waits, ValidClient
  <2> QED BY <1>1, <2>3, <2>5, OneOK
<1>3. CASE Authorize(s)
  <2>1. Makes(s, Ensure(Validated(c)), l)
    BY <1>1, <1>3, AuthorizeSlot
  <2>2. SlotOK(Validated(c), l)
    BY <1>1, SlotMakes DEF SlotOK, Waits, ValidClient
  <2>3. SlotOK(Ensure(Validated(c)), l)
    BY <2>2, EnsureOK
  <2> QED BY <1>1, <2>1, <2>3, OneOK
<1>4. ASSUME NEW little \in BOOLEAN, PutInServer(s, little) PROVE SlotsOK'
  <2> DEFINE m == MatchJoined(match, little)
             e == Entered(client, m, s)
  <2>1. Makes(s, Requested(e, ready), l \o Queries(e, ready))
    BY <1>1, <1>4, PutInServerSlot
  <2>2. m \in Matches
    <3>1. match \in Matches /\ (match.log = NoLog => match.begun < MaxMatches)
      BY <1>4 DEF PluginOK, Plain, PutInServer, MayBegin
    <3> QED BY <1>1, <3>1, BegunMakes DEF MatchJoined
  <2> HIDE DEF m
  <2>3. /\ e \in Clients /\ e.player = c.player
        /\ e.lifePending = c.lifePending /\ e.mapPending = c.mapPending
    BY <1>1, <2>2, EnteredMakes
  <2>4. ValidClient(c)
    BY <1>4 DEF PutInServer
  <2> HIDE DEF e
  <2>5. SlotOK(e, l)
    BY <1>1, <2>3, <2>4 DEF SlotOK, Waits, ValidClient
  <2>6. SlotOK(Requested(e, ready), l \o Queries(e, ready))
    BY <1>1, <2>5, RequestedOK
  <2> QED BY <1>1, <2>1, <2>6, OneOK
<1>5. CASE AskLoads(s)
  <2>1. Makes(s, Requested(c, ready), l \o Queries(c, ready))
    BY <1>1, <1>5, AskLoadsSlot
  <2>2. SlotOK(Requested(c, ready), l \o Queries(c, ready))
    BY <1>1, RequestedOK
  <2> QED BY <1>1, <2>1, <2>2, OneOK
<1>6. CASE Hit(s)
  <2>1. Makes(s, Counted(c, Now), l)
    BY <1>1, <1>6, HitSlot
  <2>2. Now \in Origins
    BY NowIsOrigin DEF PluginOK
  <2>3. PICK o \in Origins : o = Now
    BY <2>2
  <2> DEFINE d == Counted(c, o)
  <2>4. /\ d \in Clients /\ d.player = c.player /\ d.lifePending = c.lifePending
        /\ d.inGame = c.inGame /\ d.mapPending = c.mapPending
    <3> HIDE DEF c
    <3> QED BY <1>1, CountedMakes
  <2>5. Makes(s, d, l)
    BY <2>1, <2>3
  <2> HIDE DEF d
  <2>6. SlotOK(d, l)
    BY <1>1, <2>4 DEF SlotOK, Waits, ValidClient
  <2> QED BY <1>1, <2>5, <2>6, OneOK
<1>7. CASE LifeLoaded(s)
  <2>1. Makes(s, LifeAnswered(c), Tail(l)) /\ l # <<>> /\ Head(l).of = "life"
    BY <1>1, <1>7, LifeLoadedSlot
  <2>2. SlotOK(LifeAnswered(c), Tail(l))
    BY <1>1, <2>1, AnsweredOK
  <2> QED BY <1>1, <2>1, <2>2, OneOK
<1>8. CASE NoneFound(s)
  <2>1. Makes(s, MapAnswered(c), Tail(l)) /\ l # <<>> /\ Head(l).of = "map"
    BY <1>1, <1>8, NoneFoundSlot
  <2>2. SlotOK(MapAnswered(c), Tail(l))
    BY <1>1, <2>1, AnsweredOK
  <2> QED BY <1>1, <2>1, <2>2, OneOK
<1>9. CASE RowFound(s)
  <2>1. l # <<>> /\ Head(l).of = "map"
    BY <1>1, <1>9, RowFoundSlot
  <2>2. PICK r \in Records : Makes(s, MapFilled(c, r), Tail(l))
    BY <1>1, <1>9, RowFoundSlot
  <2>3. SlotOK(MapFilled(c, r), Tail(l))
    BY <1>1, <2>1, AnsweredOK
  <2> QED BY <1>1, <2>2, <2>3, OneOK
<1>10. ASSUME NEW connectionLost \in BOOLEAN, LoadFails(s, connectionLost) PROVE SlotsOK'
  <2>1. l # <<>>
    BY <1>1, <1>10, LoadFailsSlot
  <2>2. \/ Head(l).of = "life" /\ Makes(s, LifeFailed(c), Tail(l))
        \/ Head(l).of = "map" /\ Makes(s, MapAnswered(c), Tail(l))
    BY <1>1, <1>10, LoadFailsSlot
  <2>3. CASE Head(l).of = "life" /\ Makes(s, LifeFailed(c), Tail(l))
    <3>1. SlotOK(LifeFailed(c), Tail(l))
      BY <1>1, <2>1, <2>3, AnsweredOK
    <3> QED BY <1>1, <2>3, <3>1, OneOK
  <2>4. CASE Head(l).of = "map" /\ Makes(s, MapAnswered(c), Tail(l))
    <3>1. SlotOK(MapAnswered(c), Tail(l))
      BY <1>1, <2>1, <2>4, AnsweredOK
    <3> QED BY <1>1, <2>4, <3>1, OneOK
  <2> QED BY <2>2, <2>3, <2>4
<1> QED BY <1>2, <1>3, <1>4, <1>5, <1>6, <1>7, <1>8, <1>9, <1>10

LEMMA OtherActionsOK ==
    ASSUME MatchLogAssumption, PluginOK,
           \/ \E s \in Slots, played \in BOOLEAN, skip \in SUBSET Suspects :
                 Leave(s, played, skip)
           \/ DatabaseLost
           \/ DatabaseReady
           \/ \E p \in Players : RowRemoved(p)
           \/ \E skip \in SUBSET Suspects :
                 \/ UpdateOnlineStats(skip)
                 \/ PublishRound(skip)
                 \/ MapEnd(skip)
                 \/ \E bots \in BOOLEAN : Reload(bots, skip)
           \/ \E bots \in BOOLEAN, little \in BOOLEAN : MapStart(bots, little)
    PROVE  SlotsOK'
<1>1. SlotsOK /\ \A t \in Slots : SlotOK(client[t], loads[t])
  BY DEF PluginOK, SlotsOK
<1>2. ASSUME NEW s \in Slots, NEW played \in BOOLEAN, NEW skip \in SUBSET Suspects,
             Leave(s, played, skip)
      PROVE  SlotsOK'
  <2>1. /\ SlotFunctions(client', loads')
        /\ LeftSlot(client'[s], loads'[s], client[s], loads[s])
        /\ \A t \in Slots : t # s =>
             client'[t] \in {client[t], Ensure(client[t])} /\ loads'[t] = loads[t]
    BY <1>1, <1>2, LeaveSlots
  <2>2. ASSUME NEW d, NEW l, NEW c, NEW k, SlotOK(c, k), LeftSlot(d, l, c, k)
        PROVE  SlotOK(d, l)
    <3>1. CASE \E i \in Persons : d = Vacant(i) /\ l = <<>>
      BY <3>1, VacantOK
    <3>2. ASSUME d \in {Outside(ResetAll(Ensure(c))), Outside(Ensure(ResetAll(Ensure(c))))},
                 l = k
          PROVE  SlotOK(d, l)
      <4>1. SlotOK(Ensure(c), l) /\ l \in Seq(LoadQuery)
        BY <2>2, <3>2, EnsureOK DEF SlotOK
      <4>2. SlotOK(ResetAll(Ensure(c)), l)
        BY <4>1, ResetOK
      <4>3. SlotOK(Ensure(ResetAll(Ensure(c))), l)
        BY <4>2, EnsureOK
      <4>4. /\ SlotOK(Outside(ResetAll(Ensure(c))), l)
            /\ SlotOK(Outside(Ensure(ResetAll(Ensure(c)))), l)
        BY <4>1, <4>2, <4>3, ResetOK
      <4> QED BY <3>2, <4>4
    <3> QED BY <2>2, <3>1, <3>2 DEF LeftSlot
  <2>3. ASSUME NEW t \in Slots PROVE SlotOK(client'[t], loads'[t])
    <3>1. CASE t = s
      BY <1>1, <2>1, <2>2, <3>1
    <3>2. CASE t # s
      BY <1>1, <2>1, <3>2, EnsureOK
    <3> QED BY <3>1, <3>2
  <2> QED BY <2>1, <2>3, AllOK
<1>3. CASE DatabaseReady
  <2>1. /\ SlotFunctions(client', loads')
        /\ \A t \in Slots :
             /\ client'[t] = IF client[t].inGame THEN Requested(client[t], TRUE)
                             ELSE client[t]
             /\ loads'[t] = loads[t] \o Queries(client[t], TRUE)
    BY <1>1, <1>3, DatabaseReadySlots
  <2>2. ASSUME NEW t \in Slots PROVE SlotOK(client'[t], loads'[t])
    <3>1. SlotOK(client[t], loads[t]) /\ client[t] \in Clients /\ loads[t] \in Seq(LoadQuery)
      BY <1>1 DEF SlotOK
    <3>2. CASE client[t].inGame
      <4>1. SlotOK(Requested(client[t], TRUE), loads[t] \o Queries(client[t], TRUE))
        BY <3>1, RequestedOK
      <4> QED BY <2>1, <3>2, <4>1
    <3>3. CASE ~ client[t].inGame
      <4>1. Queries(client[t], TRUE) = <<>>
        BY <3>1, <3>3, RequestedMakes
      <4>2. loads[t] \o Queries(client[t], TRUE) = loads[t]
        BY <3>1, <4>1, ConcatEmptySeq
      <4> QED BY <2>1, <3>1, <3>3, <4>2
    <3> QED BY <3>2, <3>3
  <2> QED BY <2>1, <2>2, AllOK
<1>4. ASSUME NEW skip \in SUBSET Suspects, PublishRound(skip) PROVE SlotsOK'
  <2>1. /\ SlotFunctions(client', loads')
        /\ \A t \in Slots :
             /\ client'[t] = IF client[t].inGame THEN Ensure(client[t]) ELSE client[t]
             /\ loads'[t] = loads[t]
    BY <1>1, <1>4, PublishRoundSlots
  <2>2. \A t \in Slots : SlotOK(client'[t], loads'[t])
    BY <1>1, <2>1, EnsureOK
  <2> QED BY <2>1, <2>2, AllOK
<1>5. ASSUME NEW skip \in SUBSET Suspects, MapEnd(skip) PROVE SlotsOK'
  <2>1. /\ SlotFunctions(client', loads')
        /\ \A t \in Slots : client'[t] = Ensure(client[t]) /\ loads'[t] = loads[t]
    BY <1>1, <1>5, MapEndSlots
  <2>2. \A t \in Slots : SlotOK(client'[t], loads'[t])
    BY <1>1, <2>1, EnsureOK
  <2> QED BY <2>1, <2>2, AllOK
<1>6. ASSUME NEW bots \in BOOLEAN, NEW little \in BOOLEAN, MapStart(bots, little)
      PROVE  SlotsOK'
  <2>1. /\ SlotFunctions(client', loads')
        /\ \A t \in Slots : client'[t] = ResetMap(client[t]) /\ loads'[t] = loads[t]
    BY <1>1, <1>6, MapStartSlots
  <2>2. ASSUME NEW t \in Slots PROVE SlotOK(client'[t], loads'[t])
    <3>1. SlotOK(ResetMap(client[t]), loads[t])
      BY <1>1, NoQueries, ResetOK
    <3> QED BY <2>1, <3>1
  <2> QED BY <2>1, <2>2, AllOK
<1>7. ASSUME NEW bots \in BOOLEAN, NEW skip \in SUBSET Suspects, Reload(bots, skip)
      PROVE  SlotsOK'
  <2>1. /\ SlotFunctions(client', loads')
        /\ \A t \in Slots :
             /\ client'[t] = IF client[t].inGame
                             THEN Ensure(ResetMap(ResetAll(client[t])))
                             ELSE ResetAll(client[t])
             /\ loads'[t] = <<>>
    BY <1>7, ReloadSlots
  <2>2. ASSUME NEW t \in Slots PROVE SlotOK(client'[t], loads'[t])
    <3>1. SlotOK(ResetAll(client[t]), <<>>)
      BY <1>1, NoQueries, ResetOK
    <3>2. SlotOK(ResetMap(ResetAll(client[t])), <<>>)
      BY <3>1, NoQueries, ResetOK
    <3>3. SlotOK(Ensure(ResetMap(ResetAll(client[t]))), <<>>)
      BY <3>2, EnsureOK
    <3> QED BY <2>1, <3>1, <3>3
  <2> QED BY <2>1, <2>2, AllOK
<1>8. CASE client' = client /\ loads' = loads
  BY <1>1, <1>8 DEF SlotsOK
<1> QED
  BY <1>2, <1>3, <1>4, <1>5, <1>6, <1>7, <1>8 DEF DatabaseLost, RowRemoved, UpdateOnlineStats

\* The record of the match when the last client or none has left.
LEMMA WithoutMakes ==
    ASSUME NEW st \in Storages, NEW p
    PROVE  /\ Without(st, p) \in Storages
           /\ DOMAIN Without(st, p) = DOMAIN st \ {p}
           /\ \A q \in DOMAIN st \ {p} : Without(st, p)[q] = st[q]
<1> DEFINE new == Without(st, p)
<1>1. DOMAIN new = DOMAIN st \ {p} /\ \A q \in DOMAIN st \ {p} : new[q] = st[q]
  BY DEF Without
<1>2. new = [q \in DOMAIN new |-> new[q]]
  BY DEF Without
<1>3. DOMAIN st \subseteq Players /\ \A q \in DOMAIN st : st[q] \in Records
  BY StorageType
<1> HIDE DEF new
<1>4. DOMAIN new \subseteq Players /\ \A q \in DOMAIN new : new[q] \in Records
  BY <1>1, <1>3
<1>5. new \in Storages
  BY <1>2, <1>4, StorageType
<1> QED BY <1>1, <1>5 DEF new

\* What SaveClientMapStats makes of the record of the match when the client c leaves.
Saved(m, c, played) ==
    IF Kept(c, played) THEN WithStored(m, AppendSnapshot(m.stored, c.id, c.live)) ELSE m

LEMMA SavedMakes ==
    ASSUME MatchLogAssumption, NEW m \in Matches, NEW c \in Clients, NEW played
    PROVE  LET q == Saved(m, c, played)
           IN /\ q \in Matches /\ q.log = m.log /\ q.begun = m.begun /\ q.last = m.last
              /\ q.table = m.table
              /\ ~ Kept(c, played) => q.stored = m.stored
              /\ Kept(c, played) => q.stored = AppendSnapshot(m.stored, c.id, c.live)
<1> DEFINE st == AppendSnapshot(m.stored, c.id, c.live)
<1>1. ASSUME Kept(c, played) PROVE st \in Storages
  <2>1. m.stored \in Storages /\ c.live \in Records /\ c.id \in Players
    BY <1>1, MatchFields, Fields DEF Kept, Persons
  <2> QED BY <2>1, AppendSnapshotMakes
<1> HIDE DEF st
<1>2. Saved(m, c, played) = IF Kept(c, played) THEN WithStored(m, st) ELSE m
  BY DEF Saved, st
<1>3. CASE Kept(c, played)
  <2>1. st \in Storages
    BY <1>1, <1>3
  <2>2. LET q == WithStored(m, st)
        IN /\ q \in Matches /\ q.log = m.log /\ q.begun = m.begun /\ q.last = m.last
           /\ q.stored = st /\ q.table = m.table
    BY <2>1, WithStoredMakes
  <2> QED BY <1>2, <1>3, <2>2 DEF st
<1>4. CASE ~ Kept(c, played)
  BY <1>2, <1>4
<1> QED BY <1>3, <1>4

\* The log as it is written while it runs.
Written(m, e) == [m EXCEPT !.table[m.log] = e]

LEMMA WrittenMakes ==
    ASSUME NEW m \in Matches, m.log # NoLog, NEW e \in Entries
    PROVE  LET q == Written(m, e)
           IN /\ q \in Matches /\ q.log = m.log /\ q.begun = m.begun /\ q.last = m.last
              /\ q.stored = m.stored /\ q.table = [m.table EXCEPT ![m.log] = e]
<1>1. PICK t \in 1 .. MaxMatches : t = m.log
  BY MatchFields
<1>2. Written(m, e) = WithEntry(m, t, e)
  BY <1>1 DEF Written, WithEntry
<1> QED BY <1>1, <1>2, WithEntryMakes

\* The record of the player whose slot shows it.
Shows(cl, s, p) == StatsReady(cl[s]) /\ cl[s].authorized /\ cl[s].player = p

LEMMA CurrentMakes ==
    ASSUME NEW cl \in [Slots -> Clients], \A s \in Slots : cl[s].inGame => ValidClient(cl[s])
    PROVE  /\ Current(cl) \in Storages
           /\ \A p \in DOMAIN Current(cl) :
                \E s \in Slots : Shows(cl, s, p) /\ Current(cl)[p] = cl[s].live
<1> DEFINE shown == {s \in Slots : StatsReady(cl[s]) /\ cl[s].authorized}
           P == {cl[s].player : s \in shown}
           of(p) == CHOOSE s \in shown : cl[s].player = p
           rows == Current(cl)
<1>1. rows = [p \in P |-> cl[of(p)].live]
  BY DEF Current
<1>2. \A p \in P : of(p) \in shown /\ cl[of(p)].player = p
  OBVIOUS
<1>3. P \subseteq Players
  BY Fields DEF StatsReady, ValidClient, Persons
<1> HIDE DEF P
<1> HIDE DEF of
<1>4. DOMAIN rows = P /\ rows = [p \in P |-> rows[p]] /\ \A p \in P : rows[p] = cl[of(p)].live
  BY <1>1
<1> HIDE DEF rows
<1>5. \A p \in P : rows[p] \in Records
  BY <1>2, <1>4, Fields
<1>6. rows \in Storages
  BY <1>3, <1>4, <1>5, StorageType
<1>7. \A p \in P : \E s \in Slots : Shows(cl, s, p) /\ rows[p] = cl[s].live
  BY <1>2, <1>4 DEF Shows
<1> QED BY <1>4, <1>6, <1>7 DEF rows

-----------------------------------------------------------------------------
(* What the actions make of the record of the match.                         *)

\* An entry whose rows are replaced by those of the records new.
EntryWith(e, state, new) == [state |-> state, rows |-> Upsert(e.rows, new)]

LEMMA EntryWithMakes ==
    ASSUME NEW e \in Entries, NEW state \in States, NEW new \in Storages
    PROVE  /\ EntryWith(e, state, new) \in Entries
           /\ EntryWith(e, state, new).state = state
           /\ \A p \in Players :
                EntryWith(e, state, new).rows[p] =
                  IF p \in DOMAIN new THEN new[p] ELSE e.rows[p]
<1>1. e.rows \in [Players -> Records]
  BY DEF Entries
<1>2. PICK rows \in [Players -> Records] : rows = Upsert(e.rows, new)
  BY <1>1, UpsertMakes
<1>3. \A p \in Players : rows[p] = IF p \in DOMAIN new THEN new[p] ELSE e.rows[p]
  BY <1>1, <1>2, UpsertMakes
<1>4. EntryWith(e, state, new) = [state |-> state, rows |-> rows]
  BY <1>2 DEF EntryWith
<1> QED BY <1>3, <1>4 DEF Entries

LEMMA OpenedMakes ==
    ASSUME NEW state \in States
    PROVE  Opened(state) \in States /\ Opened(state) \in {"open", "published"}
           /\ (state = "published" => Opened(state) = "published")
  BY DEF Opened, States

LEMMA LeaveMatch ==
    ASSUME NEW s \in Slots, NEW played, NEW skip, Leave(s, played, skip)
    PROVE  LET c == Ensure(client[s])
               m == Saved(match, c, played)
               cl == [client EXCEPT ![s] = ResetAll(c)]
           IN \/ match' = m
              \/ /\ match' = Finalized(cl, m, skip)
                 /\ \A t \in Slots \ {s} : ~ ValidClient(client[t])
  BY DEF Leave, Saved, WithStored

LEMMA TimerMatch ==
    ASSUME NEW skip, UpdateOnlineStats(skip)
    PROVE  \E m : /\ \/ m = match
                     \/ /\ m = Finalized(client, match, skip)
                        /\ \A s \in Slots : ~ ValidClient(client[s])
                  /\ \/ match' = m
                     \/ /\ m.log # NoLog
                        /\ match' = Written(m, EntryWith(m.table[m.log],
                                                   Opened(m.table[m.log].state),
                                                   Plausible(Current(client), skip)))
<1> DEFINE empty == \A s \in Slots : ~ ValidClient(client[s])
           m == IF empty THEN Finalized(client, match, skip) ELSE match
           i == m.log
           e == m.table[i]
<1>1. m = match \/ (m = Finalized(client, match, skip) /\ empty)
  OBVIOUS
<1>2. match' = IF ~ ready \/ i = NoLog THEN m
               ELSE [m EXCEPT !.table[i] =
                       [state |-> Opened(@.state),
                        rows |-> Upsert(@.rows, Plausible(Current(client), skip))]]
  BY DEF UpdateOnlineStats
<1> HIDE DEF m
<1>3. \/ match' = m
      \/ i # NoLog /\ match' = [m EXCEPT !.table[i] =
                                  [state |-> Opened(e.state),
                                   rows |-> Upsert(e.rows, Plausible(Current(client), skip))]]
  BY <1>2
<1>4. \/ match' = m
      \/ i # NoLog /\ match' = Written(m, EntryWith(e, Opened(e.state),
                                                    Plausible(Current(client), skip)))
  BY <1>3 DEF Written, EntryWith
<1> QED BY <1>1, <1>4

\* The clients and the records at a round end.
Round == [s \in Slots |-> IF client[s].inGame THEN Ensure(client[s]) ELSE client[s]]
RoundRecords == Gathered(Round, match.stored, {s \in Slots : Round[s].inGame})

LEMMA RoundMatch ==
    ASSUME NEW skip, PublishRound(skip)
    PROVE  /\ client' = Round /\ match.log # NoLog
           /\ \E state \in {match.table[match.log].state, "published"} :
                match' = Written(match, EntryWith(match.table[match.log], state,
                                                  Plausible(RoundRecords, skip)))
<1> DEFINE valid == Plausible(RoundRecords, skip)
           i == match.log
           e == match.table[i]
           state == IF Cardinality(DOMAIN valid) < 2 THEN e.state ELSE "published"
<1>1. /\ client' = Round /\ i # NoLog
      /\ match' = [match EXCEPT !.table[i] =
                     [state |-> IF Cardinality(DOMAIN valid) < 2 THEN @.state
                                ELSE "published",
                      rows |-> Upsert(@.rows, valid)]]
  BY DEF PublishRound, Round, RoundRecords
<1> HIDE DEF valid
<1>2. match' = [match EXCEPT !.table[i] = [state |-> state, rows |-> Upsert(e.rows, valid)]]
  BY <1>1
<1>3. match' = Written(match, EntryWith(e, state, valid)) /\ state \in {e.state, "published"}
  BY <1>2 DEF Written, EntryWith
<1> QED BY <1>1, <1>3 DEF valid

LEMMA RoundMakes ==
    ASSUME SlotsOK, match.stored \in Storages, MatchLogAssumption
    PROVE  /\ Round \in [Slots -> Clients]
           /\ \A s \in Slots : /\ Round[s].player = client[s].player
                               /\ Round[s].inGame = client[s].inGame
                               /\ Round[s].live = client[s].live
                               /\ Round[s].authorized = client[s].authorized
                               /\ Round[s].inGame /\ Round[s].authorized =>
                                    Round[s].id = Round[s].player
           /\ RoundRecords \in Storages
<1>1. client \in [Slots -> Clients]
  BY DEF SlotsOK
<1>2. \A s \in Slots : Round[s] = IF client[s].inGame THEN Ensure(client[s]) ELSE client[s]
  BY DEF Round
<1>3. /\ Round = [s \in Slots |-> Round[s]]
      /\ \A s \in Slots : Round[s] \in Clients
  <2>1. Round = [s \in Slots |-> Round[s]]
    BY DEF Round
  <2> QED BY <1>1, <1>2, <2>1, EnsureMakes
<1>4. Round \in [Slots -> Clients]
  BY <1>3
<1>5. RoundRecords \in Storages
  BY <1>4, GatheredType DEF RoundRecords
<1>6. \A s \in Slots : /\ Round[s].player = client[s].player
                       /\ Round[s].inGame = client[s].inGame
                       /\ Round[s].live = client[s].live
                       /\ Round[s].authorized = client[s].authorized
                       /\ Round[s].inGame /\ Round[s].authorized =>
                            Round[s].id = Round[s].player
  BY <1>1, <1>2, EnsureMakes DEF Same
<1> QED BY <1>4, <1>5, <1>6

\* The record of the match at the end of the plugin, and afterwards.
Stopped(skip) == WithLast(Finalized(client, match, skip), NoLog)

LEMMA ReloadMatch ==
    ASSUME NEW bots, NEW skip, Reload(bots, skip)
    PROVE  \/ match' = Cleared(Stopped(skip))
           \/ match' = Begun(Stopped(skip), FALSE) /\ MayBegin
  BY DEF Reload, Stopped, WithLast

LEMMA StoppedMakes ==
    ASSUME MatchLogAssumption, NEW skip, client \in [Slots -> Clients], match \in Matches
    PROVE  LET f == Finalized(client, match, skip)
               q == Stopped(skip)
           IN /\ f \in Matches /\ f.begun = match.begun
              /\ q \in Matches /\ q.log = f.log /\ q.begun = f.begun /\ q.last = NoLog
              /\ q.stored = f.stored /\ q.table = f.table
<1> DEFINE f == Finalized(client, match, skip)
<1>1. f \in Matches
  BY FinalizedType
<1>2. f.begun = match.begun
  <2>1. PICK all \in Storages :
          all = Gathered(EnsureAll(client), match.stored,
                         {s \in Slots : ValidClient(client[s])})
    BY EnsureAllMakes, MatchFields, GatheredType
  <2>2. /\ match.log = NoLog => f = match
        /\ match.log # NoLog => Ends(f, match, all, skip)
    BY <2>1, FinalizedMakes
  <2> QED BY <2>2 DEF Ends
<1>3. NoLog \in NoLog .. MaxMatches
  BY DEF NoLog, MatchLogAssumption
<1>4. Stopped(skip) = WithLast(f, NoLog)
  BY DEF Stopped
<1> HIDE DEF f
<1>5. LET q == WithLast(f, NoLog)
      IN /\ q \in Matches /\ q.log = f.log /\ q.begun = f.begun /\ q.last = NoLog
         /\ q.stored = f.stored /\ q.table = f.table
  BY <1>1, <1>3, WithLastMakes
<1> QED BY <1>1, <1>2, <1>4, <1>5 DEF f

LEMMA PlainStep ==
    ASSUME MatchLogAssumption, PluginOK, MatchNext
    PROVE  Plain'
<1>1. /\ SlotsOK /\ client \in [Slots -> Clients] /\ match \in Matches
      /\ match.stored \in Storages /\ hits \in [Players -> Records]
      /\ playing \in BOOLEAN /\ ready \in BOOLEAN
      /\ \A t \in Slots : client[t] \in Clients /\ (client[t].inGame => ValidClient(client[t]))
  BY MatchFields DEF PluginOK, SlotsOK, Plain, SlotOK
<1>2. /\ match.table[match.log].state \in States \/ match.log = NoLog
      /\ match.table[match.log] \in Entries \/ match.log = NoLog
      /\ match.log = NoLog \/ match.log \in 1 .. MaxMatches
  BY <1>1, MatchFields
<1>3. ASSUME NEW m \in Matches, m.log # NoLog, NEW state \in States, NEW new \in Storages
      PROVE  Written(m, EntryWith(m.table[m.log], state, new)) \in Matches
  <2> DEFINE e == EntryWith(m.table[m.log], state, new)
  <2>1. m.table[m.log] \in Entries
    BY <1>3, MatchFields
  <2>2. e \in Entries
    BY <1>3, <2>1, EntryWithMakes
  <2> HIDE DEF e
  <2>3. Written(m, e) \in Matches
    BY <1>3, <2>2, WrittenMakes
  <2> QED BY <2>3 DEF e
<1>4. ASSUME NEW m \in Matches, m.begun < MaxMatches, NEW little \in BOOLEAN
      PROVE  Begun(m, little) \in Matches
  BY <1>1, <1>4, BegunMakes
<1>5. match' \in Matches
  <2>1. ASSUME NEW s \in Slots, NEW little \in BOOLEAN, PutInServer(s, little)
        PROVE  match' \in Matches
    <3> DEFINE m == MatchJoined(match, little)
               x == Without(m.stored, Entered(client, m, s).id)
    <3>1. match.log = NoLog => match.begun < MaxMatches
      BY <2>1 DEF PutInServer, MayBegin
    <3>2. m \in Matches
      BY <1>1, <1>4, <3>1 DEF MatchJoined
    <3>3. match' = WithStored(m, x)
      BY <2>1 DEF PutInServer, WithStored
    <3> HIDE DEF m
    <3>4. x \in Storages
      BY <3>2, MatchFields, WithoutMakes
    <3> HIDE DEF x
    <3>5. WithStored(m, x) \in Matches
      BY <3>2, <3>4, WithStoredMakes
    <3> QED BY <3>3, <3>5
  <2>2. ASSUME NEW s \in Slots, NEW played \in BOOLEAN, NEW skip \in SUBSET Suspects,
               Leave(s, played, skip)
        PROVE  match' \in Matches
    <3> DEFINE c == Ensure(client[s])
               m == Saved(match, c, played)
               cl == [client EXCEPT ![s] = ResetAll(c)]
    <3>1. match' = m \/ match' = Finalized(cl, m, skip)
      BY <2>2, LeaveMatch
    <3>2. c \in Clients
      BY <1>1, EnsureMakes
    <3> HIDE DEF c
    <3>3. ResetAll(c) \in Clients
      BY <3>2, ResetAllMakes
    <3>4. cl \in [Slots -> Clients]
      BY <1>1, <3>3
    <3>5. m \in Matches
      BY <1>1, <3>2, SavedMakes
    <3> HIDE DEF m, cl
    <3>6. Finalized(cl, m, skip) \in Matches
      BY <3>4, <3>5, FinalizedType
    <3> QED BY <3>1, <3>5, <3>6
  <2>3. ASSUME NEW skip \in SUBSET Suspects, UpdateOnlineStats(skip)
        PROVE  match' \in Matches
    <3> DEFINE new == Plausible(Current(client), skip)
    <3>1. PICK m : /\ m = match \/ m = Finalized(client, match, skip)
                   /\ \/ match' = m
                      \/ /\ m.log # NoLog
                         /\ match' = Written(m, EntryWith(m.table[m.log],
                                                    Opened(m.table[m.log].state), new))
      BY <2>3, TimerMatch
    <3>2. new \in Storages
      BY <1>1, CurrentMakes, PlausibleMakes
    <3> HIDE DEF new
    <3>3. m \in Matches
      BY <1>1, <3>1, FinalizedType
    <3>4. ASSUME m.log # NoLog PROVE Opened(m.table[m.log].state) \in States
      BY <3>3, <3>4, MatchFields, OpenedMakes
    <3> QED BY <1>3, <3>1, <3>2, <3>3, <3>4
  <2>4. ASSUME NEW skip \in SUBSET Suspects, PublishRound(skip)
        PROVE  match' \in Matches
    <3>1. PICK state \in {match.table[match.log].state, "published"} :
            match' = Written(match, EntryWith(match.table[match.log], state,
                                              Plausible(RoundRecords, skip)))
      BY <2>4, RoundMatch
    <3>2. match.log # NoLog
      BY <2>4, RoundMatch
    <3>3. state \in States
      BY <1>2, <3>1, <3>2 DEF States
    <3>4. Plausible(RoundRecords, skip) \in Storages
      BY <1>1, RoundMakes, PlausibleMakes
    <3> QED BY <1>1, <1>3, <3>1, <3>2, <3>3, <3>4
  <2>5. ASSUME NEW skip \in SUBSET Suspects, MapEnd(skip)
        PROVE  match' \in Matches
    BY <1>1, <2>5, FinalizedType DEF MapEnd
  <2>6. ASSUME NEW bots \in BOOLEAN, NEW skip \in SUBSET Suspects, Reload(bots, skip)
        PROVE  match' \in Matches
    <3>1. \/ match' = Cleared(Stopped(skip))
          \/ match' = Begun(Stopped(skip), FALSE) /\ MayBegin
      BY <2>6, ReloadMatch
    <3>2. Stopped(skip) \in Matches /\ Stopped(skip).begun = match.begun
      BY <1>1, StoppedMakes
    <3>3. MayBegin => Stopped(skip).begun < MaxMatches
      BY <3>2 DEF MayBegin
    <3> QED BY <1>4, <3>1, <3>2, <3>3, ClearedMakes
  <2>7. ASSUME NEW bots \in BOOLEAN, NEW little \in BOOLEAN, MapStart(bots, little)
        PROVE  match' \in Matches
    BY <1>1, <1>4, <2>7 DEF MapStart, MayBegin
  <2>8. CASE match' = match
    BY <1>1, <2>8
  <2>9. ASSUME NEW s \in Slots,
               \/ \E p \in Players : Connect(s, p)
               \/ Authorize(s) \/ AskLoads(s) \/ Hit(s)
               \/ LifeLoaded(s) \/ NoneFound(s) \/ RowFound(s)
               \/ \E connectionLost \in BOOLEAN : LoadFails(s, connectionLost)
        PROVE  match' \in Matches
    BY <2>8, <2>9
    DEF Connect, Authorize, AskLoads, Hit, LifeLoaded, NoneFound, RowFound, LoadFails
  <2>10. ASSUME DatabaseLost \/ DatabaseReady \/ \E p \in Players : RowRemoved(p)
         PROVE  match' \in Matches
    BY <2>8, <2>10 DEF DatabaseLost, DatabaseReady, RowRemoved
  <2> QED
    BY <2>1, <2>2, <2>3, <2>4, <2>5, <2>6, <2>7, <2>9, <2>10 DEF MatchNext
<1>6. hits' \in [Players -> Records]
  <2>1. ASSUME NEW s \in Slots, Hit(s) PROVE hits' \in [Players -> Records]
    <3> DEFINE p == client[s].player
    <3>1. p \in Players
      BY <1>1, <2>1, Fields DEF Hit, StatsReady, ValidClient, Persons
    <3>2. hits' = [hits EXCEPT ![p][Now] = @ + 1]
      BY <2>1 DEF Hit
    <3> HIDE DEF p
    <3>3. Now \in Origins
      BY NowIsOrigin DEF PluginOK
    <3>4. hits[p] \in Records
      BY <1>1, <3>1
    <3>5. [hits[p] EXCEPT ![Now] = @ + 1] \in Records
      BY <3>3, <3>4 DEF Records
    <3> QED BY <1>1, <3>1, <3>2, <3>5
  <2>2. CASE hits' = hits
    BY <1>1, <2>2
  <2>3. ASSUME NEW s \in Slots,
               \/ \E p \in Players : Connect(s, p)
               \/ Authorize(s)
               \/ \E little \in BOOLEAN : PutInServer(s, little)
               \/ AskLoads(s)
               \/ LifeLoaded(s) \/ NoneFound(s) \/ RowFound(s)
               \/ \E connectionLost \in BOOLEAN : LoadFails(s, connectionLost)
               \/ \E played \in BOOLEAN, skip \in SUBSET Suspects : Leave(s, played, skip)
        PROVE  hits' \in [Players -> Records]
    BY <2>2, <2>3
    DEF history, Connect, Authorize, PutInServer, AskLoads, LifeLoaded, NoneFound, RowFound,
        LoadFails, Leave
  <2>4. ASSUME \/ DatabaseLost \/ DatabaseReady \/ \E p \in Players : RowRemoved(p)
               \/ \E skip \in SUBSET Suspects :
                     \/ UpdateOnlineStats(skip) \/ PublishRound(skip) \/ MapEnd(skip)
                     \/ \E bots \in BOOLEAN : Reload(bots, skip)
               \/ \E bots \in BOOLEAN, little \in BOOLEAN : MapStart(bots, little)
        PROVE  hits' \in [Players -> Records]
    BY <2>2, <2>4
    DEF history, DatabaseLost, DatabaseReady, RowRemoved, UpdateOnlineStats, PublishRound,
        MapEnd, MapStart, Reload
  <2> QED BY <2>1, <2>3, <2>4 DEF MatchNext
<1>7. playing' \in BOOLEAN /\ ready' \in BOOLEAN
  <2>1. ASSUME NEW s \in Slots, NEW lostToo \in BOOLEAN, LoadFails(s, lostToo)
        PROVE  playing' \in BOOLEAN /\ ready' \in BOOLEAN
    BY <1>1, <2>1 DEF LoadFails
  <2>2. CASE playing' = playing /\ ready' = ready
    BY <1>1, <2>2
  <2>3. ASSUME NEW skip \in SUBSET Suspects,
               \/ UpdateOnlineStats(skip) \/ PublishRound(skip) \/ MapEnd(skip)
               \/ \E bots \in BOOLEAN : Reload(bots, skip)
        PROVE  playing' \in BOOLEAN /\ ready' \in BOOLEAN
    BY <1>1, <2>3 DEF UpdateOnlineStats, PublishRound, MapEnd, Reload
  <2>4. CASE \E bots, little \in BOOLEAN : MapStart(bots, little)
    BY <1>1, <2>4 DEF MapStart
  <2>5. CASE DatabaseLost \/ DatabaseReady
    BY <1>1, <2>5 DEF DatabaseLost, DatabaseReady
  <2>6. ASSUME NEW s \in Slots,
               \/ \E p \in Players : Connect(s, p)
               \/ Authorize(s)
               \/ \E little \in BOOLEAN : PutInServer(s, little)
               \/ AskLoads(s) \/ Hit(s)
               \/ LifeLoaded(s) \/ NoneFound(s) \/ RowFound(s)
               \/ \E played \in BOOLEAN, skip \in SUBSET Suspects : Leave(s, played, skip)
        PROVE  playing' \in BOOLEAN /\ ready' \in BOOLEAN
    BY <2>2, <2>6
    DEF Connect, Authorize, PutInServer, AskLoads, Hit, LifeLoaded, NoneFound, RowFound, Leave
  <2>7. ASSUME NEW p \in Players, RowRemoved(p) PROVE playing' \in BOOLEAN /\ ready' \in BOOLEAN
    BY <2>2, <2>7 DEF RowRemoved
  <2> QED BY <2>1, <2>3, <2>4, <2>5, <2>6, <2>7 DEF MatchNext
<1> QED BY <1>5, <1>6, <1>7 DEF Plain

LEMMA PluginStep ==
    ASSUME MatchLogAssumption, PluginOK, [MatchNext]_matchVars
    PROVE  PluginOK'
<1>1. CASE MatchNext
  <2>1. SlotsOK'
    BY <1>1, SlotActionsOK, OtherActionsOK DEF MatchNext
  <2>2. Plain'
    BY <1>1, PlainStep
  <2> QED BY <2>1, <2>2 DEF PluginOK
<1>2. CASE UNCHANGED matchVars
  BY <1>2 DEF matchVars, PluginOK, SlotsOK, Plain
<1> QED BY <1>1, <1>2

\* The plugin's state has its type, and every slot that waits has a query under way.
THEOREM PluginState == MatchSpec => []PluginOK
<1>1. ASSUME MatchInit PROVE PluginOK
  BY <1>1, PluginInitially, MatchLogAssumption
<1>2. ASSUME PluginOK, [MatchNext]_matchVars PROVE PluginOK'
  BY <1>2, PluginStep, MatchLogAssumption
<1> QED BY <1>1, <1>2, PTL DEF MatchSpec

\* A slot that waits for a load is answered: WaitingIsAnswered.
THEOREM WaitsAreAnswered == MatchSpec => []WaitingIsAnswered
<1>1. ASSUME PluginOK PROVE WaitingIsAnswered
  <2> SUFFICES ASSUME NEW s \in Slots
               PROVE  LET asked == {loads[s][i].of : i \in DOMAIN loads[s]}
                      IN /\ client[s].lifePending => "life" \in asked
                         /\ client[s].mapPending => "map" \in asked
    BY DEF WaitingIsAnswered
  <2>1. loads[s] \in Seq(LoadQuery) /\ Waits(client[s], loads[s])
    BY <1>1 DEF PluginOK, SlotsOK, SlotOK
  <2>2. DOMAIN loads[s] = 1 .. Len(loads[s])
    BY <2>1
  <2> QED BY <2>1, <2>2 DEF Waits, Asks
<1> QED BY <1>1, PluginState, PTL

-----------------------------------------------------------------------------
(* Hits of players who are validated before they enter the game.             *)

\* What the slots of validated clients are like; R: whose record is a found row.
Seat(c, l, R) ==
    /\ c.inGame => c.authorized /\ c.id = c.player
    /\ c.authorized => ValidClient(c)
    /\ ~ c.authorized => c.live = Zero /\ l = <<>>
    /\ c.player \notin R /\ ~ c.inGame => c.live = Zero

SeatsOK ==
    /\ \A s \in Slots : Seat(client[s], loads[s], restored)
    /\ \A p \in Players : OneSlot(client, p)

\* The log is the one of the match begun last, and the last one to end is over.
LogOK(m, running) ==
    /\ m.log # NoLog => /\ m.log = m.begun /\ running
                        /\ m.table[m.log].state \in {"absent", "open", "published"}
    /\ m.last <= m.begun
    /\ m.last # NoLog => m.table[m.last].state \in {"final", "deleted"}
    /\ \A t \in 1 .. MaxMatches :
         /\ t > m.begun => m.table[t] = Absent
         /\ m.table[t].state = "deleted" => m.table[t] = Deleted

\* No hits of a match that has not begun.
NotYet(h, m) == \A t \in 1 .. MaxMatches : t > m.begun => h[Within(t)] = 0

\* When the hits of the log to come, or of the one that runs, were made.
Here(m) == IF m.log = NoLog THEN {Before(m.begun + 1)} ELSE {Within(m.log), Before(m.log)}

\* The record r has hits of these origins only, and none that h has not.
Bounded(r, h, from) == \A o \in Origins : r[o] <= h[o] /\ (r[o] > 0 => o \in from)

\* The record r has all hits of the match, and no fewer than the log has.
Full(r, h, m, p) ==
    /\ \A o \in Origins : m.table[m.log].rows[p][o] <= r[o]
    /\ r[Within(m.log)] = h[Within(m.log)]

LiveOK(p, cl, m, h) ==
    \A s \in Slots : cl[s].player = p => Bounded(cl[s].live, h, Here(m))

\* The record of p, wherever it is, is complete, unless it was lost.
AllHeld(p, cl, m, h, L) ==
    \A r : Held(r, p, cl, m.stored) =>
      /\ Bounded(r, h, Here(m))
      /\ p \notin L => Full(r, h, m, p)

\* It is so while a log runs.
HeldOK(p, cl, m, h, L) ==
    m.log # NoLog =>
      /\ \A s \in Slots : cl[s].inGame /\ cl[s].player = p => p \notin DOMAIN m.stored
      /\ AllHeld(p, cl, m, h, L)

\* What the logs have of p.
RowsOK(p, m, h) ==
    \A t \in 1 .. MaxMatches : Bounded(m.table[t].rows[p], h, {Within(t), Before(t)})

FinalOK(p, m, h) ==
    \A t \in 1 .. MaxMatches :
      m.table[t].state = "final" => m.table[t].rows[p][Within(t)] = h[Within(t)]

LogsOK(p, m, h, L) ==
    /\ NotYet(h, m) /\ RowsOK(p, m, h)
    /\ p \notin Suspects \cup L => FinalOK(p, m, h)

PlayerOK(p) ==
    /\ playing => LiveOK(p, client, match, hits[p])
    /\ HeldOK(p, client, match, hits[p], lost)
    /\ LogsOK(p, match, hits[p], lost)

HitsKept ==
    /\ PluginOK /\ SeatsOK /\ LogOK(match, playing)
    /\ \A p \in Players \ restored : PlayerOK(p)

LEMMA HeldUnique ==
    ASSUME NEW cl, NEW st, NEW p, OneSlot(cl, p), NEW r, NEW q,
           Held(r, p, cl, st), Held(q, p, cl, st)
    PROVE  r = q
  BY DEF Held, OneSlot

\* The record of p stays where it is.
LEMMA HeldOn ==
    ASSUME NEW p, NEW cl, NEW d, NEW m, NEW h, NEW L, HeldOK(p, cl, m, h, L),
           NEW M, L \subseteq M,
           m.log # NoLog =>
             /\ \A s \in Slots : d[s].inGame /\ d[s].player = p => p \notin DOMAIN m.stored
             /\ \A r : Held(r, p, d, m.stored) => Held(r, p, cl, m.stored)
    PROVE  HeldOK(p, d, m, h, M)
  BY DEF HeldOK, AllHeld

\* d looks to p as c did: it has the same client with the same hits, or is no slot of p
\* with hits.
Alike(d, c, p) ==
    \/ d.player = c.player /\ d.inGame = c.inGame /\ d.live = c.live
    \/ d.player # p /\ c.player # p
    \/ ~ d.inGame /\ ~ c.inGame /\ d.live = Zero

LEMMA AlikeHeld ==
    ASSUME NEW p, NEW cl, NEW d, \A s \in Slots : Alike(d[s], cl[s], p), NEW st
    PROVE  /\ \A s \in Slots : d[s].inGame /\ d[s].player = p => cl[s].inGame /\ cl[s].player = p
           /\ \A r : Held(r, p, d, st) => Held(r, p, cl, st)
<1>1. \A s \in Slots :
        d[s].inGame /\ d[s].player = p <=> cl[s].inGame /\ cl[s].player = p
  BY DEF Alike
<1>2. \A s \in Slots : d[s].inGame /\ d[s].player = p => d[s].live = cl[s].live
  BY DEF Alike
<1> QED BY <1>1, <1>2 DEF Held

LEMMA ZeroBounded ==
    ASSUME MatchLogAssumption, NEW h \in Records, NEW from
    PROVE  Bounded(Zero, h, from)
<1>1. \A o \in Origins : Zero[o] = 0 /\ h[o] \in Nat
  BY ZeroIsRecord DEF Records
<1> QED BY <1>1 DEF Bounded

LEMMA AlikeOn ==
    ASSUME MatchLogAssumption, NEW p, NEW cl, NEW d, NEW m, NEW h \in Records, NEW L,
           \A s \in Slots : Alike(d[s], cl[s], p)
    PROVE  /\ LiveOK(p, cl, m, h) => LiveOK(p, d, m, h)
           /\ HeldOK(p, cl, m, h, L) => HeldOK(p, d, m, h, L)
<1>1. \A s \in Slots : d[s].player = p => d[s].live = Zero \/ (cl[s].player = p /\ d[s].live = cl[s].live)
  BY DEF Alike
<1>2. LiveOK(p, cl, m, h) => LiveOK(p, d, m, h)
  BY <1>1, ZeroBounded DEF LiveOK
<1>3. HeldOK(p, cl, m, h, L) => HeldOK(p, d, m, h, L)
  <2>1. /\ \A s \in Slots : d[s].inGame /\ d[s].player = p => cl[s].inGame /\ cl[s].player = p
        /\ \A r : Held(r, p, d, m.stored) => Held(r, p, cl, m.stored)
    BY AlikeHeld
  <2> QED BY <2>1 DEF HeldOK, AllHeld
<1> QED BY <1>2, <1>3

LEMMA WithinIsOrigin ==
    ASSUME MatchLogAssumption, NEW t \in 1 .. MaxMatches
    PROVE  /\ Within(t) \in Origins /\ Before(t) \in Origins /\ Within(t) # Before(t)
           /\ \A u \in Nat : /\ Within(t) # Before(u)
                             /\ (Within(t) = Within(u) => t = u)
                             /\ (Before(t) = Before(u) => t = u)
  BY DEF Origins, Within, Before, MatchLogAssumption

\* A row of p is replaced by its record, or left.
Replaced(new, old, p, cl, st) == new.rows[p] = old.rows[p] \/ Held(new.rows[p], p, cl, st)

\* How an entry may change: as LogsAdvance has it, without and with the rows of p.
StateOn(old, new) ==
    /\ old.state = "deleted" => new = old
    /\ old.state = "final" => new \in {old, Deleted}
    /\ old.state = "published" => new.state # "open"

RowsOn(old, new, p) == new # Deleted => \A o \in Origins : new.rows[p][o] >= old.rows[p][o]

LEMMA RowsOnItself ==
    ASSUME NEW e \in Entries, NEW p \in Players
    PROVE  RowsOn(e, e, p)
<1>1. e.rows[p] \in Records
  BY DEF Entries
<1> QED BY <1>1 DEF RowsOn, Records

LEMMA WrittenOn ==
    ASSUME MatchLogAssumption, NEW m \in Matches, m.log # NoLog, NEW cl, NEW p \in Players,
           NEW h \in Records, NEW L, OneSlot(cl, p), HeldOK(p, cl, m, h, L), LogsOK(p, m, h, L),
           NEW e \in Entries, e.state # "final",
           Replaced(e, m.table[m.log], p, cl, m.stored)
    PROVE  LET w == Written(m, e)
           IN /\ LiveOK(p, cl, m, h) => LiveOK(p, cl, w, h)
              /\ HeldOK(p, cl, w, h, L) /\ LogsOK(p, w, h, L)
              /\ p \notin L => RowsOn(m.table[m.log], e, p)
<1> DEFINE w == Written(m, e)
           i == m.log
           old == m.table[i]
<1>1. /\ w \in Matches /\ w.log = i /\ w.begun = m.begun /\ w.stored = m.stored
      /\ w.table = [m.table EXCEPT ![i] = e]
  BY WrittenMakes
<1> HIDE DEF w
<1>2. /\ i \in 1 .. MaxMatches /\ old \in Entries /\ m.begun \in 0 .. MaxMatches
      /\ m.table \in [1 .. MaxMatches -> Entries]
  BY MatchFields
<1>3. /\ w.table[i] = e
      /\ \A t \in 1 .. MaxMatches : t # i => w.table[t] = m.table[t]
  BY <1>1, <1>2
<1>4. e.rows[p] \in Records /\ old.rows[p] \in Records
  BY <1>2 DEF Entries
<1>5. Here(w) = Here(m)
  BY <1>1 DEF Here
<1>6. /\ \A s \in Slots : cl[s].inGame /\ cl[s].player = p => p \notin DOMAIN m.stored
      /\ \A r : Held(r, p, cl, m.stored) =>
           /\ Bounded(r, h, Here(m))
           /\ p \notin L => Full(r, h, m, p)
  BY DEF HeldOK, AllHeld
<1>7. ASSUME NEW r, Held(r, p, cl, m.stored), p \notin L, NEW o \in Origins
      PROVE  e.rows[p][o] <= r[o]
  <2>1. CASE e.rows[p] = old.rows[p]
    BY <1>6, <1>7, <2>1 DEF Full
  <2>2. CASE Held(e.rows[p], p, cl, m.stored)
    <3>1. r = e.rows[p]
      BY <1>7, <2>2, HeldUnique
    <3> QED BY <1>4, <3>1 DEF Records
  <2> QED BY <2>1, <2>2 DEF Replaced
<1>8. \A r : Held(r, p, cl, m.stored) =>
           /\ Bounded(r, h, Here(w))
           /\ p \notin L => Full(r, h, w, p)
  BY <1>1, <1>3, <1>5, <1>6, <1>7 DEF Full
<1>9. HeldOK(p, cl, w, h, L)
  BY <1>1, <1>6, <1>8 DEF HeldOK, AllHeld
<1>10. RowsOK(p, w, h)
  <2>1. \A t \in 1 .. MaxMatches : Bounded(m.table[t].rows[p], h, {Within(t), Before(t)})
    BY DEF LogsOK, RowsOK
  <2>2. Here(m) = {Within(i), Before(i)}
    BY DEF Here
  <2>3. Bounded(e.rows[p], h, {Within(i), Before(i)})
    BY <1>2, <1>6, <2>1, <2>2 DEF Replaced
  <2> QED BY <1>3, <2>1, <2>3 DEF RowsOK
<1>11. p \notin Suspects \cup L => FinalOK(p, w, h)
  BY <1>3 DEF LogsOK, FinalOK
<1>12. LogsOK(p, w, h, L)
  BY <1>1, <1>10, <1>11 DEF LogsOK, NotYet
<1>13. LiveOK(p, cl, m, h) => LiveOK(p, cl, w, h)
  BY <1>5 DEF LiveOK
<1>14. ASSUME p \notin L, NEW o \in Origins PROVE e.rows[p][o] >= old.rows[p][o]
  <2>1. CASE e.rows[p] = old.rows[p]
    BY <1>4, <2>1 DEF Records
  <2>2. CASE Held(e.rows[p], p, cl, m.stored)
    BY <1>4, <1>6, <1>14, <2>2 DEF Full, Records
  <2> QED BY <2>1, <2>2 DEF Replaced
<1> QED BY <1>9, <1>12, <1>13, <1>14 DEF w, RowsOn

LEMMA EndedOn ==
    ASSUME MatchLogAssumption, NEW m \in Matches, m.log # NoLog, NEW cl, NEW p \in Players,
           NEW h \in Records, NEW L, AllHeld(p, cl, m, h, L), LogsOK(p, m, h, L),
           NEW f, NEW skip \in SUBSET Suspects, EndsFor(f, m, p, cl, skip)
    PROVE  /\ \A d : HeldOK(p, d, f, h, L)
           /\ LogsOK(p, f, h, L)
           /\ p \notin L => \A t \in 1 .. MaxMatches : RowsOn(m.table[t], f.table[t], p)
<1> DEFINE i == m.log
           old == m.table[i]
           new == f.table[i]
<1>1. /\ f \in Matches /\ f.log = NoLog /\ f.begun = m.begun
      /\ \A t \in 1 .. MaxMatches : t # i => f.table[t] = m.table[t]
      /\ \/ new = old
         \/ new = Deleted
         \/ EndedEntry(new, old, p, cl, m.stored, skip)
  BY DEF EndsFor
<1>2. /\ i \in 1 .. MaxMatches /\ old \in Entries
      /\ m.table \in [1 .. MaxMatches -> Entries] /\ f.table \in [1 .. MaxMatches -> Entries]
  BY <1>1, MatchFields
<1>3. /\ old.rows[p] \in Records /\ new.rows[p] \in Records
  BY <1>2 DEF Entries
<1>4. \A r : Held(r, p, cl, m.stored) =>
           /\ Bounded(r, h, {Within(i), Before(i)})
           /\ p \notin L => Full(r, h, m, p)
  BY DEF AllHeld, Here
<1>5. Deleted.rows[p] = Zero /\ Deleted.state = "deleted"
  BY DEF Deleted, NoRows
<1>6. \A t \in 1 .. MaxMatches : Bounded(m.table[t].rows[p], h, {Within(t), Before(t)})
  BY DEF LogsOK, RowsOK
<1>7. Bounded(new.rows[p], h, {Within(i), Before(i)})
  <2>1. CASE new = old
    BY <1>2, <1>6, <2>1
  <2>2. CASE new = Deleted
    BY <1>5, <2>2, ZeroBounded
  <2>3. CASE EndedEntry(new, old, p, cl, m.stored, skip)
    BY <1>2, <1>4, <1>6, <2>3 DEF EndedEntry
  <2> QED BY <1>1, <2>1, <2>2, <2>3
<1>8. RowsOK(p, f, h)
  BY <1>1, <1>6, <1>7 DEF RowsOK
<1>9. ASSUME p \notin Suspects \cup L PROVE FinalOK(p, f, h)
  <2>1. FinalOK(p, m, h)
    BY <1>9 DEF LogsOK
  <2>2. ASSUME new.state = "final" PROVE new.rows[p][Within(i)] = h[Within(i)]
    <3>1. CASE new = old
      BY <1>2, <2>1, <2>2, <3>1 DEF FinalOK
    <3>2. CASE EndedEntry(new, old, p, cl, m.stored, skip)
      <4>1. PICK r : /\ Held(r, p, cl, m.stored)
                     /\ new.rows[p] = r \/ (new.rows[p] = old.rows[p] /\ r = Zero)
        BY <1>9, <3>2 DEF EndedEntry
      <4>2. Full(r, h, m, p)
        BY <1>4, <1>9, <4>1
      <4>3. CASE new.rows[p] = r
        BY <4>2, <4>3 DEF Full
      <4>4. CASE new.rows[p] = old.rows[p] /\ r = Zero
        <5>1. Within(i) \in Origins
          BY <1>2, WithinIsOrigin
        <5>2. Zero[Within(i)] = 0
          BY <5>1, ZeroIsRecord
        <5>3. old.rows[p][Within(i)] <= 0 /\ h[Within(i)] = 0
          BY <4>2, <4>4, <5>1, <5>2 DEF Full
        <5>4. old.rows[p][Within(i)] \in Nat
          BY <1>3, <5>1 DEF Records
        <5> QED BY <4>4, <5>3, <5>4
      <4> QED BY <4>1, <4>3, <4>4
    <3> QED BY <1>1, <1>5, <2>2, <3>1, <3>2
  <2> QED BY <1>1, <2>1, <2>2 DEF FinalOK
<1>10. LogsOK(p, f, h, L)
  BY <1>1, <1>8, <1>9 DEF LogsOK, NotYet
<1>11. \A d : HeldOK(p, d, f, h, L)
  BY <1>1 DEF HeldOK
<1>12. ASSUME p \notin L, new # Deleted, NEW o \in Origins
       PROVE  new.rows[p][o] >= old.rows[p][o]
  <2>1. CASE new.rows[p] = old.rows[p]
    BY <1>3, <2>1 DEF Records
  <2>2. CASE \E r : Held(r, p, cl, m.stored) /\ new.rows[p] = r
    BY <1>3, <1>4, <1>12, <2>2 DEF Full, Records
  <2> QED BY <1>1, <1>12, <2>1, <2>2 DEF EndedEntry
<1>13. ASSUME p \notin L, NEW t \in 1 .. MaxMatches PROVE RowsOn(m.table[t], f.table[t], p)
  <2>1. CASE t = i
    BY <1>12, <1>13, <2>1 DEF RowsOn
  <2>2. CASE t # i
    BY <1>1, <1>2, <2>2, RowsOnItself
  <2> QED BY <2>1, <2>2
<1> QED BY <1>10, <1>11, <1>13

\* The next match begins: what was hit before it belongs to it.
BeginsFrom(b, m) ==
    /\ b \in Matches /\ b.log = m.begun + 1 /\ b.begun = m.begun + 1
    /\ b.stored = <<>> /\ b.last \in {NoLog, m.last}
    /\ \A t \in 1 .. MaxMatches :
         b.table[t] = m.table[t] \/ (t = m.last /\ b.table[t] = Deleted)

LEMMA BegunOn ==
    ASSUME MatchLogAssumption, NEW m \in Matches, NEW b, BeginsFrom(b, m),
           LogOK(m, TRUE), NEW cl \in [Slots -> Clients], NEW p \in Players,
           NEW h \in Records, NEW L, LogsOK(p, m, h, L),
           \A s \in Slots : cl[s].player = p => Bounded(cl[s].live, h, {Before(m.begun + 1)})
    PROVE  /\ LiveOK(p, cl, b, h) /\ HeldOK(p, cl, b, h, L) /\ LogsOK(p, b, h, L)
           /\ \A t \in 1 .. MaxMatches : RowsOn(m.table[t], b.table[t], p)
<1> DEFINE i == m.begun + 1
<1>1. /\ b \in Matches /\ b.log = i /\ b.begun = i /\ b.stored = <<>>
      /\ m.begun \in Nat /\ i # NoLog /\ i \in 1 .. MaxMatches
      /\ m.last <= m.begun
  <2>1. b.log = i /\ b \in Matches /\ m.begun \in 0 .. MaxMatches
    BY MatchFields DEF BeginsFrom
  <2>2. b.log \in NoLog .. MaxMatches
    BY <2>1, MatchFields
  <2> QED BY <2>1, <2>2 DEF BeginsFrom, LogOK, NoLog
<1>2. \A t \in 1 .. MaxMatches :
        b.table[t] = m.table[t] \/ b.table[t] = Deleted
  BY DEF BeginsFrom
<1>3. b.table[i] = Absent
  <2>1. i # m.last
    <3>1. m.last \in NoLog .. MaxMatches
      BY MatchFields
    <3> QED BY <1>1, <3>1 DEF NoLog
  <2>2. b.table[i] = m.table[i] /\ i > m.begun
    BY <1>1, <2>1 DEF BeginsFrom
  <2> QED BY <1>1, <2>2 DEF LogOK
<1>4. h[Within(i)] = 0
  BY <1>1 DEF LogsOK, NotYet
<1>5. /\ Here(b) = {Within(i), Before(i)} /\ Within(i) # Before(i)
      /\ Within(i) \in Origins
  BY <1>1, WithinIsOrigin DEF Here
<1> HIDE DEF i
<1>6. \A s \in Slots : cl[s].live \in Records
  BY Fields
<1>7. LiveOK(p, cl, b, h)
  BY <1>5 DEF LiveOK, Bounded, i
<1>8. DOMAIN b.stored = {}
  BY <1>1
<1>9. ASSUME NEW r, Held(r, p, cl, b.stored)
      PROVE  r \in Records /\ Bounded(r, h, {Before(i)}) 
  <2>1. r = Zero \/ \E s \in Slots : cl[s].player = p /\ r = cl[s].live
    BY <1>8, <1>9 DEF Held
  <2>2. CASE r = Zero
    BY <2>2, ZeroBounded, ZeroIsRecord
  <2>3. CASE \E s \in Slots : cl[s].player = p /\ r = cl[s].live
    BY <1>6, <2>3 DEF i
  <2> QED BY <2>1, <2>2, <2>3
<1>10. ASSUME NEW r, Held(r, p, cl, b.stored)
       PROVE  Bounded(r, h, Here(b)) /\ Full(r, h, b, p)
  <2>1. r \in Records /\ Bounded(r, h, {Before(i)})
    BY <1>9, <1>10
  <2>2. \A o \in Origins : b.table[b.log].rows[p][o] <= r[o]
    <3>1. b.table[b.log].rows[p] = Zero
      BY <1>1, <1>3 DEF Absent, NoRows
    <3> QED BY <2>1, <3>1, ZeroIsRecord DEF Records
  <2>3. r[Within(i)] = 0
    BY <1>5, <2>1 DEF Bounded, Records
  <2> QED BY <1>1, <1>4, <1>5, <2>1, <2>2, <2>3 DEF Bounded, Full
<1>11. HeldOK(p, cl, b, h, L)
  BY <1>8, <1>10 DEF HeldOK, AllHeld
<1>12. Deleted.rows[p] = Zero /\ Deleted.state = "deleted"
  BY DEF Deleted, NoRows
<1>13. RowsOK(p, b, h)
  BY <1>2, <1>12, ZeroBounded DEF LogsOK, RowsOK
<1>14. p \notin Suspects \cup L => FinalOK(p, b, h)
  BY <1>2, <1>12 DEF LogsOK, FinalOK
<1>15. NotYet(h, b)
  BY <1>1, MatchFields DEF LogsOK, NotYet, i
<1>16. \A t \in 1 .. MaxMatches : RowsOn(m.table[t], b.table[t], p)
  <2>1. \A t \in 1 .. MaxMatches : m.table[t] \in Entries
    BY MatchFields
  <2>2. \A e \in Entries : RowsOn(e, Deleted, p)
    BY DEF RowsOn
  <2> QED BY <1>2, <2>1, <2>2, RowsOnItself
<1> QED BY <1>7, <1>11, <1>13, <1>14, <1>15, <1>16 DEF LogsOK

LEMMA BegunLog ==
    ASSUME MatchLogAssumption, NEW m \in Matches, NEW b, BeginsFrom(b, m), LogOK(m, TRUE)
    PROVE  /\ LogOK(b, TRUE)
           /\ \A t \in 1 .. MaxMatches : StateOn(m.table[t], b.table[t])
<1> DEFINE i == m.begun + 1
<1>1. /\ b \in Matches /\ b.log = i /\ b.begun = i
      /\ m.begun \in Nat /\ b.last \in {NoLog, m.last}
      /\ m.last \in Nat /\ m.last <= m.begun /\ MaxMatches \in Nat
      /\ \A t \in 1 .. MaxMatches :
           b.table[t] = m.table[t] \/ (t = m.last /\ b.table[t] = Deleted)
  <2>1. /\ b.log = i /\ b \in Matches /\ m.begun \in 0 .. MaxMatches
        /\ m.last \in NoLog .. MaxMatches
    BY MatchFields DEF BeginsFrom
  <2> QED BY <2>1 DEF BeginsFrom, LogOK, NoLog, MatchLogAssumption
<1>2. i \in 1 .. MaxMatches /\ i # NoLog
  <2>1. b.log \in NoLog .. MaxMatches
    BY <1>1, MatchFields
  <2> QED BY <1>1, <2>1 DEF NoLog
<1>3. Deleted.state = "deleted" /\ Absent.state = "absent"
  BY DEF Deleted, Absent
<1>4. /\ \A t \in 1 .. MaxMatches :
           /\ t > m.begun => m.table[t] = Absent
           /\ m.table[t].state = "deleted" => m.table[t] = Deleted
      /\ m.last # NoLog => m.table[m.last].state \in {"final", "deleted"}
  BY DEF LogOK
<1>5. m.last # NoLog => m.last \in 1 .. MaxMatches
  BY MatchFields DEF NoLog
<1>6. /\ b.table[i].state = "absent"
      /\ b.last <= b.begun
      /\ b.last # NoLog => b.table[b.last].state \in {"final", "deleted"}
  BY <1>1, <1>2, <1>3, <1>4, <1>5 DEF NoLog
<1>7. \A t \in 1 .. MaxMatches :
           /\ t > b.begun => b.table[t] = Absent
           /\ b.table[t].state = "deleted" => b.table[t] = Deleted
  BY <1>1, <1>3, <1>4
<1>8. \A t \in 1 .. MaxMatches : StateOn(m.table[t], b.table[t])
  <2> TAKE t \in 1 .. MaxMatches
  <2>1. CASE b.table[t] = m.table[t]
    BY <2>1 DEF StateOn
  <2>2. CASE t = m.last /\ b.table[t] = Deleted
    <3>1. m.table[t].state \in {"final", "deleted"}
      BY <1>4, <2>2 DEF NoLog
    <3> QED BY <1>3, <1>4, <2>2, <3>1 DEF StateOn
  <2> QED BY <1>1, <2>1, <2>2
<1> QED BY <1>1, <1>6, <1>7, <1>8 DEF LogOK

\* The match ends, seen without its players.
EndsLog(f, m) ==
    /\ f \in Matches /\ f.log = NoLog /\ f.begun = m.begun /\ f.stored = <<>>
    /\ \A t \in 1 .. MaxMatches : t # m.log => f.table[t] = m.table[t]
    /\ \/ f.last = m.last /\ f.table[m.log] = m.table[m.log]
       \/ f.last = NoLog /\ f.table[m.log] = Deleted
       \/ f.last = m.log /\ f.table[m.log].state = "final"

LEMMA FinalizedEnds ==
    ASSUME MatchLogAssumption, NEW cl \in [Slots -> Clients], NEW m \in Matches, NEW skip
    PROVE  /\ m.log = NoLog => Finalized(cl, m, skip) = m
           /\ m.log # NoLog => EndsLog(Finalized(cl, m, skip), m)
<1>1. PICK all \in Storages :
        all = Gathered(EnsureAll(cl), m.stored, {s \in Slots : ValidClient(cl[s])})
  BY EnsureAllMakes, MatchFields, GatheredType
<1> DEFINE f == Finalized(cl, m, skip)
           row == [state |-> "final",
                   rows |-> Upsert(m.table[m.log].rows, Plausible(all, skip))]
<1>2. /\ m.log = NoLog => f = m
      /\ m.log # NoLog => Ends(f, m, all, skip)
  BY <1>1, FinalizedMakes
<1> HIDE DEF f
<1>3. ASSUME m.log # NoLog PROVE EndsLog(f, m)
  <2>1. m.log \in 1 .. MaxMatches /\ m.table \in [1 .. MaxMatches -> Entries]
    BY <1>3, MatchFields
  <2>2. row.state = "final"
    OBVIOUS
  <2>3. /\ f \in Matches /\ f.log = NoLog /\ f.begun = m.begun /\ f.stored = <<>>
        /\ \/ f.table = m.table /\ f.last = m.last
           \/ f.last = NoLog /\ f.table = [m.table EXCEPT ![m.log] = Deleted]
           \/ f.last = m.log /\ f.table = [m.table EXCEPT ![m.log] = row]
    BY <1>2, <1>3 DEF Ends
  <2> HIDE DEF row
  <2> QED BY <2>1, <2>2, <2>3 DEF EndsLog
<1> QED BY <1>2, <1>3 DEF f

LEMMA EndedLog ==
    ASSUME MatchLogAssumption, NEW m \in Matches, NEW f, m.log # NoLog, EndsLog(f, m),
           NEW running, LogOK(m, running), NEW after
    PROVE  /\ LogOK(f, after)
           /\ \A t \in 1 .. MaxMatches : StateOn(m.table[t], f.table[t])
<1> DEFINE i == m.log
<1>1. /\ i \in 1 .. MaxMatches /\ i = m.begun /\ m.last \in Nat /\ m.last <= m.begun
      /\ m.table[i].state \in {"absent", "open", "published"}
      /\ m.last # NoLog => /\ m.table[m.last].state \in {"final", "deleted"}
                           /\ m.last \in 1 .. MaxMatches
  BY MatchFields DEF LogOK, NoLog
<1>2. \A t \in 1 .. MaxMatches :
           /\ t > m.begun => m.table[t] = Absent
           /\ m.table[t].state = "deleted" => m.table[t] = Deleted
  BY DEF LogOK
<1>3. /\ f.log = NoLog /\ f.begun = m.begun
      /\ \A t \in 1 .. MaxMatches : t # i => f.table[t] = m.table[t]
      /\ \/ f.last = m.last /\ f.table[i] = m.table[i]
         \/ f.last = NoLog /\ f.table[i] = Deleted
         \/ f.last = i /\ f.table[i].state = "final"
  BY DEF EndsLog
<1>4. Deleted.state = "deleted"
  BY DEF Deleted
<1> HIDE DEF i
<1>5. f.last <= f.begun
  BY <1>1, <1>3 DEF NoLog
<1>6. f.last # NoLog => f.table[f.last].state \in {"final", "deleted"}
  BY <1>1, <1>3
<1>7. \A t \in 1 .. MaxMatches :
           /\ t > f.begun => f.table[t] = Absent
           /\ f.table[t].state = "deleted" => f.table[t] = Deleted
  BY <1>1, <1>2, <1>3
<1>8. \A t \in 1 .. MaxMatches : StateOn(m.table[t], f.table[t])
  BY <1>1, <1>3, <1>4 DEF StateOn
<1> QED BY <1>3, <1>5, <1>6, <1>7, <1>8 DEF LogOK

LEMMA WrittenLog ==
    ASSUME MatchLogAssumption, NEW m \in Matches, m.log # NoLog, NEW running,
           LogOK(m, running), NEW e \in Entries,
           e.state \in {"absent", "open", "published"},
           m.table[m.log].state = "published" => e.state = "published"
    PROVE  /\ LogOK(Written(m, e), running)
           /\ \A t \in 1 .. MaxMatches : StateOn(m.table[t], Written(m, e).table[t])
<1> DEFINE i == m.log
           w == Written(m, e)
<1>1. /\ i \in 1 .. MaxMatches /\ i = m.begun /\ m.last \in Nat /\ m.last <= m.begun
      /\ m.table[i].state \in {"absent", "open", "published"} /\ running
      /\ m.last # NoLog => /\ m.table[m.last].state \in {"final", "deleted"}
                           /\ m.last \in 1 .. MaxMatches
      /\ m.table \in [1 .. MaxMatches -> Entries]
  BY MatchFields DEF LogOK, NoLog
<1>2. \A t \in 1 .. MaxMatches :
           /\ t > m.begun => m.table[t] = Absent
           /\ m.table[t].state = "deleted" => m.table[t] = Deleted
  BY DEF LogOK
<1>3. /\ w.log = i /\ w.begun = m.begun /\ w.last = m.last
      /\ w.table = [m.table EXCEPT ![i] = e]
  BY WrittenMakes
<1> HIDE DEF i, w
<1>4. w.table[i] = e /\ \A t \in 1 .. MaxMatches : t # i => w.table[t] = m.table[t]
  BY <1>1, <1>3
<1>5. w.last # NoLog => w.table[w.last].state \in {"final", "deleted"}
  BY <1>1, <1>3, <1>4
<1>6. \A t \in 1 .. MaxMatches :
           /\ t > w.begun => w.table[t] = Absent
           /\ w.table[t].state = "deleted" => w.table[t] = Deleted
  BY <1>1, <1>2, <1>3, <1>4
<1>7. \A t \in 1 .. MaxMatches : StateOn(m.table[t], w.table[t])
  BY <1>1, <1>4 DEF StateOn, i
<1>8. LogOK(w, running)
  BY <1>1, <1>3, <1>4, <1>5, <1>6 DEF LogOK
<1> QED BY <1>7, <1>8 DEF w

\* A record of a match with the same log and logs.
SameLogs(q, m) ==
    /\ q.log = m.log /\ q.begun = m.begun /\ q.table = m.table

LEMMA SameLogsOn ==
    ASSUME NEW m, NEW q, SameLogs(q, m), q.last \in {m.last, NoLog}, NEW running,
           LogOK(m, running), NEW after, m.log # NoLog => after, 0 <= m.begun
    PROVE  LogOK(q, after)
  BY DEF SameLogs, LogOK, NoLog

LEMMA Begins ==
    ASSUME MatchLogAssumption, NEW m \in Matches, m.begun < MaxMatches, NEW little,
           ready \in BOOLEAN
    PROVE  BeginsFrom(Begun(m, little), m)
  BY BegunMakes DEF BeginsFrom

\* The end of a match, if one is under way.
LEMMA FinalizedLog ==
    ASSUME MatchLogAssumption, NEW cl \in [Slots -> Clients], NEW m \in Matches, NEW skip,
           NEW running, LogOK(m, running), NEW after
    PROVE  LET f == Finalized(cl, m, skip)
           IN /\ f \in Matches /\ f.log = NoLog /\ LogOK(f, after) /\ f.begun = m.begun
              /\ \A t \in 1 .. MaxMatches : StateOn(m.table[t], f.table[t])
<1> DEFINE f == Finalized(cl, m, skip)
<1>1. /\ m.log = NoLog => f = m
      /\ m.log # NoLog => EndsLog(f, m)
  BY FinalizedEnds
<1> HIDE DEF f
<1>2. CASE m.log = NoLog
  <2>1. \A t \in 1 .. MaxMatches : StateOn(m.table[t], m.table[t])
    BY DEF StateOn
  <2>2. LogOK(m, after)
    BY <1>2 DEF LogOK
  <2> QED BY <1>1, <1>2, <2>1, <2>2 DEF f
<1>3. CASE m.log # NoLog
  <2>1. EndsLog(f, m)
    BY <1>1, <1>3
  <2>2. LogOK(f, after) /\ \A t \in 1 .. MaxMatches : StateOn(m.table[t], f.table[t])
    BY <1>3, <2>1, EndedLog
  <2> QED BY <2>1, <2>2 DEF EndsLog, f
<1> QED BY <1>2, <1>3

LEMMA LogStep ==
    ASSUME MatchLogAssumption, PluginOK, LogOK(match, playing), MatchNext
    PROVE  /\ LogOK(match', playing')
           /\ \A t \in 1 .. MaxMatches : StateOn(match.table[t], match'.table[t])
<1> DEFINE Goal == /\ LogOK(match', playing')
                   /\ \A t \in 1 .. MaxMatches : StateOn(match.table[t], match'.table[t])
<1>1. /\ SlotsOK /\ client \in [Slots -> Clients] /\ match \in Matches
      /\ playing \in BOOLEAN /\ ready \in BOOLEAN /\ match.stored \in Storages
      /\ match.begun \in Nat
      /\ \A t \in Slots : client[t] \in Clients /\ (client[t].inGame => ValidClient(client[t]))
  BY MatchFields DEF PluginOK, SlotsOK, Plain, SlotOK
<1>2. \A t \in 1 .. MaxMatches : StateOn(match.table[t], match.table[t])
  BY DEF StateOn
<1>3. ASSUME NEW s \in Slots, NEW little \in BOOLEAN, PutInServer(s, little)
      PROVE  Goal
  <2> DEFINE m == MatchJoined(match, little)
             x == Without(m.stored, Entered(client, m, s).id)
  <2>1. /\ playing = TRUE /\ playing' = playing /\ match' = WithStored(m, x)
        /\ match.log = NoLog => match.begun < MaxMatches
    BY <1>1, <1>3 DEF PutInServer, WithStored, MayBegin
  <2>2. /\ m \in Matches /\ LogOK(m, TRUE)
        /\ \A t \in 1 .. MaxMatches : StateOn(match.table[t], m.table[t])
    <3>1. CASE match.log = NoLog
      <4>1. m = Begun(match, little)
        BY <3>1 DEF MatchJoined
      <4> HIDE DEF m
      <4>2. BeginsFrom(m, match)
        BY <1>1, <2>1, <3>1, <4>1, Begins
      <4>3. LogOK(match, TRUE)
        BY <2>1
      <4>4. m \in Matches
        BY <4>2 DEF BeginsFrom
      <4> QED BY <1>1, <4>2, <4>3, <4>4, BegunLog
    <3>2. CASE match.log # NoLog
      <4>1. m = match
        BY <3>2 DEF MatchJoined
      <4> HIDE DEF m
      <4> QED BY <1>1, <1>2, <2>1, <4>1
    <3> QED BY <3>1, <3>2
  <2> HIDE DEF m
  <2>3. m.stored \in Storages
    BY <2>2, MatchFields
  <2>4. x \in Storages
    BY <2>3, WithoutMakes
  <2> HIDE DEF x
  <2> DEFINE w == WithStored(m, x)
  <2>5. w.log = m.log /\ w.begun = m.begun /\ w.last = m.last /\ w.table = m.table
    BY <2>2, <2>4, WithStoredMakes
  <2>6. match' = w
    BY <2>1
  <2> HIDE DEF w
  <2>7. LogOK(w, TRUE)
    BY <2>2, <2>5 DEF LogOK
  <2> QED BY <2>1, <2>2, <2>5, <2>6, <2>7
<1>4. ASSUME NEW s \in Slots, NEW played \in BOOLEAN, NEW skip \in SUBSET Suspects,
             Leave(s, played, skip)
      PROVE  Goal
  <2> DEFINE c == Ensure(client[s])
             m == Saved(match, c, played)
             cl == [client EXCEPT ![s] = ResetAll(c)]
  <2>1. match' = m \/ match' = Finalized(cl, m, skip)
    BY <1>4, LeaveMatch
  <2>2. c \in Clients
    BY <1>1, EnsureMakes
  <2> HIDE DEF c
  <2>3. ResetAll(c) \in Clients
    BY <2>2, ResetAllMakes
  <2>4. cl \in [Slots -> Clients]
    BY <1>1, <2>3
  <2>5. m \in Matches /\ SameLogs(m, match) /\ m.last = match.last
    BY <1>1, <2>2, SavedMakes DEF SameLogs
  <2> HIDE DEF m, cl
  <2>6. match.log # NoLog => playing
    BY DEF LogOK
  <2>7. LogOK(m, playing)
    BY <1>1, <2>5, <2>6, SameLogsOn
  <2>8. playing' = playing
    BY <1>4 DEF Leave
  <2>9. LET f == Finalized(cl, m, skip)
        IN /\ LogOK(f, playing)
           /\ \A t \in 1 .. MaxMatches : StateOn(m.table[t], f.table[t])
    BY <2>4, <2>5, <2>7, FinalizedLog
  <2> QED BY <1>2, <2>1, <2>5, <2>7, <2>8, <2>9 DEF SameLogs
<1>5. ASSUME NEW skip \in SUBSET Suspects, UpdateOnlineStats(skip)
      PROVE  Goal
  <2> DEFINE new == Plausible(Current(client), skip)
  <2>1. PICK m : /\ m = match \/ m = Finalized(client, match, skip)
                 /\ \/ match' = m
                    \/ /\ m.log # NoLog
                       /\ match' = Written(m, EntryWith(m.table[m.log],
                                                  Opened(m.table[m.log].state), new))
    BY <1>5, TimerMatch
  <2>2. new \in Storages
    BY <1>1, CurrentMakes, PlausibleMakes
  <2> HIDE DEF new
  <2>3. playing' = playing
    BY <1>5 DEF UpdateOnlineStats
  <2>4. CASE match' = m
    <3>1. LET f == Finalized(client, match, skip)
          IN /\ LogOK(f, playing)
             /\ \A t \in 1 .. MaxMatches : StateOn(match.table[t], f.table[t])
      BY <1>1, FinalizedLog
    <3> QED BY <1>2, <2>1, <2>3, <2>4, <3>1
  <2>5. CASE /\ m.log # NoLog
             /\ match' = Written(m, EntryWith(m.table[m.log],
                                              Opened(m.table[m.log].state), new))
    <3>1. m = match
      <4>1. Finalized(client, match, skip).log = NoLog
        BY <1>1, FinalizedLog
      <4> QED BY <2>1, <2>5, <4>1
    <3> DEFINE old == match.table[match.log]
               state == Opened(old.state)
               e == EntryWith(old, state, new)
    <3>2. old \in Entries /\ old.state \in States
      BY <1>1, <2>5, <3>1, MatchFields
    <3>3. state \in States /\ state \in {"open", "published"}
          /\ (old.state = "published" => state = "published")
      BY <3>2, OpenedMakes
    <3>4. match' = Written(match, e)
      BY <2>5, <3>1
    <3> HIDE DEF old, state
    <3>5. e \in Entries /\ e.state = state
      BY <2>2, <3>2, <3>3, EntryWithMakes
    <3> HIDE DEF e
    <3>6. match.table[match.log].state = "published" => e.state = "published"
      BY <3>3, <3>5 DEF old
    <3>7. /\ LogOK(Written(match, e), playing)
          /\ \A t \in 1 .. MaxMatches : StateOn(match.table[t], Written(match, e).table[t])
      BY <1>1, <2>5, <3>1, <3>3, <3>5, <3>6, WrittenLog
    <3> QED BY <2>3, <3>4, <3>7
  <2> QED BY <2>1, <2>4, <2>5
<1>6. ASSUME NEW skip \in SUBSET Suspects, PublishRound(skip)
      PROVE  Goal
  <2> DEFINE old == match.table[match.log]
             new == Plausible(RoundRecords, skip)
  <2>1. PICK state \in {old.state, "published"} :
          match' = Written(match, EntryWith(old, state, new))
    BY <1>6, RoundMatch
  <2>2. match.log # NoLog
    BY <1>6, RoundMatch
  <2>3. new \in Storages
    BY <1>1, RoundMakes, PlausibleMakes
  <2>4. old \in Entries /\ old.state \in {"absent", "open", "published"}
    BY <1>1, <2>2, MatchFields DEF LogOK
  <2>5. playing' = playing
    BY <1>6 DEF PublishRound
  <2> DEFINE e == EntryWith(old, state, new)
  <2> HIDE DEF old, new
  <2>10. state \in States
    BY <2>1, <2>4 DEF States
  <2>6. e \in Entries /\ e.state = state
    BY <2>3, <2>4, <2>10, EntryWithMakes
  <2>7. match' = Written(match, e)
    BY <2>1
  <2> HIDE DEF e
  <2>8. /\ e.state \in {"absent", "open", "published"}
        /\ match.table[match.log].state = "published" => e.state = "published"
    BY <2>1, <2>4, <2>6 DEF old
  <2>9. /\ LogOK(Written(match, e), playing)
        /\ \A t \in 1 .. MaxMatches : StateOn(match.table[t], Written(match, e).table[t])
    BY <1>1, <2>2, <2>6, <2>8, WrittenLog
  <2> QED BY <2>5, <2>7, <2>9
<1>7. ASSUME NEW skip \in SUBSET Suspects, MapEnd(skip)
      PROVE  Goal
  <2>1. match' = Finalized(client, match, skip) /\ playing' = FALSE
    BY <1>7 DEF MapEnd
  <2>2. LET f == Finalized(client, match, skip)
        IN /\ LogOK(f, FALSE)
           /\ \A t \in 1 .. MaxMatches : StateOn(match.table[t], f.table[t])
    BY <1>1, FinalizedLog
  <2> QED BY <2>1, <2>2
<1>8. ASSUME NEW bots \in BOOLEAN, NEW skip \in SUBSET Suspects, Reload(bots, skip)
      PROVE  Goal
  <2> DEFINE f == Finalized(client, match, skip)
             q == Stopped(skip)
  <2>1. \/ match' = Cleared(q)
        \/ match' = Begun(q, FALSE) /\ MayBegin
    BY <1>8, ReloadMatch
  <2>2. /\ f \in Matches /\ f.log = NoLog /\ LogOK(f, TRUE)
        /\ \A t \in 1 .. MaxMatches : StateOn(match.table[t], f.table[t])
    BY <1>1, FinalizedLog
  <2>3. /\ q \in Matches /\ q.log = f.log /\ q.begun = f.begun /\ q.last = NoLog
        /\ q.table = f.table /\ q.begun = match.begun
    BY <1>1, StoppedMakes
  <2>4. playing' = TRUE
    BY <1>1, <1>8 DEF Reload
  <2>5. f.begun \in Nat
    BY <1>1, <2>3
  <2> HIDE DEF f, q
  <2>6. LogOK(q, TRUE)
    BY <2>2, <2>3, <2>5 DEF LogOK, NoLog
  <2>7. CASE match' = Cleared(q)
    <3> DEFINE k == Cleared(q)
    <3>1. k.log = q.log /\ k.begun = q.begun /\ k.table = q.table /\ k.last = q.last
      BY <2>2, <2>3, ClearedMakes
    <3>2. match' = k
      BY <2>7
    <3> HIDE DEF k
    <3>3. LogOK(k, TRUE)
      BY <2>6, <3>1 DEF LogOK
    <3> QED BY <2>2, <2>3, <2>4, <3>1, <3>2, <3>3
  <2>8. CASE match' = Begun(q, FALSE) /\ MayBegin
    <3>1. BeginsFrom(match', q)
      BY <1>1, <2>3, <2>8, Begins DEF MayBegin
    <3>2. PICK b : b = match'
      OBVIOUS
    <3>3. BeginsFrom(b, q)
      BY <3>1, <3>2
    <3>4. /\ LogOK(b, TRUE)
          /\ \A t \in 1 .. MaxMatches : StateOn(q.table[t], b.table[t])
      BY <2>3, <2>6, <3>3, BegunLog
    <3>5. \A t \in 1 .. MaxMatches : b.table[t] = q.table[t] \/ b.table[t] = Deleted
      BY <3>3 DEF BeginsFrom
    <3>6. \A t \in 1 .. MaxMatches : StateOn(match.table[t], b.table[t])
      <4> TAKE t \in 1 .. MaxMatches
      <4>1. CASE b.table[t] = q.table[t]
        BY <2>2, <2>3, <4>1
      <4>2. CASE b.table[t] = Deleted
        <5>1. match.table[t].state = "deleted" => match.table[t] = Deleted
          BY DEF LogOK
        <5> QED BY <4>2, <5>1 DEF StateOn, Deleted
      <4> QED BY <3>5, <4>1, <4>2
    <3> QED BY <2>4, <3>2, <3>4, <3>6
  <2> QED BY <2>1, <2>7, <2>8
<1>9. ASSUME NEW bots \in BOOLEAN, NEW little \in BOOLEAN, MapStart(bots, little)
      PROVE  Goal
  <2>1. /\ playing = FALSE /\ playing' = TRUE /\ match.begun < MaxMatches
        /\ match' = IF bots THEN Begun(match, little) ELSE match
    BY <1>1, <1>9 DEF MapStart, MayBegin
  <2>2. LogOK(match, TRUE)
    BY <2>1 DEF LogOK
  <2>3. CASE match' = match
    BY <1>2, <2>1, <2>2, <2>3
  <2>4. CASE match' = Begun(match, little)
    <3>1. PICK b : b = match'
      OBVIOUS
    <3>2. BeginsFrom(b, match)
      BY <1>1, <2>1, <2>4, <3>1, Begins
    <3>3. /\ LogOK(b, TRUE)
          /\ \A t \in 1 .. MaxMatches : StateOn(match.table[t], b.table[t])
      BY <1>1, <2>2, <3>2, BegunLog
    <3> QED BY <2>1, <3>1, <3>3
  <2> QED BY <2>1, <2>3, <2>4
<1>10. ASSUME match' = match, playing' = playing PROVE Goal
  BY <1>2, <1>10
<1> HIDE DEF Goal
<1>11. ASSUME NEW s \in Slots,
              \/ \E p \in Players : Connect(s, p)
              \/ Authorize(s)
              \/ AskLoads(s)
              \/ Hit(s)
              \/ LifeLoaded(s)
              \/ NoneFound(s)
              \/ RowFound(s)
              \/ \E connectionLost \in BOOLEAN : LoadFails(s, connectionLost)
       PROVE  Goal
  <2>1. match' = match /\ playing' = playing
    BY <1>11 DEF Connect, Authorize, AskLoads, Hit, LifeLoaded, NoneFound, RowFound, LoadFails
  <2> QED BY <1>10, <2>1
<1>12. ASSUME \/ DatabaseLost
              \/ DatabaseReady
              \/ \E p \in Players : RowRemoved(p)
       PROVE  Goal
  <2>1. match' = match /\ playing' = playing
    BY <1>12 DEF DatabaseLost, DatabaseReady, RowRemoved
  <2> QED BY <1>10, <2>1
<1>13. Goal
  BY <1>3, <1>4, <1>5, <1>6, <1>7, <1>8, <1>9, <1>11, <1>12 DEF MatchNext
<1> QED BY <1>13 DEF Goal

LEMMA SeatSame ==
    ASSUME NEW c \in Clients, NEW d \in Clients, Same(d, c), NEW l, NEW k, NEW R, NEW Q,
           R \subseteq Q, Seat(c, l, R), ~ c.authorized => k = l
    PROVE  Seat(d, k, Q)
<1>1. /\ d.player = c.player /\ d.inGame = c.inGame /\ d.authorized = c.authorized
      /\ d.live = c.live /\ (d.id = c.id \/ d.id = Ensure(c).id)
  BY DEF Same
<1>2. c.authorized => Ensure(c).id = c.player
  BY EnsureMakes
<1> QED BY <1>1, <1>2 DEF Seat, ValidClient

LEMMA SeatOne ==
    ASSUME SlotsOK, SeatsOK, NEW s \in Slots, NEW d, NEW l, Makes(s, d, l),
           restored \subseteq restored', Seat(d, l, restored'),
           \/ d.player = client[s].player
           \/ \A t \in Slots : client[t].player # d.player
    PROVE  SeatsOK'
<1>1. /\ client'[s] = d /\ loads'[s] = l
      /\ \A t \in Slots : t # s => client'[t] = client[t] /\ loads'[t] = loads[t]
  BY MakesOne
<1>2. ASSUME NEW t \in Slots PROVE Seat(client'[t], loads'[t], restored')
  <2>1. CASE t = s
    BY <1>1, <2>1
  <2>2. CASE t # s
    BY <1>1, <2>2 DEF SeatsOK, Seat
  <2> QED BY <2>1, <2>2
<1>3. ASSUME NEW p \in Players PROVE OneSlot(client', p)
  BY <1>1 DEF SeatsOK, OneSlot
<1> QED BY <1>2, <1>3 DEF SeatsOK, OneSlot

\* The same where the client is the one it was.
LEMMA SeatOneSame ==
    ASSUME SlotsOK, SeatsOK, NEW s \in Slots, NEW d \in Clients, NEW l, Makes(s, d, l),
           restored' = restored, Same(d, client[s]),
           ~ client[s].authorized => l = loads[s]
    PROVE  SeatsOK'
<1>1. Seat(client[s], loads[s], restored) /\ client[s] \in Clients
  BY DEF SeatsOK, SlotsOK
<1>2. Seat(d, l, restored)
  BY <1>1, SeatSame
<1>3. d.player = client[s].player
  BY DEF Same
<1> QED BY <1>2, <1>3, SeatOne

LEMMA SeatAll ==
    ASSUME SeatsOK, NEW cl, NEW ld, client' = cl, loads' = ld, restored' = restored,
           \A t \in Slots : Seat(cl[t], ld[t], restored),
           \A t \in Slots : cl[t].player \in {client[t].player, NoPlayer},
           MatchLogAssumption
    PROVE  SeatsOK'
<1>1. \A p \in Players : OneSlot(cl, p)
  BY DEF SeatsOK, OneSlot, MatchLogAssumption
<1> QED BY <1>1 DEF SeatsOK, OneSlot

LEMMA SeatActions ==
    ASSUME MatchLogAssumption, LateIdentity = FALSE, PluginOK, SeatsOK, NEW s \in Slots,
           \/ \E p \in Players : Connect(s, p)
           \/ Authorize(s)
           \/ \E little \in BOOLEAN : PutInServer(s, little)
           \/ AskLoads(s)
           \/ Hit(s)
           \/ LifeLoaded(s)
           \/ NoneFound(s)
           \/ RowFound(s)
           \/ \E connectionLost \in BOOLEAN : LoadFails(s, connectionLost)
    PROVE  SeatsOK'
<1> DEFINE c == client[s]
           l == loads[s]
<1>1. /\ SlotsOK /\ c \in Clients /\ l \in Seq(LoadQuery) /\ ready \in BOOLEAN
      /\ Seat(c, l, restored) /\ match \in Matches
  BY DEF PluginOK, SlotsOK, Plain, SeatsOK
<1>2. ASSUME NEW p \in Players, Connect(s, p) PROVE SeatsOK'
  <2>1. Makes(s, Seated(c, p), l)
    BY <1>1, <1>2, ConnectSlot
  <2>2. p \in Persons /\ p # NoPlayer
    BY DEF Persons, MatchLogAssumption
  <2> DEFINE d == Seated(c, p)
  <2>3. /\ d.player = p /\ d.inGame = c.inGame /\ d.authorized = c.authorized
        /\ d.live = c.live
    <3>1. c \in Clients
      BY <1>1
    <3> HIDE DEF c
    <3> QED BY <2>2, <3>1, SeatedMakes
  <2>4. Makes(s, d, l)
    BY <2>1
  <2> HIDE DEF d
  <2>5. /\ ~ ValidClient(c) /\ restored' = restored
        /\ \A t \in Slots : client[t].player # p
    BY <1>2 DEF Connect, history
  <2>6. Seat(d, l, restored')
    BY <1>1, <2>3, <2>5 DEF Seat
  <2> QED BY <1>1, <2>3, <2>4, <2>5, <2>6, SeatOne
<1>3. CASE Authorize(s)
  <2> DEFINE v == Validated(c)
             d == Ensure(v)
  <2>1. Makes(s, d, l)
    BY <1>1, <1>3, AuthorizeSlot
  <2>2. /\ v \in Clients /\ v.player = c.player /\ v.inGame = c.inGame /\ v.authorized
        /\ v.live = c.live
    BY <1>1, SlotMakes
  <2> HIDE DEF v
  <2>3. /\ d.player = c.player /\ d.inGame = c.inGame /\ d.authorized /\ d.live = c.live
        /\ d.id = c.player
    BY <2>2, EnsureMakes DEF Same
  <2> HIDE DEF d
  <2>4. ~ c.authorized /\ ValidClient(c) /\ restored' = restored
    BY <1>3 DEF Authorize, history
  <2>5. Seat(d, l, restored')
    BY <1>1, <2>3, <2>4 DEF Seat, ValidClient
  <2> QED BY <1>1, <2>1, <2>3, <2>4, <2>5, SeatOne
<1>4. ASSUME NEW little \in BOOLEAN, PutInServer(s, little) PROVE SeatsOK'
  <2> DEFINE m == MatchJoined(match, little)
             e == Entered(client, m, s)
             d == Requested(e, ready)
             k == l \o Queries(e, ready)
  <2>1. Makes(s, d, k)
    BY <1>1, <1>4, PutInServerSlot
  <2>2. m \in Matches
    <3>1. match.log = NoLog => match.begun < MaxMatches
      BY <1>4 DEF PutInServer, MayBegin
    <3> QED BY <1>1, <3>1, BegunMakes DEF MatchJoined
  <2> HIDE DEF m
  <2>3. c.authorized /\ restored' = restored
    BY <1>4 DEF PutInServer, history
  <2>4. /\ e \in Clients /\ e.player = c.player /\ e.inGame /\ e.authorized
        /\ e.id = c.player
    BY <1>1, <2>2, <2>3, EnteredMakes
  <2> HIDE DEF e
  <2>5. d \in Clients /\ Same(d, e)
    BY <1>1, <2>4, RequestedMakes
  <2> HIDE DEF d, k
  <2>6. Seat(e, k, restored')
    BY <1>1, <2>3, <2>4 DEF Seat, ValidClient
  <2>7. Seat(d, k, restored')
    BY <2>4, <2>5, <2>6, SeatSame
  <2>8. d.player = c.player /\ restored \subseteq restored'
    BY <2>3, <2>4, <2>5 DEF Same
  <2> QED BY <1>1, <2>1, <2>7, <2>8, SeatOne
<1>5. CASE AskLoads(s)
  <2> DEFINE d == Requested(c, ready)
             k == l \o Queries(c, ready)
  <2>1. Makes(s, d, k)
    BY <1>1, <1>5, AskLoadsSlot
  <2>2. d \in Clients /\ Same(d, c) /\ (~ c.inGame => Queries(c, ready) = <<>>)
    BY <1>1, RequestedMakes
  <2>3. ~ c.authorized => k = l
    <3>1. ~ c.authorized => ~ c.inGame
      BY <1>1 DEF Seat
    <3> QED BY <1>1, <2>2, <3>1, ConcatEmptySeq
  <2>4. restored' = restored
    BY <1>5 DEF AskLoads, history
  <2> HIDE DEF d, k
  <2> QED BY <1>1, <2>1, <2>2, <2>3, <2>4, SeatOneSame
<1>6. CASE Hit(s)
  <2>1. Makes(s, Counted(c, Now), l)
    BY <1>1, <1>6, HitSlot
  <2>2. PICK o \in Origins : o = Now
    BY NowIsOrigin DEF PluginOK
  <2> DEFINE d == Counted(c, o)
  <2>3. /\ d.player = c.player /\ d.inGame = c.inGame /\ d.authorized = c.authorized
        /\ d.id = c.id
    <3> HIDE DEF c
    <3> QED BY <1>1, CountedMakes
  <2>4. Makes(s, d, l)
    BY <2>1, <2>2
  <2> HIDE DEF d
  <2>5. c.inGame /\ restored' = restored
    BY <1>6 DEF Hit, StatsReady
  <2>6. Seat(d, l, restored')
    BY <1>1, <2>3, <2>5 DEF Seat, ValidClient
  <2> QED BY <1>1, <2>3, <2>4, <2>5, <2>6, SeatOne
<1>7. l # <<>> => c.authorized
  BY <1>1 DEF Seat
<1>8. CASE LifeLoaded(s)
  <2>1. Makes(s, LifeAnswered(c), Tail(l)) /\ l # <<>>
    BY <1>1, <1>8, LifeLoadedSlot
  <2>2. LifeAnswered(c) \in Clients /\ Same(LifeAnswered(c), c)
    BY <1>1, AnsweredMakes
  <2>3. restored' = restored
    BY <1>8 DEF LifeLoaded, history
  <2> QED BY <1>1, <1>7, <2>1, <2>2, <2>3, SeatOneSame
<1>9. CASE NoneFound(s)
  <2>1. Makes(s, MapAnswered(c), Tail(l)) /\ l # <<>>
    BY <1>1, <1>9, NoneFoundSlot
  <2>2. MapAnswered(c) \in Clients /\ Same(MapAnswered(c), c)
    BY <1>1, AnsweredMakes
  <2>3. restored' = restored
    BY <1>9 DEF NoneFound, history
  <2> QED BY <1>1, <1>7, <2>1, <2>2, <2>3, SeatOneSame
<1>10. CASE RowFound(s)
  <2>1. l # <<>>
    BY <1>1, <1>10, RowFoundSlot
  <2>2. PICK r \in Records : Makes(s, MapFilled(c, r), Tail(l))
    BY <1>1, <1>10, RowFoundSlot
  <2>3. restored' = restored \cup {c.player}
    BY <1>10 DEF RowFound
  <2> DEFINE d == MapFilled(c, r)
  <2>4. /\ d.player = c.player /\ d.inGame = c.inGame /\ d.authorized = c.authorized
        /\ d.id = c.id
    <3> HIDE DEF c
    <3> QED BY <1>1, FilledMakes
  <2>5. Makes(s, d, Tail(l))
    BY <2>2
  <2> HIDE DEF d
  <2>6. Seat(d, Tail(l), restored')
    BY <1>1, <1>7, <2>1, <2>3, <2>4 DEF Seat, ValidClient
  <2> QED BY <1>1, <2>3, <2>4, <2>5, <2>6, SeatOne
<1>11. ASSUME NEW connectionLost \in BOOLEAN, LoadFails(s, connectionLost) PROVE SeatsOK'
  <2>1. l # <<>>
    BY <1>1, <1>11, LoadFailsSlot
  <2>2. \E d \in {LifeFailed(c), MapAnswered(c)} : Makes(s, d, Tail(l))
    BY <1>1, <1>11, LoadFailsSlot
  <2>3. \A d \in {LifeFailed(c), MapAnswered(c)} : d \in Clients /\ Same(d, c)
    BY <1>1, AnsweredMakes
  <2>4. restored' = restored
    BY <1>11 DEF LoadFails, history
  <2> QED BY <1>1, <1>7, <2>1, <2>2, <2>3, <2>4, SeatOneSame
<1> QED BY <1>2, <1>3, <1>4, <1>5, <1>6, <1>8, <1>9, <1>10, <1>11

LEMMA OutsideMakes ==
    ASSUME NEW c \in Clients
    PROVE  /\ Outside(c) \in Clients /\ Outside(c).player = c.player
           /\ ~ Outside(c).inGame /\ Outside(c).authorized = c.authorized
           /\ Outside(c).live = c.live
  BY SlotMakes

\* A client that was disconnected, or is no longer there.
LEMMA LeftSeat ==
    ASSUME MatchLogAssumption, NEW c \in Clients, NEW l, NEW R, Seat(c, l, R),
           NEW d, NEW k, LeftSlot(d, k, c, l)
    PROVE  /\ Seat(d, k, R) /\ d.player \in {c.player, NoPlayer}
           /\ ~ d.inGame /\ d.live = Zero
<1>1. CASE \E i \in Persons : d = Vacant(i) /\ k = <<>>
  BY <1>1, VacantMakes DEF Seat
<1>2. ASSUME d \in {Outside(ResetAll(Ensure(c))), Outside(Ensure(ResetAll(Ensure(c))))},
             k = l
      PROVE  /\ d.player = c.player /\ ~ d.inGame /\ d.authorized = c.authorized
             /\ d.live = Zero
  <2> DEFINE e == Ensure(c)
             x == ResetAll(e)
             y == Ensure(x)
  <2>1. /\ e \in Clients /\ e.player = c.player /\ e.authorized = c.authorized
    BY EnsureMakes DEF Same
  <2> HIDE DEF e
  <2>2. /\ x \in Clients /\ x.player = c.player /\ x.authorized = c.authorized
        /\ x.live = Zero
    BY <2>1, ResetAllMakes
  <2> HIDE DEF x
  <2>3. /\ y \in Clients /\ y.player = c.player /\ y.authorized = c.authorized
        /\ y.live = Zero
    BY <2>2, EnsureMakes DEF Same
  <2> HIDE DEF y
  <2>4. d = Outside(x) \/ d = Outside(y)
    BY <1>2 DEF e, x, y
  <2> QED BY <2>2, <2>3, <2>4, OutsideMakes
<1>3. ASSUME d \in {Outside(ResetAll(Ensure(c))), Outside(Ensure(ResetAll(Ensure(c))))},
             k = l
      PROVE  Seat(d, k, R)
  BY <1>2, <1>3 DEF Seat, ValidClient
<1> QED BY <1>1, <1>2, <1>3, VacantMakes DEF LeftSlot

LEMMA EnsureSeat ==
    ASSUME NEW c \in Clients, NEW l, NEW R, Seat(c, l, R)
    PROVE  /\ Seat(Ensure(c), l, R) /\ Ensure(c).player = c.player
           /\ Ensure(c).inGame = c.inGame /\ Ensure(c).live = c.live
<1>1. Ensure(c) \in Clients /\ Same(Ensure(c), c)
  BY EnsureMakes
<1> QED BY <1>1, SeatSame DEF Same

\* What OnPluginStart and OnClientPutInServer make of a slot.
ReloadedSlot(c) == IF c.inGame THEN Ensure(ResetMap(ResetAll(c))) ELSE ResetAll(c)

LEMMA ReloadedMakes ==
    ASSUME MatchLogAssumption, NEW c \in Clients
    PROVE  LET d == ReloadedSlot(c)
           IN /\ d \in Clients /\ d.player = c.player /\ d.inGame = c.inGame
              /\ d.authorized = c.authorized /\ d.live = Zero
              /\ d.inGame /\ d.authorized => d.id = d.player
<1> DEFINE x == ResetAll(c)
           y == ResetMap(x)
           z == Ensure(y)
<1>1. /\ x \in Clients /\ x.player = c.player /\ x.authorized = c.authorized
      /\ x.inGame = c.inGame /\ x.live = Zero
  BY ResetAllMakes
<1>2. ReloadedSlot(c) = IF c.inGame THEN z ELSE x
  BY DEF ReloadedSlot
<1> HIDE DEF x
<1>3. /\ y \in Clients /\ y.player = c.player /\ y.authorized = c.authorized
      /\ y.inGame = c.inGame /\ y.live = Zero
  BY <1>1, ResetMapMakes
<1> HIDE DEF y
<1>4. /\ z \in Clients /\ z.player = c.player /\ z.authorized = c.authorized
      /\ z.inGame = c.inGame /\ z.live = Zero
      /\ z.authorized => z.id = z.player
  BY <1>3, EnsureMakes DEF Same
<1> HIDE DEF z
<1>5. CASE c.inGame
  BY <1>2, <1>4, <1>5
<1>6. CASE ~ c.inGame
  BY <1>1, <1>2, <1>6
<1> QED BY <1>5, <1>6

LEMMA OtherSeats ==
    ASSUME MatchLogAssumption, PluginOK, SeatsOK,
           \/ \E s \in Slots, played \in BOOLEAN, skip \in SUBSET Suspects :
                 Leave(s, played, skip)
           \/ DatabaseLost
           \/ DatabaseReady
           \/ \E p \in Players : RowRemoved(p)
           \/ \E skip \in SUBSET Suspects :
                 \/ UpdateOnlineStats(skip)
                 \/ PublishRound(skip)
                 \/ MapEnd(skip)
                 \/ \E bots \in BOOLEAN : Reload(bots, skip)
           \/ \E bots \in BOOLEAN, little \in BOOLEAN : MapStart(bots, little)
    PROVE  SeatsOK'
<1>1. /\ SlotsOK
      /\ \A t \in Slots : /\ client[t] \in Clients /\ loads[t] \in Seq(LoadQuery)
                          /\ Seat(client[t], loads[t], restored)
  BY DEF PluginOK, SlotsOK, SeatsOK
<1>2. restored' = restored
  BY DEF history, Leave, DatabaseLost, DatabaseReady, RowRemoved, UpdateOnlineStats,
         PublishRound, MapEnd, Reload, MapStart
<1>3. ASSUME NEW s \in Slots, NEW played \in BOOLEAN, NEW skip \in SUBSET Suspects,
             Leave(s, played, skip)
      PROVE  SeatsOK'
  <2>1. /\ LeftSlot(client'[s], loads'[s], client[s], loads[s])
        /\ \A t \in Slots : t # s =>
             client'[t] \in {client[t], Ensure(client[t])} /\ loads'[t] = loads[t]
    BY <1>1, <1>3, LeaveSlots
  <2>2. ASSUME NEW t \in Slots
        PROVE  /\ Seat(client'[t], loads'[t], restored)
               /\ client'[t].player \in {client[t].player, NoPlayer}
    <3>1. CASE t = s
      BY <1>1, <2>1, <3>1, LeftSeat
    <3>2. CASE t # s
      BY <1>1, <2>1, <3>2, EnsureSeat
    <3> QED BY <3>1, <3>2
  <2> QED BY <1>2, <2>2, SeatAll
<1>4. CASE DatabaseReady
  <2>1. \A t \in Slots :
             /\ client'[t] = IF client[t].inGame THEN Requested(client[t], TRUE)
                             ELSE client[t]
             /\ loads'[t] = loads[t] \o Queries(client[t], TRUE)
    BY <1>1, <1>4, DatabaseReadySlots
  <2>2. ASSUME NEW t \in Slots
        PROVE  /\ Seat(client'[t], loads'[t], restored)
               /\ client'[t].player \in {client[t].player, NoPlayer}
    <3> DEFINE c == client[t]
               k == loads[t] \o Queries(client[t], TRUE)
    <3>1. c \in Clients /\ loads[t] \in Seq(LoadQuery) /\ Seat(c, loads[t], restored)
      BY <1>1
    <3>2. /\ Requested(c, TRUE) \in Clients /\ Same(Requested(c, TRUE), c)
          /\ ~ c.inGame => Queries(c, TRUE) = <<>>
      BY <3>1, RequestedMakes
    <3>3. ~ c.inGame => k = loads[t]
      BY <3>1, <3>2, ConcatEmptySeq
    <3>4. ~ c.authorized => ~ c.inGame
      BY <3>1 DEF Seat
    <3>5. Same(c, c)
      BY DEF Same
    <3>6. client'[t] \in {c, Requested(c, TRUE)} /\ loads'[t] = k
      BY <2>1
    <3> HIDE DEF c, k
    <3>7. Seat(c, k, restored) /\ Seat(Requested(c, TRUE), k, restored)
      BY <3>1, <3>2, <3>3, <3>4, <3>5, SeatSame
    <3>8. Requested(c, TRUE).player = c.player
      BY <3>2 DEF Same
    <3> QED BY <3>6, <3>7, <3>8 DEF c
  <2> QED BY <1>2, <2>2, SeatAll
<1>5. ASSUME NEW skip \in SUBSET Suspects, PublishRound(skip) PROVE SeatsOK'
  <2>1. \A t \in Slots :
             /\ client'[t] = IF client[t].inGame THEN Ensure(client[t]) ELSE client[t]
             /\ loads'[t] = loads[t]
    BY <1>1, <1>5, PublishRoundSlots
  <2>2. \A t \in Slots : /\ Seat(client'[t], loads'[t], restored)
                         /\ client'[t].player = client[t].player
    BY <1>1, <2>1, EnsureSeat
  <2> QED BY <1>2, <2>2, SeatAll
<1>6. ASSUME NEW skip \in SUBSET Suspects, MapEnd(skip) PROVE SeatsOK'
  <2>1. \A t \in Slots : client'[t] = Ensure(client[t]) /\ loads'[t] = loads[t]
    BY <1>1, <1>6, MapEndSlots
  <2>2. \A t \in Slots : /\ Seat(client'[t], loads'[t], restored)
                         /\ client'[t].player = client[t].player
    BY <1>1, <2>1, EnsureSeat
  <2> QED BY <1>2, <2>2, SeatAll
<1>7. ASSUME NEW bots \in BOOLEAN, NEW little \in BOOLEAN, MapStart(bots, little)
      PROVE  SeatsOK'
  <2>1. \A t \in Slots : client'[t] = ResetMap(client[t]) /\ loads'[t] = loads[t]
    BY <1>1, <1>7, MapStartSlots
  <2>2. \A t \in Slots : /\ Seat(client'[t], loads'[t], restored)
                         /\ client'[t].player = client[t].player
    BY <1>1, <2>1, ResetMapMakes DEF Seat, ValidClient
  <2> QED BY <1>2, <2>2, SeatAll
<1>8. ASSUME NEW bots \in BOOLEAN, NEW skip \in SUBSET Suspects, Reload(bots, skip)
      PROVE  SeatsOK'
  <2>1. \A t \in Slots : client'[t] = ReloadedSlot(client[t]) /\ loads'[t] = <<>>
    BY <1>8, ReloadSlots DEF ReloadedSlot
  <2>2. \A t \in Slots : /\ Seat(client'[t], loads'[t], restored)
                         /\ client'[t].player = client[t].player
    BY <1>1, <2>1, ReloadedMakes DEF Seat, ValidClient
  <2> QED BY <1>2, <2>2, SeatAll
<1>9. ASSUME client' = client, loads' = loads PROVE SeatsOK'
  BY <1>2, <1>9 DEF SeatsOK, OneSlot
<1>10. ASSUME \/ DatabaseLost
              \/ \E p \in Players : RowRemoved(p)
              \/ \E skip \in SUBSET Suspects : UpdateOnlineStats(skip)
       PROVE  SeatsOK'
  <2>1. client' = client /\ loads' = loads
    BY <1>10 DEF DatabaseLost, RowRemoved, UpdateOnlineStats
  <2> QED BY <1>9, <2>1
<1> QED BY <1>3, <1>4, <1>5, <1>6, <1>7, <1>8, <1>10

-----------------------------------------------------------------------------
(* The record of a player, through each action.                              *)

\* What an action does to what there is of p, and to what readers see of it.
Carried(p) ==
    /\ playing' => LiveOK(p, client', match', hits'[p])
    /\ HeldOK(p, client', match', hits'[p], lost')
    /\ LogsOK(p, match', hits'[p], lost')
    /\ p \notin lost' =>
         \A t \in 1 .. MaxMatches : RowsOn(match.table[t], match'.table[t], p)

LEMMA NoRowsChange ==
    ASSUME NEW m \in Matches, NEW p \in Players
    PROVE  \A t \in 1 .. MaxMatches : RowsOn(m.table[t], m.table[t], p)
<1>1. \A t \in 1 .. MaxMatches : m.table[t] \in Entries
  BY MatchFields
<1> QED BY <1>1, RowsOnItself

LEMMA QuietCarries ==
    ASSUME MatchLogAssumption, PluginOK, NEW p \in Players, PlayerOK(p),
           match' = match, hits'[p] = hits[p], lost' = lost, playing' => playing,
           \A s \in Slots : Alike(client'[s], client[s], p)
    PROVE  Carried(p)
<1>1. PICK d : d = client'
  OBVIOUS
<1>2. hits[p] \in Records /\ match \in Matches
  BY DEF PluginOK, Plain
<1>3. \A s \in Slots : Alike(d[s], client[s], p)
  BY <1>1
<1> DEFINE h == hits[p]
<1>4. h \in Records
  BY <1>2
<1> HIDE DEF h
<1>5. /\ LiveOK(p, client, match, h) => LiveOK(p, d, match, h)
      /\ HeldOK(p, client, match, h, lost) => HeldOK(p, d, match, h, lost)
  BY <1>3, <1>4, AlikeOn
<1>6. \A t \in 1 .. MaxMatches : RowsOn(match.table[t], match.table[t], p)
  BY <1>2, NoRowsChange
<1> QED BY <1>1, <1>5, <1>6 DEF PlayerOK, Carried, h

LEMMA SameAlike ==
    ASSUME NEW d, NEW c, Same(d, c), NEW p
    PROVE  Alike(d, c, p)
  BY DEF Same, Alike

\* A slot that changes, and looks to p as before.
LEMMA OneAlike ==
    ASSUME SlotsOK, NEW s \in Slots, NEW d, NEW l, Makes(s, d, l), NEW p,
           Alike(d, client[s], p)
    PROVE  \A t \in Slots : Alike(client'[t], client[t], p)
<1>1. /\ client'[s] = d
      /\ \A t \in Slots : t # s => client'[t] = client[t]
  BY MakesOne
<1>2. \A t \in Slots : Alike(client[t], client[t], p)
  BY DEF Alike
<1> QED BY <1>1, <1>2

LEMMA QuietActions ==
    ASSUME MatchLogAssumption, PluginOK, SeatsOK, NEW s \in Slots, NEW p \in Players,
           PlayerOK(p), p \notin restored',
           \/ \E q \in Players : Connect(s, q)
           \/ Authorize(s)
           \/ AskLoads(s)
           \/ LifeLoaded(s)
           \/ NoneFound(s)
           \/ RowFound(s)
           \/ \E connectionLost \in BOOLEAN : LoadFails(s, connectionLost)
    PROVE  Carried(p)
<1> DEFINE c == client[s]
           l == loads[s]
<1>1. /\ SlotsOK /\ c \in Clients /\ l \in Seq(LoadQuery) /\ ready \in BOOLEAN
      /\ Seat(c, l, restored)
  BY DEF PluginOK, SlotsOK, Plain, SeatsOK
<1>2. match' = match /\ hits' = hits /\ lost' = lost /\ playing' = playing
  BY DEF history, Connect, Authorize, AskLoads, LifeLoaded, NoneFound, RowFound, LoadFails
<1>3. ASSUME NEW d, NEW k, Makes(s, d, k), Alike(d, c, p) PROVE Carried(p)
  <2>1. \A t \in Slots : Alike(client'[t], client[t], p)
    BY <1>1, <1>3, OneAlike
  <2> QED BY <1>2, <2>1, QuietCarries
<1>4. ASSUME NEW d, NEW k, Makes(s, d, k), Same(d, c) PROVE Carried(p)
  BY <1>3, <1>4, SameAlike
<1>5. ASSUME NEW q \in Players, Connect(s, q) PROVE Carried(p)
  <2>1. Makes(s, Seated(c, q), l)
    BY <1>1, <1>5, ConnectSlot
  <2> DEFINE d == Seated(c, q)
  <2>2. d.player = q /\ d.inGame = c.inGame /\ d.live = c.live
    <3>1. c \in Clients /\ q \in Persons
      BY <1>1 DEF Persons
    <3> HIDE DEF c
    <3> QED BY <3>1, SeatedMakes
  <2>3. Makes(s, d, l)
    BY <2>1
  <2> HIDE DEF d
  <2>4. ~ ValidClient(c)
    BY <1>5 DEF Connect
  <2>5. Alike(d, c, p)
    BY <1>1, <2>2, <2>4 DEF Alike, Seat
  <2> QED BY <1>3, <2>3, <2>5
<1>6. CASE Authorize(s)
  <2> DEFINE v == Validated(c)
             d == Ensure(v)
  <2>1. Makes(s, d, l)
    BY <1>1, <1>6, AuthorizeSlot
  <2>2. /\ v \in Clients /\ v.player = c.player /\ v.inGame = c.inGame
        /\ v.live = c.live
    BY <1>1, SlotMakes
  <2> HIDE DEF v
  <2>3. /\ d.player = c.player /\ d.inGame = c.inGame /\ d.live = c.live
    BY <2>2, EnsureMakes DEF Same
  <2> HIDE DEF d
  <2>4. Alike(d, c, p)
    BY <2>3 DEF Alike
  <2> QED BY <1>3, <2>1, <2>4
<1>7. CASE AskLoads(s)
  <2>1. Makes(s, Requested(c, ready), l \o Queries(c, ready))
    BY <1>1, <1>7, AskLoadsSlot
  <2>2. Same(Requested(c, ready), c)
    BY <1>1, RequestedMakes
  <2> QED BY <1>4, <2>1, <2>2
<1>8. CASE LifeLoaded(s)
  <2>1. Makes(s, LifeAnswered(c), Tail(l))
    BY <1>1, <1>8, LifeLoadedSlot
  <2>2. Same(LifeAnswered(c), c)
    BY <1>1, AnsweredMakes
  <2> QED BY <1>4, <2>1, <2>2
<1>9. CASE NoneFound(s)
  <2>1. Makes(s, MapAnswered(c), Tail(l))
    BY <1>1, <1>9, NoneFoundSlot
  <2>2. Same(MapAnswered(c), c)
    BY <1>1, AnsweredMakes
  <2> QED BY <1>4, <2>1, <2>2
<1>10. CASE RowFound(s)
  <2>1. PICK r \in Records : Makes(s, MapFilled(c, r), Tail(l))
    BY <1>1, <1>10, RowFoundSlot
  <2>2. restored' = restored \cup {c.player}
    BY <1>10 DEF RowFound
  <2> DEFINE d == MapFilled(c, r)
  <2>3. d.player = c.player
    <3> HIDE DEF c
    <3> QED BY <1>1, FilledMakes
  <2>4. Makes(s, d, Tail(l))
    BY <2>1
  <2> HIDE DEF d
  <2>5. Alike(d, c, p)
    BY <2>2, <2>3 DEF Alike
  <2> QED BY <1>3, <2>4, <2>5
<1>11. ASSUME NEW connectionLost \in BOOLEAN, LoadFails(s, connectionLost) PROVE Carried(p)
  <2>1. \E d \in {LifeFailed(c), MapAnswered(c)} : Makes(s, d, Tail(l))
    BY <1>1, <1>11, LoadFailsSlot
  <2>2. \A d \in {LifeFailed(c), MapAnswered(c)} : Same(d, c)
    BY <1>1, AnsweredMakes
  <2> QED BY <1>4, <2>1, <2>2
<1> QED BY <1>5, <1>6, <1>7, <1>8, <1>9, <1>10, <1>11

LEMMA DatabaseCarries ==
    ASSUME MatchLogAssumption, PluginOK, NEW p \in Players, PlayerOK(p),
           \/ DatabaseLost
           \/ DatabaseReady
           \/ \E q \in Players : RowRemoved(q)
    PROVE  Carried(p)
<1>1. SlotsOK /\ \A t \in Slots : client[t] \in Clients
  BY DEF PluginOK, SlotsOK
<1>2. match' = match /\ hits' = hits /\ lost' = lost /\ playing' = playing
  BY DEF history, DatabaseLost, DatabaseReady, RowRemoved
<1>3. \A t \in Slots : Alike(client[t], client[t], p)
  BY DEF Alike
<1>4. CASE DatabaseReady
  <2>1. \A t \in Slots : client'[t] = IF client[t].inGame THEN Requested(client[t], TRUE)
                                      ELSE client[t]
    BY <1>1, <1>4, DatabaseReadySlots
  <2>2. \A t \in Slots : Same(Requested(client[t], TRUE), client[t])
    BY <1>1, RequestedMakes
  <2>3. \A t \in Slots : Alike(client'[t], client[t], p)
    BY <1>3, <2>1, <2>2, SameAlike
  <2> QED BY <1>2, <2>3, QuietCarries
<1>5. CASE DatabaseLost \/ \E q \in Players : RowRemoved(q)
  <2>1. client' = client
    BY <1>5 DEF DatabaseLost, RowRemoved
  <2> QED BY <1>2, <1>3, <2>1, QuietCarries
<1> QED BY <1>4, <1>5

\* One hit more, made at o.
WithHit(r, o) == [r EXCEPT ![o] = @ + 1]

LEMMA WithHitMakes ==
    ASSUME NEW r \in Records, NEW o \in Origins
    PROVE  /\ WithHit(r, o) \in Records
           /\ \A x \in Origins : WithHit(r, o)[x] = IF x = o THEN r[x] + 1 ELSE r[x]
  BY DEF WithHit, Records

LEMMA CountedLive ==
    ASSUME NEW c \in Clients, NEW o \in Origins
    PROVE  /\ Counted(c, o).player = c.player /\ Counted(c, o).inGame = c.inGame
           /\ Counted(c, o).live = WithHit(c.live, o)
<1>1. WithHit(c.live, o) \in Records
  BY Fields, WithHitMakes
<1> DEFINE r == WithHit(c.live, o)
<1>2. Counted(c, o) = [c EXCEPT !.live = r]
  BY DEF Counted, WithHit
<1> HIDE DEF r
<1>3. Counted(c, o).player = c.player /\ Counted(c, o).inGame = c.inGame /\ Counted(c, o).live = r
  BY <1>2 DEF Clients
<1> QED BY <1>3 DEF r

LEMMA WithHitBounded ==
    ASSUME NEW r \in Records, NEW h \in Records, NEW o \in Origins, NEW from, o \in from,
           Bounded(r, h, from)
    PROVE  Bounded(WithHit(r, o), WithHit(h, o), from)
<1> DEFINE r1 == WithHit(r, o)
           h1 == WithHit(h, o)
<1>1. \A x \in Origins : /\ r1[x] = IF x = o THEN r[x] + 1 ELSE r[x]
                         /\ h1[x] = IF x = o THEN h[x] + 1 ELSE h[x]
  BY WithHitMakes
<1> HIDE DEF r1, h1
<1>2. \A x \in Origins : r[x] \in Nat /\ h[x] \in Nat /\ r[x] <= h[x] /\ (r[x] > 0 => x \in from)
  BY DEF Bounded, Records
<1>3. \A x \in Origins : r1[x] <= h1[x] /\ (r1[x] > 0 => x \in from)
  BY <1>1, <1>2
<1> QED BY <1>3 DEF Bounded, r1, h1

LEMMA MoreHits ==
    ASSUME NEW r \in Records, NEW h \in Records, NEW o \in Origins, NEW from,
           Bounded(r, h, from)
    PROVE  Bounded(r, WithHit(h, o), from)
<1>1. \A x \in Origins : WithHit(h, o)[x] = IF x = o THEN h[x] + 1 ELSE h[x]
  BY WithHitMakes
<1>2. \A x \in Origins : r[x] \in Nat /\ h[x] \in Nat /\ r[x] <= h[x] /\ (r[x] > 0 => x \in from)
  BY DEF Bounded, Records
<1>3. \A x \in Origins : r[x] <= WithHit(h, o)[x]
  BY <1>1, <1>2
<1> QED BY <1>2, <1>3 DEF Bounded

LEMMA HitLogs ==
    ASSUME MatchLogAssumption, NEW m \in Matches, NEW running, LogOK(m, running),
           NEW p \in Players, NEW h \in Records, NEW L, LogsOK(p, m, h, L),
           NEW o \in Origins,
           o = IF m.log = NoLog THEN Before(m.begun + 1) ELSE Within(m.log)
    PROVE  LogsOK(p, m, WithHit(h, o), L)
<1> DEFINE g == WithHit(h, o)
<1>1. /\ \A x \in Origins : g[x] = IF x = o THEN h[x] + 1 ELSE h[x]
      /\ \A t \in 1 .. MaxMatches : m.table[t].rows[p] \in Records
      /\ m.begun \in 0 .. MaxMatches /\ (m.log # NoLog => m.log \in 1 .. MaxMatches)
  <2>1. \A t \in 1 .. MaxMatches : m.table[t].rows \in [Players -> Records]
    BY MatchFields
  <2> QED BY <2>1, WithHitMakes, MatchFields
<1>2. \A t \in 1 .. MaxMatches : Within(t) \in Origins
  BY WithinIsOrigin
<1> HIDE DEF g
<1>3. \A t \in 1 .. MaxMatches : o = Within(t) => m.log # NoLog /\ t = m.log
  <2> SUFFICES ASSUME NEW t \in 1 .. MaxMatches, o = Within(t)
               PROVE  m.log # NoLog /\ t = m.log
    OBVIOUS
  <2>1. m.begun + 1 \in Nat /\ (m.log # NoLog => m.log \in Nat)
    BY <1>1
  <2> QED BY <2>1, WithinIsOrigin
<1>4. ASSUME NEW t \in 1 .. MaxMatches,
             m.table[t].state = "final" \/ t > m.begun
      PROVE  g[Within(t)] = h[Within(t)]
  <2>1. ~ (m.log # NoLog /\ t = m.log)
    BY <1>1, <1>4 DEF LogOK
  <2> QED BY <1>1, <1>2, <1>3, <2>1
<1>5. NotYet(g, m)
  BY <1>4 DEF LogsOK, NotYet
<1>6. p \notin Suspects \cup L => FinalOK(p, m, g)
  BY <1>4 DEF LogsOK, FinalOK
<1>7. RowsOK(p, m, g)
  BY <1>1, MoreHits DEF LogsOK, RowsOK, g
<1> QED BY <1>5, <1>6, <1>7 DEF LogsOK, g

LEMMA HitHeld ==
    ASSUME MatchLogAssumption, NEW m \in Matches, NEW p \in Players, NEW h \in Records,
           NEW L, NEW cl \in [Slots -> Clients], OneSlot(cl, p), HeldOK(p, cl, m, h, L),
           LiveOK(p, cl, m, h),
           NEW s \in Slots, cl[s].inGame, cl[s].player = p, NEW o \in Origins,
           o = IF m.log = NoLog THEN Before(m.begun + 1) ELSE Within(m.log),
           NEW d, \A t \in Slots : t # s => d[t] = cl[t],
           d[s] = Counted(cl[s], o)
    PROVE  /\ LiveOK(p, d, m, WithHit(h, o))
           /\ HeldOK(p, d, m, WithHit(h, o), L)
<1> DEFINE g == WithHit(h, o)
           r == cl[s].live
           r1 == WithHit(r, o)
<1>1. r \in Records
  BY Fields
<1>2. d[s].player = p /\ d[s].inGame /\ d[s].live = r1
  BY CountedLive
<1>3. /\ \A x \in Origins : r1[x] = IF x = o THEN r[x] + 1 ELSE r[x]
      /\ \A x \in Origins : g[x] = IF x = o THEN h[x] + 1 ELSE h[x]
  BY <1>1, WithHitMakes
<1>4. \A t \in Slots : d[t].player = p => t = s
  BY DEF OneSlot
<1>5. o \in Here(m)
  BY DEF Here
<1>6. Bounded(r1, g, Here(m))
  <2>1. Bounded(r, h, Here(m))
    BY DEF LiveOK
  <2> QED BY <1>1, <1>5, <2>1, WithHitBounded
<1> HIDE DEF r, r1, g
<1>7. LiveOK(p, d, m, g)
  BY <1>2, <1>4, <1>6 DEF LiveOK
<1>8. ASSUME m.log # NoLog
      PROVE  /\ p \notin DOMAIN m.stored
             /\ \A q : Held(q, p, d, m.stored) => q = r1
             /\ p \notin L => Full(r1, g, m, p)
  <2>1. p \notin DOMAIN m.stored
    BY <1>8 DEF HeldOK, AllHeld
  <2>2. \A q : Held(q, p, d, m.stored) => q = r1
    BY <1>2, <1>4, <2>1 DEF Held
  <2>3. Held(r, p, cl, m.stored)
    BY <2>1 DEF Held, r
  <2>4. ASSUME p \notin L PROVE Full(r1, g, m, p)
    <3>1. Full(r, h, m, p)
      BY <1>8, <2>3, <2>4 DEF HeldOK, AllHeld
    <3>2. m.log \in 1 .. MaxMatches /\ m.table[m.log].rows[p] \in Records
      <4>1. m.log \in 1 .. MaxMatches
        BY <1>8, MatchFields
      <4>2. m.table[m.log].rows \in [Players -> Records]
        BY <4>1, MatchFields
      <4> QED BY <4>1, <4>2
    <3> DEFINE rows == m.table[m.log].rows[p]
    <3>3. \A x \in Origins : rows[x] <= r[x] /\ rows[x] \in Nat /\ r[x] \in Nat
      BY <1>1, <3>1, <3>2 DEF Full, Records
    <3>4. Within(m.log) \in Origins /\ o = Within(m.log) /\ r[Within(m.log)] = h[Within(m.log)]
      BY <1>8, <3>1 DEF Full
    <3>5. \A x \in Origins : rows[x] <= r1[x]
      BY <1>3, <3>3
    <3>6. r1[Within(m.log)] = g[Within(m.log)]
      BY <1>3, <3>4
    <3> QED BY <3>5, <3>6 DEF Full
  <2> QED BY <2>1, <2>2, <2>4
<1>9. HeldOK(p, d, m, g, L)
  BY <1>6, <1>8 DEF HeldOK, AllHeld
<1> QED BY <1>7, <1>9 DEF g

LEMMA HitCarries ==
    ASSUME MatchLogAssumption, PluginOK, SeatsOK, LogOK(match, playing), NEW s \in Slots,
           NEW p \in Players, PlayerOK(p), Hit(s)
    PROVE  Carried(p)
<1> DEFINE c == client[s]
<1>1. /\ SlotsOK /\ client \in [Slots -> Clients] /\ c \in Clients
      /\ match \in Matches /\ hits \in [Players -> Records] /\ OneSlot(client, p)
      /\ c.inGame => ValidClient(c)
  BY DEF PluginOK, SlotsOK, Plain, SeatsOK, SlotOK
<1>2. /\ c.inGame /\ playing /\ match' = match /\ lost' = lost /\ playing' = playing
      /\ hits' = [hits EXCEPT ![c.player][Now] = @ + 1]
  BY DEF Hit, StatsReady
<1>3. PICK o \in Origins : o = Now
  BY NowIsOrigin DEF PluginOK
<1>4. o = IF match.log = NoLog THEN Before(match.begun + 1) ELSE Within(match.log)
  BY <1>3 DEF Now
<1>5. Makes(s, Counted(c, o), loads[s])
  BY <1>1, <1>3, HitSlot
<1> DEFINE d == client'
<1>6. d[s] = Counted(c, o) /\ \A t \in Slots : t # s => d[t] = client[t]
  BY <1>1, <1>5, MakesOne
<1>7. c.player \in Players
  BY <1>1, <1>2, Fields DEF ValidClient, Persons
<1>8. hits' = [hits EXCEPT ![c.player] = WithHit(hits[c.player], o)]
  BY <1>1, <1>2, <1>3, <1>7 DEF WithHit
<1>9. CASE c.player = p
  <2> DEFINE h == hits[p]
  <2>1. h \in Records /\ hits'[p] = WithHit(h, o)
    BY <1>1, <1>8, <1>9
  <2>2. LiveOK(p, client, match, h) /\ HeldOK(p, client, match, h, lost) /\ LogsOK(p, match, h, lost)
    BY <1>2 DEF PlayerOK
  <2>3. PICK e : e = d
    OBVIOUS
  <2>4. e[s] = Counted(c, o) /\ \A t \in Slots : t # s => e[t] = client[t]
    BY <1>6, <2>3
  <2> HIDE DEF d, h
  <2>5. LiveOK(p, e, match, WithHit(h, o)) /\ HeldOK(p, e, match, WithHit(h, o), lost)
    BY <1>1, <1>2, <1>4, <1>9, <2>1, <2>2, <2>4, HitHeld
  <2>6. LogsOK(p, match, WithHit(h, o), lost)
    BY <1>1, <1>4, <2>1, <2>2, HitLogs
  <2>7. \A t \in 1 .. MaxMatches : RowsOn(match.table[t], match.table[t], p)
    BY <1>1, NoRowsChange
  <2> QED BY <1>2, <2>1, <2>3, <2>5, <2>6, <2>7 DEF Carried, d
<1>10. CASE c.player # p
  <2>1. hits'[p] = hits[p]
    BY <1>1, <1>8, <1>10
  <2>2. Counted(c, o).player = c.player
    <3> HIDE DEF c
    <3> QED BY <1>1, CountedLive
  <2>3. \A t \in Slots : Alike(client'[t], client[t], p)
    BY <1>6, <1>10, <2>2 DEF Alike
  <2> QED BY <1>2, <2>1, <2>3, QuietCarries
<1> QED BY <1>9, <1>10

\* A player who enters gets the record that was stored.
LEMMA EnterHeld ==
    ASSUME MatchLogAssumption, NEW m \in Matches, m.log # NoLog, NEW p \in Players,
           NEW h, NEW L, NEW cl \in [Slots -> Clients], OneSlot(cl, p),
           HeldOK(p, cl, m, h, L), LiveOK(p, cl, m, h),
           NEW s \in Slots, ~ cl[s].inGame, NEW q \in Players, cl[s].player = q,
           NEW d, \A t \in Slots : t # s => d[t] = cl[t],
           d[s].player = q, d[s].inGame, d[s].live = StoredOf(m.stored, q)
    PROVE  LET w == WithStored(m, Without(m.stored, q))
           IN LiveOK(p, d, w, h) /\ HeldOK(p, d, w, h, L)
<1> DEFINE st == m.stored
           new == Without(st, q)
           w == WithStored(m, new)
<1>1. st \in Storages
  BY MatchFields
<1>2. /\ new \in Storages /\ DOMAIN new = DOMAIN st \ {q}
      /\ \A x \in DOMAIN st \ {q} : new[x] = st[x]
  BY <1>1, WithoutMakes
<1> HIDE DEF new
<1>3. w.log = m.log /\ w.begun = m.begun /\ w.table = m.table /\ w.stored = new
  BY <1>2, WithStoredMakes
<1> HIDE DEF w
<1>4. Here(w) = Here(m)
  BY <1>3 DEF Here
<1>5. /\ \A t \in Slots : cl[t].inGame /\ cl[t].player = p => p \notin DOMAIN st
      /\ \A r : Held(r, p, cl, st) =>
           Bounded(r, h, Here(m)) /\ (p \notin L => Full(r, h, m, p))
  BY DEF HeldOK, AllHeld
<1>6. CASE p = q
  <2>1. \A t \in Slots : d[t].player = p => t = s
    BY <1>6 DEF OneSlot
  <2>2. \A t \in Slots : cl[t].inGame => cl[t].player # p
    BY <1>6 DEF OneSlot
  <2>3. Held(StoredOf(st, p), p, cl, st)
    BY <2>2 DEF Held, StoredOf
  <2>4. \A r : Held(r, p, d, new) => r = StoredOf(st, p)
    BY <1>2, <1>6, <2>1 DEF Held
  <2>5. LiveOK(p, d, w, h)
    BY <1>4, <1>5, <1>6, <2>1, <2>3 DEF LiveOK
  <2>6. HeldOK(p, d, w, h, L)
    BY <1>2, <1>3, <1>4, <1>5, <1>6, <2>3, <2>4 DEF HeldOK, AllHeld, Full
  <2> QED BY <2>5, <2>6 DEF w, new
<1>7. CASE p # q
  <2>1. \A t \in Slots : d[t].player = p => d[t] = cl[t]
    BY <1>7
  <2>2. \A t \in Slots : cl[t].player = p => d[t] = cl[t]
    BY <1>7
  <2>3. p \in DOMAIN new <=> p \in DOMAIN st
    BY <1>2, <1>7
  <2>4. p \in DOMAIN st => new[p] = st[p]
    BY <1>2, <1>7
  <2>5. \A r : Held(r, p, d, new) => Held(r, p, cl, st)
    BY <2>1, <2>2, <2>3, <2>4 DEF Held
  <2>6. LiveOK(p, d, w, h)
    BY <1>4, <2>1 DEF LiveOK
  <2>7. HeldOK(p, d, w, h, L)
    BY <1>3, <1>4, <1>5, <2>1, <2>3, <2>5 DEF HeldOK, AllHeld, Full
  <2> QED BY <2>6, <2>7 DEF w, new
<1> QED BY <1>6, <1>7

LEMMA SameLogsCarry ==
    ASSUME NEW p, NEW m, NEW w, SameLogs(w, m), NEW h, NEW L, LogsOK(p, m, h, L)
    PROVE  LogsOK(p, w, h, L)
  BY DEF SameLogs, LogsOK, NotYet, RowsOK, FinalOK

LEMMA JoinCarries ==
    ASSUME MatchLogAssumption, PluginOK, SeatsOK, LogOK(match, playing), NEW s \in Slots,
           NEW little \in BOOLEAN, PutInServer(s, little), LateIdentity = FALSE,
           NEW p \in Players, PlayerOK(p)
    PROVE  Carried(p)
<1> DEFINE c == client[s]
           m == MatchJoined(match, little)
           e == Entered(client, m, s)
           d == Requested(e, ready)
           h == hits[p]
           w == WithStored(m, Without(m.stored, e.id))
<1>1. /\ SlotsOK /\ client \in [Slots -> Clients] /\ c \in Clients /\ ready \in BOOLEAN
      /\ match \in Matches /\ h \in Records /\ OneSlot(client, p)
  BY DEF PluginOK, SlotsOK, Plain, SeatsOK, SlotOK
<1>2. /\ playing /\ playing' = playing /\ hits' = hits /\ lost' = lost /\ restored' = restored
      /\ ValidClient(c) /\ ~ c.inGame /\ c.authorized /\ match' = w
      /\ match.log = NoLog => match.begun < MaxMatches
  BY DEF PutInServer, history, WithStored, MayBegin
<1>3. c.player \in Players
  BY <1>1, <1>2, Fields DEF ValidClient, Persons
<1>4. LogOK(match, TRUE)
  BY <1>2 DEF LogOK
<1>5. /\ LiveOK(p, client, match, h) /\ HeldOK(p, client, match, h, lost)
      /\ LogsOK(p, match, h, lost)
  BY <1>2 DEF PlayerOK
<1>6. Makes(s, d, loads[s] \o Queries(e, ready))
  BY <1>1, PutInServerSlot
<1> HIDE DEF h
<1>7. /\ m \in Matches /\ m.log # NoLog
      /\ LiveOK(p, client, m, h) /\ HeldOK(p, client, m, h, lost) /\ LogsOK(p, m, h, lost)
      /\ \A t \in 1 .. MaxMatches : RowsOn(match.table[t], m.table[t], p)
  <2>1. CASE match.log = NoLog
    <3>1. PICK b : b = m
      OBVIOUS
    <3>2. b = Begun(match, little)
      BY <2>1, <3>1 DEF MatchJoined
    <3>3. BeginsFrom(b, match)
      BY <1>1, <1>2, <2>1, <3>2, Begins
    <3>4. \A t \in Slots : client[t].player = p => Bounded(client[t].live, h, {Before(match.begun + 1)})
      BY <1>5, <2>1 DEF LiveOK, Here
    <3>5. /\ LiveOK(p, client, b, h) /\ HeldOK(p, client, b, h, lost) /\ LogsOK(p, b, h, lost)
          /\ \A t \in 1 .. MaxMatches : RowsOn(match.table[t], b.table[t], p)
      BY <1>1, <1>4, <1>5, <3>3, <3>4, BegunOn
    <3>6. b \in Matches /\ b.log # NoLog
      BY <1>1, <3>3, MatchFields DEF BeginsFrom, NoLog
    <3> HIDE DEF m
    <3> QED BY <3>1, <3>5, <3>6
  <2>2. CASE match.log # NoLog
    <3>1. m = match
      BY <2>2 DEF MatchJoined
    <3>2. \A t \in 1 .. MaxMatches : RowsOn(match.table[t], match.table[t], p)
      BY <1>1, NoRowsChange
    <3> HIDE DEF m
    <3> QED BY <1>1, <1>5, <2>2, <3>1, <3>2
  <2> QED BY <2>1, <2>2
<1> HIDE DEF m
<1>8. /\ e \in Clients /\ e.player = c.player /\ e.inGame
      /\ e.id = c.player /\ e.live = StoredOf(m.stored, e.id)
  BY <1>1, <1>2, <1>7, EnteredMakes
<1>9. w = WithStored(m, Without(m.stored, c.player))
  BY <1>8
<1> HIDE DEF e
<1>10. d.player = c.player /\ d.inGame /\ d.live = StoredOf(m.stored, c.player)
  BY <1>1, <1>8, RequestedMakes DEF Same
<1> HIDE DEF d, w
<1>11. PICK cl : cl = client'
  OBVIOUS
<1>12. /\ \A t \in Slots : t # s => cl[t] = client[t]
       /\ cl[s] = d
  BY <1>1, <1>6, <1>11, MakesOne
<1>13. LiveOK(p, cl, w, h) /\ HeldOK(p, cl, w, h, lost)
  <2> DEFINE q == c.player
  <2>1. q \in Players /\ client[s].player = q /\ ~ client[s].inGame
    BY <1>2, <1>3
  <2>2. cl[s].player = q /\ cl[s].inGame /\ cl[s].live = StoredOf(m.stored, q)
    BY <1>10, <1>12
  <2>3. w = WithStored(m, Without(m.stored, q))
    BY <1>9
  <2> HIDE DEF q, c
  <2>4. LET x == WithStored(m, Without(m.stored, q))
        IN LiveOK(p, cl, x, h) /\ HeldOK(p, cl, x, h, lost)
    BY <1>1, <1>7, <1>12, <2>1, <2>2, EnterHeld
  <2> QED BY <2>3, <2>4
<1>14. SameLogs(w, m)
  <2> DEFINE x == Without(m.stored, c.player)
  <2>1. m.stored \in Storages
    BY <1>7, MatchFields
  <2>2. x \in Storages
    BY <2>1, WithoutMakes
  <2> HIDE DEF x
  <2>3. w = WithStored(m, x)
    BY <1>9 DEF x
  <2> QED BY <1>7, <2>2, <2>3, WithStoredMakes DEF SameLogs
<1>15. LogsOK(p, w, h, lost)
  BY <1>7, <1>14, SameLogsCarry
<1>16. \A t \in 1 .. MaxMatches : RowsOn(match.table[t], w.table[t], p)
  BY <1>7, <1>14 DEF SameLogs
<1> QED BY <1>2, <1>11, <1>13, <1>15, <1>16 DEF Carried, h

\* A match ends, if one is under way.
LEMMA FinishedOn ==
    ASSUME MatchLogAssumption, NEW m \in Matches, NEW cl \in [Slots -> Clients],
           NEW p \in Players, NEW h \in Records, NEW L,
           m.log # NoLog => /\ Settled(cl) /\ LoneRecord(cl, m.stored, p)
                            /\ AllHeld(p, cl, m, h, L),
           LogsOK(p, m, h, L), NEW skip \in SUBSET Suspects
    PROVE  LET f == Finalized(cl, m, skip)
           IN /\ f \in Matches /\ f.log = NoLog /\ f.begun = m.begun
              /\ \A d : HeldOK(p, d, f, h, L)
              /\ LogsOK(p, f, h, L)
              /\ p \notin L => \A t \in 1 .. MaxMatches : RowsOn(m.table[t], f.table[t], p)
<1>1. PICK f : f = Finalized(cl, m, skip)
  OBVIOUS
<1>2. CASE m.log = NoLog
  <2>1. f = m
    BY <1>1, <1>2, FinalizedEnds
  <2>2. \A d : HeldOK(p, d, m, h, L)
    BY <1>2 DEF HeldOK
  <2>3. \A t \in 1 .. MaxMatches : RowsOn(m.table[t], m.table[t], p)
    BY NoRowsChange
  <2> QED BY <1>1, <1>2, <2>1, <2>2, <2>3
<1>3. CASE m.log # NoLog
  <2>1. EndsFor(f, m, p, cl, skip)
    BY <1>1, <1>3, FinalizedFor
  <2>2. /\ \A d : HeldOK(p, d, f, h, L)
        /\ LogsOK(p, f, h, L)
        /\ p \notin L => \A t \in 1 .. MaxMatches : RowsOn(m.table[t], f.table[t], p)
    BY <1>3, <2>1, EndedOn
  <2> QED BY <1>1, <2>1, <2>2 DEF EndsFor
<1> QED BY <1>2, <1>3

\* The clients of a match are settled, and have one record each.
LEMMA ClientsSettled ==
    ASSUME PluginOK, SeatsOK, NEW p \in Players, p \notin restored, PlayerOK(p),
           match.log # NoLog
    PROVE  /\ Settled(client) /\ LoneRecord(client, match.stored, p)
           /\ AllHeld(p, client, match, hits[p], lost)
<1>1. \A s \in Slots : Seat(client[s], loads[s], restored)
  BY DEF SeatsOK
<1>2. Settled(client)
  BY <1>1 DEF Settled, Seat
<1>3. /\ \A s \in Slots : client[s].inGame /\ client[s].player = p => p \notin DOMAIN match.stored
      /\ AllHeld(p, client, match, hits[p], lost)
  BY DEF PlayerOK, HeldOK
<1>4. OneSlot(client, p)
  BY DEF SeatsOK
<1>5. \A s \in Slots : client[s].player = p /\ ~ client[s].inGame => client[s].live = Zero
  BY <1>1 DEF Seat
<1>6. \A s \in Slots : client[s].player = p /\ p \in DOMAIN match.stored => client[s].live = Zero
  <2>1. \A s \in Slots : client[s].inGame \in BOOLEAN
    BY Fields DEF PluginOK, SlotsOK
  <2> QED BY <1>3, <1>5, <2>1
<1>7. LoneRecord(client, match.stored, p)
  BY <1>4, <1>5, <1>6 DEF LoneRecord
<1> QED BY <1>2, <1>3, <1>7

LEMMA MapEndCarries ==
    ASSUME MatchLogAssumption, PluginOK, SeatsOK, NEW p \in Players, p \notin restored,
           PlayerOK(p), NEW skip \in SUBSET Suspects, MapEnd(skip)
    PROVE  Carried(p)
<1>1. /\ client \in [Slots -> Clients] /\ match \in Matches /\ hits[p] \in Records
      /\ LogsOK(p, match, hits[p], lost)
  BY DEF PluginOK, SlotsOK, Plain, PlayerOK
<1>2. /\ playing' = FALSE /\ match' = Finalized(client, match, skip)
      /\ hits' = hits /\ lost' = lost
  BY DEF MapEnd, history
<1>3. match.log # NoLog => /\ Settled(client) /\ LoneRecord(client, match.stored, p)
                           /\ AllHeld(p, client, match, hits[p], lost)
  BY ClientsSettled
<1>4. PICK h \in Records : h = hits[p]
  BY <1>1
<1>5. LET f == Finalized(client, match, skip)
      IN /\ \A d : HeldOK(p, d, f, h, lost)
         /\ LogsOK(p, f, h, lost)
         /\ p \notin lost => \A t \in 1 .. MaxMatches : RowsOn(match.table[t], f.table[t], p)
  BY <1>1, <1>3, <1>4, FinishedOn
<1> QED BY <1>2, <1>4, <1>5 DEF Carried

\* Nothing is counted yet of the clients after the map started, or a reload.
LEMMA FreshBounded ==
    ASSUME MatchLogAssumption, NEW cl, \A s \in Slots : cl[s].live = Zero,
           NEW h \in Records, NEW p
    PROVE  /\ \A from : \A s \in Slots : cl[s].player = p => Bounded(cl[s].live, h, from)
           /\ \A m : LiveOK(p, cl, m, h)
<1>1. ASSUME NEW from PROVE Bounded(Zero, h, from)
  BY ZeroBounded
<1> QED BY <1>1 DEF LiveOK

LEMMA MapStartCarries ==
    ASSUME MatchLogAssumption, PluginOK, SeatsOK, LogOK(match, playing), NEW p \in Players,
           PlayerOK(p), NEW bots \in BOOLEAN, NEW little \in BOOLEAN, MapStart(bots, little)
    PROVE  Carried(p)
<1>1. /\ SlotsOK /\ \A s \in Slots : client[s] \in Clients
      /\ match \in Matches /\ hits[p] \in Records /\ ready \in BOOLEAN
      /\ LogsOK(p, match, hits[p], lost)
  BY DEF PluginOK, SlotsOK, Plain, PlayerOK
<1>2. /\ ~ playing /\ hits' = hits /\ lost' = lost
      /\ match' = (IF bots THEN Begun(match, little) ELSE match)
      /\ match.begun < MaxMatches
  BY DEF MapStart, history, MayBegin
<1>3. match.log = NoLog /\ LogOK(match, TRUE)
  BY <1>2 DEF LogOK
<1>4. PICK cl : cl = client'
  OBVIOUS
<1>5. cl \in [Slots -> Clients] /\ \A s \in Slots : cl[s].live = Zero
  <2>1. SlotFunctions(client', loads') /\ \A s \in Slots : client'[s] = ResetMap(client[s])
    BY <1>1, MapStartSlots
  <2>2. \A s \in Slots : ResetMap(client[s]) \in Clients /\ ResetMap(client[s]).live = Zero
    BY <1>1, ResetMapMakes
  <2> QED BY <1>4, <2>1, <2>2 DEF SlotFunctions
<1>6. PICK h \in Records : h = hits[p]
  BY <1>1
<1>7. /\ \A from : \A s \in Slots : cl[s].player = p => Bounded(cl[s].live, h, from)
      /\ \A m : LiveOK(p, cl, m, h)
  BY <1>5, FreshBounded
<1>8. CASE ~ bots
  <2>1. HeldOK(p, cl, match, h, lost)
    BY <1>3 DEF HeldOK
  <2>2. \A t \in 1 .. MaxMatches : RowsOn(match.table[t], match.table[t], p)
    BY <1>1, NoRowsChange
  <2> QED BY <1>1, <1>2, <1>4, <1>6, <1>7, <1>8, <2>1, <2>2 DEF Carried
<1>9. CASE bots
  <2>1. PICK b : b = Begun(match, little)
    OBVIOUS
  <2>2. BeginsFrom(b, match)
    BY <1>1, <1>2, <2>1, Begins
  <2>3. /\ LiveOK(p, cl, b, h) /\ HeldOK(p, cl, b, h, lost) /\ LogsOK(p, b, h, lost)
        /\ \A t \in 1 .. MaxMatches : RowsOn(match.table[t], b.table[t], p)
    <3>1. \A s \in Slots : cl[s].player = p => Bounded(cl[s].live, h, {Before(match.begun + 1)})
      BY <1>7
    <3>2. LogsOK(p, match, h, lost)
      BY <1>1, <1>6
    <3> QED BY <1>1, <1>3, <1>5, <2>2, <3>1, <3>2, BegunOn
  <2> QED BY <1>2, <1>4, <1>6, <1>9, <2>1, <2>3 DEF Carried
<1> QED BY <1>8, <1>9

LEMMA ReloadCarries ==
    ASSUME MatchLogAssumption, PluginOK, SeatsOK, LogOK(match, playing), NEW p \in Players,
           p \notin restored, PlayerOK(p), NEW bots \in BOOLEAN, NEW skip \in SUBSET Suspects,
           Reload(bots, skip)
    PROVE  Carried(p)
<1>1. /\ SlotsOK /\ client \in [Slots -> Clients] /\ \A s \in Slots : client[s] \in Clients
      /\ match \in Matches /\ hits[p] \in Records /\ ready \in BOOLEAN
      /\ LogsOK(p, match, hits[p], lost)
  BY DEF PluginOK, SlotsOK, Plain, PlayerOK
<1>2. playing /\ playing' = playing /\ hits' = hits /\ lost' = lost
  BY DEF Reload, history
<1>3. PICK cl : cl = client'
  OBVIOUS
<1>4. cl \in [Slots -> Clients] /\ \A s \in Slots : cl[s].live = Zero
  <2>1. SlotFunctions(client', loads') /\ \A s \in Slots : client'[s] = ReloadedSlot(client[s])
    BY ReloadSlots DEF ReloadedSlot
  <2>2. \A s \in Slots : ReloadedSlot(client[s]) \in Clients /\ ReloadedSlot(client[s]).live = Zero
    BY <1>1, ReloadedMakes
  <2> QED BY <1>3, <2>1, <2>2 DEF SlotFunctions
<1>5. PICK h \in Records : h = hits[p]
  BY <1>1
<1>6. /\ \A from : \A s \in Slots : cl[s].player = p => Bounded(cl[s].live, h, from)
      /\ \A m : LiveOK(p, cl, m, h)
  BY <1>4, FreshBounded
<1>7. PICK f : f = Finalized(client, match, skip)
  OBVIOUS
<1>8. match.log # NoLog => /\ Settled(client) /\ LoneRecord(client, match.stored, p)
                           /\ AllHeld(p, client, match, h, lost)
  BY <1>5, ClientsSettled
<1>9. /\ f \in Matches /\ f.log = NoLog /\ f.begun = match.begun
      /\ LogsOK(p, f, h, lost)
      /\ p \notin lost => \A t \in 1 .. MaxMatches : RowsOn(match.table[t], f.table[t], p)
  BY <1>1, <1>5, <1>7, <1>8, FinishedOn
<1>10. LogOK(f, TRUE)
  BY <1>1, <1>7, FinalizedLog
<1>11. PICK q : q = Stopped(skip)
  OBVIOUS
<1>12. /\ q \in Matches /\ q.log = f.log /\ q.begun = f.begun /\ q.last = NoLog
       /\ q.table = f.table
  BY <1>1, <1>7, <1>11, StoppedMakes
<1>13. SameLogs(q, f)
  BY <1>12 DEF SameLogs
<1>14. LogsOK(p, q, h, lost)
  BY <1>9, <1>13, SameLogsCarry
<1>15. LogOK(q, TRUE)
  <2>1. 0 <= f.begun
    BY <1>9, MatchFields
  <2> QED BY <1>9, <1>10, <1>12, <1>13, <2>1, SameLogsOn
<1>16. CASE match' = Cleared(q)
  <2>1. PICK e : e = Cleared(q)
    OBVIOUS
  <2>2. e.log = NoLog /\ e.begun = q.begun /\ e.table = q.table
    BY <1>12, <2>1, ClearedMakes
  <2>3. SameLogs(e, q)
    BY <1>9, <1>12, <2>2 DEF SameLogs
  <2>4. LogsOK(p, e, h, lost)
    BY <1>14, <2>3, SameLogsCarry
  <2>5. HeldOK(p, cl, e, h, lost)
    BY <2>2 DEF HeldOK
  <2> QED BY <1>2, <1>3, <1>5, <1>6, <1>9, <1>12, <1>16, <2>1, <2>2, <2>4, <2>5 DEF Carried
<1>17. CASE match' = Begun(q, FALSE) /\ MayBegin
  <2>1. PICK b : b = Begun(q, FALSE)
    OBVIOUS
  <2>2. q.begun < MaxMatches
    BY <1>9, <1>12, <1>17 DEF MayBegin
  <2>3. BeginsFrom(b, q)
    BY <1>1, <1>12, <2>1, <2>2, Begins
  <2>6. \A s \in Slots : cl[s].player = p => Bounded(cl[s].live, h, {Before(q.begun + 1)})
    BY <1>6
  <2>4. LiveOK(p, cl, b, h) /\ HeldOK(p, cl, b, h, lost) /\ LogsOK(p, b, h, lost)
    BY <1>4, <1>5, <1>12, <1>14, <1>15, <2>3, <2>6, BegunOn
  <2>5. \A t \in 1 .. MaxMatches : b.table[t] = f.table[t]
    BY <1>12, <2>3 DEF BeginsFrom, NoLog
  <2> QED BY <1>2, <1>3, <1>5, <1>9, <1>17, <2>1, <2>4, <2>5 DEF Carried
<1> QED BY <1>11, <1>16, <1>17, ReloadMatch

\* The rows of the log are written again while it runs.
LEMMA WrittenCarries ==
    ASSUME MatchLogAssumption, PluginOK, SeatsOK, NEW p \in Players, PlayerOK(p),
           match.log # NoLog, NEW e \in Entries, e.state # "final",
           Replaced(e, match.table[match.log], p, client, match.stored),
           match' = Written(match, e), hits' = hits, lost' = lost, playing' = playing,
           \A s \in Slots : Alike(client'[s], client[s], p)
    PROVE  Carried(p)
<1>1. /\ match \in Matches /\ hits[p] \in Records /\ OneSlot(client, p)
      /\ playing => LiveOK(p, client, match, hits[p])
      /\ HeldOK(p, client, match, hits[p], lost) /\ LogsOK(p, match, hits[p], lost)
  BY DEF PluginOK, Plain, SeatsOK, PlayerOK
<1>2. PICK h \in Records : h = hits[p]
  BY <1>1
<1>3. PICK cl : cl = client'
  OBVIOUS
<1>4. \A s \in Slots : Alike(cl[s], client[s], p)
  BY <1>3
<1>5. PICK w : w = Written(match, e)
  OBVIOUS
<1>6. /\ LiveOK(p, client, match, h) => LiveOK(p, client, w, h)
      /\ HeldOK(p, client, w, h, lost) /\ LogsOK(p, w, h, lost)
      /\ p \notin lost => RowsOn(match.table[match.log], e, p)
  BY <1>1, <1>2, <1>5, WrittenOn
<1>7. /\ LiveOK(p, client, w, h) => LiveOK(p, cl, w, h)
      /\ HeldOK(p, cl, w, h, lost)
  BY <1>4, <1>6, AlikeOn
<1>8. /\ w.table = [match.table EXCEPT ![match.log] = e]
      /\ \A t \in 1 .. MaxMatches : match.table[t] \in Entries
      /\ match.table \in [1 .. MaxMatches -> Entries]
  BY <1>1, <1>5, WrittenMakes, MatchFields
<1>9. ASSUME p \notin lost, NEW t \in 1 .. MaxMatches PROVE RowsOn(match.table[t], w.table[t], p)
  <2>1. CASE t = match.log
    BY <1>6, <1>8, <1>9, <2>1
  <2>2. CASE t # match.log
    BY <1>8, <2>2, RowsOnItself
  <2> QED BY <2>1, <2>2
<1> QED BY <1>1, <1>2, <1>3, <1>5, <1>6, <1>7, <1>9 DEF Carried

LEMMA TimerCarries ==
    ASSUME MatchLogAssumption, PluginOK, SeatsOK, LogOK(match, playing), NEW p \in Players,
           p \notin restored, PlayerOK(p), NEW skip \in SUBSET Suspects, UpdateOnlineStats(skip)
    PROVE  Carried(p)
<1>1. /\ SlotsOK /\ client \in [Slots -> Clients] /\ \A s \in Slots : client[s] \in Clients
      /\ match \in Matches /\ hits[p] \in Records
      /\ LogsOK(p, match, hits[p], lost)
      /\ \A s \in Slots : client[s].inGame => ValidClient(client[s])
  BY DEF PluginOK, SlotsOK, Plain, PlayerOK, SlotOK
<1>2. client' = client /\ playing' = playing /\ hits' = hits /\ lost' = lost
  BY DEF UpdateOnlineStats, history
<1>3. \A s \in Slots : Alike(client'[s], client[s], p)
  BY <1>2 DEF Alike
<1>4. ASSUME match' = Finalized(client, match, skip), \A s \in Slots : ~ ValidClient(client[s])
      PROVE  Carried(p)
  <2>1. PICK h \in Records : h = hits[p]
    BY <1>1
  <2>2. match.log # NoLog => /\ Settled(client) /\ LoneRecord(client, match.stored, p)
                             /\ AllHeld(p, client, match, h, lost)
    BY <2>1, ClientsSettled
  <2>3. PICK f : f = Finalized(client, match, skip)
    OBVIOUS
  <2>4. /\ HeldOK(p, client, f, h, lost) /\ LogsOK(p, f, h, lost)
        /\ p \notin lost => \A t \in 1 .. MaxMatches : RowsOn(match.table[t], f.table[t], p)
    BY <1>1, <2>1, <2>2, <2>3, FinishedOn
  <2>5. LiveOK(p, client, f, h)
    BY <1>4 DEF LiveOK, ValidClient, MatchLogAssumption
  <2> QED BY <1>2, <1>4, <2>1, <2>3, <2>4, <2>5 DEF Carried
<1>5. ASSUME match.log # NoLog,
             match' = Written(match, EntryWith(match.table[match.log],
                                               Opened(match.table[match.log].state),
                                               Plausible(Current(client), skip)))
      PROVE  Carried(p)
  <2> DEFINE old == match.table[match.log]
             rows == Current(client)
             new == Plausible(rows, skip)
             e == EntryWith(old, Opened(old.state), new)
  <2>1. old \in Entries /\ old.state \in States
    BY <1>1, <1>5, MatchFields
  <2>2. /\ rows \in Storages
        /\ \A q \in DOMAIN rows :
             \E s \in Slots : Shows(client, s, q) /\ rows[q] = client[s].live
    BY <1>1, CurrentMakes
  <2> HIDE DEF rows
  <2>20. /\ new \in Storages /\ DOMAIN new = DOMAIN rows \ skip
         /\ \A q \in DOMAIN rows \ skip : new[q] = rows[q]
    BY <2>2, PlausibleMakes
  <2>4. Opened(old.state) \in States /\ Opened(old.state) # "final"
    BY <2>1, OpenedMakes
  <2> HIDE DEF new, old
  <2>3. new \in Storages /\ \A q \in DOMAIN new : q \in DOMAIN rows /\ new[q] = rows[q]
    BY <2>20
  <2>5. /\ e \in Entries /\ e.state # "final"
        /\ e.rows[p] = IF p \in DOMAIN new THEN new[p] ELSE old.rows[p]
    BY <2>1, <2>3, <2>4, EntryWithMakes
  <2>6. ASSUME p \in DOMAIN new PROVE Held(new[p], p, client, match.stored)
    <3>1. PICK s \in Slots : Shows(client, s, p) /\ new[p] = client[s].live
      BY <2>2, <2>3, <2>6
    <3>2. client[s].inGame /\ client[s].player = p
      BY <3>1 DEF Shows, StatsReady
    <3>3. p \notin DOMAIN match.stored
      BY <1>5, <3>2 DEF PlayerOK, HeldOK
    <3> QED BY <3>1, <3>2, <3>3 DEF Held
  <2> HIDE DEF e
  <2>7. Replaced(e, match.table[match.log], p, client, match.stored)
    BY <2>5, <2>6 DEF Replaced, old
  <2>8. match' = Written(match, e)
    BY <1>5 DEF e, old, new, rows
  <2> QED BY <1>2, <1>3, <1>5, <2>5, <2>7, <2>8, WrittenCarries
<1>6. CASE match' = match
  BY <1>2, <1>3, <1>6, QuietCarries
<1>7. PICK m : /\ \/ m = match
                  \/ /\ m = Finalized(client, match, skip)
                     /\ \A s \in Slots : ~ ValidClient(client[s])
               /\ \/ match' = m
                  \/ /\ m.log # NoLog
                     /\ match' = Written(m, EntryWith(m.table[m.log],
                                                      Opened(m.table[m.log].state),
                                                      Plausible(Current(client), skip)))
  BY TimerMatch
<1>8. Finalized(client, match, skip).log = NoLog
  BY <1>1, FinalizedLog
<1>9. CASE m = match
  BY <1>5, <1>6, <1>7, <1>9
<1>10. CASE m # match
  BY <1>4, <1>7, <1>8, <1>10
<1> QED BY <1>9, <1>10

LEMMA RoundCarries ==
    ASSUME MatchLogAssumption, PluginOK, SeatsOK, LogOK(match, playing), NEW p \in Players,
           p \notin restored, PlayerOK(p), NEW skip \in SUBSET Suspects, PublishRound(skip)
    PROVE  Carried(p)
<1>1. /\ SlotsOK /\ match \in Matches /\ match.stored \in Storages
      /\ \A s \in Slots : Seat(client[s], loads[s], restored)
  BY MatchFields DEF PluginOK, Plain, SeatsOK
<1>2. playing' = playing /\ hits' = hits /\ lost' = lost
  BY DEF PublishRound, history
<1>3. /\ client' = Round /\ match.log # NoLog
      /\ \E state \in {match.table[match.log].state, "published"} :
           match' = Written(match, EntryWith(match.table[match.log], state,
                                             Plausible(RoundRecords, skip)))
  BY RoundMatch
<1>4. /\ Round \in [Slots -> Clients]
      /\ \A s \in Slots : /\ Round[s].player = client[s].player
                          /\ Round[s].inGame = client[s].inGame
                          /\ Round[s].live = client[s].live
                          /\ Round[s].authorized = client[s].authorized
                          /\ Round[s].inGame /\ Round[s].authorized =>
                               Round[s].id = Round[s].player
      /\ RoundRecords \in Storages
  BY <1>1, RoundMakes
<1>5. PICK cl \in [Slots -> Clients] : cl = Round
  BY <1>4
<1>6. \A s \in Slots : Alike(cl[s], client[s], p)
  BY <1>4, <1>5 DEF Alike
<1>7. LoneRecord(client, match.stored, p)
  BY <1>3, ClientsSettled
<1> DEFINE S == {s \in Slots : cl[s].inGame}
           records == Gathered(cl, match.stored, S)
<1>8. /\ S \subseteq Slots
      /\ \A s \in S : cl[s].id = p /\ cl[s].live # Zero => cl[s].player = p /\ cl[s].inGame
      /\ \A s \in Slots : cl[s].inGame /\ cl[s].player = p => s \in S /\ cl[s].id = p
  <2>1. \A s \in Slots : cl[s].inGame => cl[s].id = cl[s].player
    BY <1>1, <1>4, <1>5 DEF Seat
  <2> QED BY <2>1
<1>9. /\ OneSlot(cl, p)
      /\ \A s \in Slots : cl[s].player = p /\ p \in DOMAIN match.stored => cl[s].live = Zero
  BY <1>4, <1>5, <1>7 DEF LoneRecord, OneSlot
<1>10. records = RoundRecords
  BY <1>5 DEF RoundRecords
<1> HIDE DEF S
<1>11. Held(StoredOf(records, p), p, cl, match.stored)
  BY <1>1, <1>8, <1>9, GatheredHeld
<1> HIDE DEF records
<1>12. Held(StoredOf(records, p), p, client, match.stored)
  BY <1>6, <1>11, AlikeHeld
<1> DEFINE old == match.table[match.log]
           new == Plausible(records, skip)
<1>13. PICK state \in {old.state, "published"} : match' = Written(match, EntryWith(old, state, new))
  BY <1>3, <1>10
<1>14. old \in Entries /\ old.state \in States
  BY <1>1, <1>3, MatchFields
<1>15. state \in States /\ state # "final"
  BY <1>3, <1>14 DEF LogOK, States
<1>22. records \in Storages
  BY <1>4, <1>10
<1>21. /\ new \in Storages /\ DOMAIN new = DOMAIN records \ skip
       /\ \A q \in DOMAIN records \ skip : new[q] = records[q]
  BY <1>22, PlausibleMakes
<1> HIDE DEF new, old
<1>16. /\ new \in Storages
       /\ \A q \in DOMAIN new : q \in DOMAIN records /\ new[q] = records[q]
  BY <1>21
<1>17. PICK e : e = EntryWith(old, state, new)
  OBVIOUS
<1>18. /\ e \in Entries /\ e.state # "final"
       /\ e.rows[p] = IF p \in DOMAIN new THEN new[p] ELSE old.rows[p]
  BY <1>14, <1>15, <1>16, <1>17, EntryWithMakes
<1>19. Replaced(e, match.table[match.log], p, client, match.stored)
  BY <1>12, <1>16, <1>18 DEF Replaced, StoredOf, old
<1>20. \A s \in Slots : Alike(client'[s], client[s], p)
  BY <1>3, <1>5, <1>6
<1> QED BY <1>2, <1>3, <1>13, <1>17, <1>18, <1>19, <1>20, WrittenCarries

\* A slot of a player who leaves has nothing more of its record.
Left(d, cl, s) ==
    /\ \A t \in Slots : t # s => /\ d[t].player = cl[t].player /\ d[t].inGame = cl[t].inGame
                                 /\ d[t].live = cl[t].live
    /\ d[s].live = Zero
    /\ ~ d[s].inGame \/ (d[s].player = cl[s].player /\ d[s].inGame = cl[s].inGame)

\* The record is stored, or it is lost.
LEMMA SavedHeld ==
    ASSUME MatchLogAssumption, NEW m \in Matches, m.log # NoLog, NEW p \in Players,
           NEW h \in Records, NEW L, NEW cl \in [Slots -> Clients], OneSlot(cl, p),
           HeldOK(p, cl, m, h, L), NEW M, L \subseteq M,
           NEW s \in Slots, NEW c \in Clients, c.player = cl[s].player,
           c.inGame = cl[s].inGame, c.live = cl[s].live, c.player \in Players,
           c.inGame => c.id = c.player, NEW played,
           c.live # Zero /\ ~ Kept(c, played) => c.player \in M,
           NEW d, Left(d, cl, s)
    PROVE  AllHeld(p, d, Saved(m, c, played), h, M)
<1>1. PICK w : w = Saved(m, c, played)
  OBVIOUS
<1>2. /\ w.log = m.log /\ w.begun = m.begun /\ w.table = m.table
      /\ ~ Kept(c, played) => w.stored = m.stored
      /\ Kept(c, played) => w.stored = AppendSnapshot(m.stored, c.id, c.live)
  BY <1>1, SavedMakes
<1>3. Here(w) = Here(m) /\ \A r : Full(r, h, m, p) => Full(r, h, w, p)
  BY <1>2 DEF Here, Full
<1>4. /\ \A t \in Slots : cl[t].inGame /\ cl[t].player = p => p \notin DOMAIN m.stored
      /\ \A r : Held(r, p, cl, m.stored) =>
           Bounded(r, h, Here(m)) /\ (p \notin L => Full(r, h, m, p))
  BY DEF HeldOK, AllHeld
<1>5. Kept(c, played) => c.inGame /\ c.id = c.player
  BY DEF Kept, StatsReady
<1>6. ASSUME NEW r, Held(r, p, d, w.stored), Held(r, p, cl, m.stored)
      PROVE  Bounded(r, h, Here(w)) /\ (p \notin M => Full(r, h, w, p))
  BY <1>3, <1>4, <1>6
<1>7. Bounded(Zero, h, Here(w))
  BY ZeroBounded
<1>8. \A t \in Slots : d[t].inGame /\ d[t].player = p => cl[t].inGame /\ cl[t].player = p
  BY DEF Left
<1>9. CASE c.player # p
  <2>1. /\ p \in DOMAIN w.stored <=> p \in DOMAIN m.stored
        /\ p \in DOMAIN m.stored => w.stored[p] = m.stored[p]
    BY <1>2, <1>5, <1>9 DEF AppendSnapshot
  <2>2. \A t \in Slots : cl[t].inGame /\ cl[t].player = p =>
           d[t].inGame /\ d[t].player = p /\ d[t].live = cl[t].live
    BY <1>9 DEF Left
  <2>3. \A r : Held(r, p, d, w.stored) => Held(r, p, cl, m.stored)
    BY <1>8, <2>1, <2>2 DEF Held
  <2> QED BY <1>1, <1>6, <2>3 DEF AllHeld
<1>10. CASE c.player = p /\ Kept(c, played)
  <2>1. p \notin DOMAIN m.stored
    BY <1>4, <1>5, <1>10
  <2>2. p \in DOMAIN w.stored /\ w.stored[p] = c.live
    BY <1>2, <1>5, <1>10, <2>1 DEF AppendSnapshot
  <2>3. Held(c.live, p, cl, m.stored)
    BY <1>5, <1>10, <2>1 DEF Held
  <2>4. \A r : Held(r, p, d, w.stored) => r = c.live
    BY <2>2 DEF Held
  <2> QED BY <1>1, <1>6, <2>3, <2>4 DEF AllHeld
<1>11. CASE c.player = p /\ ~ Kept(c, played)
  <2>1. w.stored = m.stored
    BY <1>2, <1>11
  <2>2. \A t \in Slots : cl[t].player = p => t = s
    BY <1>11 DEF OneSlot
  <2>3. ASSUME NEW r, Held(r, p, d, m.stored), p \notin DOMAIN m.stored
        PROVE  r = Zero /\ (c.live = Zero => Held(r, p, cl, m.stored))
    <3>1. r = Zero
      BY <1>8, <2>2, <2>3 DEF Held, Left
    <3>2. c.live = Zero => Held(Zero, p, cl, m.stored)
      BY <1>11, <2>2, <2>3 DEF Held
    <3> QED BY <3>1, <3>2
  <2>4. ASSUME NEW r, Held(r, p, d, m.stored)
        PROVE  Bounded(r, h, Here(w)) /\ (p \notin M => Full(r, h, w, p))
    <3>1. CASE p \in DOMAIN m.stored
      <4>1. Held(r, p, cl, m.stored)
        BY <2>4, <3>1 DEF Held
      <4> QED BY <1>6, <2>1, <2>4, <4>1
    <3>2. CASE p \notin DOMAIN m.stored /\ c.live = Zero
      BY <1>6, <2>1, <2>3, <2>4, <3>2
    <3>3. CASE p \notin DOMAIN m.stored /\ c.live # Zero
      BY <1>7, <1>11, <2>3, <2>4, <3>3
    <3> QED BY <3>1, <3>2, <3>3
  <2> QED BY <1>1, <2>1, <2>4 DEF AllHeld
<1> QED BY <1>9, <1>10, <1>11

LEMMA LogsOKMore ==
    ASSUME NEW p, NEW m, NEW h, NEW L, NEW M, L \subseteq M, LogsOK(p, m, h, L)
    PROVE  LogsOK(p, m, h, M)
  BY DEF LogsOK

LEMMA LeaveCarries ==
    ASSUME MatchLogAssumption, PluginOK, SeatsOK, LogOK(match, playing), NEW p \in Players,
           p \notin restored, PlayerOK(p), NEW s \in Slots, NEW played \in BOOLEAN,
           NEW skip \in SUBSET Suspects, Leave(s, played, skip)
    PROVE  Carried(p)
<1>1. /\ SlotsOK /\ client \in [Slots -> Clients] /\ \A t \in Slots : client[t] \in Clients
      /\ match \in Matches /\ hits[p] \in Records /\ OneSlot(client, p)
      /\ LogsOK(p, match, hits[p], lost) /\ HeldOK(p, client, match, hits[p], lost)
      /\ playing => LiveOK(p, client, match, hits[p])
      /\ \A t \in Slots : Seat(client[t], loads[t], restored)
  BY DEF PluginOK, SlotsOK, Plain, PlayerOK, SeatsOK
<1>2. PICK c \in Clients : c = Ensure(client[s])
  BY <1>1, EnsureMakes
<1>3. /\ c.player = client[s].player /\ c.inGame = client[s].inGame
      /\ c.live = client[s].live /\ (c.inGame => c.id = c.player)
      /\ c.authorized = client[s].authorized
  BY <1>1, <1>2, EnsureMakes DEF Same, Seat
<1>4. /\ playing' = playing /\ hits' = hits
      /\ ValidClient(c)
      /\ lost' = IF match.log # NoLog /\ c.live # Zero /\ ~ Kept(c, played)
                 THEN lost \cup {c.player} ELSE lost
  BY <1>2 DEF Leave
<1>5. c.player \in Players
  BY <1>4, Fields DEF ValidClient, Persons
<1>6. PICK M : M = lost'
  OBVIOUS
<1>7. /\ lost \subseteq M
      /\ match.log # NoLog => (c.live # Zero /\ ~ Kept(c, played) => c.player \in M)
  BY <1>4, <1>6
<1>8. PICK w : w = Saved(match, c, played)
  OBVIOUS
<1>9. /\ w \in Matches /\ w.log = match.log /\ w.begun = match.begun /\ w.table = match.table
      /\ ~ Kept(c, played) => w.stored = match.stored
      /\ Kept(c, played) => w.stored = AppendSnapshot(match.stored, c.id, c.live)
  BY <1>1, <1>8, SavedMakes
<1>10. SameLogs(w, match) /\ Here(w) = Here(match)
  BY <1>9 DEF SameLogs, Here
<1>11. PICK h \in Records : h = hits[p]
  BY <1>1
<1>12. LogsOK(p, w, h, M)
  BY <1>1, <1>7, <1>10, <1>11, SameLogsCarry, LogsOKMore
<1>13. ASSUME NEW d, Left(d, client, s), match.log # NoLog PROVE AllHeld(p, d, w, h, M)
  <2>1. HeldOK(p, client, match, h, lost)
    BY <1>1, <1>11
  <2> QED BY <1>1, <1>3, <1>5, <1>7, <1>8, <1>13, <2>1, SavedHeld
<1>14. \A t \in Slots : p \in DOMAIN w.stored =>
          p \in DOMAIN match.stored \/ (Kept(c, played) /\ p = c.player)
  BY <1>3, <1>9 DEF AppendSnapshot, Kept, StatsReady
<1>15. /\ LeftSlot(client'[s], loads'[s], client[s], loads[s])
       /\ ~ playing \/ \E i \in Persons : client'[s] = Vacant(i)
       /\ \A t \in Slots : t # s => client'[t] \in {client[t], Ensure(client[t])}
  BY <1>1, LeaveSlots
<1>16. PICK d : d = client'
  OBVIOUS
<1>17. /\ ~ d[s].inGame /\ d[s].live = Zero /\ d[s].player \in {client[s].player, NoPlayer}
  BY <1>1, <1>15, <1>16, LeftSeat
<1>18. \A t \in Slots : t # s => /\ d[t].player = client[t].player
                                 /\ d[t].inGame = client[t].inGame
                                 /\ d[t].live = client[t].live
  BY <1>1, <1>15, <1>16, EnsureMakes DEF Same
<1>19. Left(d, client, s)
  BY <1>17, <1>18 DEF Left
<1>20. \A t \in 1 .. MaxMatches : RowsOn(match.table[t], match.table[t], p)
  BY <1>1, NoRowsChange
<1>21. ASSUME match' = w PROVE Carried(p)
  <2>1. ASSUME playing PROVE LiveOK(p, d, w, h)
    <3>1. ASSUME NEW t \in Slots, d[t].player = p PROVE Bounded(d[t].live, h, Here(w))
      <4>1. CASE t = s
        BY <1>17, <4>1, ZeroBounded
      <4>2. CASE t # s
        BY <1>1, <1>10, <1>11, <1>18, <2>1, <3>1, <4>2 DEF LiveOK
      <4> QED BY <4>1, <4>2
    <3> QED BY <3>1 DEF LiveOK
  <2>2. ASSUME match.log # NoLog, NEW t \in Slots, d[t].inGame, d[t].player = p
        PROVE  p \notin DOMAIN w.stored
    <3>1. t # s /\ client[t].inGame /\ client[t].player = p
      BY <1>17, <1>18, <2>2
    <3>2. p \notin DOMAIN match.stored
      BY <1>1, <2>2, <3>1 DEF HeldOK
    <3>3. c.player # p
      BY <1>1, <1>3, <3>1 DEF OneSlot
    <3> QED BY <1>14, <3>2, <3>3
  <2>3. HeldOK(p, d, w, h, M)
    BY <1>9, <1>13, <1>19, <2>2 DEF HeldOK
  <2> QED BY <1>4, <1>6, <1>9, <1>11, <1>12, <1>16, <1>20, <1>21, <2>1, <2>3 DEF Carried
<1>22. PICK cl : cl = [client EXCEPT ![s] = ResetAll(c)]
  OBVIOUS
<1>23. ASSUME match' = Finalized(cl, w, skip), \A t \in Slots \ {s} : ~ ValidClient(client[t])
       PROVE  Carried(p)
  <2>1. PICK x \in Clients : x = ResetAll(c)
    BY ResetAllMakes
  <2>2. /\ x.player = c.player /\ x.inGame = c.inGame /\ x.authorized = c.authorized
        /\ x.live = Zero
    BY <2>1, ResetAllMakes
  <2>3. /\ cl \in [Slots -> Clients] /\ cl[s] = x
        /\ \A t \in Slots : t # s => cl[t] = client[t]
    BY <1>1, <1>22, <2>1
  <2>4. Left(cl, client, s)
    BY <1>3, <2>2, <2>3 DEF Left
  <2>5. ASSUME match.log # NoLog PROVE Settled(cl) /\ LoneRecord(cl, w.stored, p)
    <3>1. Settled(client) /\ LoneRecord(client, match.stored, p)
      BY <2>5, ClientsSettled
    <3>2. Settled(cl)
      BY <1>3, <2>2, <2>3, <3>1 DEF Settled, ValidClient
    <3>3. OneSlot(cl, p)
      BY <1>3, <2>2, <2>3, <3>1 DEF LoneRecord, OneSlot
    <3>4. ASSUME NEW t \in Slots, cl[t].player = p, ~ cl[t].inGame \/ p \in DOMAIN w.stored
          PROVE  cl[t].live = Zero
      <4>1. CASE t = s
        BY <2>2, <2>3, <4>1
      <4>2. CASE t # s
        <5>1. client[t].player = p /\ c.player # p /\ cl[t] = client[t]
          BY <1>1, <1>3, <2>3, <3>4, <4>2 DEF OneSlot
        <5> QED BY <1>14, <3>1, <3>4, <5>1 DEF LoneRecord
      <4> QED BY <4>1, <4>2
    <3> QED BY <3>2, <3>3, <3>4 DEF LoneRecord
  <2>6. w.log # NoLog => /\ Settled(cl) /\ LoneRecord(cl, w.stored, p)
                         /\ AllHeld(p, cl, w, h, M)
    BY <1>9, <1>13, <2>4, <2>5
  <2>7. PICK f : f = Finalized(cl, w, skip)
    OBVIOUS
  <2>8. /\ HeldOK(p, d, f, h, M) /\ LogsOK(p, f, h, M)
        /\ p \notin M => \A t \in 1 .. MaxMatches : RowsOn(w.table[t], f.table[t], p)
    BY <1>9, <1>12, <2>3, <2>6, <2>7, FinishedOn
  <2>9. ASSUME playing PROVE LiveOK(p, d, f, h)
    <3>1. d[s].player = NoPlayer
      BY <1>15, <1>16, <2>9, VacantMakes
    <3>2. \A t \in Slots : d[t].player = NoPlayer
      BY <1>18, <1>23, <3>1 DEF ValidClient
    <3> QED BY <3>2 DEF LiveOK, MatchLogAssumption
  <2> QED BY <1>4, <1>6, <1>9, <1>11, <1>16, <1>23, <2>7, <2>8, <2>9 DEF Carried
<1>24. LET c0 == Ensure(client[s])
           m0 == Saved(match, c0, played)
           cl0 == [client EXCEPT ![s] = ResetAll(c0)]
       IN \/ match' = m0
          \/ /\ match' = Finalized(cl0, m0, skip)
             /\ \A t \in Slots \ {s} : ~ ValidClient(client[t])
  BY LeaveMatch
<1>25. \/ match' = w
       \/ /\ match' = Finalized(cl, w, skip)
          /\ \A t \in Slots \ {s} : ~ ValidClient(client[t])
  BY <1>2, <1>8, <1>22, <1>24
<1> QED BY <1>21, <1>23, <1>25

LEMMA PlayerStep ==
    ASSUME MatchLogAssumption, LateIdentity = FALSE, PluginOK, SeatsOK,
           LogOK(match, playing), NEW p \in Players, p \notin restored, p \notin restored',
           PlayerOK(p), MatchNext
    PROVE  Carried(p)
<1>1. ASSUME NEW s \in Slots,
             \/ \E q \in Players : Connect(s, q)
             \/ Authorize(s)
             \/ AskLoads(s)
             \/ LifeLoaded(s)
             \/ NoneFound(s)
             \/ RowFound(s)
             \/ \E connectionLost \in BOOLEAN : LoadFails(s, connectionLost)
      PROVE  Carried(p)
  BY <1>1, QuietActions
<1>2. ASSUME NEW s \in Slots, NEW little \in BOOLEAN, PutInServer(s, little)
      PROVE  Carried(p)
  BY <1>2, JoinCarries
<1>3. ASSUME NEW s \in Slots, Hit(s) PROVE Carried(p)
  BY <1>3, HitCarries
<1>4. ASSUME NEW s \in Slots, NEW played \in BOOLEAN, NEW skip \in SUBSET Suspects,
             Leave(s, played, skip)
      PROVE  Carried(p)
  BY <1>4, LeaveCarries
<1>5. ASSUME DatabaseLost \/ DatabaseReady \/ \E q \in Players : RowRemoved(q)
      PROVE  Carried(p)
  BY <1>5, DatabaseCarries
<1>6. ASSUME NEW skip \in SUBSET Suspects,
             \/ UpdateOnlineStats(skip)
             \/ PublishRound(skip)
             \/ MapEnd(skip)
             \/ \E bots \in BOOLEAN : Reload(bots, skip)
      PROVE  Carried(p)
  <2>1. CASE UpdateOnlineStats(skip)
    BY <2>1, TimerCarries
  <2>2. CASE PublishRound(skip)
    BY <2>2, RoundCarries
  <2>3. CASE MapEnd(skip)
    BY <2>3, MapEndCarries
  <2>4. ASSUME NEW bots \in BOOLEAN, Reload(bots, skip) PROVE Carried(p)
    BY <2>4, ReloadCarries
  <2> QED BY <1>6, <2>1, <2>2, <2>3, <2>4
<1>7. ASSUME NEW bots \in BOOLEAN, NEW little \in BOOLEAN, MapStart(bots, little)
      PROVE  Carried(p)
  BY <1>7, MapStartCarries
<1> QED BY <1>1, <1>2, <1>3, <1>4, <1>5, <1>6, <1>7 DEF MatchNext

LEMMA RestoredGrows ==
    ASSUME MatchNext
    PROVE  restored \subseteq restored'
<1>1. ASSUME NEW s \in Slots,
             \/ \E q \in Players : Connect(s, q)
             \/ Authorize(s)
             \/ \E little \in BOOLEAN : PutInServer(s, little)
             \/ AskLoads(s)
             \/ Hit(s)
             \/ LifeLoaded(s)
             \/ NoneFound(s)
             \/ RowFound(s)
             \/ \E connectionLost \in BOOLEAN : LoadFails(s, connectionLost)
             \/ \E played \in BOOLEAN, skip \in SUBSET Suspects : Leave(s, played, skip)
      PROVE  restored \subseteq restored'
  BY <1>1 DEF history, Connect, Authorize, PutInServer, AskLoads, Hit, LifeLoaded, NoneFound,
              RowFound, LoadFails, Leave
<1>2. ASSUME \/ DatabaseLost
             \/ DatabaseReady
             \/ \E q \in Players : RowRemoved(q)
             \/ \E skip \in SUBSET Suspects :
                   \/ UpdateOnlineStats(skip)
                   \/ PublishRound(skip)
                   \/ MapEnd(skip)
                   \/ \E bots \in BOOLEAN : Reload(bots, skip)
             \/ \E bots \in BOOLEAN, little \in BOOLEAN : MapStart(bots, little)
      PROVE  restored \subseteq restored'
  BY <1>2 DEF history, DatabaseLost, DatabaseReady, RowRemoved, UpdateOnlineStats,
              PublishRound, MapEnd, Reload, MapStart
<1> QED BY <1>1, <1>2 DEF MatchNext

LEMMA SeatsStep ==
    ASSUME MatchLogAssumption, LateIdentity = FALSE, PluginOK, SeatsOK, MatchNext
    PROVE  SeatsOK'
<1>1. ASSUME NEW s \in Slots,
             \/ \E q \in Players : Connect(s, q)
             \/ Authorize(s)
             \/ \E little \in BOOLEAN : PutInServer(s, little)
             \/ AskLoads(s)
             \/ Hit(s)
             \/ LifeLoaded(s)
             \/ NoneFound(s)
             \/ RowFound(s)
             \/ \E connectionLost \in BOOLEAN : LoadFails(s, connectionLost)
      PROVE  SeatsOK'
  BY <1>1, SeatActions
<1>2. ASSUME \/ \E s \in Slots, played \in BOOLEAN, skip \in SUBSET Suspects :
                   Leave(s, played, skip)
             \/ DatabaseLost
             \/ DatabaseReady
             \/ \E q \in Players : RowRemoved(q)
             \/ \E skip \in SUBSET Suspects :
                   \/ UpdateOnlineStats(skip)
                   \/ PublishRound(skip)
                   \/ MapEnd(skip)
                   \/ \E bots \in BOOLEAN : Reload(bots, skip)
             \/ \E bots \in BOOLEAN, little \in BOOLEAN : MapStart(bots, little)
      PROVE  SeatsOK'
  BY <1>2, OtherSeats
<1> QED BY <1>1, <1>2 DEF MatchNext

LEMMA HitsInitially ==
    ASSUME MatchLogAssumption, MatchInit
    PROVE  HitsKept
<1>1. PluginOK
  BY PluginInitially
<1>2. /\ playing = TRUE /\ match.log = NoLog /\ match.begun = 0 /\ match.last = NoLog
      /\ \A t \in 1 .. MaxMatches : match.table[t] = Absent
      /\ \A p \in Players : hits[p] = Zero
      /\ \A s \in Slots : client[s] = Vacant(NoPlayer) /\ loads[s] = <<>>
  BY DEF MatchInit
<1>3. /\ Absent.state = "absent" /\ \A p \in Players : Absent.rows[p] = Zero
  BY DEF Absent, NoRows
<1>4. \A s \in Slots : /\ client[s].player = NoPlayer /\ ~ client[s].inGame
                       /\ ~ client[s].authorized /\ client[s].live = Zero
  BY <1>2, VacantMakes DEF Persons
<1>5. SeatsOK
  BY <1>2, <1>4 DEF SeatsOK, Seat, OneSlot, MatchLogAssumption
<1>6. LogOK(match, playing)
  BY <1>2, <1>3 DEF LogOK, NoLog
<1>7. ASSUME NEW p \in Players PROVE PlayerOK(p)
  <2>1. LiveOK(p, client, match, hits[p])
    BY <1>4 DEF LiveOK, MatchLogAssumption
  <2>2. HeldOK(p, client, match, hits[p], lost)
    BY <1>2 DEF HeldOK
  <2>3. hits[p] \in Records
    BY <1>2, ZeroIsRecord
  <2>4. RowsOK(p, match, hits[p])
    BY <1>2, <1>3, <2>3, ZeroBounded DEF RowsOK
  <2>5. NotYet(hits[p], match)
    <3>1. ASSUME NEW t \in 1 .. MaxMatches PROVE hits[p][Within(t)] = 0
      BY <1>2, WithinIsOrigin, ZeroIsRecord
    <3> QED BY <3>1 DEF NotYet
  <2>6. FinalOK(p, match, hits[p])
    BY <1>2, <1>3 DEF FinalOK
  <2> QED BY <2>1, <2>2, <2>4, <2>5, <2>6 DEF PlayerOK, LogsOK
<1> QED BY <1>1, <1>5, <1>6, <1>7 DEF HitsKept

LEMMA HitsStep ==
    ASSUME MatchLogAssumption, LateIdentity = FALSE, HitsKept, [MatchNext]_matchVars
    PROVE  HitsKept'
<1>1. PluginOK /\ SeatsOK /\ LogOK(match, playing) /\ \A p \in Players \ restored : PlayerOK(p)
  BY DEF HitsKept
<1>2. PluginOK'
  BY <1>1, PluginStep
<1>3. CASE MatchNext
  <2>1. SeatsOK'
    BY <1>1, <1>3, SeatsStep
  <2>2. LogOK(match', playing')
    BY <1>1, <1>3, LogStep
  <2>3. restored \subseteq restored'
    BY <1>3, RestoredGrows
  <2>4. ASSUME NEW p \in Players, p \notin restored' PROVE PlayerOK(p)'
    <3>1. Carried(p)
      BY <1>1, <1>3, <2>3, <2>4, PlayerStep
    <3> QED BY <3>1 DEF Carried, PlayerOK
  <2> QED BY <1>2, <2>1, <2>2, <2>4 DEF HitsKept
<1>4. CASE UNCHANGED matchVars
  <2>1. /\ client' = client /\ loads' = loads /\ match' = match /\ playing' = playing
        /\ hits' = hits /\ lost' = lost /\ restored' = restored
    BY <1>4 DEF matchVars
  <2>2. SeatsOK'
    BY <1>1, <2>1 DEF SeatsOK
  <2>3. LogOK(match', playing')
    BY <1>1, <2>1
  <2>4. \A p \in Players \ restored : PlayerOK(p)'
    BY <1>1, <2>1 DEF PlayerOK
  <2> QED BY <1>2, <2>1, <2>2, <2>3, <2>4 DEF HitsKept
<1> QED BY <1>3, <1>4

-----------------------------------------------------------------------------
(* What readers of the logs rely on, if clients are validated before they    *)
(* enter the game.                                                           *)

\* The record of every player is complete, in one place, until its match is over: the
\* inductive invariant that the next theorems rest on.
THEOREM HitsAreKept ==
    ASSUME LateIdentity = FALSE
    PROVE  MatchSpec => []HitsKept
<1>1. ASSUME MatchInit PROVE HitsKept
  BY <1>1, HitsInitially, MatchLogAssumption
<1>2. ASSUME HitsKept, [MatchNext]_matchVars PROVE HitsKept'
  BY <1>2, HitsStep, MatchLogAssumption
<1> QED BY <1>1, <1>2, PTL DEF MatchSpec

\* No hit is in two finished logs or twice in one: CountedOnce.
THEOREM HitsCountOnce ==
    ASSUME LateIdentity = FALSE
    PROVE  MatchSpec => []CountedOnce
<1>1. ASSUME HitsKept PROVE CountedOnce
  <2> SUFFICES ASSUME NEW p \in Players \ restored, NEW o \in Origins, NEW t \in Logged
               PROVE  /\ match.table[t].rows[p][o] > 0 => o \in {Within(t), Before(t)}
                      /\ match.table[t].rows[p][o] <= hits[p][o]
    BY DEF CountedOnce
  <2>1. t \in 1 .. MaxMatches
    BY DEF Logged
  <2>2. RowsOK(p, match, hits[p])
    BY <1>1 DEF HitsKept, PlayerOK, LogsOK
  <2> QED BY <2>1, <2>2 DEF RowsOK, Bounded
<1> QED BY <1>1, HitsAreKept, PTL

\* A finished log has all hits of its match: NothingForgotten.
THEOREM LogsAreComplete ==
    ASSUME LateIdentity = FALSE
    PROVE  MatchSpec => []NothingForgotten
<1>1. ASSUME HitsKept PROVE NothingForgotten
  <2> SUFFICES ASSUME NEW t \in Logged, NEW p \in Players \ (Suspects \cup restored \cup lost)
               PROVE  match.table[t].rows[p][Within(t)] = hits[p][Within(t)]
    BY DEF NothingForgotten
  <2>1. t \in 1 .. MaxMatches /\ match.table[t].state = "final"
    BY DEF Logged
  <2>2. FinalOK(p, match, hits[p])
    BY <1>1 DEF HitsKept, PlayerOK, LogsOK
  <2> QED BY <2>1, <2>2 DEF FinalOK
<1> QED BY <1>1, HitsAreKept, PTL

\* What readers see of a log only advances: LogsAdvance.
THEOREM LogsOnlyAdvance ==
    ASSUME LateIdentity = FALSE
    PROVE  MatchSpec => LogsAdvance
<1> DEFINE Advance == \A t \in 1 .. MaxMatches :
                         LET old == match.table[t] new == match'.table[t]
                         IN /\ old.state = "deleted" => new = old
                            /\ old.state = "final" => new \in {old, Deleted}
                            /\ old.state = "published" => new.state # "open"
                            /\ new # Deleted =>
                                 \A p \in Players \ (restored' \cup lost'), o \in Origins :
                                     new.rows[p][o] >= old.rows[p][o]
<1>1. ASSUME HitsKept, MatchNext PROVE Advance
  <2>1. PluginOK /\ SeatsOK /\ LogOK(match, playing) /\ \A p \in Players \ restored : PlayerOK(p)
    BY <1>1 DEF HitsKept
  <2>2. \A t \in 1 .. MaxMatches : StateOn(match.table[t], match'.table[t])
    BY <1>1, <2>1, LogStep, MatchLogAssumption
  <2>3. ASSUME NEW p \in Players, p \notin restored', p \notin lost'
        PROVE  \A t \in 1 .. MaxMatches : RowsOn(match.table[t], match'.table[t], p)
    <3>1. p \notin restored
      BY <1>1, <2>3, RestoredGrows
    <3>2. Carried(p)
      BY <1>1, <2>1, <2>3, <3>1, PlayerStep, MatchLogAssumption
    <3> QED BY <2>3, <3>2 DEF Carried
  <2> QED BY <2>2, <2>3 DEF StateOn, RowsOn
<1>2. ASSUME HitsKept, [MatchNext]_matchVars PROVE [Advance]_matchVars
  BY <1>1, <1>2
<1> HIDE DEF Advance
<1>3. MatchSpec => [][Advance]_matchVars
  BY <1>2, HitsAreKept, PTL DEF MatchSpec
<1> QED BY <1>3 DEF LogsAdvance, Advance

\* The id of a client in the game is its own: FallbackIsOwn.
THEOREM IdsAreOwn ==
    ASSUME LateIdentity = FALSE
    PROVE  MatchSpec => []FallbackIsOwn
<1>1. ASSUME HitsKept PROVE FallbackIsOwn
  BY <1>1 DEF HitsKept, SeatsOK, Seat, FallbackIsOwn
<1> QED BY <1>1, HitsAreKept, PTL

=============================================================================
