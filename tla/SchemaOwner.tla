---------------------------- MODULE SchemaOwner ----------------------------
(***************************************************************************)
(* How the daemons start: the owners of the schema migrate it under the    *)
(* named lock of the database, one statement at a time, and record each    *)
(* version behind its statements; the other daemons poll the recorded      *)
(* version until it is theirs or their deadline passes.  DDL is not        *)
(* transactional: a daemon that dies leaves what it had done, and the      *)
(* server may still run the statement last sent to it, in a session that   *)
(* keeps the lock meanwhile.                                               *)
(***************************************************************************)
EXTENDS Integers

CONSTANTS
    Daemons,        \* the processes whaletracker-rust.sh starts
    Owners,         \* those whose port is cache_owner_port
    SchemaVersion,  \* SCHEMA_VERSION of the daemons
    Statements,     \* per version: how many statements its migration has
    Nobody,         \* no session holds the lock
    Orphan          \* a session whose client has gone

ASSUME SchemaAssumption ==
    /\ Owners \subseteq Daemons
    /\ SchemaVersion \in Nat
    /\ Statements \in [1 .. SchemaVersion -> Nat \ {0}]
    /\ Nobody \notin Daemons
    /\ Orphan \notin Daemons \cup {Nobody}

VARIABLES
    recorded,   \* MAX(version) in whaletracker_schema_migrations
    done,       \* per version: its statements up to this one have been run
    holder,     \* who holds the lock "wt-schema"
    stage,      \* per daemon: where prepare stands
    at          \* per session: version and number of its next statement

schemaVars == <<recorded, done, holder, stage, at>>

Sessions == Owners \cup {Orphan}

\* The stages in which a daemon has the lock.
Migrating == {"read", "migrate", "release"}

Nothing == [version |-> 0, statement |-> 0]

SchemaInit ==
    /\ recorded \in 0 .. SchemaVersion
    /\ done = [v \in 1 .. SchemaVersion |->
                 IF v <= recorded THEN Statements[v] ELSE 0]
    /\ holder = Nobody
    /\ stage = [d \in Daemons |-> "down"]
    /\ at = [s \in Sessions |-> Nothing]

Goto(d, s) == stage' = [stage EXCEPT ![d] = s]

----------------------------------------------------------------------------
(* prepare of an owner                                                     *)

\* main: the process starts.  An owner asks for the lock, the others poll.
Begin(d) ==
    /\ stage[d] = "down"
    /\ Goto(d, IF d \in Owners THEN "lock" ELSE "poll")
    /\ UNCHANGED <<recorded, done, holder, at>>

\* Defect variant of TakeLock: the answer of GET_LOCK is not looked at.
TakeLockAnyway(d) ==
    /\ stage[d] = "lock"
    /\ holder' = d
    /\ Goto(d, "read")
    /\ UNCHANGED <<recorded, done, at>>

TakeLock(d) ==
    /\ stage[d] = "lock"
    /\ holder = Nobody
    /\ holder' = d
    /\ Goto(d, "read")
    /\ UNCHANGED <<recorded, done, at>>

\* Thirty seconds have passed, or the request fails: prepare ends in an error,
\* and so does the process.
NoLock(d) ==
    /\ stage[d] = "lock"
    /\ Goto(d, "down")
    /\ UNCHANGED <<recorded, done, holder, at>>

\* The server grants the lock but the answer is lost: the session is closed.
LockLost(d) ==
    /\ stage[d] = "lock"
    /\ holder = Nobody
    /\ holder' = Orphan
    /\ at' = [at EXCEPT ![Orphan] = Nothing]
    /\ Goto(d, "down")
    /\ UNCHANGED <<recorded, done>>

\* ensure_version_table and current_version: the first migration to apply.
ReadVersion(d) ==
    /\ stage[d] = "read"
    /\ IF recorded = SchemaVersion
       THEN Goto(d, "release") /\ UNCHANGED at
       ELSE /\ Goto(d, "migrate")
            /\ at' = [at EXCEPT ![d] = [version |-> recorded + 1, statement |-> 1]]
    /\ UNCHANGED <<recorded, done, holder>>

\* Defect variant of Run: the version is recorded before its statements.
RunRecordFirst(next) ==
    /\ recorded' = next.version
    /\ done' = [done EXCEPT ![next.version] =
                   IF next.statement <= Statements[next.version]
                   THEN next.statement ELSE @]

\* What the server does with a statement of a migration: an idempotent change
\* of the schema, or, behind the last of them, the row of the version.
Run(next) ==
    /\ IF next.statement <= Statements[next.version]
       THEN /\ done' = [done EXCEPT ![next.version] =
                           IF next.statement > @ THEN next.statement ELSE @]
            /\ UNCHANGED recorded
       ELSE recorded' = next.version /\ UNCHANGED done

\* The statement that comes next in the list of migrations.
Following(next) ==
    IF next.statement <= Statements[next.version]
    THEN [version |-> next.version, statement |-> next.statement + 1]
    ELSE [version |-> next.version + 1, statement |-> 1]

Migrate(d) ==
    /\ stage[d] = "migrate"
    /\ Run(at[d])
    /\ LET next == Following(at[d])
       IN  IF next.version > SchemaVersion
           THEN Goto(d, "release") /\ at' = [at EXCEPT ![d] = Nothing]
           ELSE UNCHANGED stage /\ at' = [at EXCEPT ![d] = next]
    /\ UNCHANGED holder

\* The server refuses a statement: the lock is released, the process ends.
MigrationFails(d) ==
    /\ stage[d] \in {"read", "migrate"}
    /\ holder' = Nobody
    /\ at' = [at EXCEPT ![d] = Nothing]
    /\ Goto(d, "down")
    /\ UNCHANGED <<recorded, done>>

\* RELEASE_LOCK.
Release(d) ==
    /\ stage[d] = "release"
    /\ holder' = Nobody
    /\ Goto(d, "serving")
    /\ UNCHANGED <<recorded, done, at>>

\* The process dies or loses its connection, which ends it too: the session
\* outlives it with its lock and the statement last sent.
SessionLost(d) ==
    /\ stage[d] \in Migrating
    /\ holder' = Orphan
    /\ at' = [at EXCEPT ![Orphan] = at[d], ![d] = Nothing]
    /\ Goto(d, "down")
    /\ UNCHANGED <<recorded, done>>

----------------------------------------------------------------------------
(* The server: a session whose client has gone                             *)

OrphanRuns ==
    /\ holder = Orphan
    /\ at[Orphan] # Nothing
    /\ Run(at[Orphan])
    /\ at' = [at EXCEPT ![Orphan] = Nothing]
    /\ UNCHANGED <<holder, stage>>

OrphanEnds ==
    /\ holder = Orphan
    /\ holder' = Nobody
    /\ at' = [at EXCEPT ![Orphan] = Nothing]
    /\ UNCHANGED <<recorded, done, stage>>

----------------------------------------------------------------------------
(* prepare of the other daemons                                            *)

VersionSeen(d) ==
    /\ stage[d] = "poll"
    /\ recorded >= SchemaVersion
    /\ Goto(d, "serving")
    /\ UNCHANGED <<recorded, done, holder, at>>

\* The deadline passes without the version, or with reads that failed.
Deadline(d) ==
    /\ stage[d] = "poll"
    /\ Goto(d, "down")
    /\ UNCHANGED <<recorded, done, holder, at>>

\* A daemon that serves, or waits for the lock, ends.
Stops(d) ==
    /\ stage[d] \in {"lock", "serving"}
    /\ Goto(d, "down")
    /\ UNCHANGED <<recorded, done, holder, at>>

----------------------------------------------------------------------------
Prepare(d) ==
    \/ Begin(d)
    \/ TakeLock(d)
    \/ ReadVersion(d)
    \/ Migrate(d)
    \/ Release(d)
    \/ VersionSeen(d)

SchemaFailure ==
    \E d \in Daemons :
        \/ NoLock(d) /\ holder = Nobody
        \/ LockLost(d)
        \/ MigrationFails(d)
        \/ SessionLost(d)
        \/ Stops(d)
        \/ Deadline(d) /\ recorded = SchemaVersion

SchemaNext ==
    \/ \E d \in Daemons :
         \/ Prepare(d) \/ NoLock(d) \/ LockLost(d) \/ MigrationFails(d)
         \/ SessionLost(d) \/ Deadline(d) \/ Stops(d)
    \/ OrphanRuns
    \/ OrphanEnds

SchemaSpec == SchemaInit /\ [][SchemaNext]_schemaVars

SchemaFairness ==
    /\ \A d \in Daemons : WF_schemaVars(Prepare(d))
    /\ WF_schemaVars(OrphanEnds)

----------------------------------------------------------------------------
(* Properties                                                              *)

SchemaTypeOK ==
    /\ recorded \in 0 .. SchemaVersion
    /\ done \in [1 .. SchemaVersion -> Nat]
    /\ holder \in Owners \cup {Nobody, Orphan}
    /\ stage \in [Daemons -> Migrating \cup {"down", "lock", "poll", "serving"}]
    /\ at \in [Sessions -> [version : 0 .. SchemaVersion, statement : Nat]]

\* A version on record is a version completed, and who serves has them all: at
\* whatever statement owners died, lost their session or were refused, and
\* whatever their sessions still ran afterwards, no reader of the version row
\* meets a table without a column.
RecordedIsComplete ==
    /\ \A v \in 1 .. recorded : done[v] = Statements[v]
    /\ \A d \in Daemons : stage[d] = "serving" => recorded = SchemaVersion

\* Owners, and the sessions they leave behind, migrate one after the other,
\* each from the version the one before recorded: whoever is about to run a
\* statement has the lock, and the statement is not one of a migration already
\* recorded, whose row would be inserted twice.
NoMigrationRepeated ==
    \A s \in Sessions :
        at[s] # Nothing => holder = s /\ at[s].version = recorded + 1
============================================================================
