----------------------------- MODULE PointsCache -----------------------------
(***************************************************************************)
(* The points cache: every daemon announces that ranked data changed       *)
(* (mark_dirty, persist_invalidation), the owners of the cache rebuild the *)
(* ranking table once the announcements have calmed down or grown old, and *)
(* publish it by renaming tables.  The announcements meet in one row of    *)
(* the database; rebuilds exclude each other by a named database lock.     *)
(*                                                                         *)
(* Every statement sent to the database is a step of its own.  A daemon    *)
(* that loses its connection, or dies, in the middle of a rebuild leaves   *)
(* the statement it had sent to the server, which may still run it before  *)
(* the session and its lock go away.                                       *)
(*                                                                         *)
(* Time is kept as ages that stop at Horizon.  The generation counter is   *)
(* only ever compared with the value read at the start of a rebuild, so a  *)
(* rebuild keeps the truth of that comparison (fresh) instead.             *)
(***************************************************************************)
EXTENDS Integers, FiniteSets, FiniteSetsExt

CONSTANTS
    Daemons,
    Owners,         \* daemons whose port is cache_owner_port
    Nobody,
    Orphan,         \* a server session whose daemon is gone
    Changes,        \* statements on ranked tables, each committed once
    Debounce,       \* cache_debounce, in ticks
    MaxWait,        \* max_wait, in ticks
    Unset,          \* dirty_since = 0
    MaxCrashes      \* bound on crashes in a behaviour

ASSUME PointsCacheAssumption ==
    /\ Owners \subseteq Daemons
    /\ Nobody \notin Daemons /\ Orphan \notin Daemons /\ Nobody # Orphan
    /\ Debounce \in Nat \ {0} /\ MaxWait \in Nat \ {0}
    /\ Unset \notin Nat
    /\ MaxCrashes \in Nat

VARIABLES
    up,         \* per daemon: the process runs
    pending,    \* per daemon: the flag set by mark_dirty
    unmarked,   \* per daemon: changes committed, mark_dirty not yet called
    stage,      \* per daemon: what its cache worker does next
    fresh,      \* per daemon: the generation is the one read under the lock
    holder,     \* the session that owns the named lock
    orphan,     \* the statement left on the server with the lock held
    row,        \* whaletracker_points_cache_state: dirty, and its two ages
    build,      \* the table under construction
    live,       \* the table readers see
    writer,     \* per change: the daemon that committed it
    script,     \* rebuild_points_ranks.sh: what it waits to see published
    crashes     \* history: crashes so far

vars == <<up, pending, unmarked, stage, fresh, holder, orphan, row, build, live,
          writer, script, crashes>>

Horizon == IF Debounce >= MaxWait THEN Debounce ELSE MaxWait

Older(a) == IF a < Horizon THEN a + 1 ELSE a

\* Changes in the tables the ranking is computed from.
Written == {c \in Changes : writer[c] # Nobody}

Empty == [whole |-> FALSE, has |-> {}]

\* Stages in which a worker owns the lock and has a statement to send.
Locked == {"reread", "clear", "insert", "rename", "clean", "release"}

NoOrphan == [stmt |-> "none", fresh |-> FALSE]

Quiet == [waits |-> FALSE, for |-> {}]

\* The cache may have been left dirty by an older daemon, without dirty_since.
Init ==
    /\ up = [d \in Daemons |-> TRUE]
    /\ pending = [d \in Daemons |-> TRUE]
    /\ unmarked = [d \in Daemons |-> {}]
    /\ stage = [d \in Daemons |-> "touch"]
    /\ fresh = [d \in Daemons |-> FALSE]
    /\ holder = Nobody
    /\ orphan = NoOrphan
    /\ row \in [dirty : BOOLEAN, updated : {0}, since : {Unset}]
    /\ build = Empty
    /\ live = [whole |-> TRUE, has |-> {}]
    /\ writer = [c \in Changes |-> Nobody]
    /\ script = Quiet
    /\ crashes = 0

----------------------------------------------------------------------------
(* Effects of single statements on the database                            *)

\* The upsert of persist_invalidation and of the script: every generation that
\* was read before it is stale from now on.
Touch ==
    /\ row' = [dirty |-> TRUE, updated |-> 0,
               since |-> IF ~row.dirty \/ row.since = Unset THEN 0
                         ELSE row.since]
    /\ fresh' = [d \in Daemons |-> FALSE]
    /\ orphan' = [orphan EXCEPT !.fresh = FALSE]

\* Defect variant of Eligible: a change is published after a calm spell only.
EligibleWhenCalm == row.dirty /\ row.updated >= Debounce

\* eligible_generation: calm for Debounce, or dirty for MaxWait.
Eligible ==
    /\ row.dirty
    /\ \/ row.updated >= Debounce
       \/ (IF row.since = Unset THEN row.updated ELSE row.since) >= MaxWait

Clear == build' = Empty /\ UNCHANGED <<live, row>>

\* INSERT ... SELECT computes the ranking from what is committed.
Fill == build' = [whole |-> TRUE, has |-> Written] /\ UNCHANGED <<live, row>>

\* RENAME TABLE exchanges the two tables in one step.
Swap == build' = live /\ live' = build /\ UNCHANGED row

\* Defect variant of CleanRow: the generation is not compared.
CleanRowBlindly(isFresh) ==
    /\ row' = [row EXCEPT !.dirty = FALSE, !.since = Unset]
    /\ UNCHANGED <<build, live>>

\* The guarded UPDATE that ends a rebuild.
CleanRow(isFresh) ==
    /\ row' = IF isFresh THEN [row EXCEPT !.dirty = FALSE, !.since = Unset]
              ELSE row
    /\ UNCHANGED <<build, live>>

\* What the statement a locked session has sent does when the server runs it.
Run(stmt, isFresh) ==
    \/ stmt = "clear" /\ Clear
    \/ stmt = "insert" /\ Fill
    \/ stmt = "rename" /\ Swap
    \/ stmt = "clean" /\ CleanRow(isFresh)

----------------------------------------------------------------------------
(* The SQL workers of the sink                                             *)

\* A statement on a ranked table commits.
Commit(d, c) ==
    /\ up[d]
    /\ writer[c] = Nobody
    /\ writer' = [writer EXCEPT ![c] = d]
    /\ unmarked' = [unmarked EXCEPT ![d] = @ \cup {c}]
    /\ UNCHANGED <<up, pending, stage, fresh, holder, orphan, row, build, live,
                   script, crashes>>

\* The worker learns of the success, now or after a retry, and calls mark_dirty.
MarkDirty(d, c) ==
    /\ up[d]
    /\ c \in unmarked[d]
    /\ pending' = [pending EXCEPT ![d] = TRUE]
    /\ unmarked' = [unmarked EXCEPT ![d] = @ \ {c}]
    /\ UNCHANGED <<up, stage, fresh, holder, orphan, row, build, live, writer,
                   script, crashes>>

\* mark_dirty for a statement that changes nothing new: a retry, a duplicate.
MarkAgain(d) ==
    /\ up[d]
    /\ ~pending[d]
    /\ pending' = [pending EXCEPT ![d] = TRUE]
    /\ UNCHANGED <<up, unmarked, stage, fresh, holder, orphan, row, build, live,
                   writer, script, crashes>>

----------------------------------------------------------------------------
(* The cache worker: worker_loop, persist_invalidation                     *)

Goto(d, s) == stage' = [stage EXCEPT ![d] = s]

\* After the announcement an owner polls; the others sleep and start over.
NextTurn(d) == IF d \in Owners THEN "probe" ELSE "touch"

\* cache_touch has passed and the flag is set: swap it.
SwapPending(d) ==
    /\ up[d]
    /\ stage[d] = "touch"
    /\ pending[d]
    /\ pending' = [pending EXCEPT ![d] = FALSE]
    /\ Goto(d, "persist")
    /\ UNCHANGED <<up, unmarked, fresh, holder, orphan, row, build, live, writer,
                   script, crashes>>

\* Nothing to announce, or cache_touch has not passed.
SkipTouch(d) ==
    /\ up[d]
    /\ stage[d] = "touch"
    /\ d \in Owners
    /\ Goto(d, "probe")
    /\ UNCHANGED <<up, pending, unmarked, fresh, holder, orphan, row, build,
                   live, writer, script, crashes>>

Persist(d) ==
    /\ up[d]
    /\ stage[d] = "persist"
    /\ Touch
    /\ Goto(d, NextTurn(d))
    /\ UNCHANGED <<up, pending, unmarked, holder, build, live, writer, script,
                   crashes>>

\* The announcement fails; whether it took effect is not known.
PersistFails(d) ==
    /\ up[d]
    /\ stage[d] = "persist"
    /\ pending' = [pending EXCEPT ![d] = TRUE]
    /\ Goto(d, NextTurn(d))
    /\ Touch \/ UNCHANGED <<row, fresh, orphan>>
    /\ UNCHANGED <<up, unmarked, holder, build, live, writer, script, crashes>>

----------------------------------------------------------------------------
(* poll_and_rebuild, with_named_lock                                       *)

\* The unlocked look at the row, a hint only, says a rebuild is due.
ProbeDue(d) ==
    /\ up[d]
    /\ stage[d] = "probe"
    /\ Eligible
    /\ Goto(d, "lock")
    /\ UNCHANGED <<up, pending, unmarked, fresh, holder, orphan, row, build,
                   live, writer, script, crashes>>

\* It says there is nothing to do, or it fails.
ProbeNotDue(d) ==
    /\ up[d]
    /\ stage[d] = "probe"
    /\ Goto(d, "touch")
    /\ UNCHANGED <<up, pending, unmarked, fresh, holder, orphan, row, build,
                   live, writer, script, crashes>>

\* Defect variant of TakeLock: the result of GET_LOCK is not looked at.
TakeLockAnyway(d) ==
    /\ up[d]
    /\ stage[d] = "lock"
    /\ holder' = d
    /\ Goto(d, "reread")
    /\ UNCHANGED <<up, pending, unmarked, fresh, orphan, row, build, live,
                   writer, script, crashes>>

TakeLock(d) ==
    /\ up[d]
    /\ stage[d] = "lock"
    /\ holder = Nobody
    /\ holder' = d
    /\ Goto(d, "reread")
    /\ UNCHANGED <<up, pending, unmarked, fresh, orphan, row, build, live,
                   writer, script, crashes>>

\* GET_LOCK returns 0, or it fails and never reached the server.
NoLock(d) ==
    /\ up[d]
    /\ stage[d] = "lock"
    /\ Goto(d, "touch")
    /\ UNCHANGED <<up, pending, unmarked, fresh, holder, orphan, row, build,
                   live, writer, script, crashes>>

\* GET_LOCK succeeds on the server but its answer is lost.
LockLost(d) ==
    /\ up[d]
    /\ stage[d] = "lock"
    /\ holder = Nobody
    /\ holder' = Orphan
    /\ orphan' = [stmt |-> "release", fresh |-> FALSE]
    /\ Goto(d, "touch")
    /\ UNCHANGED <<up, pending, unmarked, fresh, row, build, live, writer,
                   script, crashes>>

\* Every decision is taken again under the lock.
Reread(d) ==
    /\ up[d]
    /\ stage[d] = "reread"
    /\ Goto(d, IF Eligible THEN "clear" ELSE "release")
    /\ fresh' = [fresh EXCEPT ![d] = Eligible]
    /\ UNCHANGED <<up, pending, unmarked, holder, orphan, row, build, live,
                   writer, script, crashes>>

After == [clear |-> "insert", insert |-> "rename", rename |-> "clean",
          clean |-> "release"]

\* The next statement of the rebuild succeeds.
Statement(d) ==
    /\ up[d]
    /\ stage[d] \in DOMAIN After
    /\ Run(stage[d], fresh[d])
    /\ Goto(d, After[stage[d]])
    /\ UNCHANGED <<up, pending, unmarked, fresh, holder, orphan, writer, script,
                   crashes>>

\* Defect variant of StatementFails: the error of the INSERT is ignored.
StatementFailsUnnoticed(d) ==
    /\ up[d]
    /\ stage[d] = "insert"
    /\ Goto(d, "rename")
    /\ UNCHANGED <<up, pending, unmarked, fresh, holder, orphan, row, build,
                   live, writer, script, crashes>>

\* A statement is refused by the server: the rebuild is given up.
StatementFails(d) ==
    /\ up[d]
    /\ stage[d] \in Locked \ {"release"}
    /\ Goto(d, "release")
    /\ UNCHANGED <<up, pending, unmarked, fresh, holder, orphan, row, build,
                   live, writer, script, crashes>>

\* RELEASE_LOCK.
Release(d) ==
    /\ up[d]
    /\ stage[d] = "release"
    /\ holder' = Nobody
    /\ fresh' = [fresh EXCEPT ![d] = FALSE]
    /\ Goto(d, "touch")
    /\ UNCHANGED <<up, pending, unmarked, orphan, row, build, live, writer,
                   script, crashes>>

\* The server keeps a session, its lock and the statement last sent to it.
LeaveSession(d) ==
    /\ holder' = Orphan
    /\ orphan' = [stmt |-> stage[d], fresh |-> fresh[d]]

\* A time-out or a dead connection: the statement's fate is unknown, the
\* RELEASE_LOCK fails too, and the connection is dropped from the pool.
LoseSession(d) ==
    /\ up[d]
    /\ stage[d] \in Locked
    /\ LeaveSession(d)
    /\ fresh' = [fresh EXCEPT ![d] = FALSE]
    /\ Goto(d, "touch")
    /\ UNCHANGED <<up, pending, unmarked, row, build, live, writer, script,
                   crashes>>

\* The server runs the statement of a session whose client has gone, ...
OrphanRuns ==
    /\ holder = Orphan
    /\ Run(orphan.stmt, orphan.fresh)
    /\ orphan' = [orphan EXCEPT !.stmt = "release"]
    /\ UNCHANGED <<up, pending, unmarked, stage, fresh, holder, writer, script,
                   crashes>>

\* ... or does not, and ends the session, which frees the lock.
OrphanEnds ==
    /\ holder = Orphan
    /\ holder' = Nobody
    /\ orphan' = NoOrphan
    /\ UNCHANGED <<up, pending, unmarked, stage, fresh, row, build, live, writer,
                   script, crashes>>

----------------------------------------------------------------------------
(* Time, crashes and the rebuild script                                    *)

Tick ==
    /\ row' = [row EXCEPT !.updated = Older(@),
                          !.since = IF @ = Unset THEN @ ELSE Older(@)]
    /\ UNCHANGED <<up, pending, unmarked, stage, fresh, holder, orphan, build,
                   live, writer, script, crashes>>

\* The daemon dies, in a rebuild as if it had lost its session.
Crash(d) ==
    /\ up[d]
    /\ crashes < MaxCrashes
    /\ crashes' = crashes + 1
    /\ up' = [up EXCEPT ![d] = FALSE]
    /\ pending' = [pending EXCEPT ![d] = FALSE]
    /\ unmarked' = [unmarked EXCEPT ![d] = {}]
    /\ fresh' = [fresh EXCEPT ![d] = FALSE]
    /\ Goto(d, "touch")
    /\ IF stage[d] \in Locked THEN LeaveSession(d)
       ELSE UNCHANGED <<holder, orphan>>
    /\ UNCHANGED <<row, build, live, writer, script>>

\* Defect variant of Start: a new process has nothing to announce.
StartClean(d) ==
    /\ ~up[d]
    /\ up' = [up EXCEPT ![d] = TRUE]
    /\ UNCHANGED <<pending, unmarked, stage, fresh, holder, orphan, row, build,
                   live, writer, script, crashes>>

\* PointsCache::new: a new process always announces once.
Start(d) ==
    /\ ~up[d]
    /\ up' = [up EXCEPT ![d] = TRUE]
    /\ pending' = [pending EXCEPT ![d] = TRUE]
    /\ UNCHANGED <<unmarked, stage, fresh, holder, orphan, row, build, live,
                   writer, script, crashes>>

\* rebuild_points_ranks.sh announces a change itself and polls until clean.
ScriptAsks ==
    /\ ~script.waits
    /\ Touch
    /\ script' = [waits |-> TRUE, for |-> Written]
    /\ UNCHANGED <<up, pending, unmarked, stage, holder, build, live, writer,
                   crashes>>

ScriptEnds ==
    /\ script.waits
    /\ script' = Quiet
    /\ UNCHANGED <<up, pending, unmarked, stage, fresh, holder, orphan, row,
                   build, live, writer, crashes>>

----------------------------------------------------------------------------
CacheWorker(d) ==
    \/ SwapPending(d)
    \/ SkipTouch(d)
    \/ Persist(d)
    \/ PersistFails(d)
    \/ ProbeDue(d)
    \/ ProbeNotDue(d)
    \/ TakeLock(d)
    \/ NoLock(d)
    \/ LockLost(d)
    \/ Reread(d)
    \/ Statement(d)
    \/ StatementFails(d)
    \/ Release(d)
    \/ LoseSession(d)

Next ==
    \/ \E d \in Daemons, c \in Changes : Commit(d, c) \/ MarkDirty(d, c)
    \/ \E d \in Daemons : MarkAgain(d)
    \/ \E d \in Daemons : CacheWorker(d)
    \/ OrphanRuns
    \/ OrphanEnds
    \/ Tick
    \/ \E d \in Daemons : Crash(d) \/ Start(d)
    \/ ScriptAsks
    \/ ScriptEnds

Spec == Init /\ [][Next]_vars

----------------------------------------------------------------------------
(* Fairness.  Threads are scheduled, time passes, a daemon is restarted, a  *)
(* mark that is waiting is announced once cache_touch has passed, and the   *)
(* server ends the sessions of clients that have gone.  The database may    *)
(* fail for any time, but not for ever.  Nothing limits how often marks are *)
(* set.                                                                     *)

\* A statement, a look at the row or a lock request that fails by itself.
Failure ==
    \E d \in Daemons :
        \/ PersistFails(d) \/ LockLost(d) \/ StatementFails(d) \/ LoseSession(d)
        \/ ProbeNotDue(d) /\ Eligible
        \/ NoLock(d) /\ holder = Nobody

Fairness ==
    /\ WF_vars(Tick) /\ WF_vars(OrphanEnds)
    /\ \A d \in Daemons :
         /\ WF_vars(Start(d))
         /\ \A c \in Changes : WF_vars(MarkDirty(d, c))
         /\ SF_vars(SwapPending(d)) /\ WF_vars(CacheWorker(d))
    /\ <>[][~Failure]_vars

FairSpec == Spec /\ Fairness

----------------------------------------------------------------------------
(* Properties                                                              *)

Ages == 0 .. Horizon

Table == [whole : BOOLEAN, has : SUBSET Changes]

TypeOK ==
    /\ up \in [Daemons -> BOOLEAN]
    /\ pending \in [Daemons -> BOOLEAN]
    /\ unmarked \in [Daemons -> SUBSET Changes]
    /\ stage \in [Daemons -> {"touch", "persist", "probe", "lock"} \cup Locked]
    /\ fresh \in [Daemons -> BOOLEAN]
    /\ holder \in Daemons \cup {Nobody, Orphan}
    /\ orphan \in [stmt : {"none"} \cup Locked, fresh : BOOLEAN]
    /\ row \in [dirty : BOOLEAN, updated : Ages, since : Ages \cup {Unset}]
    /\ build \in Table
    /\ live \in Table
    /\ writer \in [Changes -> Daemons \cup {Nobody}]
    /\ script \in [waits : BOOLEAN, for : SUBSET Changes]
    /\ crashes \in Nat

\* A daemon that still has to announce change c, or will at its next start.
Announces(d, c) ==
    \/ ~up[d]
    \/ pending[d]
    \/ stage[d] = "persist"
    \/ c \in unmarked[d]

\* No invalidation is lost: a committed change the readers' table does not show
\* is either on record in the database, or its daemon still has to announce it,
\* whatever failed, crashed or was rebuilt concurrently.
NoInvalidationLost ==
    \A c \in Written \ live.has : row.dirty \/ Announces(writer[c], c)

\* Readers never meet an empty or half-built cache, even when two owners poll,
\* rebuilds fail half way, and statements outlive the session that sent them.
ReadersSeeWholeTables == live.whole

\* A published ranking is never replaced by one computed from older data.
RankingsNeverGoBack == [][live.has \subseteq live'.has]_vars

\* rebuild_points_ranks.sh reports success only when the ranking in place was
\* computed from everything that was committed when the script asked.
ScriptSeesItsRebuild == script.waits /\ ~row.dirty => script.for \subseteq live.has

\* Once the database stops failing, a committed change reaches the readers,
\* however often new marks renew the debounce, whichever daemon wrote it, and
\* across the failures and crashes before.
ChangesArePublished == \A c \in Changes : (c \in Written) ~> (c \in live.has)
=============================================================================
