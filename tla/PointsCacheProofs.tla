-------------------------- MODULE PointsCacheProofs --------------------------
(***************************************************************************)
(* No invalidation of the points cache is lost and readers never see a     *)
(* half-built or an older ranking, for every number of daemons, owners,    *)
(* changes and crashes.                                                    *)
(*                                                                         *)
(* The argument: the lock gives a rebuild to one session at a time, a live *)
(* one or one left on the server.  As long as its generation is current,   *)
(* no announcement has reached the database since the session looked at    *)
(* the row, so every change announced by then was committed before the     *)
(* INSERT and is in the table it built; that is what allows its UPDATE to  *)
(* declare the row clean.                                                  *)
(***************************************************************************)
EXTENDS PointsCache, TLAPS

\* What the database owes its readers: changes whose announcement is on record,
\* and those the rebuild script waits for.
Due ==
    {c \in Written : ~Announces(writer[c], c)}
      \cup (IF script.waits THEN script.for ELSE {})

\* What a session knows when it is about to send statement stmt.
Sound(stmt, isFresh) ==
    /\ stmt = "rename" => /\ build.whole
                          /\ live.has \subseteq build.has
                          /\ isFresh => Due \subseteq build.has
    /\ stmt = "clean" => (isFresh => Due \subseteq live.has)

Exclusive ==
    /\ \A d \in Daemons : stage[d] \in Locked => holder = d
    /\ orphan.stmt # "none" => holder = Orphan

SessionsSound ==
    /\ \A d \in Daemons : Sound(stage[d], fresh[d])
    /\ Sound(orphan.stmt, orphan.fresh)

FromCommitted ==
    /\ live.has \subseteq Written
    /\ build.has \subseteq Written
    /\ script.for \subseteq Written

CacheInv ==
    /\ TypeOK
    /\ Exclusive
    /\ SessionsSound
    /\ FromCommitted
    /\ ReadersSeeWholeTables
    /\ ~row.dirty => Due \subseteq live.has

----------------------------------------------------------------------------
LEMMA HorizonNat == Horizon \in Nat
  BY PointsCacheAssumption DEF Horizon

LEMMA InitCache == Init => CacheInv
  BY PointsCacheAssumption, HorizonNat
  DEF Init, CacheInv, TypeOK, Exclusive, SessionsSound, Sound, FromCommitted,
      ReadersSeeWholeTables, Due, Written, NoOrphan, Quiet, Empty, Table, Ages,
      Locked

\* An announcement on record makes the row dirty and every read generation old.
LEMMA TouchTypes ==
  ASSUME TypeOK, Touch
  PROVE  /\ row' \in [dirty : BOOLEAN, updated : Ages, since : Ages \cup {Unset}]
         /\ row'.dirty
         /\ fresh' \in [Daemons -> BOOLEAN]
         /\ \A d \in Daemons : ~fresh'[d]
         /\ orphan' \in [stmt : {"none"} \cup Locked, fresh : BOOLEAN]
         /\ orphan'.stmt = orphan.stmt /\ ~orphan'.fresh
<1>1. row' \in [dirty : BOOLEAN, updated : Ages, since : Ages \cup {Unset}] /\ row'.dirty
  <2>1. 0 \in Ages
    BY HorizonNat DEF Ages
  <2>2. row.since \in Ages \cup {Unset}
    BY DEF TypeOK
  <2> QED
    BY <2>1, <2>2 DEF Touch
<1>2. fresh' \in [Daemons -> BOOLEAN] /\ \A d \in Daemons : ~fresh'[d]
  BY DEF Touch
<1>3. /\ orphan' \in [stmt : {"none"} \cup Locked, fresh : BOOLEAN]
      /\ orphan'.stmt = orphan.stmt /\ ~orphan'.fresh
  BY DEF TypeOK, Touch
<1> QED
  BY <1>1, <1>2, <1>3

LEMMA StepTypes == TypeOK /\ [Next]_vars => TypeOK'
<1> SUFFICES ASSUME TypeOK, [Next]_vars PROVE TypeOK'
  OBVIOUS
<1> USE PointsCacheAssumption, HorizonNat
<1>1. ASSUME NEW d \in Daemons, NEW c \in Changes, Commit(d, c) \/ MarkDirty(d, c)
      PROVE  TypeOK'
  <2>1. CASE Commit(d, c)
    <3>1. unmarked' \in [Daemons -> SUBSET Changes]
      BY <2>1 DEF TypeOK, Commit
    <3>2. writer' \in [Changes -> Daemons \cup {Nobody}]
      BY <2>1 DEF TypeOK, Commit
    <3> QED
      BY <2>1, <3>1, <3>2 DEF TypeOK, Commit
  <2>2. CASE MarkDirty(d, c)
    <3>1. unmarked' \in [Daemons -> SUBSET Changes]
      BY <2>2 DEF TypeOK, MarkDirty
    <3>2. pending' \in [Daemons -> BOOLEAN]
      BY <2>2 DEF TypeOK, MarkDirty
    <3> QED
      BY <2>2, <3>1, <3>2 DEF TypeOK, MarkDirty
  <2> QED
    BY <1>1, <2>1, <2>2
<1>2. ASSUME NEW d \in Daemons, MarkAgain(d) \/ SwapPending(d) \/ SkipTouch(d)
      PROVE  TypeOK'
  <2>1. pending' \in [Daemons -> BOOLEAN]
    BY <1>2 DEF TypeOK, MarkAgain, SwapPending, SkipTouch
  <2>2. stage' \in [Daemons -> {"touch", "persist", "probe", "lock"} \cup Locked]
    BY <1>2 DEF TypeOK, MarkAgain, SwapPending, SkipTouch, Goto
  <2>3. UNCHANGED <<up, unmarked, fresh, holder, orphan, row, build, live, writer,
                    script, crashes>>
    BY <1>2 DEF MarkAgain, SwapPending, SkipTouch
  <2> QED
    BY <2>1, <2>2, <2>3 DEF TypeOK
<1>3. ASSUME NEW d \in Daemons, Persist(d) \/ PersistFails(d)
      PROVE  TypeOK'
  <2>1. pending' \in [Daemons -> BOOLEAN]
    BY <1>3 DEF TypeOK, Persist, PersistFails
  <2>2. stage' \in [Daemons -> {"touch", "persist", "probe", "lock"} \cup Locked]
    BY <1>3 DEF TypeOK, Persist, PersistFails, Goto, NextTurn
  <2>3. UNCHANGED <<up, unmarked, holder, build, live, writer, script, crashes>>
    BY <1>3 DEF Persist, PersistFails
  <2>4. CASE Touch
    BY <2>1, <2>2, <2>3, <2>4, TouchTypes DEF TypeOK
  <2>5. CASE UNCHANGED <<row, fresh, orphan>>
    BY <2>1, <2>2, <2>3, <2>5 DEF TypeOK
  <2> QED
    BY <1>3, <2>4, <2>5 DEF Persist, PersistFails
<1>4. ASSUME NEW d \in Daemons,
             ProbeDue(d) \/ ProbeNotDue(d) \/ TakeLock(d) \/ NoLock(d)
               \/ StatementFails(d) \/ Release(d)
      PROVE  TypeOK'
  <2>1. stage' \in [Daemons -> {"touch", "persist", "probe", "lock"} \cup Locked]
    BY <1>4 DEF TypeOK, ProbeDue, ProbeNotDue, TakeLock, NoLock, StatementFails,
                Release, Goto, Locked
  <2>2. fresh' \in [Daemons -> BOOLEAN]
    BY <1>4 DEF TypeOK, ProbeDue, ProbeNotDue, TakeLock, NoLock, StatementFails,
                Release
  <2> QED
    BY <1>4, <2>1, <2>2 DEF TypeOK, ProbeDue, ProbeNotDue, TakeLock, NoLock,
                            StatementFails, Release
<1>5. ASSUME NEW d \in Daemons, Reread(d)
      PROVE  TypeOK'
  <2>1. Eligible \in BOOLEAN
    BY DEF TypeOK, Eligible
  <2> QED
    BY <1>5, <2>1 DEF TypeOK, Reread, Goto, Locked
<1>6. ASSUME NEW d \in Daemons, LockLost(d) \/ LoseSession(d)
      PROVE  TypeOK'
  <2>1. stage' \in [Daemons -> {"touch", "persist", "probe", "lock"} \cup Locked]
    BY <1>6 DEF TypeOK, LockLost, LoseSession, Goto
  <2>2. fresh' \in [Daemons -> BOOLEAN]
    BY <1>6 DEF TypeOK, LockLost, LoseSession
  <2>3. orphan' \in [stmt : {"none"} \cup Locked, fresh : BOOLEAN]
    <3>1. CASE LockLost(d)
      BY <3>1 DEF TypeOK, LockLost, Locked
    <3>2. CASE LoseSession(d)
      <4>1. stage[d] \in Locked /\ fresh[d] \in BOOLEAN
        BY <3>2 DEF TypeOK, LoseSession
      <4> QED
        BY <3>2, <4>1 DEF LoseSession, LeaveSession
    <3> QED
      BY <1>6, <3>1, <3>2
  <2> QED
    BY <1>6, <2>1, <2>2, <2>3
    DEF TypeOK, LockLost, LoseSession, LeaveSession
<1>7. ASSUME NEW stmt, NEW isFresh, Run(stmt, isFresh)
      PROVE  /\ build' \in Table /\ live' \in Table
             /\ row' \in [dirty : BOOLEAN, updated : Ages, since : Ages \cup {Unset}]
  <2>1. CASE Clear \/ Fill \/ Swap
    <3>1. Empty \in Table /\ [whole |-> TRUE, has |-> Written] \in Table
      BY DEF Empty, Table, Written
    <3> QED
      BY <2>1, <3>1 DEF TypeOK, Clear, Fill, Swap
  <2>2. CASE CleanRow(isFresh)
    BY <2>2 DEF TypeOK, CleanRow
  <2> QED
    BY <1>7, <2>1, <2>2 DEF Run
<1>8. ASSUME NEW d \in Daemons, Statement(d)
      PROVE  TypeOK'
  <2>1. After[stage[d]] \in Locked /\ stage'\in [Daemons -> {"touch", "persist", "probe", "lock"} \cup Locked]
    BY <1>8 DEF TypeOK, Statement, After, Goto, Locked
  <2> QED
    BY <1>7, <1>8, <2>1 DEF TypeOK, Statement
<1>9. ASSUME OrphanRuns PROVE TypeOK'
  BY <1>7, <1>9 DEF TypeOK, OrphanRuns, Locked
<1>10. ASSUME OrphanEnds PROVE TypeOK'
  BY <1>10 DEF TypeOK, OrphanEnds, NoOrphan
<1>11. ASSUME Tick PROVE TypeOK'
  <2>1. \A a \in Ages : Older(a) \in Ages
    BY DEF Older, Ages
  <2>2. row' \in [dirty : BOOLEAN, updated : Ages, since : Ages \cup {Unset}]
    BY <1>11, <2>1 DEF TypeOK, Tick
  <2> QED
    BY <1>11, <2>2 DEF TypeOK, Tick
<1>12. ASSUME NEW d \in Daemons, Crash(d) PROVE TypeOK'
  BY <1>12 DEF TypeOK, Crash, Goto, LeaveSession
<1>13. ASSUME NEW d \in Daemons, Start(d) PROVE TypeOK'
  BY <1>13 DEF TypeOK, Start
<1>14. ASSUME ScriptAsks PROVE TypeOK'
  BY <1>14, TouchTypes DEF TypeOK, ScriptAsks, Written
<1>15. ASSUME ScriptEnds PROVE TypeOK'
  BY <1>15 DEF TypeOK, ScriptEnds, Quiet
<1>16. ASSUME UNCHANGED vars PROVE TypeOK'
  BY <1>16 DEF TypeOK, vars
<1> QED
  BY <1>1, <1>2, <1>3, <1>4, <1>5, <1>6, <1>8, <1>9, <1>10, <1>11, <1>12,
     <1>13, <1>14, <1>15, <1>16 DEF Next, CacheWorker

----------------------------------------------------------------------------
\* Only an announcement reaching the database adds to what it owes; with it the
\* row becomes dirty and every generation read before it stale.
LEMMA DueStep ==
  ASSUME TypeOK, [Next]_vars
  PROVE  \/ Due' \subseteq Due
         \/ row'.dirty /\ (\A d \in Daemons : ~fresh'[d]) /\ ~orphan'.fresh
<1> DEFINE Goal == \/ Due' \subseteq Due
                   \/ row'.dirty /\ (\A d \in Daemons : ~fresh'[d]) /\ ~orphan'.fresh
<1> SUFFICES Goal
  OBVIOUS
<1> USE PointsCacheAssumption
<1>1. ASSUME Touch PROVE Goal
  BY <1>1, TouchTypes
<1>2. ASSUME NEW d \in Daemons, NEW c \in Changes, Commit(d, c)
      PROVE  Goal
  <2>1. \A x \in Written' : x = c \/ (x \in Written /\ writer'[x] = writer[x])
    BY <1>2 DEF TypeOK, Commit, Written
  <2>2. c \in unmarked'[d] /\ writer'[c] = d
    BY <1>2 DEF TypeOK, Commit
  <2>3. \A e \in Daemons, x \in Changes : Announces(e, x) => Announces(e, x)'
    BY <1>2 DEF TypeOK, Commit, Announces
  <2>4. Announces(writer[c], c)'
    BY <2>2 DEF Announces
  <2>5. \A x \in Written : writer[x] \in Daemons /\ x \in Changes
    BY DEF TypeOK, Written
  <2>6. script' = script
    BY <1>2 DEF Commit
  <2> QED
    BY <2>1, <2>3, <2>4, <2>5, <2>6 DEF Due
<1>3. ASSUME UNCHANGED <<writer, script>>,
             \A e \in Daemons, x \in Changes : Announces(e, x) => Announces(e, x)'
      PROVE  Goal
  <2>1. \A x \in Written : writer[x] \in Daemons /\ x \in Changes
    BY DEF TypeOK, Written
  <2>2. Written' = Written
    BY <1>3 DEF Written
  <2> QED
    BY <1>3, <2>1, <2>2 DEF Due
<1>4. ASSUME NEW d \in Daemons, NEW c \in Changes, MarkDirty(d, c) PROVE Goal
  BY <1>3, <1>4 DEF TypeOK, MarkDirty, Announces
<1>5. ASSUME NEW d \in Daemons,
             MarkAgain(d) \/ SwapPending(d) \/ SkipTouch(d) \/ ProbeDue(d)
               \/ ProbeNotDue(d) \/ TakeLock(d) \/ NoLock(d) \/ LockLost(d)
      PROVE  Goal
  BY <1>3, <1>5 DEF TypeOK, MarkAgain, SwapPending, SkipTouch, ProbeDue,
                    ProbeNotDue, TakeLock, NoLock, LockLost, Goto, Announces
<1>6. ASSUME NEW d \in Daemons, PersistFails(d) PROVE Goal
  BY <1>3, <1>6 DEF TypeOK, PersistFails, Goto, Announces
<1>7. ASSUME NEW d \in Daemons,
             Reread(d) \/ Statement(d) \/ StatementFails(d) \/ Release(d)
               \/ LoseSession(d)
      PROVE  Goal
  <2>1. UNCHANGED <<writer, script, up, pending, unmarked>> /\ stage[d] # "persist"
    BY <1>7 DEF Reread, Statement, StatementFails, Release, LoseSession, After,
                Locked
  <2>2. \A e \in Daemons : stage[e] = "persist" => stage'[e] = "persist"
    BY <1>7, <2>1 DEF TypeOK, Reread, Statement, StatementFails, Release,
                      LoseSession, Goto
  <2> QED
    BY <1>3, <2>1, <2>2 DEF Announces
<1>8. ASSUME OrphanRuns \/ OrphanEnds \/ Tick \/ UNCHANGED vars PROVE Goal
  BY <1>3, <1>8 DEF OrphanRuns, OrphanEnds, Tick, vars, Announces
<1>9. ASSUME NEW d \in Daemons, Crash(d) \/ Start(d) PROVE Goal
  <2>1. \A e \in Daemons, x \in Changes : Announces(e, x) => Announces(e, x)'
    <3> TAKE e \in Daemons, x \in Changes
    <3>1. CASE e = d
      BY <1>9, <3>1 DEF TypeOK, Crash, Start, Announces
    <3>2. CASE e # d
      BY <1>9, <3>2 DEF TypeOK, Crash, Start, Goto, Announces
    <3> QED
      BY <3>1, <3>2
  <2> QED
    BY <1>3, <1>9, <2>1 DEF Crash, Start
<1>10. ASSUME ScriptEnds PROVE Goal
  <2>1. \A e \in Daemons, x \in Changes : Announces(e, x) = Announces(e, x)'
    BY <1>10 DEF ScriptEnds, Announces
  <2>2. \A x \in Written : writer[x] \in Daemons /\ x \in Changes
    BY DEF TypeOK, Written
  <2>3. Written' = Written /\ writer' = writer /\ ~script'.waits
    BY <1>10 DEF ScriptEnds, Written, Quiet
  <2> QED
    BY <2>1, <2>2, <2>3 DEF Due
<1> HIDE DEF Goal
<1> QED
  BY <1>1, <1>2, <1>4, <1>5, <1>6, <1>7, <1>8, <1>9, <1>10
  DEF Next, CacheWorker, Persist, ScriptAsks

----------------------------------------------------------------------------
\* One session at a time is inside the lock.
LEMMA ExclusiveStep == TypeOK /\ Exclusive /\ [Next]_vars => Exclusive'
<1> SUFFICES ASSUME TypeOK, Exclusive, [Next]_vars PROVE Exclusive'
  OBVIOUS
<1> USE PointsCacheAssumption DEF Exclusive
<1>1. ASSUME UNCHANGED holder, orphan'.stmt = orphan.stmt,
             \A d \in Daemons : stage'[d] \in Locked => stage[d] \in Locked
      PROVE  Exclusive'
  BY <1>1
<1>2. ASSUME Touch PROVE orphan'.stmt = orphan.stmt
  BY <1>2, TouchTypes
<1>3. ASSUME NEW d \in Daemons,
             (\E c \in Changes : Commit(d, c) \/ MarkDirty(d, c)) \/ MarkAgain(d)
               \/ Start(d)
      PROVE  Exclusive'
  BY <1>1, <1>3 DEF Commit, MarkDirty, MarkAgain, Start
<1>4. ASSUME NEW d \in Daemons,
             SwapPending(d) \/ SkipTouch(d) \/ Persist(d) \/ PersistFails(d)
               \/ ProbeDue(d) \/ ProbeNotDue(d) \/ NoLock(d)
      PROVE  Exclusive'
  <2>1. orphan'.stmt = orphan.stmt /\ UNCHANGED holder
    BY <1>2, <1>4 DEF SwapPending, SkipTouch, Persist, PersistFails, ProbeDue,
                      ProbeNotDue, NoLock
  <2>2. \A e \in Daemons : stage'[e] \in Locked => stage[e] \in Locked
    BY <1>4 DEF TypeOK, SwapPending, SkipTouch, Persist, PersistFails, ProbeDue,
                ProbeNotDue, NoLock, Goto, NextTurn, Locked
  <2> QED
    BY <1>1, <2>1, <2>2
<1>5. ASSUME NEW d \in Daemons, TakeLock(d) PROVE Exclusive'
  BY <1>5 DEF TypeOK, TakeLock, Goto
<1>6. ASSUME NEW d \in Daemons, LockLost(d) PROVE Exclusive'
  BY <1>6 DEF TypeOK, LockLost, Goto, Locked
<1>7. ASSUME NEW d \in Daemons, Reread(d) \/ Statement(d) \/ StatementFails(d)
      PROVE  Exclusive'
  <2>1. stage[d] \in Locked /\ UNCHANGED <<holder, orphan>>
    BY <1>7 DEF Reread, Statement, StatementFails, After, Locked
  <2>2. \A e \in Daemons \ {d} : stage'[e] = stage[e]
    BY <1>7 DEF TypeOK, Reread, Statement, StatementFails, Goto
  <2> QED
    BY <2>1, <2>2
<1>8. ASSUME NEW d \in Daemons, Release(d) PROVE Exclusive'
  BY <1>8 DEF TypeOK, Release, Goto, Locked
<1>9. ASSUME NEW d \in Daemons, LoseSession(d) PROVE Exclusive'
  BY <1>9 DEF TypeOK, LoseSession, LeaveSession, Goto, Locked
<1>10. ASSUME OrphanRuns \/ OrphanEnds PROVE Exclusive'
  BY <1>10 DEF TypeOK, OrphanRuns, OrphanEnds, NoOrphan
<1>11. ASSUME Tick \/ ScriptAsks \/ ScriptEnds PROVE Exclusive'
  BY <1>1, <1>2, <1>11 DEF Tick, ScriptAsks, ScriptEnds
<1>12. ASSUME NEW d \in Daemons, Crash(d) PROVE Exclusive'
  BY <1>12 DEF TypeOK, Crash, LeaveSession, Goto, Locked
<1>13. ASSUME UNCHANGED vars PROVE Exclusive'
  BY <1>13 DEF vars
<1> QED
  BY <1>3, <1>4, <1>5, <1>6, <1>7, <1>8, <1>9, <1>10, <1>11, <1>12, <1>13
  DEF Next, CacheWorker

\* Nobody but the session inside the lock writes the two tables or cleans the row.
LEMMA TablesStep ==
  ASSUME CacheInv, TypeOK', [Next]_vars,
         UNCHANGED <<build, live>>, row'.dirty \/ UNCHANGED row.dirty,
         \A d \in Daemons : \/ stage'[d] \notin {"rename", "clean"}
                            \/ stage'[d] = stage[d] /\ (fresh'[d] => fresh[d]),
         \/ orphan'.stmt \notin {"rename", "clean"}
         \/ orphan'.stmt = orphan.stmt /\ (orphan'.fresh => orphan.fresh)
         \/ \E d \in Daemons : orphan'.stmt = stage[d] /\ orphan'.fresh = fresh[d]
  PROVE  SessionsSound' /\ ReadersSeeWholeTables' /\ (~row'.dirty => Due' \subseteq live'.has)
<1> USE DEF CacheInv, SessionsSound, Sound, ReadersSeeWholeTables
<1>1. CASE Due' \subseteq Due
  BY <1>1
<1>2. CASE row'.dirty /\ (\A d \in Daemons : ~fresh'[d]) /\ ~orphan'.fresh
  BY <1>2
<1> QED
  BY <1>1, <1>2, DueStep

LEMMA CacheStep == CacheInv /\ [Next]_vars => CacheInv'
<1> SUFFICES ASSUME CacheInv, [Next]_vars PROVE CacheInv'
  OBVIOUS
<1> USE PointsCacheAssumption
<1>1. TypeOK' /\ Exclusive' /\ TypeOK /\ Exclusive
  BY StepTypes, ExclusiveStep DEF CacheInv
<1>2. Written \subseteq Written'
  <2>1. \A c \in Changes : writer[c] # Nobody => writer'[c] # Nobody
    BY <1>1 DEF Next, CacheWorker, vars, TypeOK, Commit, MarkDirty, MarkAgain,
         SwapPending, SkipTouch, Persist, PersistFails, ProbeDue, ProbeNotDue,
         TakeLock, NoLock, LockLost, Reread, Statement, StatementFails, Release,
         LoseSession, OrphanRuns, OrphanEnds, Tick, Crash, Start, ScriptAsks,
         ScriptEnds
  <2> QED
    BY <2>1 DEF Written
<1>3. Due \subseteq Written
  BY DEF CacheInv, FromCommitted, Due
\* What the server does for the session that is alone in the lock.
<1>4. ASSUME NEW stmt, NEW isFresh \in BOOLEAN, Run(stmt, isFresh),
             Sound(stmt, isFresh), UNCHANGED <<writer, script>>
      PROVE  /\ FromCommitted' /\ ReadersSeeWholeTables'
             /\ ~row'.dirty => Due' \subseteq live'.has
             /\ \A next \in Locked, f \in BOOLEAN :
                  (f => isFresh) /\ (next \in {"rename", "clean"} => next = After[stmt])
                    /\ (row'.dirty /\ ~(Due' \subseteq Due) => ~f)
                  => Sound(next, f)'
  <2>1. Written' = Written
    BY <1>4 DEF Written
  <2>2. Due' \subseteq Due \/ row'.dirty
    BY <1>1, DueStep
  <2>3. CASE stmt = "clear" /\ Clear
    BY <1>4, <2>1, <2>2, <2>3
    DEF CacheInv, FromCommitted, ReadersSeeWholeTables, Clear, Empty, After, Sound
  <2>4. CASE stmt = "insert" /\ Fill
    BY <1>3, <1>4, <2>1, <2>2, <2>4
    DEF CacheInv, FromCommitted, ReadersSeeWholeTables, Fill, After, Sound
  <2>5. CASE stmt = "rename" /\ Swap
    BY <1>4, <2>1, <2>2, <2>5
    DEF CacheInv, FromCommitted, ReadersSeeWholeTables, Swap, After, Sound
  <2>6. CASE stmt = "clean" /\ CleanRow(isFresh)
    <3>1. live' = live /\ build' = build
      BY <2>6 DEF CleanRow
    <3>2. CASE isFresh
      <4>1. ~row'.dirty
        BY <1>1, <2>6, <3>2 DEF CleanRow, TypeOK
      <4> QED
        BY <1>4, <2>1, <2>2, <2>6, <3>1, <3>2, <4>1
        DEF CacheInv, FromCommitted, ReadersSeeWholeTables, After, Sound
    <3>3. CASE ~isFresh
      <4>1. row' = row
        BY <2>6, <3>3 DEF CleanRow
      <4> QED
        BY <1>4, <2>1, <2>2, <2>6, <3>1, <3>3, <4>1
        DEF CacheInv, FromCommitted, ReadersSeeWholeTables, After, Sound
    <3> QED
      BY <3>2, <3>3
  <2> QED
    BY <1>4, <2>3, <2>4, <2>5, <2>6 DEF Run
\* Steps outside the lock.
<1>5. ASSUME UNCHANGED <<build, live>>,
             script'.for \subseteq Written,
             row'.dirty \/ UNCHANGED row,
             \A d \in Daemons : \/ stage'[d] \notin {"rename", "clean"}
                                \/ stage'[d] = stage[d] /\ (fresh'[d] => fresh[d]),
             \/ orphan'.stmt \notin {"rename", "clean"}
             \/ orphan'.stmt = orphan.stmt /\ (orphan'.fresh => orphan.fresh)
             \/ \E d \in Daemons : orphan'.stmt = stage[d] /\ orphan'.fresh = fresh[d]
      PROVE  CacheInv'
  <2>1. FromCommitted'
    BY <1>2, <1>5 DEF CacheInv, FromCommitted
  <2> QED
    BY <1>1, <1>5, <2>1, TablesStep DEF CacheInv
<1>6. ASSUME Touch
      PROVE  /\ row'.dirty /\ orphan'.stmt = orphan.stmt /\ ~orphan'.fresh
             /\ \A d \in Daemons : ~fresh'[d]
  BY <1>1, <1>6, TouchTypes
<1>7. script.for \subseteq Written
  BY DEF CacheInv, FromCommitted
<1>8. ASSUME NEW d \in Daemons,
             (\E c \in Changes : Commit(d, c) \/ MarkDirty(d, c)) \/ MarkAgain(d)
               \/ Start(d)
      PROVE  CacheInv'
  BY <1>5, <1>7, <1>8 DEF Commit, MarkDirty, MarkAgain, Start
<1>9. ASSUME NEW d \in Daemons,
             SwapPending(d) \/ SkipTouch(d) \/ ProbeDue(d) \/ ProbeNotDue(d)
               \/ TakeLock(d) \/ NoLock(d) \/ StatementFails(d)
      PROVE  CacheInv'
  <2>1. \A e \in Daemons : stage'[e] \notin {"rename", "clean"} \/ stage'[e] = stage[e]
    BY <1>1, <1>9 DEF TypeOK, SwapPending, SkipTouch, ProbeDue, ProbeNotDue,
                      TakeLock, NoLock, StatementFails, Goto
  <2>2. UNCHANGED <<build, live, script, row, fresh, orphan>>
    BY <1>9 DEF SwapPending, SkipTouch, ProbeDue, ProbeNotDue, TakeLock, NoLock,
                StatementFails
  <2> QED
    BY <1>5, <1>7, <2>1, <2>2
<1>10. ASSUME NEW d \in Daemons, Persist(d) \/ PersistFails(d)
       PROVE  CacheInv'
  <2>1. \A e \in Daemons : stage'[e] \notin {"rename", "clean"} \/ stage'[e] = stage[e]
    BY <1>1, <1>10 DEF TypeOK, Persist, PersistFails, Goto, NextTurn
  <2>2. UNCHANGED <<build, live, script>> /\ (Touch \/ UNCHANGED <<row, fresh, orphan>>)
    BY <1>10 DEF Persist, PersistFails
  <2> QED
    BY <1>5, <1>6, <1>7, <2>1, <2>2
<1>11. ASSUME NEW d \in Daemons, LockLost(d) \/ Reread(d) \/ Release(d)
       PROVE  CacheInv'
  <2>1. \A e \in Daemons :
           \/ stage'[e] \notin {"rename", "clean"}
           \/ stage'[e] = stage[e] /\ fresh'[e] = fresh[e]
    BY <1>1, <1>11 DEF TypeOK, LockLost, Reread, Release, Goto
  <2>2. UNCHANGED <<build, live, script, row>>
        /\ (orphan'.stmt = "release" \/ UNCHANGED orphan)
    BY <1>11 DEF LockLost, Reread, Release
  <2> QED
    BY <1>5, <1>7, <2>1, <2>2
<1>12. ASSUME NEW d \in Daemons, LoseSession(d) \/ Crash(d)
       PROVE  CacheInv'
  <2>1. \A e \in Daemons :
           \/ stage'[e] \notin {"rename", "clean"}
           \/ stage'[e] = stage[e] /\ fresh'[e] = fresh[e]
    BY <1>1, <1>12 DEF TypeOK, LoseSession, Crash, Goto
  <2>2. UNCHANGED <<build, live, script, row>>
        /\ (orphan' = [stmt |-> stage[d], fresh |-> fresh[d]] \/ UNCHANGED orphan)
    BY <1>12 DEF LoseSession, Crash, LeaveSession
  <2> QED
    BY <1>5, <1>7, <2>1, <2>2
<1>13. ASSUME NEW d \in Daemons, Statement(d)
       PROVE  CacheInv'
  <2>1. /\ stage[d] \in DOMAIN After /\ Run(stage[d], fresh[d])
        /\ UNCHANGED <<fresh, orphan, writer, script>>
        /\ fresh[d] \in BOOLEAN /\ Sound(stage[d], fresh[d])
    BY <1>1, <1>13 DEF Statement, TypeOK, CacheInv, SessionsSound
  <2>2. stage'[d] = After[stage[d]]
        /\ \A e \in Daemons \ {d} : stage'[e] = stage[e]
    BY <1>1, <1>13 DEF Statement, Goto, TypeOK
  <2>3. /\ holder = d /\ orphan.stmt = "none"
        /\ \A e \in Daemons \ {d} : stage[e] \notin Locked
    BY <1>1, <2>1 DEF Exclusive, After, Locked
  <2>4. Due' \subseteq Due \/ ~fresh[d]
    BY <1>1, <2>1, DueStep
  <2>5. Sound(stage[d], fresh[d])'
    <3>0. After[stage[d]] \in Locked
      BY <2>1 DEF After, Locked
    <3>1. PICK s \in Locked, f \in BOOLEAN : s = After[stage[d]] /\ f = fresh[d]
      BY <2>1, <3>0
    <3>2. Sound(s, f)'
      BY <1>4, <2>1, <2>4, <3>1
    <3> QED
      BY <2>1, <2>2, <3>1, <3>2 DEF Sound
  <2>6. \A e \in Daemons \ {d} : Sound(stage[e], fresh[e])'
    BY <2>2, <2>3 DEF Sound, Locked
  <2>7. Sound(orphan.stmt, orphan.fresh)'
    BY <2>1, <2>3 DEF Sound
  <2> QED
    BY <1>1, <1>4, <2>1, <2>2, <2>5, <2>6, <2>7 DEF CacheInv, SessionsSound
<1>14. ASSUME OrphanRuns PROVE CacheInv'
  <2>1. /\ holder = Orphan /\ Run(orphan.stmt, orphan.fresh)
        /\ orphan'.stmt = "release"
        /\ UNCHANGED <<stage, fresh, writer, script>>
        /\ orphan.fresh \in BOOLEAN /\ Sound(orphan.stmt, orphan.fresh)
    BY <1>1, <1>14 DEF OrphanRuns, TypeOK, CacheInv, SessionsSound
  <2>2. \A e \in Daemons : stage[e] \notin Locked
    BY <1>1, <2>1 DEF Exclusive
  <2>3. SessionsSound'
    BY <2>1, <2>2 DEF SessionsSound, Sound, Locked
  <2> QED
    BY <1>1, <1>4, <2>1, <2>3 DEF CacheInv
<1>15. ASSUME OrphanEnds \/ Tick \/ ScriptEnds PROVE CacheInv'
  <2>1. /\ UNCHANGED <<build, live, stage, fresh>> /\ script'.for \subseteq Written
        /\ orphan'.stmt = "none" \/ UNCHANGED orphan
        /\ UNCHANGED row.dirty
    <3>1. CASE OrphanEnds
      BY <1>7, <3>1 DEF OrphanEnds, NoOrphan
    <3>2. CASE Tick
      BY <1>1, <1>7, <3>2 DEF Tick, TypeOK
    <3>3. CASE ScriptEnds
      BY <3>3 DEF ScriptEnds, Quiet
    <3> QED
      BY <1>15, <3>1, <3>2, <3>3
  <2>2. FromCommitted'
    BY <1>2, <2>1 DEF CacheInv, FromCommitted
  <2> QED
    BY <1>1, <2>1, <2>2, TablesStep DEF CacheInv
<1>16. ASSUME ScriptAsks PROVE CacheInv'
  BY <1>5, <1>6, <1>16 DEF ScriptAsks
<1>17. ASSUME UNCHANGED vars PROVE CacheInv'
  BY <1>5, <1>7, <1>17 DEF vars
<1> QED
  BY <1>8, <1>9, <1>10, <1>11, <1>12, <1>13, <1>14, <1>15, <1>16, <1>17
  DEF Next, CacheWorker

----------------------------------------------------------------------------
LEMMA CacheAlways == Spec => []CacheInv
<1>1. CacheInv /\ [Next]_vars => CacheInv'
  BY CacheStep
<1> QED
  BY InitCache, <1>1, PTL DEF Spec

\* Every variable of the points cache keeps its type.
THEOREM CacheTypeOK == Spec => []TypeOK
<1>1. CacheInv => TypeOK
  BY DEF CacheInv
<1> QED
  BY CacheAlways, <1>1, PTL

\* No invalidation is lost: a committed change readers do not see is on record
\* or will be announced, for any number of daemons, owners, crashes, failures
\* and rebuilds.
THEOREM InvalidationsKept == Spec => []NoInvalidationLost
<1>1. CacheInv => NoInvalidationLost
  <2> SUFFICES ASSUME CacheInv, NEW c \in Written \ live.has, ~row.dirty
               PROVE  Announces(writer[c], c)
    BY DEF NoInvalidationLost
  <2> QED
    BY DEF CacheInv, Due
<1> QED
  BY CacheAlways, <1>1, PTL

\* The rebuild script never reports success for a ranking older than its request.
THEOREM ScriptNotMisled == Spec => []ScriptSeesItsRebuild
<1>1. CacheInv => ScriptSeesItsRebuild
  BY DEF CacheInv, Due, ScriptSeesItsRebuild
<1> QED
  BY CacheAlways, <1>1, PTL

\* Readers never meet a table that is empty or half built.
THEOREM TablesWhole == Spec => []ReadersSeeWholeTables
<1>1. CacheInv => ReadersSeeWholeTables
  BY DEF CacheInv
<1> QED
  BY CacheAlways, <1>1, PTL

\* A published ranking is only ever replaced by one computed from newer data.
THEOREM RankingsAdvance == Spec => RankingsNeverGoBack
<1>1. ASSUME CacheInv, [Next]_vars
      PROVE  live.has \subseteq live'.has
  <2>1. ASSUME NEW stmt, NEW isFresh, Run(stmt, isFresh), Sound(stmt, isFresh)
        PROVE  live.has \subseteq live'.has
    BY <2>1 DEF Run, Clear, Fill, Swap, CleanRow, Sound
  <2>2. ASSUME NEW d \in Daemons, Statement(d)
        PROVE  live.has \subseteq live'.has
    BY <1>1, <2>1, <2>2 DEF Statement, CacheInv, SessionsSound
  <2>3. ASSUME OrphanRuns
        PROVE  live.has \subseteq live'.has
    BY <1>1, <2>1, <2>3 DEF OrphanRuns, CacheInv, SessionsSound
  <2>4. ASSUME UNCHANGED live
        PROVE  live.has \subseteq live'.has
    BY <2>4
  <2> QED
    BY <1>1, <2>2, <2>3, <2>4 DEF Next, CacheWorker, vars, Commit, MarkDirty,
       MarkAgain, SwapPending, SkipTouch, Persist, PersistFails, ProbeDue,
       ProbeNotDue, TakeLock, NoLock, LockLost, Reread, StatementFails, Release,
       LoseSession, OrphanEnds, Tick, Crash, Start, ScriptAsks, ScriptEnds
<1> QED
  BY CacheAlways, <1>1, PTL DEF Spec, RankingsNeverGoBack
=============================================================================
