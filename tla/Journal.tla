------------------------------ MODULE Journal ------------------------------
(***************************************************************************)
(* The journal file of the Rust daemon: appends of pending and completion  *)
(* lines that are synced or rolled back, compaction by a replacement file  *)
(* that is renamed over the journal, a process crash between any two       *)
(* system calls, a power loss that also drops whatever was not synced, and *)
(* the recovery read at the next start.                                    *)
(*                                                                         *)
(* A file is an inode holding a sequence of lines.  path is the inode the  *)
(* journal's name refers to now, durable the one it refers to after a      *)
(* power loss, synced how many lines of an inode are safe.                 *)
(***************************************************************************)
EXTENDS JournalState, FiniteSets

CONSTANTS
    Ids,            \* event ids
    Inodes,         \* files on the disk; three are live at most
    NoInode,
    MaxRows,        \* max_rows of read_state, and of admission
    MinLines,       \* minimum_bytes of compact, counted in lines
    MaxLines,       \* bound on the length of a file
    DirSyncFails,   \* whether sync_parent can fail after a rename
    MaxCrashes      \* bound on crashes in a behaviour

ASSUME JournalAssumption ==
    /\ NoInode \notin Inodes
    /\ MaxRows \in Nat
    /\ MinLines \in Nat \ {0}
    /\ MaxLines \in Nat
    /\ DirSyncFails \in BOOLEAN
    /\ MaxCrashes \in Nat

VARIABLES
    content,    \* lines of each inode
    synced,     \* per inode: the lines a power loss cannot take away
    path,       \* inode the journal's name refers to
    durable,    \* inode its name refers to after a power loss
    handle,     \* inode the process appends to, NoInode when it is down
    op,         \* the call that holds the journal mutex
    owned,      \* environment: ids admitted and not retired by the process
    promised,   \* history: the state all successful appends add up to
    detached,   \* history: a directory sync was given up, none has succeeded since
    crashes     \* history: crashes so far

vars == <<content, synced, path, durable, handle, op, owned, promised, detached,
          crashes>>

files == <<content, synced, path, durable>>

Pending(i) == [kind |-> "pending", id |-> i]
Done(i) == [kind |-> "done", id |-> i]

\* The last line of a file whose writer died in the middle of it.
Torn == [kind |-> "torn"]

----------------------------------------------------------------------------
(* read_state                                                              *)

Empty == [pend |-> <<>>, done |-> <<>>, ok |-> TRUE]

\* One line of the file; ok becomes FALSE where read_state returns an error.
ReadLine(s, line) ==
    IF ~s.ok \/ line = Torn THEN [s EXCEPT !.ok = FALSE]
    ELSE IF line.kind = "done" THEN PutDone(s, line.id)
    ELSE IF line.id \notin ToSet(s.done) \cup ToSet(s.pend) /\ Len(s.pend) >= MaxRows
    THEN [s EXCEPT !.ok = FALSE]
    ELSE PutPending(s, line.id)

\* From state s on, line by line.
ReadOn(s, lines) ==
    LET after[n \in 0 .. Len(lines)] ==
            IF n = 0 THEN s ELSE ReadLine(after[n - 1], lines[n])
    IN  after[Len(lines)]

ReadState(lines) == ReadOn(Empty, lines)

\* Defect variant of Rewritten: pending events in another order than the journal's.
RewrittenReversed(s) ==
    [k \in DOMAIN s.pend |-> Pending(Reverse(s.pend)[k])]
      \o [k \in DOMAIN s.done |-> Done(s.done[k])]

\* What compact writes to the replacement.
Rewritten(s) ==
    [k \in DOMAIN s.pend |-> Pending(s.pend[k])]
      \o [k \in DOMAIN s.done |-> Done(s.done[k])]

\* Files that are no longer named, written or possibly restored are gone.
KeepOnly(S, files_) == [f \in Inodes |-> IF f \in S THEN files_[f] ELSE <<>>]

SafeOnly(S, lens) == [f \in Inodes |-> IF f \in S THEN lens[f] ELSE 0]

----------------------------------------------------------------------------
NoCall == [call |-> "none", todo |-> <<>>, all |-> <<>>, before |-> 0,
           temp |-> NoInode]

Init ==
    /\ content = [f \in Inodes |-> <<>>]
    /\ synced = [f \in Inodes |-> 0]
    /\ path \in Inodes
    /\ durable = path
    /\ handle = NoInode
    /\ op = NoCall
    /\ owned = {}
    /\ promised = Empty
    /\ detached = FALSE
    /\ crashes = 0

\* Journal::open syncs the file and its directory entry, SqlSink::replay reads
\* it and fails closed; with it the process starts.
Open ==
    LET s == ReadState(content[path])
    IN /\ handle = NoInode
       /\ s.ok
       /\ handle' = path
       /\ content' = KeepOnly({path}, content)
       /\ synced' = SafeOnly({path}, [synced EXCEPT ![path] = Len(content[path])])
       /\ durable' = path
       /\ owned' = ToSet(s.pend)
       /\ promised' = s
       /\ detached' = FALSE
       /\ UNCHANGED <<path, op, crashes>>

\* A torn last line keeps the daemon down until the operator removes it.
Repair ==
    LET lines == content[path]
    IN /\ handle = NoInode
       /\ lines # <<>>
       /\ Last(lines) = Torn
       /\ content' = [content EXCEPT ![path] = Front(lines)]
       /\ synced' = [synced EXCEPT ![path] = Len(lines) - 1]
       /\ UNCHANGED <<path, durable, handle, op, owned, promised, detached, crashes>>

----------------------------------------------------------------------------
(* append_pending and append_done                                          *)

BeginAppend(lines) ==
    /\ handle # NoInode
    /\ op = NoCall
    /\ Len(content[handle]) + Len(lines) <= MaxLines
    /\ op' = [NoCall EXCEPT !.call = "append", !.todo = lines, !.all = lines,
                            !.before = Len(content[handle])]
    /\ UNCHANGED <<files, handle, promised, detached, crashes>>

\* Callers append events they have just been admitted with ...
AppendPending(s) ==
    /\ s # <<>>
    /\ IsInjective(s)
    /\ ToSet(s) \cap owned = {}
    /\ Cardinality(owned) + Len(s) <= MaxRows
    /\ BeginAppend([k \in DOMAIN s |-> Pending(s[k])])
    /\ owned' = owned \cup ToSet(s)

\* ... and completions of events whose permits they still hold.
AppendDone(s) ==
    /\ s # <<>>
    /\ IsInjective(s)
    /\ ToSet(s) \subseteq owned
    /\ BeginAppend([k \in DOMAIN s |-> Done(s[k])])
    /\ UNCHANGED owned

WriteLine ==
    /\ op.call = "append"
    /\ op.todo # <<>>
    /\ content' = [content EXCEPT ![handle] = Append(@, Head(op.todo))]
    /\ op' = [op EXCEPT !.todo = Tail(@)]
    /\ UNCHANGED <<synced, path, durable, handle, owned, promised, detached, crashes>>

\* sync_data succeeds, the append is acknowledged; completed events are
\* retired by the caller.
AppendSynced ==
    /\ op.call = "append"
    /\ op.todo = <<>>
    /\ synced' = [synced EXCEPT ![handle] = Len(content[handle])]
    /\ promised' = ReadOn(promised, op.all)
    /\ owned' = owned \ {line.id : line \in
                           {x \in ToSet(op.all) : x.kind = "done"}}
    /\ op' = NoCall
    /\ UNCHANGED <<content, path, durable, handle, detached, crashes>>

\* The write or the sync fails: set_len(before) and sync_data.  The permits of
\* a pending batch are given back.
AppendFails ==
    /\ op.call = "append"
    /\ content' = [content EXCEPT ![handle] = SubSeq(@, 1, op.before)]
    /\ synced' = [synced EXCEPT ![handle] = op.before]
    /\ owned' = owned \ {line.id : line \in
                           {x \in ToSet(op.all) : x.kind = "pending"}}
    /\ op' = NoCall
    /\ UNCHANGED <<path, durable, handle, promised, detached, crashes>>

----------------------------------------------------------------------------
(* compact                                                                 *)

\* The journal is long enough and can be read: a replacement is created.
BeginCompact ==
    LET s == ReadState(content[path])
    IN /\ handle # NoInode
       /\ op = NoCall
       /\ Len(content[handle]) >= MinLines
       /\ s.ok
       /\ \E f \in Inodes \ {path, durable, handle} :
            /\ op' = [NoCall EXCEPT !.call = "rewrite", !.temp = f,
                                    !.todo = Rewritten(s), !.all = Rewritten(s)]
            /\ content' = [content EXCEPT ![f] = <<>>]
            /\ synced' = [synced EXCEPT ![f] = 0]
       /\ UNCHANGED <<path, durable, handle, owned, promised, detached, crashes>>

\* BufWriter hands the replacement's lines to the file.
RewriteLine ==
    /\ op.call = "rewrite"
    /\ op.todo # <<>>
    /\ content' = [content EXCEPT ![op.temp] = Append(@, Head(op.todo))]
    /\ op' = [op EXCEPT !.todo = Tail(@)]
    /\ UNCHANGED <<synced, path, durable, handle, owned, promised, detached, crashes>>

\* Defect variant of SyncReplacement: renamed without having been synced.
SyncReplacementNever ==
    /\ op.call = "rewrite"
    /\ op.todo = <<>>
    /\ op' = [op EXCEPT !.call = "rename"]
    /\ UNCHANGED <<files, handle, owned, promised, detached, crashes>>

\* sync_all of the replacement.
SyncReplacement ==
    /\ op.call = "rewrite"
    /\ op.todo = <<>>
    /\ synced' = [synced EXCEPT ![op.temp] = Len(content[op.temp])]
    /\ op' = [op EXCEPT !.call = "rename"]
    /\ UNCHANGED <<content, path, durable, handle, owned, promised, detached, crashes>>

\* Defect variant of RenameReplacement: the old handle is kept.
RenameKeepsHandle ==
    /\ op.call = "rename"
    /\ path' = op.temp
    /\ op' = [op EXCEPT !.call = "syncdir"]
    /\ UNCHANGED <<content, synced, durable, handle, owned, promised, detached, crashes>>

\* The rename, and the handle the process appends to from now on.
RenameReplacement ==
    /\ op.call = "rename"
    /\ path' = op.temp
    /\ handle' = op.temp
    /\ op' = [op EXCEPT !.call = "syncdir"]
    /\ UNCHANGED <<content, synced, durable, owned, promised, detached, crashes>>

\* sync_parent: the compaction is complete, Ok(true).
SyncDirectory ==
    /\ op.call = "syncdir"
    /\ durable' = path
    /\ content' = KeepOnly({path}, content)
    /\ synced' = SafeOnly({path}, synced)
    /\ op' = NoCall
    /\ detached' = FALSE
    /\ UNCHANGED <<path, handle, owned, promised, crashes>>

\* Creation, a write, the sync or the rename fails: Err, the replacement is
\* removed.
RewriteFails ==
    /\ op.call \in {"rewrite", "rename"}
    /\ content' = [content EXCEPT ![op.temp] = <<>>]
    /\ synced' = [synced EXCEPT ![op.temp] = 0]
    /\ op' = NoCall
    /\ UNCHANGED <<path, durable, handle, owned, promised, detached, crashes>>

\* sync_parent fails: Err as well, but the name and the handle have moved.
SyncDirectoryFails ==
    /\ DirSyncFails
    /\ op.call = "syncdir"
    /\ content' = KeepOnly({path, durable}, content)
    /\ synced' = SafeOnly({path, durable}, synced)
    /\ op' = NoCall
    /\ detached' = TRUE
    /\ UNCHANGED <<path, durable, handle, owned, promised, crashes>>

----------------------------------------------------------------------------
(* Crashes                                                                 *)

Die ==
    /\ handle # NoInode
    /\ crashes < MaxCrashes
    /\ crashes' = crashes + 1
    /\ handle' = NoInode
    /\ op' = NoCall
    /\ owned' = {}
    /\ UNCHANGED promised

\* The process dies; the kernel keeps what was written, possibly part of the
\* line being written.
ProcessCrash ==
    /\ Die
    /\ LET kept == KeepOnly({path, durable}, content)
       IN content' \in {kept} \cup
            IF op.call = "append" /\ op.todo # <<>>
            THEN {[kept EXCEPT ![handle] = Append(@, Torn)]} ELSE {}
    /\ synced' = SafeOnly({path, durable}, synced)
    /\ UNCHANGED <<path, durable, detached>>

\* The machine dies: the name may or may not have moved, and of each file any
\* number of lines beyond the synced ones is left.
PowerLoss ==
    /\ Die
    /\ path' \in {path, durable}
    /\ durable' = path'
    /\ detached' = FALSE
    /\ \E n \in synced[path'] .. Len(content[path']) :
         /\ content' = KeepOnly({path'},
                         [content EXCEPT ![path'] = SubSeq(@, 1, n)])
         /\ synced' = SafeOnly({path'}, [synced EXCEPT ![path'] = n])

----------------------------------------------------------------------------
Appending ==
    \/ \E s \in BoundedSeq(Ids, MaxRows) : AppendPending(s) \/ AppendDone(s)
    \/ WriteLine
    \/ AppendSynced
    \/ AppendFails

Compacting ==
    \/ BeginCompact
    \/ RewriteLine
    \/ SyncReplacement
    \/ RenameReplacement
    \/ SyncDirectory
    \/ RewriteFails
    \/ SyncDirectoryFails

Next ==
    \/ Open
    \/ Repair
    \/ Appending
    \/ Compacting
    \/ ProcessCrash
    \/ PowerLoss

Spec == Init /\ [][Next]_vars

----------------------------------------------------------------------------
(* Properties                                                              *)

\* What the recovery after a crash now may read: any inode the name may refer
\* to, cut anywhere beyond what is synced.
Recoverable ==
    UNION {{ReadState(SubSeq(content[f], 1, n)) : n \in synced[f] .. Len(content[f])} :
             f \in {path, durable}}

\* What it may find: everything acknowledged, and some prefix of an append in
\* progress.
Acceptable ==
    {ReadOn(promised, SubSeq(op.all, 1, n)) :
        n \in IF op.call = "append" THEN 0 .. Len(op.all) ELSE {0}}

\* Whatever append_pending or append_done acknowledged is read back after a
\* process crash or a power loss at any moment: in the middle of an append, of
\* a rollback's aftermath, of a compaction, before or after its rename.  And
\* the recovery is never refused for lack of capacity.
AcknowledgedSurvives ==
    handle # NoInode => \A s \in Recoverable : s \in Acceptable /\ s.ok

\* The same unless the sync of a directory was given up.
AcknowledgedSurvivesAttached ==
    ~detached => AcknowledgedSurvives

\* The same for a crash of the process alone, where the kernel keeps what was
\* written; this holds even if a directory could not be synced.
AcknowledgedSurvivesCrash ==
    LET s == ReadState(content[path])
    IN  handle # NoInode => s \in Acceptable /\ s.ok

\* Compaction never changes what recovery reads: no pending event is dropped,
\* doubled, reordered or cancelled by a completion rewritten after it, and the
\* window of completed ids keeps its order.
ReplacementReadsTheSame ==
    [][RenameReplacement =>
         ReadState(content'[path']) = ReadState(content[path])]_vars
=============================================================================
