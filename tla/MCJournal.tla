----------------------------- MODULE MCJournal -----------------------------
(* Small instance of Journal: three inodes (the journal, the file it       *)
(* replaced while the directory is not synced, the replacement being       *)
(* written), two ids, room for two, and a window shorter than the ids.     *)
EXTENDS Journal, TLC

InodeSymmetry == Permutations(Inodes)
=============================================================================
