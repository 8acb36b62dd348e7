----------------------------- MODULE MCMatchLog -----------------------------
(* Small instances of MatchLog.                                            *)
EXTENDS MatchLog, TLC

Symmetric == Permutations(Players)
=============================================================================
