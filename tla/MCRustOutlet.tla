---------------------------- MODULE MCRustOutlet ----------------------------
(* Small instances of RustOutlet: three writes are enough for one in flight,  *)
(* one queued behind it and one kept local; two sockets for a session and its *)
(* successor.                                                                 *)
EXTENDS RustOutlet, TLC

CONSTANTS la, lb

\* The last write belongs to another lane.
MCLaneOf == [w \in Writes |-> IF w = 3 THEN lb ELSE la]

OutletSymmetry == Permutations(Sockets) \cup Permutations(BatchIds)
=============================================================================
