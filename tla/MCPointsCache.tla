--------------------------- MODULE MCPointsCache ---------------------------
(* A small instance of PointsCache: two daemons, as whaletracker-rust.sh    *)
(* starts them, both owners of the cache, so that rebuilds must exclude     *)
(* each other, and a change that either of them may write.                  *)
EXTENDS PointsCache

CONSTANTS d1, d2, c1
=============================================================================
