----------------------------- MODULE MCSqlSink -----------------------------
(* Small instances of SqlSink.  Two lanes let workers, the journal and the  *)
(* publisher interleave; lane a has two events, so order within a lane      *)
(* matters; two connections may submit the same events concurrently.        *)
EXTENDS SqlSink, TLC

CONSTANTS a1, a2, b1, la, lb

MCLaneOf == [i \in Ids |-> IF i = b1 THEN lb ELSE la]
MCWeight == [i \in Ids |-> IF i = a2 THEN 2 ELSE 1]
MCTokens == 1 .. RowLimit + Cardinality(Conns)

\* A batch across both lanes, and one behind it in the first; together they
\* exceed the capacity.
LaneBatches == {<<a1, b1>>, <<a2>>}
\* A batch, retried and duplicated, and a part of it sent again.
PairBatches == {<<a1, a2>>, <<a2>>}

ConnSymmetry == Permutations(Conns)
=============================================================================
