----------------------------- MODULE MCSessions -----------------------------
(* Small instance of Sessions: two clients that send batches, some of them  *)
(* ahead of the answers, and one that stays silent, for two handlers; four  *)
(* writes, one of them refused, and room for two.                           *)
EXTENDS Sessions

CONSTANTS c1, c2, c3, e1, e2, e3, e4, online, logs

MCConns == {c1, c2, c3}
MCIds == {e1, e2, e3, e4}
MCLanes == {online, logs}
MCSizes == {1, 2}
MCLaneOf == [i \in MCIds |-> IF i = e1 THEN online ELSE logs]
MCWeight == [i \in MCIds |-> IF i = e2 THEN 2 ELSE 1]
MCBadIds == {e3}

F(kind) == [kind |-> kind, batch |-> <<>>]
B(ids) == [kind |-> "batch", batch |-> ids]

MCScriptsOf ==
    [c \in MCConns |->
       CASE c = c1 -> {<<F("hello"), B(<<e1, e2>>), B(<<e1>>)>>,
                       <<F("blank"), F("hello"), F("health"), B(<<e1, e3>>)>>}
         [] c = c2 -> {<<F("hello"), B(<<e1>>)>>, <<F("hello"), B(<<e4>>)>>,
                       <<B(<<e1>>)>>, <<F("garbage")>>}
         [] OTHER  -> {<<>>}]
=============================================================================
