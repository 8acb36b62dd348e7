------------------------------ MODULE Selection ------------------------------
(* SelectSeq with a set for its test, so that theorems can be proved about    *)
(* what it returns (SelectionProofs).                                         *)
EXTENDS Integers, Sequences

\* The elements of s that are in S, in the order they have in s.
Among(s, S) ==
    LET kept[n \in 0 .. Len(s)] ==
            IF n = 0 THEN <<>>
            ELSE IF s[n] \in S THEN Append(kept[n - 1], s[n]) ELSE kept[n - 1]
    IN  kept[Len(s)]
=============================================================================
