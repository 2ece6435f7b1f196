---------------------------- MODULE Subsequence ----------------------------
(***************************************************************************)
(* The elements of a sequence that lie in a set, in their order.  What     *)
(* SelectSeq does, with a set in place of the test: the prover can expand  *)
(* this definition and quantify over its arguments.                        *)
(***************************************************************************)
EXTENDS Integers, Sequences

Filter(s, T) ==
    LET kept[i \in 0 .. Len(s)] ==
            IF i = 0 THEN <<>>
            ELSE IF s[i] \in T THEN Append(kept[i - 1], s[i]) ELSE kept[i - 1]
    IN  kept[Len(s)]
=============================================================================
