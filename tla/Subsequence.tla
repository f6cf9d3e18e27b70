---------------------------- MODULE Subsequence ----------------------------
(***************************************************************************)
(* The elements of a sequence at some of its positions, in their order:    *)
(* SelectSeq with the positions picked beforehand, so that proofs can      *)
(* reason about it.                                                        *)
(***************************************************************************)
EXTENDS Naturals, Sequences

ElementsAt(s, keep) ==
    LET upTo[n \in 0..Len(s)] ==
            IF n = 0 THEN << >>
            ELSE IF n \in keep THEN Append(upTo[n - 1], s[n])
            ELSE upTo[n - 1]
    IN  upTo[Len(s)]

=============================================================================
