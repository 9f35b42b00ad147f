----------------------------- MODULE Selection -----------------------------
(***************************************************************************)
(* The elements of a sequence that are in a set, in their order.  It is    *)
(* what SelectSeq computes; the provers do not know that operator, and     *)
(* this one has a definition that SelectionProofs can reason about.        *)
(***************************************************************************)
EXTENDS Naturals, Sequences

OnlyIn(s, S) ==
    LET upTo[i \in 0..Len(s)] ==
            IF i = 0 THEN <<>>
            ELSE IF s[i] \in S THEN Append(upTo[i - 1], s[i])
            ELSE upTo[i - 1]
    IN  upTo[Len(s)]
=============================================================================
