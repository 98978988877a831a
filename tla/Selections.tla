----------------------------- MODULE Selections -----------------------------
(***************************************************************************)
(* JavaScript's filter with a membership test: the elements of a sequence  *)
(* that are in a set, in their order.  It is SelectSeq with a set for the  *)
(* test and as a recursive function, which the proofs can expand.          *)
(***************************************************************************)
EXTENDS Naturals, Sequences

Kept(s, T) ==
  LET upTo[n \in 0..Len(s)] ==
        IF n = 0 THEN <<>>
        ELSE IF s[n] \in T THEN Append(upTo[n - 1], s[n]) ELSE upTo[n - 1]
  IN  upTo[Len(s)]

=============================================================================
