--------------------------- MODULE SequenceFilter ---------------------------
(***************************************************************************)
(* SelectSeq for a set in place of an operator, and written out, so that   *)
(* the proofs can unfold it.                                               *)
(***************************************************************************)
EXTENDS Integers, Sequences

\* The elements of s that are in T, in order.
Only(s, T) ==
  LET Upto[n \in 0..Len(s)] ==
        IF n = 0 THEN <<>>
        ELSE IF s[n] \in T THEN Append(Upto[n - 1], s[n]) ELSE Upto[n - 1]
  IN Upto[Len(s)]

=============================================================================
