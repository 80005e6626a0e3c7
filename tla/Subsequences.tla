---------------------------- MODULE Subsequences ----------------------------
(***************************************************************************)
(* The part of a sequence that is at some of its positions.  SelectSeq of  *)
(* a test is this for the positions that pass it; a set of positions, and  *)
(* not an operator, is the parameter so that lemmas about it can be cited. *)
(***************************************************************************)
EXTENDS Naturals, Sequences

\* The elements of s at the positions in K, in their order.
Selected(s, K) ==
  LET f[n \in 0 .. Len(s)] ==
        IF n = 0 THEN <<>>
        ELSE IF n \in K THEN Append(f[n - 1], s[n]) ELSE f[n - 1]
  IN f[Len(s)]
=============================================================================
