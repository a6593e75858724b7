----------------------------- MODULE Subsequences -----------------------------
(***************************************************************************)
(* The part of a sequence at a set of positions: what a loop over a Vec    *)
(* pushes to another one when it pushes some of the elements.              *)
(*                                                                         *)
(* SelectSeq does the same for a predicate; with a set of positions and a  *)
(* recursive function it can be reasoned about in first-order logic.       *)
(***************************************************************************)
EXTENDS Naturals, Sequences

Kept(s, positions) ==
  LET kept[n \in 0..Len(s)] ==
        IF n = 0 THEN <<>>
        ELSE IF n \in positions THEN Append(kept[n - 1], s[n])
        ELSE kept[n - 1]
  IN  kept[Len(s)]
===============================================================================
