------------------------------- MODULE Lists -------------------------------
(***************************************************************************)
(* What a comprehension keeps of a list: a recursive function, of which    *)
(* more can be proved than of SelectSeq.                                   *)
(***************************************************************************)
EXTENDS Naturals, Sequences

(* Of a list, those in the set, in their order.                              *)
Those(list, set) ==
    LET those[n \in 0..Len(list)] ==
            IF n = 0 THEN <<>>
            ELSE IF list[n] \in set THEN Append(those[n - 1], list[n]) ELSE those[n - 1]
    IN those[Len(list)]

=============================================================================
