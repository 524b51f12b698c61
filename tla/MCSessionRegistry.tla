-------------------------- MODULE MCSessionRegistry --------------------------
(* Finite instances of SessionRegistry for TLC.                              *)
EXTENDS SessionRegistry, TLC

(* The sessions differ only in their ids when all of them send requests or   *)
(* none does.                                                                *)
SidSymmetry == Permutations(Sids)

=============================================================================
