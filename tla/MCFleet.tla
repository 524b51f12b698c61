------------------------------- MODULE MCFleet -------------------------------
(* Finite instances of Fleet for TLC.                                        *)
EXTENDS Fleet, TLC

(* Nodes differ only in their ids, and so do sessions.                       *)
FleetSymmetry == Permutations(Nodes) \cup Permutations(Sessions)

=============================================================================
