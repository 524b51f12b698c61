------------------------------ MODULE MCOnePart ------------------------------
(***************************************************************************)
(* Components that share no state are not interleaved: a behaviour is one  *)
(* of the component `part` names, while the others stay as they were.      *)
(***************************************************************************)
VARIABLE part      (* the component that runs                                 *)

(* Every component but the one that runs stays as it is.                     *)
Stays(name, vars) == IF part = name THEN TRUE ELSE UNCHANGED vars

=============================================================================
