---------------------------- MODULE SessionSlots ----------------------------
(***************************************************************************)
(* What a client may rely on of the session registry, without its          *)
(* coroutines, its lock or its browser: a limited number of sessions, each *)
(* opened and closed on its own.                                           *)
(***************************************************************************)
EXTENDS Naturals, FiniteSets

CONSTANTS
    Sids,   (* session ids                                                   *)
    Limit   (* how many sessions there may be                                *)

VARIABLE open   (* the sessions there are                                    *)

Open(s) ==
    /\ s \notin open
    /\ Cardinality(open) < Limit
    /\ open' = open \cup {s}

Close(s) ==
    /\ s \in open
    /\ open' = open \ {s}

Init == open = {}
Next == \E s \in Sids : Open(s) \/ Close(s)
Spec == Init /\ [][Next]_open

=============================================================================
