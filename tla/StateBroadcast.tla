--------------------------- MODULE StateBroadcast ---------------------------
(***************************************************************************)
(* The WebSocket clients of the service (src/src/main.py) and what every   *)
(* operation tells them when it ends.  broadcast_state() walks the set     *)
(* ws_clients and waits for each client to take the message; the handlers  *)
(* of other clients come and go meanwhile, and Python refuses to go on     *)
(* over a set that has changed its size.  run_op() calls it inside the     *)
(* `try` of the operation itself.                                          *)
(*                                                                         *)
(* An action is a stretch of code between two awaits.  A client that takes *)
(* the place of another in the set during a walk is left out of the walk.  *)
(***************************************************************************)
EXTENDS Naturals, FiniteSets

CONSTANTS
    Ops,           (* requests that run an operation, again and again         *)
    WsPeers        (* WebSocket clients                                       *)

ASSUME BroadcastAssumption == IsFiniteSet(WsPeers)

VARIABLES
    wsClients,     (* ws_clients                                              *)
    up,            (* clients whose connection is alive                       *)
    handler,       (* per client: its websocket_endpoint coroutine            *)
    op,            (* per operation: where its run_op is, and what it says    *)
    walk,          (* per operation: its walk over ws_clients                 *)
    churned        (* history: operations during whose walk the set changed   *)

peerVars == <<up, handler>>
broadcastVars == <<wsClients, peerVars, op, walk, churned>>

NoWalk == [left |-> {}, size |-> 0, stale |-> {}]

BroadcastTypeOK ==
    /\ wsClients \subseteq WsPeers
    /\ up \subseteq WsPeers
    /\ handler \in [WsPeers -> {"none", "hello", "loop", "acting"}]
    /\ op \in [Ops -> {"idle", "running", "tells success", "tells error"}]
    /\ walk \in [Ops -> [left : SUBSET WsPeers, size : 0..Cardinality(WsPeers),
                         stale : SUBSET WsPeers]]
    /\ churned \subseteq Ops

BroadcastInit ==
    /\ wsClients = {}
    /\ up = {}
    /\ handler = [c \in WsPeers |-> "none"]
    /\ op = [o \in Ops |-> "idle"]
    /\ walk = [o \in Ops |-> NoWalk]
    /\ churned = {}

Telling == {o \in Ops : op[o] \in {"tells success", "tells error"}}

(* The set becomes s, under the eyes of everybody who walks over it.          *)
Becomes(s) ==
    /\ wsClients' = s
    /\ churned' = IF s = wsClients THEN churned ELSE churned \cup Telling

(***************************************************************************)
(* The coroutine of a client.                                              *)
(***************************************************************************)
WsConnects(c) ==
    /\ handler[c] = "none"
    /\ \A o \in Ops : c \notin walk[o].left \cup walk[o].stale      (* a new object *)
    /\ Becomes(wsClients \cup {c})
    /\ up' = up \cup {c}
    /\ handler' = [handler EXCEPT ![c] = "hello"]
    /\ UNCHANGED <<op, walk>>

WsDrops(c) ==
    /\ c \in up
    /\ up' = up \ {c}
    /\ UNCHANGED <<wsClients, handler, op, walk, churned>>

Leaves(c) ==
    /\ Becomes(wsClients \ {c})
    /\ handler' = [handler EXCEPT ![c] = "none"]

LeavesHelloed(c) ==                                     (* mutant of HelloEnds *)
    /\ handler[c] = "hello"
    /\ handler' = [handler EXCEPT ![c] = IF c \in up THEN "loop" ELSE "none"]
    /\ UNCHANGED <<wsClients, churned, up, op, walk>>

HelloEnds(c) ==
    /\ handler[c] = "hello"
    /\ IF c \in up
       THEN handler' = [handler EXCEPT ![c] = "loop"] /\ UNCHANGED <<wsClients, churned>>
       ELSE Leaves(c)
    /\ UNCHANGED <<up, op, walk>>

(* A message of the client: screenshot, navigate, batch and so on drive the   *)
(* shared CDP client, and take their time.                                    *)
WsActs(c) ==
    /\ handler[c] = "loop"
    /\ c \in up
    /\ handler' = [handler EXCEPT ![c] = "acting"]
    /\ UNCHANGED <<wsClients, up, op, walk, churned>>

(* The answer can be sent, or it cannot.                                      *)
WsActionEnds(c) ==
    /\ handler[c] = "acting"
    /\ IF c \in up
       THEN handler' = [handler EXCEPT ![c] = "loop"] /\ UNCHANGED <<wsClients, churned>>
       ELSE Leaves(c)
    /\ UNCHANGED <<up, op, walk>>

WsDisconnects(c) ==
    /\ handler[c] = "loop"
    /\ c \notin up
    /\ Leaves(c)
    /\ UNCHANGED <<up, op, walk>>

(***************************************************************************)
(* An operation.                                                           *)
(***************************************************************************)
OpBegins(o) ==
    /\ op[o] = "idle"
    /\ op' = [op EXCEPT ![o] = "running"]
    /\ UNCHANGED <<wsClients, peerVars, walk, churned>>

Walks(o, says) ==
    /\ op' = [op EXCEPT ![o] = says]
    /\ walk' = [walk EXCEPT ![o] = [left |-> wsClients, size |-> Cardinality(wsClients),
                                    stale |-> {}]]

(* The method has returned or raised; the walk begins.                        *)
MethodEnds(o) ==
    /\ op[o] = "running"
    /\ \E says \in {"tells success", "tells error"} : Walks(o, says)
    /\ UNCHANGED <<wsClients, peerVars, churned>>

SameSize(o) == Cardinality(wsClients) = walk[o].size

TellsDropping(o) ==                                        (* mutant of Tells *)
    /\ o \in Telling /\ SameSize(o)
    /\ \E c \in walk[o].left \cap wsClients :
         /\ walk' = [walk EXCEPT ![o].left = @ \ {c}]
         /\ wsClients' = IF c \in up THEN wsClients ELSE wsClients \ {c}
    /\ churned' = IF wsClients' = wsClients THEN churned ELSE churned \cup (Telling \ {o})
    /\ UNCHANGED <<peerVars, op>>

Tells(o) ==
    /\ o \in Telling /\ SameSize(o)
    /\ \E c \in walk[o].left \cap wsClients :
         walk' = [walk EXCEPT ![o].left = @ \ {c},
                              ![o].stale = IF c \in up THEN @ ELSE @ \cup {c}]
    /\ UNCHANGED <<wsClients, peerVars, op, churned>>

(* Everybody has been told: who could not be reached is dropped, and the      *)
(* caller gets the answer.                                                    *)
TellsLast(o) ==
    /\ o \in Telling /\ SameSize(o)
    /\ walk[o].left \cap wsClients = {}
    /\ wsClients' = wsClients \ walk[o].stale
    /\ churned' = (IF wsClients' = wsClients THEN churned ELSE churned \cup Telling) \ {o}
    /\ op' = [op EXCEPT ![o] = "idle"]
    /\ walk' = [walk EXCEPT ![o] = NoWalk]
    /\ UNCHANGED peerVars

(* RuntimeError: the operation is logged, and told, as one that has failed;   *)
(* if that walk fails too, the caller is told that the browser is not there.  *)
WalkBreaks(o) ==
    /\ o \in Telling /\ ~SameSize(o)
    /\ IF op[o] = "tells success"
       THEN Walks(o, "tells error")
       ELSE op' = [op EXCEPT ![o] = "idle"] /\ walk' = [walk EXCEPT ![o] = NoWalk]
    /\ churned' = churned \ {o}
    /\ UNCHANGED <<wsClients, peerVars>>

BroadcastNext ==
    \/ \E c \in WsPeers :
         \/ WsConnects(c) \/ WsDrops(c) \/ HelloEnds(c)
         \/ WsActs(c) \/ WsActionEnds(c) \/ WsDisconnects(c)
    \/ \E o \in Ops :
         OpBegins(o) \/ MethodEnds(o) \/ Tells(o) \/ TellsLast(o) \/ WalkBreaks(o)

(* What a client asks for ends: every command to Chrome has a timeout.        *)
BroadcastFairness ==
    \A c \in WsPeers :
        WF_broadcastVars(HelloEnds(c) \/ WsActionEnds(c) \/ WsDisconnects(c))

BroadcastSpec == BroadcastInit /\ [][BroadcastNext]_broadcastVars /\ BroadcastFairness

-----------------------------------------------------------------------------
(* An operation that has succeeded is told, and logged, as a failure only if *)
(* some client came or went while it was being told: a client that cannot be *)
(* reached does not break the walk that finds it so (broadcast_state,        *)
(* run_op).                                                                  *)
MisreportNeedsChurn ==
    [][\A o \in Ops :
         op[o] = "tells success" /\ op'[o] = "tells error" => o \in churned]_broadcastVars

(* A client whose connection is lost is dropped from the set in the end,     *)
(* even one that is lost before its first message or in the middle of an     *)
(* action, and whether or not anything is broadcast (websocket_endpoint).    *)
GoneForgotten ==
    \A c \in WsPeers : (c \in wsClients \ up) ~> (c \notin wsClients \/ c \in up)

=============================================================================
