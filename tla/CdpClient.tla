------------------------------ MODULE CdpClient ------------------------------
(***************************************************************************)
(* One CDPClient (src/src/cdp_client.py): many coroutines send commands to *)
(* Chrome over one WebSocket, a listener task hands every reply to the     *)
(* command that waits for its id, and the client changes sockets while     *)
(* commands are under way.  A reconnect replaces the table of waiting      *)
(* commands and starts the ids again at 1, but neither the commands nor    *)
(* the listener of the socket before it go away with it.                   *)
(*                                                                         *)
(* An action is a stretch of code between two awaits.  What Chrome and the *)
(* network do are actions of their own.  A handler that sends several      *)
(* commands one after the other, as every connect does with Page.enable    *)
(* and Runtime.enable, is a caller that takes Send again.                  *)
(***************************************************************************)
EXTENDS Naturals, Sequences

CONSTANTS
    Callers,       (* coroutines that send commands                           *)
    NoTask,        (* no command waits for this id                            *)
    Recorded,      (* sockets on which a screencast was started               *)
    MaxSockets,    (* bound: WebSockets the client opens                      *)
    MaxMessages    (* bound: commands sent between two reconnects             *)

NoSocket == 0
Sockets == 1..MaxSockets
MessageIds == 1..MaxMessages

(* The listener of a socket sends commands too: it acknowledges frames.       *)
Tasks == Callers \cup Sockets

ASSUME CdpAssumption ==
    /\ MaxSockets \in Nat
    /\ MaxMessages \in Nat
    /\ Callers \cap (0..MaxSockets) = {}
    /\ NoTask \notin Tasks
    /\ Recorded \subseteq Sockets

VARIABLES
    ws,            (* _ws                                                     *)
    connected,     (* _connected                                              *)
    messageId,     (* _message_id                                             *)
    pending,       (* _pending: the task that waits for each id               *)
    cmd,           (* per task: its last command, and whether it still waits  *)
    link,          (* per socket: not opened yet, open, closed, connection lost *)
    sent,          (* per socket: commands Chrome has not answered            *)
    inbox,         (* per socket: what Chrome sent and nobody has read        *)
    listener,      (* per socket: its _listener task                          *)
    closing,       (* close() waits for the closing handshake                 *)
    switching      (* connect_to_target() is between the two sockets          *)

clientVars == <<ws, connected, messageId, pending>>
socketVars == <<link, sent, inbox>>
cdpVars == <<clientVars, cmd, socketVars, listener, closing, switching>>

Frame == <<>>
Idle == [waits |-> FALSE, socket |-> NoSocket, id |-> 0]
Replies == MessageIds \X Tasks

CdpTypeOK ==
    /\ ws \in Sockets \cup {NoSocket}
    /\ connected \in BOOLEAN
    /\ messageId \in 0..MaxMessages
    /\ pending \in [MessageIds -> Tasks \cup {NoTask}]
    /\ cmd \in [Tasks -> [waits : BOOLEAN, socket : Sockets \cup {NoSocket},
                          id : 0..MaxMessages]]
    /\ link \in [Sockets -> {"unused", "open", "closed", "lost"}]
    /\ sent \in [Sockets -> SUBSET Replies]
    /\ inbox \in [Sockets -> Seq(Replies \cup {Frame})]
    /\ listener \in [Sockets -> {"none", "reading", "acking", "done"}]
    /\ closing \in BOOLEAN
    /\ switching \in BOOLEAN

CdpInit ==
    /\ ws = NoSocket
    /\ connected = FALSE
    /\ messageId = 0
    /\ pending = [i \in MessageIds |-> NoTask]
    /\ cmd = [t \in Tasks |-> Idle]
    /\ link = [s \in Sockets |-> "unused"]
    /\ sent = [s \in Sockets |-> {}]
    /\ inbox = [s \in Sockets |-> <<>>]
    /\ listener = [s \in Sockets |-> "none"]
    /\ closing = FALSE
    /\ switching = FALSE

NextIdFreed ==                                          (* mutant of NextId   *)
    IF \E i \in 1..messageId : pending[i] = NoTask
    THEN CHOOSE i \in 1..messageId : pending[i] = NoTask
    ELSE messageId + 1

(***************************************************************************)
(* Sending a command and its end.                                          *)
(***************************************************************************)
NextId == messageId + 1

(* _send_command up to its wait: a socket that is closed already makes the    *)
(* send raise, and leaves the entry behind.                                   *)
SendCommand(t) ==
    /\ ws # NoSocket
    /\ connected
    /\ NextId \in MessageIds                            (* bound              *)
    /\ messageId' = NextId
    /\ pending' = [pending EXCEPT ![NextId] = t]
    /\ IF link[ws] = "open"
       THEN /\ sent' = [sent EXCEPT ![ws] = @ \cup {<<NextId, t>>}]
            /\ cmd' = [cmd EXCEPT ![t] = [waits |-> TRUE, socket |-> ws, id |-> NextId]]
       ELSE UNCHANGED <<sent, cmd>>

Send(c) ==
    /\ ~cmd[c].waits
    /\ SendCommand(c)
    /\ UNCHANGED <<ws, connected, link, inbox, listener, closing, switching>>

TimeOutOfTable(t) ==                                    (* mutant of TimeOut  *)
    /\ cmd[t].waits
    /\ pending[cmd[t].id] = t
    /\ cmd' = [cmd EXCEPT ![t] = Idle]
    /\ pending' = [pending EXCEPT ![cmd[t].id] = NoTask]
    /\ UNCHANGED <<ws, connected, messageId, socketVars, listener, closing, switching>>

(* The wait of a command ends by itself; whatever holds its id in the table   *)
(* of today goes with it.                                                     *)
TimeOut(t) ==
    /\ cmd[t].waits
    /\ cmd' = [cmd EXCEPT ![t] = Idle]
    /\ pending' = [pending EXCEPT ![cmd[t].id] = NoTask]
    /\ UNCHANGED <<ws, connected, messageId, socketVars, listener, closing, switching>>

(* The future of id i is the one that task t waits for.                       *)
WaitsFor(t, i) == cmd[t].waits /\ cmd[t].id = i /\ pending[i] = t

(* Every command in the table fails with CDPDisconnectedError.                *)
FailPending ==
    /\ pending' = [i \in MessageIds |-> NoTask]
    /\ cmd' = [t \in Tasks |->
                 IF \E i \in MessageIds : WaitsFor(t, i)
                 THEN Idle ELSE cmd[t]]

(***************************************************************************)
(* The listener task of socket s.                                          *)
(***************************************************************************)
Hears(s) == listener[s] = "reading" /\ inbox[s] # <<>>

ReadReply(s) ==
    /\ Hears(s)
    /\ Head(inbox[s]) # Frame
    /\ LET i == Head(inbox[s])[1]
           t == pending[i]
       IN IF t = NoTask
          THEN UNCHANGED <<pending, cmd>>
          ELSE /\ pending' = [pending EXCEPT ![i] = NoTask]
               /\ cmd' = IF WaitsFor(t, i) THEN [cmd EXCEPT ![t] = Idle] ELSE cmd
    /\ inbox' = [inbox EXCEPT ![s] = Tail(@)]
    /\ UNCHANGED <<ws, connected, messageId, link, sent, listener, closing, switching>>

(* A screencast frame is acknowledged from the listener itself, so nothing    *)
(* is read until that command ends.                                           *)
ReadFrame(s) ==
    /\ Hears(s)
    /\ Head(inbox[s]) = Frame
    /\ inbox' = [inbox EXCEPT ![s] = Tail(@)]
    /\ \/ /\ SendCommand(s)
          /\ listener' = [listener EXCEPT ![s] = IF link[ws] = "open" THEN "acking" ELSE @]
       \/ /\ ws = NoSocket \/ ~connected
          /\ UNCHANGED <<messageId, pending, cmd, sent, listener>>
    /\ UNCHANGED <<ws, connected, link, closing, switching>>

AckEnds(s) ==
    /\ listener[s] = "acking"
    /\ ~cmd[s].waits
    /\ listener' = [listener EXCEPT ![s] = "reading"]
    /\ UNCHANGED <<clientVars, cmd, socketVars, closing, switching>>

ListenerEndsLostOnly(s) ==                         (* mutant of ListenerEnds  *)
    /\ listener[s] = "reading"
    /\ inbox[s] = <<>>
    /\ link[s] \in {"closed", "lost"}
    /\ listener' = [listener EXCEPT ![s] = "done"]
    /\ IF link[s] = "lost" THEN connected' = FALSE /\ FailPending
       ELSE UNCHANGED <<connected, pending, cmd>>
    /\ UNCHANGED <<ws, messageId, socketVars, closing, switching>>

(* Everything that had arrived is read, then the loop ends.  Only a lost      *)
(* connection fails the waiting commands; a clean close leaves them waiting.  *)
ListenerEnds(s) ==
    /\ listener[s] = "reading"
    /\ inbox[s] = <<>>
    /\ link[s] \in {"closed", "lost"}
    /\ listener' = [listener EXCEPT ![s] = "done"]
    /\ connected' = FALSE
    /\ IF link[s] = "lost" THEN FailPending ELSE UNCHANGED <<pending, cmd>>
    /\ UNCHANGED <<ws, messageId, socketVars, closing, switching>>

(***************************************************************************)
(* Changing sockets.                                                       *)
(***************************************************************************)
OpenSocket(s) ==
    /\ link[s] = "unused"
    /\ \A r \in Sockets : r < s => link[r] # "unused"
    /\ link' = [link EXCEPT ![s] = "open"]
    /\ ws' = s
    /\ connected' = TRUE
    /\ messageId' = 0
    /\ pending' = [i \in MessageIds |-> NoTask]
    /\ listener' = [listener EXCEPT ![s] = "reading"]

(* connect(), connect_ws() and connect_browser(): the socket before stays     *)
(* open and keeps its listener.                                               *)
Connect(s) ==
    /\ OpenSocket(s)
    /\ UNCHANGED <<cmd, sent, inbox, closing, switching>>

Ends(s, how) ==
    /\ link' = [link EXCEPT ![s] = how]
    /\ sent' = [sent EXCEPT ![s] = {}]

Shut(s) == IF link[s] = "open" THEN Ends(s, "closed") ELSE UNCHANGED <<link, sent>>

(* connect_to_target(): close the socket, then open one to the other tab.     *)
SwitchBegins ==
    /\ ws # NoSocket
    /\ ~switching /\ ~closing                           (* bound: one at a time *)
    /\ Shut(ws)
    /\ switching' = TRUE
    /\ UNCHANGED <<clientVars, cmd, inbox, listener, closing>>

SwitchOpens(s) ==
    /\ switching
    /\ OpenSocket(s)
    /\ switching' = FALSE
    /\ UNCHANGED <<cmd, sent, inbox, closing>>

SwitchFails ==
    /\ switching
    /\ switching' = FALSE
    /\ UNCHANGED <<clientVars, cmd, socketVars, listener, closing>>

CloseBegins ==
    /\ ws # NoSocket
    /\ ~switching /\ ~closing                           (* bound: one at a time *)
    /\ connected' = FALSE
    /\ Shut(ws)
    /\ closing' = TRUE
    /\ UNCHANGED <<ws, messageId, pending, cmd, inbox, listener, switching>>

CloseEnds ==
    /\ closing
    /\ ws' = NoSocket
    /\ FailPending
    /\ closing' = FALSE
    /\ UNCHANGED <<connected, messageId, socketVars, listener, switching>>

(***************************************************************************)
(* Chrome and the network.                                                 *)
(***************************************************************************)
ChromeAnswers(s) ==
    /\ link[s] = "open"
    /\ \E r \in sent[s] :
         /\ sent' = [sent EXCEPT ![s] = @ \ {r}]
         /\ inbox' = [inbox EXCEPT ![s] = Append(@, r)]
    /\ UNCHANGED <<clientVars, cmd, link, listener, closing, switching>>

(* bound: a frame comes when everything before it has been read               *)
ChromeSendsFrame(s) ==
    /\ s \in Recorded
    /\ link[s] = "open"
    /\ inbox[s] = <<>>
    /\ inbox' = [inbox EXCEPT ![s] = Append(@, Frame)]
    /\ UNCHANGED <<clientVars, cmd, link, sent, listener, closing, switching>>

Drops(s) ==
    /\ link[s] = "open"
    /\ \E how \in {"closed", "lost"} : Ends(s, how)
    /\ UNCHANGED <<clientVars, cmd, inbox, listener, closing, switching>>

CdpNext ==
    \/ \E c \in Callers : Send(c)
    \/ \E t \in Tasks : TimeOut(t)
    \/ SwitchBegins \/ SwitchFails \/ CloseBegins \/ CloseEnds
    \/ \E s \in Sockets :
         \/ ReadReply(s) \/ ReadFrame(s) \/ AckEnds(s) \/ ListenerEnds(s)
         \/ Connect(s) \/ SwitchOpens(s)
         \/ ChromeAnswers(s) \/ ChromeSendsFrame(s) \/ Drops(s)

(* A command waits for at most its timeout.                                   *)
CdpFairness == \A t \in Tasks : WF_cdpVars(TimeOut(t))

CdpSpec == CdpInit /\ [][CdpNext]_cdpVars /\ CdpFairness

-----------------------------------------------------------------------------
(* Listener s hands what it read to the waiting task t.                      *)
Delivers(s, t) ==
    /\ Hears(s)
    /\ inbox'[s] = Tail(inbox[s])
    /\ Head(inbox[s]) # Frame
    /\ WaitsFor(t, Head(inbox[s])[1])

(* A reply read from the socket the client uses now ends the very command it *)
(* answers, however many reconnects and timeouts came before: ids start      *)
(* again at 1 with every socket, and an id of a command that gave up is not  *)
(* taken by another one (_send_command, _listener, connect).                 *)
AnswersMatch ==
    [][\A s \in Sockets, t \in Tasks :
         Delivers(s, t) /\ s = ws =>
            /\ cmd[t].socket = s
            /\ Head(inbox[s])[2] = t]_cdpVars

(* A client that says it is connected has a task that reads a socket: the    *)
(* end of any listener takes the claim back (_listener's finally).           *)
ConnectedHasListener ==
    connected => \E s \in Sockets : listener[s] \in {"reading", "acking"}

(* A connected client has its replies read, and each reaches the command it  *)
(* answers (_listener, _send_command).                                       *)
ClientHolds == AnswersMatch /\ []ConnectedHasListener

(* Every command ends, also one whose entry a reconnect has thrown away and  *)
(* one the listener itself is waiting for: the wait has its own deadline     *)
(* (_send_command's wait_for).                                               *)
EveryCommandEnds == \A t \in Tasks : cmd[t].waits ~> ~cmd[t].waits

=============================================================================
