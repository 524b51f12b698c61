---------------------------- MODULE ClientEvents ----------------------------
(***************************************************************************)
(* What a client keeps of the events of its tab (cdp_client.py): the       *)
(* dialog it believes open, the console, network and notification logs and *)
(* the frames of a recording.  Chrome reports them on one socket, and only *)
(* while a domain is enabled on it or an observer is in the document; the  *)
(* client's flags outlive both.                                            *)
(***************************************************************************)
EXTENDS Naturals, Sequences

CONSTANTS
    ViewTabs,       (* tabs the client can be attached to                    *)
    Watchers,       (* requests that start and stop what is monitored        *)
    MaxDialogs,     (* bound: dialogs the pages open                         *)
    MaxKept         (* console entries that are kept (500)                   *)

ASSUME ClientEventsAssumption == MaxDialogs \in Nat /\ MaxKept \in Nat \ {0}

VARIABLES
    tabOf,          (* the tab of the socket                                 *)
    showing,        (* the dialog each tab shows                             *)
    wire,           (* events Chrome has sent and the listener has not read  *)
    client,         (* the flags and logs of the client                      *)
    replies,        (* commands in Chrome's order whose replies are under way *)
    domains,        (* what Chrome reports on the socket                     *)
    answering,      (* dialogs with a task that answers them                 *)
    stale           (* flags that were set before the socket or document     *)

eventVars == <<tabOf, showing, wire, client, replies, domains, answering, stale>>

NoDialog == 0
(* dismiss and accept both answer: what they answer is left out.             *)
Policies == {"manual", "dismiss"}
Flags    == {"net", "cast", "notes", "dialog"}
Up       == {f \in {"net", "cast", "notes"} : client[f]}

EventInit ==
    /\ tabOf \in ViewTabs
    /\ showing = [t \in ViewTabs |-> NoDialog]
    /\ wire = <<>> /\ replies = <<>>
    /\ client = [open |-> NoDialog, policy |-> "manual", console |-> 0,
                 net |-> FALSE, cast |-> FALSE, notes |-> FALSE, born |-> 0]
    /\ domains = {}
    /\ answering = {} /\ stale = {}

Frozen == showing[tabOf] # NoDialog
Busy(w) == \E i \in DOMAIN replies : replies[i].who = w
Sends(w, what) == replies' = Append(replies, [who |-> w, what |-> what])

-----------------------------------------------------------------------------
(* The listener handles one message after the other.                         *)
Opening(d)   == [what |-> "opening", dialog |-> d]
DialogClosed == [what |-> "closed", dialog |-> NoDialog]

DialogOpens(t) ==
    /\ showing[t] = NoDialog /\ client.born < MaxDialogs
    /\ showing' = [showing EXCEPT ![t] = client.born + 1]
    /\ client' = [client EXCEPT !.born = @ + 1]
    /\ wire' = IF t = tabOf THEN Append(wire, Opening(client.born + 1)) ELSE wire
    /\ UNCHANGED <<tabOf, replies, domains, answering, stale>>

HearsOpening ==
    /\ wire # <<>> /\ Head(wire).what = "opening"
    /\ client' = [client EXCEPT !.open = Head(wire).dialog]
    /\ answering' = IF client.policy = "manual" THEN answering
                    ELSE answering \cup {Head(wire).dialog}
    /\ wire' = Tail(wire) /\ stale' = stale \ {"dialog"}
    /\ UNCHANGED <<tabOf, showing, replies, domains>>

HearsClosedKeeping ==                             (* mutant of HearsClosed *)
    /\ wire # <<>> /\ Head(wire).what = "closed"
    /\ wire' = Tail(wire) /\ stale' = stale \ {"dialog"}
    /\ UNCHANGED <<tabOf, showing, client, replies, domains, answering>>

HearsClosed ==
    /\ wire # <<>> /\ Head(wire).what = "closed"
    /\ client' = [client EXCEPT !.open = NoDialog]
    /\ wire' = Tail(wire) /\ stale' = stale \ {"dialog"}
    /\ UNCHANGED <<tabOf, showing, replies, domains, answering>>

(* The page logs an error or a warning: _collect_console_event keeps it.     *)
HearsError ==
    /\ ~Frozen /\ client' = [client EXCEPT !.console = IF @ < MaxKept THEN @ + 1 ELSE @]
    /\ UNCHANGED <<tabOf, showing, wire, replies, domains, answering, stale>>

(* Page.handleJavaScriptDialog answers the dialog that shows on the tab of   *)
(* the socket, whichever that is by now.                                     *)
AnswersDialog ==
    /\ Frozen
    /\ showing' = [showing EXCEPT ![tabOf] = NoDialog]
    /\ wire' = Append(wire, DialogClosed)

AutoAnswerDialog(d) ==
    /\ d \in answering /\ answering' = answering \ {d}
    /\ IF Frozen THEN AnswersDialog ELSE UNCHANGED <<showing, wire>>
    /\ UNCHANGED <<tabOf, client, replies, domains, stale>>

DialogHandle ==
    /\ AnswersDialog
    /\ UNCHANGED <<tabOf, client, replies, domains, answering, stale>>

SetDialogPolicy(p) ==
    /\ client.policy # p /\ client' = [client EXCEPT !.policy = p]
    /\ UNCHANGED <<tabOf, showing, wire, replies, domains, answering, stale>>

-----------------------------------------------------------------------------
(* Network monitoring: the flag is set and cleared when Chrome has answered. *)
StartNetwork(w) ==
    /\ ~Busy(w) /\ ~client.net
    /\ Sends(w, "netOn") /\ domains' = domains \cup {"net"} /\ stale' = stale \ {"net"}
    /\ UNCHANGED <<tabOf, showing, wire, client, answering>>

StopNetwork(w) ==
    /\ ~Busy(w) /\ client.net
    /\ Sends(w, "netOff") /\ domains' = domains \ {"net"}
    /\ UNCHANGED <<tabOf, showing, wire, client, answering, stale>>

(* A recording collects from the moment its start is sent, and until Chrome  *)
(* has answered the stop.                                                    *)
StartRecording(w) ==
    /\ ~Busy(w)
    /\ client' = [client EXCEPT !.cast = TRUE]
    /\ Sends(w, "castOn")
    /\ \/ domains' = domains \cup {"cast"} /\ stale' = stale \ {"cast"}
       \/ UNCHANGED domains /\ stale' = stale \cup {"cast"}
    /\ UNCHANGED <<tabOf, showing, wire, answering>>

StopRecording(w) ==
    /\ ~Busy(w)
    /\ Sends(w, "castOff") /\ domains' = domains \ {"cast"}
    /\ UNCHANGED <<tabOf, showing, wire, client, answering, stale>>

(* The observer is injected by evaluate(), once for as long as the flag is   *)
(* set; a reader starts it first.                                            *)
StartNotifications(w) ==
    /\ ~Busy(w) /\ ~client.notes /\ ~Frozen
    /\ Sends(w, "notesOn") /\ domains' = domains \cup {"notes"} /\ stale' = stale \ {"notes"}
    /\ UNCHANGED <<tabOf, showing, wire, client, answering>>

(* POST /agent/console, GET /console/errors and the tools start the          *)
(* monitoring, which empties the log, and then read it: they tell what is    *)
(* kept only if the start fails.                                             *)
StartConsole(w) ==
    /\ ~Busy(w)
    /\ Sends(w, "console")
    /\ UNCHANGED <<tabOf, showing, wire, client, domains, answering, stale>>

Replied(what) ==
    CASE what = "netOn"   -> [client EXCEPT !.net = TRUE]
      [] what = "netOff"  -> [client EXCEPT !.net = FALSE]
      [] what = "castOff" -> [client EXCEPT !.cast = FALSE]
      [] what = "notesOn" -> [client EXCEPT !.notes = TRUE]
      [] what = "console" -> [client EXCEPT !.console = 0]
      [] OTHER            -> client

(* Replies come in the order of the commands.                                *)
CommandReplied ==
    /\ replies # <<>> /\ replies' = Tail(replies)
    /\ client' = Replied(Head(replies).what)
    /\ UNCHANGED <<tabOf, showing, wire, domains, answering, stale>>

(* A command fails: a flag that waits for the reply stays.                   *)
CommandRaises ==
    /\ replies # <<>> /\ replies' = Tail(replies)
    /\ LET what == Head(replies).what IN
       /\ client' = IF what = "castOff" THEN [client EXCEPT !.cast = FALSE] ELSE client
       /\ stale' = stale \cup (CASE what = "netOff"  -> {"net"}
                                 [] what = "castOn"  -> {"cast"}
                                 [] OTHER            -> {})
    /\ UNCHANGED <<tabOf, showing, wire, domains, answering>>

-----------------------------------------------------------------------------
(* A new socket, to this tab or another: Chrome reports nothing on it but    *)
(* Page and Runtime, and no flag of the client is cleared.  A dialog that    *)
(* shows already may be reported again.                                      *)
NewSocket(t) ==
    /\ tabOf' = t
    /\ wire' = <<>> /\ replies' = <<>> /\ domains' = IF t = tabOf THEN domains \cap {"notes"} ELSE {}
    /\ stale' = {"dialog"} \cup Up
    /\ UNCHANGED <<showing, client, answering>>

ConnectToTarget(t) == t # tabOf /\ NewSocket(t)
ReconnectsSame     == NewSocket(tabOf)

(* A navigation, refused while a dialog is believed open; the document and   *)
(* its observer go.                                                          *)
NavigateTab ==
    /\ client.open = NoDialog /\ ~Frozen
    /\ domains' = domains \ {"notes"} /\ stale' = stale \cup {"notes"}
    /\ UNCHANGED <<tabOf, showing, wire, client, replies, answering>>

EventNext ==
    \/ \E t \in ViewTabs : DialogOpens(t) \/ ConnectToTarget(t)
    \/ HearsOpening \/ HearsClosed \/ HearsError
    \/ \E d \in answering : AutoAnswerDialog(d)
    \/ DialogHandle \/ (\E p \in Policies : SetDialogPolicy(p))
    \/ \E w \in Watchers :
         \/ StartNetwork(w) \/ StopNetwork(w) \/ StartRecording(w) \/ StopRecording(w)
         \/ StartNotifications(w) \/ StartConsole(w)
    \/ CommandReplied \/ CommandRaises \/ ReconnectsSame \/ NavigateTab

-----------------------------------------------------------------------------
EventTypeOK ==
    /\ tabOf \in ViewTabs /\ client.policy \in Policies
    /\ client.open \in 0..MaxDialogs /\ client.console \in 0..MaxKept
    /\ answering \subseteq 1..MaxDialogs /\ stale \subseteq Flags

InFlight(what) == \E i \in DOMAIN replies : replies[i].what = what
NewsUnread == \E i \in DOMAIN wire : wire[i].what \in {"opening", "closed"}

(* What the client believes of its tab is so, once the listener has read     *)
(* what Chrome sent and no command is under way: the dialog it reports open  *)
(* shows, and what it says it monitors is reported by Chrome.  It is not so  *)
(* only when the flag is older than the socket or the document, or its       *)
(* command failed.                                                           *)
BeliefsHold ==
    /\ ~NewsUnread /\ "dialog" \notin stale => client.open = showing[tabOf]
    /\ client.net /\ "net" \notin stale => "net" \in domains \/ InFlight("netOff")
    /\ client.cast /\ "cast" \notin stale => "cast" \in domains \/ InFlight("castOff")
    /\ client.notes /\ "notes" \notin stale => "notes" \in domains

=============================================================================
