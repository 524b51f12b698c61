------------------------------- MODULE HandOff -------------------------------
(***************************************************************************)
(* What the MCP server remembers for its one client between tool calls     *)
(* (mcp_server/tools.py, _MCP_SESSION): a bot check it has reported, the   *)
(* hand-off that waits for a person, the emulation that stays on the page. *)
(* Calls overlap, the person acts in the same browser, and the tab may be  *)
(* closed and replaced (McpSession) under a call.                          *)
(***************************************************************************)
EXTENDS Naturals, FiniteSets

CONSTANTS
    HandCallers,    (* calls in progress                                     *)
    NoOne,          (* no hand-off                                           *)
    Emulated,       (* what can be emulated: "viewport", "offline"           *)
    MaxHandTabs     (* bound: tabs opened                                    *)

ASSUME HandAssumption == NoOne \notin HandCallers /\ MaxHandTabs \in Nat \ {0}

VARIABLES
    tabs,           (* tabs opened so far                                    *)
    own,            (* the tab of the client's session                       *)
    gone,           (* tabs that are closed                                  *)
    facing,           (* what each tab shows                                   *)
    worn,           (* the emulation active on each                          *)
    noted,          (* "challenge": a bot check was reported                 *)
    handedTo,        (* "handoff": whose it is                                *)
    emulating,         (* "emulation"                                           *)
    tool,           (* the calls                                             *)
    owed,           (* history: a call was told of a bot check, none since that it is over *)
    crossed,        (* history: hand-offs that another one overlapped        *)
    blurred         (* history: emulation that was disturbed, see EmulationListed *)

handVars == <<tabs, own, gone, facing, worn, noted, handedTo, emulating, tool, owed, crossed, blurred>>

HandTabs == 1..MaxHandTabs
(* "blank": nothing to read; "challenge": a bot check; "wanted" meets the    *)
(* condition of the hand-offs.                                               *)
Facings    == {"blank", "challenge", "plain", "wanted"}
ToolIdle     == [pc |-> "idle", kind |-> "none", on |-> 0, saw |-> "blank", key |-> "none"]

HandInit ==
    /\ tabs = 1 /\ own = 1 /\ gone = {}
    /\ facing = [t \in HandTabs |-> "blank"] /\ worn = [t \in HandTabs |-> {}]
    /\ noted = FALSE /\ handedTo = NoOne /\ emulating = {}
    /\ tool = [c \in HandCallers |-> ToolIdle]
    /\ owed = FALSE /\ crossed = {} /\ blurred = {}

ToolAt(c, pc) == tool[c].pc = pc
Done(c) == tool' = [tool EXCEPT ![c] = ToolIdle]

(* _target: the tab of the session, a fresh one if it was closed.            *)
Resolve(t) ==
    \/ own \notin gone /\ t = own /\ UNCHANGED <<tabs, own, blurred>>
    \/ /\ own \in gone /\ tabs < MaxHandTabs
       /\ t = tabs + 1 /\ tabs' = t /\ own' = t /\ blurred' = Emulated

(* run_op keeps the session it was resolved with: if that has gone, its      *)
(* client opens a tab of its own, which no session has.                      *)
Reopens(c) ==
    /\ tool[c].pc \in {"go", "poll", "apply"} /\ tool[c].on \in gone /\ tabs < MaxHandTabs
    /\ tabs' = tabs + 1 /\ tool' = [tool EXCEPT ![c].on = tabs']
    /\ UNCHANGED <<own, gone, facing, worn, noted, handedTo, emulating, owed, crossed, blurred>>

-----------------------------------------------------------------------------
(* A call resolves its tab and starts; a hand-off puts itself down.          *)
ToolBegins(c, kind, key) ==
    /\ ToolAt(c, "idle")
    /\ \E t \in HandTabs :
         /\ Resolve(t)
         /\ tool' = [tool EXCEPT ![c] =
              [ToolIdle EXCEPT !.kind = kind, !.on = t, !.key = key,
                           !.pc = CASE kind = "navigate" -> "go"   [] kind = "read"  -> "gate"
                                    [] kind = "await"    -> "poll" [] OTHER          -> "apply"]]
    /\ handedTo' = IF kind = "await" THEN c ELSE handedTo
    /\ crossed' = IF kind # "await" THEN crossed
                  ELSE IF \E d \in HandCallers \ {c} : ToolAt(d, "poll")
                  THEN crossed \cup {c} \cup {d \in HandCallers : ToolAt(d, "poll")}
                  ELSE crossed \ {c}
    /\ UNCHANGED <<gone, facing, worn, noted, emulating, owed>>

(* navigate: the page that comes may be a bot check.                         *)
GatedNavigate(c) ==
    /\ ToolAt(c, "go") /\ tool[c].on \notin gone
    /\ \/ \E p \in Facings \ {"blank"} : facing' = [facing EXCEPT ![tool[c].on] = p]
                                       /\ tool' = [tool EXCEPT ![c].pc = "gate"]
       \/ Done(c) /\ UNCHANGED facing
    /\ UNCHANGED <<tabs, own, gone, worn, noted, handedTo, emulating, owed, crossed, blurred>>

(* _challenge_gate resolves the tab again and reads it; the read may fail    *)
(* or take too long.                                                         *)
GateReads(c) ==
    /\ ToolAt(c, "gate")
    /\ \E t \in HandTabs :
         /\ Resolve(t)
         /\ \E p \in {IF facing[t] = "wanted" THEN "plain" ELSE facing[t], "blank"} :
              tool' = [tool EXCEPT ![c].pc = "judge", ![c].saw = p]
    /\ UNCHANGED <<gone, facing, worn, noted, handedTo, emulating, owed, crossed>>

(* A plausible mistake: a page that was not read is taken to be clear.       *)
GateJudgesUnread(c) ==
    /\ ToolAt(c, "judge")
    /\ noted' = (tool[c].saw = "challenge")
    /\ Done(c)
    /\ owed' = (tool[c].saw = "challenge" \/ (owed /\ (tool[c].saw = "blank" \/ ~noted)))
    /\ UNCHANGED <<tabs, own, gone, facing, worn, handedTo, emulating, crossed, blurred>>

GateJudges(c) ==
    /\ ToolAt(c, "judge") /\ Done(c)
    /\ CASE tool[c].saw = "blank"     -> UNCHANGED <<noted, owed>>          (* unchecked *)
         [] tool[c].saw = "challenge" -> noted' = TRUE /\ owed' = TRUE     (* blocked   *)
         [] OTHER                     -> noted' = FALSE /\ owed' = (owed /\ ~noted)
    /\ UNCHANGED <<tabs, own, gone, facing, worn, handedTo, emulating, crossed, blurred>>

-----------------------------------------------------------------------------
(* await_user looks at the page until the condition holds or its time is up. *)
(* Whoever ends takes the hand-off away.                                     *)
AwaitEnds(c) ==
    /\ Done(c)
    /\ handedTo' = NoOne
    /\ crossed' = (crossed \cup {d \in HandCallers : ToolAt(d, "poll")}) \ {c}

AwaitPolls(c) ==
    /\ ToolAt(c, "poll")
    /\ \E t \in HandTabs : Resolve(t)
    /\ tool[c].on \notin gone
    /\ \/ AwaitEnds(c)     (* the page meets it, cannot be read, or time is up *)
       \/ facing[tool[c].on] # "wanted" /\ UNCHANGED <<tool, handedTo, crossed>>
    /\ UNCHANGED <<gone, facing, worn, noted, emulating, owed>>

-----------------------------------------------------------------------------
(* set_viewport, set_offline ("set" or "clear"): Chrome does it, then it is  *)
(* noted.  A command that timed out may have been done all the same.         *)
AlsoApplied(c) == {d \in HandCallers \ {c} : tool[d].key = tool[c].key /\ ToolAt(d, "applied")}
Wears(c)  == worn' = [worn EXCEPT ![tool[c].on] =
                        IF tool[c].kind = "set" THEN @ \cup {tool[c].key} ELSE @ \ {tool[c].key}]

Applies(c) ==
    /\ ToolAt(c, "apply") /\ tool[c].on \notin gone
    /\ \/ Wears(c) /\ tool' = [tool EXCEPT ![c].pc = "applied"]
          /\ blurred' = IF AlsoApplied(c) # {} \/ tool[c].on # own THEN blurred \cup {tool[c].key} ELSE blurred \ {tool[c].key}
       \/ Wears(c) /\ Done(c) /\ blurred' = blurred \cup {tool[c].key}
       \/ Done(c) /\ UNCHANGED <<worn, blurred>>
    /\ UNCHANGED <<tabs, own, gone, facing, noted, handedTo, emulating, owed, crossed>>

(* A plausible mistake: only what is set is noted.                           *)
NotesEmulationSet(c) ==
    /\ ToolAt(c, "applied") /\ Done(c)
    /\ emulating' = IF tool[c].kind = "set" THEN emulating \cup {tool[c].key} ELSE emulating
    /\ UNCHANGED <<tabs, own, gone, facing, worn, noted, handedTo, owed, crossed, blurred>>

NotesEmulation(c) ==
    /\ ToolAt(c, "applied") /\ Done(c)
    /\ emulating' = IF tool[c].kind = "set" THEN emulating \cup {tool[c].key} ELSE emulating \ {tool[c].key}
    /\ UNCHANGED <<tabs, own, gone, facing, worn, noted, handedTo, owed, crossed, blurred>>

(* full_page_screenshot leaves a viewport of its own behind.                 *)
FullPageScreenshot ==
    /\ own \notin gone /\ "viewport" \in Emulated
    /\ worn' = [worn EXCEPT ![own] = @ \cup {"viewport"}] /\ blurred' = blurred \cup {"viewport"}
    /\ UNCHANGED <<tabs, own, gone, facing, noted, handedTo, emulating, tool, owed, crossed>>

-----------------------------------------------------------------------------
(* The person, or the page: it turns into another, or the tab is closed.     *)
PersonActs(t, p) ==
    /\ t \in 1..tabs /\ t \notin gone /\ facing[t] # p /\ facing' = [facing EXCEPT ![t] = p]
    /\ UNCHANGED <<tabs, own, gone, worn, noted, handedTo, emulating, tool, owed, crossed, blurred>>

PersonCloses(t) ==
    /\ t \in 1..tabs /\ t \notin gone /\ gone' = gone \cup {t}
    /\ facing' = [facing EXCEPT ![t] = "blank"] /\ worn' = [worn EXCEPT ![t] = {}]
    /\ UNCHANGED <<tabs, own, noted, handedTo, emulating, tool, owed, crossed, blurred>>

HandNext ==
    \/ \E c \in HandCallers :
         \/ \E kind \in {"navigate", "read", "await"} : ToolBegins(c, kind, "none")
         \/ \E kind \in {"set", "clear"}, key \in Emulated : ToolBegins(c, kind, key)
         \/ Reopens(c) \/ GatedNavigate(c) \/ GateReads(c) \/ GateJudges(c) \/ AwaitPolls(c)
         \/ Applies(c) \/ NotesEmulation(c)
    \/ FullPageScreenshot
    \/ \E t \in HandTabs : PersonCloses(t) \/ \E p \in Facings : PersonActs(t, p)

-----------------------------------------------------------------------------
HandTypeOK ==
    /\ tabs \in HandTabs /\ own \in 1..tabs /\ gone \subseteq 1..tabs
    /\ facing \in [HandTabs -> Facings] /\ worn \in [HandTabs -> SUBSET Emulated]
    /\ noted \in BOOLEAN /\ handedTo \in HandCallers \cup {NoOne} /\ emulating \subseteq Emulated

(* What session_status says is so.  A bot check is named for as long as the  *)
(* calls have heard of one and none has heard that it is over, whatever was  *)
(* read in between, or could not be.  A hand-off is named only while one     *)
(* waits, and its own one unless two overlap.  Emulation is named if it is   *)
(* on the client's page, unless the tab was replaced, a command failed, two  *)
(* calls overlap or a full-page screenshot was taken since it was last set   *)
(* or cleared.                                                               *)
HandStatus == [challenge |-> noted, handoff |-> handedTo, emulation |-> emulating]

StatusTrue ==
    /\ HandStatus.challenge = owed
    /\ HandStatus.handoff # NoOne => ToolAt(handedTo, "poll")
    /\ \A c \in HandCallers \ crossed : ToolAt(c, "poll") => HandStatus.handoff = c
    /\ \A k \in Emulated \ blurred :
         (\A c \in HandCallers : ~(ToolAt(c, "applied") /\ tool[c].key = k)) /\ own \notin gone =>
             (k \in HandStatus.emulation <=> k \in worn[own])

=============================================================================
