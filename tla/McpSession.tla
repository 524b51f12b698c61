----------------------------- MODULE McpSession -----------------------------
(***************************************************************************)
(* Which tab a tool call of the MCP server acts on                         *)
(* (src/src/mcp_server/tools.py).  The server keeps one session, opened by *)
(* the first call and replaced when its tab is gone; the calls of a client *)
(* are coroutines and may overlap.  A client that is moved to another tab  *)
(* hears of it in the result of a call (src/src/mcp_server/server.py).     *)
(*                                                                         *)
(* An action is a stretch of code between two awaits.  What the probe of a *)
(* tab says is left open: a browser that cannot be reached counts as a tab *)
(* that is there, a connection that fails as one that is not.  So is when  *)
(* the registry drops a session, by its age or to make room.               *)
(***************************************************************************)
EXTENDS Naturals

CONSTANTS
    ToolCalls,     (* tool calls that may be under way at once                *)
    McpSessions,   (* sessions of the registry, each with its tab             *)
    NoSession

ASSUME McpAssumption == NoSession \notin McpSessions

VARIABLES
    cached,        (* _MCP_SESSION["session"]                                 *)
    registered,    (* sessions of this server in the registry                 *)
    notices,       (* _NOTICES: sessions reported lost, not heard of yet      *)
    call,          (* per call: where it has got to, and its session          *)
    told,          (* history: sessions the client has heard are lost         *)
    displaced,     (* history: sessions that lost their place in the cache to *)
                   (* a call that did not look at them                        *)
    lastTab        (* history: the session of the last result                 *)

mcpVars == <<cached, registered, notices, call, told, displaced, lastTab>>

Maybe == McpSessions \cup {NoSession}
AtRestCall == [at |-> "idle", on |-> NoSession]

McpTypeOK ==
    /\ cached \in Maybe
    /\ registered \subseteq McpSessions
    /\ notices \subseteq McpSessions
    /\ call \in [ToolCalls -> [at : {"idle", "probing", "dropping", "replacing",
                                     "minting", "running"}, on : Maybe]]
    /\ told \subseteq McpSessions
    /\ displaced \subseteq McpSessions
    /\ lastTab \in Maybe

McpInit ==
    /\ cached = NoSession
    /\ registered = {} /\ notices = {} /\ told = {} /\ displaced = {}
    /\ call = [c \in ToolCalls |-> AtRestCall]
    /\ lastTab = NoSession

CallTo(c, at, s) == call' = [call EXCEPT ![c] = [at |-> at, on |-> s]]

(* The cache is set to s, whatever another call has put there meanwhile; that *)
(* call looked at `seen`.                                                     *)
Caches(s, seen) ==
    /\ cached' = s
    /\ displaced' = displaced \cup ({cached} \ {s, seen, NoSession})

(* The tab of s is gone: forget it ...                                        *)
Loses(c, s) ==
    /\ Caches(NoSession, s)
    /\ CallTo(c, "dropping", s)

(* _mcp_session, which a tool calls first and may call again.                 *)
Resolves(c) ==
    /\ call[c].at \in {"idle", "running"}
    /\ IF cached = NoSession
       THEN CallTo(c, "minting", NoSession) /\ UNCHANGED <<cached, displaced>>
       ELSE IF cached \in registered
       THEN CallTo(c, "probing", cached) /\ UNCHANGED <<cached, displaced>>
       ELSE Loses(c, cached)
    /\ UNCHANGED <<registered, notices, told, lastTab>>

(* _session_tab_alive has answered for the session it was asked about.        *)
ProbeEnds(c) ==
    /\ call[c].at = "probing"
    /\ \/ CallTo(c, "running", call[c].on) /\ UNCHANGED <<cached, displaced>>
       \/ Loses(c, call[c].on)
    /\ UNCHANGED <<registered, notices, told, lastTab>>

DestroysNothing(c) ==                                   (* mutant of Destroys *)
    /\ call[c].at = "dropping"
    /\ CallTo(c, "replacing", call[c].on)
    /\ UNCHANGED <<cached, registered, notices, told, displaced, lastTab>>

(* ... destroy its session ...                                                *)
Destroys(c) ==
    /\ call[c].at = "dropping"
    /\ registered' = registered \ {call[c].on}
    /\ CallTo(c, "replacing", call[c].on)
    /\ UNCHANGED <<cached, notices, told, displaced, lastTab>>

InCalls == {call[c].on : c \in ToolCalls}
FreshIds == McpSessions \ ({cached, lastTab} \cup registered \cup notices \cup InCalls)

(* A new session, for call c.                                                 *)
Opens(c) ==
    /\ FreshIds # {}                                    (* bound              *)
    /\ LET s == CHOOSE s \in FreshIds : TRUE
       IN /\ registered' = registered \cup {s}
          /\ cached' = s
          /\ displaced' = (displaced \cup ({cached} \ {NoSession})) \ {s}
          /\ told' = told \ {s}
          /\ CallTo(c, "running", s)
    /\ UNCHANGED lastTab

(* ... open another one, and leave word.                                      *)
Replaces(c) ==
    /\ call[c].at = "replacing"
    /\ Opens(c)
    /\ notices' = notices \cup {call[c].on}

ReplaceFailsSilently(c) ==                          (* mutant of ReplaceFails *)
    /\ call[c].at = "replacing"
    /\ CallTo(c, "minting", NoSession)
    /\ UNCHANGED <<cached, registered, notices, told, displaced, lastTab>>

ReplaceFails(c) ==
    /\ call[c].at = "replacing"
    /\ notices' = notices \cup {call[c].on}
    /\ CallTo(c, "minting", NoSession)
    /\ UNCHANGED <<cached, registered, told, displaced, lastTab>>

(* run_op opens the first session, and session_hook caches it ...             *)
Mints(c) ==
    /\ call[c].at = "minting"
    /\ Opens(c)
    /\ UNCHANGED notices

(* ... or it cannot, and runs on the default client.                          *)
MintFails(c) ==
    /\ call[c].at = "minting"
    /\ CallTo(c, "running", NoSession)
    /\ UNCHANGED <<cached, registered, notices, told, displaced, lastTab>>

(* The result takes the notices along.                                        *)
CallEnds(c) ==
    /\ call[c].at = "running"
    /\ told' = told \cup notices
    /\ notices' = {}
    /\ lastTab' = IF call[c].on = NoSession THEN lastTab ELSE call[c].on
    /\ call' = [call EXCEPT ![c] = AtRestCall]
    /\ UNCHANGED <<cached, registered, displaced>>

RegistryDrops(s) ==
    /\ s \in registered
    /\ registered' = registered \ {s}
    /\ UNCHANGED <<cached, notices, call, told, displaced, lastTab>>

McpNext ==
    \/ \E c \in ToolCalls :
         \/ Resolves(c) \/ ProbeEnds(c) \/ Destroys(c)
         \/ Replaces(c) \/ ReplaceFails(c) \/ Mints(c) \/ MintFails(c)
         \/ CallEnds(c)
    \/ \E s \in McpSessions : RegistryDrops(s)

McpSpec == McpInit /\ [][McpNext]_mcpVars

-----------------------------------------------------------------------------
(* Sessions that a call under way has found gone.                             *)
BeingLost == {call[c].on : c \in {d \in ToolCalls : call[d].at \in {"dropping", "replacing"}}}

(* If two results, one after the other, come from different tabs, the client *)
(* has heard that one of the two is gone, or a call under way is about to    *)
(* say so - unless overlapping calls have pushed one of them out of the      *)
(* cache (_mcp_session, take_notices).                                       *)
SwapAnnounced ==
    [][\A c \in ToolCalls :
         CallEnds(c) /\ NoSession \notin {call[c].on, lastTab} /\ call[c].on # lastTab =>
            {call[c].on, lastTab} \cap (told' \cup BeingLost \cup displaced) # {}]_mcpVars

(* No session is left behind: one that is in the registry is cached, or a    *)
(* call still has it, or overlapping calls have pushed it out of the cache   *)
(* (then it stays until it has been idle for its time).                      *)
NoneLeftBehind == registered \subseteq {cached} \cup InCalls \cup displaced

(* No tool call leaves a session behind that nobody closes, and a result     *)
(* that comes from another tab is announced (_mcp_session).                  *)
McpHolds == SwapAnnounced /\ []NoneLeftBehind

=============================================================================
