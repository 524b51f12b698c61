---------------------------- MODULE Interception ----------------------------
(***************************************************************************)
(* Request mocks and network blocks of one CDPClient                       *)
(* (src/src/cdp_client.py).  Both switch on the Fetch domain of Chrome,    *)
(* which then pauses every request of the page until the client says what  *)
(* to do with it.  The listener starts a task for a paused request, and    *)
(* the task fails, fulfils or continues it.                                *)
(*                                                                         *)
(* A pattern is the set of requests it matches.  A command takes effect in *)
(* Chrome when it is sent; its reply, and what the client does then, is a  *)
(* step of its own.  Chrome continues what is paused when the domain is    *)
(* switched off or the connection goes.                                    *)
(***************************************************************************)
EXTENDS FiniteSets

CONSTANTS
    Loads,         (* requests a page makes, again and again                  *)
    Documents,     (* those of resource type Document                         *)
    Setters        (* callers of set_request_mocks and set_network_block      *)

ASSUME InterceptionAssumption == Documents \subseteq Loads

VARIABLES
    requestMocks,  (* _request_mocks: the requests they match                 *)
    blockPatterns, (* _block_patterns: the requests they match                *)
    fetchEnabled,  (* _fetch_enabled                                          *)
    fetchDomain,   (* the Fetch domain of Chrome is on for this connection    *)
    phase,         (* per request: where it has got to                        *)
    events,        (* Fetch.requestPaused events that nobody has read         *)
    handlers,      (* requests with a _handle_fetch_paused task               *)
    unanswered,    (* history: paused requests whose event started no task    *)
    refused,       (* history: paused requests whose answer failed            *)
    setter         (* per caller: the command it waits for                    *)

patternVars == <<requestMocks, blockPatterns>>
pageVars == <<phase, events, handlers, unanswered, refused>>
fetchVars == <<patternVars, fetchEnabled, fetchDomain, pageVars, setter>>

Outcomes == {"failed", "fulfilled", "continued"}

FetchTypeOK ==
    /\ requestMocks \subseteq Loads
    /\ blockPatterns \subseteq Loads
    /\ fetchEnabled \in BOOLEAN
    /\ fetchDomain \in BOOLEAN
    /\ phase \in [Loads -> {"none", "paused"} \cup Outcomes]
    /\ events \subseteq Loads
    /\ handlers \subseteq Loads
    /\ unanswered \subseteq Loads
    /\ refused \subseteq Loads
    /\ setter \in [Setters -> {"idle", "enabling", "disabling"}]

FetchInit ==
    /\ requestMocks = {}
    /\ blockPatterns = {}
    /\ fetchEnabled = FALSE
    /\ fetchDomain = FALSE
    /\ phase = [r \in Loads |-> "none"]
    /\ events = {}
    /\ handlers = {}
    /\ unanswered = {}
    /\ refused = {}
    /\ setter = [c \in Setters |-> "idle"]

Paused == {r \in Loads : phase[r] = "paused"}

(* Chrome lets go of what it has paused.                                      *)
Released == [r \in Loads |-> IF r \in Paused THEN "continued" ELSE phase[r]]

Enable(c) ==
    /\ fetchDomain' = TRUE
    /\ setter' = [setter EXCEPT ![c] = "enabling"]
    /\ UNCHANGED <<fetchEnabled, pageVars>>

Disable ==
    /\ fetchDomain' = FALSE
    /\ phase' = Released
    /\ unanswered' = {} /\ refused' = {}
    /\ UNCHANGED <<fetchEnabled, events, handlers>>

(* set_request_mocks: no mocks switch the domain off, whatever is blocked,    *)
(* and the flag stays.                                                        *)
SetMocks(c, matched) ==
    /\ setter[c] = "idle"
    /\ requestMocks' = matched
    /\ IF matched = {} THEN Disable /\ UNCHANGED setter
       ELSE IF ~fetchEnabled THEN Enable(c)
       ELSE UNCHANGED <<fetchEnabled, fetchDomain, pageVars, setter>>
    /\ UNCHANGED blockPatterns

(* set_network_block                                                          *)
SetBlocks(c, matched) ==
    /\ setter[c] = "idle"
    /\ blockPatterns' = matched
    /\ IF matched = {} /\ requestMocks = {}
       THEN Disable /\ setter' = [setter EXCEPT ![c] = "disabling"]
       ELSE IF matched # {} /\ ~fetchEnabled THEN Enable(c)
       ELSE UNCHANGED <<fetchEnabled, fetchDomain, pageVars, setter>>
    /\ UNCHANGED requestMocks

SetterReturns(c) ==
    /\ setter[c] # "idle"
    /\ fetchEnabled' = (setter[c] = "enabling")
    /\ setter' = [setter EXCEPT ![c] = "idle"]
    /\ UNCHANGED <<patternVars, fetchDomain, pageVars>>

(* A connection that was lost is replaced by another: the flag does not know. *)
Reconnects ==
    /\ fetchDomain' = FALSE
    /\ phase' = Released
    /\ events' = {}
    /\ unanswered' = {} /\ refused' = {}
    /\ setter' = [c \in Setters |-> "idle"]
    /\ UNCHANGED <<patternVars, fetchEnabled, handlers>>

(* A request that is issued anew has an id of its own.                        *)
PageRequests(r) ==
    /\ r \notin Paused \cup events \cup handlers
    /\ phase' = [phase EXCEPT ![r] = IF fetchDomain THEN "paused" ELSE "continued"]
    /\ events' = IF fetchDomain THEN events \cup {r} ELSE events
    /\ UNCHANGED <<patternVars, fetchEnabled, fetchDomain, handlers, unanswered, refused, setter>>

(* The listener starts a task only while there are mocks.                     *)
ListenerHears(r) ==
    /\ r \in events
    /\ events' = events \ {r}
    /\ IF requestMocks # {}
       THEN handlers' = handlers \cup {r} /\ UNCHANGED unanswered
       ELSE unanswered' = unanswered \cup ({r} \cap Paused) /\ UNCHANGED handlers
    /\ UNCHANGED <<patternVars, fetchEnabled, fetchDomain, phase, refused, setter>>

VerdictMatched(r) ==                                    (* mutant of Verdict  *)
    IF r \in Documents THEN "continued"
    ELSE IF r \in blockPatterns THEN "failed"
    ELSE IF r \in requestMocks THEN "fulfilled"
    ELSE phase[r]

(* A document always passes; a block comes before a mock; what matches        *)
(* nothing goes on to the network.                                            *)
Verdict(r) ==
    IF r \in Documents THEN "continued"
    ELSE IF r \in blockPatterns THEN "failed"
    ELSE IF r \in requestMocks THEN "fulfilled"
    ELSE "continued"

(* _handle_fetch_paused: for a request that is not paused any more Chrome     *)
(* returns an error, which is ignored.                                        *)
Handles(r) ==
    /\ r \in handlers
    /\ handlers' = handlers \ {r}
    /\ phase' = IF r \in Paused THEN [phase EXCEPT ![r] = Verdict(r)] ELSE phase
    /\ UNCHANGED <<patternVars, fetchEnabled, fetchDomain, events, unanswered, refused, setter>>

(* The answer fails: Chrome refuses it or it times out, which is only logged, *)
(* or the status of the mock is no number, which ends the task.  Nobody tries *)
(* again.                                                                     *)
HandlingFails(r) ==
    /\ r \in handlers
    /\ handlers' = handlers \ {r}
    /\ refused' = refused \cup ({r} \cap Paused)
    /\ UNCHANGED <<patternVars, fetchEnabled, fetchDomain, phase, events, unanswered, setter>>

FetchNext ==
    \/ \E c \in Setters :
         \/ \E matched \in SUBSET Loads : SetMocks(c, matched) \/ SetBlocks(c, matched)
         \/ SetterReturns(c)
    \/ Reconnects
    \/ \E r \in Loads : PageRequests(r) \/ ListenerHears(r) \/ Handles(r) \/ HandlingFails(r)

FetchFairness ==
    /\ \A c \in Setters : WF_fetchVars(SetterReturns(c))
    /\ \A r \in Loads : WF_fetchVars(ListenerHears(r) \/ Handles(r) \/ HandlingFails(r))

FetchSpec == FetchInit /\ [][FetchNext]_fetchVars /\ FetchFairness

-----------------------------------------------------------------------------
(* However mocks and blocks are set and the connection is replaced while a   *)
(* request is paused, it waits for ever for two reasons only.  Its event came *)
(* while there were no mocks: the listener starts no task then (_listener),   *)
(* whatever is blocked, although set_network_block says that what it blocks   *)
(* is "failed immediately".  Or its task could not answer: the failure is     *)
(* swallowed and nobody answers again (_handle_fetch_paused).                 *)
HandledRequestEnds ==
    \A r \in Loads : r \in Paused ~> (r \notin Paused \/ r \in unanswered \/ r \in refused)

=============================================================================
