------------------------------- MODULE Routing -------------------------------
(***************************************************************************)
(* Which tab a request runs on (main.py): the session its cookie or header *)
(* names, the one minted for it, the shared default client, or the tab it  *)
(* names itself.  Sessions are minted and closed as SessionRegistry has    *)
(* it, here in one step each; what matters is who holds which client       *)
(* between the steps of a request.  A client program may have several      *)
(* requests under way that share its session, as the harness of the        *)
(* docstring of _session_id_from_request does.                             *)
(***************************************************************************)
EXTENDS Naturals, FiniteSets

CONSTANTS
    Clients,        (* programs that call the service                        *)
    PerClient,      (* bound: requests a program has under way at once       *)
    Warmer,         (* the keep-warm loop, which calls it too, one at a time *)
    Overlapping,    (* bound: what may be asked of the session of a program  *)
                    (* while another request of the program is under way     *)
    RouteIds,       (* session ids                                           *)
    NoId,           (* no session                                            *)
    MaxTabs,        (* bound: tabs opened                                    *)
    MaxSeats,       (* bound: sessions minted for one program                *)
    SharedTabs,     (* bound: tabs the default client is attached to         *)
    Hosting         (* bound: tabs that may show the host navigated to       *)

ASSUME RoutingAssumption ==
    /\ NoId \notin RouteIds /\ Warmer \notin Clients
    /\ PerClient \in Nat \ {0} /\ MaxTabs \in Nat \ {0} /\ MaxSeats \in Nat

VARIABLES
    opened,         (* tabs opened so far, numbered                          *)
    lostTabs,       (* those of them that are closed                         *)
    shared,         (* the default client: what it is attached to            *)
    seat,           (* the sessions and what their clients are attached to   *)
    jar,            (* the session id each program keeps                     *)
    ask             (* the requests under way                                *)

routeVars == <<opened, lostTabs, shared, seat, jar, ask>>

Nowhere  == 0                      (* not attached                           *)
Browser  == MaxTabs + 1            (* attached to the browser, not to a tab  *)
OpenTabs == (1..opened) \ lostTabs
Calls    == Clients \X (1..PerClient)
WarmCall == <<Warmer, 1>>
Askers   == Calls \cup {WarmCall}
Caller(c) == c[1]
Others(c) == {d \in Askers \ {c} : Caller(d) = Caller(c)}

(* `own` are the tabs that were opened for the session, `astray` is why its  *)
(* client may be attached to another one than `tab`, which is tab_id.        *)
Detours  == {"roamed", "crossed", "halfway"}
NoSeat   == [state |-> "unused", for |-> NoId, tab |-> Nowhere, own |-> {}, at |-> Nowhere, astray |-> {}]
NoAsk    == [pc |-> "idle", kind |-> "none", sid |-> NoId, auto |-> FALSE, want |-> Nowhere,
             via |-> "none", moved |-> FALSE]

RouteInit ==
    /\ opened = 1 /\ lostTabs = {}
    /\ shared \in {Nowhere, Browser}    (* lifespan: Chrome answers, or not  *)
    /\ seat = [s \in RouteIds |-> NoSeat]
    /\ jar = [c \in Clients |-> NoId] /\ ask = [c \in Askers |-> NoAsk]

Seated(s)           == seat[s].state = "live"
AskAt(c, pc)        == ask[c].pc = pc
AskGoes(c, goal)   == ask' = [ask EXCEPT ![c] = goal]
AskEnds(c)          == ask' = [ask EXCEPT ![c] = NoAsk]

(* What the client the request was given is attached to.                     *)
Runner(c) == LET a == ask[c] IN
             CASE a.via = "seat"   -> seat[a.sid].at
               [] a.via = "shared" -> shared
               [] OTHER            -> IF a.want \in OpenTabs THEN a.want ELSE Nowhere

-----------------------------------------------------------------------------
(* session_middleware: the session of the id the client sends, if it lives;  *)
(* `auto` is the wish to have one minted, which strict mode overrules.       *)
(* Operations go through run_op ("op") or _resolve_session_client            *)
(* ("direct"), ask about all tabs ("global"), or read a tab they name.       *)
AskArrives(c, kind, sid, auto, want) ==
    /\ AskAt(c, "idle")
    /\ LET known == sid # NoId /\ Seated(sid) IN
       AskGoes(c, [ask[c] EXCEPT !.pc = IF kind = "tab" THEN "find" ELSE "resolve", !.kind = kind,
                                 !.auto = auto /\ ~known, !.sid = IF known THEN sid ELSE NoId,
                                 !.want = want])
    /\ UNCHANGED <<opened, lostTabs, shared, seat, jar>>

(* create: an id never used before (which is of no account), a tab of its    *)
(* own, and a client attached to it.                                         *)
UnusedIds == {s \in RouteIds : seat[s].state = "unused"}
NewId     == CHOOSE s \in UnusedIds : TRUE
SeatsOf(k) == {s \in RouteIds : seat[s].for = k}
Minted(c) ==
    /\ UnusedIds # {} /\ opened < MaxTabs                (* bounds          *)
    /\ Cardinality(SeatsOf(Caller(c))) < MaxSeats
    /\ opened' = opened + 1
    /\ seat' = [seat EXCEPT ![NewId] = [state |-> "live", for |-> Caller(c), tab |-> opened',
                                        own |-> {opened'}, at |-> opened', astray |-> {}]]

(* A session of the caller, which POST /session/new uses again and           *)
(* navigates, or none for what asks about all tabs.                          *)
ResolveKnown(c) ==
    /\ AskAt(c, "resolve")
    /\ ask[c].sid # NoId \/ ask[c].kind = "global"
    /\ AskGoes(c, [ask[c] EXCEPT !.pc = "ensure",
                                 !.kind = IF @ = "global" THEN @ ELSE "op",
                                 !.via = IF ask[c].sid # NoId THEN "seat" ELSE "shared"])
    /\ UNCHANGED <<opened, lostTabs, shared, seat, jar>>

(* Without one: refused, unless it opted in to have one minted.              *)
Refuses(c) ==
    /\ AskAt(c, "resolve") /\ ask[c].sid = NoId /\ ask[c].kind \in {"op", "direct"} /\ ~ask[c].auto
    /\ AskEnds(c)
    /\ UNCHANGED <<opened, lostTabs, shared, seat, jar>>

AutoMints(c) ==
    /\ AskAt(c, "resolve") /\ ask[c].sid = NoId /\ ask[c].kind \in {"op", "direct"} /\ ask[c].auto
    /\ Minted(c)
    /\ AskGoes(c, [ask[c] EXCEPT !.pc = "ensure", !.kind = "op", !.via = "seat", !.sid = NewId,
                                 !.auto = FALSE])
    /\ UNCHANGED <<lostTabs, shared, jar>>

(* Minting fails: _resolve_session_client refuses, run_op goes on with the   *)
(* default client.                                                           *)
AutoMintFails(c) ==
    /\ AskAt(c, "resolve") /\ ask[c].sid = NoId /\ ask[c].kind \in {"op", "direct"} /\ ask[c].auto
    /\ IF ask[c].kind = "direct" THEN AskEnds(c)
       ELSE AskGoes(c, [ask[c] EXCEPT !.pc = "ensure", !.via = "shared"])
    /\ UNCHANGED <<opened, lostTabs, shared, seat, jar>>

(* POST /session/new without a session, or with a profile: another session,  *)
(* or none.  A client keeps the cookie of the answer or its header, which    *)
(* the middleware sets back to the session the client came with; the         *)
(* keep-warm loop keeps neither.                                             *)
SessionNew(c) ==
    /\ AskAt(c, "resolve") /\ ask[c].kind = "new"
    /\ \/ /\ Minted(c)
          /\ \E kept \in {NewId, ask[c].sid} \ {NoId} :
               jar' = [k \in Clients |-> IF k = Caller(c) THEN kept ELSE jar[k]]
       \/ UNCHANGED <<opened, seat, jar>>
    /\ AskEnds(c)
    /\ UNCHANGED <<lostTabs, shared>>

-----------------------------------------------------------------------------
(* A read of a named tab whose client moves may run elsewhere.               *)
Jolted(who) ==
    [c \in Askers |-> IF c \in who /\ ask[c].kind = "tab" /\ AskAt(c, "run")
                       THEN [ask[c] EXCEPT !.moved = TRUE] ELSE ask[c]]
Sitting(s) == {c \in Askers : ask[c].via = "seat" /\ ask[c].sid = s}
OnShared   == {c \in Askers : ask[c].via = "shared"}

(* _ensure_browser: a client that is connected is taken as it is; that of a  *)
(* session is attached to its tab again, or if that fails to a new one, the  *)
(* default client to the browser.  Either may fail.                          *)
EnsureConnected(c) ==
    /\ AskAt(c, "ensure") /\ Runner(c) # Nowhere
    /\ AskGoes(c, [ask[c] EXCEPT !.pc = "run"])
    /\ UNCHANGED <<opened, lostTabs, shared, seat, jar>>

(* The heal of a session's client, of which there may be several at once:    *)
(* launch, connect_to_target, _open_tab_http and connect_to_target again are *)
(* awaited one after the other.                                              *)
HealSteps == {"launch", "attach", "reopen", "settle"}
Healing(s) == {c \in Askers : ask[c].pc \in HealSteps /\ ask[c].sid = s}

SeatGoes(s, place) == seat' = [seat EXCEPT ![s] = place]

(* The tab of the client is closed, or its socket is gone although the tab is *)
(* there, which matters only here.                                           *)
HealBegins(c) ==
    /\ AskAt(c, "ensure") /\ ask[c].via = "seat"
    /\ LET s == ask[c].sid IN
       /\ SeatGoes(s, [seat[s] EXCEPT !.at = Nowhere, !.astray = IF Healing(s) = {} THEN {} ELSE @ \cup {"crossed"}])
       /\ AskGoes(c, [ask[c] EXCEPT !.pc = "launch"])
    /\ UNCHANGED <<opened, lostTabs, shared, jar>>

(* launch() is over, which may have failed; the tab is that of the session   *)
(* by then.                                                                  *)
HealLaunched(c) ==
    /\ AskAt(c, "launch")
    /\ AskGoes(c, [ask[c] EXCEPT !.pc = "attach", !.want = seat[ask[c].sid].tab])
    /\ UNCHANGED <<opened, lostTabs, shared, seat, jar>>

HealAttaches(c) ==
    /\ ask[c].pc \in {"attach", "settle"} /\ ask[c].want \in OpenTabs
    /\ LET s == ask[c].sid IN
       /\ SeatGoes(s, [seat[s] EXCEPT !.at = ask[c].want, !.astray = @ \cap {"crossed"}])
       /\ ask' = [Jolted(Sitting(s)) EXCEPT ![c] = [@ EXCEPT !.pc = "run", !.want = Nowhere]]
    /\ UNCHANGED <<opened, lostTabs, shared, jar>>

(* The tab is not listed; or the old socket is closed and no new one opens;  *)
(* or it opens, and the first command on it fails.                           *)
ConnectFails(s, t) ==
    \/ UNCHANGED seat
    \/ t \in OpenTabs /\ SeatGoes(s, [seat[s] EXCEPT !.at = Nowhere])
    \/ t \in OpenTabs /\ SeatGoes(s, [seat[s] EXCEPT !.at = t, !.astray = (@ \cap {"crossed"}) \cup {"halfway"}])

HealMissesTab(c) ==
    /\ AskAt(c, "attach")
    /\ ConnectFails(ask[c].sid, ask[c].want)
    /\ ask' = [Jolted(Sitting(ask[c].sid)) EXCEPT ![c] = [@ EXCEPT !.pc = "reopen"]]
    /\ UNCHANGED <<opened, lostTabs, shared, jar>>

(* A plausible mistake: the session keeps the tab that is gone.              *)
HealKeepsOldTab(c) ==
    /\ AskAt(c, "reopen")
    /\ opened < MaxTabs /\ opened' = opened + 1
    /\ LET s == ask[c].sid IN SeatGoes(s, [seat[s] EXCEPT !.own = @ \cup {opened'}])
    /\ AskGoes(c, [ask[c] EXCEPT !.pc = "settle", !.want = opened'])
    /\ UNCHANGED <<lostTabs, shared, jar>>

(* The session has the new tab before its client is attached to it.          *)
HealReopens(c) ==
    /\ AskAt(c, "reopen")
    /\ opened < MaxTabs /\ opened' = opened + 1                 (* bound    *)
    /\ LET s == ask[c].sid IN
       SeatGoes(s, [seat[s] EXCEPT !.tab = opened', !.own = @ \cup {opened'}])
    /\ AskGoes(c, [ask[c] EXCEPT !.pc = "settle", !.want = opened'])
    /\ UNCHANGED <<lostTabs, shared, jar>>

HealFails(c) ==
    /\ \/ AskAt(c, "reopen") /\ UNCHANGED seat
       \/ AskAt(c, "settle") /\ ConnectFails(ask[c].sid, ask[c].want)
    /\ ask' = [Jolted(Sitting(ask[c].sid)) EXCEPT ![c] = NoAsk]
    /\ UNCHANGED <<opened, lostTabs, shared, jar>>

EnsureAttachesShared(c) ==
    /\ AskAt(c, "ensure") /\ Runner(c) = Nowhere /\ ask[c].via = "shared"
    /\ shared' = Browser /\ AskGoes(c, [ask[c] EXCEPT !.pc = "run"])
    /\ UNCHANGED <<opened, lostTabs, seat, jar>>

EnsureFails(c) ==
    /\ AskAt(c, "ensure") /\ Runner(c) = Nowhere /\ ask[c].via = "shared"
    /\ AskEnds(c)
    /\ UNCHANGED <<opened, lostTabs, shared, seat, jar>>

-----------------------------------------------------------------------------
(* _assert_tab_exists, then _tab_client_for: the caller's client or the      *)
(* default one if it sits on the tab, otherwise one of the tab's own, kept   *)
(* while it is connected.                                                    *)
FindsTab(c) ==
    /\ AskAt(c, "find")
    /\ IF ask[c].want \in OpenTabs THEN AskGoes(c, [ask[c] EXCEPT !.pc = "pick"]) ELSE AskEnds(c)
    /\ UNCHANGED <<opened, lostTabs, shared, seat, jar>>

SitsOn(c) == IF ask[c].sid = NoId THEN FALSE ELSE seat[ask[c].sid].at = ask[c].want

PicksClient(c) ==
    /\ AskAt(c, "pick")
    /\ IF SitsOn(c)                     THEN AskGoes(c, [ask[c] EXCEPT !.pc = "run", !.via = "seat"])
       ELSE IF shared = ask[c].want     THEN AskGoes(c, [ask[c] EXCEPT !.pc = "run", !.via = "shared"])
       ELSE IF ask[c].want \in OpenTabs THEN AskGoes(c, [ask[c] EXCEPT !.pc = "run", !.via = "own"])
       ELSE AskEnds(c)
    /\ UNCHANGED <<opened, lostTabs, shared, seat, jar>>

-----------------------------------------------------------------------------
(* The operation runs on whatever the client is attached to by then; a page  *)
(* operation does not run on the browser's own socket.  The response gives   *)
(* the client its session.                                                   *)
CanRun(c) == AskAt(c, "run") /\ Runner(c) # Nowhere /\ (Runner(c) = Browser => ask[c].kind = "global")

Runs(c) ==
    /\ AskAt(c, "run")
    /\ jar' = [k \in Clients |-> IF k = Caller(c) /\ ask[c].sid # NoId THEN ask[c].sid ELSE jar[k]]
    /\ AskEnds(c)
    /\ UNCHANGED <<opened, lostTabs, shared, seat>>

-----------------------------------------------------------------------------
(* A navigation whose tab is not listed any more roams to the first tab that *)
(* shows the host, whosever it is; the session keeps its tab_id.             *)
NavigateRoams(s, t) ==
    /\ \E c \in Askers : AskAt(c, "run") /\ ask[c].sid = s /\ ask[c].via = "seat" /\ ask[c].kind = "op"
    /\ seat[s].at # Nowhere /\ t \in OpenTabs \cap Hosting /\ seat[s].at # t
    /\ SeatGoes(s, [seat[s] EXCEPT !.at = t, !.astray = @ \cup {"roamed"}])
    /\ ask' = Jolted(Sitting(s))
    /\ UNCHANGED <<opened, lostTabs, shared, jar>>

(* POST /connect attaches the default client to a page, whatever it is       *)
(* attached to; /browser/launch only when it is attached to nothing.         *)
ConnectShared(t) ==
    /\ t \in OpenTabs \cap SharedTabs /\ shared # t /\ shared' = t
    /\ ask' = Jolted(OnShared)
    /\ UNCHANGED <<opened, lostTabs, seat, jar>>

BrowserLaunch ==
    /\ shared = Nowhere /\ \E t \in OpenTabs \cap SharedTabs : shared' = t
    /\ ask' = Jolted(OnShared)
    /\ UNCHANGED <<opened, lostTabs, seat, jar>>

(* A tab closes: every client on it is disconnected.                         *)
Closes(t) ==
    /\ lostTabs' = lostTabs \cup ({t} \cap OpenTabs)
    /\ shared' = IF shared = t THEN Nowhere ELSE shared
Cut(t) == [s \in RouteIds |-> IF seat[s].at = t THEN [seat[s] EXCEPT !.at = Nowhere] ELSE seat[s]]

TabGoes(t) ==
    /\ t \in OpenTabs /\ Closes(t) /\ seat' = Cut(t)
    /\ UNCHANGED <<opened, jar, ask>>

(* POST /session/close, the reaper, or an eviction.                          *)
SessionEnds(s) ==
    /\ Seated(s) /\ Closes(seat[s].tab)
    /\ seat' = [Cut(seat[s].tab) EXCEPT ![s] =
                  IF \E c \in Askers : ask[c].sid = s THEN [@ EXCEPT !.state = "ended", !.at = Nowhere]
                  ELSE [NoSeat EXCEPT !.state = "ended", !.for = seat[s].for]]
    /\ UNCHANGED <<opened, jar, ask>>

(* _keep_warm: no live session was created for the page, so one is asked for. *)
KeepWarm ==
    /\ \A s \in RouteIds : ~(Seated(s) /\ seat[s].for = Warmer)
    /\ AskArrives(WarmCall, "new", NoId, FALSE, Nowhere)

ClientCalls(c) ==
    /\ \A d \in Others(c) : AskAt(d, "idle") => c[2] < d[2]          (* numbers mean nothing *)
    /\ \E kind \in {"op", "direct", "global", "new", "tab"}, sid \in {NoId, jar[Caller(c)]},
          auto \in BOOLEAN, want \in OpenTabs \cup {Nowhere} :
         /\ auto => kind \in {"op", "direct"}
         /\ (want # Nowhere) = (kind = "tab")
         /\ \A d \in Others(c) : AskAt(d, "idle") \/ (sid # NoId /\ {ask[d].kind, kind} \subseteq Overlapping)
         /\ AskArrives(c, kind, sid, auto, want)

RouteNext ==
    \/ KeepWarm
    \/ \E c \in Calls : ClientCalls(c)
    \/ \E c \in Askers :
         \/ ResolveKnown(c) \/ Refuses(c) \/ AutoMints(c) \/ AutoMintFails(c) \/ SessionNew(c)
         \/ EnsureConnected(c) \/ EnsureAttachesShared(c) \/ EnsureFails(c)
         \/ HealBegins(c) \/ HealLaunched(c) \/ HealAttaches(c) \/ HealMissesTab(c)
         \/ HealReopens(c) \/ HealFails(c)
         \/ FindsTab(c) \/ PicksClient(c) \/ Runs(c)
    \/ \E s \in RouteIds : SessionEnds(s) \/ \E t \in OpenTabs : NavigateRoams(s, t)
    \/ \E t \in OpenTabs : TabGoes(t) \/ ConnectShared(t)
    \/ BrowserLaunch

-----------------------------------------------------------------------------
RouteTypeOK ==
    /\ opened \in 1..MaxTabs /\ lostTabs \subseteq 1..opened /\ shared \in 0..Browser
    /\ \A c \in Askers : ask[c].sid \in RouteIds \cup {NoId}
    /\ \A c \in Clients : jar[c] \in RouteIds \cup {NoId}

(* An operation of a session runs on a tab that was opened for the session   *)
(* unless a navigation roamed with its client, and on the very tab the       *)
(* session names unless, since a heal of its client last began alone,        *)
(* another overlapped it, or one went on although its socket had opened (the *)
(* heal of _ensure_browser).  A read of a named tab runs on that tab unless  *)
(* its client moved meanwhile; the default client runs what asks about no    *)
(* tab, or an operation whose session could not be minted.  No program holds *)
(* the session of another, no tab was opened for two sessions, and the       *)
(* keep-warm loop never holds two.                                           *)
RunsAtHome ==
    /\ \A c \in Askers : CanRun(c) =>
         /\ ask[c].via = "seat" /\ ask[c].kind # "tab" =>
                LET place == seat[ask[c].sid] IN
                /\ "roamed" \notin place.astray => Runner(c) \in place.own
                /\ place.astray = {} => Runner(c) = place.tab
         /\ ask[c].kind = "tab" /\ ~ask[c].moved => Runner(c) = ask[c].want
         /\ ask[c].via = "shared" /\ ask[c].kind # "tab" =>
                ask[c].kind = "global" \/ (ask[c].kind = "op" /\ ask[c].auto)
    /\ \A s \in RouteIds :
         /\ \A c \in Askers : ask[c].sid = s => seat[s].for = Caller(c)
         /\ \A k \in Clients : jar[k] = s => seat[s].for = k
         /\ \A r \in RouteIds \ {s} :
              /\ seat[s].own \cap seat[r].own = {}
              /\ ~(Seated(s) /\ seat[s].for = Warmer /\ Seated(r) /\ seat[r].for = Warmer)

=============================================================================
