--------------------------- MODULE SessionRegistry ---------------------------
(***************************************************************************)
(* The session registry of browser-helper (src/src/session_registry.py)    *)
(* and the request path that uses it (src/src/main.py): every client owns  *)
(* one session, every session one Chrome tab.                              *)
(*                                                                         *)
(* The service is one asyncio event loop, so a coroutine runs alone from   *)
(* one await to the next.  An action is such a stretch of code: it starts  *)
(* when the awaited call (a CDP HTTP request, a WebSocket connect, a       *)
(* finished coroutine) returns and ends at the next await.  What Chrome    *)
(* does for a request happens in the step that consumes its answer, except *)
(* for the tab a create or a heal opens: Chrome has that tab while the     *)
(* coroutine is still connecting to it.                                    *)
(*                                                                         *)
(* Session ids are uuids and tab ids are Chrome's, so a new one differs    *)
(* from every earlier one.  Here an id is new when nothing refers to it    *)
(* any more, which lets a finite set of ids serve an endless run.  pc[s]   *)
(* is the life of the session that has id s, from the create() that mints  *)
(* it to the destroy() that removes it.                                    *)
(***************************************************************************)
EXTENDS Naturals, FiniteSets

CONSTANTS
    Sids,          (* session ids                                             *)
    Reaper,        (* the background TTL reaper task                          *)
    NoSid,         (* "no session": the lock is free, nobody is waited for    *)
    MaxSessions,   (* max_sessions, BH_MAX_SESSIONS                           *)
    TabBudget,     (* BH_MAX_TABS, 0 = unlimited                              *)
    ActiveWindow,  (* ACTIVE_WINDOW_S, in ticks                               *)
    Ttl,           (* ttl, in ticks                                           *)
    MaxTabs,       (* bound: tabs in existence or referred to at a time       *)
    Overlap,       (* bound: operations in progress when another one starts   *)
    Callers,       (* the sessions whose clients send requests after create   *)
    Faults         (* what may go wrong: subset of FaultKinds                 *)

FaultKinds == {"list", "open", "connect", "close", "person"}

ASSUME RegistryAssumption ==
    /\ IsFiniteSet(Sids)
    /\ Reaper \notin Sids
    /\ NoSid \notin Sids \cup {Reaper}
    /\ MaxSessions \in Nat \ {0}
    /\ TabBudget \in Nat
    /\ ActiveWindow \in Nat
    /\ Ttl \in Nat
    /\ MaxTabs \in Nat \ {0}
    /\ Overlap \in Nat \ {0}
    /\ Callers \subseteq Sids
    /\ Faults \subseteq FaultKinds

NoTab == 0
Tabs == 1..MaxTabs

VARIABLES
    tabs,     (* page tabs Chrome has; {} means that headed Chrome exited     *)
    blank,    (* those of them at about:blank                                 *)
    anchor,   (* _anchor_tab_id                                               *)
    lock,     (* holder of SessionRegistry._lock                              *)
    pc,       (* per session: where its create, life and destroy have got to  *)
    tab,      (* Session.tab_id                                               *)
    age,      (* now - last_seen of a live session, saturating at OldestAge   *)
    conn,     (* the session's CDPClient holds a WebSocket                    *)
    victim,   (* the session the running create() evicts                      *)
    todo,     (* per sweep: the orphans it has listed and not closed yet      *)
    skip,     (* per anchor search: the tabs it may not adopt                 *)
    op,       (* per session: where its client's request has got to           *)
    newTab,   (* per request: the tab its heal has just opened                *)
    rpc,      (* where the reaper's pass has got to                           *)
    stale,    (* the reaper's list of expired sessions still to be destroyed  *)
    reaping   (* the session the reaper is destroying now                     *)

chromeVars == <<tabs, blank>>
requestVars == <<op, newTab>>
reaperVars == <<rpc, stale, reaping>>
vars == <<tabs, blank, anchor, lock, pc, tab, age, conn, victim,
          todo, skip, op, newTab, rpc, stale, reaping>>

-----------------------------------------------------------------------------
(* Phases of a session.  scan .. undo are create() under the lock,          *)
(* count .. close are destroy() after the pop.                              *)

CreatePhases == {"scan", "sweep", "evict", "open", "connect", "undo"}
DestroyPhases == {"count", "anchor", "mint", "close"}
Phases == {"none", "live"} \cup CreatePhases \cup DestroyPhases

Sweepers == Sids \cup {Reaper}

(* _sessions, and the tab ids of its sessions: destroy() pops its session    *)
(* before its first await, create() inserts it after its last.               *)
Live == {s \in Sids : pc[s] = "live"}
Owned == {tab[s] : s \in Live}

Connected(s) == conn[s] /\ tab[s] \in tabs

(* Ages past every threshold the code compares with are alike.               *)
OldestAge == IF ActiveWindow > Ttl THEN ActiveWindow ELSE Ttl + 1

(* A request to Chrome's HTTP endpoint of the given kind may fail: always    *)
(* when Chrome is gone, and otherwise if the fault is in play.               *)
MayFail(kind) == tabs = {} \/ kind \in Faults
MaySucceed == tabs # {}

(* The tabs anybody refers to: Chrome, the registry, or a coroutine.         *)
KnownTabs ==
    tabs \cup {anchor} \cup {tab[s] : s \in Sids} \cup {newTab[s] : s \in Sids}
        \cup UNION {todo[p] \cup skip[p] : p \in Sweepers}

(* Chrome opens page tab t, at about:blank.                                  *)
OpenNewTab(t) ==
    /\ t \in Tabs \ KnownTabs
    /\ \A u \in Tabs \ KnownTabs : t <= u
    /\ tabs' = tabs \cup {t}
    /\ blank' = blank \cup {t}

CloseTabsKeepBlank(closed) ==
    /\ tabs' = tabs \ closed
    /\ UNCHANGED blank

(* Chrome closes page tabs (an id it does not know is a 404).                *)
CloseTabs(closed) ==
    /\ tabs' = tabs \ closed
    /\ blank' = blank \ closed

(* Nobody holds the Session object of s any more once its destroy() is over  *)
(* and no request still runs on it.                                          *)
ReleaseIf(s, unused) ==
    tab' = IF unused THEN [tab EXCEPT ![s] = NoTab] ELSE tab

InProgress ==
    {s \in Sids : pc[s] \in CreatePhases \cup DestroyPhases \/ op[s] # "none"}
        \cup (IF rpc = "idle" THEN {} ELSE {Reaper})

(* The two bounds on what starts: Overlap, and tab ids left for what is in   *)
(* progress.                                                                 *)
Reserve == Cardinality(InProgress) + 1
MayStart ==
    /\ Cardinality(InProgress) < Overlap
    /\ Cardinality(Tabs \ KnownTabs) >= Reserve

-----------------------------------------------------------------------------
(* The orphan sweep of create() and of cleanup().                            *)

OrphansButNoAnchor == blank \ Owned
OrphansButNoOwner == blank \ {anchor}
Orphans == blank \ (Owned \cup {anchor})

SweepListsSpareAlways == {Orphans \ {kept} : kept \in tabs}

(* What a sweep lists: when every page tab is an orphan, one is spared.      *)
SweepLists ==
    IF Orphans = tabs THEN {tabs \ {kept} : kept \in tabs} ELSE {Orphans}

(* The list a sweep p works through; a failed GET /json lists nothing.       *)
ListOrphans(p) ==
    \/ /\ MaySucceed
       /\ \E list \in SweepLists : todo' = [todo EXCEPT ![p] = list]
    \/ /\ MayFail("list")
       /\ todo' = [todo EXCEPT ![p] = {}]

(* One close of the sweep's loop; an error only skips that tab.              *)
CloseOrphan(p) ==
    \E t \in todo[p] :
        /\ todo' = [todo EXCEPT ![p] = @ \ {t}]
        /\ \/ CloseTabs({t})
           \/ MayFail("close") /\ UNCHANGED chromeVars

-----------------------------------------------------------------------------
(* create() *)

(* No session and no coroutine has this id.                                  *)
Unused(s) ==
    pc[s] = "none" /\ op[s] = "none" /\ s \notin stale \cup {victim, reaping}

CreateBeginUnlocked(s) ==
    /\ Unused(s)
    /\ MayStart
    /\ lock' = s
    /\ pc' = [pc EXCEPT ![s] = "scan"]
    /\ UNCHANGED <<chromeVars, anchor, tab, age, conn, victim, todo, skip,
                   requestVars, reaperVars>>

(* The caller gets the lock and asks Chrome for its tabs.                    *)
CreateBegin(s) ==
    /\ Unused(s)
    /\ MayStart
    /\ lock = NoSid
    /\ lock' = s
    /\ pc' = [pc EXCEPT ![s] = "scan"]
    /\ UNCHANGED <<chromeVars, anchor, tab, age, conn, victim, todo, skip,
                   requestVars, reaperVars>>

CreateScan(s) ==
    /\ pc[s] = "scan"
    /\ ListOrphans(s)
    /\ pc' = [pc EXCEPT ![s] = "sweep"]
    /\ UNCHANGED <<chromeVars, anchor, lock, tab, age, conn, victim, skip,
                   requestVars, reaperVars>>

CreateSweep(s) ==
    /\ pc[s] = "sweep"
    /\ CloseOrphan(s)
    /\ UNCHANGED <<anchor, lock, pc, tab, age, conn, victim, skip,
                   requestVars, reaperVars>>

BudgetSpent == TabBudget # 0 /\ Cardinality(Live) >= TabBudget
AtCapacity == Cardinality(Live) >= MaxSessions
Idle == {s \in Live : age[s] >= ActiveWindow}

(* The idle sessions with the oldest last_seen.                              *)
LeastRecentlyUsed == {s \in Idle : \A other \in Idle : age[s] >= age[other]}

(* After the sweep: the tab budget, then _evict_lru up to the pop of its     *)
(* victim.  No await separates them.                                         *)
CreateRefuse(s) ==
    /\ pc[s] = "sweep"
    /\ todo[s] = {}
    /\ BudgetSpent \/ (AtCapacity /\ Idle = {})
    /\ pc' = [pc EXCEPT ![s] = "none"]
    /\ lock' = NoSid
    /\ UNCHANGED <<chromeVars, anchor, tab, age, conn, victim, todo, skip,
                   requestVars, reaperVars>>

CreateEvict(s) ==
    /\ pc[s] = "sweep"
    /\ todo[s] = {}
    /\ ~BudgetSpent
    /\ AtCapacity
    /\ \E v \in LeastRecentlyUsed :
        /\ victim' = v
        /\ pc' = [pc EXCEPT ![s] = "evict", ![v] = "count"]
        /\ age' = [age EXCEPT ![v] = 0]
    /\ UNCHANGED <<chromeVars, anchor, lock, tab, conn, todo, skip,
                   requestVars, reaperVars>>

CreateAdmit(s) ==
    /\ pc[s] = "sweep"
    /\ todo[s] = {}
    /\ ~BudgetSpent
    /\ ~AtCapacity
    /\ pc' = [pc EXCEPT ![s] = "open"]
    /\ UNCHANGED <<chromeVars, anchor, lock, tab, age, conn, victim, todo, skip,
                   requestVars, reaperVars>>

(* destroy() of the victim has returned.                                     *)
CreateEvicted(s) ==
    /\ pc[s] = "evict"
    /\ pc[victim] = "none"
    /\ victim' = NoSid
    /\ pc' = [pc EXCEPT ![s] = "open"]
    /\ UNCHANGED <<chromeVars, anchor, lock, tab, age, conn, todo, skip,
                   requestVars, reaperVars>>

(* PUT /json/new: the tab exists, no session owns it yet.                    *)
CreateOpen(s) ==
    /\ pc[s] = "open"
    /\ MaySucceed
    /\ \E t \in Tabs : OpenNewTab(t) /\ tab' = [tab EXCEPT ![s] = t]
    /\ pc' = [pc EXCEPT ![s] = "connect"]
    /\ UNCHANGED <<anchor, lock, age, conn, victim, todo, skip,
                   requestVars, reaperVars>>

CreateOpenFails(s) ==
    /\ pc[s] = "open"
    /\ MayFail("open")
    /\ pc' = [pc EXCEPT ![s] = "none"]
    /\ lock' = NoSid
    /\ UNCHANGED <<chromeVars, anchor, tab, age, conn, victim, todo, skip,
                   requestVars, reaperVars>>

(* connect_to_target() has attached: the session is inserted and the lock    *)
(* released without another await.  A url was given or not: the tab may have *)
(* left about:blank by now.                                                  *)
CreateConnect(s) ==
    /\ pc[s] = "connect"
    /\ tab[s] \in tabs
    /\ \/ UNCHANGED blank
       \/ blank' = blank \ {tab[s]}
    /\ conn' = [conn EXCEPT ![s] = TRUE]
    /\ age' = [age EXCEPT ![s] = 0]
    /\ pc' = [pc EXCEPT ![s] = "live"]
    /\ lock' = NoSid
    /\ UNCHANGED <<tabs, anchor, tab, victim, todo, skip,
                   requestVars, reaperVars>>

CreateConnectFails(s) ==
    /\ pc[s] = "connect"
    /\ tab[s] \notin tabs \/ "connect" \in Faults
    /\ pc' = [pc EXCEPT ![s] = "undo"]
    /\ UNCHANGED <<chromeVars, anchor, lock, tab, age, conn, victim, todo, skip,
                   requestVars, reaperVars>>

CreateUndoKeepsLock(s) ==
    /\ pc[s] = "undo"
    /\ CloseTabs({tab[s]})
    /\ tab' = [tab EXCEPT ![s] = NoTab]
    /\ pc' = [pc EXCEPT ![s] = "none"]
    /\ UNCHANGED <<anchor, lock, age, conn, victim, todo, skip,
                   requestVars, reaperVars>>

(* _close_unowned_tab(), then the error reaches the caller.                  *)
CreateUndo(s) ==
    /\ pc[s] = "undo"
    /\ \/ CloseTabs({tab[s]})
       \/ MayFail("close") /\ UNCHANGED chromeVars
    /\ tab' = [tab EXCEPT ![s] = NoTab]
    /\ pc' = [pc EXCEPT ![s] = "none"]
    /\ lock' = NoSid
    /\ UNCHANGED <<anchor, age, conn, victim, todo, skip,
                   requestVars, reaperVars>>

-----------------------------------------------------------------------------
(* The search of _ensure_anchor_tab(), for destroy() and for cleanup().      *)

AdoptableAny(p) == tabs

(* Page tabs the search may adopt: its list of owned tabs is the one it took *)
(* before it asked Chrome.                                                   *)
Adoptable(p) == tabs \ skip[p]

AdoptAnchor(p) ==
    /\ MaySucceed
    /\ \E t \in Adoptable(p) : anchor' = t

(* Where a search goes on whose GET /json has failed: one that raises ends it, *)
(* an answer that is not 200 lists nothing, and an anchor is minted.         *)
AfterNoList == IF "list" \in Faults THEN {"close", "mint"} ELSE {"close"}

MintAnchor ==
    /\ MaySucceed
    /\ \E t \in Tabs : OpenNewTab(t) /\ anchor' = t

-----------------------------------------------------------------------------
(* destroy() *)

(* The first stretch, for a caller that closes a session (POST               *)
(* /session/close, run_batch's cleanup, a lost MCP tab): the pop.            *)
DestroyBegin(s) ==
    /\ pc[s] = "live"
    /\ MayStart
    /\ pc' = [pc EXCEPT ![s] = "count"]
    /\ age' = [age EXCEPT ![s] = 0]
    /\ UNCHANGED <<chromeVars, anchor, lock, tab, conn, victim, todo, skip,
                   requestVars, reaperVars>>

(* _count_page_tabs() has answered (0 when it failed); the anchor search     *)
(* notes what it must not adopt before its own request.                      *)
DestroyCount(s) ==
    /\ pc[s] = "count"
    /\ \/ /\ Cardinality(tabs) > 1
          /\ pc' = [pc EXCEPT ![s] = "close"]
          /\ UNCHANGED skip
       \/ /\ Cardinality(tabs) <= 1 \/ "list" \in Faults
          /\ pc' = [pc EXCEPT ![s] = "anchor"]
          /\ skip' = [skip EXCEPT ![s] = Owned \cup {tab[s]}]
    /\ UNCHANGED <<chromeVars, anchor, lock, tab, age, conn, victim, todo,
                   requestVars, reaperVars>>

DestroyAnchor(s) ==
    /\ pc[s] = "anchor"
    /\ \/ AdoptAnchor(s) /\ pc' = [pc EXCEPT ![s] = "close"]
       \/ /\ MaySucceed
          /\ Adoptable(s) = {}
          /\ pc' = [pc EXCEPT ![s] = "mint"]
          /\ UNCHANGED anchor
       \/ /\ MayFail("list")
          /\ \E next \in AfterNoList : pc' = [pc EXCEPT ![s] = next]
          /\ UNCHANGED anchor
    /\ skip' = [skip EXCEPT ![s] = {}]
    /\ UNCHANGED <<chromeVars, lock, tab, age, conn, victim, todo,
                   requestVars, reaperVars>>

DestroyMint(s) ==
    /\ pc[s] = "mint"
    /\ \/ MintAnchor
       \/ MayFail("open") /\ UNCHANGED <<chromeVars, anchor>>
    /\ pc' = [pc EXCEPT ![s] = "close"]
    /\ UNCHANGED <<lock, tab, age, conn, victim, todo, skip,
                   requestVars, reaperVars>>

DestroyCloseClientFirst(s) ==
    /\ pc[s] = "close"
    /\ conn' = [conn EXCEPT ![s] = FALSE]
    /\ pc' = [pc EXCEPT ![s] = "none"]
    /\ ReleaseIf(s, op[s] = "none")
    /\ UNCHANGED <<chromeVars, anchor, lock, age, victim, todo, skip,
                   requestVars, reaperVars>>

(* client.close_tab() (a 404 counts as success, an error is swallowed), then *)
(* client.close().                                                           *)
DestroyClose(s) ==
    /\ pc[s] = "close"
    /\ \/ CloseTabs({tab[s]})
       \/ MayFail("close") /\ UNCHANGED chromeVars
    /\ conn' = [conn EXCEPT ![s] = FALSE]
    /\ pc' = [pc EXCEPT ![s] = "none"]
    /\ ReleaseIf(s, op[s] = "none")
    /\ UNCHANGED <<anchor, lock, age, victim, todo, skip,
                   requestVars, reaperVars>>

-----------------------------------------------------------------------------
(* The reaper: cleanup(), once per period.                                   *)

ExpiredLate == {s \in Live : age[s] > Ttl + 1}
Expired == {s \in Live : age[s] > Ttl}

(* From the list of sessions still to be destroyed to the next await: the    *)
(* pop of one of them (destroy() returns False at once for a session another *)
(* caller has popped) or, at the end of the loop, the safety net, an anchor  *)
(* search with nothing doomed.                                               *)
ReapOn(list) ==
    \/ \E s \in list \cap Live :
        /\ reaping' = s
        /\ stale' = (list \cap Live) \ {s}
        /\ pc' = [pc EXCEPT ![s] = "count"]
        /\ age' = [age EXCEPT ![s] = 0]
        /\ rpc' = "reap"
        /\ UNCHANGED skip
    \/ /\ list \cap Live = {}
       /\ reaping' = NoSid
       /\ stale' = {}
       /\ rpc' = "anchor"
       /\ skip' = [skip EXCEPT ![Reaper] = Owned]
       /\ UNCHANGED <<pc, age>>

(* The list of expired sessions is made once, before the first await.        *)
ReapBegin ==
    /\ rpc = "idle"
    /\ Cardinality(InProgress) < Overlap
    /\ \/ /\ Expired # {}
          /\ ReapOn(Expired)
       \/ /\ Expired = {}
          /\ rpc' = "scan"
          /\ UNCHANGED <<pc, age, skip, stale, reaping>>
    /\ UNCHANGED <<chromeVars, anchor, lock, tab, conn, victim, todo,
                   requestVars>>

(* The destroy() the loop was waiting for has returned.                      *)
ReapNext ==
    /\ rpc = "reap"
    /\ pc[reaping] = "none"
    /\ ReapOn(stale)
    /\ UNCHANGED <<chromeVars, anchor, lock, tab, conn, victim, todo,
                   requestVars>>

ReapAnchor ==
    /\ rpc = "anchor"
    /\ \/ AdoptAnchor(Reaper) /\ rpc' = "scan"
       \/ MaySucceed /\ Adoptable(Reaper) = {} /\ rpc' = "mint" /\ UNCHANGED anchor
       \/ /\ MayFail("list")
          /\ \E next \in AfterNoList : rpc' = IF next = "mint" THEN next ELSE "scan"
          /\ UNCHANGED anchor
    /\ skip' = [skip EXCEPT ![Reaper] = {}]
    /\ UNCHANGED <<chromeVars, lock, pc, tab, age, conn, victim, todo,
                   requestVars, stale, reaping>>

ReapMint ==
    /\ rpc = "mint"
    /\ \/ MintAnchor
       \/ MayFail("open") /\ UNCHANGED <<chromeVars, anchor>>
    /\ rpc' = "scan"
    /\ UNCHANGED <<lock, pc, tab, age, conn, victim, todo, skip,
                   requestVars, stale, reaping>>

ReapScan ==
    /\ rpc = "scan"
    /\ ListOrphans(Reaper)
    /\ rpc' = "sweep"
    /\ UNCHANGED <<chromeVars, anchor, lock, pc, tab, age, conn, victim, skip,
                   requestVars, stale, reaping>>

ReapSweep ==
    /\ rpc = "sweep"
    /\ CloseOrphan(Reaper)
    /\ UNCHANGED <<anchor, lock, pc, tab, age, conn, victim, skip,
                   requestVars, reaperVars>>

ReapEnd ==
    /\ rpc = "sweep"
    /\ todo[Reaper] = {}
    /\ rpc' = "idle"
    /\ UNCHANGED <<chromeVars, anchor, lock, pc, tab, age, conn, victim, todo,
                   skip, requestVars, stale, reaping>>

-----------------------------------------------------------------------------
(* A client's request: the session middleware, then run_op().                *)

(* session_middleware resolves the session with get(), which touches it; the *)
(* request keeps the Session object from here on.                            *)
RequestBegin(s) ==
    /\ s \in Callers
    /\ pc[s] = "live"
    /\ op[s] = "none"
    /\ MayStart
    /\ age' = [age EXCEPT ![s] = 0]
    /\ op' = [op EXCEPT ![s] = "ensure"]
    /\ UNCHANGED <<chromeVars, anchor, lock, pc, tab, conn, victim, todo, skip,
                   newTab, reaperVars>>

(* _ensure_browser(): the client is connected, or connects to its tab again; *)
(* a tab that is gone must be opened anew.                                   *)
RequestEnsure(s) ==
    /\ op[s] = "ensure"
    /\ \/ /\ tab[s] \in tabs
          /\ conn' = [conn EXCEPT ![s] = TRUE]
          /\ op' = [op EXCEPT ![s] = "run"]
       \/ /\ ~Connected(s)
          /\ tab[s] \notin tabs \/ "connect" \in Faults
          /\ op' = [op EXCEPT ![s] = "reopen"]
          /\ UNCHANGED conn
    /\ UNCHANGED <<chromeVars, anchor, lock, pc, tab, age, victim, todo, skip,
                   newTab, reaperVars>>

(* The heal: PUT /json/new ...                                               *)
RequestReopen(s) ==
    /\ op[s] = "reopen"
    /\ \/ /\ MaySucceed
          /\ \E t \in Tabs : OpenNewTab(t) /\ newTab' = [newTab EXCEPT ![s] = t]
          /\ op' = [op EXCEPT ![s] = "adopt"]
          /\ UNCHANGED tab
       \/ /\ MayFail("open")
          /\ op' = [op EXCEPT ![s] = "none"]
          /\ ReleaseIf(s, pc[s] = "none")
          /\ UNCHANGED <<chromeVars, newTab>>
    /\ UNCHANGED <<anchor, lock, pc, age, conn, victim, todo, skip,
                   reaperVars>>

(* ... then sess.tab_id = new_tab ...                                        *)
RequestAdopt(s) ==
    /\ op[s] = "adopt"
    /\ tab' = [tab EXCEPT ![s] = newTab[s]]
    /\ newTab' = [newTab EXCEPT ![s] = NoTab]
    /\ conn' = [conn EXCEPT ![s] = FALSE]
    /\ op' = [op EXCEPT ![s] = "attach"]
    /\ UNCHANGED <<chromeVars, anchor, lock, pc, age, victim, todo, skip,
                   reaperVars>>

(* ... and connect_to_target() has attached, or raised: the session has the  *)
(* new tab all the same.                                                     *)
RequestAttach(s) ==
    /\ op[s] = "attach"
    /\ \/ /\ tab[s] \in tabs
          /\ conn' = [conn EXCEPT ![s] = TRUE]
          /\ op' = [op EXCEPT ![s] = "run"]
          /\ UNCHANGED tab
       \/ /\ tab[s] \notin tabs \/ "connect" \in Faults
          /\ op' = [op EXCEPT ![s] = "none"]
          /\ ReleaseIf(s, pc[s] = "none")
          /\ UNCHANGED conn
    /\ UNCHANGED <<chromeVars, anchor, lock, pc, age, victim, todo, skip,
                   newTab, reaperVars>>

(* The operation itself, on the session's own client: a navigation leaves    *)
(* about:blank, any other operation, or one that fails, does not.            *)
RequestRun(s) ==
    /\ op[s] = "run"
    /\ \/ UNCHANGED blank
       \/ Connected(s) /\ blank' = blank \ {tab[s]}
    /\ op' = [op EXCEPT ![s] = "none"]
    /\ ReleaseIf(s, pc[s] = "none")
    /\ conn' = [conn EXCEPT ![s] = @ /\ pc[s] # "none"]
    /\ UNCHANGED <<tabs, anchor, lock, pc, age, victim, todo,
                   skip, newTab, reaperVars>>

-----------------------------------------------------------------------------
(* The environment. *)

Tick ==
    /\ \E s \in Live : age[s] < OldestAge
    /\ age' = [s \in Sids |->
                 IF s \in Live /\ age[s] < OldestAge THEN age[s] + 1 ELSE age[s]]
    /\ UNCHANGED <<chromeVars, anchor, lock, pc, tab, conn, victim, todo, skip,
                   requestVars, reaperVars>>

(* A person, or a page, closes a tab, never the browser's last one.          *)
PersonClosesTab ==
    /\ "person" \in Faults
    /\ MayStart
    /\ \E t \in tabs : tabs # {t} /\ CloseTabs({t})
    /\ UNCHANGED <<anchor, lock, pc, tab, age, conn, victim, todo, skip,
                   requestVars, reaperVars>>

(* ChromeManager.launch(), from the watchdog or the next request.            *)
Relaunch ==
    /\ tabs = {}
    /\ \E t \in Tabs : OpenNewTab(t)
    /\ UNCHANGED <<anchor, lock, pc, tab, age, conn, victim, todo, skip,
                   requestVars, reaperVars>>

-----------------------------------------------------------------------------
Init ==
    /\ tabs = {1}
    /\ blank = {1}
    /\ anchor = NoTab
    /\ lock = NoSid
    /\ pc = [s \in Sids |-> "none"]
    /\ tab = [s \in Sids |-> NoTab]
    /\ age = [s \in Sids |-> 0]
    /\ conn = [s \in Sids |-> FALSE]
    /\ victim = NoSid
    /\ todo = [p \in Sweepers |-> {}]
    /\ skip = [p \in Sweepers |-> {}]
    /\ op = [s \in Sids |-> "none"]
    /\ newTab = [s \in Sids |-> NoTab]
    /\ rpc = "idle"
    /\ stale = {}
    /\ reaping = NoSid

Create(s) ==
    \/ CreateBegin(s) \/ CreateScan(s) \/ CreateSweep(s) \/ CreateRefuse(s)
    \/ CreateEvict(s) \/ CreateAdmit(s) \/ CreateEvicted(s)
    \/ CreateOpen(s) \/ CreateOpenFails(s)
    \/ CreateConnect(s) \/ CreateConnectFails(s) \/ CreateUndo(s)

DestroyStep(s) ==
    DestroyCount(s) \/ DestroyAnchor(s) \/ DestroyMint(s) \/ DestroyClose(s)

ReapStep ==
    \/ ReapBegin \/ ReapNext \/ ReapAnchor \/ ReapMint
    \/ ReapScan \/ ReapSweep \/ ReapEnd

RequestStep(s) ==
    RequestEnsure(s) \/ RequestReopen(s) \/ RequestAdopt(s) \/ RequestAttach(s) \/ RequestRun(s)

Next ==
    \/ \E s \in Sids :
        Create(s) \/ DestroyBegin(s) \/ DestroyStep(s)
            \/ RequestBegin(s) \/ RequestStep(s)
    \/ ReapStep
    \/ Tick
    \/ PersonClosesTab
    \/ Relaunch

Spec == Init /\ [][Next]_vars

-----------------------------------------------------------------------------
(* Every variable keeps its type: in particular the tabs at about:blank are  *)
(* open ones and whoever is waited for is a session.                         *)
TypeOK ==
    /\ tabs \subseteq Tabs
    /\ blank \subseteq tabs
    /\ anchor \in Tabs \cup {NoTab}
    /\ lock \in Sids \cup {NoSid}
    /\ pc \in [Sids -> Phases]
    /\ tab \in [Sids -> Tabs \cup {NoTab}]
    /\ age \in [Sids -> 0..OldestAge]
    /\ conn \in [Sids -> BOOLEAN]
    /\ victim \in Sids \cup {NoSid}
    /\ todo \in [Sweepers -> SUBSET Tabs]
    /\ skip \in [Sweepers -> SUBSET (Tabs \cup {NoTab})]
    /\ op \in [Sids -> {"none", "ensure", "reopen", "adopt", "attach", "run"}]
    /\ newTab \in [Sids -> Tabs \cup {NoTab}]
    /\ rpc \in {"idle", "reap", "anchor", "mint", "scan", "sweep"}
    /\ stale \subseteq Sids
    /\ reaping \in Sids \cup {NoSid}

(* A create() between its first await and its end is the holder of the lock, *)
(* so there is at most one: no other coroutine releases a lock it does not   *)
(* hold, whatever ends early.                                                *)
LockHeld == \A s \in Sids : pc[s] \in CreatePhases => lock = s

(* The sessions there are, and those to come of creations that have passed   *)
(* the budget and the cap: between that decision and the insertion into      *)
(* _sessions lie three awaits.                                               *)
Taken == {s \in Sids : pc[s] \in {"live", "evict", "open", "connect"}}

(* The tab count never exceeds the cap (create's docstring) nor BH_MAX_TABS, *)
(* however creations, requests and the reaper interleave: a check made       *)
(* before the awaits of create() still holds when the session is inserted.   *)
SessionBound ==
    /\ Cardinality(Taken) <= MaxSessions
    /\ TabBudget # 0 => Cardinality(Taken) <= TabBudget

(* What the registry promises its clients, as an abstract specification:     *)
(* sessions are opened and closed one at a time, never more than the limit.  *)
Limit == IF TabBudget # 0 /\ TabBudget < MaxSessions THEN TabBudget ELSE MaxSessions
Slots == INSTANCE SessionSlots WITH open <- Live
ImplementsSlots == Slots!Spec

(* Headed Chrome exits when its last page tab closes: neither destroy() nor  *)
(* a sweep may take it away.                                                 *)
BrowserKept == tabs # {}

(* A tab that shows a page belongs to somebody: a session, live or being     *)
(* created or destroyed, or the heal that has just opened it.  No sweep      *)
(* closes such a tab, so a tab without an owner stays for good.              *)
NoStrayTab ==
    tabs \ blank \subseteq
        {tab[s] : s \in {x \in Sids : pc[x] \in {"live", "connect", "undo"} \cup DestroyPhases}}

(* The keep-warm anchor stays open: no sweep and no destroy closes the tab    *)
(* recorded as the anchor, only a person does.                               *)
AnchorKept ==
    [][(anchor \in tabs /\ anchor \notin tabs') => PersonClosesTab]_vars

(* A sweep closes tabs no live session owns ("Close about:blank tabs not     *)
(* owned by any live session").                                              *)
SweepSparesSessions ==
    [][\A p \in Sweepers : (todo[p] \ todo'[p]) \cap Owned \cap (tabs \ tabs') = {}]_vars

(* The reaper destroys sessions idle longer than the ttl, and no others.     *)
ReapedWasExpired ==
    [][\A s \in Sids : s \in Live /\ reaping' = s => age[s] > Ttl]_vars

-----------------------------------------------------------------------------
(* Every awaited call ends: the HTTP requests, the WebSocket connect and the *)
(* CDP commands all carry a timeout, and asyncio runs every ready task.  The *)
(* reaper's timer always fires again.  Clients, people and the clock owe     *)
(* nothing.                                                                  *)
CreateProgress(s) == pc[s] # "none" /\ Create(s)

Fairness ==
    /\ \A s \in Sids :
        /\ WF_vars(CreateProgress(s))
        /\ WF_vars(DestroyStep(s))
        /\ WF_vars(RequestStep(s))
    /\ WF_vars(ReapStep)

FairSpec == Spec /\ Fairness

(* The lock of create() is always released: the destroy() of the victim that *)
(* create() awaits while it holds the lock does not need the lock.           *)
CreateCompletes == \A s \in Sids : lock = s ~> lock # s

(* An expired session is used again or destroyed.                            *)
ExpiredReaped ==
    \A s \in Sids : (s \in Live /\ age[s] > Ttl) ~> ~(s \in Live /\ age[s] > Ttl)

(* A blank tab nobody owns is closed, adopted, or the browser's only one.    *)
OrphanSwept ==
    \A t \in Tabs : t \in Orphans ~> (t \notin Orphans \/ tabs = {t})

=============================================================================
