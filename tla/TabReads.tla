------------------------------ MODULE TabReads ------------------------------
(***************************************************************************)
(* Reading other tabs through one client (cdp_client.py): scan_all_tabs,   *)
(* which reads every tab over a connection of its own, a few at a time,    *)
(* and deep_scan_tab, which moves the client to the tab, then clicks its   *)
(* way through the sub-tabs of the page.  Readers overlap, while pages     *)
(* change and tabs are closed.                                             *)
(***************************************************************************)
EXTENDS Naturals, FiniteSets

CONSTANTS
    ReadTabs,        (* tabs of the browser                                  *)
    NoTab,           (* none                                                 *)
    FirstTab,        (* the tab the client starts on                         *)
    Readers,         (* callers of the client                                *)
    Scanners,        (* bound: those that scan all tabs, too                 *)
    MaxConcurrent,   (* max_concurrent: tabs read at a time                  *)
    MaxText,         (* bound: texts a page has, one after the other         *)
    SubTabs,         (* sub-tabs of a page, in its order: 1..SubTabs         *)
    LateSubTabs      (* those whose panel is only rendered after the click   *)

ASSUME TabReadsAssumption ==
    /\ FirstTab \in ReadTabs /\ NoTab \notin ReadTabs /\ Scanners \subseteq Readers
    /\ {MaxConcurrent, MaxText, SubTabs} \subseteq Nat \ {0} /\ LateSubTabs \subseteq 1..SubTabs
    /\ IsFiniteSet(ReadTabs)

VARIABLES
    present,     (* the tabs that are open                                   *)
    text,        (* the text of each page, by number                         *)
    panel,       (* the sub-tab each page shows                              *)
    owned,       (* the tab the client is on (_ws_tab_id, _active_tab_id)    *)
    fore,        (* the tab in the foreground                                *)
    reader       (* what each reader is doing, and was told                  *)

readVars == <<present, text, panel, owned, fore, reader>>

NotRead == [status |-> "none", text |-> 0]
Rests   == [does |-> "rest", tab |-> NoTab, from |-> NoTab, left |-> {}, stage |-> [t \in ReadTabs |-> "no"],
            got |-> [t \in ReadTabs |-> NotRead], seen |-> [t \in ReadTabs |-> {}],
            labels |-> <<>>, moved |-> FALSE]

ReadsInit ==
    /\ present = ReadTabs /\ text = [t \in ReadTabs |-> 1] /\ panel = [t \in ReadTabs |-> 1]
    /\ owned = FirstTab /\ fore = FirstTab
    /\ reader = [r \in Readers |-> Rests]

(* What a reader that is at work may have read of a page.                    *)
Sees(t, v) == reader' = [r \in Readers |->
    IF reader[r].does # "scan" THEN reader[r]
    ELSE [reader[r] EXCEPT !.seen[t] = @ \cup {v}]]
TextChanges(t) ==
    /\ t \in present /\ text[t] < MaxText
    /\ text' = [text EXCEPT ![t] = @ + 1] /\ Sees(t, text[t] + 1)
    /\ UNCHANGED <<present, panel, owned, fore>>
TabCloses(t) ==
    /\ t \in present \ {owned}     \* the client's own: see Routing
    /\ present' = present \ {t}
    /\ fore' = IF fore = t THEN owned ELSE fore
    /\ UNCHANGED <<text, panel, owned, reader>>

-----------------------------------------------------------------------------
(* scan_all_tabs: the tabs there are, read in batches.                       *)
ScanAll(r) ==
    /\ reader[r].does = "rest"
    /\ reader' = [reader EXCEPT ![r] = [Rests EXCEPT !.does = "scan", !.left = present,
                                          !.seen = [t \in ReadTabs |-> {text[t]}]]]
    /\ UNCHANGED <<present, text, panel, owned, fore>>

Reading(r) == {t \in ReadTabs : reader[r].stage[t] \in {"opens", "wakes", "reads"}}
NextBatch(r) ==
    /\ reader[r].does = "scan" /\ Reading(r) = {} /\ reader[r].left # {}
    /\ \E B \in SUBSET reader[r].left :
         /\ Cardinality(B) = IF Cardinality(reader[r].left) < MaxConcurrent
                             THEN Cardinality(reader[r].left) ELSE MaxConcurrent
         /\ reader' = [reader EXCEPT ![r] =
               [@ EXCEPT !.left = reader[r].left \ B,
                         !.stage = [t \in ReadTabs |-> IF t \in B THEN "opens"
                                                                 ELSE reader[r].stage[t]]]]
    /\ UNCHANGED <<present, text, panel, owned, fore>>

(* _scan_one: the answer of one tab.                                         *)
OneRead(r, t, status, txt) ==
    reader' = [reader EXCEPT ![r] =
        [@ EXCEPT !.stage[t] = "done", !.got[t] = [status |-> status, text |-> txt]]]

(* get_tab_content_direct: a connection to the tab; it is brought to the     *)
(* foreground; its text is read, or nothing where that takes too long, which *)
(* is answered as well; a tab that is closed, or the time of the whole, ends *)
(* it with an error.                                                         *)
OpensTab(r, t) ==
    /\ reader[r].stage[t] = "opens"
    /\ IF t \in present THEN reader' = [reader EXCEPT ![r].stage[t] = "wakes"]
                        ELSE OneRead(r, t, "error", 0)
    /\ UNCHANGED <<present, text, panel, owned, fore>>
WakesTab(r, t) ==
    /\ reader[r].stage[t] = "wakes"
    /\ fore' = IF t \in present THEN t ELSE fore
    /\ reader' = [reader EXCEPT ![r].stage[t] = "reads"]
    /\ UNCHANGED <<present, text, panel, owned>>
ReadsTab(r, t) ==
    /\ reader[r].stage[t] = "reads"
    /\ \/ t \in present /\ OneRead(r, t, "ok", text[t])
       \/ OneRead(r, t, "ok", 0)
    /\ UNCHANGED <<present, text, panel, owned, fore>>
TakesTooLong(r, t) ==
    /\ reader[r].stage[t] \in {"wakes", "reads"} /\ OneRead(r, t, "error", 0)
    /\ UNCHANGED <<present, text, panel, owned, fore>>
ScanEnds(r) ==
    /\ reader[r].does = "scan" /\ Reading(r) = {} /\ reader[r].left = {}
    /\ reader' = [reader EXCEPT ![r].does = "scanned"]
    /\ UNCHANGED <<present, text, panel, owned, fore>>
AnswerForgotten(r) ==
    /\ reader[r].does \in {"scanned", "deep"} /\ reader' = [reader EXCEPT ![r] = Rests]
    /\ UNCHANGED <<present, text, panel, owned, fore>>

-----------------------------------------------------------------------------
(* deep_scan_tab: the client moves to the tab, for good; another reader of   *)
(* it may move it on before the page is read.                                *)
DeepScan(r, t) ==
    /\ reader[r].does = "rest"
    /\ reader' = [reader EXCEPT ![r] = [Rests EXCEPT !.does = "moves", !.tab = t]]
    /\ UNCHANGED <<present, text, panel, owned, fore>>
Moves(r) ==
    LET t == reader[r].tab IN
    /\ reader[r].does = "moves"
    /\ IF t \in present
       THEN /\ owned' = t /\ fore' = t
            /\ reader' = [q \in Readers |->
                  IF q = r THEN [reader[r] EXCEPT !.does = "clicks"]
                  ELSE IF t # owned THEN [reader[q] EXCEPT !.moved = @ \/ reader[q].does = "clicks"]
                  ELSE reader[q]]
       ELSE reader' = [reader EXCEPT ![r] = Rests] /\ UNCHANGED <<owned, fore>>
    /\ UNCHANGED <<present, text, panel>>

PanelShowing(l, showing) == showing             (* mutant of PanelFound *)

(* One script: it clicks a sub-tab, waits for its panel without ever letting *)
(* the page run, takes the panel that shows if there is no such one, and     *)
(* goes on.  What was clicked last shows in the end.                         *)
PanelFound(l, showing) == IF l \in LateSubTabs THEN showing ELSE l
Extracted(first) ==
    LET showing[l \in 0..SubTabs] == IF l = 0 THEN first ELSE PanelFound(l, showing[l - 1])
    IN [l \in 1..SubTabs |-> showing[l]]
ClicksThrough(r) ==
    /\ reader[r].does = "clicks"
    /\ reader' = [reader EXCEPT ![r] =
          [@ EXCEPT !.does = "deep", !.from = owned, !.labels = Extracted(panel[owned])]]
    /\ panel' = [panel EXCEPT ![owned] = SubTabs]
    /\ UNCHANGED <<present, text, owned, fore>>

ReadsNext ==
    \/ \E t \in ReadTabs : TextChanges(t) \/ TabCloses(t)
    \/ \E r \in Readers :
         \/ (r \in Scanners /\ ScanAll(r)) \/ NextBatch(r) \/ ScanEnds(r) \/ AnswerForgotten(r) \/ Moves(r) \/ ClicksThrough(r)
         \/ \E t \in ReadTabs : \/ OpensTab(r, t) \/ WakesTab(r, t) \/ ReadsTab(r, t)
                                \/ TakesTooLong(r, t) \/ DeepScan(r, t)

-----------------------------------------------------------------------------
ReadsTypeOK ==
    /\ present \subseteq ReadTabs /\ {owned, fore} \subseteq ReadTabs
    /\ text \in [ReadTabs -> 1..MaxText] /\ panel \in [ReadTabs -> 1..SubTabs]
    /\ \A r \in Readers : Cardinality(Reading(r)) <= MaxConcurrent

(* A scan answers for every tab it found, and what it tells of one's text    *)
(* the tab showed while the scan ran, wherever the client went meanwhile.  A *)
(* deep scan tells of the tab it was asked for, unless another one moved the *)
(* client after it; and of a sub-tab its own panel, unless that came late.   *)
ReadsTrue ==
    /\ {owned, fore} \subseteq present
    /\ \A r \in Readers : LET w == reader[r] IN
        /\ w.does = "scanned" =>
             /\ \A t \in present : w.got[t].status # "none"
             /\ \A t \in ReadTabs : w.got[t].text \in w.seen[t] \cup {0}
        /\ w.does = "deep" =>
             /\ w.moved \/ w.from = w.tab
             /\ \A l \in 1..SubTabs : w.labels[l] = l \/ l \in LateSubTabs

=============================================================================
