------------------------------ MODULE AgentActs ------------------------------
(***************************************************************************)
(* POST /agent/act (main.py): a click on a reference that an observation   *)
(* gave.  Between the observation and the click lie other sessions, which  *)
(* share the table of snapshots, and the page itself, which goes on.       *)
(***************************************************************************)
EXTENDS Naturals, Sequences, SequencesExt, FiniteSets, Lists

CONSTANTS
    Actors,         (* sessions with acts, one at a time each                *)
    NodeIds,        (* backend node ids; the tabs use the same numbers       *)
    MaxListed,      (* snapshots the table keeps (200)                       *)
    MaxPages        (* bound: documents a tab shows                          *)

ASSUME AgentActsAssumption ==
    /\ NodeIds \subseteq Nat /\ IsFiniteSet(NodeIds) /\ IsFiniteSet(Actors)
    /\ {MaxListed, MaxPages} \subseteq Nat \ {0}

VARIABLES
    tabPage,        (* the page of each session's tab                        *)
    listed,         (* ax_snapshots, in the order of the dictionary          *)
    sight,          (* what each session observed last                       *)
    deed            (* the act each session has under way                    *)

actVars == <<tabPage, listed, sight, deed>>

(* A snapshot is known by a hash of what it shows, the node ids included.    *)
Shown(p)     == [nodes |-> p.nodes, says |-> p.says]
Refs(s)      == 1..Cardinality(s.nodes)
NodeAt(s, r) == CHOOSE n \in s.nodes : Cardinality({m \in s.nodes : m < n}) = r - 1
Blank        == [nodes |-> {}, says |-> FALSE]

NoDeed == [step |-> "idle", way |-> "none", ref |-> 0, named |-> Blank, pin |-> Blank,
           node |-> 0, expect |-> FALSE, retry |-> FALSE, recover |-> FALSE, before |-> Blank,
           appeared |-> FALSE, met |-> FALSE, touched |-> {}, clicks |-> 0,
           lost |-> FALSE, report |-> "none"]

ActsInit ==
    /\ tabPage = [h \in Actors |-> [doc |-> 1, nodes |-> NodeIds, says |-> FALSE]]
    /\ listed = <<>>
    /\ sight = [h \in Actors |-> Blank]
    /\ deed = [h \in Actors |-> NoDeed]

-----------------------------------------------------------------------------
(* _capture_accessibility_snapshot: a snapshot that is there already keeps   *)
(* its place; the oldest that no act pins make room.                         *)
IsPinned(s) == \E h \in Actors : deed[h].pin = s
Trimmed(l) ==
    LET free == Those(l, {s \in ToSet(l) : ~IsPinned(s)})
        over == IF Len(l) > MaxListed THEN Len(l) - MaxListed ELSE 0
        gone == {free[i] : i \in {j \in DOMAIN free : j <= over}} IN
    Those(l, ToSet(l) \ gone)
Adds(s) == listed' = IF Contains(listed, s) THEN listed ELSE Trimmed(Append(listed, s))
Captures(h) == Adds(Shown(tabPage[h]))

(* _resolve_agent_target: the newest snapshot, of any session, with the ref. *)
WithRef(r) == {i \in DOMAIN listed : r \in Refs(listed[i])}
Newest(r)  == listed[CHOOSE i \in WithRef(r) : \A j \in WithRef(r) : j <= i]

AgentObserve(h) ==
    /\ deed[h].step = "idle"
    /\ Captures(h)
    /\ sight' = [sight EXCEPT ![h] = Shown(tabPage[h])]
    /\ UNCHANGED <<tabPage, deed>>

(* Sessions that only observe fill the same table.                           *)
OtherObserves ==
    /\ \E n \in SUBSET NodeIds \ {{}} : Adds([nodes |-> n, says |-> FALSE])
    /\ UNCHANGED <<tabPage, sight, deed>>

DeedEnds(d, report) == [d EXCEPT !.step = "done", !.pin = Blank, !.report = report]
After(d) == IF d.expect THEN "before" ELSE "click"

(* The pin and the resolution are one step of the event loop.  A snapshot    *)
(* that was dropped is looked for by its ref, then by its name.              *)
Resolved(d) ==
    LET hit == Contains(listed, d.named) IN
    CASE hit ->
           [d EXCEPT !.way = "snapshot", !.node = NodeAt(d.named, d.ref), !.step = After(d)]
      [] ~hit /\ d.pin # Blank /\ ~d.recover -> DeedEnds(d, "stale_snapshot")
      [] ~hit /\ ~(d.pin # Blank /\ ~d.recover) /\ WithRef(d.ref) # {} ->
           [d EXCEPT !.way = "newest", !.node = NodeAt(Newest(d.ref), d.ref), !.pin = Blank,
                     !.step = After(d)]
      [] OTHER -> IF d.recover THEN [d EXCEPT !.pin = Blank, !.step = "recover"]
                               ELSE DeedEnds(d, "stale_snapshot")

(* A reference without its snapshot: the newest, or a fresh capture later.   *)
ResolvedLoose(d) ==
    IF WithRef(d.ref) # {}
    THEN [d EXCEPT !.way = "newest", !.node = NodeAt(Newest(d.ref), d.ref), !.step = After(d)]
    ELSE [d EXCEPT !.way = "fresh", !.step = IF d.expect THEN "before" ELSE "fresh"]

ActBegins(h) ==
    /\ deed[h].step = "idle" /\ sight[h] # Blank
    /\ \E r \in Refs(sight[h]), e, y, c \in BOOLEAN :
         LET d == [NoDeed EXCEPT !.ref = r, !.expect = e, !.retry = y, !.recover = c] IN
         /\ y => e
         /\ \/ \E p \in {Blank, sight[h]} :
                 deed' = [deed EXCEPT ![h] = Resolved([d EXCEPT !.named = sight[h], !.pin = p])]
            \/ ~c /\ deed' = [deed EXCEPT ![h] = ResolvedLoose(d)]
    /\ UNCHANGED <<tabPage, listed, sight>>

(* A target of its own: a selector, here of the node itself.                 *)
ActBySelector(h) ==
    /\ deed[h].step = "idle"
    /\ \E n \in NodeIds, c \in BOOLEAN :
         deed' = [deed EXCEPT ![h] =
                    [NoDeed EXCEPT !.way = "selector", !.node = n, !.recover = c, !.step = "click"]]
    /\ UNCHANGED <<tabPage, listed, sight>>

(* auto_recover: one control of the page with the name, or a refusal.        *)
Recovers(h) ==
    /\ deed[h].step = "recover"
    /\ Captures(h)
    /\ \/ \E n \in tabPage[h].nodes :
            deed' = [deed EXCEPT ![h] = [deed[h] EXCEPT !.way = "name", !.node = n, !.step = After(deed[h])]]
       \/ deed' = [deed EXCEPT ![h] = DeedEnds(deed[h], "stale_snapshot")]
    /\ UNCHANGED <<tabPage, sight>>

(* With an expectation the page is captured first.                           *)
CapturesBefore(h) ==
    /\ deed[h].step = "before"
    /\ Captures(h)
    /\ deed' = [deed EXCEPT ![h] =
                  [deed[h] EXCEPT !.before = Shown(tabPage[h]), !.appeared = FALSE,
                                  !.step = IF deed[h].way = "fresh" THEN "fresh" ELSE "click"]]
    /\ UNCHANGED <<tabPage, sight>>

(* A reference nothing knew: captured again, clicked or refused.             *)
ResolvesFresh(h) ==
    /\ deed[h].step = "fresh"
    /\ Captures(h)
    /\ deed' = [deed EXCEPT ![h] =
                  IF deed[h].ref \in Refs(Shown(tabPage[h]))
                  THEN [deed[h] EXCEPT !.node = NodeAt(Shown(tabPage[h]), deed[h].ref), !.step = "click"]
                  ELSE DeedEnds(deed[h], "element_not_found")]
    /\ UNCHANGED <<tabPage, sight>>

-----------------------------------------------------------------------------
(* The click lands on the node with the id in the document the tab shows,    *)
(* and the page does with it what it likes.  Chrome may keep the answer (a   *)
(* dialog opened by the click): the command then fails.                      *)
Turns(p) ==
    {p} \cup {[p EXCEPT !.says = ~@]}
        \cup {[doc |-> p.doc + 1, nodes |-> n, says |-> s] :
                n \in {m \in SUBSET NodeIds : m # {} /\ p.doc < MaxPages}, s \in BOOLEAN}

Hit(h)     == deed[h].node \in tabPage[h].nodes
Touches(d, p) == [d EXCEPT !.touched = @ \cup {<<p.doc, d.node>>}, !.clicks = @ + 1]
Appears(d, p, q) == [d EXCEPT !.appeared = @ \/ (q.says /\ (~p.says \/ q.doc # p.doc))]

Clicks(h, after, failing) ==
    /\ Hit(h)
    /\ \E q \in Turns(tabPage[h]), fails \in BOOLEAN :
         LET d == Appears(Touches(deed[h], tabPage[h]), tabPage[h], q) IN
         /\ tabPage' = [tabPage EXCEPT ![h] = q]
         /\ deed' = [deed EXCEPT ![h] = IF fails THEN [DeedEnds(d, failing) EXCEPT !.lost = TRUE]
                                                 ELSE [d EXCEPT !.step = after]]
    /\ UNCHANGED <<listed, sight>>

ClickNode(h) ==
    /\ deed[h].step = "click" /\ deed[h].way # "selector"
    /\ IF Hit(h) THEN Clicks(h, "after", "action_failed")
       ELSE /\ deed' = [deed EXCEPT ![h] = DeedEnds(deed[h], "element_not_found")]
            /\ UNCHANGED <<tabPage, listed, sight>>

(* Whatever a click by selector raises is told as element_not_found; a       *)
(* selector without an element is waited for once with auto_recover.         *)
ClickSelector(h) ==
    /\ deed[h].step = "click" /\ deed[h].way = "selector"
    /\ IF Hit(h) THEN Clicks(h, "after", "element_not_found")
       ELSE /\ deed' = [deed EXCEPT ![h] = IF deed[h].recover THEN [deed[h] EXCEPT !.recover = FALSE]
                                                        ELSE DeedEnds(deed[h], "element_not_found")]
            /\ UNCHANGED <<tabPage, listed, sight>>

(* validate_expectations: text that was there before the click does not      *)
(* count.  One more click, on a node, if the caller asked for a retry.       *)
SatisfiedNow(before, now) == now.says                (* mutant of Satisfied *)
Satisfied(before, now) == now.says /\ ~before.says

Verifies(h) ==
    /\ deed[h].step \in {"after", "again"}
    /\ IF deed[h].expect THEN Captures(h) ELSE UNCHANGED listed
    /\ LET d   == deed[h]
           met == Satisfied(d.before, Shown(tabPage[h])) IN
       deed' = [deed EXCEPT ![h] =
         IF ~d.expect THEN DeedEnds(d, "ok")
         ELSE IF ~met /\ d.retry /\ d.step = "after" /\ d.way \notin {"selector", "fresh"}
         THEN [d EXCEPT !.step = "retry"]
         ELSE [DeedEnds(d, IF met THEN "ok" ELSE "needs_attention") EXCEPT !.met = met]]
    /\ UNCHANGED <<tabPage, sight>>

ClickAgain(h) ==
    /\ deed[h].step = "retry"
    /\ IF Hit(h) THEN Clicks(h, "again", "action_failed")
       ELSE /\ deed' = [deed EXCEPT ![h] = [deed[h] EXCEPT !.step = "again"]]
            /\ UNCHANGED <<tabPage, listed, sight>>

ActAnswered(h) ==
    /\ deed[h].step = "done"
    /\ deed' = [deed EXCEPT ![h] = NoDeed]
    /\ UNCHANGED <<tabPage, listed, sight>>

(* The page goes on by itself.                                               *)
PageTurns(h) ==
    /\ deed[h].step # "done"
    /\ \E q \in Turns(tabPage[h]) \ {tabPage[h]} :
         /\ tabPage' = [tabPage EXCEPT ![h] = q]
         /\ deed' = [deed EXCEPT ![h] = Appears(deed[h], tabPage[h], q)]
    /\ UNCHANGED <<listed, sight>>

ActsNext == OtherObserves \/ \E h \in Actors :
    \/ AgentObserve(h) \/ ActBegins(h) \/ ActBySelector(h)
    \/ Recovers(h) \/ CapturesBefore(h) \/ ResolvesFresh(h)
    \/ ClickNode(h) \/ ClickSelector(h) \/ Verifies(h) \/ ClickAgain(h)
    \/ ActAnswered(h) \/ PageTurns(h)

-----------------------------------------------------------------------------
ActsTypeOK ==
    /\ \A h \in Actors : /\ tabPage[h].doc \in 1..MaxPages /\ tabPage[h].nodes \subseteq NodeIds
                         /\ sight[h].nodes \subseteq NodeIds
                         /\ deed[h].clicks \in 0..2 /\ deed[h].node \in NodeIds \cup {0}
    /\ Cardinality(ToSet(listed)) = Len(listed)
    /\ Len(listed) <= MaxListed + Cardinality(Actors)

(* An act that names a snapshot which the table still has touches the        *)
(* control that snapshot shows under the ref and no other, whatever other    *)
(* sessions observe meanwhile.  A refusal has touched nothing, except that   *)
(* a click by selector whose answer is lost is told as element_not_found.    *)
(* Nothing is clicked twice unless the caller asked for a retry and the      *)
(* first look was not satisfied; and an expectation that is met was not met  *)
(* before the act.                                                           *)
ActsHold ==
    \A h \in Actors : LET d == deed[h] IN
      /\ d.way = "snapshot" => \A t \in d.touched : t[2] = NodeAt(d.named, d.ref)
      /\ d.report \in {"stale_snapshot", "element_not_found"} =>
           d.touched = {} \/ (d.way = "selector" /\ d.lost)
      /\ d.clicks > 1 => d.retry /\ d.expect
      /\ d.met => d.appeared /\ ~d.before.says

=============================================================================
