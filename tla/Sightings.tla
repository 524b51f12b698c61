------------------------------ MODULE Sightings ------------------------------
(***************************************************************************)
(* Looking at a page and reading what was seen (the tool observe of        *)
(* mcp_server/tools.py, POST /agent/observe, pagination and comparison of  *)
(* agent_runtime.py).  An observation takes a snapshot, after that may     *)
(* gather evidence, and at the end compares with an earlier snapshot that  *)
(* the caller names; the snapshots of all sessions share two small tables. *)
(* The text and the controls of a snapshot are then read page by page.     *)
(***************************************************************************)
EXTENDS Naturals, Sequences, FiniteSets

CONSTANTS
    Watching,       (* callers that observe                                  *)
    SightTabs,      (* the tabs                                              *)
    OwnTab,         (* the tab of the caller's session                       *)
    MaxShots,       (* bound: snapshots taken                                *)
    MaxShotsKept,   (* snapshots a table keeps (200)                         *)
    MaxEdits        (* bound: times a page changes                           *)

ASSUME SightAssumption ==
    /\ OwnTab \in SightTabs
    /\ MaxShots \in Nat /\ MaxShotsKept \in Nat \ {0} /\ MaxEdits \in Nat

VARIABLES
    inTab,          (* what each tab shows                                   *)
    shutTabs,           (* the tabs that are closed                              *)
    toldOf,         (* _SEEN_TABS: the tabs a caller has been told of        *)
    shots,          (* the snapshots taken, with their table                 *)
    tables,         (* the snapshots still kept                              *)
    edits,          (* times a page has changed                              *)
    gaze           (* what each caller is doing                             *)

sightVars == <<inTab, shutTabs, toldOf, shots, tables, edits, gaze>>

-----------------------------------------------------------------------------
(* What a page shows, by its length: units of max_chars and of max_elements. *)
(* The last has more controls than its text has units.                       *)
Scenes == 0..2
TextUnits(c) == c
ControlUnits(c) == IF c = 0 THEN 2 ELSE c

(* "ax" is the tool's: asked for by that name it takes the accessibility     *)
(* view, and looks the earlier snapshot up among the others (_observe_diff); *)
(* the endpoint treats both names alike.                                     *)
Modes == {"semantic", "accessibility", "ax"}
TableOf(mode) == IF mode = "semantic" THEN "semantic" ELSE "ax"
LookedUpIn(mode) == IF mode = "accessibility" THEN "ax" ELSE "semantic"

NoSight == [step |-> "idle", mode |-> "semantic", tab |-> OwnTab,
            since |-> 0, during |-> {}, shot |-> 0, report |-> "none", changed |-> FALSE,
            dropped |-> FALSE, offset |-> 0, texts |-> 0, controls |-> {}, read |-> FALSE]

SightInit ==
    /\ inTab = [t \in SightTabs |-> 1]
    /\ shutTabs = {} /\ toldOf = {}
    /\ shots = <<>> /\ tables = {} /\ edits = 0
    /\ gaze = [o \in Watching |-> NoSight]

-----------------------------------------------------------------------------
Gazes(o, j) == gaze' = [gaze EXCEPT ![o] = j]
SightTells(j, r) == [j EXCEPT !.report = r, !.step = "told"]

(* get_tabs: the tabs that are open are remembered as told.                  *)
ListsTabs(o) ==
    /\ gaze[o].step \in {"idle", "told"}
    /\ toldOf # toldOf \cup (SightTabs \ shutTabs)
    /\ toldOf' = toldOf \cup (SightTabs \ shutTabs)
    /\ UNCHANGED <<inTab, shutTabs, shots, tables, edits, gaze>>

(* observe, with the caller's own earlier snapshot or without.               *)
Observes(o) ==
    /\ gaze[o].step \in {"idle", "told"} /\ Len(shots) < MaxShots
    /\ \E m \in Modes, t \in SightTabs, s \in {0, gaze[o].shot} :
         /\ s # 0 => shots[s].table = TableOf(m)
         /\ Gazes(o, [NoSight EXCEPT !.step = "resolve", !.mode = m, !.tab = t, !.since = s,
                                    !.during = {inTab[t]}, !.dropped = s # 0 /\ s \notin tables])
    /\ UNCHANGED <<inTab, shutTabs, toldOf, shots, tables, edits>>

(* A tab that was asked for must be open; the tool tells one that has been   *)
(* listed before, and is closed now, from one it never heard of.             *)
FindsTabOpen(o) ==
    LET j == gaze[o] IN
    /\ j.step = "resolve"
    /\ IF j.tab \notin shutTabs THEN Gazes(o, [j EXCEPT !.step = "capture"])
       ELSE \E tool \in BOOLEAN :
              Gazes(o, SightTells(j, IF tool /\ j.tab \in toldOf THEN "tab_closed" ELSE "tab_not_found"))
    /\ UNCHANGED <<inTab, shutTabs, toldOf, shots, tables, edits>>

(* A table that is too long loses its oldest snapshots.                      *)
Oldest(s) == CHOOSE x \in s : \A y \in s : x <= y
Trims(t, table) ==
    LET mine == {s \in t : shots'[s].table = table} IN
    IF Cardinality(mine) > MaxShotsKept THEN t \ {Oldest(mine)} ELSE t

(* Observers that hold on to a snapshot which is dropped now.                *)
LosesShot(o) == gaze[o].since # 0 /\ gaze[o].since \notin tables'

(* The snapshot is taken and stored; a tab closed meanwhile fails the call.  *)
TakesShot(o) ==
    LET j == gaze[o]
        n == Len(shots) + 1 IN
    /\ j.step = "capture"
    /\ IF j.tab \in shutTabs \/ n > MaxShots
       THEN /\ j.tab \in shutTabs /\ Gazes(o, SightTells(j, "failed"))
            /\ UNCHANGED <<shots, tables>>
       ELSE /\ shots' = Append(shots, [table |-> TableOf(j.mode), scene |-> inTab[j.tab]])
            /\ tables' = Trims(tables \cup {n}, TableOf(j.mode))
            /\ gaze' = [p \in Watching |->
                 IF p = o THEN [j EXCEPT !.shot = n, !.step = "compare", !.dropped = @ \/ LosesShot(o)]
                 ELSE [gaze[p] EXCEPT !.dropped = @ \/ LosesShot(p)]]
    /\ UNCHANGED <<inTab, shutTabs, toldOf, edits>>

(* Another session looks at a page of its own: one snapshot more.            *)
OthersObserve ==
    /\ Len(shots) < MaxShots
    /\ \E m \in {"semantic", "ax"} :
         /\ shots' = Append(shots, [table |-> m, scene |-> 1])
         /\ tables' = Trims(tables \cup {Len(shots) + 1}, m)
    /\ gaze' = [p \in Watching |-> [gaze[p] EXCEPT !.dropped = @ \/ LosesShot(p)]]
    /\ UNCHANGED <<inTab, shutTabs, toldOf, edits>>

(* diff_snapshots: what two snapshots show, by their fingerprints.           *)
DifferIfNewer(s, r) == s < r                        (* mutant of Differ *)
Differ(s, r) == shots[s].scene # shots[r].scene

(* After the evidence, which may take its time: the comparison with a        *)
(* snapshot that is still kept.                                              *)
Compares(o) ==
    LET j == gaze[o]
        found == j.since \in tables /\ shots[j.since].table = LookedUpIn(j.mode) IN
    /\ j.step = "compare"
    /\ Gazes(o, CASE j.since = 0            -> SightTells(j, "ok")
                 [] j.since # 0 /\ ~found -> SightTells(j, "stale")
                 [] OTHER -> [SightTells(j, "ok") EXCEPT !.changed = Differ(j.since, j.shot)])
    /\ UNCHANGED <<inTab, shutTabs, toldOf, shots, tables, edits>>

(* paginate_snapshot with the cursor of the page before: the next units of   *)
(* the text and of the controls, and another cursor if any are left.         *)
ReadsPage(o) ==
    LET j == gaze[o]
        c == shots[j.shot].scene
        next == IF j.offset < TextUnits(c) THEN j.offset + 1 ELSE j.offset
        more == next < TextUnits(c) \/ j.offset + 1 < ControlUnits(c) IN
    /\ j.step = "told" /\ j.report = "ok" /\ j.mode = "semantic" /\ ~j.read
    /\ IF j.shot \notin tables THEN Gazes(o, SightTells([j EXCEPT !.read = FALSE], "stale"))
       ELSE Gazes(o, [j EXCEPT !.offset = next, !.texts = @ + (next - j.offset),
                              !.controls = @ \cup ({j.offset + 1} \cap (1..ControlUnits(c))),
                              !.read = ~more])
    /\ UNCHANGED <<inTab, shutTabs, toldOf, shots, tables, edits>>

-----------------------------------------------------------------------------
PageEdits ==
    /\ edits < MaxEdits /\ edits' = edits + 1
    /\ \E t \in SightTabs \ shutTabs, c \in Scenes :
         /\ inTab' = [inTab EXCEPT ![t] = c]
         /\ gaze' = [o \in Watching |->
              [gaze[o] EXCEPT !.during = IF gaze[o].tab = t /\ gaze[o].step \in {"resolve", "capture"}
                                          THEN @ \cup {c} ELSE @]]
    /\ UNCHANGED <<shutTabs, toldOf, shots, tables>>

SightTabCloses ==
    /\ \E t \in SightTabs \ (shutTabs \cup {OwnTab}) : shutTabs' = shutTabs \cup {t}
    /\ UNCHANGED <<inTab, toldOf, shots, tables, edits, gaze>>

(* ttl_seconds pass over a semantic snapshot.                                *)
ShotExpires ==
    /\ \E s \in tables :
         /\ shots[s].table = "semantic"
         /\ tables' = tables \ {s}
         /\ gaze' = [p \in Watching |-> [gaze[p] EXCEPT !.dropped = @ \/ gaze[p].since = s]]
    /\ UNCHANGED <<inTab, shutTabs, toldOf, shots, edits>>

SightNext ==
    \/ \E o \in Watching :
         ListsTabs(o) \/ Observes(o) \/ FindsTabOpen(o) \/ TakesShot(o) \/ Compares(o) \/ ReadsPage(o)
    \/ OthersObserve \/ PageEdits \/ SightTabCloses \/ ShotExpires

-----------------------------------------------------------------------------
SightTypeOK ==
    /\ inTab \in [SightTabs -> Scenes]
    /\ shutTabs \subseteq SightTabs \ {OwnTab} /\ toldOf \subseteq SightTabs
    /\ \A s \in 1..Len(shots) : shots[s].table \in {"semantic", "ax"} /\ shots[s].scene \in Scenes
    /\ tables \subseteq 1..Len(shots) /\ edits \in 0..MaxEdits
    /\ \A o \in Watching :
         /\ gaze[o].step \in {"idle", "resolve", "capture", "compare", "told"}
         /\ gaze[o].report \in {"none", "ok", "stale", "failed", "tab_closed", "tab_not_found"}
         /\ gaze[o].shot \in 0..Len(shots) /\ gaze[o].since \in 0..Len(shots)

(* What a caller is told of a page is true of it: the snapshot shows what    *)
(* the tab showed while the call ran; "nothing changed" is said of two       *)
(* snapshots that show the same; an earlier snapshot is called missing only  *)
(* after it was dropped (not so where the tool is asked for "ax"); and a read*)
(* that came to its end has got every part of the one snapshot, whatever the *)
(* page has become meanwhile (tools.py:647, agent_runtime.py:216).           *)
SightsTrue ==
    \A o \in Watching :
      LET j == gaze[o] IN
      /\ j.report = "ok" => shots[j.shot].scene \in j.during
      /\ j.report = "ok" /\ j.since # 0 =>
           (j.changed <=> shots[j.since].scene # shots[j.shot].scene)
      /\ j.report = "stale" /\ j.offset = 0 /\ j.mode # "ax" =>
           j.dropped \/ j.shot \notin tables
      /\ j.report \in {"tab_closed", "tab_not_found"} => j.tab \in shutTabs
      /\ j.read => /\ j.texts = TextUnits(shots[j.shot].scene)
                   /\ j.controls = 1..ControlUnits(shots[j.shot].scene)

=============================================================================
