----------------------------- MODULE AgentFlows -----------------------------
(***************************************************************************)
(* The errands of several steps (main.py): flows and their templates, the  *)
(* polling expectation, the search, the visual comparisons, the form and   *)
(* the micro-task.  Each drives the tab of its session through run_op,     *)
(* which answers a failed operation with an error response and does not    *)
(* raise, while the page goes on by itself between the steps.              *)
(***************************************************************************)
EXTENDS Naturals

CONSTANTS
    Pages,          (* the URLs an errand asks for                           *)
    Elsewhere,      (* any other page                                        *)
    MaxFlow         (* bound: steps of a flow                                *)

ASSUME AgentFlowsAssumption == Elsewhere \notin Pages /\ MaxFlow \in Nat \ {0}

VARIABLES
    screen,         (* what the tab shows                                    *)
    baseline,       (* baseline_mgr: the picture kept for each URL           *)
    errand          (* the errand under way                                  *)

flowVars == <<screen, baseline, errand>>

Shows    == Pages \cup {Elsewhere}
Controls == {"none", "plain", "blocked"}
NoShot   == [shows |-> "none", unsure |-> TRUE]

NoErrand ==
    [kind |-> "none", step |-> "idle", url |-> Elsewhere, n |-> 0, stop |-> FALSE,
     failedAt |-> 0, cond |-> TRUE, by |-> "selector", saw |-> FALSE, read |-> "none",
     lost |-> FALSE, stirred |-> FALSE, shot |-> NoShot, other |-> NoShot,
     control |-> "none", pressed |-> "none", halt |-> FALSE, report |-> "none"]

FlowsInit ==
    /\ screen = [shows |-> Elsewhere, says |-> FALSE, control |-> "none"]
    /\ baseline = [u \in Pages |-> NoShot]
    /\ errand = NoErrand

At(step) == errand.step = step
On(kind) == errand.kind = kind
Goes(e)  == errand' = e /\ UNCHANGED <<screen, baseline>>
ErrandEnds(r) == [errand EXCEPT !.step = "done", !.report = r]

(* run_op(navigate): the page is loaded, or the failure is an error response *)
(* that these errands do not look at, and the page before stays.             *)
Visits(u, after) ==
    \/ /\ \E s \in BOOLEAN, c \in Controls :
            screen' = [shows |-> u, says |-> s, control |-> c]
       /\ errand' = [errand EXCEPT !.step = after, !.stirred = FALSE, !.lost = FALSE]
       /\ UNCHANGED baseline
    \/ Goes([errand EXCEPT !.step = after, !.lost = TRUE])

(* The page goes on: the text or the control changes, or it leaves.          *)
Turned == {[screen EXCEPT !.says = ~@]} \cup {[screen EXCEPT !.control = c] : c \in Controls}
              \cup {[screen EXCEPT !.shows = Elsewhere]}
Seen(e, p) == [e EXCEPT !.saw = @ \/ p.says = e.cond]

PageGoesOn ==
    /\ errand.step \notin {"idle", "done"}
    /\ \E p \in Turned \ {screen} :
         /\ screen' = p
         /\ errand' = [Seen(errand, p) EXCEPT !.stirred = TRUE]
    /\ UNCHANGED baseline

-----------------------------------------------------------------------------
(* POST /agent/run-flow.  A step fails when something raises; the error      *)
(* response of run_op raises where its status is read, which the step "wait" *)
(* does not do, and an element or a text that is missing is no failure.      *)
FlowActions == {"navigate", "click", "click_text", "type", "submit", "wait_text", "wait",
                "eval", "screenshot"}
Visiting == {"navigate"}
Changes == {"click", "click_text", "type", "submit", "eval"}

FlowBegins ==
    /\ At("idle")
    /\ \E stop \in BOOLEAN :
         Goes([NoErrand EXCEPT !.kind = "flow", !.step = "op", !.n = 1, !.stop = stop])

(* A template is a flow that stops on an error; all but the checkout end     *)
(* with the wait for a text.                                                 *)
TemplateBegins ==
    /\ At("idle")
    /\ Goes([NoErrand EXCEPT !.kind = "flow", !.step = "op", !.n = 1, !.stop = TRUE])

NextStep(e) == IF e.n < MaxFlow THEN [e EXCEPT !.step = "op", !.n = @ + 1]
               ELSE [e EXCEPT !.step = "done", !.report = IF e.failedAt = 0 THEN "ok" ELSE "failed"]

StepFailed(e) ==
    LET f == [e EXCEPT !.failedAt = IF @ = 0 THEN e.n ELSE @] IN
    IF f.stop THEN [f EXCEPT !.step = "done", !.report = "failed"] ELSE NextStep(f)

FlowStep(a) ==
    /\ On("flow") /\ At("op")
    /\ \/ /\ \/ a \in Visiting /\ \E u \in Pages, s \in BOOLEAN :
                                     screen' = [shows |-> u, says |-> s, control |-> "none"]
             \/ a \in Changes /\ screen' \in Turned \cup {screen}
             \/ a \notin Visiting \cup Changes /\ UNCHANGED screen
          /\ errand' = [errand EXCEPT !.step = "expect"] /\ UNCHANGED baseline
       \/ Goes(IF a = "wait" THEN [errand EXCEPT !.step = "expect"] ELSE StepFailed(errand))

(* auto_wait and the expectation after the step: whether the text came is    *)
(* reported as expect_ok and does not fail the step.                         *)
FlowExpects ==
    /\ On("flow") /\ At("expect")
    /\ \/ Goes(NextStep(errand))
       \/ Goes(StepFailed(errand))

-----------------------------------------------------------------------------
(* POST /agent/expect.  A ref is looked up among the ids of snapshots, so a  *)
(* real one is refused; given such an id, the snapshot has no nodes_by_ref,  *)
(* and every element counts as gone.                                         *)
ExpectBegins ==
    /\ At("idle")
    /\ \E by \in {"selector", "ref", "snapshot"}, c \in BOOLEAN :
         LET e == [NoErrand EXCEPT !.kind = "expect", !.by = by, !.cond = c, !.step = "poll"] IN
         IF by = "ref" THEN Goes([e EXCEPT !.step = "done", !.report = "stale_snapshot"])
         ELSE Goes([e EXCEPT !.saw = screen.says = c])

Met == IF errand.by = "selector" THEN screen.says = errand.cond ELSE ~errand.cond

ExpectMatches ==
    /\ On("expect") /\ At("poll") /\ Met
    /\ Goes(ErrandEnds("matched"))

ExpectExpires ==
    /\ On("expect") /\ At("poll")
    /\ Goes(ErrandEnds("expect_timeout"))

-----------------------------------------------------------------------------
(* POST /agent/search: text of the container, until it is long and no longer *)
(* says that it searches, or the time is up.                                 *)
SearchBegins ==
    /\ At("idle")
    /\ \E u \in Pages : Goes([NoErrand EXCEPT !.kind = "search", !.url = u, !.step = "go"])

SearchGoes == On("search") /\ At("go") /\ Visits(errand.url, "poll")

SearchReads ==
    /\ On("search") /\ At("poll")
    /\ \E t \in {"nothing", "searching", "answer"} :
         /\ t = "answer" => screen.says
         /\ LET e == [errand EXCEPT !.read = t, !.shot = [shows |-> screen.shows, unsure |-> errand.lost \/ errand.stirred]] IN
            \/ t = "answer" /\ Goes([e EXCEPT !.step = "done", !.report = "ready"])
            \/ t # "answer" /\ errand.read # t /\ Goes(e)

SearchExpires ==
    /\ On("search") /\ At("poll") /\ errand.read # "none"
    /\ Goes(ErrandEnds(IF errand.read = "nothing" THEN "not_ready" ELSE "ready"))

-----------------------------------------------------------------------------
(* A picture shows the page of its moment; whether that is the page the      *)
(* errand asked for is unsure if its navigation failed or the page went on.  *)
Picture == [shows |-> screen.shows, unsure |-> errand.lost \/ errand.stirred]

(* POST /agent/visual-regression goes to the first URL once more than it     *)
(* takes pictures.  Bound: one URL in each call.                             *)
VisualBegins ==
    /\ At("idle")
    /\ \E u \in Pages, k \in {"record", "compare"} :
         Goes([NoErrand EXCEPT !.kind = k, !.url = u, !.step = "first"])

Visual == errand.kind \in {"record", "compare"}
VisualFirst == Visual /\ At("first") /\ Visits(errand.url, "go")
VisualGoes  == Visual /\ At("go") /\ Visits(errand.url, "shoot")

VisualShoots ==
    /\ Visual /\ At("shoot")
    /\ \/ Goes([errand EXCEPT !.shot = Picture, !.step = "keep"])
       \/ Goes(ErrandEnds("failed"))

(* Recording replaces the picture.  A URL is "ok" only in a comparison, so   *)
(* every recorded one is counted as failed.                                  *)
SaveBaseline ==
    /\ On("record") /\ At("keep")
    /\ baseline' = [baseline EXCEPT ![errand.url] = errand.shot]
    /\ errand' = ErrandEnds("recorded") /\ UNCHANGED screen

Compare ==
    /\ On("compare") /\ At("keep")
    /\ LET b == baseline[errand.url] IN
       Goes([ErrandEnds(CASE b = NoShot -> "no_baseline"
                      [] b # NoShot /\ b.shows = errand.shot.shows -> "pass"
                      [] OTHER -> "fail") EXCEPT !.other = b])

DeleteBaseline ==
    /\ At("idle")
    /\ \E u \in Pages : baseline[u] # NoShot /\ baseline' = [baseline EXCEPT ![u] = NoShot]
    /\ UNCHANGED <<screen, errand>>

(* POST /agent/diff: two pages, or one page with itself.                     *)
DiffBegins ==
    /\ At("idle")
    /\ \E u \in Pages, w \in Shows :
         Goes([NoErrand EXCEPT !.kind = "diff", !.url = u, !.step = "goA",
                               !.other = [shows |-> w, unsure |-> TRUE]])

DiffGoesA == On("diff") /\ At("goA") /\ Visits(errand.url, "shootA")
DiffShootsA ==
    /\ On("diff") /\ At("shootA")
    /\ Goes([errand EXCEPT !.shot = Picture,
                           !.step = IF errand.other.shows = Elsewhere THEN "shootB" ELSE "goB"])
DiffGoesB == On("diff") /\ At("goB") /\ Visits(errand.other.shows, "shootB")
DiffShootsB ==
    /\ On("diff") /\ At("shootB")
    /\ \/ Goes([ErrandEnds(IF errand.shot.shows = screen.shows THEN "pass" ELSE "fail")
                  EXCEPT !.other = Picture])
       \/ Goes(ErrandEnds("failed"))

-----------------------------------------------------------------------------
(* POST /agent/execute-task: fill the first form, then click one control     *)
(* that goes on, unless its name is blocked in the snapshot at hand.  What   *)
(* the caller wanted to stop before is looked for in the goal at the end.    *)
TaskBegins ==
    /\ At("idle")
    /\ \E halt \in BOOLEAN, fills \in BOOLEAN :
         Goes([NoErrand EXCEPT !.kind = "task", !.halt = halt, !.control = screen.control,
                               !.step = IF fills THEN "fill" ELSE "press"])

(* _fill_semantic_form, and the snapshot after it.                           *)
TaskFills ==
    /\ On("task") /\ At("fill")
    /\ screen' \in Turned \cup {screen}
    /\ \E confirmed \in BOOLEAN :
         errand' = [errand EXCEPT !.step = "look", !.n = IF confirmed THEN 1 ELSE 2]
    /\ UNCHANGED baseline

TaskLooks ==
    /\ On("task") /\ At("look")
    /\ Goes([errand EXCEPT !.control = screen.control, !.step = "press", !.stirred = FALSE])

Judged(e) == e.control = "plain"
TaskTells(e) == IF e.halt THEN "stopped" ELSE IF e.n = 1 THEN "ok" ELSE "needs_attention"

TaskPresses ==
    /\ On("task") /\ At("press")
    /\ IF Judged(errand)
       THEN /\ screen' \in Turned \cup {screen}
            /\ \E n \in {1, 2} :
                 LET e == [errand EXCEPT !.n = IF @ = 0 \/ n = 2 THEN n ELSE @] IN
                 errand' = [errand EXCEPT !.pressed = screen.control, !.step = "done",
                                          !.report = TaskTells(e)]
            /\ UNCHANGED baseline
       ELSE Goes(ErrandEnds(TaskTells(errand)))

(* POST /agent/forms/discover and /agent/forms/fill: the ref of a form that  *)
(* was discovered is looked up in a snapshot of its own.                     *)
FormsDiscover ==
    /\ At("idle")
    /\ Goes([NoErrand EXCEPT !.kind = "form", !.control = screen.control, !.step = "form"])

FormsFill ==
    /\ On("form") /\ At("form")
    /\ IF screen.control = "none" THEN Goes(ErrandEnds("invalid_form"))
       ELSE /\ screen' \in Turned \cup {screen}
            /\ \E r \in {"ok", "needs_attention"} :
                 errand' = [ErrandEnds(r) EXCEPT !.pressed = screen.control]
            /\ UNCHANGED baseline

ErrandFails ==
    /\ errand.step \notin {"idle", "done", "op", "expect", "poll"}
    /\ Goes(ErrandEnds("failed"))

ErrandAnswered == At("done") /\ Goes(NoErrand)

FlowsNext ==
    \/ FlowBegins \/ TemplateBegins \/ (\E a \in FlowActions : FlowStep(a)) \/ FlowExpects
    \/ ExpectBegins \/ ExpectMatches \/ ExpectExpires
    \/ SearchBegins \/ SearchGoes \/ SearchReads \/ SearchExpires
    \/ VisualBegins \/ VisualFirst \/ VisualGoes \/ VisualShoots \/ SaveBaseline \/ Compare
    \/ DeleteBaseline \/ DiffBegins \/ DiffGoesA \/ DiffShootsA \/ DiffGoesB \/ DiffShootsB
    \/ TaskBegins \/ TaskFills \/ TaskLooks \/ TaskPresses \/ FormsDiscover \/ FormsFill
    \/ ErrandFails \/ ErrandAnswered \/ PageGoesOn

-----------------------------------------------------------------------------
FlowsTypeOK ==
    /\ screen.shows \in Shows /\ screen.control \in Controls
    /\ \A u \in Pages : baseline[u].shows \in Shows \cup {"none"}
    /\ errand.n \in 0..MaxFlow + 1 /\ errand.failedAt \in 0..MaxFlow

(* What an errand reports.  A flow is "ok" when no step failed, and one that *)
(* stops on an error runs nothing after it.  An expectation that matched     *)
(* held at some moment since it was asked for, unless a snapshot id passed   *)
(* for a ref.  The picture kept for a URL, and the one compared with it,     *)
(* show that URL unless the navigation failed unseen or the page went on;    *)
(* and the micro-task presses no control whose name is blocked, nor a fill   *)
(* another form than the one discovered, unless the page changed what the    *)
(* ref or the node stands for after the snapshot.                            *)
ErrandsHold ==
    /\ On("flow") /\ At("done") => (errand.report = "ok") = (errand.failedAt = 0)
    /\ On("flow") /\ errand.stop /\ errand.failedAt > 0 => At("done") /\ errand.n = errand.failedAt
    /\ errand.report = "matched" => errand.saw \/ errand.by = "snapshot"
    /\ errand.report = "ready" /\ errand.read = "answer" =>
         errand.shot.shows = errand.url \/ errand.shot.unsure
    /\ \A u \in Pages : baseline[u].shows = u \/ baseline[u].unsure
    /\ On("compare") /\ errand.report = "pass" =>
         errand.other.unsure \/ errand.shot.unsure \/ errand.shot.shows = errand.url
    /\ On("task") /\ errand.pressed = "blocked" => errand.stirred
    /\ On("form") /\ errand.pressed # "none" => errand.pressed = errand.control \/ errand.stirred

=============================================================================
