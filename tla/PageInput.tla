------------------------------ MODULE PageInput ------------------------------
(***************************************************************************)
(* The operations that touch the controls of a page (cdp_client.py, the    *)
(* endpoints and the MCP tools in front of them).  Each one looks its      *)
(* element up by a script and acts on the answer in later DevTools         *)
(* commands; between the two the page may move, and another request on the *)
(* same tab may act.  A script runs to its end in one step of the page, so *)
(* the loops `while (Date.now() < deadline)` without an await look once.   *)
(***************************************************************************)
EXTENDS Naturals, FiniteSets

CONSTANTS
    Hands,          (* requests on the tab, one operation each               *)
    Elements,       (* the controls of the page                              *)
    Twins,          (* the controls that show the same text                  *)
    Spots,          (* positions on the page                                 *)
    Off,            (* the position of a control the page does not hold      *)
    Nothing,        (* no control                                            *)
    Asked,          (* bound: the kinds of the first request                 *)
    Rivals,         (* bound: the kinds of a request that overlaps it        *)
    MaxMoves        (* bound: times the page changes by itself               *)

ASSUME PageInputAssumption ==
    /\ Twins \subseteq Elements /\ Off \notin Spots /\ Nothing \notin Elements
    /\ MaxMoves \in Nat

VARIABLES
    spotOf,         (* where each control is                                 *)
    disabled,       (* the controls that are disabled                        *)
    focus,          (* the control that has the focus                        *)
    pressed,        (* the control the mouse went down on                    *)
    moves,          (* changes the page has made by itself                   *)
    job,            (* what each request is doing                            *)
    beforeOf        (* whose analysis is in client._before_visual_state      *)

inputVars == <<spotOf, disabled, focus, pressed, moves, job, beforeOf>>

-----------------------------------------------------------------------------
(* What an operation looks its control up by, and what it does with it.      *)
ByMouse == {"click", "text", "label", "hover", "inFrame"}
ByKeys  == {"type", "key"}
AtOnce  == {"fill", "fillNode", "clickNode", "setInFrame", "selectOption", "dropdown", "scroll"}
InputKinds == ByMouse \cup ByKeys \cup AtOnce \cup {"coordinates", "upload", "checkbox"}

(* Kinds whose answer is "ok" whether or not the control was there: the      *)
(* script's own {status: 'error'} is inside the answer of evaluate().        *)
Unchecked == {"type", "key", "scroll", "dropdown", "coordinates"}

(* A label is clicked whether or not its input is disabled.                  *)
Confirms == {"text", "label", "checkbox"}

Refusals == {"not_found", "not_actionable", "ambiguous"}

NoJob == [kind |-> "click", target |-> Nothing, exact |-> FALSE, tool |-> FALSE,
          confirm |-> FALSE, step |-> "idle", spot |-> Off, report |-> "none",
          touched |-> {}, blind |-> FALSE, stirred |-> FALSE, retried |-> FALSE,
          compared |-> Nothing]

Places == {p \in [Elements -> Spots \cup {Off}] :
              \A e, f \in Elements : p[e] = p[f] /\ p[e] # Off => e = f}

(* There is room on the page for all the controls at once.                   *)
ASSUME PageHasRoom == \E p \in Places : \A e \in Elements : p[e] # Off

InputInit ==
    /\ \E present \in SUBSET Elements \ {{}} :
         /\ spotOf = CHOOSE p \in Places : \A e \in Elements : p[e] # Off <=> e \in present
         /\ disabled \in {{}} \cup {{e} : e \in present}
    /\ focus = Nothing /\ pressed = Nothing /\ moves = 0
    /\ job = [h \in Hands |-> NoJob]
    /\ beforeOf = Nothing

-----------------------------------------------------------------------------
Here(e) == spotOf[e] # Off
Under(s) == IF \E e \in Elements : spotOf[e] = s /\ s # Off
            THEN CHOOSE e \in Elements : spotOf[e] = s ELSE Nothing

(* The controls an operation may act on: those with the text it was given,   *)
(* or the one its selector names.                                            *)
Meant(j) == IF j.kind \in {"text", "label"} /\ j.target \in Twins THEN Twins ELSE {j.target}

UnderWay(j) == j.step \notin {"idle", "before", "await", "done", "gone"}

(* The job of h goes on as j; an act on the page stirs those under way.      *)
SetJob(h, j) == job' = [job EXCEPT ![h] = j]
Acts(h, j) == job' = [g \in Hands |->
                        IF g = h THEN j
                        ELSE [job[g] EXCEPT !.stirred = @ \/ UnderWay(job[g])]]

AfterOk(j) == IF j.confirm THEN "confirm" ELSE "done"
Reports(j, r) == [j EXCEPT !.report = r, !.step = IF r = "ok" THEN AfterOk(j) ELSE "done"]

(* A tool waits once for a control that is not found, then tries again       *)
(* (tools.click, tools.type); the page operations behind it answer at once.  *)
Refused(j, r) ==
    IF r = "not_found" /\ j.tool /\ ~j.retried /\ j.kind \in {"click", "inFrame", "setInFrame"}
    THEN [j EXCEPT !.step = "await", !.retried = TRUE]
    ELSE Reports(j, r)

-----------------------------------------------------------------------------
(* A request for an operation on a control.  Bound: a second one comes only  *)
(* while the first is under way, of the kinds in Rivals, with none of the    *)
(* options but the confirmation, if the first has it.                        *)
Asks(h, kind, exact, tool, confirm) ==
    LET first == \A g \in Hands : job[g].step = "idle" IN
    /\ job[h].step = "idle" /\ \A g \in Hands : job[g].step # "gone"
    /\ kind \in IF first THEN Asked ELSE Rivals
    /\ exact \/ tool => first
    /\ confirm => first \/ \E g \in Hands : job[g].confirm
    /\ \E e \in Elements :
         SetJob(h, [NoJob EXCEPT !.kind = kind, !.target = e, !.exact = exact, !.tool = tool,
                                 !.confirm = confirm, !.step = IF confirm THEN "before" ELSE "look",
                                 !.spot = IF kind = "coordinates" THEN spotOf[e] ELSE Off])
    /\ UNCHANGED <<spotOf, disabled, focus, pressed, moves, beforeOf>>

(* The endpoints, and the tools that wait and try once more.                 *)
AskClick(h)       == Asks(h, "click", FALSE, FALSE, FALSE)
AskClickTool(h)   == Asks(h, "click", FALSE, TRUE, FALSE)
AskClickText(h)   == \E x, c \in BOOLEAN : Asks(h, "text", x, FALSE, c)
AskClickLabel(h)  == \E c \in BOOLEAN : Asks(h, "label", FALSE, FALSE, c)
AskCheckbox(h)    == \E c \in BOOLEAN : Asks(h, "checkbox", FALSE, FALSE, c)
AskType(h)        == Asks(h, "type", FALSE, FALSE, FALSE)
AskSelectTool(h)  == Asks(h, "selectOption", FALSE, TRUE, FALSE)
AskInteract(h)    == \E k \in {"key", "dropdown"} : Asks(h, k, FALSE, FALSE, FALSE)
AskInFrame(h)     == \E k \in {"inFrame", "setInFrame"}, t \in BOOLEAN : Asks(h, k, FALSE, t, FALSE)
AskOther(h)       == \E k \in InputKinds \ (Confirms \cup {"click", "type", "key", "dropdown",
                                                       "selectOption", "inFrame", "setInFrame"}) :
                       Asks(h, k, FALSE, FALSE, FALSE)

(* ?confirm= analyses the page first and leaves the result on the client,    *)
(* which all requests of the session share.                                  *)
AnalyzesBefore(h) ==
    /\ job[h].step = "before"
    /\ beforeOf' = h
    /\ SetJob(h, [job[h] EXCEPT !.step = "look"])
    /\ UNCHANGED <<spotOf, disabled, focus, pressed, moves>>

(* _await_element: the wait ends when the control shows or after 5 s.        *)
AwaitsElement(h) ==
    /\ job[h].step = "await"
    /\ SetJob(h, [job[h] EXCEPT !.step = "look"])
    /\ UNCHANGED <<spotOf, disabled, focus, pressed, moves, beforeOf>>

Looks(h, kinds) == job[h].step = "look" /\ job[h].kind \in kinds
Page == <<spotOf, disabled, focus, pressed, moves, beforeOf>>

Aims(j) == [j EXCEPT !.spot = spotOf[j.target], !.step = "press", !.blind = j.target \in disabled]

(* click: one script finds the control of the selector and checks it.        *)
ClickUnchecked(h) ==                                    (* mutant of Click   *)
    LET j == job[h] IN
    /\ Looks(h, {"click"})
    /\ SetJob(h, IF Here(j.target) THEN Aims(j) ELSE Refused(j, "not_found"))
    /\ UNCHANGED Page

Click(h) ==
    LET j == job[h] IN
    /\ Looks(h, {"click"})
    /\ SetJob(h, CASE ~Here(j.target) -> Refused(j, "not_found")
                   [] Here(j.target) /\ j.target \in disabled -> Reports(j, "not_actionable")
                   [] OTHER -> Aims(j))
    /\ UNCHANGED Page

(* hover and _click_in_frame ask for the position alone.                     *)
Hover(h) ==
    /\ Looks(h, {"hover"})
    /\ SetJob(h, IF Here(job[h].target) THEN Aims(job[h]) ELSE Refused(job[h], "not_found"))
    /\ UNCHANGED Page

ClickInFrame(h) ==
    /\ Looks(h, {"inFrame"})
    /\ SetJob(h, IF Here(job[h].target) THEN Aims(job[h]) ELSE Refused(job[h], "not_found"))
    /\ UNCHANGED Page

(* click_by_text: one of the visible matches; exact allows one only.         *)
LookByText(h) ==
    LET j == job[h]
        matches == {e \in Meant(j) : Here(e)} IN
    /\ Looks(h, {"text"})
    /\ CASE matches = {} -> SetJob(h, Reports(j, "not_found"))
         [] j.exact /\ Cardinality(matches) > 1 -> SetJob(h, Reports(j, "ambiguous"))
         [] OTHER -> \E e \in matches :
                       SetJob(h, IF e \in disabled THEN Reports(j, "not_actionable")
                              ELSE [j EXCEPT !.spot = spotOf[e], !.step = "press"])
    /\ UNCHANGED Page

(* click_label: the best label, whatever the state of its input.             *)
LookByLabel(h) ==
    LET j == job[h] IN
    /\ Looks(h, {"label"})
    /\ IF \A e \in Meant(j) : ~Here(e) THEN SetJob(h, Reports(j, "not_found"))
       ELSE \E e \in {m \in Meant(j) : Here(m)} :
              SetJob(h, [j EXCEPT !.spot = spotOf[e], !.step = "press", !.blind = e \in disabled])
    /\ UNCHANGED Page

(* click_coordinates: nothing to look up.                                    *)
ClickCoordinates(h) ==
    /\ Looks(h, {"coordinates"})
    /\ SetJob(h, [job[h] EXCEPT !.step = "press", !.blind = TRUE])
    /\ UNCHANGED Page

(* The script of checkbox_set_state uses `await` in a function that is not   *)
(* async: it never parses, evaluate() has no result, and the call fails.     *)
SetCheckbox(h) ==
    /\ Looks(h, {"checkbox"})
    /\ SetJob(h, Reports(job[h], "failed"))
    /\ UNCHANGED Page

-----------------------------------------------------------------------------
(* Input.dispatchMouseEvent, down and up: the browser fires a click when     *)
(* both are on the same control, and none on a disabled one.                 *)
MouseDown(h) ==
    LET j == job[h] IN
    /\ j.step = "press"
    /\ IF j.kind = "hover"
       THEN /\ Acts(h, Reports([j EXCEPT !.touched = {Under(j.spot)} \ {Nothing}], "ok"))
            /\ UNCHANGED pressed
       ELSE /\ Acts(h, [j EXCEPT !.step = "release"])
            /\ pressed' = Under(j.spot)
    /\ UNCHANGED <<spotOf, disabled, focus, moves, beforeOf>>

MouseUp(h) ==
    LET j   == job[h]
        up  == Under(j.spot)
        hit == IF up # Nothing /\ up = pressed /\ up \notin disabled THEN {up} ELSE {} IN
    /\ j.step = "release"
    /\ Acts(h, Reports([j EXCEPT !.touched = hit], "ok"))
    /\ pressed' = Nothing
    /\ focus' = IF hit = {} THEN focus ELSE up
    /\ UNCHANGED <<spotOf, disabled, moves, beforeOf>>

(* type_text and press_key focus their control by a script and send keys to  *)
(* whatever has the focus then.                                              *)
Focuses(h, kind) ==
    LET j == job[h] IN
    /\ Looks(h, {kind})
    /\ IF Here(j.target)
       THEN focus' = j.target /\ Acts(h, [j EXCEPT !.step = "insert"])
       ELSE UNCHANGED focus /\ SetJob(h, [j EXCEPT !.step = "insert", !.blind = TRUE])
    /\ UNCHANGED <<spotOf, disabled, pressed, moves, beforeOf>>

TypeText(h) == Focuses(h, "type")
PressKey(h) == Focuses(h, "key")

InsertText(h) ==
    LET j == job[h] IN
    /\ j.step = "insert"
    /\ Acts(h, Reports([j EXCEPT !.touched = {focus} \ {Nothing}], "ok"))
    /\ UNCHANGED <<spotOf, disabled, focus, pressed, moves, beforeOf>>

(* One script finds the control and does the whole of it.                    *)
Once(h, kind, missing, focuses) ==
    LET j == job[h] IN
    /\ Looks(h, {kind})
    /\ IF Here(j.target)
       THEN /\ Acts(h, Reports([j EXCEPT !.touched = {j.target}], "ok"))
            /\ focus' = IF focuses THEN j.target ELSE focus
       ELSE SetJob(h, missing) /\ UNCHANGED focus
    /\ UNCHANGED <<spotOf, disabled, pressed, moves, beforeOf>>

(* A missing field is counted in the results of smart_form_fill; the page    *)
(* that lacks it makes scroll and dropdown_select answer "ok" all the same.  *)
SetValueInFrame(h)  == Once(h, "setInFrame", Refused(job[h], "not_found"), TRUE)
SmartFormFill(h)    == Once(h, "fill", Refused(job[h], "not_found"), TRUE)
FormSelect(h)       == Once(h, "selectOption", Refused(job[h], "not_found"), FALSE)
DropdownSelect(h)   == Once(h, "dropdown", Reports([job[h] EXCEPT !.blind = TRUE], "ok"), FALSE)
ScrollTo(h)         == Once(h, "scroll", Reports([job[h] EXCEPT !.blind = TRUE], "ok"), FALSE)
FillBackendNode(h)  == Once(h, "fillNode", Reports(job[h], "failed"), TRUE)

ClickBackendNode(h) ==
    LET j == job[h] IN
    /\ Looks(h, {"clickNode"})
    /\ IF Here(j.target) /\ j.target \in disabled
       THEN SetJob(h, Reports(j, "not_actionable")) /\ UNCHANGED Page
       ELSE Once(h, "clickNode", Reports(j, "failed"), FALSE)

(* upload_files finds its input twice, by script and by DOM.querySelector,   *)
(* and sets the files on the node of the second.                             *)
Upload(h) ==
    LET j == job[h] IN
    /\ j.kind = "upload" /\ j.step \in {"look", "query", "attach"}
    /\ CASE j.step # "attach" /\ ~Here(j.target) -> SetJob(h, Reports(j, "not_found"))
         [] j.step = "look" /\ Here(j.target)  -> SetJob(h, [j EXCEPT !.step = "query"])
         [] j.step = "query" /\ Here(j.target) -> SetJob(h, [j EXCEPT !.step = "attach"])
         [] j.step = "attach" /\ Here(j.target) -> Acts(h, Reports([j EXCEPT !.touched = {j.target}], "ok"))
         [] OTHER -> SetJob(h, Reports(j, "failed"))
    /\ UNCHANGED Page

(* After an "ok" the endpoint compares with the analysis on the client.      *)
ConfirmsAfter(h) ==
    /\ job[h].step = "confirm"
    /\ SetJob(h, [job[h] EXCEPT !.step = "done", !.compared = beforeOf])
    /\ UNCHANGED Page

(* A command fails: the operation ends with the error.                       *)
CommandFails(h) ==
    /\ job[h].step \in {"press", "release", "insert", "query", "attach"}
    /\ SetJob(h, Reports(job[h], "failed"))
    /\ UNCHANGED Page

(* The answer is sent, and nothing of the request stays.                     *)
InputAnswered(h) ==
    /\ job[h].step = "done"
    /\ SetJob(h, [NoJob EXCEPT !.step = "gone", !.confirm = job[h].confirm])
    /\ UNCHANGED Page

(* The page renders: a control appears, moves, goes or changes its state.    *)
PageMoves ==
    /\ moves < MaxMoves /\ moves' = moves + 1
    /\ \E e \in Elements :
         \/ /\ \E s \in Spots \cup {Off} : spotOf' = [spotOf EXCEPT ![e] = s] /\ spotOf' # spotOf
            /\ spotOf' \in Places
            /\ UNCHANGED disabled
         \/ /\ disabled' = (disabled \ {e}) \cup ({e} \ disabled)
            /\ UNCHANGED spotOf
    /\ focus' = IF focus # Nothing /\ spotOf'[focus] = Off THEN Nothing ELSE focus
    /\ pressed' = IF pressed # Nothing /\ spotOf'[pressed] = Off THEN Nothing ELSE pressed
    /\ job' = [h \in Hands |-> [job[h] EXCEPT !.stirred = @ \/ UnderWay(job[h])]]
    /\ UNCHANGED beforeOf

InputNext ==
    \/ \E h \in Hands : InputAnswered(h)
    \/ /\ \A h \in Hands : job[h].step # "done"
       /\ \/ \E h \in Hands :
              \/ AskClick(h) \/ AskClickTool(h) \/ AskClickText(h) \/ AskClickLabel(h)
              \/ AskCheckbox(h) \/ AskType(h) \/ AskSelectTool(h) \/ AskInteract(h)
              \/ AskInFrame(h) \/ AskOther(h) \/ AnalyzesBefore(h) \/ AwaitsElement(h)
              \/ Click(h) \/ Hover(h) \/ ClickInFrame(h) \/ LookByText(h) \/ LookByLabel(h)
              \/ ClickCoordinates(h) \/ SetCheckbox(h)
              \/ MouseDown(h) \/ MouseUp(h) \/ TypeText(h) \/ PressKey(h) \/ InsertText(h)
              \/ SetValueInFrame(h) \/ SmartFormFill(h) \/ FormSelect(h) \/ DropdownSelect(h)
              \/ ScrollTo(h) \/ ClickBackendNode(h) \/ FillBackendNode(h)
              \/ Upload(h) \/ ConfirmsAfter(h) \/ CommandFails(h)
          \/ PageMoves

-----------------------------------------------------------------------------
InputTypeOK ==
    /\ spotOf \in Places /\ disabled \subseteq Elements
    /\ focus \in Elements \cup {Nothing} /\ pressed \in Elements \cup {Nothing}
    /\ moves \in 0..MaxMoves /\ beforeOf \in Hands \cup {Nothing}
    /\ \A h \in Hands :
         /\ job[h].kind \in InputKinds /\ job[h].spot \in Spots \cup {Off}
         /\ job[h].step \in {"idle", "before", "look", "await", "press", "release", "insert",
                             "query", "attach", "confirm", "done", "gone"}
         /\ job[h].report \in Refusals \cup {"none", "ok", "failed"}
         /\ job[h].touched \subseteq Elements

(* "ok" means that the control meant, and no other, was touched; unless the  *)
(* page or another request acted while the operation was under way, or it    *)
(* is of a kind that does not check its control.  A refusal has touched      *)
(* nothing, as the tools tell the agent ("nothing was clicked").  And a       *)
(* confirmation compares with the page before its own operation, unless      *)
(* another request of the session confirms too.                              *)
ReportsHold ==
    \A h \in Hands : LET j == job[h] IN
      /\ j.report = "ok" =>
           \/ j.stirred
           \/ j.touched # {} /\ j.touched \subseteq Meant(j)
           \/ j.blind /\ j.kind \in Unchecked \cup {"label", "inFrame"}
      /\ j.report \in Refusals => j.touched = {}
      /\ j.compared \in {h, Nothing} \/ \E g \in Hands \ {h} : job[g].confirm

=============================================================================
