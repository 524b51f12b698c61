----------------------------- MODULE HumanInput -----------------------------
(***************************************************************************)
(* The input of a session in the rhythm of a person (behavioral_engine.py, *)
(* behavioral_typing.py): create() gives the client of every session such  *)
(* an engine, so click() and type_text() move the mouse, press, wait,      *)
(* release, and send the text key by key with pauses between the keys.     *)
(* Two requests on a tab interleave at every one of these pauses.          *)
(* The window shows one field at a time; curves, delays and the profile    *)
(* they are drawn from are left out, as is _last_mouse_pos: every event    *)
(* carries its own place.                                                  *)
(***************************************************************************)
EXTENDS Naturals, Sequences, FiniteSets

CONSTANTS
    Typists,        (* requests on the tab, one operation each               *)
    Brief,          (* bound: requests with a text of at most one key        *)
    Fields,         (* the fields the requests name                          *)
    NoField,        (* no field                                              *)
    MaxKeys         (* bound: length of a text                               *)

ASSUME HumanAssumption ==
    /\ NoField \notin Fields /\ Brief \subseteq Typists
    /\ MaxKeys \in Nat

VARIABLES
    onPage,         (* the fields the page has                               *)
    inView,         (* the one the window shows                              *)
    caret,          (* the field that has the focus                          *)
    button,         (* the field the mouse button went down on               *)
    strokes,        (* the characters that reached a field, in order         *)
    keysDown,       (* the keys that are down                                *)
    cable,          (* TRUE while the WebSocket is open                      *)
    human           (* what each request is doing                            *)

humanVars == <<onPage, inView, caret, button, strokes, keysDown, cable, human>>

-----------------------------------------------------------------------------
(* A key either carries a character or, as Tab, none (_key_identifier): a    *)
(* Tab in the text moves the focus on.                                       *)
KeyKinds == {"char", "tab"}
Texts == UNION {[1..n -> KeyKinds] : n \in 0..MaxKeys}

HumanSteps == {"idle", "look", "press", "release", "down", "up", "done"}
AtEase == [kind |-> "click", field |-> NoField, text |-> <<>>, step |-> "idle",
           aimed |-> FALSE, next |-> 1, lands |-> NoField, report |-> "none",
           clicked |-> FALSE, swayed |-> FALSE]

HumanInit ==
    /\ onPage \in SUBSET Fields \ {{}}
    /\ inView \in onPage
    /\ caret = NoField /\ button = NoField
    /\ strokes = <<>> /\ keysDown = {}
    /\ cable = TRUE
    /\ human = [h \in Typists |-> AtEase]

-----------------------------------------------------------------------------
(* The field Tab goes to.                                                    *)
TabFrom(f) == IF onPage \ {f} = {} THEN f ELSE CHOOSE g \in onPage \ {f} : TRUE

(* Where the events of an aimed click go: to what the window shows by then.  *)
Struck(j) == IF j.aimed THEN inView ELSE NoField

(* The windows in which another's step changes where an event goes: the      *)
(* place is measured and not yet used up, or the field has been pressed and  *)
(* the text is not yet typed.                                                *)
PlaceKnown == {"press", "release"}
FocusTaken == {"release", "down", "up"}

(* The request of h goes on as j, at the cost of those in one of the windows.*)
TypingGoes(h, j, steps) ==
    human' = [g \in Typists |->
                IF g = h THEN j
                ELSE [human[g] EXCEPT !.swayed = @ \/ human[g].step \in steps]]

TypingTold(j, r) == [j EXCEPT !.report = r, !.step = "done"]
KeysHeld(h) == {k \in keysDown : k[1] = h}

-----------------------------------------------------------------------------
(* POST /click and POST /type on the session.                                *)
AsksToClick(h) ==
    /\ human[h].step = "idle"
    /\ \E f \in Fields : TypingGoes(h, [AtEase EXCEPT !.field = f, !.lands = f, !.step = "look"], {})
    /\ UNCHANGED <<onPage, inView, caret, button, strokes, keysDown, cable>>

AsksToType(h) ==
    /\ human[h].step = "idle"
    /\ \E f \in Fields, t \in {u \in Texts : h \in Brief => Len(u) < 2} :
         TypingGoes(h, [AtEase EXCEPT !.kind = "type", !.field = f, !.lands = f, !.text = t,
                                !.step = "look"], {})
    /\ UNCHANGED <<onPage, inView, caret, button, strokes, keysDown, cable>>

(* click(): the script scrolls the field into the window and measures it.    *)
ClickLooks(h) ==
    LET j == human[h] IN
    /\ j.step = "look" /\ j.kind = "click" /\ cable
    /\ IF j.field \notin onPage
       THEN TypingGoes(h, TypingTold(j, "not_found"), {}) /\ UNCHANGED inView
       ELSE /\ inView' = j.field
            /\ TypingGoes(h, [j EXCEPT !.aimed = TRUE, !.step = "press"],
                    IF inView = j.field THEN {} ELSE PlaceKnown)
    /\ UNCHANGED <<onPage, caret, button, strokes, keysDown, cable>>

(* The engine's type_text() measures the field where it is: one outside the  *)
(* window gets a place no event reaches.                                     *)
TypeLooks(h) ==
    LET j == human[h] IN
    /\ j.step = "look" /\ j.kind = "type" /\ cable
    /\ IF j.field \notin onPage
       THEN TypingGoes(h, TypingTold(j, "not_found"), {})
       ELSE TypingGoes(h, [j EXCEPT !.aimed = inView = j.field, !.step = "press"], {})
    /\ UNCHANGED <<onPage, inView, caret, button, strokes, keysDown, cable>>

(* _send_mouse_event: an event goes out without waiting for an answer, and   *)
(* one that cannot go out is dropped without a word.                         *)
Reaches(j) == IF cable THEN Struck(j) ELSE NoField

(* move_mouse_to() ends and the button goes down: the field takes the focus. *)
Presses(h) ==
    LET j == human[h]
        f == Reaches(j) IN
    /\ j.step = "press"
    /\ IF f = NoField THEN TypingGoes(h, [j EXCEPT !.step = "release"], {}) /\ UNCHANGED <<caret, button>>
       ELSE /\ caret' = f /\ button' = f
            /\ TypingGoes(h, [j EXCEPT !.step = "release"], FocusTaken)
    /\ UNCHANGED <<onPage, inView, strokes, keysDown, cable>>

(* The text is sent unless it is empty.                                      *)
TypesNext(j) == IF j.next <= Len(j.text) THEN [j EXCEPT !.step = "down"] ELSE TypingTold(j, "ok")

(* 50 to 150 ms later the button goes up: a click where it went down.        *)
Releases(h) ==
    LET j == human[h]
        f == Reaches(j)
        k == IF f # NoField /\ f = button /\ f = j.field THEN [j EXCEPT !.clicked = TRUE] ELSE j IN
    /\ j.step = "release"
    /\ TypingGoes(h, IF j.kind = "click" THEN TypingTold(k, "ok") ELSE TypesNext(k),
            IF f = NoField THEN {} ELSE {"release"})
    /\ button' = IF f = NoField THEN button ELSE NoField
    /\ UNCHANGED <<onPage, inView, caret, strokes, keysDown, cable>>

(* keyDown after the pause: it inserts the character where the focus is now, *)
(* or moves the focus.                                                       *)
KeyGoesDown(h) ==
    LET j == human[h]
        tab == j.text[j.next] = "tab" IN
    /\ j.step = "down" /\ cable
    /\ keysDown' = keysDown \cup {<<h, j.next>>}
    /\ IF tab THEN caret' = TabFrom(caret) /\ UNCHANGED strokes
       ELSE /\ UNCHANGED caret
            /\ strokes' = IF caret = NoField THEN strokes
                          ELSE Append(strokes, [by |-> h, key |-> j.next, field |-> caret,
                                                lands |-> j.lands, swayed |-> j.swayed])
    /\ TypingGoes(h, [j EXCEPT !.step = "up", !.lands = IF tab THEN TabFrom(@) ELSE @],
            IF tab THEN FocusTaken ELSE {})
    /\ UNCHANGED <<onPage, inView, button, cable>>

(* keyUp completes the pair; then the next key, or the answer.               *)
KeyGoesUp(h) ==
    LET j == human[h] IN
    /\ j.step = "up" /\ cable
    /\ keysDown' = keysDown \ {<<h, j.next>>}
    /\ TypingGoes(h, TypesNext([j EXCEPT !.next = @ + 1]), {})
    /\ UNCHANGED <<onPage, inView, caret, button, strokes, cable>>

(* A typist that discarded the error of a dispatch would go on with the next.*)
KeyRaisesUnheard(h) ==
    LET j == human[h] IN
    /\ ~cable /\ j.step \in {"look", "down", "up"}
    /\ TypingGoes(h, IF j.step = "look" THEN TypingTold(j, "failed")
               ELSE TypesNext([j EXCEPT !.next = @ + 1]), {})
    /\ UNCHANGED <<onPage, inView, caret, button, strokes, keysDown, cable>>

(* A command on a lost WebSocket raises: the request fails where it is, and a*)
(* key that went down stays down.                                            *)
KeyRaises(h) ==
    LET j == human[h] IN
    /\ ~cable /\ j.step \in {"look", "down", "up"}
    /\ TypingGoes(h, TypingTold(j, "failed"), {})
    /\ UNCHANGED <<onPage, inView, caret, button, strokes, keysDown, cable>>

-----------------------------------------------------------------------------
(* The WebSocket is lost.                                                   *)
WireBreaks ==
    /\ cable /\ cable' = FALSE
    /\ human' = [g \in Typists |-> [human[g] EXCEPT !.swayed = @ \/ human[g].step \notin {"idle", "done"}]]
    /\ UNCHANGED <<onPage, inView, caret, button, strokes, keysDown>>

HumanNext ==
    \/ \E h \in Typists :
         \/ AsksToClick(h) \/ AsksToType(h) \/ ClickLooks(h) \/ TypeLooks(h)
         \/ Presses(h) \/ Releases(h) \/ KeyGoesDown(h) \/ KeyGoesUp(h) \/ KeyRaises(h)
    \/ WireBreaks

-----------------------------------------------------------------------------
HumanTypeOK ==
    /\ onPage \subseteq Fields /\ inView \in onPage
    /\ caret \in Fields \cup {NoField} /\ button \in Fields \cup {NoField}
    /\ keysDown \subseteq Typists \X (1..MaxKeys)
    /\ cable \in BOOLEAN
    /\ \A i \in 1..Len(strokes) : strokes[i].by \in Typists /\ strokes[i].field \in onPage
    /\ \A h \in Typists :
         /\ human[h].kind \in {"click", "type"} /\ human[h].field \in Fields \cup {NoField}
         /\ human[h].step \in HumanSteps /\ human[h].text \in Texts
         /\ human[h].next \in 1..MaxKeys + 1
         /\ human[h].report \in {"none", "ok", "not_found", "failed"}

(* The characters of a request that reached the page.                        *)
Of(h) == {i \in 1..Len(strokes) : strokes[i].by = h}
CharsIn(t) == {k \in 1..Len(t) : t[k] = "char"}

(* The pauses that make the input look like a person's leave room for others,*)
(* yet (1) an answered text on a field the page shows was sent to its last   *)
(* character; (2) its characters land in its own field, in their order, and a*)
(* click is a click on its own field, unless another request pressed or      *)
(* tabbed after the field had been pressed, or scrolled after it had been    *)
(* measured; (3) a key stays down only for a request that failed            *)
(* (behavioral_engine.py:134, behavioral_typing.py:345).                     *)
KeysLand ==
    /\ \A h \in Typists :
         LET j == human[h] IN
         /\ j.report = "ok" /\ j.kind = "type" /\ j.aimed /\ ~j.swayed =>
              {strokes[i].key : i \in Of(h)} = CharsIn(j.text)
         /\ j.report = "ok" /\ j.kind = "type" => j.next = Len(j.text) + 1 /\ KeysHeld(h) = {}
         /\ j.report = "ok" /\ j.aimed /\ ~j.swayed => j.clicked
         /\ KeysHeld(h) # {} => j.step = "up" \/ j.report = "failed"
    /\ \A i \in 1..Len(strokes) :
         /\ human[strokes[i].by].aimed /\ ~strokes[i].swayed => strokes[i].field = strokes[i].lands
         /\ \A k \in Of(strokes[i].by) : i < k => strokes[i].key < strokes[k].key

=============================================================================
