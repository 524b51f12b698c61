------------------------------ MODULE PageWaits ------------------------------
(***************************************************************************)
(* The operations that wait for a page (cdp_client.py) and what the HTTP   *)
(* endpoints and the MCP tools in front of them tell their caller.  A wait *)
(* is a script that polls inside the page until its deadline: a dialog     *)
(* freezes it, a new document destroys it, and the command that carries it *)
(* has a timeout of its own.  Navigation polls from outside the page.      *)
(***************************************************************************)
EXTENDS Naturals

CONSTANTS
    Waiters,        (* requests on the tab                                   *)
    Fetches,        (* network requests of the page                          *)
    MaxDocs,        (* bound: documents the tab shows                        *)
    MaxUrl,         (* bound: URLs the tab shows                             *)
    WaitKinds       (* bound: the operations that are called                 *)

Scripts == {"element", "condition", "gone", "text", "js", "url"}
Checks  == {"assert", "state"}

ASSUME PageWaitsAssumption ==
    /\ MaxDocs \in Nat \ {0} /\ MaxUrl \in Nat \ {0}
    /\ WaitKinds \subseteq Scripts \cup Checks \cup {"navigate", "idle", "ready"}

VARIABLES
    page,           (* the document, its URL and state, and an open dialog   *)
    flying,         (* requests of the page without an answer                *)
    await           (* what each request is doing                            *)

waitVars == <<page, flying, await>>

Layers == {"http", "tool"}
Unread == 0         (* the origin of a document that could not be read       *)

NoCall == [kind |-> "element", layer |-> "http", step |-> "idle", doc |-> Unread,
           url |-> 0, base |-> Unread, slow |-> FALSE, heard |-> {}, quiet |-> 0,
           saw |-> FALSE, others |-> FALSE, found |-> "none", told |-> "none"]

WaitInit ==
    /\ page = [doc |-> 1, url |-> 1, ready |-> "complete", holds |-> FALSE, dialog |-> FALSE]
    /\ flying = {}
    /\ await = [w \in Waiters |-> NoCall]

-----------------------------------------------------------------------------
Waiting(w) == await[w].step \notin {"idle", "done"}

(* What the caller waits for, in the page as p and f have it.                *)
Holds(c, p, f) ==
    CASE c.kind = "gone"     -> ~p.holds
      [] c.kind = "url"      -> p.url # c.url
      [] c.kind = "navigate" -> p.doc # c.doc /\ p.ready # "loading"
      [] c.kind = "idle"     -> c.heard \cap f = {}
      [] OTHER               -> p.holds

(* Every wait under way notes what it waits for, whether or not it looks.    *)
Noted(c, p, f) == [c EXCEPT !.saw = (@ \/ Holds(c, p, f))]
PageIs(p, f) ==
    /\ page' = p /\ flying' = f
    /\ await' = [w \in Waiters |-> IF Waiting(w) THEN Noted(await[w], p, f) ELSE await[w]]

Step(w, c) ==
    /\ await' = [await EXCEPT ![w] = IF c.step = "done" THEN c ELSE Noted(c, page, flying)]
    /\ UNCHANGED <<page, flying>>

(* The answers.  The client's outer status is "ok" for a wait that ran out   *)
(* of time (wait_for_text alone hands its verdict on), and the envelope of   *)
(* run_op is "ok" for whatever did not raise; the two checks look inside.    *)
HttpWaitTells(found)  == IF found = "failed" THEN "error" ELSE "ok"
HttpCheckTells(found) == IF found \in {"failed", "timeout"} THEN "error" ELSE "ok"
HttpTells(kind, found) == IF kind \in Checks THEN HttpCheckTells(found) ELSE HttpWaitTells(found)

(* _engine_failure reads the verdict inside the envelope.                    *)
EngineFailure(found) == IF found \in {"failed", "timeout"} THEN "error" ELSE "ok"

WaitForTool(found)      == EngineFailure(found)
WaitJsTool(found)       == EngineFailure(found)
WaitConditionTool(found) == EngineFailure(found)
ElementStateTool(found) == EngineFailure(found)

(* assert_ looks for "passed" one level above where the engine puts it, and  *)
(* an `idle` of FALSE is no failure; the readers and navigate hand on what   *)
(* the engine says.                                                          *)
AssertTool(found)       == IF found = "failed" THEN "error" ELSE "ok"
NetworkIdleTool(found)  == IF found = "failed" THEN "error" ELSE "ok"
PageTextTool(found)     == EngineFailure(found)
NavigateTool(found)     == EngineFailure(found)

ToolTells(kind, found) ==
    CASE kind \in {"element", "gone", "text"} -> WaitForTool(found)
      [] kind = "js"        -> WaitJsTool(found)
      [] kind = "condition" -> WaitConditionTool(found)
      [] kind = "state"     -> ElementStateTool(found)
      [] kind = "assert"    -> AssertTool(found)
      [] kind = "idle"      -> NetworkIdleTool(found)
      [] kind = "ready"     -> PageTextTool(found)
      [] kind = "navigate"  -> NavigateTool(found)

Told(c, found) ==
    [c EXCEPT !.step = "done", !.found = found,
              !.told = IF c.layer = "http" THEN HttpTells(c.kind, found)
                                           ELSE ToolTells(c.kind, found)]

-----------------------------------------------------------------------------
(* A request begins an operation through one of the layers.                  *)
Begins(w, kind, layers, step) ==
    /\ await[w].step = "idle" /\ kind \in WaitKinds
    /\ \E l \in layers :
         Step(w, [NoCall EXCEPT !.kind = kind, !.layer = l, !.doc = page.doc,
                                !.url = page.url, !.step = step])

(* These send a script; no endpoint has the detailed text wait for itself,   *)
(* and no tool waits for a URL alone.                                        *)
WaitForElement(w)      == \E k \in {"element", "gone"} : Begins(w, k, Layers, "poll")
WaitForCondition(w)    == Begins(w, "condition", Layers, "poll")
WaitForText(w)         == Begins(w, "text", {"http"}, "poll")
WaitForTextDetailed(w) == Begins(w, "text", {"tool"}, "poll")
WaitJs(w)              == Begins(w, "js", Layers, "poll")
AssertElements(w)      == Begins(w, "assert", Layers, "poll")
ElementState(w)        == Begins(w, "state", Layers, "poll")

(* wait_for_navigation reads the URL first, navigate the origin of the       *)
(* document, and wait_for_network_idle registers its callbacks.              *)
WaitForNavigation(w)   == Begins(w, "url", {"http"}, "read")
Navigate(w)            == Begins(w, "navigate", Layers, "read")
WaitForNetworkIdle(w)  == Begins(w, "idle", Layers, "listen")
WaitForReady(w)        == Begins(w, "ready", Layers, "listen")

(* The script looks at the page it runs in, until its deadline.  A check     *)
(* looks once.                                                               *)
Running(w) == await[w].step = "poll" /\ ~page.dialog /\ await[w].doc = page.doc
Looked(c) == Holds(c, page, flying)

PollSees(w) ==
    /\ Running(w) /\ Looked(await[w])
    /\ Step(w, Told(await[w], "seen"))

PollExpires(w) ==
    /\ Running(w)
    /\ await[w].kind \in Checks => ~Looked(await[w])
    /\ Step(w, Told(await[w], "timeout"))

(* The document of the script is gone: Chrome answers with an error.         *)
ScriptDestroyed(w) ==
    /\ await[w].step = "poll" /\ await[w].doc # page.doc
    /\ Step(w, Told(await[w], "failed"))

(* _send_command: no answer within the client's timeout.                     *)
CommandExpires(w) ==
    /\ await[w].step \in {"poll", "read", "send", "listen", "document", "settle"}
    /\ page.dialog
    /\ Step(w, CASE await[w].step = "read" /\ await[w].kind = "navigate" -> [await[w] EXCEPT !.step = "send"]
                 [] await[w].step = "settle" /\ await[w].kind = "navigate" -> Told(await[w], await[w].found)
                 [] OTHER -> Told(await[w], "failed"))

(* wait_for_navigation: the script that polls runs in the document that is   *)
(* there when it arrives.                                                    *)
ReadUrl(w) ==
    /\ await[w].kind = "url" /\ await[w].step = "read" /\ ~page.dialog
    /\ Step(w, [await[w] EXCEPT !.step = "send", !.url = page.url])

PollSent(w) ==
    /\ await[w].kind = "url" /\ await[w].step = "send" /\ ~page.dialog
    /\ Step(w, [await[w] EXCEPT !.step = "poll", !.doc = page.doc])

-----------------------------------------------------------------------------
(* navigate: refused while a dialog is open, and a baseline that cannot be   *)
(* read counts as no document at all (0.0).                                  *)
ReadOrigin(w) ==
    /\ await[w].kind = "navigate" /\ await[w].step = "read"
    /\ IF page.dialog THEN Step(w, Told(await[w], "failed"))
       ELSE \E o \in {page.doc, Unread} :
              Step(w, [await[w] EXCEPT !.step = "send", !.base = o])

(* Page.navigate: Chrome commits a new document, keeps it (a change of the   *)
(* fragment), or cannot load it.  From here on the caller means the document *)
(* after the one of this moment.                                             *)
Loading(p, same) == IF same THEN [p EXCEPT !.url = @ + 1]
                  ELSE [p EXCEPT !.url = @ + 1, !.doc = @ + 1, !.ready = "loading", !.holds = FALSE]

SendNavigate(w) ==
    /\ await[w].kind = "navigate" /\ await[w].step = "send" /\ ~page.dialog
    /\ \/ Step(w, Told(await[w], "failed"))
       \/ /\ page.url < MaxUrl
          /\ \E same \in BOOLEAN :
               /\ ~same => page.doc < MaxDocs
               /\ page' = Loading(page, same) /\ UNCHANGED flying
               /\ await' = [v \in Waiters |->
                    IF v = w THEN [await[v] EXCEPT !.step = "document", !.doc = page.doc,
                                     !.slow = FALSE, !.saw = FALSE,
                                     !.others = await[v].base \notin {page.doc, Unread}]
                    ELSE IF Waiting(v) THEN Noted(await[v], page', flying) ELSE await[v]]

(* _wait_for_document: a state counts in another document than the baseline, *)
(* or after a second.  A page that cannot be read ends the wait.             *)
NewDocument(c) == page.doc # c.base
AcceptsAny(c) == page.ready # "loading"                (* mutant of Accepts *)
Accepts(c) == page.ready # "loading" /\ (NewDocument(c) \/ c.slow)
Loaded(c, found) == IF c.layer = "http" THEN [c EXCEPT !.step = "settle", !.found = found]
                                        ELSE Told(c, found)

SecondPasses(w) ==
    /\ await[w].step = "document" /\ ~await[w].slow
    /\ Step(w, [await[w] EXCEPT !.slow = TRUE])

DocumentReady(w) ==
    /\ await[w].step = "document" /\ ~page.dialog /\ Accepts(await[w])
    /\ Step(w, Loaded(await[w], "seen"))

DocumentUnreadable(w) ==
    /\ await[w].step = "document" /\ ~page.dialog
    /\ Step(w, Loaded(await[w], "unread"))

DocumentExpires(w) ==
    /\ await[w].step = "document" /\ await[w].slow /\ ~page.dialog /\ ~Accepts(await[w])
    /\ Step(w, Told(await[w], "failed"))

(* POST /navigate polls once more, and swallows whatever comes of it;        *)
(* get_page_text reads the page.                                             *)
Settles(w) ==
    /\ await[w].step = "settle" /\ ~page.dialog
    /\ Step(w, Told(await[w], await[w].found))

-----------------------------------------------------------------------------
(* wait_for_network_idle: callbacks note the requests that start from now    *)
(* on; quiet counts the two looks that found none, with a pause between.     *)
Registers(w) ==
    /\ await[w].step = "listen" /\ ~page.dialog
    /\ Step(w, [await[w] EXCEPT !.step = "watch", !.heard = {}, !.quiet = 0])

Pending(c) == c.heard # {}

Quiet(w) ==
    /\ await[w].kind = "idle" /\ await[w].step = "watch" /\ ~Pending(await[w])
    /\ Step(w, IF await[w].quiet = 0 THEN [await[w] EXCEPT !.quiet = 1] ELSE Told(await[w], "seen"))

NotQuiet(w) ==
    /\ await[w].kind = "idle" /\ await[w].step = "watch"
    /\ await[w].quiet = 1 /\ Pending(await[w])
    /\ Step(w, [await[w] EXCEPT !.quiet = 0])

WatchExpires(w) ==
    /\ await[w].kind = "idle" /\ await[w].step = "watch"
    /\ Step(w, Told(await[w], "timeout"))

(* wait_for_ready waits for idle and reads the text until it is the same     *)
(* four times; it says ready when its time is up as well.  The tool reads    *)
(* the text after the wait, however that ended.                              *)
StableAfter == 3
ReadyEnds(c, found) ==
    IF c.layer = "tool" THEN [c EXCEPT !.step = "settle", !.found = "ready"] ELSE Told(c, found)

ReadsText(w) ==
    /\ await[w].kind = "ready" /\ await[w].step = "watch" /\ ~page.dialog
    /\ LET same == await[w].doc = page.doc /\ await[w].saw = page.holds
           n    == IF same THEN await[w].quiet + 1 ELSE 0 IN
       await' = [await EXCEPT ![w] =
                  IF n = StableAfter THEN ReadyEnds(await[w], "ready")
                  ELSE [await[w] EXCEPT !.doc = page.doc, !.saw = page.holds, !.quiet = n]]
    /\ UNCHANGED <<page, flying>>

ReadyExpires(w) ==
    /\ await[w].kind = "ready" /\ await[w].step = "watch"
    /\ Step(w, ReadyEnds(await[w], IF page.dialog THEN "failed" ELSE "ready"))

(* The answer is sent.                                                       *)
WaitAnswered(w) ==
    /\ await[w].step = "done"
    /\ await' = [await EXCEPT ![w] = NoCall]
    /\ UNCHANGED <<page, flying>>

-----------------------------------------------------------------------------
(* The page goes on by itself: a document or URL of its own, loading,        *)
(* changes of its content, dialogs and requests.                             *)
PageGoes ==
    \/ /\ page.url < MaxUrl
       /\ \E same \in BOOLEAN : (~same => page.doc < MaxDocs) /\ PageIs(Loading(page, same), flying)
    \/ /\ page.ready # "complete"
       /\ PageIs([page EXCEPT !.ready = IF @ = "loading" THEN "interactive" ELSE "complete"], flying)
    \/ ~page.dialog /\ PageIs([page EXCEPT !.holds = ~@], flying)
    \/ PageIs([page EXCEPT !.dialog = ~@], flying)

(* Network.requestWillBeSent, responseReceived and loadingFailed: the last   *)
(* has no callback, so the request stays noted.                              *)
FetchStarts(r) ==
    /\ r \notin flying /\ flying' = flying \cup {r} /\ UNCHANGED page
    /\ await' = [w \in Waiters |-> IF await[w].step = "watch"
                                  THEN [await[w] EXCEPT !.heard = @ \cup {r}] ELSE await[w]]

FetchEnds(r) ==
    /\ r \in flying /\ flying' = flying \ {r} /\ UNCHANGED page
    /\ \E answered \in BOOLEAN :
         await' = [w \in Waiters |->
                    IF Waiting(w)
                    THEN Noted([await[w] EXCEPT !.heard = IF answered THEN @ \ {r} ELSE @], page, flying')
                    ELSE await[w]]

WaitNext ==
    \/ \E w \in Waiters :
         \/ WaitForElement(w) \/ WaitForCondition(w) \/ WaitForText(w) \/ WaitForTextDetailed(w)
         \/ WaitJs(w) \/ AssertElements(w) \/ ElementState(w) \/ WaitForNavigation(w)
         \/ Navigate(w) \/ WaitForNetworkIdle(w) \/ WaitForReady(w)
         \/ WaitAnswered(w) \/ CommandExpires(w)
         \/ PollSees(w) \/ PollExpires(w) \/ ScriptDestroyed(w)
         \/ ReadUrl(w) \/ PollSent(w)
         \/ ReadOrigin(w) \/ SendNavigate(w) \/ SecondPasses(w)
         \/ DocumentReady(w) \/ DocumentUnreadable(w) \/ DocumentExpires(w) \/ Settles(w)
         \/ Registers(w) \/ Quiet(w) \/ NotQuiet(w) \/ WatchExpires(w)
         \/ ReadsText(w) \/ ReadyExpires(w)
    \/ PageGoes
    \/ \E r \in Fetches : FetchStarts(r) \/ FetchEnds(r)

(* Every script, poll and command has a deadline of its own.                 *)
PollDue(w) ==
    \/ PollExpires(w) \/ ScriptDestroyed(w) \/ CommandExpires(w)
    \/ PollSees(w) \/ ReadUrl(w) \/ PollSent(w)
NavigateDue(w) ==
    \/ ReadOrigin(w) \/ SendNavigate(w) \/ CommandExpires(w)
    \/ SecondPasses(w) \/ DocumentReady(w) \/ DocumentExpires(w) \/ Settles(w)
WatchDue(w) == Registers(w) \/ CommandExpires(w) \/ WatchExpires(w) \/ ReadyExpires(w)
WaitFairness ==
    \A w \in Waiters :
        WF_waitVars(PollDue(w)) /\ WF_waitVars(NavigateDue(w)) /\ WF_waitVars(WatchDue(w))

-----------------------------------------------------------------------------
WaitTypeOK ==
    /\ page.doc \in 1..MaxDocs /\ page.url \in 1..MaxUrl
    /\ flying \subseteq Fetches
    /\ \A w \in Waiters :
         /\ await[w].base \in 0..MaxDocs /\ await[w].heard \subseteq Fetches
         /\ await[w].quiet \in 0..StableAfter

(* A wait that answers "seen" has something to show for it: what it waited   *)
(* for held at some moment between its call and its answer.  For a           *)
(* navigation that is a document newer than the one Page.navigate left,      *)
(* unless a second had passed, the baseline could not be read, or another    *)
(* navigation of the page came between the baseline and Page.navigate.       *)
AnswersSeen ==
    \A w \in Waiters : LET c == await[w] IN
        c.found = "seen" =>
            c.saw \/ (c.kind = "navigate" /\ (c.slow \/ c.base = Unread \/ c.others))

(* A tool does not call a wait that ran out of time, a check that failed or  *)
(* a command without an answer a success (_engine_failure), whatever the     *)
(* envelope says; an idle network and assert_ are the ones that do.          *)
ToolTellsTruth ==
    \A w \in Waiters : LET c == await[w] IN
        c.step = "done" /\ c.layer = "tool" /\ c.told = "ok" =>
            c.found \in {"seen", "ready", "unread"} \/ c.kind \in {"idle", "assert"}

(* Every wait ends: a frozen page, a lost document and a busy network all    *)
(* run into a deadline.                                                      *)
WaitsEnd == \A w \in Waiters : Waiting(w) ~> ~Waiting(w)

=============================================================================
