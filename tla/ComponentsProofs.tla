--------------------------- MODULE ComponentsProofs ---------------------------
(***************************************************************************)
(* Theorems about what callers are told and given by the other components: *)
(* whose tab a request runs on, what session_status says, what a download  *)
(* brings, what the operator's workspace keeps, what a client believes of  *)
(* its tab, what is seen of a page and where typed keys land; for any      *)
(* number of clients, calls, tabs and operators.                           *)
(***************************************************************************)
EXTENDS Routing, HandOff, Downloads, Workspace, ClientEvents, Sightings,
        HumanInput, FiniteSetTheorems, SequenceTheorems, TLAPS

-----------------------------------------------------------------------------
(* Routing.  The shape of the state.                                         *)
SeatRecords ==
    [state : {"unused", "live", "ended"}, for : Clients \cup {Warmer, NoId}, tab : 0..MaxTabs,
     own : SUBSET (1..MaxTabs), at : 0..MaxTabs, astray : SUBSET Detours]
AskRecords ==
    [pc : {"idle", "resolve", "ensure", "find", "pick", "run"} \cup HealSteps,
     kind : {"none", "op", "direct", "global", "new", "tab"},
     sid : RouteIds \cup {NoId}, auto : BOOLEAN, want : 0..MaxTabs,
     via : {"none", "seat", "shared", "own"}, moved : BOOLEAN]
RouteShape ==
    /\ opened \in 1..MaxTabs /\ lostTabs \subseteq 1..opened /\ shared \in 0..Browser
    /\ seat \in [RouteIds -> SeatRecords] /\ ask \in [Askers -> AskRecords]
    /\ jar \in [Clients -> RouteIds \cup {NoId}]

(* The client of session p, when n tabs have been opened, sits on a tab of   *)
(* the session's own unless it roamed, and on `tab` unless it is astray.     *)
AtHome(p, n) ==
    /\ p.own \subseteq 1..n /\ p.tab \in p.own \cup {Nowhere}
    /\ p.at # Nowhere /\ "roamed" \notin p.astray => p.at \in p.own
    /\ p.at # Nowhere /\ p.astray = {} => p.at = p.tab

(* Where request a has got to says how it came by its client; `place` is     *)
(* what the default client is attached to.                                   *)
AskSound(a, place) ==
    /\ a.pc \in {"find", "pick"} => a.kind = "tab"
    /\ a.pc # "run" => ~a.moved
    /\ a.pc \in {"resolve", "ensure"} \cup HealSteps => a.kind # "tab"
    /\ a.pc \in {"ensure", "run"} \cup HealSteps /\ a.via = "seat" => a.sid \in RouteIds
    /\ a.pc \in HealSteps => a.via = "seat"
    /\ a.pc = "ensure" => a.via \in {"seat", "shared"}
    /\ a.pc \in {"ensure", "run"} /\ a.kind # "tab" =>
         /\ a.via \in {"seat", "shared"}
         /\ a.via = "shared" => a.kind = "global" \/ (a.kind = "op" /\ a.auto)
    /\ a.pc = "run" /\ a.kind = "tab" /\ ~a.moved /\ a.via = "shared" =>
         place \in {a.want, Nowhere, Browser}

(* What request a knows of its session p: a tab it reads is the one the      *)
(* client sits on, a tab it heals to is the session's own, and while no heal *)
(* crosses another, that is `tab`, to which only it attaches the client.     *)
Knows(a, p) ==
    /\ a.pc = "run" /\ a.kind = "tab" /\ ~a.moved /\ a.via = "seat" => p.at \in {a.want, Nowhere}
    /\ a.pc \in {"attach", "reopen", "settle"} => a.want \in p.own \cup {Nowhere}
    /\ a.pc \in HealSteps /\ "crossed" \notin p.astray =>
         /\ p.at = Nowhere \/ ("halfway" \in p.astray /\ a.pc \in {"reopen", "settle"})
         /\ a.pc \in {"attach", "settle"} => a.want = p.tab
SeatsKnown == \A c \in Askers : ask[c].sid # NoId => Knows(ask[c], seat[ask[c].sid])

(* One heal at a time, unless they cross.                                    *)
OneHeals ==
    \A c, d \in Askers :
      (/\ ask[c].pc \in HealSteps /\ ask[d].pc \in HealSteps /\ ask[c].sid = ask[d].sid
       /\ "crossed" \notin seat[ask[c].sid].astray) => c = d

(* What somebody holds was minted, and for him; the keep-warm loop asks for  *)
(* a session while it has none.                                              *)
OwnersOnly ==
    /\ \A c \in Askers : ask[c].sid # NoId =>
         seat[ask[c].sid].for = Caller(c) /\ seat[ask[c].sid].state # "unused"
    /\ \A k \in Clients : jar[k] # NoId =>
         seat[jar[k]].for = k /\ seat[jar[k]].state # "unused"
TabsApart == \A s, r \in RouteIds : s # r => seat[s].own \cap seat[r].own = {}
WarmerHasOne ==
    /\ ask[WarmCall].kind \in {"none", "new"} /\ ask[WarmCall].sid = NoId
    /\ \A s \in RouteIds : Seated(s) /\ seat[s].for = Warmer =>
         /\ AskAt(WarmCall, "idle")
         /\ \A r \in RouteIds \ {s} : ~(Seated(r) /\ seat[r].for = Warmer)

RouteInv ==
    /\ RouteShape /\ (\A s \in RouteIds : AtHome(seat[s], opened))
    /\ (\A c \in Askers : AskSound(ask[c], shared)) /\ SeatsKnown /\ OneHeals
    /\ OwnersOnly /\ TabsApart /\ WarmerHasOne

-----------------------------------------------------------------------------
(* Hand-offs.  The calls in progress.                                        *)
ToolRecords ==
    [pc : {"idle", "go", "gate", "judge", "poll", "apply", "applied"},
     kind : {"none", "navigate", "read", "await", "set", "clear"},
     on : 0..MaxHandTabs, saw : Facings, key : Emulated \cup {"none"}]
HandShape ==
    /\ HandTypeOK /\ tool \in [HandCallers -> ToolRecords]
    /\ owed \in BOOLEAN /\ crossed \subseteq HandCallers /\ blurred \subseteq Emulated
    /\ \A c \in HandCallers : tool[c].pc \in {"apply", "applied"} =>
         tool[c].key \in Emulated /\ tool[c].kind \in {"set", "clear"}

(* The hand-off that is named waits; one that no other overlapped is named.  *)
HandOffNamed ==
    /\ handedTo # NoOne => handedTo \in HandCallers /\ ToolAt(handedTo, "poll")
    /\ \A c \in HandCallers \ crossed : ToolAt(c, "poll") => handedTo = c

(* Between Chrome's answer and the note, what the page wears is what the one *)
(* call in between asked for; otherwise what is noted.                       *)
Applied(c, k) == ToolAt(c, "applied") /\ tool[c].key = k
EmulationKnown ==
    own \notin gone => \A k \in Emulated \ blurred :
      /\ \A c, d \in HandCallers : Applied(c, k) /\ Applied(d, k) => c = d
      /\ \A c \in HandCallers : Applied(c, k) => (k \in worn[own] <=> tool[c].kind = "set")
      /\ (\A c \in HandCallers : ~Applied(c, k)) => (k \in emulating <=> k \in worn[own])

HandInv == HandShape /\ owed = noted /\ HandOffNamed /\ EmulationKnown

-----------------------------------------------------------------------------
(* The workspace.  Its records.                                              *)
LeaseRecords ==
    [node : WorkNodes \cup {NoOperator}, checkpoint : BOOLEAN, state : {"ACTIVE", "RECOVERABLE", "FAILED"}]
DutyRecords ==
    [does : {"rest", "leases", "approves", "judges"}, read : Nat,
     node : WorkNodes \cup {NoOperator}, checkpoint : BOOLEAN]
WorkShape ==
    /\ quota \in Nat /\ highest \in Nat /\ quota <= highest
    /\ leases \in Seq(LeaseRecords) /\ trials \in Seq(BOOLEAN)
    /\ duty \in [Operators -> DutyRecords]
    /\ takeover \in [state : {"NONE", "WAITING", "CLAIMED", "APPROVED"},
                     claimant : Operators \cup {NoOperator}, expired : BOOLEAN]
    /\ approver \in [who : Operators \cup {NoOperator}, overtaken : BOOLEAN]
    /\ verdict \in [state : {"RUNNING", "PASSED", "FAILED"}, of : Nat]

(* Whoever has counted may lease: when the last one counted, there were      *)
(* fewer leases than the quota, and not everybody else had counted.          *)
Counted == {o \in Operators : duty[o].does = "leases"}
QuotaKept ==
    Cardinality(TenantActive) + Cardinality(Counted) <= highest + Cardinality(Operators) - 1

RecoverySound ==
    \A i \in DOMAIN leases :
      /\ leases[i].state = "RECOVERABLE" <=> leases[i].checkpoint /\ leases[i].state # "ACTIVE"
      /\ leases[i].state # "ACTIVE" => leases[i].node \in lost

(* Whoever is about to approve holds the claim, or was overtaken.            *)
ClaimsRead ==
    /\ \A o \in Operators : duty[o].does = "approves" => takeover.claimant = o \/ duty[o].read = 1
    /\ takeover.state = "APPROVED" =>
          /\ approver.who # NoOperator
          /\ takeover.claimant = approver.who \/ approver.overtaken

(* What was read of the trials is still there: they are never taken back.    *)
VerdictSound ==
    /\ \A o \in Operators : duty[o].does = "judges" => duty[o].read <= Len(trials)
    /\ verdict.state # "RUNNING" =>
          verdict.of <= Len(trials) /\ (verdict.state = "PASSED" <=> Passes(verdict.of))

WorkInv == WorkShape /\ QuotaKept /\ RecoverySound /\ ClaimsRead /\ VerdictSound

-----------------------------------------------------------------------------
(* Downloads.  Two callers at work know of each other.                       *)
LoadRecords ==
    [does : {"rest", "sets", "opens", "polls", "stores"}, path : Loaders \cup {NoLoader},
     told : {"none", "error", "timeout", "ok"}]
LoadShape ==
    /\ LoadsTypeOK /\ load \in [Loaders -> LoadRecords] /\ others \in [Loaders -> SUBSET Loaders]
OverlapsNoted == \A c, d \in Working : c # d => c \in others[d]
LoadInv == LoadShape /\ OverlapsNoted /\ DownloadsWhole

-----------------------------------------------------------------------------
(* Events.  The shape of the state.                                          *)
News == {DialogClosed} \cup {Opening(d) : d \in 1..MaxDialogs}
Commands == {"netOn", "netOff", "castOn", "castOff", "notesOn", "console"}
CommandRecords == [who : Watchers, what : Commands]
ClientRecords ==
    [open : 0..MaxDialogs, policy : Policies, console : 0..MaxKept, net : BOOLEAN,
     cast : BOOLEAN, notes : BOOLEAN, born : 0..MaxDialogs]
EventShape ==
    /\ tabOf \in ViewTabs /\ showing \in [ViewTabs -> 0..MaxDialogs]
    /\ wire \in Seq(News) /\ replies \in Seq(CommandRecords)
    /\ client \in ClientRecords /\ answering \subseteq 1..MaxDialogs
    /\ domains \subseteq {"net", "cast", "notes"} /\ stale \subseteq Flags

(* The last news under way, or else what was heard, is what shows.           *)
DialogTold ==
    IF wire = <<>> THEN "dialog" \notin stale => client.open = showing[tabOf]
    ELSE wire[Len(wire)].dialog = showing[tabOf]

(* A start that is under way has been obeyed, or a stop follows it.          *)
StartsObeyed ==
    \A i \in DOMAIN replies : replies[i].what = "netOn" =>
      "net" \in domains \/ \E k \in DOMAIN replies : i < k /\ replies[k].what = "netOff"
NetTold  == client.net /\ "net" \notin stale => "net" \in domains \/ InFlight("netOff")
CastTold == client.cast /\ "cast" \notin stale => "cast" \in domains \/ InFlight("castOff")
NotesTold ==
    (client.notes \/ InFlight("notesOn")) /\ "notes" \notin stale => "notes" \in domains

EventInv == EventShape /\ DialogTold /\ StartsObeyed /\ NetTold /\ CastTold /\ NotesTold

-----------------------------------------------------------------------------
(* Sightings.  The shape of the state.                                       *)
ShotRecords == [table : {"semantic", "ax"}, scene : Scenes]
GazeRecords ==
    [step : {"idle", "resolve", "capture", "compare", "told"}, mode : Modes, tab : SightTabs,
     since : Nat, during : SUBSET Scenes, shot : Nat,
     report : {"none", "ok", "stale", "failed", "tab_closed", "tab_not_found"},
     changed : BOOLEAN, dropped : BOOLEAN, offset : Nat, texts : Nat, controls : SUBSET Nat,
     read : BOOLEAN]
SightShape ==
    /\ inTab \in [SightTabs -> Scenes] /\ shutTabs \subseteq SightTabs
    /\ shots \in Seq(ShotRecords) /\ tables \subseteq 1..Len(shots)
    /\ gaze \in [Watching -> GazeRecords]

(* The snapshot that was taken shows what the tab showed meanwhile.          *)
Witnessed(j) == j.shot \in 1..Len(shots) /\ shots[j.shot].scene \in j.during

(* How far a reader has got in a snapshot of c; one of no text and more      *)
(* controls than a page holds is never read to its end.                      *)
ReadSoFar(j, c) ==
    /\ j.texts = j.offset /\ j.offset <= c
    /\ c # 0 => j.controls = 1..j.offset
    /\ IF c = 0 THEN ~j.read ELSE j.read <=> j.offset = c

(* Where an observation has got to says what is known of it.                 *)
GazeSound(j) ==
    /\ j.shot <= Len(shots) /\ j.since <= Len(shots)
    /\ j.report # "none" => j.step = "told"
    /\ j.step \in {"resolve", "capture"} => inTab[j.tab] \in j.during
    /\ j.step # "told" => j.offset = 0 /\ j.texts = 0 /\ j.controls = {} /\ ~j.read
    /\ j.step = "compare" => Witnessed(j)
    /\ j.since # 0 => /\ shots[j.since].table = TableOf(j.mode)
                      /\ j.since \notin tables => j.dropped
    /\ j.report = "ok" => /\ Witnessed(j) /\ ReadSoFar(j, shots[j.shot].scene)
                          /\ j.since # 0 => (j.changed <=> shots[j.since].scene # shots[j.shot].scene)
    /\ j.report = "stale" /\ j.offset = 0 /\ j.mode # "ax" => j.dropped \/ j.shot \notin tables
    /\ j.report \in {"tab_closed", "tab_not_found"} => j.tab \in shutTabs
    /\ j.report # "ok" => ~j.read

SightInv == SightShape /\ \A o \in Watching : GazeSound(gaze[o])

-----------------------------------------------------------------------------
(* Human input.  The shape of the state.                                     *)
TypingRecords ==
    [kind : {"click", "type"}, field : Fields \cup {NoField}, text : Texts, step : HumanSteps,
     aimed : BOOLEAN, next : Nat, lands : Fields \cup {NoField},
     report : {"none", "ok", "not_found", "failed"}, clicked : BOOLEAN, swayed : BOOLEAN]
StrokeRecords ==
    [by : Typists, key : Nat, field : Fields, lands : Fields \cup {NoField}, swayed : BOOLEAN]
HumanShape ==
    /\ onPage \subseteq Fields /\ inView \in onPage /\ caret \in onPage \cup {NoField}
    /\ button \in onPage \cup {NoField} /\ cable \in BOOLEAN
    /\ strokes \in Seq(StrokeRecords) /\ keysDown \subseteq Typists \X Nat
    /\ human \in [Typists -> TypingRecords]

(* Nobody has come between the request and the page since it was aimed.      *)
Untouched(j) == j.aimed /\ ~j.swayed
KeysOf(h) == {strokes[i].key : i \in Of(h)}

(* What has been typed when a request is where it is.                        *)
TypedSoFar(j) ==
    CASE j.step = "down" -> CharsIn(j.text) \cap 1..(j.next - 1)
      [] j.step = "up"   -> CharsIn(j.text) \cap 1..j.next
      [] j.step = "done" -> CharsIn(j.text)
      [] OTHER           -> {}

(* Where a request has got to says what it has done.                         *)
TypingSound(h, j) ==
    /\ j.step # "done" => j.report = "none"
    /\ j.step \in {"idle", "look", "press", "release"} =>
         j.next = 1 /\ KeysOf(h) = {} /\ j.lands = j.field
    /\ j.step \in {"down", "up"} => j.kind = "type" /\ j.next \in 1..Len(j.text)
    /\ j.step = "done" => j.report # "none"
    /\ j.report = "ok" /\ j.kind = "type" => j.next = Len(j.text) + 1
    /\ \A k \in KeysOf(h) : k < j.next \/ (j.step \in {"up", "done"} /\ k = j.next)
    /\ KeysHeld(h) # {} => j.step = "up" \/ j.report = "failed"
    /\ KeysHeld(h) \subseteq {<<h, j.next>>}
    /\ Untouched(j) /\ j.step \in {"press", "release", "down", "up"} => cable
    /\ Untouched(j) /\ j.step \in {"press", "release"} => inView = j.field
    /\ Untouched(j) /\ j.step = "release" => caret = j.field /\ button = j.field
    /\ Untouched(j) /\ j.step \in {"down", "up"} => caret = j.lands /\ caret \in onPage /\ j.clicked
    /\ Untouched(j) /\ j.report = "ok" => j.clicked
    /\ Untouched(j) /\ j.kind = "type" /\ (j.step \in {"down", "up"} \/ j.report = "ok") =>
         KeysOf(h) = TypedSoFar(j)

StrokesSound ==
    \A i \in 1..Len(strokes) :
      /\ human[strokes[i].by].aimed /\ ~strokes[i].swayed => strokes[i].field = strokes[i].lands
      /\ \A k \in Of(strokes[i].by) : i < k => strokes[i].key < strokes[k].key
HumanInv == HumanShape /\ StrokesSound /\ \A h \in Typists : TypingSound(h, human[h])

-----------------------------------------------------------------------------
(* Routing.                                                                  *)

LEMMA RouteInitial == RouteInit => RouteInv
<1> SUFFICES ASSUME RouteInit
             PROVE  RouteInv
  OBVIOUS
<1> USE RoutingAssumption DEF RouteInit, Nowhere, Browser
<1>1. RouteShape
  <2>1. NoSeat \in SeatRecords /\ NoAsk \in AskRecords
    BY DEF SeatRecords, AskRecords, NoSeat, NoAsk
  <2>2. opened \in 1..MaxTabs /\ shared \in 0..Browser /\ lostTabs \subseteq 1..opened
    OBVIOUS
  <2>3. QED
    BY <2>1, <2>2 DEF RouteShape
<1>2. \A s \in RouteIds : AtHome(seat[s], opened)
  BY DEF AtHome, NoSeat
<1>3. \A c \in Askers : AskSound(ask[c], shared)
  BY DEF AskSound, NoAsk, HealSteps
<1>4. SeatsKnown /\ OneHeals
  BY DEF SeatsKnown, OneHeals, NoAsk, HealSteps
<1>5. OwnersOnly
  BY DEF OwnersOnly, NoAsk
<1>6. TabsApart
  BY DEF TabsApart, NoSeat
<1>7. WarmerHasOne
  BY DEF WarmerHasOne, Seated, NoSeat, NoAsk, WarmCall, Askers
<1>8. QED
  BY <1>1, <1>2, <1>3, <1>4, <1>5, <1>6, <1>7 DEF RouteInv

(* What the invariant says of one request.                                   *)
LEMMA OneAsk ==
  ASSUME RouteInv, NEW c \in Askers
  PROVE  /\ ask[c] \in AskRecords /\ AskSound(ask[c], shared)
         /\ ask[c].sid # NoId =>
              /\ ask[c].sid \in RouteIds /\ seat[ask[c].sid] \in SeatRecords
              /\ Knows(ask[c], seat[ask[c].sid])
              /\ seat[ask[c].sid].for = Caller(c) /\ seat[ask[c].sid].state # "unused"
         /\ c = WarmCall => ask[c].kind \in {"none", "new"} /\ ask[c].sid = NoId
         /\ c = WarmCall /\ ask[c].pc # "idle" =>
              \A s \in RouteIds : ~(Seated(s) /\ seat[s].for = Warmer)
         /\ NoAsk \in AskRecords /\ AskSound(NoAsk, shared)
         /\ jar \in [Clients -> RouteIds \cup {NoId}]
<1> USE DEF RouteInv
<1>1. /\ ask[c] \in AskRecords /\ seat \in [RouteIds -> SeatRecords]
      /\ jar \in [Clients -> RouteIds \cup {NoId}]
  BY DEF RouteShape
<1>2. ask[c].sid \in RouteIds \cup {NoId}
  BY <1>1 DEF AskRecords
<1>3. NoAsk \in AskRecords
  BY RoutingAssumption DEF NoAsk, AskRecords, Nowhere
<1>4. AskSound(NoAsk, shared)
  BY DEF NoAsk, AskSound, HealSteps
<1>5. ask[c].sid # NoId =>
        /\ Knows(ask[c], seat[ask[c].sid])
        /\ seat[ask[c].sid].for = Caller(c) /\ seat[ask[c].sid].state # "unused"
  BY DEF SeatsKnown, OwnersOnly
<1>6. /\ c = WarmCall => ask[c].kind \in {"none", "new"} /\ ask[c].sid = NoId
      /\ c = WarmCall /\ ask[c].pc # "idle" =>
           \A s \in RouteIds : ~(Seated(s) /\ seat[s].for = Warmer)
  BY DEF WarmerHasOne, AskAt
<1>7. QED
  BY <1>1, <1>2, <1>3, <1>4, <1>5, <1>6

(* Only the request of c goes on.                                            *)
LEMMA OneAskMoves ==
  ASSUME RouteInv, NEW c \in Askers, NEW j \in AskRecords, ask' = [ask EXCEPT ![c] = j],
         UNCHANGED <<opened, lostTabs, shared, seat>>, AskSound(j, shared),
         j.sid # NoId => /\ Knows(j, seat[j.sid])
                         /\ seat[j.sid].for = Caller(c) /\ seat[j.sid].state # "unused",
         j.pc \in HealSteps => ask[c].pc \in HealSteps /\ j.sid = ask[c].sid,
         c = WarmCall => /\ j.kind \in {"none", "new"} /\ j.sid = NoId
                         /\ j.pc = "idle" \/ \A s \in RouteIds : ~(Seated(s) /\ seat[s].for = Warmer),
         jar' \in [Clients -> RouteIds \cup {NoId}],
         \A k \in Clients : jar'[k] = jar[k] \/ (k = Caller(c) /\ jar'[k] = ask[c].sid)
  PROVE  RouteInv'
<1> USE DEF RouteInv
<1>1. RouteShape'
  BY DEF RouteShape
<1>2. \A d \in Askers : ask'[d] = IF d = c THEN j ELSE ask[d]
  BY DEF RouteShape
<1>3. (\A s \in RouteIds : AtHome(seat[s], opened))' /\ TabsApart'
  BY DEF TabsApart
<1>4. (\A d \in Askers : AskSound(ask[d], shared))'
  BY <1>2
<1>5. SeatsKnown'
  BY <1>2 DEF SeatsKnown
<1>6. OneHeals'
  BY <1>2 DEF OneHeals
<1>7. OwnersOnly'
  BY <1>2 DEF OwnersOnly
<1>8. WarmerHasOne'
  BY <1>2 DEF WarmerHasOne, Seated, AskAt, Askers
<1>9. QED
  BY <1>1, <1>3, <1>4, <1>5, <1>6, <1>7, <1>8

(* The steps of a request that touch nothing but itself and its cookie.      *)
LEMMA QuietSteps ==
  ASSUME RouteInv, NEW c \in Askers,
         \/ ResolveKnown(c) \/ Refuses(c) \/ AutoMintFails(c) \/ EnsureConnected(c) \/ EnsureFails(c)
         \/ HealLaunched(c) \/ FindsTab(c) \/ PicksClient(c) \/ Runs(c)
  PROVE  RouteInv'
<1>0. /\ ask[c] \in AskRecords /\ AskSound(ask[c], shared)
      /\ ask[c].sid # NoId =>
           /\ ask[c].sid \in RouteIds /\ seat[ask[c].sid] \in SeatRecords
           /\ Knows(ask[c], seat[ask[c].sid])
           /\ seat[ask[c].sid].for = Caller(c) /\ seat[ask[c].sid].state # "unused"
      /\ c = WarmCall => ask[c].kind \in {"none", "new"} /\ ask[c].sid = NoId
      /\ c = WarmCall /\ ask[c].pc # "idle" =>
           \A s \in RouteIds : ~(Seated(s) /\ seat[s].for = Warmer)
      /\ NoAsk \in AskRecords /\ AskSound(NoAsk, shared)
      /\ jar \in [Clients -> RouteIds \cup {NoId}]
  BY OneAsk
<1>1. /\ \A s \in RouteIds : AtHome(seat[s], opened)
      /\ shared \in 0..Browser
  BY DEF RouteInv, RouteShape
(* The request ends.                                                         *)
<1>2. ASSUME AskEnds(c), UNCHANGED <<opened, lostTabs, shared, seat>>,
             jar' \in [Clients -> RouteIds \cup {NoId}],
             \A k \in Clients : jar'[k] = jar[k] \/ (k = Caller(c) /\ jar'[k] = ask[c].sid)
      PROVE  RouteInv'
  <2>1. NoAsk.sid = NoId /\ NoAsk.pc = "idle" /\ NoAsk.kind = "none" /\ NoAsk.pc \notin HealSteps
    BY DEF NoAsk, HealSteps
  <2>2. QED
    BY <1>0, <1>2, <2>1, OneAskMoves DEF AskEnds
(* It goes on, on the same session.                                          *)
<1>3. ASSUME NEW j \in AskRecords, AskGoes(c, j), UNCHANGED <<opened, lostTabs, shared, seat, jar>>,
             j.sid = ask[c].sid, AskSound(j, shared), ask[c].pc # "idle", c # WarmCall,
             j.pc \in HealSteps => ask[c].pc \in HealSteps,
             j.sid # NoId => Knows(j, seat[j.sid])
      PROVE  RouteInv'
  BY <1>0, <1>3, OneAskMoves DEF AskGoes
<1>4. CASE ResolveKnown(c)
  <2>1. PICK j : j = [ask[c] EXCEPT !.pc = "ensure", !.kind = IF @ = "global" THEN @ ELSE "op",
                                    !.via = IF ask[c].sid # NoId THEN "seat" ELSE "shared"]
    OBVIOUS
  <2>2. /\ j \in AskRecords /\ j.sid = ask[c].sid /\ j.pc = "ensure" /\ j.moved = ask[c].moved
        /\ j.kind = (IF ask[c].kind = "global" THEN "global" ELSE "op")
        /\ j.via = (IF ask[c].sid # NoId THEN "seat" ELSE "shared")
    BY <1>0, <2>1 DEF AskRecords
  <2>3. /\ AskGoes(c, j) /\ UNCHANGED <<opened, lostTabs, shared, seat, jar>>
        /\ ask[c].pc = "resolve" /\ (ask[c].sid # NoId \/ ask[c].kind = "global")
    BY <1>4, <2>1 DEF ResolveKnown, AskAt
  <2>4. AskSound(j, shared) /\ j.pc \notin HealSteps
    BY <1>0, <2>2, <2>3 DEF AskSound, HealSteps
  <2>5. j.sid # NoId => Knows(j, seat[j.sid])
    BY <2>2, <2>4 DEF Knows
  <2>6. c # WarmCall
    BY <1>0, <2>3
  <2>7. QED
    BY <1>3, <2>2, <2>3, <2>4, <2>5, <2>6
<1>5. CASE Refuses(c)
  BY <1>0, <1>2, <1>5 DEF Refuses
<1>6. CASE AutoMintFails(c)
  <2>1. PICK j : j = [ask[c] EXCEPT !.pc = "ensure", !.via = "shared"]
    OBVIOUS
  <2>2. /\ j \in AskRecords /\ j.sid = ask[c].sid /\ j.pc = "ensure" /\ j.via = "shared"
        /\ j.kind = ask[c].kind /\ j.auto = ask[c].auto /\ j.moved = ask[c].moved
    BY <1>0, <2>1 DEF AskRecords
  <2>3. /\ UNCHANGED <<opened, lostTabs, shared, seat, jar>> /\ ask[c].pc = "resolve"
        /\ ask[c].sid = NoId /\ ask[c].kind \in {"op", "direct"} /\ ask[c].auto
        /\ IF ask[c].kind = "direct" THEN AskEnds(c) ELSE AskGoes(c, j)
    BY <1>6, <2>1 DEF AutoMintFails, AskAt
  <2>4. CASE ask[c].kind = "direct"
    BY <1>0, <1>2, <2>3, <2>4
  <2>5. CASE ask[c].kind = "op"
    <3>1. AskSound(j, shared) /\ j.pc \notin HealSteps
      BY <1>0, <2>2, <2>3, <2>5 DEF AskSound, HealSteps
    <3>2. c # WarmCall
      BY <1>0, <2>5
    <3>3. QED
      BY <1>3, <2>2, <2>3, <2>5, <3>1, <3>2
  <2>6. QED
    BY <2>3, <2>4, <2>5
<1>7. CASE EnsureConnected(c)
  <2>1. PICK j : j = [ask[c] EXCEPT !.pc = "run"]
    OBVIOUS
  <2>2. /\ j \in AskRecords /\ j.sid = ask[c].sid /\ j.pc = "run" /\ j.via = ask[c].via
        /\ j.kind = ask[c].kind /\ j.auto = ask[c].auto /\ j.moved = ask[c].moved
    BY <1>0, <2>1 DEF AskRecords
  <2>3. /\ AskGoes(c, j) /\ UNCHANGED <<opened, lostTabs, shared, seat, jar>> /\ ask[c].pc = "ensure"
    BY <1>7, <2>1 DEF EnsureConnected, AskAt
  <2>4. AskSound(j, shared) /\ j.pc \notin HealSteps /\ j.kind # "tab"
    BY <1>0, <2>2, <2>3 DEF AskSound, HealSteps
  <2>5. j.sid # NoId => Knows(j, seat[j.sid])
    BY <2>2, <2>4 DEF Knows
  <2>6. c # WarmCall
    BY <1>0, <2>3, RoutingAssumption DEF AskSound
  <2>7. QED
    BY <1>3, <2>2, <2>3, <2>4, <2>5, <2>6
<1>8. CASE EnsureFails(c)
  BY <1>0, <1>2, <1>8 DEF EnsureFails
<1>9. CASE HealLaunched(c)
  <2>1. PICK t : t = seat[ask[c].sid].tab
    OBVIOUS
  <2>2. PICK j : j = [ask[c] EXCEPT !.pc = "attach", !.want = t]
    OBVIOUS
  <2>3. /\ AskGoes(c, j) /\ UNCHANGED <<opened, lostTabs, shared, seat, jar>> /\ ask[c].pc = "launch"
    BY <1>9, <2>1, <2>2 DEF HealLaunched, AskAt
  <2>4. ask[c].sid \in RouteIds /\ ask[c].sid # NoId /\ ask[c].pc \in HealSteps /\ ask[c].via = "seat"
    BY <1>0, <2>3, RoutingAssumption DEF AskSound, HealSteps
  <2>5. t \in 0..MaxTabs /\ t \in seat[ask[c].sid].own \cup {Nowhere}
    BY <1>0, <1>1, <2>1, <2>4 DEF SeatRecords, AtHome
  <2>6. /\ j \in AskRecords /\ j.sid = ask[c].sid /\ j.pc = "attach" /\ j.via = ask[c].via
        /\ j.kind = ask[c].kind /\ j.moved = ask[c].moved /\ j.want = t
    BY <1>0, <2>2, <2>5 DEF AskRecords, HealSteps
  <2>7. AskSound(j, shared)
    BY <1>0, <2>3, <2>4, <2>6 DEF AskSound, HealSteps
  <2>8. Knows(j, seat[j.sid])
    BY <1>0, <2>1, <2>3, <2>4, <2>5, <2>6 DEF Knows, HealSteps
  <2>9. c # WarmCall
    BY <1>0, <2>4
  <2>10. QED
    BY <1>3, <2>3, <2>4, <2>6, <2>7, <2>8, <2>9
<1>10. CASE FindsTab(c)
  <2>1. PICK j : j = [ask[c] EXCEPT !.pc = "pick"]
    OBVIOUS
  <2>2. /\ j \in AskRecords /\ j.sid = ask[c].sid /\ j.pc = "pick" /\ j.via = ask[c].via
        /\ j.kind = ask[c].kind /\ j.moved = ask[c].moved
    BY <1>0, <2>1 DEF AskRecords
  <2>3. /\ UNCHANGED <<opened, lostTabs, shared, seat, jar>> /\ ask[c].pc = "find"
        /\ AskGoes(c, j) \/ AskEnds(c)
    BY <1>10, <2>1 DEF FindsTab, AskAt
  <2>4. AskSound(j, shared) /\ j.pc \notin HealSteps
    BY <1>0, <2>2, <2>3 DEF AskSound, HealSteps
  <2>5. j.sid # NoId => Knows(j, seat[j.sid])
    BY <2>2, <2>4 DEF Knows
  <2>6. c # WarmCall
    BY <1>0, <2>3 DEF AskSound
  <2>7. QED
    BY <1>0, <1>2, <1>3, <2>2, <2>3, <2>4, <2>5, <2>6
<1>11. CASE PicksClient(c)
  <2>1. /\ UNCHANGED <<opened, lostTabs, shared, seat, jar>> /\ ask[c].pc = "pick" /\ ask[c].kind = "tab"
        /\ c # WarmCall /\ ~ask[c].moved
    BY <1>0, <1>11 DEF PicksClient, AskAt, AskSound
  <2>2. ASSUME NEW via \in {"seat", "shared", "own"},
               AskGoes(c, [ask[c] EXCEPT !.pc = "run", !.via = via]),
               via = "seat" => SitsOn(c), via = "shared" => shared = ask[c].want
        PROVE  RouteInv'
    <3>1. PICK j : j = [ask[c] EXCEPT !.pc = "run", !.via = via]
      OBVIOUS
    <3>2. /\ j \in AskRecords /\ j.sid = ask[c].sid /\ j.pc = "run" /\ j.via = via
          /\ j.kind = "tab" /\ j.moved = ask[c].moved /\ j.want = ask[c].want
      BY <1>0, <2>1, <3>1 DEF AskRecords
    <3>3. via = "seat" => ask[c].sid \in RouteIds /\ seat[ask[c].sid].at = ask[c].want
      BY <1>0, <2>2 DEF SitsOn
    <3>4. AskSound(j, shared) /\ j.pc \notin HealSteps
      BY <2>2, <3>2, <3>3 DEF AskSound, HealSteps
    <3>5. j.sid # NoId => Knows(j, seat[j.sid])
      BY <3>2, <3>3, <3>4 DEF Knows
    <3>6. QED
      BY <1>3, <2>1, <2>2, <3>1, <3>2, <3>4, <3>5
  <2>3. CASE AskEnds(c)
    BY <1>0, <1>2, <2>1, <2>3
  <2>4. QED
    BY <1>11, <2>2, <2>3 DEF PicksClient
<1>12. CASE Runs(c)
  <2>1. /\ AskEnds(c) /\ UNCHANGED <<opened, lostTabs, shared, seat>>
        /\ jar' = [k \in Clients |-> IF k = Caller(c) /\ ask[c].sid # NoId THEN ask[c].sid ELSE jar[k]]
    BY <1>12 DEF Runs
  <2>2. jar' \in [Clients -> RouteIds \cup {NoId}]
    BY <1>0, <2>1
  <2>3. \A k \in Clients : jar'[k] = jar[k] \/ (k = Caller(c) /\ jar'[k] = ask[c].sid)
    BY <2>1
  <2>4. QED
    BY <1>2, <2>1, <2>2, <2>3
<1>13. QED
  BY <1>4, <1>5, <1>6, <1>7, <1>8, <1>9, <1>10, <1>11, <1>12

(* A request arrives, on a session of its caller if at all.                  *)
LEMMA ArrivalStep ==
  ASSUME RouteInv, NEW c \in Askers, NEW kind \in {"op", "direct", "global", "new", "tab"},
         NEW sid \in RouteIds \cup {NoId}, NEW auto \in BOOLEAN, NEW want \in 0..MaxTabs,
         AskArrives(c, kind, sid, auto, want),
         sid # NoId => seat[sid].for = Caller(c),
         c = WarmCall => /\ kind = "new" /\ sid = NoId
                         /\ \A s \in RouteIds : ~(Seated(s) /\ seat[s].for = Warmer)
  PROVE  RouteInv'
<1>1. PICK known \in BOOLEAN : known = (sid # NoId /\ Seated(sid))
  OBVIOUS
<1>2. PICK wish \in BOOLEAN : wish = (auto /\ ~known)
  OBVIOUS
<1>3. PICK at \in {"find", "resolve"} : at = IF kind = "tab" THEN "find" ELSE "resolve"
  OBVIOUS
<1>a. PICK held \in RouteIds \cup {NoId} : held = IF known THEN sid ELSE NoId
  OBVIOUS
<1>b. PICK j : j = [ask[c] EXCEPT !.pc = at, !.kind = kind, !.auto = wish, !.sid = held, !.want = want]
  OBVIOUS
<1>4. /\ ask[c].pc = "idle" /\ ask' = [ask EXCEPT ![c] = j]
      /\ UNCHANGED <<opened, lostTabs, shared, seat, jar>>
  BY <1>1, <1>2, <1>3, <1>a, <1>b DEF AskArrives, AskGoes, AskAt
<1>5. /\ ask[c] \in AskRecords /\ AskSound(ask[c], shared) /\ jar \in [Clients -> RouteIds \cup {NoId}]
  BY OneAsk
<1>6. /\ j \in AskRecords /\ j.pc = (IF kind = "tab" THEN "find" ELSE "resolve") /\ j.kind = kind
      /\ j.sid = (IF known THEN sid ELSE NoId) /\ j.moved = ask[c].moved
  <2>1. j \in AskRecords /\ j.pc = at /\ j.kind = kind /\ j.sid = held /\ j.moved = ask[c].moved
    BY <1>5, <1>b DEF AskRecords
  <2>2. QED
    BY <1>3, <1>a, <2>1
<1>7. AskSound(j, shared) /\ j.pc \notin HealSteps \cup {"run"}
  BY <1>4, <1>5, <1>6 DEF AskSound, HealSteps
<1>8. j.sid # NoId => /\ Knows(j, seat[j.sid])
                      /\ seat[j.sid].for = Caller(c) /\ seat[j.sid].state # "unused"
  BY <1>1, <1>6, <1>7 DEF Knows, HealSteps, Seated
<1>9. QED
  BY <1>4, <1>5, <1>6, <1>7, <1>8, OneAskMoves

(* Requests whose client moved under them are otherwise as they were.        *)
LEMMA JoltedAsk ==
  ASSUME RouteInv, NEW who, NEW d \in Askers
  PROVE  /\ Jolted(who)[d] \in AskRecords
         /\ Jolted(who)[d].pc = ask[d].pc /\ Jolted(who)[d].kind = ask[d].kind
         /\ Jolted(who)[d].sid = ask[d].sid /\ Jolted(who)[d].via = ask[d].via
         /\ Jolted(who)[d].want = ask[d].want
         /\ AskSound(Jolted(who)[d], shared)
         /\ d \in who /\ ask[d].kind = "tab" /\ ask[d].pc = "run" => Jolted(who)[d].moved
         /\ Jolted(who)[d] = ask[d] \/ (Jolted(who)[d].moved /\ ask[d].pc = "run" /\ ask[d].kind = "tab")
<1>1. ask[d] \in AskRecords /\ AskSound(ask[d], shared)
  BY OneAsk
<1>2. PICK j : j = Jolted(who)[d]
  OBVIOUS
<1>3. j = IF d \in who /\ ask[d].kind = "tab" /\ ask[d].pc = "run"
          THEN [ask[d] EXCEPT !.moved = TRUE] ELSE ask[d]
  BY <1>2 DEF Jolted, AskAt
<1>4. CASE d \in who /\ ask[d].kind = "tab" /\ ask[d].pc = "run"
  <2>1. j = [ask[d] EXCEPT !.moved = TRUE]
    BY <1>3, <1>4
  <2>2. /\ j \in AskRecords /\ j.pc = ask[d].pc /\ j.kind = ask[d].kind /\ j.sid = ask[d].sid
        /\ j.via = ask[d].via /\ j.want = ask[d].want /\ j.moved /\ j.auto = ask[d].auto
    BY <1>1, <2>1 DEF AskRecords
  <2>3. AskSound(j, shared)
    BY <1>1, <1>4, <2>2 DEF AskSound, HealSteps
  <2>4. QED
    BY <1>2, <1>4, <2>2, <2>3
<1>5. CASE ~(d \in who /\ ask[d].kind = "tab" /\ ask[d].pc = "run")
  BY <1>1, <1>2, <1>3, <1>5
<1>6. QED
  BY <1>4, <1>5

(* The requests under way, but for those of session s that read a tab.       *)
LikeAsks(asks, s) ==
    /\ asks \in [Askers -> AskRecords]
    /\ \A d \in Askers :
         /\ AskSound(asks[d], shared) /\ asks[d].pc = ask[d].pc
         /\ asks[d].sid = ask[d].sid /\ asks[d].kind = ask[d].kind
         /\ ask[d].sid # s => asks[d] = ask[d]

LEMMA AsksAlike ==
  ASSUME RouteInv, NEW s
  PROVE  LikeAsks(ask, s) /\ LikeAsks(Jolted(Sitting(s)), s)
<1>1. LikeAsks(ask, s)
  BY OneAsk DEF LikeAsks, RouteInv, RouteShape
<1>2. PICK asks : asks = Jolted(Sitting(s))
  OBVIOUS
<1>3. asks = [d \in Askers |-> asks[d]] /\ \A d \in Askers : asks[d] \in AskRecords
  BY <1>2, JoltedAsk DEF Jolted
<1>4. \A d \in Askers :
        /\ AskSound(asks[d], shared) /\ asks[d].pc = ask[d].pc
        /\ asks[d].sid = ask[d].sid /\ asks[d].kind = ask[d].kind
  BY <1>2, JoltedAsk
<1>5. \A d \in Askers : ask[d].sid # s => asks[d] = ask[d]
  BY <1>2 DEF Jolted, Sitting
<1>6. asks \in [Askers -> AskRecords]
  BY <1>3
<1>7. QED
  BY <1>1, <1>2, <1>4, <1>5, <1>6 DEF LikeAsks

(* Something happens to session s and its client, of which request c and,    *)
(* where the client moves, those that sit on it get to know.                 *)
SeatStep(c, s, p, j, asks, n) ==
    /\ ask[c].sid = s /\ LikeAsks(asks, s) /\ ask' = [asks EXCEPT ![c] = j]
    /\ seat' = [seat EXCEPT ![s] = p] /\ opened' = n /\ opened <= n
    /\ UNCHANGED <<lostTabs, shared, jar>>
    /\ p.state = seat[s].state /\ p.for = seat[s].for /\ AtHome(p, n)
    /\ \A t \in p.own : t \in seat[s].own \/ t > opened
    /\ AskSound(j, shared) /\ (j.sid # NoId => j.sid = s /\ Knows(j, p))
    /\ \A d \in Askers \ {c} : ask[d].sid = s => Knows(asks[d], p)
    /\ \A d \in Askers \ {c} :
         (ask[d].sid = s /\ ask[d].pc \in HealSteps /\ "crossed" \notin p.astray) =>
           j.pc \notin HealSteps /\ "crossed" \notin seat[s].astray

LEMMA SeatMoves ==
  ASSUME RouteInv, NEW c \in Askers, NEW s \in RouteIds, NEW p \in SeatRecords,
         NEW j \in AskRecords, NEW asks, NEW n \in 1..MaxTabs, SeatStep(c, s, p, j, asks, n)
  PROVE  RouteInv'
<1>0. /\ ask[c].sid = s /\ LikeAsks(asks, s) /\ ask' = [asks EXCEPT ![c] = j]
      /\ seat' = [seat EXCEPT ![s] = p] /\ opened' = n /\ opened <= n
      /\ UNCHANGED <<lostTabs, shared, jar>>
      /\ p.state = seat[s].state /\ p.for = seat[s].for /\ AtHome(p, n)
      /\ \A t \in p.own : t \in seat[s].own \/ t > opened
      /\ AskSound(j, shared) /\ (j.sid # NoId => j.sid = s /\ Knows(j, p))
      /\ \A d \in Askers \ {c} : ask[d].sid = s => Knows(asks[d], p)
      /\ \A d \in Askers \ {c} :
           (ask[d].sid = s /\ ask[d].pc \in HealSteps /\ "crossed" \notin p.astray) =>
             j.pc \notin HealSteps /\ "crossed" \notin seat[s].astray
  BY DEF SeatStep
<1> USE RoutingAssumption
<1>1. /\ opened \in 1..MaxTabs /\ lostTabs \subseteq 1..opened /\ shared \in 0..Browser
      /\ seat \in [RouteIds -> SeatRecords] /\ ask \in [Askers -> AskRecords]
      /\ jar \in [Clients -> RouteIds \cup {NoId}] /\ s # NoId
      /\ \A r \in RouteIds : AtHome(seat[r], opened)
  BY <1>0 DEF RouteInv, RouteShape
<1>2. /\ asks \in [Askers -> AskRecords]
      /\ \A d \in Askers :
           /\ AskSound(asks[d], shared) /\ asks[d].pc = ask[d].pc
           /\ asks[d].sid = ask[d].sid /\ asks[d].kind = ask[d].kind
           /\ ask[d].sid # s => asks[d] = ask[d]
  <2>1. LikeAsks(asks, s)
    BY <1>0
  <2>2. QED
    BY <2>1 DEF LikeAsks
<1>3. /\ ask'[c] = j
      /\ \A d \in Askers \ {c} :
           /\ ask'[d] = asks[d] /\ ask'[d] \in AskRecords /\ AskSound(ask'[d], shared)
           /\ ask'[d].pc = ask[d].pc /\ ask'[d].sid = ask[d].sid /\ ask'[d].kind = ask[d].kind
  <2>1. ask'[c] = j /\ \A d \in Askers \ {c} : ask'[d] = asks[d]
    BY <1>0, <1>2
  <2>2. \A d \in Askers : /\ asks[d] \in AskRecords /\ AskSound(asks[d], shared)
                          /\ asks[d].pc = ask[d].pc /\ asks[d].sid = ask[d].sid
                          /\ asks[d].kind = ask[d].kind
    BY <1>0, <1>2
  <2>3. QED
    BY <1>0, <2>1, <2>2
<1>4. seat'[s] = p /\ \A r \in RouteIds \ {s} : seat'[r] = seat[r]
  BY <1>0, <1>1
<1>5. RouteShape'
  <2>1. seat' \in [RouteIds -> SeatRecords] /\ ask' \in [Askers -> AskRecords]
    BY <1>0, <1>1, <1>2
  <2>2. lostTabs' \subseteq 1..opened'
    BY <1>0, <1>1
  <2>3. QED
    BY <1>0, <1>1, <2>1, <2>2 DEF RouteShape
<1>6. \A r \in RouteIds : AtHome(seat'[r], opened')
  <2>1. 1..opened \subseteq 1..n
    BY <1>0, <1>1
  <2>2. \A r \in RouteIds : AtHome(seat[r], n)
    BY <1>0, <1>1, <2>1 DEF AtHome
  <2>3. QED
    BY <1>0, <1>4, <2>2
<1>7. \A d \in Askers : AskSound(ask'[d], shared')
  BY <1>0, <1>3
<1>8. SeatsKnown'
  <2>1. ASSUME NEW d \in Askers \ {c}, ask'[d].sid # NoId
        PROVE  Knows(ask'[d], seat'[ask'[d].sid])
    <3>1. CASE ask[d].sid = s
      BY <1>0, <1>3, <1>4, <3>1
    <3>2. CASE ask[d].sid # s
      <4>1. Knows(ask[d], seat[ask[d].sid]) /\ ask[d].sid \in RouteIds \ {s}
        BY <1>0, <1>3, <2>1, <3>2, OneAsk
      <4>2. asks[d] = ask[d]
        BY <1>0, <1>2, <3>2
      <4>3. QED
        BY <1>0, <1>3, <1>4, <4>1, <4>2
    <3>3. QED
      BY <1>0, <3>1, <3>2
  <2>2. j.sid # NoId => Knows(ask'[c], seat'[ask'[c].sid])
    BY <1>0, <1>3, <1>4
  <2>3. QED
    BY <1>0, <1>3, <2>1, <2>2 DEF SeatsKnown
<1>9. OneHeals'
  <2>1. \A d, e \in Askers :
          (/\ ask[d].pc \in HealSteps /\ ask[e].pc \in HealSteps /\ ask[d].sid = ask[e].sid
           /\ "crossed" \notin seat[ask[d].sid].astray) => d = e
    BY <1>0 DEF RouteInv, OneHeals
  <2>2. \A d \in Askers : ask[d].pc \in HealSteps => ask[d].sid \in RouteIds
    BY <1>0, OneAsk DEF AskSound
  <2>3. j.pc \in HealSteps => j.sid = s
    BY <1>0 DEF AskSound
  <2>4. ASSUME NEW d \in Askers \ {c}, NEW e \in Askers \ {c},
               ask'[d].pc \in HealSteps, ask'[e].pc \in HealSteps, ask'[d].sid = ask'[e].sid,
               "crossed" \notin seat'[ask'[d].sid].astray
        PROVE  d = e
    <3>1. /\ ask[d].pc \in HealSteps /\ ask[e].pc \in HealSteps /\ ask[d].sid = ask[e].sid
          /\ ask[d].sid \in RouteIds /\ ask'[d].sid = ask[d].sid
      BY <1>0, <1>3, <2>2, <2>4
    <3>2. "crossed" \notin seat[ask[d].sid].astray
      BY <1>0, <1>4, <2>4, <3>1
    <3>3. QED
      BY <1>0, <2>1, <3>1, <3>2
  <2>5. ASSUME NEW d \in Askers \ {c}, ask'[d].pc \in HealSteps, j.pc \in HealSteps,
               ask'[d].sid = j.sid, "crossed" \notin seat'[j.sid].astray
        PROVE  FALSE
    BY <1>0, <1>3, <1>4, <2>3, <2>5
  <2>6. QED
    BY <1>0, <1>3, <2>4, <2>5 DEF OneHeals
<1>10. OwnersOnly'
  <2>1. \A r \in RouteIds : seat'[r].for = seat[r].for /\ seat'[r].state = seat[r].state
    BY <1>0, <1>4
  <2>2. \A d \in Askers : ask'[d].sid # NoId => ask'[d].sid = ask[d].sid
    BY <1>0, <1>3
  <2>3. QED
    BY <1>0, <1>1, <2>1, <2>2, OneAsk DEF OwnersOnly, RouteInv
<1>11. TabsApart'
  <2>1. \A r \in RouteIds : seat[r].own \subseteq 1..opened
    BY <1>0, <1>1 DEF AtHome
  <2>2. \A r \in RouteIds \ {s} : p.own \cap seat[r].own = {}
    <3>1. ASSUME NEW r \in RouteIds \ {s}, NEW t \in p.own, t \in seat[r].own
          PROVE  FALSE
      <4>1. t \in 1..opened
        BY <1>0, <2>1, <3>1
      <4>2. t \in seat[s].own
        BY <1>0, <1>1, <3>1, <4>1
      <4>3. QED
        BY <1>0, <3>1, <4>2 DEF RouteInv, TabsApart
    <3>2. QED
      BY <1>0, <3>1
  <2>3. QED
    BY <1>0, <1>4, <2>2 DEF RouteInv, TabsApart
<1>12. WarmerHasOne'
  <2>1. \A r \in RouteIds : seat'[r].for = seat[r].for /\ seat'[r].state = seat[r].state
    BY <1>0, <1>4
  <2>2. WarmCall \in Askers \ {c}
    BY <1>0, <1>1, OneAsk DEF Askers
  <2>3. QED
    BY <1>0, <1>3, <2>1, <2>2 DEF RouteInv, WarmerHasOne, Seated, AskAt
<1>13. QED
  BY <1>0, <1>5, <1>6, <1>7, <1>8, <1>9, <1>10, <1>11, <1>12 DEF RouteInv

(* What the others of a session know, when the heals among them are crossed. *)
LEMMA OthersKnow ==
  ASSUME RouteInv, NEW s \in RouteIds, NEW p \in SeatRecords, NEW d \in Askers, ask[d].sid = s,
         ask[d].pc \in HealSteps => "crossed" \in p.astray, seat[s].own \subseteq p.own,
         NEW asks, \/ asks = ask /\ p.at \in {seat[s].at, Nowhere}
                   \/ asks = Jolted(Sitting(s))
  PROVE  Knows(asks[d], p)
<1>1. s # NoId /\ Knows(ask[d], seat[s]) /\ ask[d] \in AskRecords
  BY OneAsk, RoutingAssumption
<1>2. CASE asks = ask /\ p.at \in {seat[s].at, Nowhere}
  BY <1>1, <1>2 DEF Knows
<1>3. CASE asks = Jolted(Sitting(s))
  <2>1. PICK k : k = asks[d]
    OBVIOUS
  <2>2. /\ k.pc = ask[d].pc /\ k.kind = ask[d].kind /\ k.sid = ask[d].sid /\ k.via = ask[d].via
        /\ k.want = ask[d].want
        /\ d \in Sitting(s) /\ ask[d].kind = "tab" /\ ask[d].pc = "run" => k.moved
    BY <1>3, <2>1, JoltedAsk
  <2>3. ask[d].via = "seat" => d \in Sitting(s)
    BY DEF Sitting
  <2>4. Knows(k, p)
    BY <1>1, <2>2, <2>3 DEF Knows
  <2>5. QED
    BY <2>1, <2>4
<1>4. QED
  BY <1>2, <1>3

(* Heals of one session are all crossed but the only one.                    *)
LEMMA HealsCross ==
  ASSUME RouteInv, NEW c \in Askers, NEW d \in Askers \ {c}, ask[d].sid = ask[c].sid,
         ask[c].pc \in HealSteps, ask[d].pc \in HealSteps
  PROVE  "crossed" \in seat[ask[c].sid].astray
BY DEF RouteInv, OneHeals

LEMMA NowhereIsPlace == Nowhere \in 0..MaxTabs
BY RoutingAssumption DEF Nowhere

(* A heal begins: it crosses another, or is the only one.                    *)
LEMMA HealBeginsStep ==
  ASSUME RouteInv, NEW c \in Askers, HealBegins(c)
  PROVE  RouteInv'
<1>1. PICK s : s = ask[c].sid
  OBVIOUS
<1>2. PICK alone \in BOOLEAN : alone = (Healing(s) = {})
  OBVIOUS
<1>3. PICK why : why = IF alone THEN {} ELSE seat[s].astray \cup {"crossed"}
  OBVIOUS
<1>4. PICK p : p = [seat[s] EXCEPT !.at = Nowhere, !.astray = why]
  OBVIOUS
<1>5. PICK j : j = [ask[c] EXCEPT !.pc = "launch"]
  OBVIOUS
<1>6. /\ ask[c].pc = "ensure" /\ ask[c].via = "seat" /\ seat' = [seat EXCEPT ![s] = p]
      /\ ask' = [ask EXCEPT ![c] = j] /\ UNCHANGED <<opened, lostTabs, shared, jar>>
  BY <1>1, <1>2, <1>3, <1>4, <1>5 DEF HealBegins, AskAt, AskGoes, SeatGoes
<1>7. /\ ask[c] \in AskRecords /\ AskSound(ask[c], shared) /\ s \in RouteIds
      /\ seat[s] \in SeatRecords /\ Knows(ask[c], seat[s])
  BY <1>1, <1>6, OneAsk, RoutingAssumption DEF AskSound
<1>8. AtHome(seat[s], opened) /\ opened \in 1..MaxTabs
  BY <1>7 DEF RouteInv, RouteShape
<1>9. /\ p \in SeatRecords /\ p.state = seat[s].state /\ p.for = seat[s].for
      /\ p.own = seat[s].own /\ p.tab = seat[s].tab /\ p.at = Nowhere /\ p.astray = why
  <2>1. why \in SUBSET Detours
    BY <1>3, <1>7 DEF SeatRecords, Detours
  <2>2. QED
    BY <1>4, <1>7, <2>1, NowhereIsPlace DEF SeatRecords
<1>10. /\ j \in AskRecords /\ j.pc = "launch" /\ j.kind = ask[c].kind /\ j.sid = s
       /\ j.via = "seat" /\ j.moved = ask[c].moved
  BY <1>1, <1>5, <1>6, <1>7 DEF AskRecords, HealSteps
<1>11. AtHome(p, opened)
  BY <1>8, <1>9 DEF AtHome
<1>12. AskSound(j, shared) /\ Knows(j, p)
  BY <1>6, <1>7, <1>9, <1>10 DEF AskSound, Knows, HealSteps
<1>13. \A d \in Askers \ {c} : ask[d].sid = s /\ ask[d].pc \in HealSteps => "crossed" \in p.astray
  BY <1>2, <1>3, <1>9 DEF Healing
<1>14. \A d \in Askers \ {c} : ask[d].sid = s => Knows(ask[d], p)
  BY <1>7, <1>9, <1>13, OthersKnow
<1>15. \A t \in p.own : t \in seat[s].own \/ t > opened
  BY <1>9
<1>16. opened \in 1..MaxTabs /\ opened <= opened /\ opened' = opened /\ LikeAsks(ask, s)
  BY <1>6, <1>8, AsksAlike
<1>17. \A d \in Askers \ {c} :
         (ask[d].sid = s /\ ask[d].pc \in HealSteps /\ "crossed" \notin p.astray) =>
           j.pc \notin HealSteps /\ "crossed" \notin seat[s].astray
  BY <1>13
<1>18. j.sid # NoId => j.sid = s /\ Knows(j, p)
  BY <1>10, <1>12
<1>19. SeatStep(c, s, p, j, ask, opened)
  BY <1>1, <1>6, <1>9, <1>11, <1>12, <1>14, <1>15, <1>16, <1>17, <1>18 DEF SeatStep
<1>20. QED
  BY <1>7, <1>9, <1>10, <1>16, <1>19, SeatMoves

(* A heal under way attaches the client, or fails to: somewhere on the way   *)
(* it may have let the client sit on the tab it wanted.                      *)
LEMMA HealMoves ==
  ASSUME RouteInv, NEW c \in Askers, ask[c].pc \in HealSteps,
         NEW s, s = ask[c].sid, NEW p \in SeatRecords, NEW j \in AskRecords,
         ask' = [Jolted(Sitting(s)) EXCEPT ![c] = j], seat' = [seat EXCEPT ![s] = p],
         UNCHANGED <<opened, lostTabs, shared, jar>>,
         p.state = seat[s].state, p.for = seat[s].for, p.own = seat[s].own, p.tab = seat[s].tab,
         "crossed" \in seat[s].astray => "crossed" \in p.astray,
         AtHome(p, opened), AskSound(j, shared), j.sid # NoId => j.sid = s /\ Knows(j, p)
  PROVE  RouteInv'
<1>1. /\ s \in RouteIds /\ opened \in 1..MaxTabs /\ opened <= opened /\ opened' = opened
  BY OneAsk, RoutingAssumption DEF AskSound, RouteInv, RouteShape
<1>2. \A d \in Askers \ {c} :
        ask[d].sid = s /\ ask[d].pc \in HealSteps => "crossed" \in p.astray
  BY HealsCross
<1>3. PICK asks : asks = Jolted(Sitting(s))
  OBVIOUS
<1>4. \A d \in Askers \ {c} : ask[d].sid = s => Knows(asks[d], p)
  BY <1>1, <1>2, <1>3, OthersKnow
<1>5. ask' = [asks EXCEPT ![c] = j] /\ LikeAsks(asks, s)
  BY <1>3, AsksAlike
<1>6. \A d \in Askers \ {c} :
        (ask[d].sid = s /\ ask[d].pc \in HealSteps /\ "crossed" \notin p.astray) =>
          j.pc \notin HealSteps /\ "crossed" \notin seat[s].astray
  BY <1>2
<1>7. ask[c].sid = s /\ UNCHANGED <<lostTabs, shared, jar>>
  OBVIOUS
<1>8. PICK n \in 1..MaxTabs : n = opened
  BY <1>1
<1>9. /\ opened' = n /\ opened <= n /\ AtHome(p, n)
      /\ \A t \in p.own : t \in seat[s].own \/ t > opened
  BY <1>1, <1>8
<1>10. SeatStep(c, s, p, j, asks, n)
  BY <1>4, <1>5, <1>6, <1>7, <1>9 DEF SeatStep
<1>11. QED
  BY <1>1, <1>10, SeatMoves

(* What a heal under way knows.                                              *)
LEMMA HealKnows ==
  ASSUME RouteInv, NEW c \in Askers, ask[c].pc \in HealSteps
  PROVE  LET s == ask[c].sid IN
         /\ s \in RouteIds /\ seat[s] \in SeatRecords /\ AtHome(seat[s], opened)
         /\ seat \in [RouteIds -> SeatRecords]
         /\ Knows(ask[c], seat[s]) /\ ask[c].kind # "tab" /\ ask[c].via = "seat" /\ ~ask[c].moved
         /\ ask[c] \in AskRecords /\ AskSound(ask[c], shared)
         /\ opened \in 1..MaxTabs /\ lostTabs \subseteq 1..opened /\ shared \in 0..Browser
<1>1. /\ ask[c] \in AskRecords /\ AskSound(ask[c], shared) /\ ask[c].sid \in RouteIds
      /\ seat \in [RouteIds -> SeatRecords]
      /\ opened \in 1..MaxTabs /\ lostTabs \subseteq 1..opened /\ shared \in 0..Browser
  BY OneAsk DEF AskSound, RouteInv, RouteShape
<1>2. ask[c].kind # "tab" /\ ask[c].via = "seat" /\ ~ask[c].moved
  BY <1>1 DEF AskSound, HealSteps
<1>3. Knows(ask[c], seat[ask[c].sid]) /\ AtHome(seat[ask[c].sid], opened)
  BY <1>1, OneAsk, RoutingAssumption DEF RouteInv
<1>4. QED
  BY <1>1, <1>2, <1>3

(* The client sits on a tab of the session's own: on its `tab`, unless heals *)
(* cross.                                                                    *)
LEMMA HealAttachesStep ==
  ASSUME RouteInv, NEW c \in Askers, HealAttaches(c)
  PROVE  RouteInv'
<1>1. PICK s : s = ask[c].sid
  OBVIOUS
<1>2. PICK t : t = ask[c].want
  OBVIOUS
<1>3. PICK why : why = seat[s].astray \cap {"crossed"}
  OBVIOUS
<1>4. PICK p : p = [seat[s] EXCEPT !.at = t, !.astray = why]
  OBVIOUS
<1>5. PICK asks : asks = Jolted(Sitting(s))
  OBVIOUS
<1>6. PICK j : j = [asks[c] EXCEPT !.pc = "run", !.want = Nowhere]
  OBVIOUS
<1>7. /\ ask[c].pc \in {"attach", "settle"} /\ t \in OpenTabs
      /\ seat' = [seat EXCEPT ![s] = p] /\ UNCHANGED <<opened, lostTabs, shared, jar>>
  BY <1>1, <1>2, <1>3, <1>4 DEF HealAttaches, SeatGoes
<1>8. ask' = [asks EXCEPT ![c] = j]
  <2>1. ask' = [asks EXCEPT ![c] = [@ EXCEPT !.pc = "run", !.want = Nowhere]]
    BY <1>1, <1>5 DEF HealAttaches
  <2>2. QED
    BY <1>6, <2>1
<1>9. /\ s \in RouteIds /\ seat[s] \in SeatRecords /\ AtHome(seat[s], opened)
      /\ Knows(ask[c], seat[s]) /\ ask[c].kind # "tab" /\ ask[c].via = "seat" /\ ~ask[c].moved
      /\ ask[c] \in AskRecords /\ opened \in 1..MaxTabs /\ lostTabs \subseteq 1..opened
  BY <1>1, <1>7, HealKnows DEF HealSteps
<1>10. asks[c] = ask[c]
  BY <1>5, <1>9, JoltedAsk
<1>11. t \in 1..opened /\ t # Nowhere /\ t \in 0..MaxTabs
  BY <1>7, <1>9, RoutingAssumption DEF OpenTabs, Nowhere
<1>12. t \in seat[s].own /\ ("crossed" \notin seat[s].astray => t = seat[s].tab)
  BY <1>2, <1>7, <1>9, <1>11 DEF Knows, HealSteps
<1>13. /\ p \in SeatRecords /\ p.state = seat[s].state /\ p.for = seat[s].for
       /\ p.own = seat[s].own /\ p.tab = seat[s].tab /\ p.at = t /\ p.astray = why
  BY <1>3, <1>4, <1>9, <1>11 DEF SeatRecords
<1>14. /\ j \in AskRecords /\ j.pc = "run" /\ j.kind = ask[c].kind /\ j.sid = s /\ j.via = "seat"
  <2>1. j = [ask[c] EXCEPT !.pc = "run", !.want = Nowhere]
    BY <1>6, <1>10
  <2>2. QED
    BY <1>1, <1>9, <2>1, NowhereIsPlace DEF AskRecords
<1>15. AtHome(p, opened)
  BY <1>3, <1>9, <1>12, <1>13 DEF AtHome
<1>16. AskSound(j, shared) /\ Knows(j, p)
  BY <1>9, <1>14 DEF AskSound, Knows, HealSteps
<1>17. "crossed" \in seat[s].astray => "crossed" \in p.astray
  BY <1>3, <1>13
<1>18. ask[c].pc \in HealSteps
  BY <1>7 DEF HealSteps
<1>19. QED
  BY <1>1, <1>5, <1>7, <1>8, <1>13, <1>14, <1>15, <1>16, <1>17, <1>18, HealMoves

(* What is left of a session whose client could not be attached.             *)
LEMMA FailedSeat ==
  ASSUME RouteInv, NEW c \in Askers, ask[c].pc \in HealSteps \ {"launch"},
         ConnectFails(ask[c].sid, ask[c].want) \/ UNCHANGED seat
  PROVE  \E p \in SeatRecords :
           /\ seat' = [seat EXCEPT ![ask[c].sid] = p]
           /\ p.state = seat[ask[c].sid].state /\ p.for = seat[ask[c].sid].for
           /\ p.own = seat[ask[c].sid].own /\ p.tab = seat[ask[c].sid].tab
           /\ "crossed" \in seat[ask[c].sid].astray <=> "crossed" \in p.astray
           /\ AtHome(p, opened)
           /\ \/ p.at \in {seat[ask[c].sid].at, Nowhere} /\ p.astray = seat[ask[c].sid].astray
              \/ "halfway" \in p.astray
<1>1. PICK s : s = ask[c].sid
  OBVIOUS
<1>2. PICK t : t = ask[c].want
  OBVIOUS
<1>3. /\ s \in RouteIds /\ seat[s] \in SeatRecords /\ AtHome(seat[s], opened)
      /\ seat \in [RouteIds -> SeatRecords] /\ Knows(ask[c], seat[s])
      /\ opened \in 1..MaxTabs /\ lostTabs \subseteq 1..opened
  BY <1>1, HealKnows
<1>4. CASE UNCHANGED seat
  <2>1. seat' = [seat EXCEPT ![s] = seat[s]]
    BY <1>3, <1>4
  <2>2. QED
    BY <1>1, <1>3, <2>1
<1>5. CASE t \in OpenTabs /\ SeatGoes(s, [seat[s] EXCEPT !.at = Nowhere])
  <2>1. PICK p : p = [seat[s] EXCEPT !.at = Nowhere]
    OBVIOUS
  <2>2. /\ p \in SeatRecords /\ p.state = seat[s].state /\ p.for = seat[s].for
        /\ p.own = seat[s].own /\ p.tab = seat[s].tab /\ p.at = Nowhere /\ p.astray = seat[s].astray
    BY <1>3, <2>1, RoutingAssumption DEF SeatRecords, Nowhere
  <2>3. AtHome(p, opened)
    BY <1>3, <2>2 DEF AtHome
  <2>4. QED
    BY <1>1, <1>5, <2>1, <2>2, <2>3 DEF SeatGoes
<1>6. CASE t \in OpenTabs /\ SeatGoes(s, [seat[s] EXCEPT !.at = t,
                                     !.astray = (seat[s].astray \cap {"crossed"}) \cup {"halfway"}])
  <2>1. PICK why : why = (seat[s].astray \cap {"crossed"}) \cup {"halfway"}
    OBVIOUS
  <2>2. PICK p : p = [seat[s] EXCEPT !.at = t, !.astray = why]
    OBVIOUS
  <2>3. t \in 1..opened /\ t # Nowhere /\ t \in 0..MaxTabs
    BY <1>3, <1>6, RoutingAssumption DEF OpenTabs, Nowhere
  <2>4. /\ p \in SeatRecords /\ p.state = seat[s].state /\ p.for = seat[s].for
        /\ p.own = seat[s].own /\ p.tab = seat[s].tab /\ p.at = t /\ p.astray = why
    BY <1>3, <2>1, <2>2, <2>3 DEF SeatRecords, Detours
  <2>5. t \in seat[s].own
    BY <1>2, <1>3, <2>3 DEF Knows, HealSteps
  <2>6. AtHome(p, opened)
    BY <1>3, <2>1, <2>4, <2>5 DEF AtHome
  <2>7. seat' = [seat EXCEPT ![s] = p]
    BY <1>6, <2>1, <2>2 DEF SeatGoes
  <2>8. ("crossed" \in seat[s].astray <=> "crossed" \in p.astray) /\ "halfway" \in p.astray
    BY <2>1, <2>4
  <2>9. QED
    BY <1>1, <2>4, <2>6, <2>7, <2>8
<1>7. QED
  BY <1>1, <1>2, <1>4, <1>5, <1>6 DEF ConnectFails

LEMMA HealMissesTabStep ==
  ASSUME RouteInv, NEW c \in Askers, HealMissesTab(c)
  PROVE  RouteInv'
<1>1. PICK s : s = ask[c].sid
  OBVIOUS
<1>2. /\ ask[c].pc = "attach" /\ ask[c].pc \in HealSteps \ {"launch"}
      /\ ConnectFails(ask[c].sid, ask[c].want) /\ UNCHANGED <<opened, lostTabs, shared, jar>>
  BY DEF HealMissesTab, AskAt, HealSteps
<1>3. PICK p \in SeatRecords :
        /\ seat' = [seat EXCEPT ![s] = p] /\ p.state = seat[s].state /\ p.for = seat[s].for
        /\ p.own = seat[s].own /\ p.tab = seat[s].tab
        /\ "crossed" \in seat[s].astray <=> "crossed" \in p.astray
        /\ AtHome(p, opened)
        /\ \/ p.at \in {seat[s].at, Nowhere} /\ p.astray = seat[s].astray
           \/ "halfway" \in p.astray
  BY <1>1, <1>2, FailedSeat
<1>4. /\ s \in RouteIds /\ Knows(ask[c], seat[s]) /\ ask[c].kind # "tab" /\ ask[c].via = "seat"
      /\ ~ask[c].moved /\ ask[c] \in AskRecords
  BY <1>1, <1>2, HealKnows
<1>5. PICK asks : asks = Jolted(Sitting(s))
  OBVIOUS
<1>6. PICK j : j = [asks[c] EXCEPT !.pc = "reopen"]
  OBVIOUS
<1>7. ask' = [asks EXCEPT ![c] = j]
  <2>1. ask' = [asks EXCEPT ![c] = [@ EXCEPT !.pc = "reopen"]]
    BY <1>1, <1>5 DEF HealMissesTab
  <2>2. QED
    BY <1>6, <2>1
<1>8. asks[c] = ask[c]
  BY <1>4, <1>5, JoltedAsk
<1>9. /\ j \in AskRecords /\ j.pc = "reopen" /\ j.kind = ask[c].kind /\ j.sid = s /\ j.via = "seat"
      /\ j.want = ask[c].want /\ ~j.moved
  BY <1>1, <1>4, <1>6, <1>8 DEF AskRecords, HealSteps
<1>10. AskSound(j, shared)
  BY <1>4, <1>9 DEF AskSound, HealSteps
<1>11. Knows(j, p)
  BY <1>2, <1>3, <1>4, <1>9 DEF Knows, HealSteps
<1>12. QED
  BY <1>1, <1>2, <1>3, <1>5, <1>7, <1>9, <1>10, <1>11, HealMoves

LEMMA HealFailsStep ==
  ASSUME RouteInv, NEW c \in Askers, HealFails(c)
  PROVE  RouteInv'
<1>1. PICK s : s = ask[c].sid
  OBVIOUS
<1>2. /\ ask[c].pc \in {"reopen", "settle"} /\ ask[c].pc \in HealSteps \ {"launch"}
      /\ ConnectFails(ask[c].sid, ask[c].want) \/ UNCHANGED seat
      /\ UNCHANGED <<opened, lostTabs, shared, jar>>
      /\ ask' = [Jolted(Sitting(s)) EXCEPT ![c] = NoAsk]
  BY <1>1 DEF HealFails, AskAt, HealSteps
<1>3. PICK p \in SeatRecords :
        /\ seat' = [seat EXCEPT ![s] = p] /\ p.state = seat[s].state /\ p.for = seat[s].for
        /\ p.own = seat[s].own /\ p.tab = seat[s].tab
        /\ "crossed" \in seat[s].astray <=> "crossed" \in p.astray
        /\ AtHome(p, opened)
  BY <1>1, <1>2, FailedSeat
<1>4. NoAsk \in AskRecords /\ AskSound(NoAsk, shared) /\ NoAsk.sid = NoId
  BY OneAsk DEF NoAsk
<1>5. QED
  BY <1>1, <1>2, <1>3, <1>4, HealMoves

(* The new tab is the session's, which the client is to sit on.              *)
LEMMA HealReopensStep ==
  ASSUME RouteInv, NEW c \in Askers, HealReopens(c)
  PROVE  RouteInv'
<1>1. PICK s : s = ask[c].sid
  OBVIOUS
<1>2. PICK t : t = opened'
  OBVIOUS
<1>3. PICK owned : owned = seat[s].own \cup {t}
  OBVIOUS
<1>4. PICK p : p = [seat[s] EXCEPT !.tab = t, !.own = owned]
  OBVIOUS
<1>5. PICK j : j = [ask[c] EXCEPT !.pc = "settle", !.want = t]
  OBVIOUS
<1>6. /\ ask[c].pc = "reopen" /\ ask[c].pc \in HealSteps /\ opened < MaxTabs /\ t = opened + 1
      /\ opened' = t /\ seat' = [seat EXCEPT ![s] = p] /\ ask' = [ask EXCEPT ![c] = j]
      /\ UNCHANGED <<lostTabs, shared, jar>>
  BY <1>1, <1>2, <1>3, <1>4, <1>5 DEF HealReopens, AskAt, AskGoes, SeatGoes, HealSteps
<1>7. /\ s \in RouteIds /\ seat[s] \in SeatRecords /\ AtHome(seat[s], opened)
      /\ Knows(ask[c], seat[s]) /\ ask[c].kind # "tab" /\ ask[c].via = "seat" /\ ~ask[c].moved
      /\ ask[c] \in AskRecords /\ opened \in 1..MaxTabs
  BY <1>1, <1>6, HealKnows
<1>8. t \in 1..MaxTabs /\ opened <= t /\ t > opened /\ t # Nowhere /\ 1..opened \subseteq 1..t
  BY <1>6, <1>7, RoutingAssumption DEF Nowhere
<1>9. owned \subseteq 1..t /\ owned \subseteq 1..MaxTabs
  <2>1. seat[s].own \subseteq 1..opened
    BY <1>7 DEF AtHome
  <2>2. t \in 1..t /\ 1..t \subseteq 1..MaxTabs
    BY <1>8, RoutingAssumption
  <2>3. QED
    BY <1>3, <1>8, <2>1, <2>2
<1>10. /\ p \in SeatRecords /\ p.state = seat[s].state /\ p.for = seat[s].for
       /\ p.own = owned /\ p.tab = t /\ p.at = seat[s].at /\ p.astray = seat[s].astray
  <2>1. t \in 0..MaxTabs
    BY <1>8, RoutingAssumption
  <2>2. QED
    BY <1>4, <1>7, <1>9, <2>1 DEF SeatRecords
<1>11. /\ j \in AskRecords /\ j.pc = "settle" /\ j.kind = ask[c].kind /\ j.sid = s /\ j.via = "seat"
       /\ j.want = t /\ ~j.moved
  <2>1. t \in 0..MaxTabs
    BY <1>8, RoutingAssumption
  <2>2. QED
    BY <1>1, <1>5, <1>7, <2>1 DEF AskRecords, HealSteps
<1>12. seat[s].at # Nowhere => seat[s].astray # {}
  BY <1>6, <1>7 DEF Knows
<1>13. AtHome(p, t)
  BY <1>3, <1>7, <1>9, <1>10, <1>12 DEF AtHome
<1>14. AskSound(j, shared)
  BY <1>7, <1>11 DEF AskSound, HealSteps
<1>15. Knows(j, p)
  BY <1>3, <1>6, <1>7, <1>10, <1>11 DEF Knows, HealSteps
<1>16. \A d \in Askers \ {c} :
         ask[d].sid = s /\ ask[d].pc \in HealSteps => "crossed" \in p.astray
  BY <1>1, <1>6, <1>10, HealsCross
<1>17. seat[s].own \subseteq p.own /\ \A x \in p.own : x \in seat[s].own \/ x > opened
  BY <1>3, <1>8, <1>10
<1>18. \A d \in Askers \ {c} : ask[d].sid = s => Knows(ask[d], p)
  BY <1>7, <1>10, <1>16, <1>17, OthersKnow
<1>19. \A d \in Askers \ {c} :
         (ask[d].sid = s /\ ask[d].pc \in HealSteps /\ "crossed" \notin p.astray) =>
           j.pc \notin HealSteps /\ "crossed" \notin seat[s].astray
  BY <1>16
<1>20. LikeAsks(ask, s) /\ (j.sid # NoId => j.sid = s /\ Knows(j, p))
  BY <1>11, <1>15, AsksAlike
<1>21. SeatStep(c, s, p, j, ask, t)
  BY <1>1, <1>6, <1>8, <1>10, <1>13, <1>14, <1>17, <1>18, <1>19, <1>20 DEF SeatStep
<1>22. QED
  BY <1>7, <1>8, <1>10, <1>11, <1>21, SeatMoves

(* A navigation takes the client elsewhere.                                  *)
LEMMA RoamStep ==
  ASSUME RouteInv, NEW s \in RouteIds, NEW t \in OpenTabs, NavigateRoams(s, t)
  PROVE  RouteInv'
<1>1. PICK c \in Askers : ask[c].pc = "run" /\ ask[c].sid = s /\ ask[c].via = "seat" /\ ask[c].kind = "op"
  BY DEF NavigateRoams, AskAt
<1>2. PICK why : why = seat[s].astray \cup {"roamed"}
  OBVIOUS
<1>3. PICK p : p = [seat[s] EXCEPT !.at = t, !.astray = why]
  OBVIOUS
<1>4. PICK asks : asks = Jolted(Sitting(s))
  OBVIOUS
<1>5. /\ seat[s].at # Nowhere /\ seat' = [seat EXCEPT ![s] = p] /\ ask' = asks
      /\ UNCHANGED <<opened, lostTabs, shared, jar>>
  BY <1>2, <1>3, <1>4 DEF NavigateRoams, SeatGoes
<1>6. /\ seat[s] \in SeatRecords /\ AtHome(seat[s], opened) /\ opened \in 1..MaxTabs
      /\ ask[c] \in AskRecords /\ AskSound(ask[c], shared)
  BY OneAsk DEF RouteInv, RouteShape
<1>7. t \in 0..MaxTabs /\ t # Nowhere
  BY <1>6, RoutingAssumption DEF OpenTabs, Nowhere
<1>8. /\ p \in SeatRecords /\ p.state = seat[s].state /\ p.for = seat[s].for
      /\ p.own = seat[s].own /\ p.tab = seat[s].tab /\ p.at = t /\ p.astray = why
  BY <1>2, <1>3, <1>6, <1>7 DEF SeatRecords, Detours
<1>9. AtHome(p, opened)
  BY <1>2, <1>6, <1>8 DEF AtHome
<1>10. asks[c] = ask[c]
  BY <1>1, <1>4, JoltedAsk
<1>11. ask' = [asks EXCEPT ![c] = ask[c]]
  BY <1>4, <1>5, <1>10 DEF Jolted
<1>12. \A d \in Askers : ask[d].sid = s => Knows(asks[d], p)
  <2>1. ASSUME NEW d \in Askers, ask[d].sid = s
        PROVE  Knows(asks[d], p)
    <3>1. PICK k : k = asks[d]
      OBVIOUS
    <3>2. /\ k.pc = ask[d].pc /\ k.kind = ask[d].kind /\ k.via = ask[d].via /\ k.want = ask[d].want
          /\ d \in Sitting(s) /\ ask[d].kind = "tab" /\ ask[d].pc = "run" => k.moved
      BY <1>4, <3>1, JoltedAsk
    <3>3. ask[d].via = "seat" => d \in Sitting(s)
      BY <2>1 DEF Sitting
    <3>4. Knows(ask[d], seat[s])
      BY <2>1, OneAsk, RoutingAssumption
    <3>5. Knows(k, p)
      BY <1>2, <1>5, <1>8, <3>2, <3>3, <3>4 DEF Knows
    <3>6. QED
      BY <3>1, <3>5
  <2>2. QED
    BY <2>1
<1>13. ask[c].pc \notin HealSteps
  BY <1>1 DEF HealSteps
<1>14. Knows(ask[c], p)
  BY <1>1, <1>10, <1>12
<1>15. opened' = opened /\ opened <= opened /\ LikeAsks(asks, s)
  BY <1>4, <1>5, <1>6, AsksAlike
<1>16. \A d \in Askers \ {c} :
         (ask[d].sid = s /\ ask[d].pc \in HealSteps /\ "crossed" \notin p.astray) =>
           ask[c].pc \notin HealSteps /\ "crossed" \notin seat[s].astray
  BY <1>2, <1>8, <1>13
<1>17. ask[c].sid = s /\ UNCHANGED <<lostTabs, shared, jar>>
  BY <1>1, <1>5
<1>18. PICK n \in 1..MaxTabs : n = opened
  BY <1>6
<1>19. /\ opened' = n /\ opened <= n /\ AtHome(p, n)
       /\ \A x \in p.own : x \in seat[s].own \/ x > opened
  BY <1>8, <1>9, <1>15, <1>18
<1>20. PICK j \in AskRecords : j = ask[c]
  BY <1>6
<1>21. /\ ask' = [asks EXCEPT ![c] = j] /\ AskSound(j, shared)
       /\ j.sid # NoId => j.sid = s /\ Knows(j, p)
       /\ \A d \in Askers \ {c} :
            (ask[d].sid = s /\ ask[d].pc \in HealSteps /\ "crossed" \notin p.astray) =>
              j.pc \notin HealSteps /\ "crossed" \notin seat[s].astray
  BY <1>1, <1>6, <1>11, <1>14, <1>16, <1>20
<1>22. \A d \in Askers \ {c} : ask[d].sid = s => Knows(asks[d], p)
  BY <1>12
<1>23. SeatStep(c, s, p, j, asks, n)
  BY <1>5, <1>8, <1>15, <1>17, <1>19, <1>21, <1>22 DEF SeatStep
<1>24. QED
  BY <1>8, <1>18, <1>23, SeatMoves

(* A session is minted for the caller of request c, which ends or goes on.   *)
LEMMA MintStep ==
  ASSUME RouteInv, NEW c \in Askers, Minted(c), NEW j \in AskRecords,
         ask' = [ask EXCEPT ![c] = j], UNCHANGED <<lostTabs, shared>>,
         AskSound(j, shared), j.pc \in {"idle", "ensure"}, j.sid \in {NoId, NewId},
         ask[c].pc = "resolve",
         c = WarmCall => j.kind \in {"none", "new"} /\ j.sid = NoId /\ j.pc = "idle",
         jar' \in [Clients -> RouteIds \cup {NoId}],
         \A k \in Clients : jar'[k] = jar[k] \/ (k = Caller(c) /\ jar'[k] \in {NewId, ask[c].sid})
  PROVE  RouteInv'
<1> USE RoutingAssumption
<1>1. /\ opened \in 1..MaxTabs /\ lostTabs \subseteq 1..opened /\ shared \in 0..Browser
      /\ seat \in [RouteIds -> SeatRecords] /\ ask \in [Askers -> AskRecords]
      /\ jar \in [Clients -> RouteIds \cup {NoId}]
      /\ \A r \in RouteIds : AtHome(seat[r], opened) /\ r # NoId
  BY DEF RouteInv, RouteShape
<1>2. PICK n \in UnusedIds : n = NewId
  BY DEF Minted, NewId
<1>3. n \in RouteIds /\ seat[n].state = "unused" /\ n # NoId
  BY <1>1, <1>2 DEF UnusedIds
<1>4. PICK t : t = opened'
  OBVIOUS
<1>5. PICK p : p = [state |-> "live", for |-> Caller(c), tab |-> t, own |-> {t}, at |-> t, astray |-> {}]
  OBVIOUS
<1>6. /\ t = opened + 1 /\ opened < MaxTabs /\ seat' = [seat EXCEPT ![n] = p]
  BY <1>2, <1>4, <1>5 DEF Minted
<1>7. t \in 1..MaxTabs /\ t \in 0..MaxTabs /\ t # Nowhere /\ 1..opened \subseteq 1..t /\ t \notin 1..opened
  BY <1>1, <1>6 DEF Nowhere
<1>8. Caller(c) \in Clients \cup {Warmer} /\ (Caller(c) = Warmer => c = WarmCall)
  BY DEF Askers, Calls, WarmCall, Caller
<1>9. p \in SeatRecords /\ p.state = "live" /\ p.for = Caller(c) /\ p.own = {t} /\ p.tab = t
      /\ p.at = t /\ p.astray = {}
  BY <1>5, <1>7, <1>8 DEF SeatRecords
<1>10. seat'[n] = p /\ \A r \in RouteIds \ {n} : seat'[r] = seat[r]
  BY <1>1, <1>3, <1>6
<1>11. ask'[c] = j /\ \A d \in Askers \ {c} : ask'[d] = ask[d]
  BY <1>1
<1>12. \A d \in Askers : ask[d].sid # n
  BY <1>3, OneAsk
<1>13. RouteShape'
  <2>1. seat' \in [RouteIds -> SeatRecords] /\ ask' \in [Askers -> AskRecords]
    BY <1>1, <1>3, <1>6, <1>9
  <2>2. opened' \in 1..MaxTabs /\ lostTabs' \subseteq 1..opened'
    BY <1>1, <1>4, <1>7
  <2>3. QED
    BY <1>1, <2>1, <2>2 DEF RouteShape
<1>14. \A r \in RouteIds : AtHome(seat'[r], opened')
  <2>1. \A r \in RouteIds : AtHome(seat[r], t)
    BY <1>1, <1>7 DEF AtHome
  <2>2. AtHome(p, t)
    BY <1>7, <1>9 DEF AtHome
  <2>3. QED
    BY <1>4, <1>10, <2>1, <2>2
<1>15. \A d \in Askers : AskSound(ask'[d], shared')
  BY <1>11, OneAsk
<1>16. SeatsKnown'
  <2>1. ASSUME NEW d \in Askers \ {c}, ask'[d].sid # NoId
        PROVE  Knows(ask'[d], seat'[ask'[d].sid])
    <3>1. Knows(ask[d], seat[ask[d].sid]) /\ ask[d].sid \in RouteIds \ {n}
      BY <1>11, <1>12, <2>1, OneAsk
    <3>2. QED
      BY <1>10, <1>11, <3>1
  <2>2. j.sid # NoId => Knows(j, p)
    BY DEF Knows, HealSteps
  <2>3. j.sid # NoId => Knows(ask'[c], seat'[ask'[c].sid])
    BY <1>2, <1>10, <1>11, <2>2
  <2>4. QED
    BY <1>11, <2>1, <2>3 DEF SeatsKnown
<1>17. OneHeals'
  <2>1. j.pc \notin HealSteps
    BY DEF HealSteps
  <2>2. \A d \in Askers : ask[d].pc \in HealSteps => ask[d].sid \in RouteIds \ {n}
    BY <1>12, OneAsk DEF AskSound
  <2>3. ASSUME NEW d \in Askers \ {c}, NEW e \in Askers \ {c},
               ask'[d].pc \in HealSteps, ask'[e].pc \in HealSteps, ask'[d].sid = ask'[e].sid,
               "crossed" \notin seat'[ask'[d].sid].astray
        PROVE  d = e
    <3>1. /\ ask[d].pc \in HealSteps /\ ask[e].pc \in HealSteps /\ ask[d].sid = ask[e].sid
          /\ ask[d].sid \in RouteIds \ {n} /\ ask'[d].sid = ask[d].sid
      BY <1>11, <2>2, <2>3
    <3>2. "crossed" \notin seat[ask[d].sid].astray
      BY <1>10, <2>3, <3>1
    <3>3. QED
      BY <3>1, <3>2 DEF RouteInv, OneHeals
  <2>4. QED
    BY <1>11, <2>1, <2>3 DEF OneHeals
<1>18. OwnersOnly'
  <2>1. ASSUME NEW d \in Askers \ {c}, ask'[d].sid # NoId
        PROVE  seat'[ask'[d].sid].for = Caller(d) /\ seat'[ask'[d].sid].state # "unused"
    <3>1. /\ ask[d].sid \in RouteIds \ {n} /\ ask'[d].sid = ask[d].sid
          /\ seat[ask[d].sid].for = Caller(d) /\ seat[ask[d].sid].state # "unused"
      BY <1>11, <1>12, <2>1, OneAsk
    <3>2. QED
      BY <1>10, <3>1
  <2>2. j.sid # NoId => seat'[j.sid].for = Caller(c) /\ seat'[j.sid].state # "unused"
    BY <1>2, <1>9, <1>10
  <2>3. ASSUME NEW k \in Clients, jar'[k] # NoId
        PROVE  seat'[jar'[k]].for = k /\ seat'[jar'[k]].state # "unused"
    <3>1. CASE jar'[k] = jar[k]
      <4>1. seat[jar[k]].for = k /\ seat[jar[k]].state # "unused"
        BY <2>3, <3>1 DEF RouteInv, OwnersOnly
      <4>2. jar[k] \in RouteIds \ {n}
        BY <1>1, <1>3, <2>3, <3>1, <4>1
      <4>3. QED
        BY <1>10, <3>1, <4>1, <4>2
    <3>2. CASE k = Caller(c) /\ jar'[k] = n
      BY <1>9, <1>10, <3>2
    <3>3. CASE k = Caller(c) /\ jar'[k] = ask[c].sid
      <4>1. /\ ask[c].sid \in RouteIds \ {n}
            /\ seat[ask[c].sid].for = k /\ seat[ask[c].sid].state # "unused"
        BY <1>12, <2>3, <3>3, OneAsk
      <4>2. QED
        BY <1>10, <3>3, <4>1
    <3>4. QED
      BY <1>2, <3>1, <3>2, <3>3
  <2>4. QED
    BY <1>11, <2>1, <2>2, <2>3 DEF OwnersOnly
<1>19. TabsApart'
  <2>1. \A r \in RouteIds : t \notin seat[r].own
    BY <1>1, <1>7 DEF AtHome
  <2>2. QED
    BY <1>9, <1>10, <2>1 DEF RouteInv, TabsApart
<1>20. WarmerHasOne'
  <2>1. /\ ask[WarmCall].kind \in {"none", "new"} /\ ask[WarmCall].sid = NoId
        /\ \A s \in RouteIds : seat[s].state = "live" /\ seat[s].for = Warmer =>
             /\ ask[WarmCall].pc = "idle"
             /\ \A r \in RouteIds \ {s} : ~(seat[r].state = "live" /\ seat[r].for = Warmer)
    BY DEF RouteInv, WarmerHasOne, Seated, AskAt
  <2>2. WarmCall \in Askers /\ Caller(WarmCall) = Warmer
    BY DEF Askers, WarmCall, Caller
  <2>3. CASE c = WarmCall
    <3>1. \A s \in RouteIds : ~(seat[s].state = "live" /\ seat[s].for = Warmer)
      BY <2>1, <2>3
    <3>2. QED
      BY <1>10, <1>11, <2>1, <2>3, <3>1 DEF WarmerHasOne, Seated, AskAt
  <2>4. CASE c # WarmCall
    <3>1. p.for # Warmer /\ ask'[WarmCall] = ask[WarmCall]
      BY <1>8, <1>9, <1>11, <2>2, <2>4
    <3>2. \A s \in RouteIds : seat'[s].state = "live" /\ seat'[s].for = Warmer =>
            s # n /\ seat[s].state = "live" /\ seat[s].for = Warmer
      BY <1>10, <3>1
    <3>3. QED
      BY <2>1, <3>1, <3>2 DEF WarmerHasOne, Seated, AskAt
  <2>5. QED
    BY <2>3, <2>4
<1>21. QED
  BY <1>13, <1>14, <1>15, <1>16, <1>17, <1>18, <1>19, <1>20 DEF RouteInv

LEMMA MintingSteps ==
  ASSUME RouteInv, NEW c \in Askers, AutoMints(c) \/ SessionNew(c)
  PROVE  RouteInv'
<1> USE RoutingAssumption
<1>1. /\ ask[c] \in AskRecords /\ AskSound(ask[c], shared)
      /\ c = WarmCall => ask[c].kind \in {"none", "new"} /\ ask[c].sid = NoId
      /\ c = WarmCall /\ ask[c].pc # "idle" =>
           \A s \in RouteIds : ~(Seated(s) /\ seat[s].for = Warmer)
      /\ NoAsk \in AskRecords /\ AskSound(NoAsk, shared) /\ NoAsk.pc = "idle"
      /\ NoAsk.kind = "none" /\ NoAsk.sid = NoId /\ NoAsk.pc \notin HealSteps
      /\ jar \in [Clients -> RouteIds \cup {NoId}] /\ ask[c].sid \in RouteIds \cup {NoId}
  BY OneAsk DEF NoAsk, HealSteps
<1>2. ASSUME Minted(c)
      PROVE  NewId \in RouteIds
  BY <1>2 DEF Minted, NewId, UnusedIds
<1>3. CASE AutoMints(c)
  <2>1. PICK n \in RouteIds : n = NewId
    BY <1>2, <1>3 DEF AutoMints
  <2>2. PICK j : j = [ask[c] EXCEPT !.pc = "ensure", !.kind = "op", !.via = "seat", !.sid = n, !.auto = FALSE]
    OBVIOUS
  <2>3. /\ j \in AskRecords /\ j.pc = "ensure" /\ j.kind = "op" /\ j.via = "seat" /\ j.sid = n
        /\ j.moved = ask[c].moved
    BY <1>1, <2>2 DEF AskRecords
  <2>4. /\ ask' = [ask EXCEPT ![c] = j] /\ ask[c].pc = "resolve" /\ Minted(c)
        /\ UNCHANGED <<lostTabs, shared>> /\ UNCHANGED jar /\ ask[c].kind \in {"op", "direct"}
    BY <1>3, <2>1, <2>2 DEF AutoMints, AskAt, AskGoes
  <2>5. AskSound(j, shared)
    BY <1>1, <2>3, <2>4 DEF AskSound, HealSteps
  <2>6. c # WarmCall /\ j.pc \in {"idle", "ensure"} /\ j.sid \in {NoId, NewId}
    BY <1>1, <2>1, <2>3, <2>4
  <2>7. /\ jar' \in [Clients -> RouteIds \cup {NoId}]
        /\ \A k \in Clients : jar'[k] = jar[k] \/ (k = Caller(c) /\ jar'[k] \in {NewId, ask[c].sid})
    BY <1>1, <2>4
  <2>8. QED
    BY <2>3, <2>4, <2>5, <2>6, <2>7, MintStep
<1>4. CASE SessionNew(c)
  <2>1. ask[c].pc = "resolve" /\ ask' = [ask EXCEPT ![c] = NoAsk] /\ UNCHANGED <<lostTabs, shared>>
    BY <1>4 DEF SessionNew, AskAt, AskEnds
  <2>2. ASSUME Minted(c), NEW kept \in {NewId, ask[c].sid} \ {NoId},
               jar' = [k \in Clients |-> IF k = Caller(c) THEN kept ELSE jar[k]]
        PROVE  RouteInv'
    <3>1. kept \in RouteIds
      BY <1>1, <1>2, <2>2
    <3>2. /\ jar' \in [Clients -> RouteIds \cup {NoId}]
          /\ \A k \in Clients : jar'[k] = jar[k] \/ (k = Caller(c) /\ jar'[k] \in {NewId, ask[c].sid})
      BY <1>1, <2>2, <3>1
    <3>3. QED
      BY <1>1, <2>1, <2>2, <3>2, MintStep
  <2>3. ASSUME UNCHANGED <<opened, seat, jar>>
        PROVE  RouteInv'
    <3>1. UNCHANGED <<opened, lostTabs, shared, seat>> /\ UNCHANGED jar
      BY <2>1, <2>3
    <3>2. /\ jar' \in [Clients -> RouteIds \cup {NoId}]
          /\ \A k \in Clients : jar'[k] = jar[k] \/ (k = Caller(c) /\ jar'[k] = ask[c].sid)
      BY <1>1, <3>1
    <3>3. QED
      BY <1>1, <2>1, <3>1, <3>2, OneAskMoves
  <2>4. QED
    BY <1>4, <2>2, <2>3 DEF SessionNew
<1>5. QED
  BY <1>3, <1>4

(* The default client comes to `place`, and requests that read through it    *)
(* get to know.                                                              *)
SharedStep(place, asks) ==
    /\ shared' = place /\ ask' = asks /\ UNCHANGED <<opened, lostTabs, seat, jar>>
    /\ \A d \in Askers :
         /\ AskSound(asks[d], place) /\ asks[d].sid = ask[d].sid /\ asks[d].kind = ask[d].kind
         /\ asks[d].pc = ask[d].pc \/ (asks[d].pc = "run" /\ ask[d].pc = "ensure")
         /\ asks[d].sid # NoId => Knows(asks[d], seat[asks[d].sid])

LEMMA SharedMoves ==
  ASSUME RouteInv, NEW place \in 0..Browser, NEW asks \in [Askers -> AskRecords],
         SharedStep(place, asks)
  PROVE  RouteInv'
<1>1. shared' = place /\ ask' = asks /\ UNCHANGED <<opened, lostTabs, seat, jar>>
  BY DEF SharedStep
<1>2. \A d \in Askers :
         /\ AskSound(asks[d], place) /\ asks[d].sid = ask[d].sid /\ asks[d].kind = ask[d].kind
         /\ asks[d].pc = ask[d].pc \/ (asks[d].pc = "run" /\ ask[d].pc = "ensure")
         /\ asks[d].sid # NoId => Knows(asks[d], seat[asks[d].sid])
  BY DEF SharedStep
<1>3. RouteShape' /\ (\A s \in RouteIds : AtHome(seat[s], opened))'
  BY <1>1 DEF RouteInv, RouteShape
<1>4. (\A d \in Askers : AskSound(ask[d], shared))'
  BY <1>1, <1>2
<1>5. SeatsKnown'
  BY <1>1, <1>2 DEF SeatsKnown
<1>6. OneHeals'
  BY <1>1, <1>2 DEF OneHeals, HealSteps, RouteInv
<1>7. OwnersOnly'
  BY <1>1, <1>2 DEF OwnersOnly, RouteInv
<1>8. TabsApart'
  BY <1>1 DEF TabsApart, RouteInv
<1>9. WarmerHasOne'
  BY <1>1, <1>2 DEF WarmerHasOne, RouteInv, Seated, AskAt, Askers
<1>10. QED
  BY <1>3, <1>4, <1>5, <1>6, <1>7, <1>8, <1>9 DEF RouteInv

(* What a request knows does not hang on a default client at the browser.    *)
LEMMA EnsureSharedStep ==
  ASSUME RouteInv, NEW c \in Askers, EnsureAttachesShared(c)
  PROVE  RouteInv'
<1>1. PICK j : j = [ask[c] EXCEPT !.pc = "run"]
  OBVIOUS
<1>2. PICK asks : asks = [ask EXCEPT ![c] = j]
  OBVIOUS
<1>3. /\ ask[c].pc = "ensure" /\ ask[c].via = "shared" /\ shared' = Browser /\ ask' = asks
      /\ UNCHANGED <<opened, lostTabs, seat, jar>>
  BY <1>1, <1>2 DEF EnsureAttachesShared, AskAt, AskGoes
<1>4. /\ ask \in [Askers -> AskRecords] /\ ask[c] \in AskRecords /\ Browser \in 0..Browser
      /\ \A d \in Askers : AskSound(ask[d], shared) /\ (ask[d].sid # NoId => Knows(ask[d], seat[ask[d].sid]))
  BY RoutingAssumption DEF RouteInv, RouteShape, SeatsKnown, Browser
<1>5. /\ j \in AskRecords /\ j.pc = "run" /\ j.kind = ask[c].kind /\ j.sid = ask[c].sid
      /\ j.via = "shared" /\ j.moved = ask[c].moved /\ j.auto = ask[c].auto
  BY <1>1, <1>3, <1>4 DEF AskRecords
<1>6. AskSound(j, Browser) /\ j.kind # "tab"
  BY <1>3, <1>4, <1>5 DEF AskSound, HealSteps
<1>7. Knows(j, seat[j.sid])
  BY <1>5, <1>6 DEF Knows, HealSteps
<1>8. asks \in [Askers -> AskRecords] /\ asks[c] = j /\ \A d \in Askers \ {c} : asks[d] = ask[d]
  BY <1>2, <1>4, <1>5
<1>9. \A d \in Askers : AskSound(ask[d], Browser)
  BY <1>4 DEF AskSound
<1>10. SharedStep(Browser, asks)
  <2>1. ASSUME NEW d \in Askers
        PROVE  /\ AskSound(asks[d], Browser) /\ asks[d].sid = ask[d].sid /\ asks[d].kind = ask[d].kind
               /\ asks[d].pc = ask[d].pc \/ (asks[d].pc = "run" /\ ask[d].pc = "ensure")
               /\ asks[d].sid # NoId => Knows(asks[d], seat[asks[d].sid])
    <3>1. CASE d = c
      BY <1>3, <1>5, <1>6, <1>7, <1>8, <3>1
    <3>2. CASE d # c
      BY <1>4, <1>8, <1>9, <3>2
    <3>3. QED
      BY <3>1, <3>2
  <2>2. QED
    BY <1>3, <2>1 DEF SharedStep
<1>11. QED
  BY <1>4, <1>8, <1>10, SharedMoves

(* /connect or /browser/launch takes the default client to a tab.            *)
LEMMA ConnectStep ==
  ASSUME RouteInv, NEW t \in OpenTabs, shared' = t, ask' = Jolted(OnShared),
         UNCHANGED <<opened, lostTabs, seat, jar>>
  PROVE  RouteInv'
<1>1. t \in 0..Browser
  BY RoutingAssumption DEF OpenTabs, RouteInv, RouteShape, Browser
<1>2. PICK asks : asks = Jolted(OnShared)
  OBVIOUS
<1>3. asks = [d \in Askers |-> asks[d]] /\ \A d \in Askers : asks[d] \in AskRecords
  BY <1>2, JoltedAsk DEF Jolted
<1>4. asks \in [Askers -> AskRecords]
  BY <1>3
<1>5. ASSUME NEW d \in Askers
      PROVE  /\ AskSound(asks[d], t) /\ asks[d].sid = ask[d].sid /\ asks[d].kind = ask[d].kind
             /\ asks[d].pc = ask[d].pc
             /\ asks[d].sid # NoId => Knows(asks[d], seat[asks[d].sid])
  <2>1. PICK k : k = asks[d]
    OBVIOUS
  <2>2. /\ k.pc = ask[d].pc /\ k.kind = ask[d].kind /\ k.sid = ask[d].sid /\ k.via = ask[d].via
        /\ AskSound(k, shared)
        /\ d \in OnShared /\ ask[d].kind = "tab" /\ ask[d].pc = "run" => k.moved
        /\ k = ask[d] \/ (k.moved /\ ask[d].pc = "run" /\ ask[d].kind = "tab")
    BY <1>2, <2>1, JoltedAsk
  <2>3. ask[d].via = "shared" => d \in OnShared
    BY DEF OnShared
  <2>4. AskSound(k, t)
    BY <2>2, <2>3 DEF AskSound
  <2>5. ask[d].sid # NoId => Knows(ask[d], seat[ask[d].sid])
    BY OneAsk
  <2>6. k.sid # NoId => Knows(k, seat[k.sid])
    BY <2>2, <2>5 DEF Knows, HealSteps
  <2>7. QED
    BY <2>1, <2>2, <2>4, <2>6
<1>6. SharedStep(t, asks)
  BY <1>2, <1>5 DEF SharedStep
<1>7. QED
  BY <1>1, <1>4, <1>6, SharedMoves

(* What is left of session p when a tab closes or the session ends: its      *)
(* client is disconnected at most, or nobody held it.                        *)
SeatCut(q, p, held) ==
    /\ q \in SeatRecords /\ q.for = p.for
    /\ p.state # "unused" => q.state # "unused"
    /\ q.state = "live" => p.state = "live"
    /\ \/ /\ q.own = p.own /\ q.tab = p.tab /\ q.astray = p.astray
          /\ q.at \in {p.at, Nowhere}
       \/ /\ ~held /\ q.own = {} /\ q.tab = Nowhere /\ q.astray = {} /\ q.at = Nowhere

LEMMA CutStep ==
  ASSUME RouteInv, NEW place \in 0..Browser, shared' = place, place \in {shared, Nowhere},
         UNCHANGED <<opened, jar, ask>>, lostTabs' \subseteq 1..opened,
         NEW seats \in [RouteIds -> SeatRecords], seat' = seats,
         \A s \in RouteIds : SeatCut(seats[s], seat[s], \E c \in Askers : ask[c].sid = s)
  PROVE  RouteInv'
<1>1. RouteShape'
  BY DEF RouteInv, RouteShape
<1>2. \A s \in RouteIds : AtHome(seat[s], opened) /\ s # NoId
  BY RoutingAssumption DEF RouteInv
<1>3. \A s \in RouteIds : AtHome(seats[s], opened)
  BY <1>2 DEF AtHome, SeatCut
<1>4. (\A d \in Askers : AskSound(ask[d], shared))'
  <2>1. \A d \in Askers : AskSound(ask[d], place)
    BY OneAsk DEF AskSound
  <2>2. QED
    BY <2>1
<1>5. \A d \in Askers : ask[d].sid # NoId =>
        /\ ask[d].sid \in RouteIds /\ Knows(ask[d], seat[ask[d].sid])
        /\ seat[ask[d].sid].for = Caller(d) /\ seat[ask[d].sid].state # "unused"
        /\ seats[ask[d].sid].own = seat[ask[d].sid].own /\ seats[ask[d].sid].tab = seat[ask[d].sid].tab
        /\ seats[ask[d].sid].astray = seat[ask[d].sid].astray
        /\ seats[ask[d].sid].at \in {seat[ask[d].sid].at, Nowhere}
  BY OneAsk DEF SeatCut
<1>6. SeatsKnown'
  <2>1. ASSUME NEW d \in Askers, ask[d].sid # NoId
        PROVE  Knows(ask[d], seats[ask[d].sid])
    BY <1>5, <2>1 DEF Knows
  <2>2. QED
    BY <2>1 DEF SeatsKnown
<1>7. OneHeals'
  <2>1. \A d \in Askers : ask[d].pc \in HealSteps => ask[d].sid \in RouteIds
    BY OneAsk DEF AskSound
  <2>2. QED
    BY <1>2, <1>5, <2>1 DEF OneHeals, RouteInv
<1>8. OwnersOnly'
  <2>1. \A s \in RouteIds : seats[s].for = seat[s].for /\ (seat[s].state # "unused" => seats[s].state # "unused")
    BY DEF SeatCut
  <2>2. \A k \in Clients : jar[k] \in RouteIds \cup {NoId}
    BY DEF RouteInv, RouteShape
  <2>3. QED
    BY <1>5, <2>1, <2>2 DEF RouteInv, OwnersOnly
<1>9. TabsApart'
  <2>1. \A s \in RouteIds : seats[s].own \subseteq seat[s].own
    BY DEF SeatCut
  <2>2. QED
    BY <2>1 DEF RouteInv, TabsApart
<1>10. WarmerHasOne'
  <2>1. \A s \in RouteIds : seats[s].for = seat[s].for /\ (seats[s].state = "live" => seat[s].state = "live")
    BY DEF SeatCut
  <2>2. QED
    BY <2>1 DEF RouteInv, WarmerHasOne, Seated, AskAt
<1>11. QED
  BY <1>1, <1>3, <1>4, <1>6, <1>7, <1>8, <1>9, <1>10 DEF RouteInv

(* A tab closes, by itself or with its session.                              *)
LEMMA ClientsCut ==
  ASSUME RouteInv,
         \/ \E t \in OpenTabs : TabGoes(t)
         \/ \E s \in RouteIds : SessionEnds(s)
  PROVE  RouteInv'
<1>1. /\ opened \in 1..MaxTabs /\ lostTabs \subseteq 1..opened /\ shared \in 0..Browser
      /\ seat \in [RouteIds -> SeatRecords] /\ Nowhere \in 0..Browser /\ Nowhere \in 0..MaxTabs
  BY RoutingAssumption DEF RouteInv, RouteShape, Nowhere, Browser
<1>2. ASSUME NEW t, Closes(t)
      PROVE  /\ lostTabs' \subseteq 1..opened
             /\ \E place \in 0..Browser : shared' = place /\ place \in {shared, Nowhere}
  BY <1>1, <1>2 DEF Closes, OpenTabs
<1>3. ASSUME NEW t, NEW s \in RouteIds
      PROVE  /\ Cut(t)[s] \in SeatRecords /\ Cut(t)[s].for = seat[s].for
             /\ Cut(t)[s].state = seat[s].state /\ Cut(t)[s].own = seat[s].own
             /\ Cut(t)[s].tab = seat[s].tab /\ Cut(t)[s].astray = seat[s].astray
             /\ Cut(t)[s].at \in {seat[s].at, Nowhere}
  <2>1. PICK q : q = Cut(t)[s]
    OBVIOUS
  <2>2. q = seat[s] \/ q = [seat[s] EXCEPT !.at = Nowhere]
    BY <2>1 DEF Cut
  <2>3. CASE q = seat[s]
    BY <1>1, <2>1, <2>3
  <2>4. CASE q = [seat[s] EXCEPT !.at = Nowhere]
    <3>1. seat[s] \in SeatRecords
      BY <1>1
    <3>2. /\ q \in SeatRecords /\ q.for = seat[s].for /\ q.state = seat[s].state
          /\ q.own = seat[s].own /\ q.tab = seat[s].tab /\ q.astray = seat[s].astray /\ q.at = Nowhere
      BY <1>1, <2>4, <3>1 DEF SeatRecords
    <3>3. QED
      BY <2>1, <3>2
  <2>5. QED
    BY <2>2, <2>3, <2>4
<1>4. CASE \E t \in OpenTabs : TabGoes(t)
  <2>1. PICK t \in OpenTabs : TabGoes(t)
    BY <1>4
  <2>2. PICK seats : seats = Cut(t)
    OBVIOUS
  <2>3. /\ seats = [s \in RouteIds |-> seats[s]]
        /\ \A s \in RouteIds : seats[s] \in SeatRecords
    <3>1. seats = [s \in RouteIds |-> seats[s]]
      BY <2>2 DEF Cut
    <3>2. \A s \in RouteIds : seats[s] \in SeatRecords
      BY <1>3, <2>2
    <3>3. QED
      BY <3>1, <3>2
  <2>4. seats \in [RouteIds -> SeatRecords]
    BY <2>3
  <2>5. \A s \in RouteIds : SeatCut(seats[s], seat[s], \E c \in Askers : ask[c].sid = s)
    BY <1>3, <2>2 DEF SeatCut
  <2>6. Closes(t) /\ seat' = seats /\ UNCHANGED <<opened, jar, ask>>
    BY <2>1, <2>2 DEF TabGoes
  <2>7. QED
    BY <1>2, <2>4, <2>5, <2>6, CutStep
<1>5. CASE \E s \in RouteIds : SessionEnds(s)
  <2>1. PICK s \in RouteIds : SessionEnds(s)
    BY <1>5
  <2>2. PICK t : t = seat[s].tab
    OBVIOUS
  <2>3. PICK rest : rest = Cut(t)
    OBVIOUS
  <2>4. PICK held \in BOOLEAN : held = \E c \in Askers : ask[c].sid = s
    OBVIOUS
  <2>5. PICK q : q = IF held THEN [rest[s] EXCEPT !.state = "ended", !.at = Nowhere]
                     ELSE [NoSeat EXCEPT !.state = "ended", !.for = seat[s].for]
    OBVIOUS
  <2>6. PICK seats : seats = [rest EXCEPT ![s] = q]
    OBVIOUS
  <2>7. rest = [r \in RouteIds |-> rest[r]] /\ \A r \in RouteIds : rest[r] \in SeatRecords
    BY <1>3, <2>3 DEF Cut
  <2>8. Seated(s) /\ Closes(t) /\ UNCHANGED <<opened, jar, ask>>
    BY <2>1, <2>2 DEF SessionEnds
  <2>9. seat' = seats
    <3>1. seat' = [rest EXCEPT ![s] =
                  IF \E c \in Askers : ask[c].sid = s THEN [@ EXCEPT !.state = "ended", !.at = Nowhere]
                  ELSE [NoSeat EXCEPT !.state = "ended", !.for = seat[s].for]]
      BY <2>1, <2>2, <2>3 DEF SessionEnds
    <3>2. QED
      BY <2>4, <2>5, <2>6, <3>1
  <2>10. SeatCut(q, seat[s], held) /\ q \in SeatRecords
    <3>1. seat[s] \in SeatRecords /\ seat[s].state = "live"
      BY <1>1, <2>8 DEF Seated
    <3>2. CASE held
      <4>1. q = [rest[s] EXCEPT !.state = "ended", !.at = Nowhere] /\ rest[s] \in SeatRecords
        BY <2>5, <2>7, <3>2
      <4>2. /\ q \in SeatRecords /\ q.for = rest[s].for /\ q.state = "ended" /\ q.own = rest[s].own
            /\ q.tab = rest[s].tab /\ q.astray = rest[s].astray /\ q.at = Nowhere
        BY <1>1, <4>1 DEF SeatRecords
      <4>3. QED
        BY <1>3, <2>3, <3>1, <4>2 DEF SeatCut
    <3>3. CASE ~held
      <4>1. q = [NoSeat EXCEPT !.state = "ended", !.for = seat[s].for]
        BY <2>5, <3>3
      <4>2. seat[s].for \in Clients \cup {Warmer, NoId}
        BY <3>1 DEF SeatRecords
      <4>3. /\ q.for = seat[s].for /\ q.state = "ended" /\ q.own = {} /\ q.tab = Nowhere
            /\ q.astray = {} /\ q.at = Nowhere /\ q \in SeatRecords
        BY <1>1, <4>1, <4>2 DEF NoSeat, SeatRecords
      <4>4. QED
        BY <3>1, <3>3, <4>3 DEF SeatCut
    <3>4. QED
      BY <3>2, <3>3
  <2>11. seats \in [RouteIds -> SeatRecords]
    BY <2>6, <2>7, <2>10
  <2>12. seats[s] = q /\ \A r \in RouteIds \ {s} : seats[r] = rest[r]
    BY <2>6, <2>7
  <2>13. \A r \in RouteIds : SeatCut(seats[r], seat[r], \E c \in Askers : ask[c].sid = r)
    <3>1. SeatCut(seats[s], seat[s], \E c \in Askers : ask[c].sid = s)
      BY <2>4, <2>10, <2>12 DEF SeatCut
    <3>2. \A r \in RouteIds \ {s} : SeatCut(seats[r], seat[r], \E c \in Askers : ask[c].sid = r)
      BY <1>3, <2>3, <2>12 DEF SeatCut
    <3>3. QED
      BY <3>1, <3>2
  <2>14. QED
    BY <1>2, <2>8, <2>9, <2>11, <2>13, CutStep
<1>6. QED
  BY <1>4, <1>5

LEMMA ClientsCall ==
  ASSUME RouteInv, KeepWarm \/ \E c \in Calls : ClientCalls(c)
  PROVE  RouteInv'
<1>1. /\ opened \in 1..MaxTabs /\ Nowhere \in 0..MaxTabs /\ OpenTabs \subseteq 0..MaxTabs
      /\ jar \in [Clients -> RouteIds \cup {NoId}]
  BY RoutingAssumption DEF RouteInv, RouteShape, Nowhere, OpenTabs
<1>2. CASE KeepWarm
  <2>1. /\ \A s \in RouteIds : ~(Seated(s) /\ seat[s].for = Warmer)
        /\ AskArrives(WarmCall, "new", NoId, FALSE, Nowhere)
    BY <1>2 DEF KeepWarm
  <2>2. WarmCall \in Askers
    BY DEF Askers
  <2>3. QED
    BY <1>1, <2>1, <2>2, ArrivalStep
<1>3. CASE \E c \in Calls : ClientCalls(c)
  <2>1. PICK c \in Calls : ClientCalls(c)
    BY <1>3
  <2>2. /\ c \in Askers /\ c # WarmCall /\ Caller(c) \in Clients
    BY RoutingAssumption DEF Askers, Calls, WarmCall, Caller
  <2>3. PICK kind \in {"op", "direct", "global", "new", "tab"}, sid \in {NoId, jar[Caller(c)]},
             auto \in BOOLEAN, want \in OpenTabs \cup {Nowhere} : AskArrives(c, kind, sid, auto, want)
    BY <2>1 DEF ClientCalls
  <2>4. sid \in RouteIds \cup {NoId} /\ want \in 0..MaxTabs
    BY <1>1, <2>2, <2>3
  <2>5. sid # NoId => seat[sid].for = Caller(c)
    BY <2>2, <2>3 DEF RouteInv, OwnersOnly
  <2>6. QED
    BY <2>2, <2>3, <2>4, <2>5, ArrivalStep
<1>4. QED
  BY <1>2, <1>3

LEMMA RouteStep == RouteInv /\ [RouteNext]_routeVars => RouteInv'
<1> SUFFICES ASSUME RouteInv, [RouteNext]_routeVars
             PROVE  RouteInv'
  OBVIOUS
<1>1. CASE KeepWarm \/ \E c \in Calls : ClientCalls(c)
  BY <1>1, ClientsCall
<1>2. ASSUME NEW c \in Askers,
             \/ ResolveKnown(c) \/ Refuses(c) \/ AutoMintFails(c) \/ EnsureConnected(c) \/ EnsureFails(c)
             \/ HealLaunched(c) \/ FindsTab(c) \/ PicksClient(c) \/ Runs(c)
      PROVE  RouteInv'
  BY <1>2, QuietSteps
<1>3. ASSUME NEW c \in Askers, AutoMints(c) \/ SessionNew(c)
      PROVE  RouteInv'
  BY <1>3, MintingSteps
<1>4. ASSUME NEW c \in Askers, \/ HealBegins(c) \/ HealAttaches(c) \/ HealMissesTab(c)
                               \/ HealReopens(c) \/ HealFails(c)
      PROVE  RouteInv'
  BY <1>4, HealBeginsStep, HealAttachesStep, HealMissesTabStep, HealReopensStep, HealFailsStep
<1>5. ASSUME NEW c \in Askers, EnsureAttachesShared(c)
      PROVE  RouteInv'
  BY <1>5, EnsureSharedStep
<1>6. CASE (\E s \in RouteIds : SessionEnds(s)) \/ (\E t \in OpenTabs : TabGoes(t))
  BY <1>6, ClientsCut
<1>7. ASSUME NEW s \in RouteIds, NEW t \in OpenTabs, NavigateRoams(s, t)
      PROVE  RouteInv'
  BY <1>7, RoamStep
<1>8. CASE BrowserLaunch \/ \E t \in OpenTabs : ConnectShared(t)
  BY <1>8, ConnectStep DEF BrowserLaunch, ConnectShared
<1>9. CASE UNCHANGED routeVars
  BY <1>9 DEF routeVars, RouteInv, RouteShape, SeatsKnown, OneHeals, OwnersOnly, TabsApart,
              WarmerHasOne, Seated, AskAt
<1>10. QED
  BY <1>1, <1>2, <1>3, <1>4, <1>5, <1>6, <1>7, <1>8, <1>9 DEF RouteNext

LEMMA RouteInvMeans == RouteInv => RunsAtHome
<1> SUFFICES ASSUME RouteInv
             PROVE  RunsAtHome
  OBVIOUS
<1>1. ASSUME NEW c \in Askers, CanRun(c)
      PROVE  /\ ask[c].via = "seat" /\ ask[c].kind # "tab" =>
                  LET place == seat[ask[c].sid] IN
                  /\ "roamed" \notin place.astray => Runner(c) \in place.own
                  /\ place.astray = {} => Runner(c) = place.tab
             /\ ask[c].kind = "tab" /\ ~ask[c].moved => Runner(c) = ask[c].want
             /\ ask[c].via = "shared" /\ ask[c].kind # "tab" =>
                  ask[c].kind = "global" \/ (ask[c].kind = "op" /\ ask[c].auto)
  <2>1. /\ ask[c].pc = "run" /\ AskSound(ask[c], shared) /\ ask[c] \in AskRecords
        /\ Runner(c) # Nowhere /\ (Runner(c) = Browser => ask[c].kind = "global")
    BY <1>1, OneAsk DEF CanRun, AskAt
  <2>2. ask[c].via = "seat" =>
          /\ Runner(c) = seat[ask[c].sid].at /\ ask[c].sid \in RouteIds
          /\ Knows(ask[c], seat[ask[c].sid]) /\ AtHome(seat[ask[c].sid], opened)
    <3>1. ask[c].via = "seat" => ask[c].sid \in RouteIds
      BY <2>1 DEF AskSound
    <3>2. QED
      BY <3>1, OneAsk, RoutingAssumption DEF Runner, RouteInv
  <2>3. ask[c].via = "shared" => Runner(c) = shared
    BY DEF Runner
  <2>4. ask[c].via \notin {"seat", "shared"} => Runner(c) \in {ask[c].want, Nowhere}
    BY DEF Runner
  <2>5. ask[c].via = "seat" /\ ask[c].kind # "tab" =>
          LET place == seat[ask[c].sid] IN
          /\ "roamed" \notin place.astray => Runner(c) \in place.own
          /\ place.astray = {} => Runner(c) = place.tab
    BY <2>1, <2>2 DEF AtHome
  <2>6. ask[c].kind = "tab" /\ ~ask[c].moved => Runner(c) = ask[c].want
    <3>1. CASE ask[c].via = "seat"
      BY <2>1, <2>2, <3>1 DEF Knows
    <3>2. CASE ask[c].via = "shared"
      BY <2>1, <2>3, <3>2 DEF AskSound
    <3>3. CASE ask[c].via \notin {"seat", "shared"}
      BY <2>1, <2>4, <3>3
    <3>4. QED
      BY <3>1, <3>2, <3>3
  <2>7. ask[c].via = "shared" /\ ask[c].kind # "tab" =>
          ask[c].kind = "global" \/ (ask[c].kind = "op" /\ ask[c].auto)
    BY <2>1 DEF AskSound
  <2>8. QED
    BY <2>5, <2>6, <2>7
<1>2. ASSUME NEW s \in RouteIds
      PROVE  /\ \A c \in Askers : ask[c].sid = s => seat[s].for = Caller(c)
             /\ \A k \in Clients : jar[k] = s => seat[s].for = k
             /\ \A r \in RouteIds \ {s} :
                  /\ seat[s].own \cap seat[r].own = {}
                  /\ ~(Seated(s) /\ seat[s].for = Warmer /\ Seated(r) /\ seat[r].for = Warmer)
  <2>1. s # NoId
    BY RoutingAssumption
  <2>2. QED
    BY <2>1 DEF RouteInv, OwnersOnly, TabsApart, WarmerHasOne
<1>3. QED
  BY <1>1, <1>2 DEF RunsAtHome

(* However the requests of the clients, several at once on one session if    *)
(* they share it, the steps of their heals, the keep-warm loop, navigations, *)
(* closed tabs and ended sessions interleave (session_middleware, run_op,    *)
(* _resolve_session_client, _ensure_browser and _tab_client_for of main.py), *)
(* an operation runs on a tab of its own session unless a navigation roamed, *)
(* and on the one the session names unless heals crossed or one went on      *)
(* halfway; a read of a named tab runs on that tab; and nobody holds the     *)
(* session of another.                                                       *)
THEOREM RequestsRunAtHome == RouteInit /\ [][RouteNext]_routeVars => []RunsAtHome
<1>1. RouteInv /\ [RouteNext]_routeVars => RouteInv'
  BY RouteStep
<1>2. QED
  BY RouteInitial, RouteInvMeans, <1>1, PTL

LEMMA RoutesTyped == RouteInv => RouteTypeOK
<1> SUFFICES ASSUME RouteInv
             PROVE  RouteTypeOK
  OBVIOUS
<1>1. RouteShape
  BY DEF RouteInv
<1>2. \A c \in Askers : ask[c].sid \in RouteIds \cup {NoId}
  BY <1>1 DEF RouteShape, AskRecords
<1>3. QED
  BY <1>1, <1>2 DEF RouteShape, RouteTypeOK

LEMMA RouteTypes == RouteInit /\ [][RouteNext]_routeVars => []RouteTypeOK
BY RouteInitial, RouteStep, RoutesTyped, PTL

-----------------------------------------------------------------------------
(* Hand-offs.                                                                *)

LEMMA HandInitial == HandInit => HandInv
<1> SUFFICES ASSUME HandInit
             PROVE  HandInv
  OBVIOUS
<1> USE HandAssumption DEF HandInit
<1>1. HandShape
  <2>1. ToolIdle \in ToolRecords /\ ToolIdle.pc = "idle"
    BY DEF ToolIdle, ToolRecords, Facings
  <2>2. HandTypeOK
    <3>1. tabs \in HandTabs /\ own \in 1..tabs /\ gone \subseteq 1..tabs
      BY DEF HandTabs
    <3>2. facing \in [HandTabs -> Facings] /\ worn \in [HandTabs -> SUBSET Emulated]
      BY DEF Facings
    <3>3. QED
      BY <3>1, <3>2 DEF HandTypeOK
  <2>3. QED
    BY <2>1, <2>2 DEF HandShape
<1>2. \A c \in HandCallers : tool[c].pc = "idle"
  BY DEF ToolIdle
<1>3. HandOffNamed
  BY <1>2 DEF HandOffNamed, ToolAt
<1>4. EmulationKnown
  BY <1>2 DEF EmulationKnown, Applied, ToolAt, HandTabs
<1>5. QED
  BY <1>1, <1>3, <1>4 DEF HandInv

(* A tab is resolved: it is the session's, or a new one that replaces it.    *)
LEMMA ResolvedTab ==
  ASSUME HandInv, NEW t \in HandTabs, Resolve(t)
  PROVE  /\ tabs' \in HandTabs /\ tabs <= tabs' /\ own' \in 1..tabs' /\ blurred' \subseteq Emulated
         /\ t \in 1..tabs'
         /\ \/ own \notin gone /\ UNCHANGED <<tabs, own, blurred>>
            \/ blurred' = Emulated
BY HandAssumption DEF HandInv, HandShape, HandTypeOK, Resolve, HandTabs

(* The emulation stays known while no call is answered or noted and the page *)
(* wears what it wore, or is replaced, or closed.                            *)
LEMMA EmulationStays ==
  ASSUME HandInv, tool' \in [HandCallers -> ToolRecords],
         UNCHANGED emulating, gone \subseteq gone', own' = own \/ blurred' = Emulated,
         blurred \subseteq blurred',
         own' \notin gone' => worn'[own] = worn[own] \/ blurred' = Emulated,
         \A d \in HandCallers :
           /\ tool'[d].pc = "applied" <=> tool[d].pc = "applied"
           /\ tool[d].pc = "applied" => tool'[d].key = tool[d].key /\ tool'[d].kind = tool[d].kind
  PROVE  EmulationKnown'
<1>1. \A d \in HandCallers, k \in Emulated : Applied(d, k)' <=> Applied(d, k)
  BY DEF Applied, ToolAt
<1>2. \A d \in HandCallers, k \in Emulated : Applied(d, k) => tool'[d].kind = tool[d].kind
  BY DEF Applied, ToolAt
<1>3. QED
  BY <1>1, <1>2 DEF HandInv, EmulationKnown

(* What a step of one call leaves of the others.                             *)
LEMMA OneToolMoves ==
  ASSUME HandInv, NEW c \in HandCallers, NEW j \in ToolRecords, tool' = [tool EXCEPT ![c] = j]
  PROVE  /\ tool' \in [HandCallers -> ToolRecords]
         /\ \A d \in HandCallers : tool'[d] = IF d = c THEN j ELSE tool[d]
BY DEF HandInv, HandShape

(* Hand-offs stay named when no call begins or stops waiting.                *)
LEMMA NamesStay ==
  ASSUME HandInv, UNCHANGED <<handedTo, crossed>>,
         \A d \in HandCallers : tool'[d].pc = "poll" <=> tool[d].pc = "poll"
  PROVE  HandOffNamed'
BY DEF HandInv, HandOffNamed, ToolAt

LEMMA ToolBeginsStep ==
  ASSUME HandInv, NEW c \in HandCallers, NEW kind \in {"navigate", "read", "await", "set", "clear"},
         NEW key, IF kind \in {"set", "clear"} THEN key \in Emulated ELSE key = "none",
         ToolBegins(c, kind, key)
  PROVE  HandInv'
<1> USE HandAssumption
<1>1. /\ HandShape /\ HandOffNamed /\ EmulationKnown /\ tool[c].pc = "idle" /\ owed = noted
      /\ UNCHANGED <<gone, facing, worn, noted, emulating, owed>>
  BY DEF HandInv, ToolBegins, ToolAt
<1>2. PICK t \in HandTabs : /\ Resolve(t)
         /\ tool' = [tool EXCEPT ![c] =
              [ToolIdle EXCEPT !.kind = kind, !.on = t, !.key = key,
                           !.pc = CASE kind = "navigate" -> "go"   [] kind = "read"  -> "gate"
                                    [] kind = "await"    -> "poll" [] OTHER          -> "apply"]]
  BY DEF ToolBegins
<1>3. PICK pc \in {"go", "gate", "poll", "apply"} :
        /\ pc = CASE kind = "navigate" -> "go"   [] kind = "read"  -> "gate"
                  [] kind = "await"    -> "poll" [] OTHER          -> "apply"
        /\ pc = "poll" <=> kind = "await"
        /\ pc = "apply" <=> kind \in {"set", "clear"}
  OBVIOUS
<1>4. PICK j : j = [ToolIdle EXCEPT !.kind = kind, !.on = t, !.key = key, !.pc = pc]
  OBVIOUS
<1>5. tool' = [tool EXCEPT ![c] = j]
  BY <1>2, <1>3, <1>4
<1>6. j \in ToolRecords /\ j.pc = pc /\ j.kind = kind /\ j.key = key
  <2>1. key \in Emulated \cup {"none"} /\ t \in 0..MaxHandTabs /\ "blank" \in Facings
    BY DEF HandTabs, Facings
  <2>2. j = [pc |-> pc, kind |-> kind, on |-> t, saw |-> "blank", key |-> key]
    BY <1>4 DEF ToolIdle
  <2>3. QED
    BY <2>1, <2>2 DEF ToolRecords
<1>7. /\ tool' \in [HandCallers -> ToolRecords]
      /\ \A d \in HandCallers : tool'[d] = IF d = c THEN j ELSE tool[d]
  BY <1>5, <1>6, OneToolMoves
<1>8. /\ tabs' \in HandTabs /\ tabs <= tabs' /\ own' \in 1..tabs' /\ blurred' \subseteq Emulated
      /\ \/ own \notin gone /\ UNCHANGED <<tabs, own, blurred>>
         \/ blurred' = Emulated
  BY <1>2, ResolvedTab
<1>9. HandShape'
  <2>1. HandTypeOK'
    <3>1. handedTo' \in HandCallers \cup {NoOne}
      BY <1>1 DEF ToolBegins, HandShape, HandTypeOK
    <3>2. gone' \subseteq 1..tabs'
      BY <1>1, <1>8 DEF HandShape, HandTypeOK, HandTabs
    <3>3. QED
      BY <1>1, <1>8, <3>1, <3>2 DEF HandShape, HandTypeOK
  <2>2. crossed' \subseteq HandCallers
    BY <1>1 DEF ToolBegins, HandShape
  <2>3. QED
    BY <1>1, <1>3, <1>6, <1>7, <1>8, <2>1, <2>2 DEF HandShape
<1>10. HandOffNamed'
  <2>1. /\ handedTo' = IF kind = "await" THEN c ELSE handedTo
        /\ crossed' = IF kind # "await" THEN crossed
                      ELSE IF \E d \in HandCallers \ {c} : ToolAt(d, "poll")
                      THEN crossed \cup {c} \cup {d \in HandCallers : ToolAt(d, "poll")}
                      ELSE crossed \ {c}
    BY DEF ToolBegins
  <2>2. \A d \in HandCallers : ToolAt(d, "poll")' <=> (d = c /\ kind = "await") \/ ToolAt(d, "poll")
    BY <1>1, <1>3, <1>6, <1>7 DEF ToolAt
  <2>3. QED
    BY <1>1, <2>1, <2>2 DEF HandOffNamed
<1>11. EmulationKnown'
  BY <1>1, <1>3, <1>6, <1>7, <1>8, EmulationStays DEF HandShape
<1>12. QED
  BY <1>1, <1>9, <1>10, <1>11 DEF HandInv

(* The steps of a call that ends or goes on without a hand-off or emulation. *)
LEMMA QuietToolSteps ==
  ASSUME HandInv, NEW c \in HandCallers,
         Reopens(c) \/ GatedNavigate(c) \/ GateReads(c) \/ GateJudges(c)
  PROVE  HandInv'
<1> USE HandAssumption
<1>1. /\ HandShape /\ HandOffNamed /\ EmulationKnown /\ owed = noted
      /\ UNCHANGED <<gone, worn, emulating, handedTo, crossed>>
      /\ HandTypeOK /\ tool[c] \in ToolRecords
  BY DEF HandInv, HandShape, Reopens, GatedNavigate, GateReads, GateJudges
<1>2. /\ tabs' \in HandTabs /\ tabs <= tabs' /\ own' \in 1..tabs' /\ blurred' \subseteq Emulated
      /\ UNCHANGED own \/ blurred' = Emulated
      /\ UNCHANGED blurred \/ blurred' = Emulated
      /\ facing' \in [HandTabs -> Facings]
  <2>1. CASE Reopens(c)
    BY <1>1, <2>1 DEF Reopens, HandShape, HandTypeOK, HandTabs
  <2>2. CASE GatedNavigate(c)
    <3>1. UNCHANGED <<tabs, own, blurred>>
      BY <2>2 DEF GatedNavigate
    <3>2. facing' \in [HandTabs -> Facings]
      BY <1>1, <2>2 DEF GatedNavigate, HandTypeOK
    <3>3. QED
      BY <1>1, <3>1, <3>2 DEF HandShape, HandTypeOK, HandTabs
  <2>3. CASE GateReads(c)
    <3>1. UNCHANGED facing /\ \E t \in HandTabs : Resolve(t)
      BY <2>3 DEF GateReads
    <3>2. QED
      BY <1>1, <3>1, ResolvedTab DEF HandTypeOK
  <2>4. CASE GateJudges(c)
    BY <1>1, <2>4 DEF GateJudges, HandShape, HandTypeOK, HandTabs
  <2>5. QED
    BY <2>1, <2>2, <2>3, <2>4
<1>3. PICK j \in ToolRecords :
        /\ tool' = [tool EXCEPT ![c] = j]
        /\ j.pc = "poll" <=> tool[c].pc = "poll"
        /\ j.pc = "apply" => tool[c].pc = "apply"
        /\ j.pc # "applied" /\ tool[c].pc # "applied"
        /\ (j.kind = tool[c].kind /\ j.key = tool[c].key) \/ j.pc \notin {"apply", "applied"}
  <2>1. PICK a \in ToolRecords : a = tool[c] /\ tool \in [HandCallers -> ToolRecords]
    BY <1>1 DEF HandShape
  <2>2. ToolIdle \in ToolRecords /\ ToolIdle.pc = "idle"
    BY DEF ToolIdle, ToolRecords, Facings
  <2>3. CASE Reopens(c)
    <3>1. PICK j : j = [a EXCEPT !.on = tabs'] /\ tool' = [tool EXCEPT ![c] = j]
      BY <2>1, <2>3 DEF Reopens
    <3>2. tabs' \in 0..MaxHandTabs /\ a.pc \in {"go", "poll", "apply"}
      BY <1>2, <2>1, <2>3 DEF Reopens, HandTabs
    <3>3. j \in ToolRecords /\ j.pc = a.pc /\ j.kind = a.kind /\ j.key = a.key
      BY <3>1, <3>2 DEF ToolRecords
    <3>4. QED
      BY <2>1, <3>1, <3>2, <3>3
  <2>4. CASE GatedNavigate(c)
    <3>1. a.pc = "go"
      BY <2>1, <2>4 DEF GatedNavigate, ToolAt
    <3>2. CASE tool' = [tool EXCEPT ![c].pc = "gate"]
      <4>1. PICK j : j = [a EXCEPT !.pc = "gate"] /\ tool' = [tool EXCEPT ![c] = j]
        BY <2>1, <3>2
      <4>2. j \in ToolRecords /\ j.pc = "gate"
        BY <4>1 DEF ToolRecords
      <4>3. QED
        BY <2>1, <3>1, <4>1, <4>2
    <3>3. CASE Done(c)
      BY <2>1, <2>2, <3>1, <3>3 DEF Done
    <3>4. QED
      BY <2>4, <3>2, <3>3 DEF GatedNavigate
  <2>5. CASE GateReads(c)
    <3>1. PICK p : p \in Facings /\ tool' = [tool EXCEPT ![c].pc = "judge", ![c].saw = p]
      <4>1. PICK t \in HandTabs : \E p \in {IF facing[t] = "wanted" THEN "plain" ELSE facing[t], "blank"} :
              tool' = [tool EXCEPT ![c].pc = "judge", ![c].saw = p]
        BY <2>5 DEF GateReads
      <4>2. facing[t] \in Facings
        BY <1>1 DEF HandTypeOK
      <4>3. QED
        BY <4>1, <4>2 DEF Facings
    <3>2. PICK j : j = [a EXCEPT !.pc = "judge", !.saw = p] /\ tool' = [tool EXCEPT ![c] = j]
      BY <2>1, <3>1
    <3>3. j \in ToolRecords /\ j.pc = "judge" /\ a.pc = "gate"
      BY <2>1, <2>5, <3>1, <3>2 DEF ToolRecords, GateReads, ToolAt
    <3>4. QED
      BY <2>1, <3>2, <3>3
  <2>6. CASE GateJudges(c)
    BY <2>1, <2>2, <2>6 DEF GateJudges, Done, ToolAt
  <2>7. QED
    BY <2>3, <2>4, <2>5, <2>6
<1>4. /\ tool' \in [HandCallers -> ToolRecords]
      /\ \A d \in HandCallers : tool'[d] = IF d = c THEN j ELSE tool[d]
  BY <1>3, OneToolMoves
<1>5. noted' \in BOOLEAN /\ owed' = noted'
  <2>1. CASE GateJudges(c)
    <3>1. CASE tool[c].saw = "blank"
      BY <1>1, <2>1, <3>1 DEF GateJudges, HandTypeOK
    <3>2. CASE tool[c].saw = "challenge"
      BY <1>1, <2>1, <3>2 DEF GateJudges, HandTypeOK
    <3>3. CASE tool[c].saw \notin {"blank", "challenge"}
      <4>1. ~noted' /\ (owed' <=> owed /\ ~noted) /\ owed' \in BOOLEAN /\ noted' = FALSE
        BY <1>1, <2>1, <3>3 DEF GateJudges
      <4>2. QED
        BY <1>1, <4>1 DEF HandTypeOK
    <3>4. QED
      BY <3>1, <3>2, <3>3
  <2>2. CASE ~GateJudges(c)
    BY <1>1, <2>2 DEF HandTypeOK, Reopens, GatedNavigate, GateReads
  <2>3. QED
    BY <2>1, <2>2
<1>6. HandShape'
  <2>1. gone' \subseteq 1..tabs'
    BY <1>1, <1>2 DEF HandTypeOK, HandTabs
  <2>2. HandTypeOK'
    BY <1>1, <1>2, <1>5, <2>1 DEF HandTypeOK
  <2>3. \A d \in HandCallers : tool'[d].pc \in {"apply", "applied"} =>
          tool'[d].key \in Emulated /\ tool'[d].kind \in {"set", "clear"}
    BY <1>1, <1>3, <1>4 DEF HandShape
  <2>4. QED
    BY <1>1, <1>2, <1>4, <1>5, <2>2, <2>3 DEF HandShape
<1>7. HandOffNamed'
  BY <1>1, <1>3, <1>4, NamesStay
<1>8. EmulationKnown'
  <2>1. blurred \subseteq blurred'
    BY <1>1, <1>2 DEF HandShape
  <2>2. QED
    BY <1>1, <1>2, <1>3, <1>4, <2>1, EmulationStays
<1>9. QED
  BY <1>5, <1>6, <1>7, <1>8 DEF HandInv

(* A hand-off looks at the page, and may end.                                *)
LEMMA AwaitStep ==
  ASSUME HandInv, NEW c \in HandCallers, AwaitPolls(c)
  PROVE  HandInv'
<1> USE HandAssumption
<1>1. /\ HandShape /\ HandOffNamed /\ EmulationKnown /\ owed = noted /\ HandTypeOK
      /\ UNCHANGED <<gone, facing, worn, noted, emulating, owed>> /\ tool[c].pc = "poll"
  BY DEF HandInv, HandShape, AwaitPolls, ToolAt
<1>2. /\ tabs' \in HandTabs /\ tabs <= tabs' /\ own' \in 1..tabs' /\ blurred' \subseteq Emulated
      /\ UNCHANGED <<own, blurred>> \/ blurred' = Emulated
  BY ResolvedTab DEF AwaitPolls
<1>3. ToolIdle \in ToolRecords /\ ToolIdle.pc = "idle"
  BY DEF ToolIdle, ToolRecords, Facings
<1>4. PICK b \in ToolRecords :
        /\ b = tool'[c] /\ (b = tool[c] \/ b.pc = "idle")
        /\ tool' \in [HandCallers -> ToolRecords]
        /\ \A d \in HandCallers : tool'[d] = IF d = c THEN b ELSE tool[d]
  <2>1. CASE AwaitEnds(c)
    BY <1>3, <2>1, OneToolMoves DEF AwaitEnds, Done
  <2>2. CASE UNCHANGED tool
    BY <1>1, <2>2 DEF HandShape
  <2>3. QED
    BY <2>1, <2>2 DEF AwaitPolls
<1>5. handedTo' \in HandCallers \cup {NoOne} /\ crossed' \subseteq HandCallers
  BY <1>1 DEF AwaitPolls, AwaitEnds, HandTypeOK, HandShape
<1>6. HandShape'
  <2>1. HandTypeOK'
    <3>1. gone' \subseteq 1..tabs'
      BY <1>1, <1>2 DEF HandTypeOK, HandTabs
    <3>2. QED
      BY <1>1, <1>2, <1>5, <3>1 DEF HandTypeOK
  <2>2. QED
    BY <1>1, <1>2, <1>4, <1>5, <2>1 DEF HandShape
<1>7. HandOffNamed'
  <2>1. CASE AwaitEnds(c)
    <3>1. \A d \in HandCallers : ToolAt(d, "poll")' <=> d # c /\ ToolAt(d, "poll")
      BY <1>1, <1>3, <2>1 DEF AwaitEnds, Done, ToolAt, HandShape
    <3>2. handedTo' = NoOne /\ crossed' = (crossed \cup {d \in HandCallers : ToolAt(d, "poll")}) \ {c}
      BY <2>1 DEF AwaitEnds
    <3>3. QED
      BY <1>1, <3>1, <3>2 DEF HandOffNamed
  <2>2. CASE UNCHANGED <<tool, handedTo, crossed>>
    BY <1>1, <2>2 DEF HandOffNamed, ToolAt
  <2>3. QED
    BY <2>1, <2>2 DEF AwaitPolls
<1>8. EmulationKnown'
  <2>1. blurred \subseteq blurred'
    BY <1>1, <1>2 DEF HandShape
  <2>2. QED
    BY <1>1, <1>2, <1>4, <2>1, EmulationStays
<1>9. QED
  BY <1>1, <1>6, <1>7, <1>8 DEF HandInv

(* Chrome is told of the emulation, or fails to answer.                      *)
LEMMA AppliesStep ==
  ASSUME HandInv, NEW c \in HandCallers, Applies(c)
  PROVE  HandInv'
<1> USE HandAssumption
<1>1. /\ HandShape /\ HandOffNamed /\ EmulationKnown /\ owed = noted /\ HandTypeOK
      /\ UNCHANGED <<tabs, own, gone, facing, noted, handedTo, emulating, owed, crossed>>
  BY DEF HandInv, HandShape, Applies
<1>2. PICK a \in ToolRecords, k \in Emulated :
        /\ a = tool[c] /\ k = a.key /\ a.pc = "apply" /\ a.kind \in {"set", "clear"}
        /\ tool \in [HandCallers -> ToolRecords]
  BY <1>1 DEF Applies, ToolAt, HandShape
<1>3. ToolIdle \in ToolRecords /\ ToolIdle.pc = "idle"
  BY DEF ToolIdle, ToolRecords, Facings
<1>4. worn' \in [HandTabs -> SUBSET Emulated]
  <2>1. CASE Wears(c)
    <3>1. worn \in [HandTabs -> SUBSET Emulated]
      BY <1>1 DEF HandTypeOK
    <3>2. worn' = [worn EXCEPT ![a.on] = IF a.kind = "set" THEN @ \cup {k} ELSE @ \ {k}]
      BY <1>2, <2>1 DEF Wears
    <3>3. QED
      BY <3>1, <3>2
  <2>2. CASE UNCHANGED worn
    BY <1>1, <2>2 DEF HandTypeOK
  <2>3. QED
    BY <2>1, <2>2 DEF Applies
<1>5. PICK j \in ToolRecords :
        /\ tool' = [tool EXCEPT ![c] = j]
        /\ \/ /\ j.pc = "applied" /\ j.kind = a.kind /\ j.key = k /\ Wears(c)
              /\ blurred' = IF AlsoApplied(c) # {} \/ a.on # own THEN blurred \cup {k} ELSE blurred \ {k}
           \/ j.pc = "idle" /\ Wears(c) /\ blurred' = blurred \cup {k}
           \/ j.pc = "idle" /\ UNCHANGED <<worn, blurred>>
  <2>1. CASE /\ Wears(c) /\ tool' = [tool EXCEPT ![c].pc = "applied"]
             /\ blurred' = IF AlsoApplied(c) # {} \/ a.on # own THEN blurred \cup {k} ELSE blurred \ {k}
    <3>1. PICK j : j = [a EXCEPT !.pc = "applied"] /\ tool' = [tool EXCEPT ![c] = j]
      BY <1>2, <2>1
    <3>2. j \in ToolRecords /\ j.pc = "applied" /\ j.kind = a.kind /\ j.key = k
      BY <1>2, <3>1 DEF ToolRecords
    <3>3. QED
      BY <2>1, <3>1, <3>2
  <2>2. CASE Wears(c) /\ Done(c) /\ blurred' = blurred \cup {k}
    BY <1>3, <2>2 DEF Done
  <2>3. CASE Done(c) /\ UNCHANGED <<worn, blurred>>
    BY <1>3, <2>3 DEF Done
  <2>4. QED
    BY <1>2, <2>1, <2>2, <2>3 DEF Applies
<1>6. /\ tool' \in [HandCallers -> ToolRecords]
      /\ \A d \in HandCallers : tool'[d] = IF d = c THEN j ELSE tool[d]
  BY <1>5, OneToolMoves
<1>7. HandShape'
  <2>1. HandTypeOK'
    BY <1>1, <1>4 DEF HandTypeOK
  <2>2. blurred' \subseteq Emulated
    BY <1>1, <1>2, <1>5 DEF HandShape
  <2>3. \A d \in HandCallers : tool'[d].pc \in {"apply", "applied"} =>
          tool'[d].key \in Emulated /\ tool'[d].kind \in {"set", "clear"}
    BY <1>1, <1>2, <1>5, <1>6 DEF HandShape
  <2>4. QED
    BY <1>1, <1>6, <2>1, <2>2, <2>3 DEF HandShape
<1>8. HandOffNamed'
  BY <1>1, <1>2, <1>5, <1>6, NamesStay
<1>9. EmulationKnown'
  <2>1. \A d \in HandCallers, e \in Emulated :
          Applied(d, e)' <=> IF d = c THEN j.pc = "applied" /\ e = k ELSE Applied(d, e)
    BY <1>5, <1>6 DEF Applied, ToolAt
  <2>2. \A e \in Emulated : e # k => /\ e \in blurred' <=> e \in blurred
                                     /\ own \in HandTabs => (e \in worn'[own] <=> e \in worn[own])
    <3>1. \A e : e # k => (e \in blurred' <=> e \in blurred)
      BY <1>5
    <3>2. ASSUME NEW e \in Emulated, e # k, own \in HandTabs
          PROVE  e \in worn'[own] <=> e \in worn[own]
      BY <1>1, <1>2, <1>5, <3>2 DEF Wears, HandTypeOK
    <3>3. QED
      BY <3>1, <3>2
  <2>3. own \in HandTabs
    BY <1>1 DEF HandTypeOK, HandTabs
  <2>4. ASSUME own \notin gone, NEW e \in Emulated \ blurred', e # k
        PROVE  /\ \A d, f \in HandCallers : Applied(d, e)' /\ Applied(f, e)' => d = f
               /\ \A d \in HandCallers : Applied(d, e)' => (e \in worn'[own] <=> tool'[d].kind = "set")
               /\ (\A d \in HandCallers : ~Applied(d, e)') => (e \in emulating' <=> e \in worn'[own])
    <3>1. e \notin blurred /\ (e \in worn'[own] <=> e \in worn[own])
      BY <2>2, <2>3, <2>4
    <3>2. \A d \in HandCallers : Applied(d, e)' <=> Applied(d, e)
      BY <1>2, <2>1, <2>4 DEF Applied, ToolAt
    <3>3. \A d \in HandCallers : Applied(d, e)' => tool'[d] = tool[d]
      BY <1>6, <2>1, <2>4
    <3>4. QED
      BY <1>1, <2>4, <3>1, <3>2, <3>3 DEF EmulationKnown
  <2>5. ASSUME own \notin gone, k \notin blurred'
        PROVE  /\ \A d, f \in HandCallers : Applied(d, k)' /\ Applied(f, k)' => d = f
               /\ \A d \in HandCallers : Applied(d, k)' => (k \in worn'[own] <=> tool'[d].kind = "set")
               /\ (\A d \in HandCallers : ~Applied(d, k)') => (k \in emulating' <=> k \in worn'[own])
    <3>1. CASE j.pc = "idle"
      <4>1. UNCHANGED <<worn, blurred>>
        BY <1>5, <2>5, <3>1
      <4>2. \A d \in HandCallers : Applied(d, k)' <=> Applied(d, k)
        BY <1>2, <2>1, <3>1 DEF Applied, ToolAt
      <4>3. \A d \in HandCallers : Applied(d, k)' => tool'[d] = tool[d]
        BY <1>6, <2>1, <3>1
      <4>4. QED
        BY <1>1, <2>5, <4>1, <4>2, <4>3 DEF EmulationKnown
    <3>2. CASE j.pc = "applied"
      <4>1. Wears(c) /\ j.kind = a.kind /\ AlsoApplied(c) = {} /\ a.on = own
        BY <1>5, <2>5, <3>2
      <4>2. \A d \in HandCallers : Applied(d, k)' => d = c
        BY <1>2, <2>1, <4>1 DEF AlsoApplied, Applied
      <4>3. k \in worn'[own] <=> a.kind = "set"
        BY <1>1, <1>2, <2>3, <4>1 DEF Wears, HandTypeOK
      <4>4. Applied(c, k)' /\ tool'[c] = j
        BY <1>6, <2>1, <3>2
      <4>5. QED
        BY <4>1, <4>2, <4>3, <4>4
    <3>3. QED
      BY <1>5, <3>1, <3>2
  <2>6. QED
    BY <1>1, <2>4, <2>5 DEF EmulationKnown
<1>10. QED
  BY <1>1, <1>7, <1>8, <1>9 DEF HandInv

(* The tool notes what it was answered.                                      *)
LEMMA NotesStep ==
  ASSUME HandInv, NEW c \in HandCallers, NotesEmulation(c)
  PROVE  HandInv'
<1> USE HandAssumption
<1>1. /\ HandShape /\ HandOffNamed /\ EmulationKnown /\ owed = noted /\ HandTypeOK
      /\ UNCHANGED <<tabs, own, gone, facing, worn, noted, handedTo, owed, crossed, blurred>>
  BY DEF HandInv, HandShape, NotesEmulation
<1>2. PICK k \in Emulated, kind \in {"set", "clear"} :
        /\ k = tool[c].key /\ kind = tool[c].kind /\ tool[c].pc = "applied"
        /\ emulating' = IF kind = "set" THEN emulating \cup {k} ELSE emulating \ {k}
  BY <1>1 DEF NotesEmulation, ToolAt, HandShape
<1>3. ToolIdle \in ToolRecords /\ ToolIdle.pc = "idle"
  BY DEF ToolIdle, ToolRecords, Facings
<1>4. /\ tool' \in [HandCallers -> ToolRecords]
      /\ \A d \in HandCallers : tool'[d] = IF d = c THEN ToolIdle ELSE tool[d]
  BY <1>3, OneToolMoves DEF NotesEmulation, Done
<1>5. HandShape'
  <2>1. HandTypeOK'
    BY <1>1, <1>2 DEF HandTypeOK
  <2>2. QED
    BY <1>1, <1>3, <1>4, <2>1 DEF HandShape
<1>6. HandOffNamed'
  BY <1>1, <1>2, <1>3, <1>4, NamesStay
<1>7. EmulationKnown'
  <2>1. \A d \in HandCallers, e \in Emulated : Applied(d, e)' <=> d # c /\ Applied(d, e)
    BY <1>3, <1>4 DEF Applied, ToolAt
  <2>2. Applied(c, k)
    BY <1>2 DEF Applied, ToolAt
  <2>3. ASSUME own \notin gone, NEW e \in Emulated \ blurred
        PROVE  /\ \A d, f \in HandCallers : Applied(d, e)' /\ Applied(f, e)' => d = f
               /\ \A d \in HandCallers : Applied(d, e)' => (e \in worn[own] <=> tool'[d].kind = "set")
               /\ (\A d \in HandCallers : ~Applied(d, e)') => (e \in emulating' <=> e \in worn[own])
    <3>1. /\ \A d, f \in HandCallers : Applied(d, e) /\ Applied(f, e) => d = f
          /\ \A d \in HandCallers : Applied(d, e) => (e \in worn[own] <=> tool[d].kind = "set")
          /\ (\A d \in HandCallers : ~Applied(d, e)) => (e \in emulating <=> e \in worn[own])
      BY <1>1, <2>3 DEF EmulationKnown
    <3>2. \A d \in HandCallers : Applied(d, e)' => tool'[d] = tool[d]
      BY <1>4, <2>1
    <3>3. CASE e = k
      <4>1. e \in worn[own] <=> kind = "set"
        BY <1>2, <2>2, <3>1, <3>3
      <4>2. e \in emulating' <=> kind = "set"
        BY <1>2, <3>3
      <4>3. QED
        BY <2>1, <2>2, <3>1, <3>2, <3>3, <4>1, <4>2
    <3>4. CASE e # k
      <4>1. ~Applied(c, e)
        BY <1>2, <3>4 DEF Applied
      <4>2. e \in emulating' <=> e \in emulating
        BY <1>2, <3>4
      <4>3. QED
        BY <2>1, <3>1, <3>2, <4>1, <4>2
    <3>5. QED
      BY <3>3, <3>4
  <2>4. QED
    BY <1>1, <2>3 DEF EmulationKnown
<1>8. QED
  BY <1>1, <1>5, <1>6, <1>7 DEF HandInv

(* The screenshot, the person and the page.                                  *)
LEMMA PageSteps ==
  ASSUME HandInv,
         \/ FullPageScreenshot
         \/ \E t \in HandTabs : PersonCloses(t) \/ \E p \in Facings : PersonActs(t, p)
  PROVE  HandInv'
<1> USE HandAssumption
<1>1. /\ HandShape /\ HandOffNamed /\ EmulationKnown /\ owed = noted /\ HandTypeOK
      /\ UNCHANGED <<tabs, own, noted, handedTo, emulating, tool, owed, crossed>>
  BY DEF HandInv, HandShape, FullPageScreenshot, PersonCloses, PersonActs
<1>2. \A d \in HandCallers : tool'[d] = tool[d]
  BY <1>1
<1>3. HandOffNamed'
  BY <1>1, NamesStay
<1>4. CASE FullPageScreenshot
  <2>1. /\ worn' = [worn EXCEPT ![own] = @ \cup {"viewport"}] /\ "viewport" \in Emulated
        /\ blurred' = blurred \cup {"viewport"} /\ UNCHANGED <<gone, facing>>
    BY <1>4 DEF FullPageScreenshot
  <2>2. HandShape'
    BY <1>1, <2>1 DEF HandShape, HandTypeOK
  <2>3. \A e \in Emulated : e # "viewport" => (e \in worn'[own] <=> e \in worn[own])
    BY <1>1, <2>1 DEF HandTypeOK
  <2>4. EmulationKnown'
    <3>1. \A d \in HandCallers, e \in Emulated : Applied(d, e)' <=> Applied(d, e)
      BY <1>1 DEF Applied, ToolAt
    <3>2. QED
      BY <1>1, <2>1, <2>3, <3>1 DEF EmulationKnown
  <2>5. QED
    BY <1>1, <1>3, <2>2, <2>4 DEF HandInv
<1>5. ASSUME NEW t \in HandTabs, PersonCloses(t)
      PROVE  HandInv'
  <2>1. /\ t \in 1..tabs /\ gone' = gone \cup {t} /\ facing' = [facing EXCEPT ![t] = "blank"]
        /\ worn' = [worn EXCEPT ![t] = {}] /\ UNCHANGED blurred
    BY <1>5 DEF PersonCloses
  <2>2. HandShape'
    <3>1. facing' \in [HandTabs -> Facings] /\ worn' \in [HandTabs -> SUBSET Emulated]
      BY <1>1, <2>1 DEF HandTypeOK, Facings
    <3>2. QED
      BY <1>1, <2>1, <3>1 DEF HandShape, HandTypeOK
  <2>3. own \notin gone' => worn'[own] = worn[own]
    BY <1>1, <2>1 DEF HandTypeOK
  <2>4. EmulationKnown'
    BY <1>1, <2>1, <2>3, EmulationStays DEF HandShape
  <2>5. QED
    BY <1>1, <1>3, <2>2, <2>4 DEF HandInv
<1>6. ASSUME NEW t \in HandTabs, NEW p \in Facings, PersonActs(t, p)
      PROVE  HandInv'
  <2>1. facing' = [facing EXCEPT ![t] = p] /\ UNCHANGED <<gone, worn, blurred>>
    BY <1>6 DEF PersonActs
  <2>2. HandShape'
    BY <1>1, <2>1 DEF HandShape, HandTypeOK
  <2>3. EmulationKnown'
    BY <1>1, <2>1, EmulationStays DEF HandShape
  <2>4. QED
    BY <1>1, <1>3, <2>2, <2>3 DEF HandInv
<1>7. QED
  BY <1>4, <1>5, <1>6

LEMMA HandStep == HandInv /\ [HandNext]_handVars => HandInv'
<1> SUFFICES ASSUME HandInv, [HandNext]_handVars
             PROVE  HandInv'
  OBVIOUS
<1>1. CASE UNCHANGED handVars
  BY <1>1 DEF handVars, HandInv, HandShape, HandTypeOK, HandOffNamed, EmulationKnown, Applied, ToolAt
<1>2. ASSUME NEW c \in HandCallers,
             \/ \E kind \in {"navigate", "read", "await"} : ToolBegins(c, kind, "none")
             \/ \E kind \in {"set", "clear"}, key \in Emulated : ToolBegins(c, kind, key)
      PROVE  HandInv'
  <2>1. ASSUME NEW kind \in {"navigate", "read", "await", "set", "clear"}, NEW key,
               IF kind \in {"set", "clear"} THEN key \in Emulated ELSE key = "none",
               ToolBegins(c, kind, key)
        PROVE  HandInv'
    BY <2>1, ToolBeginsStep
  <2>2. QED
    BY <1>2, <2>1
<1>3. QED
  BY <1>1, <1>2, QuietToolSteps, AwaitStep, AppliesStep, NotesStep, PageSteps DEF HandNext

(* However the tool calls, the person and closed tabs interleave (run_op,    *)
(* _challenge_gate, await_user, set_viewport and set_offline of              *)
(* mcp_server/tools.py), session_status names a bot check while it is owed,  *)
(* a hand-off only while it waits, and the emulation the page wears unless   *)
(* something disturbed it.                                                   *)
THEOREM StatusIsTrue == HandInit /\ [][HandNext]_handVars => []StatusTrue
<1>1. HandInv => StatusTrue
  <2> SUFFICES ASSUME HandInv
               PROVE  StatusTrue
    OBVIOUS
  <2>1. HandOffNamed /\ owed = noted
    BY DEF HandInv
  <2>2. ASSUME NEW k \in Emulated \ blurred,
               \A c \in HandCallers : ~(ToolAt(c, "applied") /\ tool[c].key = k), own \notin gone
        PROVE  k \in emulating <=> k \in worn[own]
    BY <2>2 DEF HandInv, EmulationKnown, Applied
  <2>3. QED
    BY <2>1, <2>2 DEF StatusTrue, HandStatus, HandOffNamed
<1>2. HandInv /\ [HandNext]_handVars => HandInv'
  BY HandStep
<1>3. QED
  BY HandInitial, <1>1, <1>2, PTL

LEMMA HandTypes == HandInit /\ [][HandNext]_handVars => []HandTypeOK
<1>1. HandInv => HandTypeOK
  BY DEF HandInv, HandShape
<1>2. QED
  BY HandInitial, HandStep, <1>1, PTL

-----------------------------------------------------------------------------
(* The workspace.                                                            *)

LEMMA FiniteLeases ==
  ASSUME leases \in Seq(LeaseRecords)
  PROVE  /\ IsFiniteSet(DOMAIN leases) /\ IsFiniteSet(TenantActive)
         /\ Cardinality(TenantActive) \in Nat
<1>1. DOMAIN leases = 1..Len(leases) /\ Len(leases) \in Nat
  OBVIOUS
<1>2. IsFiniteSet(1..Len(leases))
  BY <1>1, FS_Interval
<1>3. TenantActive \subseteq DOMAIN leases
  BY DEF TenantActive
<1>4. QED
  BY <1>1, <1>2, <1>3, FS_Subset, FS_CardinalityType

LEMMA FiniteCounted ==
  /\ IsFiniteSet(Counted) /\ Cardinality(Counted) \in Nat
  /\ Cardinality(Operators) \in Nat \ {0} /\ Cardinality(Counted) <= Cardinality(Operators)
<1>1. Counted \subseteq Operators /\ IsFiniteSet(Operators) /\ Operators # {}
  BY WorkspaceAssumption DEF Counted
<1>2. QED
  BY <1>1, FS_Subset, FS_CardinalityType, FS_EmptySet

(* Trials are only added: what was read of them stays.                       *)
LEMMA RatesStay ==
  ASSUME trials \in Seq(BOOLEAN), NEW b \in BOOLEAN, trials' = Append(trials, b), NEW n \in Nat,
         n <= Len(trials)
  PROVE  Passes(n)' <=> Passes(n)
<1>1. SubSeq(Append(trials, b), 1, n) = SubSeq(trials, 1, n)
  OBVIOUS
<1>2. QED
  BY <1>1 DEF Passes, Rate

LEMMA WorkInitial == WorkspaceInit => WorkInv
<1> SUFFICES ASSUME WorkspaceInit
             PROVE  WorkInv
  OBVIOUS
<1> USE DEF WorkspaceInit
<1>1. WorkShape
  <2>1. OffDuty \in DutyRecords
    BY DEF OffDuty, DutyRecords
  <2>2. QED
    BY <2>1 DEF WorkShape
<1>2. \A o \in Operators : duty[o].does = "rest"
  BY DEF OffDuty
<1>3. QuotaKept
  <2>1. TenantActive = {} /\ Counted = {}
    BY <1>2 DEF TenantActive, Counted
  <2>2. Cardinality(TenantActive) = 0 /\ Cardinality(Counted) = 0
    BY <2>1, FS_EmptySet
  <2>3. QED
    BY <2>2, FiniteCounted DEF QuotaKept
<1>4. RecoverySound /\ ClaimsRead /\ VerdictSound
  BY <1>2 DEF RecoverySound, ClaimsRead, VerdictSound
<1>5. QED
  BY <1>1, <1>3, <1>4 DEF WorkInv

(* One operator turns to something else.                                     *)
LEMMA OneDutyChanges ==
  ASSUME WorkShape, NEW o \in Operators, NEW j \in DutyRecords, duty' = [duty EXCEPT ![o] = j]
  PROVE  /\ duty' \in [Operators -> DutyRecords]
         /\ \A p \in Operators : duty'[p] = IF p = o THEN j ELSE duty[p]
         /\ Counted' = IF j.does = "leases" THEN Counted \cup {o} ELSE Counted \ {o}
BY DEF WorkShape, Counted

LEMMA QuotaUntouched ==
  ASSUME QuotaKept, UNCHANGED <<leases, highest>>, Counted' = Counted
  PROVE  QuotaKept'
BY DEF QuotaKept, TenantActive

(* The desk that gives sessions away.                                        *)
LEMMA LeaseDeskSteps ==
  ASSUME WorkInv,
         \/ \E n \in 1..MaxQuota : SetQuota(n)
         \/ \E n \in WorkNodes : MarkNodeLost(n) \/ \E o \in Operators, b \in BOOLEAN : Counts(o, n, b)
         \/ \E o \in Operators : Leases(o)
  PROVE  WorkInv'
<1> USE WorkspaceAssumption
<1>1. /\ WorkShape /\ QuotaKept /\ RecoverySound /\ ClaimsRead /\ VerdictSound
      /\ UNCHANGED <<takeover, approver, trials, verdict>>
  BY DEF WorkInv, SetQuota, MarkNodeLost, Counts, Leases, otherDesks
<1>2. /\ quota \in Nat /\ highest \in Nat /\ quota <= highest /\ duty \in [Operators -> DutyRecords]
      /\ leases \in Seq(LeaseRecords) /\ Cardinality(TenantActive) \in Nat
      /\ Cardinality(Counted) \in Nat /\ Cardinality(Operators) \in Nat \ {0}
      /\ Cardinality(Counted) <= Cardinality(Operators)
      /\ Cardinality(TenantActive) + Cardinality(Counted) <= highest + Cardinality(Operators) - 1
  BY <1>1, FiniteLeases, FiniteCounted DEF WorkShape, QuotaKept
<1>3. ASSUME \A o \in Operators : duty'[o].does \in {"approves", "judges"} => duty'[o] = duty[o]
      PROVE  ClaimsRead' /\ VerdictSound'
  <2>1. ClaimsRead'
    BY <1>1, <1>3 DEF ClaimsRead
  <2>2. \A n \in Nat : Passes(n)' <=> Passes(n)
    BY <1>1 DEF Passes, Rate
  <2>3. VerdictSound'
    BY <1>1, <1>3, <2>2 DEF VerdictSound, WorkShape
  <2>4. QED
    BY <2>1, <2>3
<1>4. ASSUME NEW n \in 1..MaxQuota, SetQuota(n)
      PROVE  WorkInv'
  <2>1. /\ quota' = n /\ highest' = (IF n > highest THEN n ELSE highest)
        /\ UNCHANGED <<lost, leases, duty>> /\ n \in Nat
    BY <1>4 DEF SetQuota
  <2>2. WorkShape'
    BY <1>1, <1>2, <2>1 DEF WorkShape
  <2>3. QuotaKept'
    <3>1. TenantActive' = TenantActive /\ Counted' = Counted /\ highest' >= highest /\ highest' \in Nat
      BY <1>2, <2>1 DEF TenantActive, Counted
    <3>2. QED
      BY <1>2, <3>1 DEF QuotaKept
  <2>4. RecoverySound'
    BY <1>1, <2>1 DEF RecoverySound
  <2>5. QED
    BY <1>3, <2>1, <2>2, <2>3, <2>4 DEF WorkInv
<1>5. ASSUME NEW n \in WorkNodes, MarkNodeLost(n)
      PROVE  WorkInv'
  <2>1. /\ lost' = lost \cup {n} /\ UNCHANGED <<quota, highest, duty>>
        /\ leases' = [i \in DOMAIN leases |->
             IF leases[i].node # n THEN leases[i]
             ELSE [leases[i] EXCEPT !.state = IF leases[i].checkpoint THEN "RECOVERABLE" ELSE "FAILED"]]
    BY <1>5 DEF MarkNodeLost
  <2>2. ASSUME NEW b \in LeaseRecords, NEW st \in {"RECOVERABLE", "FAILED"}
        PROVE  LET m == [b EXCEPT !.state = st] IN
               m \in LeaseRecords /\ m.state = st /\ m.node = b.node /\ m.checkpoint = b.checkpoint
    BY DEF LeaseRecords
  <2>3. ASSUME NEW i \in DOMAIN leases
        PROVE  /\ leases'[i] \in LeaseRecords /\ leases'[i].node = leases[i].node
               /\ leases'[i].checkpoint = leases[i].checkpoint
               /\ leases[i].node # n => leases'[i].state = leases[i].state
               /\ leases[i].node = n =>
                    leases'[i].state = IF leases[i].checkpoint THEN "RECOVERABLE" ELSE "FAILED"
    <3>1. PICK b \in LeaseRecords : b = leases[i]
      BY <1>2
    <3>2. PICK m : m = leases'[i]
      OBVIOUS
    <3>3. m = IF b.node # n THEN b
              ELSE [b EXCEPT !.state = IF b.checkpoint THEN "RECOVERABLE" ELSE "FAILED"]
      BY <2>1, <3>1, <3>2
    <3>4. /\ m \in LeaseRecords /\ m.node = b.node /\ m.checkpoint = b.checkpoint
          /\ b.node # n => m.state = b.state
          /\ b.node = n => m.state = IF b.checkpoint THEN "RECOVERABLE" ELSE "FAILED"
      <4>1. CASE b.node # n
        BY <3>3, <4>1
      <4>2. CASE b.node = n
        <5>1. PICK st \in {"RECOVERABLE", "FAILED"} :
                st = IF b.checkpoint THEN "RECOVERABLE" ELSE "FAILED"
          OBVIOUS
        <5>2. m = [b EXCEPT !.state = st]
          BY <3>3, <4>2, <5>1
        <5>3. QED
          BY <2>2, <4>2, <5>1, <5>2
      <4>3. QED
        BY <4>1, <4>2
    <3>5. QED
      BY <3>1, <3>2, <3>4
  <2>4. DOMAIN leases' = DOMAIN leases /\ leases' \in Seq(LeaseRecords)
    <3>1. DOMAIN leases = 1..Len(leases) /\ Len(leases) \in Nat
      BY <1>2
    <3>2. leases' \in [1..Len(leases) -> LeaseRecords]
      BY <2>1, <2>3, <3>1
    <3>3. QED
      BY <3>1, <3>2, IsASeq
  <2>5. WorkShape'
    BY <1>1, <2>1, <2>4 DEF WorkShape
  <2>6. QuotaKept'
    <3>1. TenantActive' \subseteq TenantActive
      <4>1. ASSUME NEW i \in DOMAIN leases, leases'[i].state = "ACTIVE"
            PROVE  leases[i].state = "ACTIVE"
        BY <2>3, <4>1
      <4>2. QED
        BY <2>4, <4>1 DEF TenantActive
    <3>2. Counted' = Counted
      BY <2>1 DEF Counted
    <3>3. Cardinality(TenantActive') <= Cardinality(TenantActive) /\ Cardinality(TenantActive') \in Nat
      BY <1>2, <3>1, FiniteLeases, FS_Subset, FS_CardinalityType
    <3>4. QED
      BY <1>2, <2>1, <3>2, <3>3 DEF QuotaKept
  <2>7. RecoverySound'
    <3>1. ASSUME NEW i \in DOMAIN leases
          PROVE  /\ leases'[i].state = "RECOVERABLE" <=> leases'[i].checkpoint /\ leases'[i].state # "ACTIVE"
                 /\ leases'[i].state # "ACTIVE" => leases'[i].node \in lost'
      <4>1. CASE leases[i].node # n
        BY <1>1, <2>1, <2>3, <4>1 DEF RecoverySound
      <4>2. CASE leases[i].node = n
        BY <2>1, <2>3, <4>2
      <4>3. QED
        BY <4>1, <4>2
    <3>2. QED
      BY <2>4, <3>1 DEF RecoverySound
  <2>8. QED
    BY <1>3, <2>1, <2>5, <2>6, <2>7 DEF WorkInv
<1>6. ASSUME NEW n \in WorkNodes, NEW o \in Operators, NEW b \in BOOLEAN, Counts(o, n, b)
      PROVE  WorkInv'
  <2>1. PICK j : /\ j = [OffDuty EXCEPT !.does = "leases", !.node = n, !.checkpoint = b]
                 /\ duty' = [duty EXCEPT ![o] = j]
    BY <1>6 DEF Counts
  <2>2. j \in DutyRecords /\ j.does = "leases"
    BY <2>1 DEF OffDuty, DutyRecords
  <2>3. /\ duty[o].does = "rest" /\ Cardinality(TenantActive) < quota
        /\ UNCHANGED <<quota, highest, lost, leases>>
    BY <1>6 DEF Counts
  <2>4. /\ duty' \in [Operators -> DutyRecords]
        /\ \A p \in Operators : duty'[p] = IF p = o THEN j ELSE duty[p]
        /\ Counted' = Counted \cup {o}
    BY <1>1, <2>1, <2>2, OneDutyChanges
  <2>5. WorkShape'
    BY <1>1, <2>3, <2>4 DEF WorkShape
  <2>6. QuotaKept'
    <3>1. Counted' \subseteq Operators /\ TenantActive' = TenantActive
      BY <2>3, <2>4 DEF Counted, TenantActive
    <3>2. Cardinality(Counted') \in Nat /\ Cardinality(Counted') <= Cardinality(Operators)
      BY <3>1, FS_Subset, FS_CardinalityType
    <3>3. QED
      BY <1>2, <2>3, <3>1, <3>2 DEF QuotaKept
  <2>7. RecoverySound'
    BY <1>1, <2>3 DEF RecoverySound
  <2>8. QED
    BY <1>3, <2>2, <2>4, <2>5, <2>6, <2>7 DEF WorkInv
<1>7. ASSUME NEW o \in Operators, Leases(o)
      PROVE  WorkInv'
  <2>1. PICK r \in LeaseRecords : r.state = "ACTIVE" /\ leases' = Append(leases, r)
    BY <1>2, <1>7 DEF Leases, LeaseRecords, DutyRecords
  <2>2. /\ duty[o].does = "leases" /\ duty' = [duty EXCEPT ![o] = OffDuty]
        /\ UNCHANGED <<quota, highest, lost>>
    BY <1>7 DEF Leases
  <2>3. OffDuty \in DutyRecords /\ OffDuty.does = "rest"
    BY DEF OffDuty, DutyRecords
  <2>4. /\ duty' \in [Operators -> DutyRecords]
        /\ \A p \in Operators : duty'[p] = IF p = o THEN OffDuty ELSE duty[p]
        /\ Counted' = Counted \ {o}
    BY <1>1, <2>2, <2>3, OneDutyChanges
  <2>5. /\ leases' \in Seq(LeaseRecords) /\ DOMAIN leases' = DOMAIN leases \cup {Len(leases) + 1}
        /\ \A i \in DOMAIN leases : leases'[i] = leases[i]
        /\ leases'[Len(leases) + 1] = r /\ Len(leases) + 1 \notin DOMAIN leases
    BY <1>2, <2>1
  <2>6. WorkShape'
    BY <1>1, <2>2, <2>4, <2>5 DEF WorkShape
  <2>7. QuotaKept'
    <3>1. TenantActive' = TenantActive \cup {Len(leases) + 1} /\ Len(leases) + 1 \notin TenantActive
      BY <2>1, <2>5 DEF TenantActive
    <3>2. Cardinality(TenantActive') = Cardinality(TenantActive) + 1
      BY <1>2, <3>1, FiniteLeases, FS_AddElement
    <3>3. Cardinality(Counted') = Cardinality(Counted) - 1
      <4>1. o \in Counted
        BY <2>2 DEF Counted
      <4>2. QED
        BY <2>4, <4>1, FiniteCounted, FS_RemoveElement
    <3>4. QED
      BY <1>2, <2>2, <3>2, <3>3 DEF QuotaKept
  <2>8. RecoverySound'
    BY <1>1, <2>1, <2>2, <2>5 DEF RecoverySound
  <2>9. QED
    BY <1>3, <2>3, <2>4, <2>6, <2>7, <2>8 DEF WorkInv
<1>8. QED
  BY <1>4, <1>5, <1>6, <1>7

(* The desks that give no session away.                                      *)
LEMMA OtherDesksKeepLeases ==
  ASSUME WorkInv, UNCHANGED <<quota, highest, lost, leases>>,
         \A o \in Operators : duty'[o].does = "leases" <=> duty[o].does = "leases"
  PROVE  QuotaKept' /\ RecoverySound'
<1>1. Counted' = Counted
  BY DEF Counted
<1>2. QED
  BY <1>1, QuotaUntouched DEF WorkInv, RecoverySound

(* The takeover desk.                                                        *)
LEMMA TakeoverSteps ==
  ASSUME WorkInv,
         \/ RequestTakeover \/ ClaimExpires
         \/ \E o \in Operators : ReadsClaim(o) \/ Approves(o) \/ \E b \in BOOLEAN : ClaimTakeover(o, b)
  PROVE  WorkInv'
<1> USE WorkspaceAssumption
<1>1. /\ WorkShape /\ ClaimsRead /\ VerdictSound
      /\ UNCHANGED <<quota, highest, lost, leases, trials, verdict>>
  BY DEF WorkInv, RequestTakeover, ClaimExpires, ReadsClaim, Approves, ClaimTakeover, leaseDesk
<1>2. /\ duty \in [Operators -> DutyRecords]
      /\ takeover \in [state : {"NONE", "WAITING", "CLAIMED", "APPROVED"},
                       claimant : Operators \cup {NoOperator}, expired : BOOLEAN]
      /\ approver \in [who : Operators \cup {NoOperator}, overtaken : BOOLEAN]
  BY <1>1 DEF WorkShape
<1>3. OffDuty \in DutyRecords /\ OffDuty.does = "rest"
  BY DEF OffDuty, DutyRecords
<1>4. \A n \in Nat : Passes(n)' <=> Passes(n)
  BY <1>1 DEF Passes, Rate
<1>5. ASSUME takeover' \in [state : {"NONE", "WAITING", "CLAIMED", "APPROVED"},
                            claimant : Operators \cup {NoOperator}, expired : BOOLEAN],
             approver' \in [who : Operators \cup {NoOperator}, overtaken : BOOLEAN],
             duty' \in [Operators -> DutyRecords],
             \A o \in Operators : /\ duty'[o].does = "leases" <=> duty[o].does = "leases"
                                  /\ duty'[o].does = "judges" => duty'[o] = duty[o],
             ClaimsRead'
      PROVE  WorkInv'
  <2>1. WorkShape'
    BY <1>1, <1>5 DEF WorkShape
  <2>2. QuotaKept' /\ RecoverySound'
    BY <1>1, <1>5, OtherDesksKeepLeases
  <2>3. VerdictSound'
    BY <1>1, <1>4, <1>5 DEF VerdictSound, WorkShape
  <2>4. QED
    BY <1>5, <2>1, <2>2, <2>3 DEF WorkInv
<1>6. CASE RequestTakeover
  <2>1. /\ takeover' = [takeover EXCEPT !.state = "WAITING"] /\ UNCHANGED <<approver, duty>>
    BY <1>6 DEF RequestTakeover
  <2>2. ClaimsRead'
    BY <1>1, <1>2, <2>1 DEF ClaimsRead
  <2>3. QED
    BY <1>2, <1>5, <2>1, <2>2
<1>7. CASE ClaimExpires
  <2>1. /\ takeover' = [takeover EXCEPT !.expired = TRUE] /\ UNCHANGED <<approver, duty>>
    BY <1>7 DEF ClaimExpires
  <2>2. ClaimsRead'
    BY <1>1, <1>2, <2>1 DEF ClaimsRead
  <2>3. QED
    BY <1>2, <1>5, <2>1, <2>2
<1>8. ASSUME NEW o \in Operators, ReadsClaim(o)
      PROVE  WorkInv'
  <2>1. PICK j : /\ j = [OffDuty EXCEPT !.does = "approves"] /\ duty' = [duty EXCEPT ![o] = j]
    BY <1>8 DEF ReadsClaim
  <2>2. j \in DutyRecords /\ j.does = "approves"
    BY <2>1 DEF OffDuty, DutyRecords
  <2>3. /\ duty[o].does = "rest" /\ takeover.claimant = o /\ UNCHANGED <<takeover, approver>>
    BY <1>8 DEF ReadsClaim, MayApprove
  <2>4. /\ duty' \in [Operators -> DutyRecords]
        /\ \A p \in Operators : duty'[p] = IF p = o THEN j ELSE duty[p]
    BY <1>1, <2>1, <2>2, OneDutyChanges
  <2>5. ClaimsRead'
    BY <1>1, <2>3, <2>4 DEF ClaimsRead
  <2>6. QED
    BY <1>2, <1>5, <2>2, <2>3, <2>4, <2>5
<1>9. ASSUME NEW o \in Operators, Approves(o)
      PROVE  WorkInv'
  <2>1. /\ duty[o].does = "approves" /\ duty' = [duty EXCEPT ![o] = OffDuty]
        /\ takeover' = [takeover EXCEPT !.state = "APPROVED"]
        /\ approver' = [who |-> o, overtaken |-> duty[o].read = 1]
    BY <1>9 DEF Approves
  <2>2. /\ duty' \in [Operators -> DutyRecords]
        /\ \A p \in Operators : duty'[p] = IF p = o THEN OffDuty ELSE duty[p]
    BY <1>1, <1>3, <2>1, OneDutyChanges
  <2>3. /\ takeover' \in [state : {"NONE", "WAITING", "CLAIMED", "APPROVED"},
                          claimant : Operators \cup {NoOperator}, expired : BOOLEAN]
        /\ takeover'.claimant = takeover.claimant
    BY <1>2, <2>1
  <2>4. /\ approver' \in [who : Operators \cup {NoOperator}, overtaken : BOOLEAN]
        /\ approver'.who = o /\ (approver'.overtaken <=> duty[o].read = 1)
    <3>1. PICK b \in BOOLEAN : b <=> duty[o].read = 1
      OBVIOUS
    <3>2. (duty[o].read = 1) \in BOOLEAN
      OBVIOUS
    <3>3. approver' = [who |-> o, overtaken |-> b]
      BY <2>1, <3>1, <3>2
    <3>4. QED
      BY <3>1, <3>3
  <2>5. ClaimsRead'
    BY <1>1, <1>3, <2>1, <2>2, <2>3, <2>4 DEF ClaimsRead
  <2>6. QED
    BY <1>3, <1>5, <2>1, <2>2, <2>3, <2>4, <2>5
<1>10. ASSUME NEW o \in Operators, NEW b \in BOOLEAN, ClaimTakeover(o, b)
       PROVE  WorkInv'
  <2>1. /\ takeover' = [state |-> "CLAIMED", claimant |-> o, expired |-> b]
        /\ approver' = [who |-> NoOperator, overtaken |-> FALSE]
        /\ duty' = [p \in Operators |->
             IF duty[p].does = "approves" /\ o # p THEN [duty[p] EXCEPT !.read = 1] ELSE duty[p]]
    BY <1>10 DEF ClaimTakeover
  <2>2. ASSUME NEW p \in Operators
        PROVE  /\ duty'[p] \in DutyRecords /\ duty'[p].does = duty[p].does
               /\ duty[p].does = "judges" => duty'[p] = duty[p]
               /\ duty[p].does = "approves" /\ o # p => duty'[p].read = 1
    <3>1. PICK a, m : a = duty[p] /\ m = duty'[p] /\ a \in DutyRecords
      BY <1>2
    <3>2. m = IF a.does = "approves" /\ o # p THEN [a EXCEPT !.read = 1] ELSE a
      BY <2>1, <3>1
    <3>3. /\ m \in DutyRecords /\ m.does = a.does /\ (a.does = "judges" => m = a)
          /\ a.does = "approves" /\ o # p => m.read = 1
      BY <3>1, <3>2 DEF DutyRecords
    <3>4. QED
      BY <3>1, <3>3
  <2>3. duty' \in [Operators -> DutyRecords]
    BY <2>1, <2>2
  <2>4. ClaimsRead'
    BY <2>1, <2>2 DEF ClaimsRead
  <2>5. QED
    BY <1>5, <2>1, <2>2, <2>3, <2>4
<1>11. QED
  BY <1>6, <1>7, <1>8, <1>9, <1>10

(* The evaluation desk.                                                      *)
LEMMA EvaluationSteps ==
  ASSUME WorkInv,
         \/ \E b \in BOOLEAN : RecordTrial(b)
         \/ \E o \in Operators : ReadsTrials(o) \/ Judges(o)
  PROVE  WorkInv'
<1> USE WorkspaceAssumption
<1>1. /\ WorkShape /\ ClaimsRead /\ VerdictSound
      /\ UNCHANGED <<quota, highest, lost, leases, takeover, approver>>
  BY DEF WorkInv, RecordTrial, ReadsTrials, Judges, leaseDesk
<1>2. /\ trials \in Seq(BOOLEAN) /\ Len(trials) \in Nat /\ duty \in [Operators -> DutyRecords]
      /\ verdict \in [state : {"RUNNING", "PASSED", "FAILED"}, of : Nat]
  BY <1>1 DEF WorkShape
<1>3. ASSUME trials' \in Seq(BOOLEAN), duty' \in [Operators -> DutyRecords],
             verdict' \in [state : {"RUNNING", "PASSED", "FAILED"}, of : Nat],
             \A o \in Operators : /\ duty'[o].does = "leases" <=> duty[o].does = "leases"
                                  /\ duty'[o].does = "approves" => duty'[o] = duty[o],
             VerdictSound'
      PROVE  WorkInv'
  <2>1. WorkShape'
    BY <1>1, <1>3 DEF WorkShape
  <2>2. QuotaKept' /\ RecoverySound'
    BY <1>1, <1>3, OtherDesksKeepLeases
  <2>3. ClaimsRead'
    BY <1>1, <1>3 DEF ClaimsRead
  <2>4. QED
    BY <1>3, <2>1, <2>2, <2>3 DEF WorkInv
<1>4. ASSUME NEW b \in BOOLEAN, RecordTrial(b)
      PROVE  WorkInv'
  <2>1. trials' = Append(trials, b) /\ UNCHANGED <<verdict, duty>>
    BY <1>4 DEF RecordTrial
  <2>2. trials' \in Seq(BOOLEAN) /\ Len(trials') = Len(trials) + 1
    BY <1>2, <2>1
  <2>3. \A n \in Nat : n <= Len(trials) => (Passes(n)' <=> Passes(n))
    BY <1>2, <2>1, RatesStay
  <2>4. VerdictSound'
    <3>1. \A o \in Operators : duty[o].read \in Nat
      BY <1>2 DEF DutyRecords
    <3>2. verdict.of \in Nat
      BY <1>2
    <3>3. QED
      BY <1>1, <1>2, <2>1, <2>2, <2>3, <3>1, <3>2 DEF VerdictSound
  <2>5. QED
    BY <1>2, <1>3, <2>1, <2>2, <2>4
<1>5. ASSUME NEW o \in Operators, ReadsTrials(o)
      PROVE  WorkInv'
  <2>1. PICK j : /\ j = [OffDuty EXCEPT !.does = "judges", !.read = Len(trials)]
                 /\ duty' = [duty EXCEPT ![o] = j]
    BY <1>5 DEF ReadsTrials
  <2>2. j \in DutyRecords /\ j.does = "judges" /\ j.read = Len(trials)
    BY <1>2, <2>1 DEF OffDuty, DutyRecords
  <2>3. duty[o].does = "rest" /\ UNCHANGED <<trials, verdict>>
    BY <1>5 DEF ReadsTrials
  <2>4. /\ duty' \in [Operators -> DutyRecords]
        /\ \A p \in Operators : duty'[p] = IF p = o THEN j ELSE duty[p]
    BY <1>1, <2>1, <2>2, OneDutyChanges
  <2>5. VerdictSound'
    <3>1. \A n \in Nat : Passes(n)' <=> Passes(n)
      BY <2>3 DEF Passes, Rate
    <3>2. QED
      BY <1>1, <1>2, <2>2, <2>3, <2>4, <3>1 DEF VerdictSound
  <2>6. QED
    BY <1>2, <1>3, <2>2, <2>3, <2>4, <2>5
<1>6. ASSUME NEW o \in Operators, Judges(o)
      PROVE  WorkInv'
  <2>1. PICK n \in Nat : n = duty[o].read
    BY <1>2 DEF DutyRecords
  <2>2. /\ duty[o].does = "judges" /\ duty' = [duty EXCEPT ![o] = OffDuty] /\ UNCHANGED trials
        /\ verdict' = [state |-> IF Passes(n) THEN "PASSED" ELSE "FAILED", of |-> n]
    BY <1>6, <2>1 DEF Judges
  <2>3. OffDuty \in DutyRecords /\ OffDuty.does = "rest"
    BY DEF OffDuty, DutyRecords
  <2>4. /\ duty' \in [Operators -> DutyRecords]
        /\ \A p \in Operators : duty'[p] = IF p = o THEN OffDuty ELSE duty[p]
    BY <1>1, <2>2, <2>3, OneDutyChanges
  <2>5. n <= Len(trials)
    BY <1>1, <2>1, <2>2 DEF VerdictSound
  <2>6. /\ verdict' \in [state : {"RUNNING", "PASSED", "FAILED"}, of : Nat]
        /\ verdict'.of = n /\ (verdict'.state = "PASSED" <=> Passes(n))
    BY <2>2
  <2>7. VerdictSound'
    <3>1. Passes(n)' <=> Passes(n)
      BY <2>2 DEF Passes, Rate
    <3>2. Passes(verdict.of)' <=> Passes(n)'
      BY <2>6 DEF Passes, Rate
    <3>3. \A p \in Operators : duty'[p].does = "judges" => duty'[p].read <= Len(trials)
      BY <1>1, <2>3, <2>4 DEF VerdictSound
    <3>4. QED
      BY <2>2, <2>5, <2>6, <3>1, <3>2, <3>3 DEF VerdictSound
  <2>8. QED
    BY <1>2, <1>3, <2>2, <2>3, <2>4, <2>6, <2>7
<1>7. QED
  BY <1>4, <1>5, <1>6

LEMMA WorkStep == WorkInv /\ [WorkspaceNext]_workspaceVars => WorkInv'
<1> SUFFICES ASSUME WorkInv, [WorkspaceNext]_workspaceVars
             PROVE  WorkInv'
  OBVIOUS
<1>1. CASE UNCHANGED workspaceVars
  <2>1. UNCHANGED <<quota, highest, lost, leases, takeover, approver, trials, verdict, duty>>
    BY <1>1 DEF workspaceVars
  <2>2. QuotaKept' /\ RecoverySound'
    BY <2>1, OtherDesksKeepLeases
  <2>3. WorkShape' /\ ClaimsRead' /\ VerdictSound'
    BY <2>1 DEF WorkInv, WorkShape, ClaimsRead, VerdictSound, Passes, Rate
  <2>4. QED
    BY <2>2, <2>3 DEF WorkInv
<1>2. QED
  BY <1>1, LeaseDeskSteps, TakeoverSteps, EvaluationSteps DEF WorkspaceNext

(* With any number of processes on one database (lease_session,              *)
(* mark_node_lost, claim_takeover, approve_takeover and evaluate of          *)
(* enterprise_workspace.py), a tenant has at most as many sessions over its  *)
(* highest quota as there are other operators, recovery is offered what can  *)
(* be recovered, nobody approves a takeover that is not his but one who was  *)
(* overtaken, and a verdict fits the trials it was given on.                 *)
THEOREM WorkspaceIsSound == WorkspaceInit /\ [][WorkspaceNext]_workspaceVars => []WorkspaceHolds
<1>1. WorkInv => WorkspaceHolds
  <2> SUFFICES ASSUME WorkInv
               PROVE  WorkspaceHolds
    OBVIOUS
  <2>1. WorkShape /\ QuotaKept /\ RecoverySound /\ ClaimsRead /\ VerdictSound
    BY DEF WorkInv
  <2>2. Cardinality(TenantActive) <= highest + Cardinality(Operators) - 1
    <3>1. /\ Cardinality(TenantActive) \in Nat /\ Cardinality(Counted) \in Nat
          /\ Cardinality(Operators) \in Nat /\ highest \in Nat
      BY <2>1, FiniteLeases, FiniteCounted DEF WorkShape
    <3>2. QED
      BY <2>1, <3>1 DEF QuotaKept
  <2>3. \A i \in DOMAIN leases : /\ i \in RecoverySessions <=> leases[i].checkpoint /\ leases[i].state # "ACTIVE"
                                 /\ leases[i].state # "ACTIVE" => leases[i].node \in lost
    BY <2>1 DEF RecoverySound, RecoverySessions
  <2>4. QED
    BY <2>1, <2>2, <2>3 DEF WorkspaceHolds, ClaimsRead, VerdictSound
<1>2. WorkInv /\ [WorkspaceNext]_workspaceVars => WorkInv'
  BY WorkStep
<1>3. QED
  BY WorkInitial, <1>1, <1>2, PTL

(* The quotas that are set are within the bound, the nodes known.            *)
WorkLimits == highest <= MaxQuota /\ lost \subseteq WorkNodes

LEMMA WorkLimitsKept ==
  /\ WorkspaceInit => WorkLimits
  /\ WorkLimits /\ [WorkspaceNext]_workspaceVars => WorkLimits'
<1> USE WorkspaceAssumption DEF WorkLimits
<1>1. WorkspaceInit => WorkLimits
  BY DEF WorkspaceInit
<1>2. ASSUME WorkLimits, NEW n \in 1..MaxQuota, SetQuota(n)
      PROVE  WorkLimits'
  BY <1>2 DEF SetQuota
<1>3. ASSUME WorkLimits, NEW n \in WorkNodes, MarkNodeLost(n)
      PROVE  WorkLimits'
  BY <1>3 DEF MarkNodeLost
<1>4. ASSUME WorkLimits, NEW o \in Operators, NEW n, NEW b, Counts(o, n, b) \/ Leases(o)
      PROVE  WorkLimits'
  BY <1>4 DEF Counts, Leases
<1>5. ASSUME WorkLimits, UNCHANGED leaseDesk
      PROVE  WorkLimits'
  BY <1>5 DEF leaseDesk
<1>6. ASSUME \/ RequestTakeover \/ ClaimExpires
             \/ \E o \in Operators : ReadsClaim(o) \/ Approves(o) \/ \E b \in BOOLEAN : ClaimTakeover(o, b)
      PROVE  UNCHANGED leaseDesk
  BY <1>6 DEF RequestTakeover, ClaimExpires, ReadsClaim, Approves, ClaimTakeover
<1>7. ASSUME \/ \E b \in BOOLEAN : RecordTrial(b)
             \/ \E o \in Operators : ReadsTrials(o) \/ Judges(o)
      PROVE  UNCHANGED leaseDesk
  BY <1>7 DEF RecordTrial, ReadsTrials, Judges
<1>8. ASSUME UNCHANGED workspaceVars
      PROVE  UNCHANGED leaseDesk
  BY <1>8 DEF workspaceVars, leaseDesk
<1>9. QED
  BY <1>1, <1>2, <1>3, <1>4, <1>5, <1>6, <1>7, <1>8 DEF WorkspaceNext

LEMMA WorkspaceTyped == WorkInv /\ WorkLimits => WorkspaceTypeOK
<1> SUFFICES ASSUME WorkInv, WorkLimits
             PROVE  WorkspaceTypeOK
  OBVIOUS
<1>1. WorkShape
  BY DEF WorkInv
<1>2. \A i \in DOMAIN leases : leases[i] \in LeaseRecords
  BY <1>1 DEF WorkShape
<1>3. quota \in 0..highest /\ highest \in 0..MaxQuota /\ lost \subseteq WorkNodes
  BY <1>1, WorkspaceAssumption DEF WorkShape, WorkLimits
<1>4. QED
  BY <1>1, <1>2, <1>3 DEF WorkShape, WorkspaceTypeOK, LeaseRecords

LEMMA WorkTypes == WorkspaceInit /\ [][WorkspaceNext]_workspaceVars => []WorkspaceTypeOK
BY WorkInitial, WorkStep, WorkLimitsKept, WorkspaceTyped, PTL

-----------------------------------------------------------------------------
(* Downloads.                                                                *)

LEMMA LoadsInitial == LoadsInit => LoadInv
<1> SUFFICES ASSUME LoadsInit
             PROVE  LoadInv
  OBVIOUS
<1> USE DownloadsAssumption DEF LoadsInit
<1>1. NoLoad \in LoadRecords /\ NoLoad.does = "rest" /\ NoLoad.path = NoLoader
  BY DEF NoLoad, LoadRecords
<1>2. LoadShape
  BY <1>1 DEF LoadShape, LoadsTypeOK
<1>3. Working = {}
  BY <1>1 DEF Working
<1>4. QED
  BY <1>1, <1>2, <1>3 DEF LoadInv, OverlapsNoted, DownloadsWhole

LEMMA OneLoadChanges ==
  ASSUME LoadInv, NEW c \in Loaders, NEW j \in LoadRecords, load' = [load EXCEPT ![c] = j]
  PROVE  /\ load' \in [Loaders -> LoadRecords]
         /\ \A d \in Loaders : load'[d] = IF d = c THEN j ELSE load[d]
         /\ Working' = IF j.does = "rest" THEN Working \ {c} ELSE Working \cup {c}
BY DEF LoadInv, LoadShape, Working

(* A caller that is at work ends, or goes on.                                *)
LEMMA LoadGoesOn ==
  ASSUME LoadInv, NEW c \in Working, NEW j \in LoadRecords, load' = [load EXCEPT ![c] = j],
         UNCHANGED <<others, asked>>, target' \in {target, c},
         j.path \in {c, NoLoader} \cup others[c],
         dirs' = IF j.does = "rest" THEN dirs \ {c} ELSE dirs,
         \A f \in fetched' :
           /\ f \in fetched \/ (f.of = c /\ f.dir \in dirs /\ f.done = FALSE
                               /\ f \in [of : Loaders \cup {NoLoader}, dir : Loaders, done : BOOLEAN])
           /\ j.does = "rest" => f.dir # c
  PROVE  LoadInv'
<1> USE DownloadsAssumption
<1>1. /\ LoadsTypeOK /\ LoadShape /\ OverlapsNoted /\ DownloadsWhole /\ c \in Loaders
      /\ dirs = Working
  BY DEF LoadInv, LoadShape, DownloadsWhole, Working
<1>2. /\ load' \in [Loaders -> LoadRecords]
      /\ \A d \in Loaders : load'[d] = IF d = c THEN j ELSE load[d]
      /\ Working' = IF j.does = "rest" THEN Working \ {c} ELSE Working
  <2>1. Working \cup {c} = Working
    OBVIOUS
  <2>2. /\ load' \in [Loaders -> LoadRecords]
        /\ \A d \in Loaders : load'[d] = IF d = c THEN j ELSE load[d]
        /\ Working' = IF j.does = "rest" THEN Working \ {c} ELSE Working \cup {c}
    BY <1>1, OneLoadChanges
  <2>3. QED
    BY <2>1, <2>2
<1>3. dirs' = Working' /\ dirs' \subseteq Loaders
  BY <1>1, <1>2 DEF Working
<1>4. LoadShape'
  <2>1. fetched' \subseteq [of : Loaders \cup {NoLoader}, dir : Loaders, done : BOOLEAN]
    BY <1>1 DEF LoadsTypeOK
  <2>2. \A d \in Loaders : load'[d].path \in Loaders \cup {NoLoader}
    BY <1>2 DEF LoadRecords
  <2>3. LoadsTypeOK'
    BY <1>1, <1>3, <2>1, <2>2 DEF LoadsTypeOK
  <2>4. QED
    BY <1>1, <1>2, <2>3 DEF LoadShape
<1>5. OverlapsNoted'
  BY <1>1, <1>2 DEF OverlapsNoted
<1>6. DownloadsWhole'
  <2>1. \A d \in Loaders : load'[d].path \in {d, NoLoader} \cup others'[d]
    BY <1>1, <1>2 DEF DownloadsWhole
  <2>2. ASSUME NEW f \in fetched'
        PROVE  f.of \in {f.dir, NoLoader} \cup others'[f.dir] /\ f.dir \in dirs'
    <3>1. CASE f \in fetched
      BY <1>1, <3>1 DEF DownloadsWhole
    <3>2. CASE f \notin fetched
      BY <1>1, <3>2 DEF OverlapsNoted
    <3>3. QED
      BY <3>1, <3>2
  <2>3. QED
    BY <1>3, <2>1, <2>2 DEF DownloadsWhole
<1>7. QED
  BY <1>4, <1>5, <1>6 DEF LoadInv

(* One caller more, with a directory of its own.                             *)
LEMMA LoadBegins ==
  ASSUME LoadInv, NEW c \in Loaders, AskDownload(c)
  PROVE  LoadInv'
<1> USE DownloadsAssumption
<1>1. /\ LoadsTypeOK /\ LoadShape /\ OverlapsNoted /\ DownloadsWhole /\ c \notin Working
      /\ dirs = Working /\ others \in [Loaders -> SUBSET Loaders] /\ Working \subseteq Loaders
  BY DEF LoadInv, LoadShape, DownloadsWhole, Working, AskDownload
<1>2. PICK j : j = [NoLoad EXCEPT !.does = "sets"] /\ load' = [load EXCEPT ![c] = j]
  BY DEF AskDownload
<1>3. j \in LoadRecords /\ j.does = "sets" /\ j.path = NoLoader
  BY <1>2 DEF NoLoad, LoadRecords
<1>4. /\ load' \in [Loaders -> LoadRecords]
      /\ \A d \in Loaders : load'[d] = IF d = c THEN j ELSE load[d]
      /\ Working' = Working \cup {c}
  BY <1>2, <1>3, OneLoadChanges
<1>5. /\ dirs' = dirs \cup {c} /\ UNCHANGED <<target, fetched>> /\ asked' \in 0..MaxLoads
      /\ others' = [d \in Loaders |-> IF d = c THEN Working
                                      ELSE IF d \in Working THEN others[d] \cup {c} ELSE others[d]]
  BY <1>1 DEF AskDownload, LoadsTypeOK
<1>6. /\ others' \in [Loaders -> SUBSET Loaders] /\ others'[c] = Working
      /\ \A d \in Loaders \ {c} : others[d] \subseteq others'[d]
      /\ \A d \in Working : c \in others'[d]
  BY <1>1, <1>5
<1>7. LoadShape'
  <2>1. \A d \in Loaders : load'[d].path \in Loaders \cup {NoLoader}
    BY <1>4 DEF LoadRecords
  <2>2. LoadsTypeOK'
    BY <1>1, <1>5, <2>1 DEF LoadsTypeOK
  <2>3. QED
    BY <1>4, <1>6, <2>2 DEF LoadShape
<1>8. OverlapsNoted'
  BY <1>1, <1>4, <1>6 DEF OverlapsNoted
<1>9. DownloadsWhole'
  <2>1. \A d \in Loaders : load'[d].path \in {d, NoLoader} \cup others'[d]
    BY <1>1, <1>3, <1>4, <1>6 DEF DownloadsWhole
  <2>2. ASSUME NEW f \in fetched
        PROVE  f.of \in {f.dir, NoLoader} \cup others'[f.dir] /\ f.dir \in dirs'
    <3>1. f.dir \in Working /\ f.of \in {f.dir, NoLoader} \cup others[f.dir]
      BY <1>1 DEF DownloadsWhole
    <3>2. QED
      BY <1>1, <1>5, <1>6, <3>1
  <2>3. QED
    BY <1>1, <1>4, <1>5, <2>1, <2>2 DEF DownloadsWhole
<1>10. QED
  BY <1>7, <1>8, <1>9 DEF LoadInv

(* The steps of a caller that is at work.                                    *)
LEMMA LoadSteps ==
  ASSUME LoadInv, NEW c \in Loaders,
         SetsBehavior(c) \/ FollowsLink(c) \/ Polls(c) \/ LoadTimesOut(c) \/ StoresFile(c) \/ McpStores(c)
  PROVE  LoadInv'
<1> USE DownloadsAssumption
<1>1. PICK a \in LoadRecords : a = load[c] /\ a.path \in {c, NoLoader} \cup others[c]
  BY DEF LoadInv, LoadShape, DownloadsWhole
<1>2. /\ c \in Working /\ UNCHANGED <<others, asked>>
  BY DEF SetsBehavior, FollowsLink, Polls, LoadTimesOut, StoresFile, McpStores, Working
<1>3. /\ LoadsTypeOK /\ dirs = Working /\ \A f \in fetched : f.dir \in dirs
      /\ \A f \in fetched : f.of \in {f.dir, NoLoader} \cup others[f.dir]
  BY DEF LoadInv, LoadShape, DownloadsWhole
<1>4. ASSUME NEW told \in {"none", "error", "timeout", "ok"},
             NEW path \in {c, NoLoader} \cup others[c], path \in Loaders \cup {NoLoader},
             LoadEnds(c, told, path), UNCHANGED target
      PROVE  LoadInv'
  <2>1. PICK j : j = [NoLoad EXCEPT !.told = told, !.path = path] /\ load' = [load EXCEPT ![c] = j]
    BY <1>4 DEF LoadEnds
  <2>2. j \in LoadRecords /\ j.does = "rest" /\ j.path = path
    BY <1>4, <2>1 DEF NoLoad, LoadRecords
  <2>3. dirs' = dirs \ {c} /\ fetched' = {f \in fetched : f.dir # c}
    BY <1>4 DEF LoadEnds
  <2>4. QED
    BY <1>2, <1>4, <2>1, <2>2, <2>3, LoadGoesOn
<1>5. CASE SetsBehavior(c)
  <2>1. CASE target' = c /\ load' = [load EXCEPT ![c].does = "opens"] /\ UNCHANGED <<dirs, fetched>>
    <3>1. PICK j : j = [a EXCEPT !.does = "opens"] /\ load' = [load EXCEPT ![c] = j]
      BY <1>1, <2>1
    <3>2. j \in LoadRecords /\ j.does = "opens" /\ j.path = a.path
      BY <1>1, <3>1 DEF LoadRecords
    <3>3. QED
      BY <1>1, <1>2, <2>1, <3>1, <3>2, LoadGoesOn
  <2>2. CASE LoadEnds(c, "error", NoLoader) /\ UNCHANGED target
    BY <1>4, <2>2
  <2>3. QED
    BY <1>5, <2>1, <2>2 DEF SetsBehavior
<1>6. CASE FollowsLink(c)
  <2>1. PICK new \in SUBSET [of : {c}, dir : dirs, done : {FALSE}] :
          /\ UNCHANGED target
          /\ \/ /\ dirs' = dirs \ {c}
                /\ fetched' = {f \in fetched \cup new : f.dir # c}
                /\ load' = [load EXCEPT ![c] = [NoLoad EXCEPT !.told = "error"]]
             \/ /\ fetched' = fetched \cup new
                /\ load' = [load EXCEPT ![c].does = "polls"]
                /\ UNCHANGED dirs
    <3>1. PICK begins \in BOOLEAN, fails \in BOOLEAN :
            LET new == IF begins /\ target \in dirs
                       THEN {[of |-> c, dir |-> target, done |-> FALSE]} ELSE {}
            IN IF fails
               THEN /\ dirs' = dirs \ {c}
                    /\ fetched' = {f \in fetched \cup new : f.dir # c}
                    /\ load' = [load EXCEPT ![c] = [NoLoad EXCEPT !.told = "error"]]
               ELSE /\ fetched' = fetched \cup new
                    /\ load' = [load EXCEPT ![c].does = "polls"]
                    /\ UNCHANGED dirs
      BY <1>6 DEF FollowsLink
    <3>2. PICK new : new = IF begins /\ target \in dirs
                           THEN {[of |-> c, dir |-> target, done |-> FALSE]} ELSE {}
      OBVIOUS
    <3>3. new \in SUBSET [of : {c}, dir : dirs, done : {FALSE}]
      BY <3>2
    <3>4. UNCHANGED target
      BY <1>6 DEF FollowsLink
    <3>5. QED
      BY <3>1, <3>2, <3>3, <3>4
  <2>2. dirs \subseteq Loaders /\ c \in Loaders
    BY <1>3 DEF LoadsTypeOK
  <2>3. \A f \in new : /\ f.of = c /\ f.dir \in dirs /\ f.done = FALSE
                       /\ f \in [of : Loaders \cup {NoLoader}, dir : Loaders, done : BOOLEAN]
    BY <2>1, <2>2
  <2>4. PICK j \in LoadRecords :
          /\ load' = [load EXCEPT ![c] = j] /\ j.path \in {c, NoLoader} \cup others[c]
          /\ \/ /\ j.does = "rest" /\ dirs' = dirs \ {c}
                /\ fetched' = {f \in fetched \cup new : f.dir # c}
             \/ j.does = "polls" /\ fetched' = fetched \cup new /\ UNCHANGED dirs
    <3>1. CASE load' = [load EXCEPT ![c] = [NoLoad EXCEPT !.told = "error"]]
               /\ dirs' = dirs \ {c} /\ fetched' = {f \in fetched \cup new : f.dir # c}
      <4>1. PICK j : j = [NoLoad EXCEPT !.told = "error"]
        OBVIOUS
      <4>2. j \in LoadRecords /\ j.does = "rest" /\ j.path = NoLoader
        BY <4>1 DEF NoLoad, LoadRecords
      <4>3. QED
        BY <3>1, <4>1, <4>2
    <3>2. CASE load' = [load EXCEPT ![c].does = "polls"]
               /\ fetched' = fetched \cup new /\ UNCHANGED dirs
      <4>1. PICK j : j = [a EXCEPT !.does = "polls"] /\ load' = [load EXCEPT ![c] = j]
        BY <1>1, <3>2
      <4>2. j \in LoadRecords /\ j.does = "polls" /\ j.path = a.path
        BY <1>1, <4>1 DEF LoadRecords
      <4>3. QED
        BY <1>1, <3>2, <4>1, <4>2
    <3>3. QED
      BY <2>1, <3>1, <3>2
  <2>5. \A f \in fetched' : f \in fetched \cup new /\ (j.does = "rest" => f.dir # c)
    BY <2>4
  <2>6. QED
    BY <1>2, <2>1, <2>3, <2>4, <2>5, LoadGoesOn
<1>7. CASE Polls(c)
  <2>1. PICK f \in Appeared(c) :
          load' = [load EXCEPT ![c] = [NoLoad EXCEPT !.does = "stores", !.path = f.of]]
    BY <1>7 DEF Polls
  <2>2. PICK path \in Loaders \cup {NoLoader} : path = f.of /\ path \in {c, NoLoader} \cup others[c]
    BY <1>3, <2>1 DEF Appeared, LoadsTypeOK
  <2>3. PICK j : j = [NoLoad EXCEPT !.does = "stores", !.path = path] /\ load' = [load EXCEPT ![c] = j]
    BY <2>1, <2>2
  <2>4. j \in LoadRecords /\ j.does = "stores" /\ j.path = path
    BY <2>2, <2>3 DEF NoLoad, LoadRecords
  <2>5. QED
    BY <1>2, <1>7, <2>2, <2>3, <2>4, LoadGoesOn DEF Polls
<1>8. CASE LoadTimesOut(c) \/ McpStores(c)
  BY <1>4, <1>8 DEF LoadTimesOut, McpStores
<1>9. CASE StoresFile(c)
  <2>1. LoadEnds(c, "ok", a.path) /\ UNCHANGED target
    BY <1>1, <1>9 DEF StoresFile
  <2>2. a.path \in Loaders \cup {NoLoader}
    BY <1>1 DEF LoadRecords
  <2>3. QED
    BY <1>1, <1>4, <2>1, <2>2
<1>10. QED
  BY <1>5, <1>6, <1>7, <1>8, <1>9

(* Pages download by themselves, and files arrive.                           *)
LEMMA FileSteps ==
  ASSUME LoadInv, PageDownloads \/ \E f \in fetched : Arrives(f)
  PROVE  LoadInv'
<1> USE DownloadsAssumption
<1>1. /\ LoadsTypeOK /\ LoadShape /\ OverlapsNoted /\ DownloadsWhole
      /\ UNCHANGED <<target, dirs, load, others>> /\ dirs \subseteq Loaders
  BY DEF LoadInv, LoadShape, LoadsTypeOK, PageDownloads, Arrives
<1>2. asked' \in 0..MaxLoads
  BY <1>1 DEF LoadsTypeOK, PageDownloads, Arrives
<1>3. \A g \in fetched' :
        /\ g \in [of : Loaders \cup {NoLoader}, dir : Loaders, done : BOOLEAN] /\ g.dir \in dirs
        /\ g.of \in {g.dir, NoLoader} \cup others[g.dir]
  <2>1. CASE PageDownloads
    <3>1. PICK h : /\ h = [of |-> NoLoader, dir |-> target, done |-> FALSE]
                   /\ fetched' = fetched \cup {h} /\ target \in dirs
      BY <2>1 DEF PageDownloads
    <3>2. /\ h \in [of : Loaders \cup {NoLoader}, dir : Loaders, done : BOOLEAN]
          /\ h.of = NoLoader /\ h.dir = target
      BY <1>1, <3>1
    <3>3. QED
      BY <1>1, <3>1, <3>2 DEF LoadsTypeOK, DownloadsWhole
  <2>2. ASSUME NEW f \in fetched, Arrives(f)
        PROVE  \A g \in fetched' :
                 /\ g \in [of : Loaders \cup {NoLoader}, dir : Loaders, done : BOOLEAN] /\ g.dir \in dirs
                 /\ g.of \in {g.dir, NoLoader} \cup others[g.dir]
    <3>1. PICK h : h = [f EXCEPT !.done = TRUE]
      OBVIOUS
    <3>2. f \in [of : Loaders \cup {NoLoader}, dir : Loaders, done : BOOLEAN]
      BY <1>1 DEF LoadsTypeOK
    <3>3. /\ h \in [of : Loaders \cup {NoLoader}, dir : Loaders, done : BOOLEAN]
          /\ h.of = f.of /\ h.dir = f.dir
      BY <3>1, <3>2
    <3>4. fetched' = (fetched \ {f}) \cup {h}
      BY <2>2, <3>1 DEF Arrives
    <3>5. QED
      BY <1>1, <3>3, <3>4 DEF LoadsTypeOK, DownloadsWhole
  <2>3. QED
    BY <2>1, <2>2
<1>4. Working' = Working
  BY <1>1 DEF Working
<1>5. LoadShape'
  <2>1. LoadsTypeOK'
    BY <1>1, <1>2, <1>3 DEF LoadsTypeOK
  <2>2. QED
    BY <1>1, <2>1 DEF LoadShape
<1>6. DownloadsWhole' /\ OverlapsNoted'
  BY <1>1, <1>3, <1>4 DEF DownloadsWhole, OverlapsNoted
<1>7. QED
  BY <1>5, <1>6 DEF LoadInv

LEMMA LoadsStep == LoadInv /\ [LoadsNext]_loadVars => LoadInv'
<1> SUFFICES ASSUME LoadInv, [LoadsNext]_loadVars
             PROVE  LoadInv'
  OBVIOUS
<1>1. CASE UNCHANGED loadVars
  BY <1>1 DEF loadVars, LoadInv, LoadShape, LoadsTypeOK, OverlapsNoted, DownloadsWhole, Working
<1>2. QED
  BY <1>1, LoadBegins, LoadSteps, FileSteps DEF LoadsNext

(* However downloads overlap (download_file of cdp_client.py, POST           *)
(* /page/download and the two tools), what a caller is given arrived in its  *)
(* own directory while it waited, from itself, a page, or a caller that was  *)
(* at work meanwhile, and no directory outlives its request.                 *)
THEOREM DownloadsAreWhole == LoadsInit /\ [][LoadsNext]_loadVars => []DownloadsWhole
<1>1. LoadInv /\ [LoadsNext]_loadVars => LoadInv'
  BY LoadsStep
<1>2. LoadInv => DownloadsWhole
  BY DEF LoadInv
<1>3. QED
  BY LoadsInitial, <1>1, <1>2, PTL

LEMMA LoadsTypes == LoadsInit /\ [][LoadsNext]_loadVars => []LoadsTypeOK
<1>1. LoadInv => LoadsTypeOK
  BY DEF LoadInv, LoadShape
<1>2. QED
  BY LoadsInitial, LoadsStep, <1>1, PTL

-----------------------------------------------------------------------------
(* Events.                                                                   *)

LEMMA EventInitial == EventInit => EventInv
<1> SUFFICES ASSUME EventInit
             PROVE  EventInv
  OBVIOUS
<1> USE ClientEventsAssumption DEF EventInit, NoDialog
<1>1. EventShape
  <2>1. wire \in Seq(News) /\ replies \in Seq(CommandRecords)
    OBVIOUS
  <2>2. client \in ClientRecords
    BY DEF ClientRecords, Policies
  <2>3. QED
    BY <2>1, <2>2 DEF EventShape, Flags
<1>2. replies = <<>> /\ DOMAIN replies = {}
  OBVIOUS
<1>3. QED
  BY <1>1, <1>2 DEF EventInv, DialogTold, StartsObeyed, NetTold, CastTold, NotesTold, InFlight

(* Every message that Chrome sends names the dialog that shows after it.     *)
LEMMA NewsAppended ==
  ASSUME wire \in Seq(News), NEW n \in News, wire' = Append(wire, n)
  PROVE  wire' \in Seq(News) /\ wire' # <<>> /\ wire'[Len(wire')] = n
OBVIOUS

LEMMA NewsRead ==
  ASSUME wire \in Seq(News), wire # <<>>, wire' = Tail(wire)
  PROVE  /\ wire' \in Seq(News) /\ Head(wire) \in News
         /\ wire' = <<>> => Head(wire) = wire[Len(wire)]
         /\ wire' # <<>> => wire'[Len(wire')] = wire[Len(wire)]
<1>1. /\ wire' \in Seq(News) /\ Head(wire) \in News /\ Head(wire) = wire[1]
      /\ Len(wire) \in Nat \ {0} /\ Len(wire') = Len(wire) - 1
      /\ \A i \in 1..(Len(wire) - 1) : wire'[i] = wire[i + 1]
  OBVIOUS
<1>2. ASSUME wire' = <<>>
      PROVE  Head(wire) = wire[Len(wire)]
  <2>1. Len(<<>>) = 0
    OBVIOUS
  <2>2. Len(wire') = 0
    BY <1>2, <2>1
  <2>3. QED
    BY <1>1, <2>2
<1>3. ASSUME wire' # <<>>
      PROVE  wire'[Len(wire')] = wire[Len(wire)]
  <2>1. Len(wire') # 0
    BY <1>1, <1>3
  <2>2. Len(wire') \in 1..(Len(wire) - 1) /\ Len(wire') + 1 = Len(wire)
    BY <1>1, <2>1
  <2>3. QED
    BY <1>1, <2>2
<1>4. QED
  BY <1>1, <1>2, <1>3

(* A command more, or less, under way.                                       *)
LEMMA CommandSent ==
  ASSUME replies \in Seq(CommandRecords), NEW r \in CommandRecords, replies' = Append(replies, r)
  PROVE  /\ replies' \in Seq(CommandRecords) /\ DOMAIN replies' = DOMAIN replies \cup {Len(replies) + 1}
         /\ \A i \in DOMAIN replies : i <= Len(replies) /\ replies'[i] = replies[i]
         /\ replies'[Len(replies) + 1] = r
         /\ \A x : InFlight(x)' <=> InFlight(x) \/ x = r.what
<1>1. /\ replies' \in Seq(CommandRecords) /\ Len(replies) \in Nat /\ Len(replies') = Len(replies) + 1
      /\ DOMAIN replies = 1..Len(replies) /\ DOMAIN replies' = 1..Len(replies')
      /\ \A i \in 1..Len(replies) : replies'[i] = replies[i]
      /\ replies'[Len(replies) + 1] = r
  OBVIOUS
<1>2. DOMAIN replies' = DOMAIN replies \cup {Len(replies) + 1}
  BY <1>1
<1>3. QED
  BY <1>1, <1>2 DEF InFlight

LEMMA CommandAnswered ==
  ASSUME replies \in Seq(CommandRecords), replies # <<>>, replies' = Tail(replies)
  PROVE  /\ replies' \in Seq(CommandRecords) /\ Head(replies) \in CommandRecords
         /\ 1 \in DOMAIN replies /\ replies[1] = Head(replies)
         /\ \A i \in DOMAIN replies' : i \in Nat /\ i + 1 \in DOMAIN replies /\ replies'[i] = replies[i + 1]
         /\ \A i \in DOMAIN replies : i \in Nat /\ (i > 1 => i - 1 \in DOMAIN replies' /\ replies'[i - 1] = replies[i])
         /\ \A x : InFlight(x)' => InFlight(x)
         /\ \A x : InFlight(x) => InFlight(x)' \/ Head(replies).what = x
<1>1. /\ replies' \in Seq(CommandRecords) /\ Head(replies) \in CommandRecords
      /\ Len(replies) \in Nat \ {0} /\ Len(replies') = Len(replies) - 1
      /\ DOMAIN replies = 1..Len(replies) /\ DOMAIN replies' = 1..Len(replies')
      /\ replies[1] = Head(replies)
      /\ \A i \in 1..(Len(replies) - 1) : replies'[i] = replies[i + 1]
  OBVIOUS
<1>2. \A i \in DOMAIN replies' : i \in Nat /\ i + 1 \in DOMAIN replies /\ replies'[i] = replies[i + 1]
  BY <1>1
<1>3. \A i \in DOMAIN replies : i \in Nat /\ (i > 1 => i - 1 \in DOMAIN replies' /\ replies'[i - 1] = replies[i])
  <2> SUFFICES ASSUME NEW i \in DOMAIN replies, i > 1
               PROVE  i - 1 \in DOMAIN replies' /\ replies'[i - 1] = replies[i]
    BY <1>1
  <2>1. i - 1 \in 1..(Len(replies) - 1) /\ (i - 1) + 1 = i
    BY <1>1
  <2>2. QED
    BY <1>1, <2>1
<1>4. \A x : InFlight(x)' => InFlight(x)
  BY <1>2 DEF InFlight
<1>5. ASSUME NEW x, InFlight(x), Head(replies).what # x
      PROVE  InFlight(x)'
  <2>1. PICK i \in DOMAIN replies : replies[i].what = x
    BY <1>5 DEF InFlight
  <2>2. i > 1
    BY <1>1, <1>5, <2>1
  <2>3. QED
    BY <1>3, <2>1, <2>2 DEF InFlight
<1>6. QED
  BY <1>1, <1>2, <1>3, <1>4, <1>5

(* What the commands and their replies leave alone.                          *)
LEMMA CommandsStay ==
  ASSUME StartsObeyed /\ NetTold /\ CastTold /\ NotesTold, UNCHANGED <<replies, domains>>,
         stale \cap {"net", "cast", "notes"} \subseteq stale',
         client'.net = client.net, client'.cast = client.cast, client'.notes = client.notes
  PROVE  StartsObeyed' /\ NetTold' /\ CastTold' /\ NotesTold'
BY DEF StartsObeyed, NetTold, CastTold, NotesTold, InFlight

(* What the tab shows and what has been said of it.                          *)
LEMMA DialogSteps ==
  ASSUME EventInv,
         \/ \E t \in ViewTabs : DialogOpens(t)
         \/ HearsOpening \/ HearsClosed \/ DialogHandle
         \/ \E d \in answering : AutoAnswerDialog(d)
  PROVE  EventInv'
<1> USE ClientEventsAssumption DEF NoDialog
<1>1. /\ EventShape /\ DialogTold /\ StartsObeyed /\ NetTold /\ CastTold /\ NotesTold
      /\ wire \in Seq(News) /\ client \in ClientRecords
  BY DEF EventInv, EventShape
<1>2. PICK c \in ClientRecords : c = client
  BY <1>1
<1>3. ASSUME NEW t \in ViewTabs, DialogOpens(t)
      PROVE  EventInv'
  <2>1. PICK k \in ClientRecords : k = [c EXCEPT !.born = @ + 1] /\ client' = k
    BY <1>2, <1>3 DEF DialogOpens, ClientRecords
  <2>2. PICK d \in 1..MaxDialogs : d = c.born + 1 /\ d = client.born + 1
    BY <1>2, <1>3 DEF DialogOpens, ClientRecords
  <2>3. /\ showing' = [showing EXCEPT ![t] = d] /\ UNCHANGED <<tabOf, replies, domains, answering, stale>>
        /\ wire' = IF t = tabOf THEN Append(wire, Opening(d)) ELSE wire
    BY <1>3, <2>2 DEF DialogOpens
  <2>4. /\ k.net = client.net /\ k.cast = client.cast /\ k.notes = client.notes /\ k.open = client.open
    BY <1>2, <2>1 DEF ClientRecords
  <2>5. Opening(d) \in News /\ Opening(d).dialog = d
    BY DEF News, Opening
  <2>6. wire' \in Seq(News) /\ (t = tabOf => wire' # <<>> /\ wire'[Len(wire')] = Opening(d))
    BY <1>1, <2>3, <2>5, NewsAppended
  <2>7. EventShape'
    BY <1>1, <2>1, <2>3, <2>6 DEF EventShape
  <2>8. DialogTold'
    BY <1>1, <2>1, <2>3, <2>4, <2>5, <2>6 DEF DialogTold, EventShape
  <2>9. QED
    BY <1>1, <2>1, <2>3, <2>4, <2>7, <2>8, CommandsStay DEF EventInv
<1>4. ASSUME NEW open \in 0..MaxDialogs, client' = [c EXCEPT !.open = open],
             wire # <<>>, Head(wire).dialog = open, wire' = Tail(wire), stale' = stale \ {"dialog"},
             answering' \subseteq 1..MaxDialogs, UNCHANGED <<tabOf, showing, replies, domains>>
      PROVE  EventInv'
  <2>1. PICK k \in ClientRecords : k = [c EXCEPT !.open = open] /\ client' = k
    BY <1>4 DEF ClientRecords
  <2>2. /\ k.net = client.net /\ k.cast = client.cast /\ k.notes = client.notes /\ k.open = open
    BY <1>2, <2>1 DEF ClientRecords
  <2>3. /\ wire' \in Seq(News)
        /\ wire' = <<>> => Head(wire) = wire[Len(wire)]
        /\ wire' # <<>> => wire'[Len(wire')] = wire[Len(wire)]
    BY <1>1, <1>4, NewsRead
  <2>4. EventShape'
    BY <1>1, <1>4, <2>1, <2>3 DEF EventShape
  <2>5. DialogTold'
    BY <1>1, <1>4, <2>1, <2>2, <2>3 DEF DialogTold
  <2>6. QED
    BY <1>1, <1>4, <2>1, <2>2, <2>4, <2>5, CommandsStay DEF EventInv
<1>5. wire # <<>> => Head(wire) \in News
  BY <1>1, NewsRead
<1>6. CASE HearsOpening
  <2>1. wire # <<>> /\ Head(wire).what = "opening"
    BY <1>6 DEF HearsOpening
  <2>2. PICK d \in 1..MaxDialogs : Head(wire).dialog = d
    BY <1>5, <2>1 DEF News, Opening, DialogClosed
  <2>3. client' = [c EXCEPT !.open = d] /\ answering' \subseteq 1..MaxDialogs
    BY <1>1, <1>2, <1>6, <2>2 DEF HearsOpening, EventShape
  <2>4. /\ d \in 0..MaxDialogs /\ wire' = Tail(wire) /\ stale' = stale \ {"dialog"}
        /\ UNCHANGED <<tabOf, showing, replies, domains>>
    BY <1>6 DEF HearsOpening
  <2>5. QED
    BY <1>4, <2>1, <2>2, <2>3, <2>4
<1>7. CASE HearsClosed
  <2>1. wire # <<>> /\ Head(wire).dialog = 0
    BY <1>5, <1>7 DEF HearsClosed, News, Opening, DialogClosed
  <2>2. client' = [c EXCEPT !.open = 0] /\ answering' \subseteq 1..MaxDialogs
    BY <1>1, <1>2, <1>7 DEF HearsClosed, EventShape
  <2>3. /\ 0 \in 0..MaxDialogs /\ wire' = Tail(wire) /\ stale' = stale \ {"dialog"}
        /\ UNCHANGED <<tabOf, showing, replies, domains>>
    BY <1>7 DEF HearsClosed
  <2>4. QED
    BY <1>4, <2>1, <2>2, <2>3
<1>8. ASSUME AnswersDialog \/ UNCHANGED <<showing, wire>>, answering' \subseteq answering,
             UNCHANGED <<tabOf, client, replies, domains, stale>>
      PROVE  EventInv'
  <2>1. CASE UNCHANGED <<showing, wire>>
    BY <1>1, <1>8, <2>1, CommandsStay DEF EventInv, EventShape, DialogTold
  <2>2. CASE AnswersDialog
    <3>1. DialogClosed \in News /\ DialogClosed.dialog = 0
      BY DEF News, DialogClosed
    <3>2. wire' \in Seq(News) /\ wire' # <<>> /\ wire'[Len(wire')] = DialogClosed
      BY <1>1, <2>2, <3>1, NewsAppended DEF AnswersDialog
    <3>3. EventShape'
      BY <1>1, <1>8, <2>2, <3>2 DEF EventShape, AnswersDialog
    <3>4. DialogTold'
      BY <1>1, <1>8, <2>2, <3>1, <3>2 DEF DialogTold, EventShape, AnswersDialog
    <3>5. QED
      BY <1>1, <1>8, <3>3, <3>4, CommandsStay DEF EventInv
  <2>3. QED
    BY <1>8, <2>1, <2>2
<1>9. QED
  BY <1>3, <1>6, <1>7, <1>8 DEF DialogHandle, AutoAnswerDialog

(* The steps that touch neither a dialog nor a command.                      *)
LEMMA LogSteps ==
  ASSUME EventInv, HearsError \/ (\E p \in Policies : SetDialogPolicy(p)) \/ NavigateTab
  PROVE  EventInv'
<1> USE ClientEventsAssumption
<1>1. /\ EventShape /\ DialogTold /\ StartsObeyed /\ NetTold /\ CastTold /\ NotesTold
      /\ client \in ClientRecords
  BY DEF EventInv, EventShape
<1>2. PICK c \in ClientRecords : c = client
  BY <1>1
<1>3. UNCHANGED <<tabOf, showing, wire, replies, answering>>
  BY DEF HearsError, SetDialogPolicy, NavigateTab
<1>4. ASSUME NEW k \in ClientRecords, client' = k, k.net = c.net, k.cast = c.cast, k.notes = c.notes,
             k.open = c.open, UNCHANGED <<domains, stale>>
      PROVE  EventInv'
  <2>1. EventShape' /\ DialogTold'
    BY <1>1, <1>2, <1>3, <1>4 DEF EventShape, DialogTold
  <2>2. QED
    BY <1>1, <1>2, <1>3, <1>4, <2>1, CommandsStay DEF EventInv
<1>5. CASE HearsError
  <2>1. PICK n \in 0..MaxKept : client' = [c EXCEPT !.console = n]
    BY <1>2, <1>5 DEF HearsError, ClientRecords
  <2>2. PICK k \in ClientRecords : k = [c EXCEPT !.console = n] /\ client' = k
    BY <2>1 DEF ClientRecords
  <2>3. k.net = c.net /\ k.cast = c.cast /\ k.notes = c.notes /\ k.open = c.open
    BY <2>2 DEF ClientRecords
  <2>4. QED
    BY <1>4, <1>5, <2>2, <2>3 DEF HearsError
<1>6. ASSUME NEW p \in Policies, SetDialogPolicy(p)
      PROVE  EventInv'
  <2>1. PICK k \in ClientRecords : k = [c EXCEPT !.policy = p] /\ client' = k
    BY <1>2, <1>6 DEF SetDialogPolicy, ClientRecords
  <2>2. k.net = c.net /\ k.cast = c.cast /\ k.notes = c.notes /\ k.open = c.open
    BY <2>1 DEF ClientRecords
  <2>3. QED
    BY <1>4, <1>6, <2>1, <2>2 DEF SetDialogPolicy
<1>7. CASE NavigateTab
  <2>1. /\ domains' = domains \ {"notes"} /\ stale' = stale \cup {"notes"} /\ UNCHANGED client
    BY <1>7 DEF NavigateTab
  <2>2. EventShape' /\ DialogTold'
    BY <1>1, <1>3, <2>1 DEF EventShape, DialogTold, Flags
  <2>3. StartsObeyed' /\ NetTold' /\ CastTold' /\ NotesTold'
    BY <1>1, <1>3, <2>1 DEF StartsObeyed, NetTold, CastTold, NotesTold, InFlight
  <2>4. QED
    BY <2>2, <2>3 DEF EventInv
<1>8. QED
  BY <1>5, <1>6, <1>7

(* A command is sent; what is stale and what Chrome reports change by one    *)
(* flag, except that a recording may fail to start.                          *)
LEMMA SendingSteps ==
  ASSUME EventInv, NEW w \in Watchers,
         \/ StartNetwork(w) \/ StopNetwork(w) \/ StartRecording(w) \/ StopRecording(w)
         \/ StartNotifications(w) \/ StartConsole(w)
  PROVE  EventInv'
<1>1. /\ EventShape /\ DialogTold /\ StartsObeyed /\ NetTold /\ CastTold /\ NotesTold
      /\ client \in ClientRecords /\ replies \in Seq(CommandRecords)
  BY DEF EventInv, EventShape
<1>2. UNCHANGED <<tabOf, showing, wire, answering>>
  BY DEF StartNetwork, StopNetwork, StartRecording, StopRecording, StartNotifications, StartConsole
<1>3. PICK what \in Commands :
        /\ replies' = Append(replies, [who |-> w, what |-> what])
        /\ \/ /\ what = "netOn" /\ ~client.net /\ domains' = domains \cup {"net"}
              /\ stale' = stale \ {"net"} /\ UNCHANGED client
           \/ what = "netOff" /\ domains' = domains \ {"net"} /\ UNCHANGED <<client, stale>>
           \/ what = "castOn" /\ client' = [client EXCEPT !.cast = TRUE]
              /\ \/ domains' = domains \cup {"cast"} /\ stale' = stale \ {"cast"}
                 \/ UNCHANGED domains /\ stale' = stale \cup {"cast"}
           \/ what = "castOff" /\ domains' = domains \ {"cast"} /\ UNCHANGED <<client, stale>>
           \/ /\ what = "notesOn" /\ domains' = domains \cup {"notes"}
              /\ stale' = stale \ {"notes"} /\ UNCHANGED client
           \/ what = "console" /\ UNCHANGED <<client, domains, stale>>
  BY DEF StartNetwork, StopNetwork, StartRecording, StopRecording, StartNotifications, StartConsole,
         Sends, Commands
<1>4. PICK r \in CommandRecords : r = [who |-> w, what |-> what] /\ r.what = what
  <2>1. [who |-> w, what |-> what] \in CommandRecords
    BY DEF CommandRecords
  <2>2. QED
    BY <2>1
<1>5. replies' = Append(replies, r)
  BY <1>3, <1>4
<1>6. /\ replies' \in Seq(CommandRecords) /\ DOMAIN replies' = DOMAIN replies \cup {Len(replies) + 1}
      /\ \A i \in DOMAIN replies : i <= Len(replies) /\ replies'[i] = replies[i]
      /\ replies'[Len(replies) + 1] = r
      /\ \A x : InFlight(x)' <=> InFlight(x) \/ x = r.what
  BY <1>1, <1>5, CommandSent
<1>7. PICK k \in ClientRecords :
        /\ client' = k /\ k.open = client.open /\ k.net = client.net /\ k.notes = client.notes
        /\ k.cast = client.cast \/ what = "castOn"
  <2>1. PICK c \in ClientRecords : c = client
    BY <1>1
  <2>2. CASE what = "castOn"
    <3>1. client' = [c EXCEPT !.cast = TRUE]
      BY <1>3, <2>1, <2>2
    <3>2. PICK k \in ClientRecords : k = [c EXCEPT !.cast = TRUE] /\ client' = k
      BY <3>1 DEF ClientRecords
    <3>3. QED
      BY <2>1, <2>2, <3>2 DEF ClientRecords
  <2>3. CASE what # "castOn"
    BY <1>3, <2>1, <2>3
  <2>4. QED
    BY <2>2, <2>3
<1>8. EventShape'
  <2>1. stale' \subseteq Flags /\ domains' \subseteq {"net", "cast", "notes"}
    BY <1>1, <1>3 DEF EventShape, Flags
  <2>2. QED
    BY <1>1, <1>2, <1>6, <1>7, <2>1 DEF EventShape
<1>9. "dialog" \in stale' <=> "dialog" \in stale
  BY <1>3
<1>10. DialogTold'
  BY <1>1, <1>2, <1>7, <1>9 DEF DialogTold
<1>11. StartsObeyed'
  <2>1. "net" \in domains' \/ what = "netOff" \/ ("net" \notin domains /\ what # "netOn")
    BY <1>3
  <2>2. ASSUME NEW i \in DOMAIN replies', replies'[i].what = "netOn"
        PROVE  "net" \in domains' \/ \E m \in DOMAIN replies' : i < m /\ replies'[m].what = "netOff"
    <3>1. CASE i \in DOMAIN replies
      <4>1. Len(replies) \in Nat /\ i \in Nat /\ i < Len(replies) + 1
        BY <1>1, <3>1
      <4>2. CASE what = "netOff"
        BY <1>4, <1>6, <4>1, <4>2
      <4>3. CASE what # "netOff"
        <5>1. "net" \in domains => "net" \in domains'
          BY <1>3, <4>3
        <5>2. QED
          BY <1>1, <1>6, <2>2, <3>1, <5>1 DEF StartsObeyed
      <4>4. QED
        BY <4>2, <4>3
    <3>2. CASE i = Len(replies) + 1
      <4>1. what = "netOn"
        BY <1>4, <1>6, <2>2, <3>2
      <4>2. QED
        BY <1>3, <4>1
    <3>3. QED
      BY <1>6, <3>1, <3>2
  <2>3. QED
    BY <2>2 DEF StartsObeyed
<1>12. NetTold'
  BY <1>1, <1>3, <1>4, <1>6, <1>7 DEF NetTold
<1>13. CastTold'
  BY <1>1, <1>3, <1>4, <1>6, <1>7 DEF CastTold
<1>14. NotesTold'
  BY <1>1, <1>3, <1>4, <1>6, <1>7 DEF NotesTold
<1>15. QED
  BY <1>8, <1>10, <1>11, <1>12, <1>13, <1>14 DEF EventInv

(* Chrome answers a command, or the command fails.                           *)
LEMMA AnsweringSteps ==
  ASSUME EventInv, CommandReplied \/ CommandRaises
  PROVE  EventInv'
<1> USE ClientEventsAssumption
<1>1. /\ EventShape /\ DialogTold /\ StartsObeyed /\ NetTold /\ CastTold /\ NotesTold
      /\ client \in ClientRecords /\ replies \in Seq(CommandRecords)
  BY DEF EventInv, EventShape
<1>2. PICK c \in ClientRecords : c = client
  BY <1>1
<1>3. /\ replies # <<>> /\ replies' = Tail(replies)
      /\ UNCHANGED <<tabOf, showing, wire, domains, answering>>
  BY DEF CommandReplied, CommandRaises
<1>4. /\ replies' \in Seq(CommandRecords) /\ Head(replies) \in CommandRecords
      /\ 1 \in DOMAIN replies /\ replies[1] = Head(replies)
      /\ \A i \in DOMAIN replies' : i \in Nat /\ i + 1 \in DOMAIN replies /\ replies'[i] = replies[i + 1]
      /\ \A i \in DOMAIN replies : i \in Nat /\ (i > 1 => i - 1 \in DOMAIN replies' /\ replies'[i - 1] = replies[i])
      /\ \A x : InFlight(x)' => InFlight(x)
      /\ \A x : InFlight(x) => InFlight(x)' \/ Head(replies).what = x
  BY <1>1, <1>3, CommandAnswered
<1>5. PICK what \in Commands : what = Head(replies).what /\ replies[1].what = what
  BY <1>4 DEF CommandRecords
<1>6. PICK k \in ClientRecords :
        /\ client' = k /\ k.open = c.open
        /\ k.net => c.net \/ (what = "netOn" /\ stale' = stale)
        /\ what = "netOff" => ~k.net \/ "net" \in stale'
        /\ k.cast => c.cast /\ what # "castOff"
        /\ k.notes => c.notes \/ what = "notesOn"
        /\ stale \subseteq stale' /\ stale' \subseteq stale \cup {"net", "cast"}
  <2>1. CASE CommandReplied
    <3>1. /\ stale' = stale
          /\ client' = CASE what = "netOn"   -> [c EXCEPT !.net = TRUE]
                         [] what = "netOff"  -> [c EXCEPT !.net = FALSE]
                         [] what = "castOff" -> [c EXCEPT !.cast = FALSE]
                         [] what = "notesOn" -> [c EXCEPT !.notes = TRUE]
                         [] what = "console" -> [c EXCEPT !.console = 0]
                         [] OTHER            -> c
      BY <1>2, <1>5, <2>1 DEF CommandReplied, Replied
    <3>2. PICK k : k = CASE what = "netOn"   -> [c EXCEPT !.net = TRUE]
                         [] what = "netOff"  -> [c EXCEPT !.net = FALSE]
                         [] what = "castOff" -> [c EXCEPT !.cast = FALSE]
                         [] what = "notesOn" -> [c EXCEPT !.notes = TRUE]
                         [] what = "console" -> [c EXCEPT !.console = 0]
                         [] OTHER            -> c
      OBVIOUS
    <3>3. k \in ClientRecords /\ k.open = c.open
      BY <3>2, 0 \in 0..MaxKept DEF ClientRecords, Commands
    <3>4. (k.net => c.net \/ what = "netOn") /\ (what = "netOff" => ~k.net)
      BY <3>2 DEF ClientRecords, Commands
    <3>5. k.cast => c.cast /\ what # "castOff"
      BY <3>2 DEF ClientRecords, Commands
    <3>6. k.notes => c.notes \/ what = "notesOn"
      BY <3>2 DEF ClientRecords, Commands
    <3>7. QED
      BY <3>1, <3>2, <3>3, <3>4, <3>5, <3>6
  <2>2. CASE CommandRaises
    <3>1. /\ client' = IF what = "castOff" THEN [c EXCEPT !.cast = FALSE] ELSE c
          /\ stale' = stale \cup (CASE what = "netOff"  -> {"net"}
                                    [] what = "castOn"  -> {"cast"}
                                    [] OTHER            -> {})
      BY <1>2, <1>5, <2>2 DEF CommandRaises
    <3>2. PICK k : k = IF what = "castOff" THEN [c EXCEPT !.cast = FALSE] ELSE c
      OBVIOUS
    <3>3. /\ k \in ClientRecords /\ k.open = c.open /\ k.net = c.net /\ k.notes = c.notes
          /\ k.cast => c.cast /\ what # "castOff"
      BY <3>2 DEF ClientRecords
    <3>4. /\ stale \subseteq stale' /\ stale' \subseteq stale \cup {"net", "cast"}
          /\ what = "netOff" => "net" \in stale'
      BY <3>1 DEF Commands
    <3>5. QED
      BY <3>1, <3>2, <3>3, <3>4
  <2>3. QED
    BY <2>1, <2>2
<1>7. EventShape'
  BY <1>1, <1>3, <1>4, <1>6 DEF EventShape, Flags
<1>8. DialogTold'
  BY <1>1, <1>2, <1>3, <1>6 DEF DialogTold
<1>9. StartsObeyed'
  <2> SUFFICES ASSUME NEW i \in DOMAIN replies', replies'[i].what = "netOn", "net" \notin domains'
               PROVE  \E n \in DOMAIN replies' : i < n /\ replies'[n].what = "netOff"
    BY DEF StartsObeyed
  <2>1. i \in Nat /\ i + 1 \in DOMAIN replies /\ replies[i + 1].what = "netOn"
    BY <1>4
  <2>2. PICK m \in DOMAIN replies : i + 1 < m /\ replies[m].what = "netOff"
    BY <1>1, <1>3, <2>1 DEF StartsObeyed
  <2>3. m \in Nat /\ m > 1 /\ i < m - 1
    BY <1>4, <2>1, <2>2
  <2>4. QED
    BY <1>4, <2>2, <2>3
<1>10. NetTold'
  <2> SUFFICES ASSUME k.net, "net" \notin stale', "net" \notin domains
               PROVE  InFlight("netOff")'
    BY <1>3, <1>6 DEF NetTold
  <2>1. what # "netOff" /\ "net" \notin stale
    BY <1>6
  <2>2. InFlight("netOff")
    <3>1. CASE c.net
      BY <1>1, <1>2, <2>1, <3>1 DEF NetTold
    <3>2. CASE what = "netOn"
      <4>1. PICK m \in DOMAIN replies : 1 < m /\ replies[m].what = "netOff"
        BY <1>1, <1>4, <1>5, <3>2 DEF StartsObeyed
      <4>2. QED
        BY <4>1 DEF InFlight
    <3>3. QED
      BY <1>6, <3>1, <3>2
  <2>3. QED
    BY <1>4, <1>5, <2>1, <2>2
<1>11. CastTold'
  BY <1>1, <1>2, <1>3, <1>4, <1>5, <1>6 DEF CastTold
<1>12. NotesTold'
  <2>1. what = "notesOn" => InFlight("notesOn")
    BY <1>4, <1>5 DEF InFlight
  <2>2. QED
    BY <1>1, <1>2, <1>3, <1>4, <1>6, <2>1 DEF NotesTold
<1>13. QED
  BY <1>7, <1>8, <1>9, <1>10, <1>11, <1>12 DEF EventInv

(* A new socket, to the same tab or to another.                              *)
LEMMA SocketStep ==
  ASSUME EventInv, NEW t \in ViewTabs, NewSocket(t)
  PROVE  EventInv'
<1>1. /\ EventShape /\ client \in ClientRecords
  BY DEF EventInv, EventShape
<1>2. /\ tabOf' = t /\ wire' = <<>> /\ replies' = <<>> /\ DOMAIN replies' = {}
      /\ stale' = {"dialog"} \cup Up /\ domains' \subseteq domains
      /\ UNCHANGED <<showing, client, answering>>
  BY <1>1 DEF NewSocket, EventShape
<1>3. /\ wire' \in Seq(News) /\ replies' \in Seq(CommandRecords)
      /\ stale' \subseteq Flags
  BY <1>2 DEF Up, Flags
<1>4. EventShape'
  BY <1>1, <1>2, <1>3 DEF EventShape
<1>5. /\ client.net => "net" \in stale'
      /\ client.cast => "cast" \in stale'
      /\ client.notes => "notes" \in stale'
  BY <1>2 DEF Up
<1>6. StartsObeyed' /\ NetTold' /\ CastTold' /\ NotesTold'
  BY <1>2, <1>5 DEF StartsObeyed, NetTold, CastTold, NotesTold, InFlight
<1>7. DialogTold'
  BY <1>2 DEF DialogTold
<1>8. QED
  BY <1>4, <1>6, <1>7 DEF EventInv

LEMMA EventsStep == EventInv /\ [EventNext]_eventVars => EventInv'
<1> SUFFICES ASSUME EventInv, [EventNext]_eventVars
             PROVE  EventInv'
  OBVIOUS
<1>1. CASE UNCHANGED eventVars
  BY <1>1 DEF eventVars, EventInv, EventShape, DialogTold, StartsObeyed, NetTold, CastTold,
              NotesTold, InFlight
<1>2. CASE ReconnectsSame \/ \E t \in ViewTabs : ConnectToTarget(t)
  BY <1>2, SocketStep DEF ReconnectsSame, ConnectToTarget, EventInv, EventShape
<1>3. QED
  BY <1>1, <1>2, DialogSteps, LogSteps, SendingSteps, AnsweringSteps DEF EventNext

(* A client of a tab (cdp_client.py) reports the dialog that shows and       *)
(* monitors what it says it monitors, whatever the order of events, replies, *)
(* commands and new sockets, except where a flag is older than the socket or *)
(* the document, or its command failed.                                      *)
THEOREM BeliefsAreTrue == EventInit /\ [][EventNext]_eventVars => []BeliefsHold
<1>1. EventInv /\ [EventNext]_eventVars => EventInv'
  BY EventsStep
<1>2. EventInv => BeliefsHold
  <2> SUFFICES ASSUME EventInv
               PROVE  BeliefsHold
    OBVIOUS
  <2>1. ASSUME ~NewsUnread
        PROVE  wire = <<>>
    <3>1. wire \in Seq(News)
      BY DEF EventInv, EventShape
    <3>2. \A i \in DOMAIN wire : wire[i].what \in {"opening", "closed"}
      BY <3>1 DEF News, Opening, DialogClosed
    <3>3. QED
      BY <2>1, <3>1, <3>2 DEF NewsUnread
  <2>2. QED
    BY <2>1 DEF EventInv, DialogTold, NetTold, CastTold, NotesTold, BeliefsHold
<1>3. QED
  BY EventInitial, <1>1, <1>2, PTL

LEMMA EventTypes == EventInit /\ [][EventNext]_eventVars => []EventTypeOK
<1>1. EventInv => EventTypeOK
  BY DEF EventInv, EventShape, EventTypeOK, ClientRecords
<1>2. QED
  BY EventInitial, EventsStep, <1>1, PTL

-----------------------------------------------------------------------------
(* Sightings.                                                                *)

LEMMA SightInitial == SightInit => SightInv
<1> SUFFICES ASSUME SightInit
             PROVE  SightInv
  OBVIOUS
<1> USE SightAssumption DEF SightInit
<1>1. NoSight \in GazeRecords
  BY DEF NoSight, GazeRecords, Modes
<1>2. shots \in Seq(ShotRecords) /\ Len(shots) = 0 /\ tables \subseteq 1..Len(shots)
  OBVIOUS
<1>3. SightShape
  BY <1>1, <1>2 DEF SightShape, Scenes
<1>4. GazeSound(NoSight)
  BY <1>2 DEF GazeSound, NoSight
<1>5. QED
  BY <1>3, <1>4 DEF SightInv

(* Only the observer o goes on.                                              *)
LEMMA OneGazeMoves ==
  ASSUME SightInv, NEW o \in Watching, NEW j \in GazeRecords, Gazes(o, j), GazeSound(j),
         UNCHANGED <<inTab, shutTabs, shots, tables>>
  PROVE  SightInv'
<1>1. /\ gaze' \in [Watching -> GazeRecords]
      /\ \A p \in Watching : gaze'[p] = IF p = o THEN j ELSE gaze[p]
  BY DEF SightInv, SightShape, Gazes
<1>2. \A p \in Watching : GazeSound(gaze'[p])
  BY <1>1 DEF SightInv
<1>3. \A p \in Watching : GazeSound(gaze[p])'
  BY <1>2 DEF GazeSound, Witnessed, ReadSoFar
<1>4. QED
  BY <1>1, <1>3 DEF SightInv, SightShape

(* What is given is kept while the tables change behind an observer: it      *)
(* remains sound when it notes that its earlier snapshot is dropped.         *)
LEMMA SoundGazeKept ==
  ASSUME NEW j \in GazeRecords, GazeSound(j), NEW k \in GazeRecords,
         shots \in Seq(ShotRecords), shots' \in Seq(ShotRecords), Len(shots) <= Len(shots'),
         \A i \in 1..Len(shots) : shots'[i] = shots[i],
         tables' \subseteq 1..Len(shots'), tables' \cap 1..Len(shots) \subseteq tables, UNCHANGED <<inTab, shutTabs>>,
         k.step = j.step, k.mode = j.mode, k.tab = j.tab, k.since = j.since, k.during = j.during,
         k.shot = j.shot, k.report = j.report, k.changed = j.changed, k.offset = j.offset,
         k.texts = j.texts, k.controls = j.controls, k.read = j.read,
         j.dropped => k.dropped,
         j.since # 0 /\ j.since \notin tables' => k.dropped
  PROVE  GazeSound(k)'
<1>1. /\ Len(shots) \in Nat /\ Len(shots') \in Nat /\ j.shot \in Nat /\ j.since \in Nat
      /\ j.shot <= Len(shots) /\ j.since <= Len(shots)
  BY DEF GazeRecords, GazeSound
<1>2. /\ j.shot \in 1..Len(shots) => j.shot \in 1..Len(shots') /\ shots'[j.shot] = shots[j.shot]
      /\ j.since # 0 => shots'[j.since] = shots[j.since]
      /\ k.shot <= Len(shots') /\ k.since <= Len(shots')
  BY <1>1
<1>3. j.shot \notin 1..Len(shots) => j.shot = 0
  BY <1>1
<1>4. Witnessed(j) => Witnessed(k)'
  BY <1>2 DEF Witnessed
<1>5. j.report = "ok" =>
        /\ Witnessed(k)' /\ ReadSoFar(k, shots[j.shot].scene)' /\ shots'[k.shot] = shots[j.shot]
        /\ k.since # 0 => (k.changed <=> shots'[k.since].scene # shots'[k.shot].scene)
  BY <1>2, <1>4 DEF GazeSound, Witnessed, ReadSoFar
<1>6. k.report = "stale" /\ k.offset = 0 /\ k.mode # "ax" => k.dropped \/ k.shot \notin tables'
  <2>1. 0 \notin tables'
    BY <1>1
  <2>2. j.shot \notin tables => j.shot \notin tables'
    BY <1>1, <1>3, <2>1
  <2>3. QED
    BY <2>2 DEF GazeSound
<1>7. QED
  BY <1>1, <1>2, <1>4, <1>5, <1>6 DEF GazeSound

LEMMA LookingSteps ==
  ASSUME SightInv, NEW o \in Watching, ListsTabs(o) \/ Observes(o) \/ FindsTabOpen(o)
  PROVE  SightInv'
<1> USE SightAssumption
<1>1. PICK a \in GazeRecords : a = gaze[o] /\ GazeSound(a)
  BY DEF SightInv, SightShape
<1>2. /\ UNCHANGED <<inTab, shutTabs, shots, tables>> /\ shots \in Seq(ShotRecords)
      /\ inTab \in [SightTabs -> Scenes] /\ shutTabs \subseteq SightTabs
  BY DEF ListsTabs, Observes, FindsTabOpen, SightInv, SightShape
<1>3. CASE ListsTabs(o)
  <2>1. UNCHANGED gaze
    BY <1>3 DEF ListsTabs
  <2>2. QED
    BY <1>2, <2>1 DEF SightInv, SightShape, GazeSound, Witnessed, ReadSoFar
<1>4. CASE Observes(o)
  <2>1. PICK m \in Modes, t \in SightTabs, s \in {0, a.shot} :
          /\ s # 0 => shots[s].table = TableOf(m)
          /\ Gazes(o, [NoSight EXCEPT !.step = "resolve", !.mode = m, !.tab = t, !.since = s,
                                     !.during = {inTab[t]}, !.dropped = s # 0 /\ s \notin tables])
    BY <1>1, <1>4 DEF Observes
  <2>2. PICK j : j = [NoSight EXCEPT !.step = "resolve", !.mode = m, !.tab = t, !.since = s,
                                     !.during = {inTab[t]}, !.dropped = s # 0 /\ s \notin tables]
    OBVIOUS
  <2>3. s \in Nat /\ s <= Len(shots) /\ {inTab[t]} \in SUBSET Scenes
    BY <1>1, <1>2 DEF GazeRecords, GazeSound
  <2>4. j \in GazeRecords
    BY <2>2, <2>3 DEF NoSight, GazeRecords
  <2>5. /\ j.step = "resolve" /\ j.report = "none" /\ j.shot = 0 /\ j.since = s /\ j.mode = m
        /\ inTab[j.tab] \in j.during
        /\ j.offset = 0 /\ j.texts = 0 /\ j.controls = {} /\ ~j.read
        /\ s # 0 /\ s \notin tables => j.dropped
    BY <2>2 DEF NoSight
  <2>6. GazeSound(j)
    BY <1>2, <2>1, <2>3, <2>5 DEF GazeSound
  <2>7. Gazes(o, j)
    BY <2>1, <2>2
  <2>8. QED
    BY <1>2, <2>4, <2>6, <2>7, OneGazeMoves
<1>5. CASE FindsTabOpen(o)
  <2>1. a.step = "resolve" /\ a.report = "none"
    BY <1>1, <1>5 DEF FindsTabOpen, GazeSound
  <2>2. CASE a.tab \notin shutTabs /\ Gazes(o, [a EXCEPT !.step = "capture"])
    <3>1. PICK j : j = [a EXCEPT !.step = "capture"]
      OBVIOUS
    <3>2. j \in GazeRecords
      BY <3>1 DEF GazeRecords
    <3>3. GazeSound(j)
      BY <1>1, <2>1, <3>1 DEF GazeRecords, GazeSound
    <3>4. QED
      BY <1>2, <2>2, <3>1, <3>2, <3>3, OneGazeMoves
  <2>3. ASSUME NEW r \in {"tab_closed", "tab_not_found"}, a.tab \in shutTabs, Gazes(o, SightTells(a, r))
        PROVE  SightInv'
    <3>1. PICK j : j = [a EXCEPT !.report = r, !.step = "told"] /\ Gazes(o, j)
      BY <2>3 DEF SightTells
    <3>2. j \in GazeRecords
      BY <3>1 DEF GazeRecords
    <3>3. /\ j.report = r /\ j.step = "told" /\ j.tab = a.tab /\ j.shot = a.shot /\ j.since = a.since
          /\ j.mode = a.mode /\ j.dropped = a.dropped /\ ~j.read
      BY <1>1, <2>1, <3>1 DEF GazeRecords, GazeSound
    <3>4. GazeSound(j)
      BY <1>1, <2>3, <3>3 DEF GazeSound
    <3>5. QED
      BY <1>2, <3>1, <3>2, <3>4, OneGazeMoves
  <2>4. \/ a.tab \notin shutTabs /\ Gazes(o, [a EXCEPT !.step = "capture"])
        \/ \E r \in {"tab_closed", "tab_not_found"} : a.tab \in shutTabs /\ Gazes(o, SightTells(a, r))
    <3>1. CASE a.tab \notin shutTabs
      BY <1>1, <1>5, <3>1 DEF FindsTabOpen
    <3>2. CASE a.tab \in shutTabs
      <4>1. \E tl \in BOOLEAN :
              Gazes(o, SightTells(a, IF tl /\ a.tab \in toldOf THEN "tab_closed" ELSE "tab_not_found"))
        BY <1>1, <1>5, <3>2 DEF FindsTabOpen
      <4>2. QED
        BY <3>2, <4>1
    <3>3. QED
      BY <3>1, <3>2
  <2>5. QED
    BY <2>2, <2>3, <2>4
<1>6. QED
  BY <1>3, <1>4, <1>5

LEMMA SceneShown ==
  ASSUME shots \in Seq(ShotRecords), NEW j, Witnessed(j)
  PROVE  shots[j.shot].scene \in Scenes
<1>1. shots[j.shot] \in ShotRecords
  BY DEF Witnessed
<1>2. QED
  BY <1>1 DEF ShotRecords

LEMMA ComparingStep ==
  ASSUME SightInv, NEW o \in Watching, Compares(o)
  PROVE  SightInv'
<1> USE SightAssumption
<1>1. PICK a \in GazeRecords : a = gaze[o] /\ GazeSound(a)
  BY DEF SightInv, SightShape
<1>2. /\ UNCHANGED <<inTab, shutTabs, shots, tables>> /\ shots \in Seq(ShotRecords)
      /\ tables \subseteq 1..Len(shots)
  BY DEF Compares, SightInv, SightShape
<1>3. /\ a.step = "compare" /\ Witnessed(a) /\ a.report = "none"
      /\ a.offset = 0 /\ a.texts = 0 /\ a.controls = {} /\ ~a.read
  BY <1>1 DEF Compares, GazeSound
<1>4. shots[a.shot].scene \in Scenes
  BY <1>2, <1>3, SceneShown
<1> DEFINE found == a.since \in tables /\ shots[a.since].table = LookedUpIn(a.mode)
<1>5. PICK j :
        /\ Gazes(o, j)
        /\ \/ a.since = 0 /\ j = SightTells(a, "ok")
           \/ a.since # 0 /\ ~found /\ j = SightTells(a, "stale")
           \/ a.since # 0 /\ j = [SightTells(a, "ok") EXCEPT !.changed = Differ(a.since, a.shot)]
  <2>1. Gazes(o, CASE a.since = 0            -> SightTells(a, "ok")
                   [] a.since # 0 /\ ~found -> SightTells(a, "stale")
                   [] OTHER -> [SightTells(a, "ok") EXCEPT !.changed = Differ(a.since, a.shot)])
    BY <1>1 DEF Compares
  <2> HIDE DEF found
  <2>2. a.since = 0 => Gazes(o, SightTells(a, "ok"))
    BY <2>1
  <2>3. a.since # 0 /\ ~found => Gazes(o, SightTells(a, "stale"))
    BY <2>1
  <2>4. a.since # 0 /\ found =>
          Gazes(o, [SightTells(a, "ok") EXCEPT !.changed = Differ(a.since, a.shot)])
    BY <2>1
  <2>5. QED
    BY <2>2, <2>3, <2>4
<1>6. j \in GazeRecords
  <2>1. ASSUME NEW r \in {"ok", "stale"}
        PROVE  SightTells(a, r) \in GazeRecords
    BY DEF SightTells, GazeRecords
  <2>2. Differ(a.since, a.shot) \in BOOLEAN
    BY DEF Differ
  <2>3. PICK k \in GazeRecords : k = SightTells(a, "ok")
    BY <2>1
  <2>4. [k EXCEPT !.changed = Differ(a.since, a.shot)] \in GazeRecords
    BY <2>2 DEF GazeRecords
  <2>5. QED
    BY <1>5, <2>1, <2>3, <2>4
<1>7. /\ j.step = "told" /\ j.shot = a.shot /\ j.since = a.since /\ j.mode = a.mode
      /\ j.dropped = a.dropped /\ j.during = a.during /\ j.offset = a.offset /\ j.texts = a.texts
      /\ j.controls = a.controls /\ j.read = a.read /\ j.report \in {"ok", "stale"}
  BY <1>5 DEF GazeRecords, SightTells
<1>8. j.report = "ok" /\ j.since # 0 => (j.changed <=> shots[j.since].scene # shots[j.shot].scene)
  BY <1>5 DEF GazeRecords, SightTells, Differ
<1>9. j.report = "stale" /\ j.mode # "ax" => j.dropped
  <2>1. j.report = "stale" => a.since # 0 /\ ~(a.since \in tables /\ shots[a.since].table = LookedUpIn(a.mode))
    BY <1>5 DEF GazeRecords, SightTells
  <2>2. a.mode # "ax" => LookedUpIn(a.mode) = TableOf(a.mode)
    BY DEF LookedUpIn, TableOf, GazeRecords, Modes
  <2>3. QED
    BY <1>1, <1>7, <2>1, <2>2 DEF GazeSound
<1>10. ReadSoFar(j, shots[j.shot].scene)
  BY <1>3, <1>4, <1>7 DEF ReadSoFar, Scenes
<1>11. Witnessed(j)
  BY <1>3, <1>7 DEF Witnessed
<1>12. GazeSound(j)
  BY <1>1, <1>3, <1>7, <1>8, <1>9, <1>10, <1>11 DEF GazeSound
<1>13. QED
  BY <1>2, <1>5, <1>6, <1>12, OneGazeMoves

LEMMA ReadingStep ==
  ASSUME SightInv, NEW o \in Watching, ReadsPage(o)
  PROVE  SightInv'
<1> USE SightAssumption
<1>1. PICK a \in GazeRecords : a = gaze[o] /\ GazeSound(a)
  BY DEF SightInv, SightShape
<1>2. /\ UNCHANGED <<inTab, shutTabs, shots, tables>> /\ shots \in Seq(ShotRecords)
  BY DEF ReadsPage, SightInv, SightShape
<1>3. a.step = "told" /\ a.report = "ok" /\ a.mode = "semantic" /\ ~a.read
  BY <1>1 DEF ReadsPage
<1>4. Witnessed(a) /\ ReadSoFar(a, shots[a.shot].scene)
  BY <1>1, <1>3 DEF GazeSound
<1>5. PICK c \in Scenes : c = shots[a.shot].scene
  BY <1>2, <1>4, SceneShown
<1>6. CASE a.shot \notin tables
  <2>1. PICK j : /\ j = [[a EXCEPT !.read = FALSE] EXCEPT !.report = "stale", !.step = "told"]
                 /\ Gazes(o, j)
    BY <1>1, <1>6 DEF ReadsPage, SightTells
  <2>2. j \in GazeRecords
    BY <2>1 DEF GazeRecords
  <2>3. /\ j.report = "stale" /\ j.step = "told" /\ j.shot = a.shot /\ j.since = a.since
        /\ j.mode = a.mode /\ j.dropped = a.dropped /\ ~j.read
    BY <2>1 DEF GazeRecords
  <2>4. GazeSound(j)
    BY <1>1, <1>6, <2>3 DEF GazeSound
  <2>5. QED
    BY <1>2, <2>1, <2>2, <2>4, OneGazeMoves
<1>7. CASE a.shot \in tables
  <2>1. PICK next \in Nat : next = IF a.offset < TextUnits(c) THEN a.offset + 1 ELSE a.offset
    BY DEF GazeRecords
  <2>2. PICK j : /\ j = [a EXCEPT !.offset = next, !.texts = @ + (next - a.offset),
                           !.controls = @ \cup ({a.offset + 1} \cap (1..ControlUnits(c))),
                           !.read = ~(next < TextUnits(c) \/ a.offset + 1 < ControlUnits(c))]
                 /\ Gazes(o, j)
    BY <1>1, <1>5, <1>7, <2>1 DEF ReadsPage
  <2>3. j.read <=> ~(next < TextUnits(c) \/ a.offset + 1 < ControlUnits(c))
    BY <2>2 DEF GazeRecords
  <2>4. /\ j.offset = next /\ j.texts = a.texts + (next - a.offset)
        /\ j.controls = a.controls \cup ({a.offset + 1} \cap (1..ControlUnits(c)))
        /\ j.report = "ok" /\ j.step = "told" /\ j.shot = a.shot /\ j.since = a.since
        /\ j.mode = a.mode /\ j.dropped = a.dropped /\ j.during = a.during /\ j.changed = a.changed
    BY <1>3, <2>2 DEF GazeRecords
  <2>5. /\ a.texts = a.offset /\ a.offset \in Nat /\ a.offset <= c
        /\ c # 0 => a.controls = 1..a.offset /\ a.offset < c
    BY <1>3, <1>4, <1>5 DEF ReadSoFar, GazeRecords, Scenes
  <2>6. j \in GazeRecords
    <3>1. a.texts + (next - a.offset) \in Nat
      BY <2>1, <2>5
    <3>2. a.controls \cup ({a.offset + 1} \cap (1..ControlUnits(c))) \in SUBSET Nat
      BY <2>5 DEF GazeRecords
    <3>3. QED
      BY <2>2, <3>1, <3>2 DEF GazeRecords
  <2>7. ReadSoFar(j, c)
    <3>1. CASE c = 0
      <4>1. a.offset = 0 /\ next = 0 /\ j.offset = 0 /\ j.texts = 0
        BY <2>1, <2>4, <2>5, <3>1 DEF TextUnits
      <4>2. ControlUnits(c) = 2 /\ a.offset + 1 < 2
        BY <3>1, <4>1 DEF ControlUnits
      <4>3. ~j.read
        BY <2>3, <4>2
      <4>4. QED
        BY <3>1, <4>1, <4>3 DEF ReadSoFar
    <3>2. CASE c # 0
      <4>1. c \in {1, 2} /\ next = a.offset + 1 /\ next <= c /\ ControlUnits(c) = c
        BY <2>1, <2>5, <3>2 DEF TextUnits, ControlUnits, Scenes
      <4>2. j.controls = 1..next
        <5>1. PICK n \in Nat : n = a.offset
          BY <2>5
        <5>2. j.controls = (1..n) \cup ({n + 1} \cap 1..c)
          BY <2>4, <2>5, <3>2, <4>1, <5>1
        <5>3. n + 1 = next /\ n + 1 \in 1..c
          BY <4>1, <5>1
        <5>4. (1..n) \cup {n + 1} = 1..(n + 1)
          OBVIOUS
        <5>5. {n + 1} \cap 1..c = {n + 1}
          BY <5>3
        <5>6. QED
          BY <5>2, <5>3, <5>4, <5>5
      <4>3. j.read <=> next = c
        <5>1. j.read <=> ~(next < c)
          BY <2>3, <4>1 DEF TextUnits
        <5>2. ~(next < c) <=> next = c
          BY <4>1
        <5>3. QED
          BY <5>1, <5>2
      <4>4. QED
        <5>1. j.offset = next
          BY <2>4
        <5>2. PICK n \in Nat : n = a.offset /\ a.texts = n
          BY <2>5
        <5>3. j.texts = n + next - n
          BY <2>4, <5>2
        <5>4. j.texts = next
          BY ONLY <5>3, n \in Nat, next \in Nat
        <5>5. j.texts = j.offset /\ j.offset <= c /\ j.controls = 1..j.offset
          BY ONLY <4>1, <4>2, <5>1, <5>4
        <5>6. j.read <=> j.offset = c
          BY ONLY <4>3, <5>1
        <5>7. QED
          BY <3>2, <5>5, <5>6 DEF ReadSoFar
    <3>3. QED
      BY <3>1, <3>2
  <2>8. Witnessed(j)
    BY <1>4, <2>4 DEF Witnessed
  <2>9. GazeSound(j)
    BY <1>1, <1>3, <1>5, <2>4, <2>7, <2>8 DEF GazeSound
  <2>10. QED
    BY <1>2, <2>2, <2>6, <2>9, OneGazeMoves
<1>8. QED
  BY <1>6, <1>7

(* Another snapshot is stored.                                               *)
LEMMA ShotAppended ==
  ASSUME SightInv, NEW n \in ShotRecords, shots' = Append(shots, n), NEW table,
         tables' = Trims(tables \cup {Len(shots) + 1}, table)
  PROVE  /\ shots' \in Seq(ShotRecords) /\ Len(shots) \in Nat /\ Len(shots') = Len(shots) + 1
         /\ \A i \in 1..Len(shots) : shots'[i] = shots[i]
         /\ shots'[Len(shots) + 1] = n
         /\ tables' \subseteq 1..Len(shots') /\ tables' \cap 1..Len(shots) \subseteq tables
<1>1. shots \in Seq(ShotRecords) /\ tables \subseteq 1..Len(shots)
  BY DEF SightInv, SightShape
<1>2. /\ shots' \in Seq(ShotRecords) /\ Len(shots) \in Nat /\ Len(shots') = Len(shots) + 1
      /\ \A i \in 1..Len(shots) : shots'[i] = shots[i]
      /\ shots'[Len(shots) + 1] = n
  BY <1>1
<1>3. tables' \subseteq tables \cup {Len(shots) + 1}
  <2> DEFINE t    == tables \cup {Len(shots) + 1}
             mine == {s \in t : shots'[s].table = table}
  <2>1. tables' = IF Cardinality(mine) > MaxShotsKept THEN t \ {Oldest(mine)} ELSE t
    BY DEF Trims
  <2> HIDE DEF mine
  <2>2. QED
    BY <2>1
<1>4. tables \cup {Len(shots) + 1} \subseteq 1..Len(shots')
  <2>1. \A l \in Nat : (1..l) \cup {l + 1} = 1..(l + 1)
    OBVIOUS
  <2>2. (1..Len(shots)) \cup {Len(shots) + 1} = 1..Len(shots')
    BY <1>2, <2>1
  <2>3. QED
    BY <1>1, <2>2
<1>5. Len(shots) + 1 \notin 1..Len(shots)
  BY <1>2
<1>6. QED
  BY <1>1, <1>2, <1>3, <1>4, <1>5

(* Whoever holds on to a snapshot that is dropped now has noted it.          *)
LEMMA LossNoted ==
  ASSUME NEW a \in GazeRecords, NEW loss \in BOOLEAN
  PROVE  LET k == [a EXCEPT !.dropped = @ \/ loss] IN
         /\ k \in GazeRecords /\ (k.dropped <=> a.dropped \/ loss)
         /\ k.step = a.step /\ k.mode = a.mode /\ k.tab = a.tab /\ k.since = a.since
         /\ k.during = a.during /\ k.shot = a.shot /\ k.report = a.report /\ k.changed = a.changed
         /\ k.offset = a.offset /\ k.texts = a.texts /\ k.controls = a.controls /\ k.read = a.read
<1> DEFINE k == [a EXCEPT !.dropped = @ \/ loss]
<1>1. k \in GazeRecords
  BY DEF GazeRecords
<1>2. k.dropped <=> a.dropped \/ loss
  BY DEF GazeRecords
<1>3. /\ k.step = a.step /\ k.mode = a.mode /\ k.tab = a.tab /\ k.since = a.since
      /\ k.during = a.during /\ k.shot = a.shot /\ k.report = a.report /\ k.changed = a.changed
      /\ k.offset = a.offset /\ k.texts = a.texts /\ k.controls = a.controls /\ k.read = a.read
  BY DEF GazeRecords
<1>4. QED
  BY <1>1, <1>2, <1>3

(* All observers but those in moving stay, and note what is dropped.         *)
LEMMA OthersKeepSound ==
  ASSUME SightInv, NEW moving \in SUBSET Watching, NEW loses \in [Watching -> BOOLEAN],
         shots' \in Seq(ShotRecords), Len(shots) <= Len(shots'),
         \A i \in 1..Len(shots) : shots'[i] = shots[i],
         tables' \subseteq 1..Len(shots'), tables' \cap 1..Len(shots) \subseteq tables,
         UNCHANGED <<inTab, shutTabs>>,
         \A p \in Watching \ moving : gaze'[p] = [gaze[p] EXCEPT !.dropped = @ \/ loses[p]],
         \A p \in Watching \ moving : gaze[p].since # 0 /\ gaze[p].since \notin tables' =>
           loses[p] \/ gaze[p].since \notin tables
  PROVE  \A p \in Watching \ moving : gaze'[p] \in GazeRecords /\ GazeSound(gaze[p])'
<1> SUFFICES ASSUME NEW p \in Watching \ moving
             PROVE  gaze'[p] \in GazeRecords /\ GazeSound(gaze[p])'
  OBVIOUS
<1>1. PICK a \in GazeRecords : a = gaze[p] /\ GazeSound(a)
  BY DEF SightInv, SightShape
<1>2. PICK loss \in BOOLEAN : loss = loses[p]
  OBVIOUS
<1>3. PICK k : k = [a EXCEPT !.dropped = @ \/ loss] /\ gaze'[p] = k
  BY <1>1, <1>2
<1>4. /\ k \in GazeRecords /\ (k.dropped <=> a.dropped \/ loss)
      /\ k.step = a.step /\ k.mode = a.mode /\ k.tab = a.tab /\ k.since = a.since
      /\ k.during = a.during /\ k.shot = a.shot /\ k.report = a.report /\ k.changed = a.changed
      /\ k.offset = a.offset /\ k.texts = a.texts /\ k.controls = a.controls /\ k.read = a.read
  BY <1>3, LossNoted
<1>5. /\ a.dropped => k.dropped
      /\ a.since # 0 /\ a.since \notin tables' => k.dropped
  BY <1>1, <1>2, <1>4 DEF GazeSound
<1>6. shots \in Seq(ShotRecords)
  BY DEF SightInv, SightShape
<1>7. GazeSound(k)'
  BY <1>1, <1>4, <1>5, <1>6, SoundGazeKept
<1>8. QED
  BY <1>3, <1>4, <1>7 DEF GazeSound, Witnessed, ReadSoFar

(* The whole of the state, from the observers one by one.                    *)
LEMMA SightsAssembled ==
  ASSUME SightInv, inTab' \in [SightTabs -> Scenes], shutTabs' \subseteq SightTabs,
         shots' \in Seq(ShotRecords), tables' \subseteq 1..Len(shots'), DOMAIN gaze' = Watching,
         gaze' = [p \in Watching |-> gaze'[p]],
         \A p \in Watching : gaze'[p] \in GazeRecords /\ GazeSound(gaze[p])'
  PROVE  SightInv'
<1>1. gaze' \in [Watching -> GazeRecords]
  OBVIOUS
<1>2. QED
  BY <1>1 DEF SightInv, SightShape

(* A snapshot, by the caller or by others, or one that expires.              *)
LEMMA StoringSteps ==
  ASSUME SightInv, (\E o \in Watching : TakesShot(o)) \/ OthersObserve \/ ShotExpires
  PROVE  SightInv'
<1> USE SightAssumption
<1>1. /\ shots \in Seq(ShotRecords) /\ tables \subseteq 1..Len(shots) /\ Len(shots) \in Nat
      /\ gaze \in [Watching -> GazeRecords] /\ inTab \in [SightTabs -> Scenes] /\ shutTabs \subseteq SightTabs
  BY DEF SightInv, SightShape
<1>2. CASE OthersObserve
  <2>1. PICK m \in {"semantic", "ax"} :
          /\ shots' = Append(shots, [table |-> m, scene |-> 1])
          /\ tables' = Trims(tables \cup {Len(shots) + 1}, m)
    BY <1>2 DEF OthersObserve
  <2>2. PICK n \in ShotRecords : n = [table |-> m, scene |-> 1]
    <3>1. 1 \in Scenes
      BY DEF Scenes
    <3>2. [table |-> m, scene |-> 1] \in ShotRecords
      BY <3>1 DEF ShotRecords
    <3>3. QED
      BY <3>2
  <2>3. /\ shots' \in Seq(ShotRecords) /\ Len(shots') = Len(shots) + 1
        /\ \A i \in 1..Len(shots) : shots'[i] = shots[i]
        /\ tables' \subseteq 1..Len(shots') /\ tables' \cap 1..Len(shots) \subseteq tables
    BY <2>1, <2>2, ShotAppended
  <2>4. PICK loses \in [Watching -> BOOLEAN] : loses = [p \in Watching |-> LosesShot(p)]
    BY DEF LosesShot
  <2>5. /\ gaze' = [p \in Watching |-> [gaze[p] EXCEPT !.dropped = @ \/ LosesShot(p)]]
        /\ UNCHANGED <<inTab, shutTabs>>
    BY <1>2 DEF OthersObserve
  <2>6. /\ \A p \in Watching : gaze'[p] = [gaze[p] EXCEPT !.dropped = @ \/ loses[p]]
        /\ DOMAIN gaze' = Watching /\ gaze' = [p \in Watching |-> gaze'[p]]
    BY <2>4, <2>5
  <2>7. \A p \in Watching : gaze[p].since # 0 /\ gaze[p].since \notin tables' => loses[p]
    BY <2>4 DEF LosesShot
  <2>8. Len(shots) <= Len(shots')
    BY <1>1, <2>3
  <2>9. \A p \in Watching \ {} : gaze'[p] \in GazeRecords /\ GazeSound(gaze[p])'
    BY <2>3, <2>5, <2>6, <2>7, <2>8, OthersKeepSound
  <2>10. QED
    BY <1>1, <2>3, <2>5, <2>6, <2>9, SightsAssembled
<1>3. CASE ShotExpires
  <2>1. PICK s \in tables :
          /\ tables' = tables \ {s}
          /\ gaze' = [p \in Watching |-> [gaze[p] EXCEPT !.dropped = @ \/ gaze[p].since = s]]
          /\ UNCHANGED <<inTab, shutTabs, shots>>
    BY <1>3 DEF ShotExpires
  <2>2. PICK loses \in [Watching -> BOOLEAN] : loses = [p \in Watching |-> gaze[p].since = s]
    OBVIOUS
  <2>3. /\ \A p \in Watching : gaze'[p] = [gaze[p] EXCEPT !.dropped = @ \/ loses[p]]
        /\ DOMAIN gaze' = Watching /\ gaze' = [p \in Watching |-> gaze'[p]]
    BY <2>1, <2>2
  <2>4. \A p \in Watching : gaze[p].since # 0 /\ gaze[p].since \notin tables' =>
          loses[p] \/ gaze[p].since \notin tables
    BY <2>1, <2>2
  <2>5. /\ shots' \in Seq(ShotRecords) /\ Len(shots) <= Len(shots')
        /\ \A i \in 1..Len(shots) : shots'[i] = shots[i]
        /\ tables' \subseteq 1..Len(shots') /\ tables' \cap 1..Len(shots) \subseteq tables
    BY <1>1, <2>1
  <2>6. \A p \in Watching \ {} : gaze'[p] \in GazeRecords /\ GazeSound(gaze[p])'
    BY <2>1, <2>3, <2>4, <2>5, OthersKeepSound
  <2>7. QED
    BY <1>1, <2>1, <2>3, <2>5, <2>6, SightsAssembled
<1>4. ASSUME NEW o \in Watching, TakesShot(o)
      PROVE  SightInv'
  <2>1. PICK a \in GazeRecords : a = gaze[o] /\ GazeSound(a)
    BY DEF SightInv, SightShape
  <2>2. /\ a.step = "capture" /\ a.report = "none" /\ inTab[a.tab] \in a.during
        /\ a.offset = 0 /\ a.texts = 0 /\ a.controls = {} /\ ~a.read
        /\ UNCHANGED <<inTab, shutTabs>>
    BY <1>4, <2>1 DEF TakesShot, GazeSound
  <2>3. CASE a.tab \in shutTabs /\ Gazes(o, SightTells(a, "failed")) /\ UNCHANGED <<shots, tables>>
    <3>1. PICK j : j = [a EXCEPT !.report = "failed", !.step = "told"] /\ Gazes(o, j)
      BY <2>3 DEF SightTells
    <3>2. j \in GazeRecords
      BY <3>1 DEF GazeRecords
    <3>3. /\ j.report = "failed" /\ j.step = "told" /\ j.shot = a.shot /\ j.since = a.since
          /\ j.mode = a.mode /\ j.dropped = a.dropped /\ ~j.read
      BY <2>2, <3>1 DEF GazeRecords
    <3>4. GazeSound(j)
      BY <2>1, <3>3 DEF GazeSound
    <3>5. QED
      BY <2>2, <2>3, <3>1, <3>2, <3>4, OneGazeMoves
  <2>4. ASSUME NEW n \in {Len(shots) + 1},
               shots' = Append(shots, [table |-> TableOf(a.mode), scene |-> inTab[a.tab]]),
               tables' = Trims(tables \cup {n}, TableOf(a.mode)),
               gaze' = [p \in Watching |->
                 IF p = o THEN [a EXCEPT !.shot = n, !.step = "compare", !.dropped = @ \/ LosesShot(o)]
                 ELSE [gaze[p] EXCEPT !.dropped = @ \/ LosesShot(p)]]
        PROVE  SightInv'
    <3>1. PICK h \in ShotRecords : h = [table |-> TableOf(a.mode), scene |-> inTab[a.tab]]
      <4>1. TableOf(a.mode) \in {"semantic", "ax"} /\ inTab[a.tab] \in Scenes
        BY <1>1 DEF TableOf, GazeRecords
      <4>2. QED
        BY <4>1 DEF ShotRecords
    <3>2. /\ shots' \in Seq(ShotRecords) /\ Len(shots') = Len(shots) + 1
          /\ \A i \in 1..Len(shots) : shots'[i] = shots[i]
          /\ shots'[Len(shots) + 1] = h
          /\ tables' \subseteq 1..Len(shots') /\ tables' \cap 1..Len(shots) \subseteq tables
      BY <2>4, <3>1, ShotAppended
    <3>3. Len(shots) <= Len(shots')
      BY <1>1, <3>2
    <3>4. PICK loses \in [Watching -> BOOLEAN] : loses = [p \in Watching |-> LosesShot(p)]
      BY DEF LosesShot
    <3>5. /\ \A p \in Watching \ {o} : gaze'[p] = [gaze[p] EXCEPT !.dropped = @ \/ loses[p]]
          /\ gaze'[o] = [a EXCEPT !.shot = n, !.step = "compare", !.dropped = @ \/ loses[o]]
          /\ DOMAIN gaze' = Watching /\ gaze' = [p \in Watching |-> gaze'[p]]
      BY <2>4, <3>4
    <3>6. \A p \in Watching : gaze[p].since # 0 /\ gaze[p].since \notin tables' => loses[p]
      BY <3>4 DEF LosesShot
    <3>7. \A p \in Watching \ {o} : gaze'[p] \in GazeRecords /\ GazeSound(gaze[p])'
      <4>1. PICK moving \in SUBSET Watching : moving = {o}
        OBVIOUS
      <4>2. /\ \A p \in Watching \ moving : gaze'[p] = [gaze[p] EXCEPT !.dropped = @ \/ loses[p]]
            /\ \A p \in Watching \ moving : gaze[p].since # 0 /\ gaze[p].since \notin tables' =>
                 loses[p] \/ gaze[p].since \notin tables
        BY <3>5, <3>6, <4>1
      <4>3. \A p \in Watching \ moving : gaze'[p] \in GazeRecords /\ GazeSound(gaze[p])'
        BY <2>2, <3>2, <3>3, <4>2, OthersKeepSound
      <4>4. QED
        BY <4>1, <4>3
    <3>8. PICK loss \in BOOLEAN : loss = loses[o]
      OBVIOUS
    <3>9. PICK b : b = [a EXCEPT !.shot = n, !.step = "compare"]
      OBVIOUS
    <3>10. PICK j : j = [b EXCEPT !.dropped = @ \/ loss] /\ gaze'[o] = j
      <4>1. b.dropped = a.dropped
        BY <3>9 DEF GazeRecords
      <4>2. QED
        BY <3>5, <3>8, <3>9, <4>1
    <3>11. /\ j \in GazeRecords /\ j.shot = n /\ j.step = "compare" /\ j.since = a.since /\ j.mode = a.mode
           /\ j.during = a.during /\ j.tab = a.tab /\ j.report = "none"
           /\ j.offset = 0 /\ j.texts = 0 /\ j.controls = {} /\ ~j.read
           /\ j.dropped <=> a.dropped \/ loss
      <4>1. b \in GazeRecords
        <5>1. n \in Nat
          BY <1>1
        <5>2. QED
          BY <3>9, <5>1 DEF GazeRecords
      <4>2. /\ b.shot = n /\ b.step = "compare" /\ b.since = a.since /\ b.mode = a.mode
            /\ b.during = a.during /\ b.tab = a.tab /\ b.report = "none"
            /\ b.offset = 0 /\ b.texts = 0 /\ b.controls = {}
        BY <2>2, <3>9 DEF GazeRecords
      <4>3. b.read = a.read /\ b.dropped = a.dropped
        BY <3>9 DEF GazeRecords
      <4>4. /\ j \in GazeRecords /\ (j.dropped <=> b.dropped \/ loss)
            /\ j.step = b.step /\ j.mode = b.mode /\ j.tab = b.tab /\ j.since = b.since
            /\ j.during = b.during /\ j.shot = b.shot /\ j.report = b.report
            /\ j.offset = b.offset /\ j.texts = b.texts /\ j.controls = b.controls /\ j.read = b.read
        BY <3>10, <4>1, LossNoted
      <4>5. QED
        BY <2>2, <4>2, <4>3, <4>4
    <3>12. a.since # 0 /\ a.since \notin tables' => j.dropped
      BY <2>1, <3>6, <3>8, <3>11
    <3>13. /\ n \in 1..Len(shots') /\ shots'[n].scene = inTab[a.tab] /\ a.since <= Len(shots')
           /\ a.since # 0 => shots'[a.since] = shots[a.since]
      <4>1. a.since \in Nat /\ a.since <= Len(shots)
        BY <2>1 DEF GazeRecords, GazeSound
      <4>2. QED
        BY <1>1, <3>1, <3>2, <4>1
    <3>14. Witnessed(j)'
      BY <2>2, <3>11, <3>13 DEF Witnessed
    <3>15. GazeSound(j)'
      <4>1. j.since # 0 => shots'[j.since].table = TableOf(j.mode) /\ (j.since \notin tables' => j.dropped)
        BY <2>1, <3>11, <3>12, <3>13 DEF GazeSound
      <4>2. j.shot <= Len(shots') /\ j.since <= Len(shots')
        BY <1>1, <3>2, <3>11, <3>13
      <4>3. QED
        BY <3>11, <3>14, <4>1, <4>2 DEF GazeSound
    <3>16. GazeSound(gaze[o])'
      BY <3>10, <3>15 DEF GazeSound, Witnessed, ReadSoFar
    <3>17. \A p \in Watching : gaze'[p] \in GazeRecords /\ GazeSound(gaze[p])'
      BY <3>7, <3>10, <3>11, <3>16
    <3>18. QED
      BY <1>1, <2>2, <3>2, <3>5, <3>17, SightsAssembled
  <2>5. QED
    BY <1>4, <2>1, <2>3, <2>4 DEF TakesShot
<1>5. QED
  BY <1>2, <1>3, <1>4

(* Pages change, and tabs close.                                             *)
LEMMA TabSteps ==
  ASSUME SightInv, PageEdits \/ SightTabCloses
  PROVE  SightInv'
<1> USE SightAssumption
<1>1. /\ shots \in Seq(ShotRecords) /\ tables \subseteq 1..Len(shots)
      /\ gaze \in [Watching -> GazeRecords] /\ inTab \in [SightTabs -> Scenes] /\ shutTabs \subseteq SightTabs
      /\ \A o \in Watching : GazeSound(gaze[o])
      /\ UNCHANGED <<shots, tables>>
  BY DEF SightInv, SightShape, PageEdits, SightTabCloses
<1>2. CASE SightTabCloses
  <2>1. UNCHANGED <<inTab, gaze>> /\ shutTabs \subseteq shutTabs' /\ shutTabs' \subseteq SightTabs
    BY <1>1, <1>2 DEF SightTabCloses
  <2>2. \A o \in Watching : GazeSound(gaze[o])'
    BY <1>1, <2>1 DEF GazeSound, Witnessed, ReadSoFar
  <2>3. QED
    BY <1>1, <2>1, <2>2 DEF SightInv, SightShape
<1>3. CASE PageEdits
  <2>1. PICK t \in SightTabs, c \in Scenes :
          /\ inTab' = [inTab EXCEPT ![t] = c]
          /\ gaze' = [o \in Watching |->
              [gaze[o] EXCEPT !.during = IF gaze[o].tab = t /\ gaze[o].step \in {"resolve", "capture"}
                                          THEN @ \cup {c} ELSE @]]
          /\ UNCHANGED shutTabs
    BY <1>3 DEF PageEdits
  <2>2. ASSUME NEW p \in Watching
        PROVE  gaze'[p] \in GazeRecords /\ GazeSound(gaze[p])'
    <3>1. PICK a \in GazeRecords : a = gaze[p] /\ GazeSound(a)
      BY <1>1
    <3>2. PICK d \in SUBSET Scenes :
            d = IF a.tab = t /\ a.step \in {"resolve", "capture"} THEN a.during \cup {c} ELSE a.during
      BY DEF GazeRecords
    <3>3. PICK j : j = [a EXCEPT !.during = d] /\ gaze'[p] = j
      BY <2>1, <3>1, <3>2
    <3>4. /\ j \in GazeRecords
          /\ j.shot = a.shot /\ j.step = a.step /\ j.since = a.since /\ j.mode = a.mode
          /\ j.during = d /\ j.tab = a.tab /\ j.report = a.report /\ j.changed = a.changed
          /\ j.offset = a.offset /\ j.texts = a.texts /\ j.controls = a.controls
      BY <3>3 DEF GazeRecords
    <3>5. j.read = a.read /\ j.dropped = a.dropped
      BY <3>3 DEF GazeRecords
    <3>6. a.step \in {"resolve", "capture"} => inTab'[j.tab] \in j.during
      <4>1. inTab' = [inTab EXCEPT ![t] = c] /\ a.tab \in SightTabs
        BY <2>1 DEF GazeRecords
      <4>2. QED
        BY <1>1, <3>1, <3>2, <3>4, <4>1 DEF GazeSound
    <3>7. /\ Witnessed(a) => Witnessed(j)'
          /\ \A x : ReadSoFar(a, x) => ReadSoFar(j, x)
      BY <1>1, <3>2, <3>4, <3>5 DEF Witnessed, ReadSoFar
    <3>8. a.report = "ok" => /\ Witnessed(j)' /\ ReadSoFar(j, shots[j.shot].scene)'
      BY <1>1, <3>1, <3>4, <3>7 DEF GazeSound, ReadSoFar
    <3>9. GazeSound(j)'
      BY <1>1, <2>1, <3>1, <3>4, <3>5, <3>6, <3>7, <3>8 DEF GazeSound
    <3>10. QED
      BY <3>3, <3>4, <3>9 DEF GazeSound, Witnessed, ReadSoFar
  <2>3. inTab' \in [SightTabs -> Scenes]
    BY <1>1, <2>1
  <2>4. DOMAIN gaze' = Watching /\ gaze' = [p \in Watching |-> gaze'[p]]
    BY <2>1
  <2>5. QED
    BY <1>1, <2>1, <2>2, <2>3, <2>4, SightsAssembled
<1>4. QED
  BY <1>2, <1>3

LEMMA SightsStep == SightInv /\ [SightNext]_sightVars => SightInv'
<1> SUFFICES ASSUME SightInv, [SightNext]_sightVars
             PROVE  SightInv'
  OBVIOUS
<1>1. CASE UNCHANGED sightVars
  BY <1>1 DEF sightVars, SightInv, SightShape, GazeSound, Witnessed, ReadSoFar
<1>2. QED
  BY <1>1, LookingSteps, ComparingStep, ReadingStep, StoringSteps, TabSteps DEF SightNext

(* What a caller of observe is told (tools.py, agent_runtime.py) is true of  *)
(* the page, for any number of callers, tabs and snapshots: what it shows,   *)
(* whether it changed, that an earlier snapshot is gone or a tab is closed;  *)
(* and who has read a snapshot to its end has got all of it.                 *)
THEOREM SightsAreTrue == SightInit /\ [][SightNext]_sightVars => []SightsTrue
<1>1. SightInv /\ [SightNext]_sightVars => SightInv'
  BY SightsStep
<1>2. SightInv => SightsTrue
  <2> SUFFICES ASSUME SightInv, NEW o \in Watching
               PROVE  LET j == gaze[o] IN
                      /\ j.report = "ok" => shots[j.shot].scene \in j.during
                      /\ j.report = "ok" /\ j.since # 0 =>
                           (j.changed <=> shots[j.since].scene # shots[j.shot].scene)
                      /\ j.report = "stale" /\ j.offset = 0 /\ j.mode # "ax" =>
                           j.dropped \/ j.shot \notin tables
                      /\ j.report \in {"tab_closed", "tab_not_found"} => j.tab \in shutTabs
                      /\ j.read => /\ j.texts = TextUnits(shots[j.shot].scene)
                                   /\ j.controls = 1..ControlUnits(shots[j.shot].scene)
    BY DEF SightsTrue
  <2>1. PICK j \in GazeRecords : j = gaze[o] /\ GazeSound(j)
    BY DEF SightInv, SightShape
  <2>2. j.report = "ok" => shots[j.shot].scene \in j.during /\ ReadSoFar(j, shots[j.shot].scene)
    BY <2>1 DEF GazeSound, Witnessed
  <2>3. j.read => /\ j.texts = TextUnits(shots[j.shot].scene)
                  /\ j.controls = 1..ControlUnits(shots[j.shot].scene)
    BY <2>1, <2>2 DEF GazeSound, ReadSoFar, TextUnits, ControlUnits
  <2>4. QED
    BY <2>1, <2>2, <2>3 DEF GazeSound
<1>3. QED
  BY SightInitial, <1>1, <1>2, PTL

(* The own tab stays, and what was told of are tabs.                         *)
SightLimits == OwnTab \notin shutTabs /\ toldOf \subseteq SightTabs /\ edits \in 0..MaxEdits

LEMMA SightLimitsKept ==
  /\ SightInit => SightLimits
  /\ SightLimits /\ [SightNext]_sightVars => SightLimits'
<1> USE SightAssumption DEF SightLimits
<1>1. SightInit => SightLimits
  BY DEF SightInit
<1>2. ASSUME SightLimits, NEW o \in Watching, ListsTabs(o)
      PROVE  SightLimits'
  BY <1>2 DEF ListsTabs
<1>3. ASSUME SightLimits, PageEdits \/ SightTabCloses
      PROVE  SightLimits'
  BY <1>3 DEF PageEdits, SightTabCloses
<1>4. ASSUME SightLimits, UNCHANGED <<shutTabs, toldOf, edits>>
      PROVE  SightLimits'
  BY <1>4
<1>5. ASSUME NEW o \in Watching,
             Observes(o) \/ FindsTabOpen(o) \/ TakesShot(o) \/ Compares(o) \/ ReadsPage(o)
      PROVE  UNCHANGED <<shutTabs, toldOf, edits>>
  BY <1>5 DEF Observes, FindsTabOpen, TakesShot, Compares, ReadsPage
<1>6. ASSUME OthersObserve \/ ShotExpires \/ UNCHANGED sightVars
      PROVE  UNCHANGED <<shutTabs, toldOf, edits>>
  BY <1>6 DEF OthersObserve, ShotExpires, sightVars
<1>7. QED
  BY <1>1, <1>2, <1>3, <1>4, <1>5, <1>6 DEF SightNext

LEMMA SightsTyped == SightInv /\ SightLimits => SightTypeOK
<1> SUFFICES ASSUME SightInv, SightLimits
             PROVE  SightTypeOK
  OBVIOUS
<1>1. SightShape /\ Len(shots) \in Nat
  BY DEF SightInv, SightShape
<1>2. \A i \in 1..Len(shots) : shots[i] \in ShotRecords
  BY <1>1 DEF SightShape
<1>3. \A o \in Watching : gaze[o] \in GazeRecords
  BY <1>1 DEF SightShape
<1>4. \A o \in Watching : gaze[o].shot \in 0..Len(shots) /\ gaze[o].since \in 0..Len(shots)
  BY <1>1, <1>3 DEF SightInv, GazeSound, GazeRecords
<1>5. QED
  BY <1>1, <1>2, <1>3, <1>4 DEF SightShape, SightLimits, SightTypeOK, ShotRecords, GazeRecords

LEMMA SightTypes == SightInit /\ [][SightNext]_sightVars => []SightTypeOK
BY SightInitial, SightsStep, SightLimitsKept, SightsTyped, PTL

-----------------------------------------------------------------------------
(* Human input.                                                              *)

LEMMA HumanInitial == HumanInit => HumanInv
<1> SUFFICES ASSUME HumanInit
             PROVE  HumanInv
  OBVIOUS
<1> USE HumanAssumption DEF HumanInit
<1>1. <<>> \in Texts
  <2>1. <<>> \in [1..0 -> KeyKinds]
    OBVIOUS
  <2>2. 0 \in 0..MaxKeys
    OBVIOUS
  <2>3. QED
    BY <2>1, <2>2 DEF Texts
<1>2. AtEase \in TypingRecords
  BY <1>1 DEF AtEase, TypingRecords, HumanSteps
<1>3. strokes \in Seq(StrokeRecords) /\ Len(strokes) = 0
  OBVIOUS
<1>4. HumanShape
  BY <1>2, <1>3 DEF HumanShape
<1>5. ASSUME NEW h \in Typists
      PROVE  TypingSound(h, AtEase)
  <2>1. KeysOf(h) = {} /\ KeysHeld(h) = {}
    BY <1>3 DEF KeysOf, Of, KeysHeld
  <2>2. /\ AtEase.step = "idle" /\ AtEase.report = "none" /\ AtEase.next = 1 /\ ~AtEase.aimed
        /\ AtEase.lands = AtEase.field
    BY DEF AtEase
  <2>3. QED
    BY <2>1, <2>2 DEF TypingSound, Untouched
<1>6. QED
  BY <1>3, <1>4, <1>5 DEF HumanInv, StrokesSound

(* A request beside which another goes on: what it knows of the page stays   *)
(* so, or is marked as swayed.                                               *)
LEMMA BystanderKept ==
  ASSUME HumanInv, NEW g \in Typists, NEW a \in TypingRecords, a = human[g], NEW sway \in BOOLEAN,
         human'[g] = [a EXCEPT !.swayed = @ \/ sway], UNCHANGED onPage,
         KeysOf(g)' = KeysOf(g), KeysHeld(g)' = KeysHeld(g),
         \/ sway
         \/ /\ a.step \in {"press", "release", "down", "up"} => cable' = cable
            /\ a.step \in {"press", "release"} => inView' = inView
            /\ a.step \in {"release", "down", "up"} => caret' = caret
            /\ a.step = "release" => button' = button
  PROVE  human'[g] \in TypingRecords /\ TypingSound(g, human[g])' /\ human'[g].aimed = a.aimed
<1>1. PICK k : k = [a EXCEPT !.swayed = @ \/ sway] /\ human'[g] = k
  OBVIOUS
<1>2. /\ k \in TypingRecords /\ k.kind = a.kind /\ k.field = a.field /\ k.text = a.text
      /\ k.step = a.step /\ k.next = a.next /\ k.lands = a.lands /\ k.report = a.report
  BY <1>1 DEF TypingRecords
<1>3. k.aimed = a.aimed /\ k.clicked = a.clicked
  BY <1>1 DEF TypingRecords
<1>4. k.swayed <=> a.swayed \/ sway
  BY <1>1 DEF TypingRecords
<1>5. TypingSound(g, a)
  BY DEF HumanInv
<1>6. Untouched(k) => Untouched(a) /\ ~sway
  BY <1>3, <1>4 DEF Untouched
<1>7. TypedSoFar(k) = TypedSoFar(a)
  BY <1>2 DEF TypedSoFar
<1>8. TypingSound(g, k)'
  <2>1. /\ k.step # "done" => k.report = "none"
        /\ k.step \in {"idle", "look", "press", "release"} =>
             k.next = 1 /\ KeysOf(g)' = {} /\ k.lands = k.field
        /\ k.step \in {"down", "up"} => k.kind = "type" /\ k.next \in 1..Len(k.text)
        /\ k.step = "done" => k.report # "none"
        /\ k.report = "ok" /\ k.kind = "type" => k.next = Len(k.text) + 1
        /\ \A x \in KeysOf(g)' : x < k.next \/ (k.step \in {"up", "done"} /\ x = k.next)
        /\ KeysHeld(g)' # {} => k.step = "up" \/ k.report = "failed"
        /\ KeysHeld(g)' \subseteq {<<g, k.next>>}
    BY <1>2, <1>5 DEF TypingSound
  <2>2. ASSUME Untouched(k)
        PROVE  /\ k.step \in {"press", "release", "down", "up"} => cable'
               /\ k.step \in {"press", "release"} => inView' = k.field
               /\ k.step = "release" => caret' = k.field /\ button' = k.field
               /\ k.step \in {"down", "up"} => caret' = k.lands /\ caret' \in onPage' /\ k.clicked
               /\ k.report = "ok" => k.clicked
               /\ k.kind = "type" /\ (k.step \in {"down", "up"} \/ k.report = "ok") =>
                    KeysOf(g)' = TypedSoFar(k)
    BY <1>2, <1>3, <1>5, <1>6, <1>7, <2>2 DEF TypingSound
  <2>3. Untouched(k)' <=> Untouched(k)
    BY DEF Untouched
  <2>4. TypedSoFar(k)' = TypedSoFar(k)
    BY DEF TypedSoFar, CharsIn
  <2>5. QED
    BY <2>1, <2>2, <2>3, <2>4 DEF TypingSound
<1>9. QED
  BY <1>1, <1>2, <1>3, <1>8

(* The request of h goes on as j, at the cost of those in the windows it     *)
(* names.                                                                    *)
LEMMA OneTypes ==
  ASSUME HumanInv, NEW h \in Typists, NEW j \in TypingRecords, NEW steps, TypingGoes(h, j, steps),
         UNCHANGED <<onPage, cable>>,
         inView' \in onPage, inView' = inView \/ {"press", "release"} \subseteq steps,
         caret' \in onPage \cup {NoField}, caret' = caret \/ {"release", "down", "up"} \subseteq steps,
         button' \in onPage \cup {NoField}, button' = button \/ "release" \in steps,
         strokes' \in Seq(StrokeRecords), keysDown' \subseteq Typists \X Nat,
         \A g \in Typists \ {h} : KeysOf(g)' = KeysOf(g) /\ KeysHeld(g)' = KeysHeld(g),
         (\A g \in Typists \ {h} : human'[g].aimed = human[g].aimed) => StrokesSound',
         TypingSound(h, j)'
  PROVE  HumanInv'
<1>1. /\ human \in [Typists -> TypingRecords] /\ HumanShape
  BY DEF HumanInv, HumanShape
<1>2. /\ human'[h] = j /\ DOMAIN human' = Typists /\ human' = [g \in Typists |-> human'[g]]
      /\ \A g \in Typists \ {h} :
           human'[g] = [human[g] EXCEPT !.swayed = @ \/ human[g].step \in steps]
  BY DEF TypingGoes
<1>3. ASSUME NEW g \in Typists \ {h}
      PROVE  human'[g] \in TypingRecords /\ TypingSound(g, human[g])' /\ human'[g].aimed = human[g].aimed
  <2>1. PICK a \in TypingRecords : a = human[g]
    BY <1>1
  <2>2. PICK sway \in BOOLEAN : sway = (a.step \in steps)
    <3>1. (a.step \in steps) \in BOOLEAN
      OBVIOUS
    <3>2. QED
      BY ONLY <3>1, Zenon
  <2>3. human'[g] = [a EXCEPT !.swayed = @ \/ sway]
    BY <1>2, <2>1, <2>2
  <2>4. \/ sway
        \/ /\ a.step \in {"press", "release", "down", "up"} => cable' = cable
           /\ a.step \in {"press", "release"} => inView' = inView
           /\ a.step \in {"release", "down", "up"} => caret' = caret
           /\ a.step = "release" => button' = button
    BY <2>2
  <2>5. KeysOf(g)' = KeysOf(g) /\ KeysHeld(g)' = KeysHeld(g)
    BY DEF KeysOf, Of, KeysHeld
  <2>6. QED
    BY <2>1, <2>3, <2>4, <2>5, BystanderKept
<1>4. TypingSound(h, human[h])'
  BY <1>2 DEF TypingSound, Untouched, TypedSoFar, CharsIn
<1>5. \A g \in Typists : human'[g] \in TypingRecords /\ TypingSound(g, human[g])'
  BY <1>2, <1>3, <1>4
<1>6. human' \in [Typists -> TypingRecords]
  BY <1>2, <1>5
<1>7. HumanShape'
  BY <1>1, <1>6 DEF HumanShape
<1>8. StrokesSound'
  BY <1>3
<1>9. QED
  BY <1>5, <1>7, <1>8 DEF HumanInv

(* The same, when no character reaches the page.                             *)
LEMMA OneTypesNothing ==
  ASSUME HumanInv, NEW h \in Typists, NEW j \in TypingRecords, NEW steps, TypingGoes(h, j, steps),
         UNCHANGED <<onPage, cable, strokes>>,
         inView' \in onPage, inView' = inView \/ {"press", "release"} \subseteq steps,
         caret' \in onPage \cup {NoField}, caret' = caret \/ {"release", "down", "up"} \subseteq steps,
         button' \in onPage \cup {NoField}, button' = button \/ "release" \in steps,
         keysDown' \subseteq Typists \X Nat, \A g \in Typists \ {h} : KeysHeld(g)' = KeysHeld(g),
         j.aimed = human[h].aimed \/ KeysOf(h) = {},
         TypingSound(h, j)'
  PROVE  HumanInv'
<1>1. strokes' \in Seq(StrokeRecords)
  BY DEF HumanInv, HumanShape
<1>2. \A g \in Typists : Of(g)' = Of(g) /\ KeysOf(g)' = KeysOf(g)
  BY DEF KeysOf, Of
<1>3. human'[h] = j
  BY DEF TypingGoes
<1>4. ASSUME \A g \in Typists \ {h} : human'[g].aimed = human[g].aimed
      PROVE  StrokesSound'
  <2>1. ASSUME NEW i \in 1..Len(strokes)
        PROVE  /\ human'[strokes[i].by].aimed /\ ~strokes[i].swayed => strokes[i].field = strokes[i].lands
               /\ \A k \in Of(strokes[i].by) : i < k => strokes[i].key < strokes[k].key
    <3>1. strokes[i] \in StrokeRecords /\ strokes[i].by \in Typists
      <4>1. strokes \in Seq(StrokeRecords)
        BY DEF HumanInv, HumanShape
      <4>2. strokes[i] \in StrokeRecords
        BY <4>1
      <4>3. QED
        BY <4>2 DEF StrokeRecords
    <3>2. i \in Of(strokes[i].by) /\ strokes[i].key \in KeysOf(strokes[i].by)
      BY DEF Of, KeysOf
    <3>3. human'[strokes[i].by].aimed = human[strokes[i].by].aimed
      <4>1. CASE strokes[i].by = h
        <5>1. KeysOf(h) # {}
          BY <3>2, <4>1
        <5>2. QED
          BY <1>3, <4>1, <5>1
      <4>2. CASE strokes[i].by # h
        BY <1>4, <3>1, <4>2
      <4>3. QED
        BY <4>1, <4>2
    <3>4. QED
      BY <3>3 DEF HumanInv, StrokesSound
  <2>2. \A i \in 1..Len(strokes) : Of(strokes[i].by)' = Of(strokes[i].by)
    BY DEF Of
  <2>3. QED
    BY <2>1, <2>2 DEF StrokesSound
<1>5. QED
  BY <1>1, <1>2, <1>4, OneTypes

(* Nothing has been typed, and nothing is held, before the first key.        *)
LEMMA BeforeTyping ==
  ASSUME HumanInv, NEW h \in Typists, human[h].step \in {"idle", "look", "press", "release"}
  PROVE  /\ KeysOf(h) = {} /\ KeysHeld(h) = {} /\ human[h].next = 1 /\ human[h].report = "none"
         /\ human[h].lands = human[h].field
BY DEF HumanInv, TypingSound

(* A request that has looked in vain, or whose command failed.               *)
LEMMA GivesUp ==
  ASSUME HumanInv, NEW h \in Typists, NEW r \in {"failed", "not_found"},
         human[h].step \in {"look", "down", "up"}, r = "not_found" => human[h].step = "look",
         TypingGoes(h, TypingTold(human[h], r), {}),
         UNCHANGED <<onPage, inView, caret, button, strokes, keysDown, cable>>
  PROVE  HumanInv'
<1>1. PICK a \in TypingRecords : a = human[h] /\ TypingSound(h, a)
  BY DEF HumanInv, HumanShape
<1>2. PICK j : j = [a EXCEPT !.report = r, !.step = "done"] /\ TypingGoes(h, j, {})
  BY <1>1 DEF TypingTold
<1>3. j \in TypingRecords
  BY <1>2 DEF TypingRecords, HumanSteps
<1>4. j.step = "done" /\ j.report = r /\ j.next = a.next /\ j.aimed = a.aimed
  BY <1>2 DEF TypingRecords
<1>5. /\ KeysOf(h)' = KeysOf(h) /\ \A g \in Typists : KeysHeld(g)' = KeysHeld(g)
  BY DEF KeysOf, Of, KeysHeld
<1>6. r = "not_found" => KeysHeld(h) = {}
  BY BeforeTyping
<1>7. TypingSound(h, j)'
  BY <1>1, <1>4, <1>5, <1>6 DEF TypingSound
<1>8. HumanShape
  BY DEF HumanInv
<1>9. QED
  BY <1>1, <1>2, <1>3, <1>4, <1>5, <1>7, <1>8, OneTypesNothing DEF HumanShape

LEMMA AskingSteps ==
  ASSUME HumanInv, NEW h \in Typists, AsksToClick(h) \/ AsksToType(h)
  PROVE  HumanInv'
<1> USE HumanAssumption
<1>1. /\ human[h].step = "idle" /\ HumanShape
      /\ UNCHANGED <<onPage, inView, caret, button, strokes, keysDown, cable>>
  BY DEF AsksToClick, AsksToType, HumanInv
<1>2. <<>> \in Texts
  <2>1. <<>> \in [1..0 -> KeyKinds] /\ 0 \in 0..MaxKeys
    OBVIOUS
  <2>2. QED
    BY <2>1 DEF Texts
<1>3. AtEase \in TypingRecords
  BY <1>2 DEF AtEase, TypingRecords, HumanSteps
<1>4. PICK j \in TypingRecords :
        /\ j.step = "look" /\ j.report = "none" /\ j.next = 1 /\ j.lands = j.field /\ ~j.aimed
        /\ TypingGoes(h, j, {})
  <2>1. CASE AsksToType(h)
    <3>1. PICK f \in Fields, t \in Texts :
            TypingGoes(h, [AtEase EXCEPT !.kind = "type", !.field = f, !.lands = f, !.text = t,
                                         !.step = "look"], {})
      BY <2>1 DEF AsksToType
    <3>2. PICK j : j = [AtEase EXCEPT !.kind = "type", !.field = f, !.lands = f, !.text = t,
                                      !.step = "look"] /\ TypingGoes(h, j, {})
      BY <3>1
    <3>3. /\ j \in TypingRecords /\ j.step = "look" /\ j.report = "none" /\ j.next = 1
          /\ j.lands = j.field /\ ~j.aimed
      BY <3>2 DEF TypingRecords, AtEase, HumanSteps
    <3>4. QED
      BY <3>2, <3>3
  <2>2. CASE AsksToClick(h)
    <3>1. PICK f \in Fields : TypingGoes(h, [AtEase EXCEPT !.field = f, !.lands = f, !.step = "look"], {})
      BY <2>2 DEF AsksToClick
    <3>2. PICK j : j = [AtEase EXCEPT !.field = f, !.lands = f, !.step = "look"] /\ TypingGoes(h, j, {})
      BY <3>1
    <3>3. /\ j \in TypingRecords /\ j.step = "look" /\ j.lands = j.field
      BY <1>3, <3>2 DEF TypingRecords, HumanSteps
    <3>4. j.report = "none" /\ j.next = 1 /\ ~j.aimed
      BY <3>2 DEF AtEase
    <3>5. QED
      BY <3>2, <3>3, <3>4
  <2>3. QED
    BY <2>1, <2>2
<1>5. /\ KeysOf(h)' = KeysOf(h) /\ \A g \in Typists : KeysHeld(g)' = KeysHeld(g)
  BY <1>1 DEF KeysOf, Of, KeysHeld
<1>6. KeysOf(h) = {} /\ KeysHeld(h) = {}
  BY <1>1, BeforeTyping
<1>7. TypingSound(h, j)'
  BY <1>4, <1>5, <1>6 DEF TypingSound, Untouched
<1>8. QED
  BY <1>1, <1>4, <1>5, <1>6, <1>7, OneTypesNothing DEF HumanShape

LEMMA LookSteps ==
  ASSUME HumanInv, NEW h \in Typists, ClickLooks(h) \/ TypeLooks(h)
  PROVE  HumanInv'
<1> USE HumanAssumption
<1>1. PICK a \in TypingRecords : a = human[h] /\ TypingSound(h, a)
  BY DEF HumanInv, HumanShape
<1>2. /\ a.step = "look" /\ cable /\ HumanShape
      /\ UNCHANGED <<onPage, caret, button, strokes, keysDown, cable>>
  BY <1>1 DEF ClickLooks, TypeLooks, HumanInv
<1>3. KeysOf(h) = {} /\ KeysHeld(h) = {} /\ a.next = 1 /\ a.report = "none" /\ a.lands = a.field
  BY <1>1, <1>2, BeforeTyping
<1>4. /\ KeysOf(h)' = KeysOf(h) /\ \A g \in Typists : KeysHeld(g)' = KeysHeld(g)
  BY <1>2 DEF KeysOf, Of, KeysHeld
<1>5. ASSUME NEW aimed \in BOOLEAN, NEW steps, TypingGoes(h, [a EXCEPT !.aimed = aimed, !.step = "press"], steps),
             aimed => inView' = a.field, inView' \in onPage,
             inView' = inView \/ PlaceKnown \subseteq steps
      PROVE  HumanInv'
  <2>1. PICK j : j = [a EXCEPT !.aimed = aimed, !.step = "press"] /\ TypingGoes(h, j, steps)
    BY <1>5
  <2>2. /\ j \in TypingRecords /\ j.step = "press" /\ j.report = "none" /\ j.next = 1
        /\ j.lands = j.field /\ j.field = a.field
    BY <1>3, <2>1 DEF TypingRecords, HumanSteps
  <2>3. j.aimed = aimed
    BY <2>1 DEF TypingRecords
  <2>4. TypingSound(h, j)'
    BY <1>2, <1>3, <1>4, <1>5, <2>2, <2>3 DEF TypingSound, Untouched
  <2>5. QED
    BY <1>2, <1>3, <1>4, <1>5, <2>1, <2>2, <2>4, OneTypesNothing DEF HumanShape, PlaceKnown
<1>6. CASE TypingGoes(h, TypingTold(a, "not_found"), {}) /\ UNCHANGED inView
  BY <1>1, <1>2, <1>6, GivesUp
<1>7. CASE ClickLooks(h) /\ a.field \in onPage
  <2>1. /\ inView' = a.field
        /\ TypingGoes(h, [a EXCEPT !.aimed = TRUE, !.step = "press"],
                      IF inView = a.field THEN {} ELSE PlaceKnown)
    BY <1>1, <1>7 DEF ClickLooks
  <2>2. PICK steps : steps = IF inView = a.field THEN {} ELSE PlaceKnown
    OBVIOUS
  <2>3. QED
    BY <1>5, <1>7, <2>1, <2>2
<1>8. CASE TypeLooks(h) /\ a.field \in onPage
  <2>1. /\ TypingGoes(h, [a EXCEPT !.aimed = inView = a.field, !.step = "press"], {})
        /\ inView' = inView /\ inView \in onPage
    BY <1>1, <1>2, <1>8 DEF TypeLooks, HumanShape
  <2>2. (inView = a.field) \in BOOLEAN
    OBVIOUS
  <2>3. QED
    BY <1>5, <2>1, <2>2
<1>9. QED
  BY <1>1, <1>6, <1>7, <1>8 DEF ClickLooks, TypeLooks

LEMMA PressStep ==
  ASSUME HumanInv, NEW h \in Typists, Presses(h)
  PROVE  HumanInv'
<1> USE HumanAssumption
<1>1. PICK a \in TypingRecords : a = human[h] /\ TypingSound(h, a)
  BY DEF HumanInv, HumanShape
<1>2. /\ a.step = "press" /\ HumanShape
      /\ UNCHANGED <<onPage, inView, strokes, keysDown, cable>>
  BY <1>1 DEF Presses, HumanInv
<1>3. KeysOf(h) = {} /\ KeysHeld(h) = {} /\ a.next = 1 /\ a.report = "none" /\ a.lands = a.field
  BY <1>1, <1>2, BeforeTyping
<1>4. /\ KeysOf(h)' = KeysOf(h) /\ \A g \in Typists : KeysHeld(g)' = KeysHeld(g)
  BY <1>2 DEF KeysOf, Of, KeysHeld
<1>5. PICK j : j = [a EXCEPT !.step = "release"]
  OBVIOUS
<1>6. /\ j \in TypingRecords /\ j.step = "release" /\ j.report = "none" /\ j.next = 1
      /\ j.lands = j.field /\ j.field = a.field /\ j.aimed = a.aimed /\ j.swayed = a.swayed
  BY <1>3, <1>5 DEF TypingRecords, HumanSteps
<1>7. inView \in onPage /\ inView \in Fields /\ inView # NoField
  BY <1>2 DEF HumanShape
<1>8. Untouched(a) => cable /\ inView = a.field /\ Reaches(a) = inView
  BY <1>1, <1>2 DEF TypingSound, Reaches, Struck, Untouched
<1>9. Untouched(j) <=> Untouched(a)
  BY <1>6 DEF Untouched
<1>10. CASE Reaches(a) = NoField
  <2>1. TypingGoes(h, j, {}) /\ UNCHANGED <<caret, button>>
    BY <1>1, <1>5, <1>10 DEF Presses
  <2>2. ~Untouched(j)
    BY <1>7, <1>8, <1>9, <1>10
  <2>3. TypingSound(h, j)'
    BY <1>3, <1>4, <1>6, <2>2 DEF TypingSound, Untouched
  <2>4. QED
    BY <1>1, <1>2, <1>4, <1>6, <2>1, <2>3, OneTypesNothing DEF HumanShape
<1>11. CASE Reaches(a) # NoField
  <2>1. Reaches(a) = inView
    BY <1>11 DEF Reaches, Struck
  <2>2. TypingGoes(h, j, FocusTaken) /\ caret' = inView /\ button' = inView
    BY <1>1, <1>5, <1>11, <2>1 DEF Presses
  <2>3. TypingSound(h, j)'
    BY <1>2, <1>3, <1>4, <1>6, <1>8, <1>9, <2>2 DEF TypingSound, Untouched
  <2>4. QED
    BY <1>1, <1>2, <1>4, <1>6, <1>7, <2>2, <2>3, OneTypesNothing DEF HumanShape, FocusTaken
<1>12. QED
  BY <1>10, <1>11

LEMMA ReleaseStep ==
  ASSUME HumanInv, NEW h \in Typists, Releases(h)
  PROVE  HumanInv'
<1> USE HumanAssumption
<1>1. PICK a \in TypingRecords : a = human[h] /\ TypingSound(h, a)
  BY DEF HumanInv, HumanShape
<1>2. /\ a.step = "release" /\ HumanShape
      /\ UNCHANGED <<onPage, inView, caret, strokes, keysDown, cable>>
  BY <1>1 DEF Releases, HumanInv
<1>3. KeysOf(h) = {} /\ KeysHeld(h) = {} /\ a.next = 1 /\ a.report = "none" /\ a.lands = a.field
  BY <1>1, <1>2, BeforeTyping
<1>4. /\ KeysOf(h)' = KeysOf(h) /\ \A g \in Typists : KeysHeld(g)' = KeysHeld(g)
  BY <1>2 DEF KeysOf, Of, KeysHeld
<1>5. inView \in onPage /\ inView \in Fields /\ inView # NoField
  BY <1>2 DEF HumanShape
<1>6. PICK k \in TypingRecords :
        /\ TypingGoes(h, IF k.kind = "click" THEN TypingTold(k, "ok") ELSE TypesNext(k),
                      IF Reaches(a) = NoField THEN {} ELSE {"release"})
        /\ k.kind = a.kind /\ k.field = a.field /\ k.text = a.text /\ k.next = 1 /\ k.report = "none"
        /\ k.lands = a.field /\ k.step = a.step /\ k.aimed = a.aimed /\ k.swayed = a.swayed
        /\ Reaches(a) # NoField /\ Reaches(a) = button /\ Reaches(a) = a.field => k.clicked
  <2>1. PICK k : k = IF Reaches(a) # NoField /\ Reaches(a) = button /\ Reaches(a) = a.field
                     THEN [a EXCEPT !.clicked = TRUE] ELSE a
    OBVIOUS
  <2>2. ASSUME Reaches(a) # NoField /\ Reaches(a) = button /\ Reaches(a) = a.field
        PROVE  /\ k \in TypingRecords /\ k.clicked
               /\ k.kind = a.kind /\ k.field = a.field /\ k.text = a.text /\ k.next = 1
               /\ k.report = "none" /\ k.lands = a.field /\ k.step = a.step
               /\ k.aimed = a.aimed /\ k.swayed = a.swayed
    <3>1. k = [a EXCEPT !.clicked = TRUE]
      BY <2>1, <2>2
    <3>2. /\ k \in TypingRecords /\ k.clicked
          /\ k.kind = a.kind /\ k.field = a.field /\ k.text = a.text /\ k.next = 1 /\ k.report = "none"
          /\ k.lands = a.field /\ k.step = a.step
      BY <1>3, <3>1 DEF TypingRecords
    <3>3. k.aimed = a.aimed /\ k.swayed = a.swayed
      BY <3>1 DEF TypingRecords
    <3>4. QED
      BY <3>2, <3>3
  <2>3. ASSUME ~(Reaches(a) # NoField /\ Reaches(a) = button /\ Reaches(a) = a.field)
        PROVE  /\ k \in TypingRecords
               /\ k.kind = a.kind /\ k.field = a.field /\ k.text = a.text /\ k.next = 1
               /\ k.report = "none" /\ k.lands = a.field /\ k.step = a.step
               /\ k.aimed = a.aimed /\ k.swayed = a.swayed
    BY <1>3, <2>1, <2>3
  <2>4. TypingGoes(h, IF k.kind = "click" THEN TypingTold(k, "ok") ELSE TypesNext(k),
                   IF Reaches(a) = NoField THEN {} ELSE {"release"})
    <3>1. TypingGoes(h, IF a.kind = "click" THEN TypingTold(k, "ok") ELSE TypesNext(k),
                     IF Reaches(a) = NoField THEN {} ELSE {"release"})
      BY <1>1, <2>1 DEF Releases
    <3>2. k.kind = a.kind
      BY <2>2, <2>3
    <3>3. QED
      BY <3>1, <3>2
  <2>5. QED
    BY <2>2, <2>3, <2>4
<1>7. Untouched(a) => /\ inView = a.field /\ k.clicked /\ caret = a.field /\ caret \in onPage
                      /\ Reaches(a) = inView /\ cable
  BY <1>1, <1>2, <1>5, <1>6 DEF TypingSound, Reaches, Struck, Untouched
<1>8. Untouched(k) <=> Untouched(a)
  BY <1>6 DEF Untouched
<1>9. /\ button' \in {button, NoField}
      /\ TypingGoes(h, IF k.kind = "click" THEN TypingTold(k, "ok") ELSE TypesNext(k),
                    IF Reaches(a) = NoField THEN {} ELSE {"release"})
      /\ Reaches(a) = NoField => button' = button
  BY <1>1, <1>6 DEF Releases
<1>10. PICK steps : /\ steps = IF Reaches(a) = NoField THEN {} ELSE {"release"}
                    /\ button' = button \/ "release" \in steps
  BY <1>9
<1>11. ASSUME TypingGoes(h, TypingTold(k, "ok"), steps), k.kind = "type" => k.text = <<>>
       PROVE  HumanInv'
  <2>1. PICK j : j = [k EXCEPT !.report = "ok", !.step = "done"] /\ TypingGoes(h, j, steps)
    BY <1>11 DEF TypingTold
  <2>2. /\ j \in TypingRecords /\ j.step = "done" /\ j.report = "ok" /\ j.next = 1 /\ j.kind = k.kind
        /\ j.text = k.text
    BY <1>6, <2>1 DEF TypingRecords, HumanSteps
  <2>3. j.aimed = k.aimed /\ j.swayed = k.swayed /\ j.clicked = k.clicked
    BY <2>1 DEF TypingRecords
  <2>4. Untouched(j) => j.clicked
    BY <1>7, <1>8, <2>3 DEF Untouched
  <2>5. j.kind = "type" => j.text = <<>> /\ Len(j.text) = 0 /\ CharsIn(j.text) = {}
    BY <1>11, <2>2 DEF CharsIn
  <2>6. TypingSound(h, j)'
    BY <1>3, <1>4, <2>2, <2>4, <2>5 DEF TypingSound, Untouched, TypedSoFar, CharsIn
  <2>7. QED
    BY <1>1, <1>2, <1>4, <1>6, <1>9, <1>10, <2>1, <2>2, <2>3, <2>6, OneTypesNothing DEF HumanShape
<1>12. ASSUME TypingGoes(h, [k EXCEPT !.step = "down"], steps), k.kind = "type", 1 <= Len(k.text)
       PROVE  HumanInv'
  <2>1. PICK j : j = [k EXCEPT !.step = "down"] /\ TypingGoes(h, j, steps)
    BY <1>12
  <2>2. /\ j \in TypingRecords /\ j.step = "down" /\ j.report = "none" /\ j.next = 1 /\ j.kind = "type"
        /\ j.text = k.text /\ j.lands = a.field
    BY <1>6, <1>12, <2>1 DEF TypingRecords, HumanSteps
  <2>3. j.aimed = k.aimed /\ j.swayed = k.swayed /\ j.clicked = k.clicked
    BY <2>1 DEF TypingRecords
  <2>4. Untouched(j) => j.clicked /\ cable' /\ caret' = j.lands /\ caret' \in onPage'
    BY <1>2, <1>7, <1>8, <2>2, <2>3 DEF Untouched
  <2>5. j.next \in 1..Len(j.text)
    <3>1. Len(k.text) \in Nat
      BY <1>6 DEF TypingRecords, Texts
    <3>2. QED
      BY <1>12, <2>2, <3>1
  <2>6. TypedSoFar(j) = {}
    BY <2>2 DEF TypedSoFar
  <2>7. TypingSound(h, j)'
    BY <1>3, <1>4, <2>2, <2>4, <2>5, <2>6 DEF TypingSound, Untouched, TypedSoFar, CharsIn
  <2>8. QED
    BY <1>1, <1>2, <1>4, <1>6, <1>9, <1>10, <2>1, <2>2, <2>3, <2>7, OneTypesNothing DEF HumanShape
<1>13. CASE k.kind = "click" \/ ~(k.next <= Len(k.text))
  <2>1. TypingGoes(h, TypingTold(k, "ok"), steps)
    BY <1>9, <1>10, <1>13 DEF TypesNext
  <2>2. k.kind = "type" => k.text = <<>>
    <3> SUFFICES ASSUME k.kind = "type"
                 PROVE  k.text = <<>>
      OBVIOUS
    <3>1. PICK n \in Nat : k.text \in [1..n -> KeyKinds]
      BY <1>6 DEF TypingRecords, Texts
    <3>2. Len(k.text) = n
      BY <3>1
    <3>3. n = 0
      BY <1>6, <1>13, <3>2
    <3>4. QED
      BY <3>1, <3>3
  <2>3. QED
    BY <1>11, <2>1, <2>2
<1>14. CASE k.kind # "click" /\ k.next <= Len(k.text)
  <2>1. k.kind = "type" /\ 1 <= Len(k.text)
    BY <1>6, <1>14 DEF TypingRecords
  <2>2. TypingGoes(h, [k EXCEPT !.step = "down"], steps)
    BY <1>9, <1>10, <1>14 DEF TypesNext
  <2>3. QED
    BY <1>12, <2>1, <2>2
<1>15. QED
  BY <1>13, <1>14

(* A character that reaches the page is the last of its request so far.      *)
LEMMA CharacterArrives ==
  ASSUME HumanInv, NEW h \in Typists, NEW a \in TypingRecords, a = human[h], TypingSound(h, a),
         a.step = "down", NEW n \in StrokeRecords, n.by = h, n.key = a.next, n.field = caret,
         n.lands = a.lands, n.swayed = a.swayed, strokes' = Append(strokes, n)
  PROVE  /\ strokes' \in Seq(StrokeRecords)
         /\ KeysOf(h)' = KeysOf(h) \cup {a.next}
         /\ \A g \in Typists \ {h} : KeysOf(g)' = KeysOf(g)
         /\ (\A g \in Typists : human'[g].aimed = human[g].aimed) => StrokesSound'
<1>1. /\ strokes \in Seq(StrokeRecords) /\ strokes' \in Seq(StrokeRecords)
      /\ Len(strokes) \in Nat /\ Len(strokes') = Len(strokes) + 1
      /\ \A i \in 1..Len(strokes) : strokes'[i] = strokes[i] /\ strokes[i].by \in Typists
      /\ strokes'[Len(strokes) + 1] = n
  <2>1. strokes \in Seq(StrokeRecords)
    BY DEF HumanInv, HumanShape
  <2>2. \A i \in 1..Len(strokes) : strokes[i] \in StrokeRecords
    BY <2>1
  <2>3. \A i \in 1..Len(strokes) : strokes[i].by \in Typists
    BY <2>2 DEF StrokeRecords
  <2>4. QED
    BY <2>1, <2>3
<1>2. PICK l \in Nat : l = Len(strokes)
  BY <1>1
<1>3. 1..Len(strokes') = (1..l) \cup {l + 1} /\ l + 1 \notin 1..l
  BY <1>1, <1>2
<1>4. /\ Of(h)' = Of(h) \cup {l + 1}
      /\ \A g \in Typists \ {h} : Of(g)' = Of(g)
      /\ \A g \in Typists : Of(g) \subseteq 1..l
  BY <1>1, <1>2, <1>3 DEF Of
<1>5. KeysOf(h)' = KeysOf(h) \cup {a.next}
  BY <1>1, <1>2, <1>4 DEF KeysOf
<1>6. \A g \in Typists \ {h} : KeysOf(g)' = KeysOf(g)
  BY <1>1, <1>2, <1>4 DEF KeysOf
<1>7. \A x \in KeysOf(h) : x < a.next
  BY DEF TypingSound
<1>8. ASSUME \A g \in Typists : human'[g].aimed = human[g].aimed
      PROVE  StrokesSound'
  <2>1. ASSUME NEW i \in 1..l
        PROVE  /\ human'[strokes[i].by].aimed /\ ~strokes[i].swayed => strokes[i].field = strokes[i].lands
               /\ \A k \in 1..(l + 1) :
                    strokes'[k].by = strokes[i].by /\ i < k => strokes[i].key < strokes'[k].key
    <3>1. /\ strokes[i].by \in Typists /\ human'[strokes[i].by].aimed = human[strokes[i].by].aimed
          /\ strokes[i].key \in KeysOf(strokes[i].by)
      BY <1>1, <1>2, <1>8 DEF Of, KeysOf
    <3>2. human'[strokes[i].by].aimed /\ ~strokes[i].swayed => strokes[i].field = strokes[i].lands
      BY <1>2, <3>1 DEF HumanInv, StrokesSound
    <3>3. ASSUME NEW k \in 1..(l + 1), strokes'[k].by = strokes[i].by, i < k
          PROVE  strokes[i].key < strokes'[k].key
      <4>1. CASE k \in 1..l
        <5>1. strokes'[k] = strokes[k] /\ k \in Of(strokes[i].by)
          BY <1>1, <1>2, <3>3, <4>1 DEF Of
        <5>2. strokes[i].key < strokes[k].key
          BY <1>2, <3>3, <5>1 DEF HumanInv, StrokesSound
        <5>3. QED
          BY <5>1, <5>2
      <4>2. CASE k = l + 1
        <5>1. strokes'[k] = n /\ strokes[i].by = h
          BY <1>1, <1>2, <3>3, <4>2
        <5>2. strokes[i].key \in KeysOf(h) /\ strokes'[k].key = a.next
          BY <3>1, <5>1
        <5>3. QED
          BY <1>7, <5>2
      <4>3. QED
        BY <1>2, <4>1, <4>2
    <3>4. QED
      BY <3>2, <3>3
  <2>2. human'[h].aimed /\ ~n.swayed => n.field = n.lands
    BY <1>8 DEF TypingSound, Untouched
  <2>3. ASSUME NEW i \in 1..(l + 1)
        PROVE  /\ human'[strokes'[i].by].aimed /\ ~strokes'[i].swayed => strokes'[i].field = strokes'[i].lands
               /\ \A k \in 1..(l + 1) :
                    strokes'[k].by = strokes'[i].by /\ i < k => strokes'[i].key < strokes'[k].key
    <3>1. CASE i \in 1..l
      <4>1. strokes'[i] = strokes[i]
        BY <1>1, <1>2, <3>1
      <4>2. QED
        BY <2>1, <3>1, <4>1
    <3>2. CASE i = l + 1
      <4>1. strokes'[i] = n
        BY <1>1, <1>2, <3>2
      <4>2. \A k \in 1..(l + 1) : ~(i < k)
        BY <1>2, <3>2
      <4>3. QED
        BY <2>2, <4>1, <4>2
    <3>3. QED
      BY <1>2, <3>1, <3>2
  <2>4. 1..Len(strokes') = 1..(l + 1)
    BY <1>1, <1>2
  <2>5. QED
    BY <2>3, <2>4 DEF StrokesSound, Of
<1>9. QED
  BY <1>1, <1>5, <1>6, <1>8

LEMMA KeyDownStep ==
  ASSUME HumanInv, NEW h \in Typists, KeyGoesDown(h)
  PROVE  HumanInv'
<1> USE HumanAssumption
<1>1. PICK a \in TypingRecords : a = human[h] /\ TypingSound(h, a)
  BY DEF HumanInv, HumanShape
<1>2. /\ a.step = "down" /\ cable /\ HumanShape /\ a.report = "none" /\ a.kind = "type"
      /\ a.next \in 1..Len(a.text) /\ a.next \in Nat
      /\ UNCHANGED <<onPage, inView, button, cable>>
  BY <1>1 DEF KeyGoesDown, HumanInv, TypingSound, TypingRecords
<1>3. /\ keysDown' = keysDown \cup {<<h, a.next>>} /\ keysDown' \subseteq Typists \X Nat
      /\ KeysHeld(h) = {} /\ KeysHeld(h)' = {<<h, a.next>>}
      /\ \A g \in Typists \ {h} : KeysHeld(g)' = KeysHeld(g)
  <2>1. keysDown' = keysDown \cup {<<h, a.next>>} /\ keysDown \subseteq Typists \X Nat
    BY <1>1, <1>2 DEF KeyGoesDown, HumanShape
  <2>2. KeysHeld(h) = {}
    BY <1>1, <1>2 DEF TypingSound
  <2>3. <<h, a.next>>[1] = h
    OBVIOUS
  <2>4. KeysHeld(h)' = {<<h, a.next>>}
    BY <2>1, <2>2, <2>3 DEF KeysHeld
  <2>5. \A g \in Typists \ {h} : KeysHeld(g)' = KeysHeld(g)
    BY <2>1, <2>3 DEF KeysHeld
  <2>6. QED
    BY <1>2, <2>1, <2>2, <2>4, <2>5
<1>4. PICK lands \in Fields \cup {NoField} : lands = IF a.text[a.next] = "tab" THEN TabFrom(a.lands) ELSE a.lands
  BY <1>2 DEF TabFrom, TypingRecords, HumanShape
<1>5. PICK j : j = [a EXCEPT !.step = "up", !.lands = lands]
  OBVIOUS
<1>6. /\ j \in TypingRecords /\ j.step = "up" /\ j.report = "none" /\ j.next = a.next /\ j.kind = "type"
      /\ j.text = a.text /\ j.lands = lands
  BY <1>2, <1>5 DEF TypingRecords, HumanSteps
<1>7. j.aimed = a.aimed /\ j.swayed = a.swayed /\ j.clicked = a.clicked
  BY <1>5 DEF TypingRecords
<1>8. PICK steps : /\ steps = IF a.text[a.next] = "tab" THEN FocusTaken ELSE {}
                   /\ TypingGoes(h, j, steps)
  <2>1. CASE a.text[a.next] = "tab"
    BY <1>1, <1>4, <1>5, <2>1 DEF KeyGoesDown
  <2>2. CASE a.text[a.next] # "tab"
    BY <1>1, <1>4, <1>5, <2>2 DEF KeyGoesDown
  <2>3. QED
    BY <2>1, <2>2
<1>9. human'[h].aimed = human[h].aimed
  BY <1>1, <1>7, <1>8 DEF TypingGoes
<1>10. Untouched(j) => /\ Untouched(a) /\ caret = a.lands /\ caret \in onPage /\ a.clicked
                       /\ KeysOf(h) = CharsIn(a.text) \cap 1..(a.next - 1)
  BY <1>1, <1>2, <1>7 DEF TypingSound, Untouched, TypedSoFar
<1>11. \A x \in KeysOf(h) : x < a.next
  BY <1>1, <1>2 DEF TypingSound
<1>12. ASSUME Untouched(j) => caret' = lands /\ caret' \in onPage,
              KeysOf(h)' = KeysOf(h) \/ KeysOf(h)' = KeysOf(h) \cup {a.next},
              Untouched(j) => KeysOf(h)' = CharsIn(a.text) \cap 1..a.next
       PROVE  TypingSound(h, j)'
  <2>1. \A x \in KeysOf(h)' : x < a.next \/ x = a.next
    BY <1>11, <1>12
  <2>2. Untouched(j) => KeysOf(h)' = TypedSoFar(j)
    BY <1>6, <1>12 DEF TypedSoFar
  <2>3. Untouched(j)' <=> Untouched(j)
    BY DEF Untouched
  <2>4. TypedSoFar(j)' = TypedSoFar(j)
    BY DEF TypedSoFar, CharsIn
  <2>5. QED
    BY <1>2, <1>3, <1>6, <1>7, <1>10, <1>12, <2>1, <2>2, <2>3, <2>4 DEF TypingSound
<1>13. a.next \in 1..Len(a.text) /\ 1..a.next = (1..(a.next - 1)) \cup {a.next}
  BY <1>2
<1>14. CASE a.text[a.next] = "tab"
  <2>1. caret' = TabFrom(caret) /\ UNCHANGED strokes
    BY <1>1, <1>14 DEF KeyGoesDown
  <2>2. caret' \in onPage /\ steps = FocusTaken
    BY <1>2, <1>8, <1>14, <2>1 DEF TabFrom, HumanShape
  <2>3. Untouched(j) => caret' = lands
    BY <1>4, <1>10, <1>14, <2>1
  <2>4. KeysOf(h)' = KeysOf(h)
    BY <2>1 DEF KeysOf, Of
  <2>5. a.next \notin CharsIn(a.text)
    BY <1>14 DEF CharsIn
  <2>6. Untouched(j) => KeysOf(h)' = CharsIn(a.text) \cap 1..a.next
    BY <1>10, <1>13, <2>4, <2>5
  <2>7. TypingSound(h, j)'
    BY <1>12, <2>2, <2>3, <2>4, <2>6
  <2>8. QED
    BY <1>1, <1>2, <1>3, <1>6, <1>7, <1>8, <2>1, <2>2, <2>7, OneTypesNothing DEF HumanShape, FocusTaken
<1>15. CASE a.text[a.next] # "tab" /\ caret = NoField
  <2>1. UNCHANGED <<caret, strokes>>
    BY <1>1, <1>15 DEF KeyGoesDown
  <2>2. ~Untouched(j)
    BY <1>2, <1>10, <1>15 DEF HumanShape
  <2>3. KeysOf(h)' = KeysOf(h)
    BY <2>1 DEF KeysOf, Of
  <2>4. TypingSound(h, j)'
    BY <1>12, <2>2, <2>3
  <2>5. QED
    BY <1>1, <1>2, <1>3, <1>6, <1>7, <1>8, <2>1, <2>4, OneTypesNothing DEF HumanShape
<1>16. CASE a.text[a.next] # "tab" /\ caret # NoField
  <2>1. caret' = caret /\ caret \in onPage /\ caret \in Fields
    BY <1>1, <1>2, <1>16 DEF KeyGoesDown, HumanShape
  <2>2. PICK n : /\ n = [by |-> h, key |-> a.next, field |-> caret, lands |-> a.lands, swayed |-> a.swayed]
                 /\ strokes' = Append(strokes, n)
    BY <1>1, <1>16 DEF KeyGoesDown
  <2>3. n \in StrokeRecords
    BY <1>2, <2>1, <2>2 DEF StrokeRecords, TypingRecords
  <2>4. /\ n.by = h /\ n.key = a.next /\ n.field = caret /\ n.lands = a.lands /\ n.swayed = a.swayed
    BY <2>2
  <2>5. /\ strokes' \in Seq(StrokeRecords)
        /\ KeysOf(h)' = KeysOf(h) \cup {a.next}
        /\ \A g \in Typists \ {h} : KeysOf(g)' = KeysOf(g)
        /\ (\A g \in Typists : human'[g].aimed = human[g].aimed) => StrokesSound'
    BY <1>1, <1>2, <2>2, <2>3, <2>4, CharacterArrives
  <2>6. a.next \in CharsIn(a.text)
    <3>1. PICK m \in Nat : a.text \in [1..m -> KeyKinds]
      BY DEF TypingRecords, Texts
    <3>2. Len(a.text) = m
      BY <3>1
    <3>3. QED
      BY <1>2, <1>16, <3>1, <3>2 DEF CharsIn, KeyKinds
  <2>7. Untouched(j) => KeysOf(h)' = CharsIn(a.text) \cap 1..a.next
    BY <1>10, <1>13, <2>5, <2>6
  <2>8. Untouched(j) => caret' = lands /\ caret' \in onPage
    BY <1>4, <1>10, <1>16, <2>1
  <2>9. TypingSound(h, j)'
    BY <1>12, <2>5, <2>7, <2>8
  <2>10. (\A g \in Typists \ {h} : human'[g].aimed = human[g].aimed) => StrokesSound'
    BY <1>9, <2>5
  <2>11. QED
    BY <1>2, <1>3, <1>6, <1>8, <2>1, <2>5, <2>9, <2>10, OneTypes DEF HumanShape
<1>17. QED
  BY <1>14, <1>15, <1>16

LEMMA KeyUpStep ==
  ASSUME HumanInv, NEW h \in Typists, KeyGoesUp(h)
  PROVE  HumanInv'
<1> USE HumanAssumption
<1>1. PICK a \in TypingRecords : a = human[h] /\ TypingSound(h, a)
  BY DEF HumanInv, HumanShape
<1>2. /\ a.step = "up" /\ cable /\ HumanShape /\ a.report = "none" /\ a.kind = "type"
      /\ a.next \in 1..Len(a.text) /\ a.next \in Nat /\ Len(a.text) \in Nat
      /\ UNCHANGED <<onPage, inView, caret, button, strokes, cable>>
  <2>1. /\ a.step = "up" /\ cable /\ HumanShape /\ a.report = "none" /\ a.kind = "type"
        /\ a.next \in 1..Len(a.text) /\ a.next \in Nat
        /\ UNCHANGED <<onPage, inView, caret, button, strokes, cable>>
    BY <1>1 DEF KeyGoesUp, HumanInv, TypingSound, TypingRecords
  <2>2. Len(a.text) \in Nat
    BY DEF TypingRecords, Texts
  <2>3. QED
    BY <2>1, <2>2
<1>3. /\ keysDown' \subseteq Typists \X Nat /\ KeysHeld(h)' = {} /\ KeysOf(h)' = KeysOf(h)
      /\ \A g \in Typists \ {h} : KeysHeld(g)' = KeysHeld(g)
  <2>1. keysDown' = keysDown \ {<<h, a.next>>} /\ keysDown \subseteq Typists \X Nat
    BY <1>1, <1>2 DEF KeyGoesUp, HumanShape
  <2>2. KeysHeld(h) \subseteq {<<h, a.next>>}
    BY <1>1 DEF TypingSound
  <2>3. <<h, a.next>>[1] = h
    OBVIOUS
  <2>4. KeysHeld(h)' = {}
    BY <2>1, <2>2 DEF KeysHeld
  <2>5. \A g \in Typists \ {h} : KeysHeld(g)' = KeysHeld(g)
    BY <2>1, <2>3 DEF KeysHeld
  <2>6. KeysOf(h)' = KeysOf(h)
    BY <1>2 DEF KeysOf, Of
  <2>7. QED
    BY <2>1, <2>4, <2>5, <2>6
<1>4. \A x \in KeysOf(h) : x < a.next + 1
  <2>1. ASSUME NEW x \in KeysOf(h)
        PROVE  x < a.next + 1
    <3>1. x < a.next \/ x = a.next
      BY <1>1 DEF TypingSound
    <3>2. x \in Nat
      <4>1. \A i \in Of(h) : strokes[i] \in StrokeRecords
        BY <1>2 DEF Of, HumanShape
      <4>2. \A i \in Of(h) : strokes[i].key \in Nat
        BY <4>1 DEF StrokeRecords
      <4>3. QED
        BY <4>2 DEF KeysOf
    <3>3. QED
      BY <1>2, <3>1, <3>2
  <2>2. QED
    BY <2>1
<1>5. Untouched(a) => /\ caret = a.lands /\ caret \in onPage /\ a.clicked
                      /\ KeysOf(h) = CharsIn(a.text) \cap 1..a.next
  BY <1>1, <1>2 DEF TypingSound, TypedSoFar
<1>6. PICK k : k = [a EXCEPT !.next = @ + 1] /\ TypingGoes(h, TypesNext(k), {})
  BY <1>1 DEF KeyGoesUp
<1>7. /\ k \in TypingRecords /\ k.next = a.next + 1 /\ k.kind = "type" /\ k.text = a.text
      /\ k.lands = a.lands /\ k.report = "none"
  BY <1>2, <1>6 DEF TypingRecords
<1>8. k.aimed = a.aimed /\ k.swayed = a.swayed /\ k.clicked = a.clicked
  BY <1>6 DEF TypingRecords
<1>9. ASSUME NEW step \in {"down", "done"}, NEW r \in {"none", "ok"},
             TypingGoes(h, [k EXCEPT !.report = r, !.step = step], {}),
             \/ step = "down" /\ r = "none" /\ a.next + 1 <= Len(a.text)
             \/ step = "done" /\ r = "ok" /\ a.next = Len(a.text)
      PROVE  HumanInv'
  <2>1. PICK j : j = [k EXCEPT !.report = r, !.step = step] /\ TypingGoes(h, j, {})
    BY <1>9
  <2>2. /\ j \in TypingRecords /\ j.step = step /\ j.report = r /\ j.next = a.next + 1
        /\ j.kind = "type" /\ j.text = a.text /\ j.lands = a.lands
    BY <1>7, <2>1 DEF TypingRecords, HumanSteps
  <2>3. j.aimed = a.aimed /\ j.swayed = a.swayed /\ j.clicked = a.clicked
    BY <1>8, <2>1 DEF TypingRecords
  <2>4. Untouched(j) <=> Untouched(a)
    BY <2>3 DEF Untouched
  <2>5. Untouched(j) => KeysOf(h) = TypedSoFar(j)
    <3>1. CASE step = "down"
      BY <1>2, <1>5, <2>2, <2>4, <3>1 DEF TypedSoFar
    <3>2. CASE step = "done"
      <4>1. CharsIn(a.text) \cap 1..a.next = CharsIn(a.text)
        BY <1>9, <3>2 DEF CharsIn
      <4>2. QED
        BY <1>5, <2>2, <2>4, <3>2, <4>1 DEF TypedSoFar
    <3>3. QED
      BY <3>1, <3>2
  <2>6. /\ j.step = "down" => j.next \in 1..Len(j.text)
        /\ j.report = "ok" => j.next = Len(j.text) + 1
    BY <1>2, <1>9, <2>2
  <2>7. Untouched(j)' <=> Untouched(j)
    BY DEF Untouched
  <2>8. TypedSoFar(j)' = TypedSoFar(j)
    BY DEF TypedSoFar, CharsIn
  <2>9. TypingSound(h, j)'
    BY <1>2, <1>3, <1>4, <1>5, <1>9, <2>2, <2>3, <2>4, <2>5, <2>6, <2>7, <2>8 DEF TypingSound
  <2>10. QED
    BY <1>1, <1>2, <1>3, <2>1, <2>2, <2>3, <2>9, OneTypesNothing DEF HumanShape
<1>10. CASE k.next <= Len(k.text)
  <2>1. [k EXCEPT !.report = "none", !.step = "down"] = [k EXCEPT !.step = "down"]
    BY <1>7 DEF TypingRecords
  <2>2. TypingGoes(h, [k EXCEPT !.report = "none", !.step = "down"], {})
    BY <1>6, <1>10, <2>1 DEF TypesNext
  <2>3. QED
    BY <1>7, <1>9, <1>10, <2>2
<1>11. CASE ~(k.next <= Len(k.text))
  <2>1. TypingGoes(h, [k EXCEPT !.report = "ok", !.step = "done"], {})
    BY <1>6, <1>11 DEF TypesNext, TypingTold
  <2>2. a.next = Len(a.text)
    BY <1>2, <1>7, <1>11
  <2>3. QED
    BY <1>9, <2>1, <2>2
<1>12. QED
  BY <1>10, <1>11

(* The cable breaks under all requests.                                      *)
LEMMA WireStep ==
  ASSUME HumanInv, WireBreaks
  PROVE  HumanInv'
<1>1. /\ HumanShape /\ StrokesSound /\ cable' = FALSE
      /\ UNCHANGED <<onPage, inView, caret, button, strokes, keysDown>>
      /\ human \in [Typists -> TypingRecords]
  BY DEF HumanInv, HumanShape, WireBreaks
<1>2. /\ human' = [g \in Typists |-> human'[g]]
      /\ \A g \in Typists :
           human'[g] = [human[g] EXCEPT !.swayed = @ \/ human[g].step \notin {"idle", "done"}]
  BY DEF WireBreaks
<1>3. ASSUME NEW g \in Typists
      PROVE  human'[g] \in TypingRecords /\ TypingSound(g, human[g])' /\ human'[g].aimed = human[g].aimed
  <2>1. PICK a \in TypingRecords : a = human[g]
    BY <1>1
  <2>2. PICK sway \in BOOLEAN : sway = (a.step \notin {"idle", "done"})
    <3>1. (a.step \notin {"idle", "done"}) \in BOOLEAN
      OBVIOUS
    <3>2. QED
      BY ONLY <3>1, Zenon
  <2>3. human'[g] = [a EXCEPT !.swayed = @ \/ sway]
    BY <1>2, <2>1, <2>2
  <2>4. sway \/ a.step \in {"idle", "done"}
    BY <2>2
  <2>5. KeysOf(g)' = KeysOf(g) /\ KeysHeld(g)' = KeysHeld(g)
    BY <1>1 DEF KeysOf, Of, KeysHeld
  <2>6. QED
    BY <1>1, <2>1, <2>3, <2>4, <2>5, BystanderKept
<1>4. human' \in [Typists -> TypingRecords]
  BY <1>2, <1>3
<1>5. StrokesSound'
  <2>1. ASSUME NEW i \in 1..Len(strokes)
        PROVE  human'[strokes[i].by].aimed = human[strokes[i].by].aimed
    <3>1. strokes \in Seq(StrokeRecords)
      BY <1>1 DEF HumanShape
    <3>2. strokes[i] \in StrokeRecords
      BY <3>1
    <3>3. strokes[i].by \in Typists
      BY <3>2 DEF StrokeRecords
    <3>4. QED
      BY <1>3, <3>3
  <2>2. \A i \in 1..Len(strokes) : Of(strokes[i].by)' = Of(strokes[i].by)
    BY <1>1 DEF Of
  <2>3. QED
    BY <1>1, <2>1, <2>2 DEF StrokesSound
<1>6. HumanShape'
  BY <1>1, <1>4 DEF HumanShape
<1>7. QED
  BY <1>3, <1>5, <1>6 DEF HumanInv

LEMMA HumanStep == HumanInv /\ [HumanNext]_humanVars => HumanInv'
<1> SUFFICES ASSUME HumanInv, [HumanNext]_humanVars
             PROVE  HumanInv'
  OBVIOUS
<1>1. CASE UNCHANGED humanVars
  <2>1. HumanShape' /\ StrokesSound'
    BY <1>1 DEF humanVars, HumanInv, HumanShape, StrokesSound, Of
  <2>2. ASSUME NEW g \in Typists
        PROVE  TypingSound(g, human[g])'
    <3>1. human'[g] = human[g] /\ KeysOf(g)' = KeysOf(g) /\ KeysHeld(g)' = KeysHeld(g)
          /\ UNCHANGED <<onPage, inView, caret, button, cable>>
      BY <1>1 DEF humanVars, KeysOf, Of, KeysHeld
    <3>2. TypedSoFar(human[g])' = TypedSoFar(human[g]) /\ Untouched(human[g])' = Untouched(human[g])
      BY <3>1 DEF TypedSoFar, CharsIn, Untouched
    <3>3. QED
      BY <3>1, <3>2 DEF HumanInv, TypingSound
  <2>3. QED
    BY <2>1, <2>2 DEF HumanInv
<1>2. ASSUME NEW h \in Typists, KeyRaises(h)
      PROVE  HumanInv'
  BY <1>2, GivesUp DEF KeyRaises
<1>3. QED
  BY <1>1, <1>2, AskingSteps, LookSteps, PressStep, ReleaseStep, KeyDownStep, KeyUpStep, WireStep
     DEF HumanNext

(* However the requests on a tab interleave with the pauses of the input     *)
(* (click and type_text of behavioral_engine.py, type_text of                *)
(* behavioral_typing.py): an answered text is complete, in order and in its  *)
(* own field, a click falls on its own field, and no key is left down,       *)
(* except where another request pressed, tabbed or scrolled in between, the  *)
(* place was never in sight, or the request failed.                          *)
THEOREM KeysLandWell == HumanInit /\ [][HumanNext]_humanVars => []KeysLand
<1>1. HumanInv /\ [HumanNext]_humanVars => HumanInv'
  BY HumanStep
<1>2. HumanInv => KeysLand
  <2> SUFFICES ASSUME HumanInv
               PROVE  KeysLand
    OBVIOUS
  <2>1. ASSUME NEW h \in Typists
        PROVE  LET j == human[h] IN
               /\ j.report = "ok" /\ j.kind = "type" /\ j.aimed /\ ~j.swayed =>
                    {strokes[i].key : i \in Of(h)} = CharsIn(j.text)
               /\ j.report = "ok" /\ j.kind = "type" => j.next = Len(j.text) + 1 /\ KeysHeld(h) = {}
               /\ j.report = "ok" /\ j.aimed /\ ~j.swayed => j.clicked
               /\ KeysHeld(h) # {} => j.step = "up" \/ j.report = "failed"
    <3>1. PICK j \in TypingRecords : j = human[h] /\ TypingSound(h, j)
      BY DEF HumanInv, HumanShape
    <3>2. j.report = "ok" => j.step = "done"
      BY <3>1 DEF TypingSound
    <3>3. j.report = "ok" /\ j.kind = "type" /\ Untouched(j) => KeysOf(h) = CharsIn(j.text)
      BY <3>1, <3>2 DEF TypingSound, TypedSoFar
    <3>4. QED
      BY <3>1, <3>2, <3>3 DEF TypingSound, Untouched, KeysOf
  <2>2. QED
    BY <2>1 DEF HumanInv, StrokesSound, KeysLand
<1>3. QED
  BY HumanInitial, <1>1, <1>2, PTL

(* Human input: the keys of a text have its numbers, and characters are in   *)
(* fields of the page.                                                       *)
HumanLimits ==
    /\ \A h \in Typists : human[h].next \in 1..(MaxKeys + 1)
    /\ keysDown \subseteq Typists \X (1..MaxKeys)
    /\ \A i \in 1..Len(strokes) : strokes[i].field \in onPage

LEMMA TextFits ==
  ASSUME NEW t \in Texts
  PROVE  Len(t) \in 0..MaxKeys
<1>1. PICK n \in 0..MaxKeys : t \in [1..n -> KeyKinds]
  BY DEF Texts
<1>2. t \in Seq(KeyKinds) /\ Len(t) = n
  BY <1>1, HumanAssumption
<1>3. QED
  BY <1>2

LEMMA HumanTyped == HumanInv /\ HumanLimits => HumanTypeOK
<1> SUFFICES ASSUME HumanInv, HumanLimits
             PROVE  HumanTypeOK
  OBVIOUS
<1>1. HumanShape
  BY DEF HumanInv
<1>2. \A h \in Typists : human[h] \in TypingRecords
  BY <1>1 DEF HumanShape
<1>3. \A i \in 1..Len(strokes) : strokes[i] \in StrokeRecords
  BY <1>1 DEF HumanShape
<1>4. \A i \in 1..Len(strokes) : strokes[i].by \in Typists /\ strokes[i].field \in onPage
  BY <1>3 DEF StrokeRecords, HumanLimits
<1>5. /\ onPage \subseteq Fields /\ inView \in onPage
      /\ caret \in Fields \cup {NoField} /\ button \in Fields \cup {NoField} /\ cable \in BOOLEAN
  BY <1>1 DEF HumanShape
<1>6. \A h \in Typists :
        /\ human[h].kind \in {"click", "type"} /\ human[h].field \in Fields \cup {NoField}
        /\ human[h].step \in HumanSteps /\ human[h].text \in Texts
        /\ human[h].report \in {"none", "ok", "not_found", "failed"}
  BY <1>2 DEF TypingRecords
<1>7. QED
  BY <1>4, <1>5, <1>6 DEF HumanLimits, HumanTypeOK

(* A request goes on with a key of its text, or without one.                 *)
LEMMA GoesWithin ==
  ASSUME HumanInv, HumanLimits, NEW h \in Typists, NEW j, NEW steps, TypingGoes(h, j, steps),
         j.next \in 1..(MaxKeys + 1), keysDown' \subseteq Typists \X (1..MaxKeys),
         UNCHANGED <<strokes, onPage>>
  PROVE  HumanLimits'
<1>1. \A g \in Typists : human[g] \in TypingRecords
  BY DEF HumanInv, HumanShape
<1>2. ASSUME NEW g \in Typists
      PROVE  human'[g].next \in 1..(MaxKeys + 1)
  <2>1. CASE g = h
    BY <2>1 DEF TypingGoes
  <2>2. CASE g # h
    <3>1. human'[g] = [human[g] EXCEPT !.swayed = @ \/ human[g].step \in steps]
      BY <2>2 DEF TypingGoes
    <3>2. human'[g].next = human[g].next
      BY <1>1, <3>1 DEF TypingRecords
    <3>3. QED
      BY <3>2 DEF HumanLimits
  <2>3. QED
    BY <2>1, <2>2
<1>3. QED
  BY <1>2 DEF HumanLimits

LEMMA HumanStarts == HumanInit => HumanLimits
BY HumanAssumption DEF HumanInit, HumanLimits, AtEase

LEMMA HumanGoesOn ==
  ASSUME HumanInv, HumanLimits, NEW h \in Typists,
         \/ AsksToClick(h) \/ AsksToType(h) \/ ClickLooks(h) \/ TypeLooks(h)
         \/ Presses(h) \/ Releases(h) \/ KeyRaises(h)
  PROVE  HumanLimits'
<1>1. human[h] \in TypingRecords /\ human[h].next \in 1..(MaxKeys + 1)
  BY DEF HumanInv, HumanShape, HumanLimits
<1>2. keysDown \subseteq Typists \X (1..MaxKeys) /\ UNCHANGED <<strokes, onPage, keysDown>>
  BY DEF HumanLimits, AsksToClick, AsksToType, ClickLooks, TypeLooks, Presses, Releases, KeyRaises
<1>3. 1 \in 1..(MaxKeys + 1)
  BY HumanAssumption
<1>4. CASE AsksToClick(h) \/ AsksToType(h)
  <2>1. PICK f, t, kind, steps :
           TypingGoes(h, [AtEase EXCEPT !.field = f, !.lands = f, !.step = "look"], steps)
             \/ TypingGoes(h, [AtEase EXCEPT !.kind = "type", !.field = f, !.lands = f, !.text = t,
                                             !.step = "look"], steps)
    BY <1>4 DEF AsksToClick, AsksToType
  <2>2. PICK a : a = [AtEase EXCEPT !.field = f, !.lands = f, !.step = "look"]
    OBVIOUS
  <2>3. PICK b : b = [AtEase EXCEPT !.kind = "type", !.field = f, !.lands = f, !.text = t, !.step = "look"]
    OBVIOUS
  <2>4. a.next = 1 /\ b.next = 1
    BY <2>2, <2>3 DEF AtEase
  <2>5. PICK j : TypingGoes(h, j, steps) /\ j.next = 1
    BY <2>1, <2>2, <2>3, <2>4
  <2>6. QED
    BY <1>2, <1>3, <2>5, GoesWithin
<1>5. CASE \/ ClickLooks(h) \/ TypeLooks(h) \/ Presses(h) \/ Releases(h) \/ KeyRaises(h)
  <2>1. \E j, steps : TypingGoes(h, j, steps) /\ j.next = human[h].next
    <3>1. CASE ClickLooks(h) \/ TypeLooks(h)
      <4>1. PICK a, b, c : /\ a = [human[h] EXCEPT !.report = "not_found", !.step = "done"]
                           /\ b = [human[h] EXCEPT !.aimed = TRUE, !.step = "press"]
                           /\ c = [human[h] EXCEPT !.aimed = inView = human[h].field, !.step = "press"]
        OBVIOUS
      <4>2. a.next = human[h].next /\ b.next = human[h].next /\ c.next = human[h].next
        BY <1>1, <4>1 DEF TypingRecords
      <4>3. \E steps : TypingGoes(h, a, steps) \/ TypingGoes(h, b, steps) \/ TypingGoes(h, c, steps)
        BY <3>1, <4>1 DEF ClickLooks, TypeLooks, TypingTold
      <4>4. QED
        BY <4>2, <4>3
    <3>2. CASE Presses(h)
      BY <1>1, <3>2 DEF Presses, TypingRecords
    <3>3. CASE KeyRaises(h)
      <4>1. PICK a : a = [human[h] EXCEPT !.report = "failed", !.step = "done"]
        OBVIOUS
      <4>2. a.next = human[h].next
        BY <1>1, <4>1 DEF TypingRecords
      <4>3. TypingGoes(h, a, {})
        BY <3>3, <4>1 DEF KeyRaises, TypingTold
      <4>4. QED
        BY <4>2, <4>3
    <3>4. CASE Releases(h)
      <4>1. PICK k : /\ k = human[h] \/ k = [human[h] EXCEPT !.clicked = TRUE]
                     /\ \E steps : TypingGoes(h, IF human[h].kind = "click" THEN TypingTold(k, "ok") ELSE TypesNext(k),
                                              steps)
        BY <3>4 DEF Releases
      <4>2. k \in TypingRecords /\ k.next = human[h].next
        BY <1>1, <4>1 DEF TypingRecords
      <4>3. TypingTold(k, "ok").next = k.next /\ TypesNext(k).next = k.next
        BY <4>2 DEF TypingTold, TypesNext, TypingRecords
      <4>4. QED
        BY <4>1, <4>2, <4>3
    <3>5. QED
      BY <1>5, <3>1, <3>2, <3>3, <3>4
  <2>2. QED
    BY <1>1, <1>2, <2>1, GoesWithin
<1>6. QED
  BY <1>4, <1>5

LEMMA KeyStays ==
  ASSUME HumanInv, HumanLimits, NEW h \in Typists, KeyGoesDown(h) \/ KeyGoesUp(h)
  PROVE  HumanLimits'
<1>1. human[h] \in TypingRecords /\ human[h].next \in 1..Len(human[h].text) /\ Len(human[h].text) \in 0..MaxKeys
  <2>1. human[h] \in TypingRecords /\ human[h].text \in Texts
    BY DEF HumanInv, HumanShape, TypingRecords
  <2>2. human[h].next \in 1..Len(human[h].text)
    BY DEF HumanInv, TypingSound, KeyGoesDown, KeyGoesUp
  <2>3. QED
    BY <2>1, <2>2, TextFits
<1>2. PICK n \in 1..MaxKeys : n = human[h].next
  <2>1. human[h].next \in 1..MaxKeys
    BY ONLY <1>1, HumanAssumption
  <2>2. QED
    BY ONLY <2>1
<1>3. n \in 1..(MaxKeys + 1) /\ n + 1 \in 1..(MaxKeys + 1)
  BY <1>2, HumanAssumption
<1>4. CASE KeyGoesUp(h)
  <2>1. PICK k : k = [human[h] EXCEPT !.next = @ + 1]
    OBVIOUS
  <2>2. k \in TypingRecords /\ k.next = n + 1
    BY <1>1, <1>2, <2>1 DEF TypingRecords
  <2>3. TypesNext(k).next = n + 1
    BY <2>2 DEF TypesNext, TypingTold, TypingRecords
  <2>4. TypingGoes(h, TypesNext(k), {})
    BY <1>4, <2>1 DEF KeyGoesUp
  <2>5. keysDown' \subseteq Typists \X (1..MaxKeys) /\ UNCHANGED <<strokes, onPage>>
    BY <1>4 DEF KeyGoesUp, HumanLimits
  <2>6. QED
    BY <1>3, <2>3, <2>4, <2>5, GoesWithin
<1>5. CASE KeyGoesDown(h)
  <2>1. PICK lands, steps : TypingGoes(h, [human[h] EXCEPT !.step = "up", !.lands = lands], steps)
    BY <1>5 DEF KeyGoesDown
  <2>2. PICK k : k = [human[h] EXCEPT !.step = "up", !.lands = lands]
    OBVIOUS
  <2>3. k.next = n
    BY <1>1, <1>2, <2>2 DEF TypingRecords
  <2>4. keysDown' \subseteq Typists \X (1..MaxKeys) /\ UNCHANGED onPage
    BY <1>2, <1>5 DEF KeyGoesDown, HumanLimits
  <2>5. \A g \in Typists : human[g] \in TypingRecords
    BY DEF HumanInv, HumanShape
  <2>6. ASSUME NEW g \in Typists
        PROVE  human'[g].next \in 1..(MaxKeys + 1)
    <3>1. CASE g = h
      BY <1>3, <2>1, <2>2, <2>3, <3>1 DEF TypingGoes
    <3>2. CASE g # h
      <4>1. human'[g] = [human[g] EXCEPT !.swayed = @ \/ human[g].step \in steps]
        BY <2>1, <3>2 DEF TypingGoes
      <4>2. human'[g].next = human[g].next
        BY <2>5, <4>1 DEF TypingRecords
      <4>3. QED
        BY <4>2 DEF HumanLimits
    <3>3. QED
      BY <3>1, <3>2
  <2>7. \A i \in 1..Len(strokes') : strokes'[i].field \in onPage
    <3>1. CASE UNCHANGED strokes
      BY <3>1 DEF HumanLimits
    <3>2. CASE strokes' # strokes
      <4>1. PICK s : s.field = caret /\ strokes' = Append(strokes, s) /\ caret # NoField
        BY <1>5, <3>2 DEF KeyGoesDown
      <4>2. caret \in onPage /\ strokes \in Seq(StrokeRecords)
        BY <4>1 DEF HumanInv, HumanShape
      <4>3. /\ Len(strokes) \in Nat /\ Len(strokes') = Len(strokes) + 1 /\ strokes'[Len(strokes) + 1] = s
            /\ \A i \in 1..Len(strokes) : strokes'[i] = strokes[i]
        BY ONLY <4>1, <4>2
      <4>4. QED
        BY <4>1, <4>2, <4>3 DEF HumanLimits
    <3>3. QED
      BY <3>1, <3>2
  <2>8. QED
    BY <2>4, <2>6, <2>7 DEF HumanLimits
<1>6. QED
  BY <1>4, <1>5

LEMMA HumanLimitsStep == HumanInv /\ HumanLimits /\ [HumanNext]_humanVars => HumanLimits'
<1> SUFFICES ASSUME HumanInv, HumanLimits, [HumanNext]_humanVars
             PROVE  HumanLimits'
  OBVIOUS
<1>1. CASE WireBreaks
  <2>1. \A g \in Typists : human[g] \in TypingRecords
    BY DEF HumanInv, HumanShape
  <2>2. \A g \in Typists : human'[g].next = human[g].next
    BY <1>1, <2>1 DEF WireBreaks, TypingRecords
  <2>3. QED
    BY <1>1, <2>2 DEF WireBreaks, HumanLimits
<1>2. CASE UNCHANGED humanVars
  BY <1>2 DEF humanVars, HumanLimits
<1>3. QED
  BY <1>1, <1>2, HumanGoesOn, KeyStays DEF HumanNext

LEMMA HumanTypes == HumanInit /\ [][HumanNext]_humanVars => []HumanTypeOK
BY HumanInitial, HumanStep, HumanStarts, HumanLimitsStep, HumanTyped, PTL

=============================================================================
