----------------------------- MODULE PageProofs -----------------------------
(***************************************************************************)
(* Theorems about what callers do on pages and are told of them: input on  *)
(* the page of a tab, waits, frames of other origins and the reading of    *)
(* other tabs; for any number of requests, tabs, frames and readers, and   *)
(* any changes the pages make by themselves.  Numbers and lists: see       *)
(* ListProofs.                                                             *)
(***************************************************************************)
EXTENDS ListProofs, PageInput, PageWaits, CrossFrames, TabReads

-----------------------------------------------------------------------------
(* PageInput.                                                                *)
(* A request, as a record.                                                   *)
InputSteps == {"idle", "before", "look", "await", "press", "release", "insert",
               "query", "attach", "confirm", "done", "gone"}
InputReports == Refusals \cup {"none", "ok", "failed"}
Jobs == [kind : InputKinds, target : Elements \cup {Nothing}, exact : BOOLEAN,
         tool : BOOLEAN, confirm : BOOLEAN, step : InputSteps, spot : Spots \cup {Off},
         report : InputReports, touched : SUBSET Elements, blind : BOOLEAN,
         stirred : BOOLEAN, retried : BOOLEAN, compared : Hands \cup {Nothing}]

PageTypeOK ==
    /\ spotOf \in Places /\ disabled \subseteq Elements
    /\ focus \in Elements \cup {Nothing} /\ pressed \in Elements \cup {Nothing}
    /\ moves \in 0..MaxMoves /\ beforeOf \in Hands \cup {Nothing}

(* What a request says and has done follow its progress: until it reports it *)
(* has touched nothing.                                                      *)
Progress(j) ==
    /\ j.step \notin {"confirm", "done"} =>
         j.report = "none" /\ j.touched = {} /\ j.compared = Nothing
    /\ j.step \notin {"idle", "gone"} => j.target \in Elements
    /\ j.step = "insert" => j.kind \in ByKeys
    /\ j.step = "release" => j.kind # "hover"
    /\ j.step \in {"before", "confirm"} => j.confirm
    /\ j.step = "idle" => ~j.confirm

(* Its report, as in ReportsHold.                                            *)
ToldTruth(j) ==
    /\ j.report = "ok" =>
         \/ j.stirred
         \/ j.touched # {} /\ j.touched \subseteq Meant(j)
         \/ j.blind /\ j.kind \in Unchecked \cup {"label", "inFrame"}
    /\ j.report \in Refusals => j.touched = {}

(* Where the mouse or the keys go is where the control was when it was       *)
(* looked up, as long as nobody has touched the page since.                  *)
AimsAt(j, e) ==
    /\ Here(e) /\ spotOf[e] = j.spot
    /\ j.step = "release" => pressed = e
    /\ j.kind = "hover" \/ e \notin disabled \/ (j.blind /\ j.kind \in {"label", "inFrame"})

OnTarget(j) ==
    ~j.stirred =>
       /\ j.step \in {"press", "release"} =>
            \/ j.blind /\ j.kind = "coordinates"
            \/ \E e \in Meant(j) : AimsAt(j, e)
       /\ j.step = "insert" => j.blind \/ focus = j.target

SoundJob(j) == j \in Jobs /\ Progress(j) /\ ToldTruth(j) /\ OnTarget(j)

(* The analysis on the client is the own one of whoever confirms alone.      *)
OthersConfirm(h) == \E g \in Hands \ {h} : job[g].confirm
ComparesOwn ==
    \A h \in Hands :
      \/ OthersConfirm(h)
      \/ /\ job[h].compared \in {h, Nothing}
         /\ job[h].confirm /\ job[h].step \notin {"before", "gone"} => beforeOf = h

InputInv ==
    /\ PageTypeOK
    /\ DOMAIN job = Hands /\ job = [h \in Hands |-> job[h]]
    /\ \A h \in Hands : SoundJob(job[h])
    /\ ComparesOwn

-----------------------------------------------------------------------------
(* The page.                                                                 *)

(* The control at the position of a control is that control.                 *)
LEMMA UnderSpot ==
    ASSUME PageTypeOK
    PROVE  /\ \A s : Under(s) \in Elements \cup {Nothing}
           /\ \A e \in Elements : Here(e) => Under(spotOf[e]) = e
BY PageInputAssumption DEF PageTypeOK, Under, Here, Places

(* The control a request means are controls of the page.                     *)
LEMMA MeantThere ==
    ASSUME NEW j, j.target \in Elements
    PROVE  /\ Meant(j) \subseteq Elements /\ Meant(j) # {}
           /\ j.kind \notin {"text", "label"} => Meant(j) = {j.target}
BY PageInputAssumption DEF Meant

-----------------------------------------------------------------------------
(* What becomes of a request that goes on, and of the others.                *)

(* A refusal, or a failure, ends a request that has touched nothing.         *)
LEMMA RefusalSound ==
    ASSUME NEW j, SoundJob(j), j.step \notin {"idle", "before", "confirm", "done", "gone"},
           NEW r \in Refusals \cup {"failed"}
    PROVE  /\ SoundJob(Reports(j, r)) /\ SoundJob(Refused(j, r))
           /\ Reports(j, r).confirm = j.confirm /\ Reports(j, r).compared = j.compared
           /\ Refused(j, r).confirm = j.confirm /\ Refused(j, r).compared = j.compared
<1> DEFINE k == [j EXCEPT !.report = r, !.step = "done"]
           w == [j EXCEPT !.step = "await", !.retried = TRUE]
<1>1. Reports(j, r) = k /\ (Refused(j, r) = k \/ Refused(j, r) = w)
  BY DEF Reports, Refused, Refusals
<1>2. SoundJob(k)
  <2>1. k \in Jobs
    BY DEF SoundJob, Jobs, InputSteps, InputReports
  <2>2. QED
    BY <2>1 DEF SoundJob, Jobs, Progress, ToldTruth, OnTarget, Refusals
<1>3. SoundJob(w)
  <2>1. w \in Jobs
    BY DEF SoundJob, Jobs, InputSteps
  <2>2. QED
    BY <2>1 DEF SoundJob, Jobs, Progress, ToldTruth, OnTarget, Refusals
<1>4. /\ k.confirm = j.confirm /\ k.compared = j.compared
      /\ w.confirm = j.confirm /\ w.compared = j.compared
  BY DEF SoundJob, Jobs
<1>5. QED
  BY <1>1, <1>2, <1>3, <1>4

(* An "ok" that is earned, or is of a kind that does not check.              *)
LEMMA OkSound ==
    ASSUME NEW j \in Jobs, j.target \in Elements, j.compared = Nothing,
           \/ j.stirred
           \/ j.touched # {} /\ j.touched \subseteq Meant(j)
           \/ j.blind /\ j.kind \in Unchecked \cup {"label", "inFrame"}
    PROVE  /\ SoundJob(Reports(j, "ok")) /\ SoundJob(Reports(j, "ok"))'
           /\ Reports(j, "ok").confirm = j.confirm /\ Reports(j, "ok").compared = j.compared
<1> DEFINE k == [j EXCEPT !.report = "ok", !.step = AfterOk(j)]
<1>0. Reports(j, "ok") = k /\ AfterOk(j) = IF j.confirm THEN "confirm" ELSE "done"
  BY DEF Reports, AfterOk
<1>1. k \in Jobs
  BY <1>0 DEF Jobs, InputSteps, InputReports
<1>2. /\ k.report = "ok" /\ k.step \in {"confirm", "done"} /\ k.target = j.target
      /\ k.touched = j.touched /\ k.blind = j.blind /\ k.stirred = j.stirred
      /\ k.kind = j.kind /\ k.confirm = j.confirm /\ k.compared = j.compared
      /\ k.step = "confirm" => k.confirm
  BY <1>0 DEF Jobs
<1>3. Progress(k) /\ ToldTruth(k)
  BY <1>2 DEF Progress, ToldTruth, Refusals, Meant
<1>4. OnTarget(k) /\ OnTarget(k)'
  BY <1>2 DEF OnTarget
<1> HIDE DEF k
<1>5. SoundJob(k) /\ SoundJob(k)'
  BY <1>1, <1>3, <1>4 DEF SoundJob, Progress, ToldTruth, Meant
<1>6. QED
  BY <1>0, <1>2, <1>5

(* The mouse is over a control the request means.                            *)
LEMMA PressSound ==
    ASSUME NEW j \in Jobs, j.target \in Elements, j.compared = Nothing,
           j.step = "press", j.report = "none", j.touched = {},
           (j.blind /\ j.kind = "coordinates") \/ \E e \in Meant(j) : AimsAt(j, e)
    PROVE  SoundJob(j)
BY DEF SoundJob, Progress, ToldTruth, OnTarget, Refusals

(* Request h goes on as j, with the confirmation it was asked for.           *)
RequestGoesOn(h, j) ==
    /\ j.confirm = job[h].confirm /\ j.compared = job[h].compared
    /\ job[h].step \notin {"before", "gone"}

InputRest == DOMAIN job = Hands /\ job = [h \in Hands |-> job[h]]

(* A request goes on, and the page is as it was.                             *)
LEMMA QuietStep ==
    ASSUME InputInv, NEW h \in Hands, NEW j, SetJob(h, j), SoundJob(j),
           UNCHANGED <<spotOf, disabled, focus, pressed>>
    PROVE  /\ InputRest' /\ \A g \in Hands : SoundJob(job[g])'
           /\ UNCHANGED beforeOf /\ RequestGoesOn(h, j) => ComparesOwn'
<1>1. InputRest' /\ job'[h] = j /\ \A g \in Hands \ {h} : job'[g] = job[g]
  BY DEF SetJob, InputInv, InputRest
<1>2. \A g \in Hands : SoundJob(job[g])'
  BY <1>1 DEF InputInv, SoundJob, Progress, ToldTruth, OnTarget, AimsAt, Here, Meant
<1>3. ASSUME UNCHANGED beforeOf, RequestGoesOn(h, j)
      PROVE  ComparesOwn'
  BY <1>1, <1>3 DEF InputInv, RequestGoesOn, ComparesOwn, OthersConfirm
<1>4. QED
  BY <1>1, <1>2, <1>3

(* A request acts on the page, and the others know no more where they are.   *)
LEMMA StirStep ==
    ASSUME InputInv, NEW h \in Hands, NEW j, Acts(h, j), SoundJob(j)'
    PROVE  /\ InputRest' /\ \A g \in Hands : SoundJob(job[g])'
           /\ UNCHANGED beforeOf /\ RequestGoesOn(h, j) => ComparesOwn'
<1>1. /\ InputRest' /\ job'[h] = j
      /\ \A g \in Hands \ {h} :
           job'[g] = [job[g] EXCEPT !.stirred = job[g].stirred \/ UnderWay(job[g])]
  BY DEF Acts, InputInv, InputRest
<1>2. ASSUME NEW g \in Hands \ {h}
      PROVE  SoundJob(job[g])'
  <2>0. job[g] \in Jobs /\ UnderWay(job[g]) \in BOOLEAN
    BY <1>2 DEF InputInv, SoundJob, UnderWay
  <2>1. job[g] \in Jobs /\ job'[g] \in Jobs
    BY <1>1, <1>2, <2>0 DEF Jobs
  <2>2. /\ job'[g].step = job[g].step /\ job'[g].report = job[g].report
        /\ job'[g].touched = job[g].touched /\ job'[g].compared = job[g].compared
        /\ job'[g].target = job[g].target /\ job'[g].kind = job[g].kind
        /\ job'[g].confirm = job[g].confirm /\ job'[g].blind = job[g].blind
        /\ job'[g].stirred = (job[g].stirred \/ UnderWay(job[g]))
    BY <1>1, <1>2, <2>1 DEF Jobs
  <2>3. Progress(job[g])' /\ ToldTruth(job[g])'
    BY <1>2, <2>1, <2>2 DEF InputInv, SoundJob, Jobs, Progress, ToldTruth, Meant
  <2>4. OnTarget(job[g])'
    BY <2>1, <2>2 DEF OnTarget, UnderWay, Jobs
  <2>5. QED
    BY <2>1, <2>3, <2>4 DEF SoundJob, Jobs
<1>3. ASSUME UNCHANGED beforeOf, RequestGoesOn(h, j)
      PROVE  ComparesOwn'
  <2>0. \A g \in Hands : job[g] \in Jobs
    BY DEF InputInv, SoundJob
  <2>1. \A g \in Hands : job'[g].confirm = job[g].confirm /\ job'[g].compared = job[g].compared
    <3>1. ASSUME NEW g \in Hands \ {h}
          PROVE  job'[g].confirm = job[g].confirm /\ job'[g].compared = job[g].compared
      BY <1>1, <2>0, <3>1 DEF Jobs
    <3>2. QED
      BY <1>1, <1>3, <3>1 DEF RequestGoesOn
  <2>2. \A g \in Hands \ {h} : job'[g].step = job[g].step
    BY <1>1, <2>0 DEF Jobs
  <2>3. QED
    BY <1>3, <2>1, <2>2 DEF InputInv, RequestGoesOn, ComparesOwn, OthersConfirm
<1>4. QED
  BY <1>1, <1>2, <1>3

(* The same, for the invariant as a whole.                                   *)
LEMMA QuietKeeps ==
    ASSUME InputInv, NEW h \in Hands, NEW j, SetJob(h, j), SoundJob(j), RequestGoesOn(h, j),
           UNCHANGED Page
    PROVE  InputInv'
<1>1. UNCHANGED <<spotOf, disabled, focus, pressed, moves, beforeOf>>
  BY DEF Page
<1>2. PageTypeOK'
  BY <1>1 DEF PageTypeOK, InputInv
<1>3. QED
  BY <1>1, <1>2, QuietStep DEF InputInv, InputRest

LEMMA StirKeeps ==
    ASSUME InputInv, NEW h \in Hands, NEW j, Acts(h, j), SoundJob(j)', RequestGoesOn(h, j),
           UNCHANGED <<spotOf, disabled, moves, beforeOf>>,
           focus' \in Elements \cup {Nothing}, pressed' \in Elements \cup {Nothing}
    PROVE  InputInv'
<1>1. PageTypeOK'
  BY DEF PageTypeOK, InputInv
<1>2. QED
  BY <1>1, StirStep DEF InputInv, InputRest

-----------------------------------------------------------------------------
(* The operations: looking the control up.                                   *)

LEMMA LookingSound ==
    ASSUME InputInv, NEW h \in Hands, job[h].step = "look"
    PROVE  /\ job[h] \in Jobs /\ SoundJob(job[h]) /\ job[h].target \in Elements
           /\ job[h].compared = Nothing /\ job[h].report = "none" /\ job[h].touched = {}
BY DEF InputInv, SoundJob, Progress

(* The mouse will go where control e is, one the request means.              *)
LEMMA AimSound ==
    ASSUME InputInv, NEW h \in Hands, job[h].step = "look",
           NEW e \in Meant(job[h]), Here(e), NEW b \in BOOLEAN,
           job[h].kind = "hover" \/ e \notin disabled \/ (b /\ job[h].kind \in {"label", "inFrame"}),
           NEW k, k = [job[h] EXCEPT !.spot = spotOf[e], !.step = "press", !.blind = b]
    PROVE  SoundJob(k) /\ RequestGoesOn(h, k)
<1> DEFINE j == job[h]
<1>0. j \in Jobs /\ j.target \in Elements /\ j.compared = Nothing /\ j.report = "none" /\ j.touched = {}
  BY LookingSound
<1>1. e \in Elements /\ spotOf[e] \in Spots \cup {Off}
  BY <1>0, MeantThere DEF InputInv, PageTypeOK, Places
<1>2. k \in Jobs
  BY <1>0, <1>1 DEF Jobs, InputSteps
<1>3. /\ k.target = j.target /\ k.step = "press" /\ k.report = "none" /\ k.touched = {}
      /\ k.compared = j.compared /\ k.confirm = j.confirm /\ k.kind = j.kind
      /\ k.spot = spotOf[e] /\ k.blind = b
  BY <1>0 DEF Jobs
<1>4. e \in Meant(k) /\ AimsAt(k, e)
  BY <1>3 DEF Meant, AimsAt
<1>5. SoundJob(k)
  BY <1>0, <1>2, <1>3, <1>4, PressSound
<1>6. QED
  BY <1>3, <1>5 DEF RequestGoesOn

(* The control the selector names.                                           *)
LEMMA AimsSound ==
    ASSUME InputInv, NEW h \in Hands, job[h].step = "look", Here(job[h].target),
           job[h].kind \in {"hover", "inFrame"} \/ job[h].target \notin disabled,
           job[h].kind \notin {"text", "label"}
    PROVE  SoundJob(Aims(job[h])) /\ RequestGoesOn(h, Aims(job[h]))
<1> DEFINE j == job[h]
           b == j.target \in disabled
<1>1. b \in BOOLEAN /\ Aims(j) = [j EXCEPT !.spot = spotOf[j.target], !.step = "press", !.blind = b]
  BY DEF Aims
<1>2. j.kind = "hover" \/ j.target \notin disabled \/ (b /\ j.kind \in {"label", "inFrame"})
  OBVIOUS
<1>3. j.target \in Meant(j)
  BY DEF Meant
<1> HIDE DEF b
<1>4. QED
  BY <1>1, <1>2, <1>3, AimSound

(* A refusal of the request that looks.                                      *)
LEMMA RefusalGoesOn ==
    ASSUME InputInv, NEW h \in Hands, NEW r \in Refusals \cup {"failed"},
           job[h].step \notin {"idle", "before", "confirm", "done", "gone"}
    PROVE  /\ SoundJob(Reports(job[h], r)) /\ RequestGoesOn(h, Reports(job[h], r))
           /\ SoundJob(Refused(job[h], r)) /\ RequestGoesOn(h, Refused(job[h], r))
BY RefusalSound DEF InputInv, RequestGoesOn

LEMMA ClickKeeps ==
    ASSUME InputInv, NEW h \in Hands, Click(h) \/ Hover(h) \/ ClickInFrame(h)
    PROVE  InputInv'
<1> DEFINE j == job[h]
<1>2. j.step = "look" /\ j.kind \in {"click", "hover", "inFrame"} /\ UNCHANGED Page
  BY DEF Click, Hover, ClickInFrame, Looks
<1>3. CASE SetJob(h, Refused(j, "not_found"))
  BY <1>2, <1>3, RefusalGoesOn, QuietKeeps DEF Refusals
<1>4. CASE SetJob(h, Reports(j, "not_actionable"))
  BY <1>2, <1>4, RefusalGoesOn, QuietKeeps DEF Refusals
<1>5. CASE SetJob(h, Aims(j)) /\ Here(j.target) /\ (j.kind \in {"hover", "inFrame"} \/ j.target \notin disabled)
  BY <1>2, <1>5, AimsSound, QuietKeeps
<1>6. QED
  BY <1>3, <1>4, <1>5 DEF Click, Hover, ClickInFrame, Looks

LEMMA LookByKeeps ==
    ASSUME InputInv, NEW h \in Hands, LookByText(h) \/ LookByLabel(h)
    PROVE  InputInv'
<1> DEFINE j == job[h]
<1>0. j.step = "look" /\ j \in Jobs /\ UNCHANGED Page
  BY LookingSound DEF LookByText, LookByLabel, Looks
<1>1. ASSUME NEW r \in Refusals, SetJob(h, Reports(j, r))
      PROVE  InputInv'
  BY <1>0, <1>1, RefusalGoesOn, QuietKeeps
<1>2. ASSUME NEW e \in Meant(j), Here(e), NEW b \in BOOLEAN, e \notin disabled \/ (b /\ j.kind = "label"),
             SetJob(h, [j EXCEPT !.spot = spotOf[e], !.step = "press", !.blind = b])
      PROVE  InputInv'
  BY <1>0, <1>2, AimSound, QuietKeeps
<1>3. CASE LookByText(h)
  <2>1. CASE \E r \in {"not_found", "ambiguous", "not_actionable"} : SetJob(h, Reports(j, r))
    BY <1>1, <2>1 DEF Refusals
  <2>2. CASE \E e \in Meant(j) : Here(e) /\ e \notin disabled
                                  /\ SetJob(h, [j EXCEPT !.spot = spotOf[e], !.step = "press"])
    <3>1. PICK e \in Meant(j) : Here(e) /\ e \notin disabled
                                  /\ SetJob(h, [j EXCEPT !.spot = spotOf[e], !.step = "press"])
      BY <2>2
    <3>2. /\ [j EXCEPT !.spot = spotOf[e], !.step = "press"]
                = [j EXCEPT !.spot = spotOf[e], !.step = "press", !.blind = j.blind]
          /\ j.blind \in BOOLEAN
      BY <1>0 DEF Jobs
    <3>3. QED
      BY <1>2, <3>1, <3>2
  <2>3. QED
    BY <1>3, <2>1, <2>2 DEF LookByText
<1>4. CASE LookByLabel(h)
  <2>1. CASE SetJob(h, Reports(j, "not_found"))
    BY <1>1, <2>1 DEF Refusals
  <2>2. CASE \E e \in Meant(j) :
               /\ Here(e)
               /\ SetJob(h, [j EXCEPT !.spot = spotOf[e], !.step = "press", !.blind = e \in disabled])
    <3>1. PICK e \in Meant(j) :
               /\ Here(e)
               /\ SetJob(h, [j EXCEPT !.spot = spotOf[e], !.step = "press", !.blind = e \in disabled])
      BY <2>2
    <3> DEFINE b == e \in disabled
    <3>2. j.kind = "label"
      BY <1>4 DEF LookByLabel, Looks
    <3>3. b \in BOOLEAN /\ (e \notin disabled \/ (b /\ j.kind = "label"))
      BY <3>2
    <3>4. SetJob(h, [j EXCEPT !.spot = spotOf[e], !.step = "press", !.blind = b])
      BY <3>1
    <3> HIDE DEF b
    <3>5. QED
      BY <1>2, <3>1, <3>3, <3>4
  <2>3. QED
    BY <1>4, <2>1, <2>2 DEF LookByLabel
<1>5. QED
  BY <1>3, <1>4

(* Looking that needs no answer, or gets none.                               *)
LEMMA PlainKeeps ==
    ASSUME InputInv, NEW h \in Hands,
           AwaitsElement(h) \/ ClickCoordinates(h) \/ SetCheckbox(h) \/ CommandFails(h)
    PROVE  InputInv'
<1> DEFINE j == job[h]
<1>0. SoundJob(j) /\ j \in Jobs
  BY DEF InputInv, SoundJob
<1>1. CASE AwaitsElement(h)
  <2> DEFINE k == [j EXCEPT !.step = "look"]
  <2>1. k \in Jobs
    BY <1>0 DEF Jobs, InputSteps
  <2>2. SoundJob(k) /\ RequestGoesOn(h, k)
    BY <1>0, <1>1, <2>1 DEF AwaitsElement, RequestGoesOn, SoundJob, Jobs, Progress, ToldTruth, OnTarget, Refusals
  <2>3. SetJob(h, k) /\ UNCHANGED Page
    BY <1>1 DEF AwaitsElement, Page
  <2>4. QED
    BY <2>2, <2>3, QuietKeeps
<1>2. CASE ClickCoordinates(h)
  <2> DEFINE k == [j EXCEPT !.step = "press", !.blind = TRUE]
  <2>1. j.step = "look" /\ j.kind = "coordinates" /\ SetJob(h, k) /\ UNCHANGED Page
    BY <1>2 DEF ClickCoordinates, Looks
  <2>2. j.target \in Elements /\ j.compared = Nothing /\ j.report = "none" /\ j.touched = {}
    BY <2>1, LookingSound
  <2>3. k \in Jobs
    BY <1>0 DEF Jobs, InputSteps
  <2>4. /\ k.target = j.target /\ k.compared = j.compared /\ k.step = "press" /\ k.report = j.report
        /\ k.touched = j.touched /\ k.blind /\ k.kind = j.kind /\ k.confirm = j.confirm
    BY <1>0 DEF Jobs
  <2>5. SoundJob(k) /\ RequestGoesOn(h, k)
    BY <2>1, <2>2, <2>3, <2>4, PressSound DEF RequestGoesOn
  <2>6. QED
    BY <2>1, <2>5, QuietKeeps
<1>3. CASE SetCheckbox(h) \/ CommandFails(h)
  <2>1. j.step \in {"look", "press", "release", "insert", "query", "attach"}
    BY <1>3 DEF SetCheckbox, CommandFails, Looks
  <2>2. SetJob(h, Reports(j, "failed")) /\ UNCHANGED Page
    BY <1>3 DEF SetCheckbox, CommandFails
  <2>3. QED
    BY <2>1, <2>2, RefusalGoesOn, QuietKeeps
<1>4. QED
  BY <1>1, <1>2, <1>3

-----------------------------------------------------------------------------
(* The operations: acting on the page.                                       *)

(* An "ok" that is earned ends an operation that acts, whatever becomes of   *)
(* the focus and of the mouse button.                                        *)
LEMMA OkActs ==
    ASSUME InputInv, NEW h \in Hands,
           job[h].step \in {"look", "press", "release", "insert", "query", "attach"},
           NEW T \in SUBSET Elements,
           \/ job[h].stirred
           \/ T # {} /\ T \subseteq Meant(job[h])
           \/ job[h].blind /\ job[h].kind \in Unchecked \cup {"label", "inFrame"},
           Acts(h, Reports([job[h] EXCEPT !.touched = T], "ok")),
           UNCHANGED <<spotOf, disabled, moves, beforeOf>>,
           focus' \in Elements \cup {Nothing}, pressed' \in Elements \cup {Nothing}
    PROVE  InputInv'
<1>0. PICK j \in Jobs : j = job[h]
  BY DEF InputInv, SoundJob
<1> DEFINE k == [j EXCEPT !.touched = T]
<1>1. j.target \in Elements /\ j.compared = Nothing
  BY <1>0 DEF InputInv, SoundJob, Progress
<1>2. k \in Jobs
  BY DEF Jobs
<1>3. /\ k.target = j.target /\ k.compared = j.compared /\ k.touched = T /\ k.blind = j.blind
      /\ k.kind = j.kind /\ k.confirm = j.confirm /\ k.stirred = j.stirred
  BY DEF Jobs
<1>4. Meant(k) = Meant(j) /\ Acts(h, Reports(k, "ok"))
  BY <1>0, <1>3 DEF Meant
<1> HIDE DEF k
<1>5. SoundJob(Reports(k, "ok"))' /\ RequestGoesOn(h, Reports(k, "ok"))
  <2>1. k.stirred \/ (k.touched # {} /\ k.touched \subseteq Meant(k))
          \/ (k.blind /\ k.kind \in Unchecked \cup {"label", "inFrame"})
    BY <1>0, <1>3, <1>4
  <2>2. QED
    BY <1>0, <1>1, <1>2, <1>3, <2>1, OkSound DEF RequestGoesOn
<1>6. QED
  BY <1>4, <1>5, StirKeeps

LEMMA MouseDownKeeps ==
    ASSUME InputInv, NEW h \in Hands, MouseDown(h)
    PROVE  InputInv'
<1> PICK j : j = job[h]
  OBVIOUS
<1>0. /\ SoundJob(j) /\ j \in Jobs /\ j.step = "press" /\ j.target \in Elements
      /\ j.report = "none" /\ j.touched = {} /\ j.compared = Nothing
      /\ PageTypeOK /\ UNCHANGED <<spotOf, disabled, focus, moves, beforeOf>>
  BY DEF InputInv, SoundJob, Progress, MouseDown
<1>1. Under(j.spot) \in Elements \cup {Nothing}
  BY <1>0, UnderSpot
<1>2. ~j.stirred /\ ~(j.blind /\ j.kind = "coordinates") =>
        \E e \in Meant(j) : AimsAt(j, e) /\ Under(j.spot) = e
  BY <1>0, UnderSpot, MeantThere DEF SoundJob, OnTarget, AimsAt
<1>3. CASE j.kind = "hover"
  <2> DEFINE T == {Under(j.spot)} \ {Nothing}
  <2>1. T \in SUBSET Elements
    BY <1>1
  <2>2. j.stirred \/ (T # {} /\ T \subseteq Meant(j))
    BY <1>0, <1>2, <1>3, MeantThere, PageInputAssumption
  <2>3. Acts(h, Reports([j EXCEPT !.touched = T], "ok")) /\ pressed' = pressed
    BY <1>3 DEF MouseDown
  <2>4. pressed' \in Elements \cup {Nothing} /\ focus' \in Elements \cup {Nothing}
    BY <1>0, <2>3 DEF PageTypeOK
  <2> HIDE DEF T
  <2>5. QED
    BY <1>0, <2>1, <2>2, <2>3, <2>4, OkActs
<1>4. CASE j.kind # "hover"
  <2> DEFINE k == [j EXCEPT !.step = "release"]
  <2>1. Acts(h, k) /\ pressed' = Under(j.spot)
    BY <1>4 DEF MouseDown
  <2>2. k \in Jobs
    BY <1>0 DEF Jobs, InputSteps
  <2>3. /\ k.target = j.target /\ k.compared = j.compared /\ k.step = "release" /\ k.report = j.report
        /\ k.touched = j.touched /\ k.blind = j.blind /\ k.kind = j.kind
        /\ k.confirm = j.confirm /\ k.stirred = j.stirred /\ k.spot = j.spot
    BY <1>0 DEF Jobs
  <2>4. \A e : AimsAt(j, e) /\ Under(j.spot) = e => AimsAt(k, e)'
    BY <1>0, <2>1, <2>3 DEF AimsAt, Here
  <2>5. Meant(k) = Meant(j)
    BY <2>3 DEF Meant
  <2>6. OnTarget(k)'
    <3>1. CASE j.stirred \/ (j.blind /\ j.kind = "coordinates")
      BY <2>3, <3>1 DEF OnTarget
    <3>2. CASE ~j.stirred /\ ~(j.blind /\ j.kind = "coordinates")
      <4>1. PICK e \in Meant(k) : AimsAt(k, e)'
        BY <1>2, <2>4, <2>5, <3>2
      <4>2. QED
        BY <2>3, <4>1 DEF OnTarget, Meant
    <3>3. QED
      BY <3>1, <3>2
  <2>7. SoundJob(k)' /\ RequestGoesOn(h, k)
    BY <1>0, <1>4, <2>2, <2>3, <2>6 DEF SoundJob, Progress, ToldTruth, Refusals, RequestGoesOn
  <2>8. pressed' \in Elements \cup {Nothing} /\ focus' \in Elements \cup {Nothing}
    BY <1>0, <1>1, <2>1 DEF PageTypeOK
  <2> HIDE DEF k
  <2>9. QED
    BY <1>0, <2>1, <2>7, <2>8, StirKeeps
<1>5. QED
  BY <1>3, <1>4

LEMMA MouseUpKeeps ==
    ASSUME InputInv, NEW h \in Hands, MouseUp(h)
    PROVE  InputInv'
<1> DEFINE up == Under(job[h].spot)
           hit == IF up # Nothing /\ up = pressed /\ up \notin disabled THEN {up} ELSE {}
<1>1. PICK j, T : j = job[h] /\ T = hit
  OBVIOUS
<1>2. /\ SoundJob(j) /\ j \in Jobs /\ j.step = "release" /\ j.target \in Elements
      /\ PageTypeOK /\ UNCHANGED <<spotOf, disabled, moves, beforeOf>>
  BY <1>1 DEF InputInv, SoundJob, Progress, MouseUp
<1>3. up \in Elements \cup {Nothing}
  BY <1>2, UnderSpot
<1>4. T \in SUBSET Elements
  BY <1>1, <1>3
<1>5. \/ j.stirred \/ (T # {} /\ T \subseteq Meant(j))
      \/ (j.blind /\ j.kind \in Unchecked \cup {"label", "inFrame"})
  <2>1. CASE ~j.stirred /\ ~(j.blind /\ j.kind = "coordinates")
    <3>1. PICK e \in Meant(j) : AimsAt(j, e)
      BY <1>2, <2>1 DEF SoundJob, OnTarget
    <3>2. e \in Elements /\ e # Nothing /\ up = e /\ pressed = e
      BY <1>1, <1>2, <3>1, MeantThere, UnderSpot, PageInputAssumption DEF AimsAt
    <3>3. CASE e \notin disabled
      BY <1>1, <3>2, <3>3
    <3>4. CASE j.blind /\ j.kind \in {"label", "inFrame"}
      BY <3>4
    <3>5. QED
      BY <1>2, <3>1, <3>3, <3>4 DEF AimsAt, SoundJob, Progress
  <2>2. QED
    BY <2>1 DEF Unchecked
<1>6. Acts(h, Reports([job[h] EXCEPT !.touched = T], "ok"))
  BY <1>1 DEF MouseUp
<1>7. pressed' \in Elements \cup {Nothing} /\ focus' \in Elements \cup {Nothing}
  BY <1>2, <1>3 DEF PageTypeOK, MouseUp
<1>8. QED
  BY <1>1, <1>2, <1>4, <1>5, <1>6, <1>7, OkActs

LEMMA FocusesKeeps ==
    ASSUME InputInv, NEW h \in Hands, NEW kind \in ByKeys, Focuses(h, kind)
    PROVE  InputInv'
<1>0. PICK j \in Jobs : j = job[h]
  BY DEF InputInv, SoundJob
<1>1. /\ j.step = "look" /\ j.kind = kind /\ SoundJob(j) /\ j.target \in Elements
      /\ j.compared = Nothing /\ j.report = "none" /\ j.touched = {}
      /\ UNCHANGED <<spotOf, disabled, pressed, moves, beforeOf>>
  BY <1>0, LookingSound DEF Focuses, Looks
<1>2. PageTypeOK
  BY DEF InputInv
<1>3. CASE Here(j.target)
  <2> DEFINE k == [j EXCEPT !.step = "insert"]
  <2>1. focus' = j.target /\ Acts(h, k)
    BY <1>0, <1>3 DEF Focuses
  <2>2. k \in Jobs
    BY DEF Jobs, InputSteps
  <2>3. /\ k.target = j.target /\ k.compared = j.compared /\ k.step = "insert" /\ k.report = j.report
        /\ k.touched = j.touched /\ k.kind = j.kind /\ k.confirm = j.confirm
    BY DEF Jobs
  <2> HIDE DEF k
  <2>4. SoundJob(k)' /\ RequestGoesOn(h, k)
    BY <1>0, <1>1, <2>1, <2>2, <2>3
    DEF SoundJob, Progress, ToldTruth, OnTarget, Refusals, RequestGoesOn
  <2>5. focus' \in Elements \cup {Nothing} /\ pressed' \in Elements \cup {Nothing}
    BY <1>1, <1>2, <2>1 DEF PageTypeOK
  <2>6. QED
    BY <1>1, <2>1, <2>4, <2>5, StirKeeps
<1>4. CASE ~Here(j.target)
  <2> DEFINE k == [j EXCEPT !.step = "insert", !.blind = TRUE]
  <2>1. UNCHANGED focus /\ SetJob(h, k)
    BY <1>0, <1>4 DEF Focuses
  <2>2. k \in Jobs
    BY DEF Jobs, InputSteps
  <2>3. /\ k.target = j.target /\ k.compared = j.compared /\ k.step = "insert" /\ k.report = j.report
        /\ k.touched = j.touched /\ k.kind = j.kind /\ k.confirm = j.confirm /\ k.blind
    BY DEF Jobs
  <2> HIDE DEF k
  <2>4. SoundJob(k) /\ RequestGoesOn(h, k)
    BY <1>0, <1>1, <2>1, <2>2, <2>3
    DEF SoundJob, Progress, ToldTruth, OnTarget, Refusals, RequestGoesOn
  <2>5. QED
    BY <1>1, <2>1, <2>4, QuietKeeps DEF Page
<1>5. QED
  BY <1>3, <1>4

LEMMA InsertKeeps ==
    ASSUME InputInv, NEW h \in Hands, InsertText(h)
    PROVE  InputInv'
<1>0. PICK j, T : j = job[h] /\ T = {focus} \ {Nothing}
  OBVIOUS
<1>1. /\ SoundJob(j) /\ j \in Jobs /\ j.step = "insert" /\ j.kind \in ByKeys /\ j.target \in Elements
      /\ PageTypeOK /\ UNCHANGED <<spotOf, disabled, focus, pressed, moves, beforeOf>>
  BY <1>0 DEF InputInv, SoundJob, Progress, InsertText
<1>2. T \in SUBSET Elements
  BY <1>0, <1>1 DEF PageTypeOK
<1>3. j.stirred \/ j.blind \/ (T # {} /\ T \subseteq Meant(j))
  <2>1. Meant(j) = {j.target}
    BY <1>1, MeantThere DEF ByKeys
  <2>2. QED
    BY <1>0, <1>1, <2>1, PageInputAssumption DEF SoundJob, OnTarget
<1>4. Acts(h, Reports([job[h] EXCEPT !.touched = T], "ok"))
  BY <1>0 DEF InsertText
<1>5. pressed' \in Elements \cup {Nothing} /\ focus' \in Elements \cup {Nothing}
  BY <1>1 DEF PageTypeOK
<1>6. j.kind \in Unchecked
  BY <1>1 DEF ByKeys, Unchecked
<1>7. QED
  BY <1>0, <1>1, <1>2, <1>3, <1>4, <1>5, <1>6, OkActs

(* A script that does the whole of it touches the control it names; the      *)
(* request goes on as `missing` when there is none.                          *)
LEMMA OnceKeeps ==
    ASSUME InputInv, NEW h \in Hands, NEW kind \in InputKinds \ {"text", "label"},
           NEW missing, NEW focuses \in BOOLEAN, Once(h, kind, missing, focuses),
           SoundJob(missing) /\ RequestGoesOn(h, missing)
    PROVE  InputInv'
<1>1. /\ job[h].step = "look" /\ job[h].kind = kind /\ job[h].target \in Elements /\ PageTypeOK
      /\ UNCHANGED <<spotOf, disabled, pressed, moves, beforeOf>>
  BY LookingSound DEF Once, Looks, InputInv
<1>2. CASE Here(job[h].target)
  <2>1. PICK T : T = {job[h].target}
    OBVIOUS
  <2>2. T \in SUBSET Elements /\ T # {} /\ T \subseteq Meant(job[h])
    BY <1>1, <2>1, MeantThere
  <2>3. Acts(h, Reports([job[h] EXCEPT !.touched = T], "ok"))
    BY <1>2, <2>1 DEF Once
  <2>4. pressed' \in Elements \cup {Nothing} /\ focus' \in Elements \cup {Nothing}
    BY <1>1, <1>2 DEF PageTypeOK, Once
  <2>5. QED
    BY <1>1, <2>2, <2>3, <2>4, OkActs
<1>3. CASE ~Here(job[h].target)
  <2>1. SetJob(h, missing) /\ UNCHANGED Page
    BY <1>1, <1>3 DEF Once, Page
  <2>2. QED
    BY <2>1, QuietKeeps
<1>4. QED
  BY <1>2, <1>3

LEMMA OnceActionsKeep ==
    ASSUME InputInv, NEW h \in Hands,
           \/ SetValueInFrame(h) \/ SmartFormFill(h) \/ FormSelect(h) \/ FillBackendNode(h)
           \/ DropdownSelect(h) \/ ScrollTo(h) \/ ClickBackendNode(h)
    PROVE  InputInv'
<1> DEFINE j == job[h]
<1>0. j.step = "look" /\ j \in Jobs /\ j.target \in Elements /\ j.compared = Nothing
  <2>1. j.step = "look"
    BY DEF SetValueInFrame, SmartFormFill, FormSelect, FillBackendNode, DropdownSelect, ScrollTo,
           ClickBackendNode, Once, Looks
  <2>2. QED
    BY <2>1, LookingSound
<1>1. ASSUME NEW r \in Refusals \cup {"failed"}
      PROVE  /\ SoundJob(Reports(j, r)) /\ RequestGoesOn(h, Reports(j, r))
             /\ SoundJob(Refused(j, r)) /\ RequestGoesOn(h, Refused(j, r))
  BY <1>0, RefusalGoesOn
<1>2. CASE SetValueInFrame(h) \/ SmartFormFill(h) \/ FormSelect(h)
  <2>1. PICK m : m = Refused(j, "not_found") /\ SoundJob(m) /\ RequestGoesOn(h, m)
    BY <1>1 DEF Refusals
  <2>2. PICK kind \in {"setInFrame", "fill", "selectOption"}, b \in BOOLEAN : Once(h, kind, m, b)
    BY <1>2, <2>1 DEF SetValueInFrame, SmartFormFill, FormSelect
  <2>3. kind \in InputKinds \ {"text", "label"}
    BY DEF InputKinds, AtOnce
  <2>4. QED
    BY <2>1, <2>2, <2>3, OnceKeeps
<1>3. CASE FillBackendNode(h)
  <2>1. PICK m : m = Reports(j, "failed") /\ SoundJob(m) /\ RequestGoesOn(h, m)
    BY <1>1
  <2>2. Once(h, "fillNode", m, TRUE) /\ "fillNode" \in InputKinds \ {"text", "label"}
    BY <1>3, <2>1 DEF FillBackendNode, InputKinds, AtOnce
  <2>3. QED
    BY <2>1, <2>2, OnceKeeps
<1>4. CASE DropdownSelect(h) \/ ScrollTo(h)
  <2>1. PICK k : k = [j EXCEPT !.blind = TRUE]
    OBVIOUS
  <2>2. /\ k \in Jobs /\ k.blind /\ k.target = j.target /\ k.compared = j.compared
        /\ k.kind = j.kind /\ k.confirm = j.confirm
    BY <1>0, <2>1 DEF Jobs
  <2>3. PICK m : m = Reports(k, "ok")
    OBVIOUS
  <2>4. j.kind \in {"dropdown", "scroll"} /\ k.kind \in Unchecked
    BY <1>4, <2>2 DEF DropdownSelect, ScrollTo, Once, Looks, Unchecked
  <2>5. SoundJob(m) /\ RequestGoesOn(h, m)
    BY <1>0, <2>2, <2>3, <2>4, OkSound DEF RequestGoesOn
  <2>6. Once(h, j.kind, m, FALSE) /\ j.kind \in InputKinds \ {"text", "label"}
    BY <1>4, <2>1, <2>3, <2>4 DEF DropdownSelect, ScrollTo, Once, Looks, InputKinds, AtOnce
  <2>7. QED
    BY <2>5, <2>6, OnceKeeps
<1>5. CASE ClickBackendNode(h)
  <2>1. CASE SetJob(h, Reports(j, "not_actionable")) /\ UNCHANGED Page
    BY <1>1, <2>1, QuietKeeps DEF Refusals
  <2>2. CASE Once(h, "clickNode", Reports(j, "failed"), FALSE)
    <3>1. PICK m : m = Reports(j, "failed") /\ SoundJob(m) /\ RequestGoesOn(h, m)
      BY <1>1
    <3>2. Once(h, "clickNode", m, FALSE) /\ "clickNode" \in InputKinds \ {"text", "label"}
      BY <2>2, <3>1 DEF InputKinds, AtOnce
    <3>3. QED
      BY <3>1, <3>2, OnceKeeps
  <2>3. QED
    BY <1>5, <2>1, <2>2 DEF ClickBackendNode
<1>6. QED
  BY <1>2, <1>3, <1>4, <1>5

LEMMA UploadKeeps ==
    ASSUME InputInv, NEW h \in Hands, Upload(h)
    PROVE  InputInv'
<1>0. PICK j \in Jobs : j = job[h]
  BY DEF InputInv, SoundJob
<1>1. /\ j.step \in {"look", "query", "attach"} /\ j.kind = "upload" /\ SoundJob(j)
      /\ j.target \in Elements /\ j.report = "none" /\ j.touched = {} /\ j.compared = Nothing
      /\ UNCHANGED Page /\ PageTypeOK
  BY <1>0 DEF Upload, InputInv, SoundJob, Progress
<1>2. ASSUME NEW r \in {"not_found", "failed"}, SetJob(h, Reports(j, r))
      PROVE  InputInv'
  BY <1>0, <1>1, <1>2, RefusalGoesOn, QuietKeeps DEF Refusals
<1>3. ASSUME NEW st \in {"query", "attach"}, SetJob(h, [j EXCEPT !.step = st])
      PROVE  InputInv'
  <2> DEFINE k == [j EXCEPT !.step = st]
  <2>1. k \in Jobs
    BY <1>3 DEF Jobs, InputSteps
  <2>2. /\ k.target = j.target /\ k.compared = j.compared /\ k.step = st /\ k.report = j.report
        /\ k.touched = j.touched /\ k.kind = j.kind /\ k.confirm = j.confirm
    BY <1>3 DEF Jobs
  <2> HIDE DEF k
  <2>3. SoundJob(k) /\ RequestGoesOn(h, k)
    BY <1>0, <1>1, <2>1, <2>2 DEF SoundJob, Progress, ToldTruth, OnTarget, Refusals, RequestGoesOn
  <2>4. QED
    BY <1>1, <1>3, <2>3, QuietKeeps DEF k
<1>4. ASSUME Acts(h, Reports([j EXCEPT !.touched = {j.target}], "ok"))
      PROVE  InputInv'
  <2>1. Meant(j) = {j.target}
    BY <1>1, MeantThere
  <2>2. /\ UNCHANGED <<spotOf, disabled, moves, beforeOf>>
        /\ focus' \in Elements \cup {Nothing} /\ pressed' \in Elements \cup {Nothing}
    BY <1>1 DEF Page, PageTypeOK
  <2>3. PICK T : T = {j.target}
    OBVIOUS
  <2>4. QED
    BY <1>0, <1>1, <1>4, <2>1, <2>2, <2>3, OkActs
<1>5. QED
  BY <1>0, <1>1, <1>2, <1>3, <1>4 DEF Upload

-----------------------------------------------------------------------------
(* The request and its answer; the confirmation.                             *)

(* A request that has not begun, or has been answered.                       *)
LEMMA RestSound ==
    ASSUME NEW c \in BOOLEAN
    PROVE  /\ NoJob \in Jobs /\ SoundJob(NoJob)
           /\ SoundJob([NoJob EXCEPT !.step = "gone", !.confirm = c])
<1>1. NoJob \in Jobs
  BY DEF NoJob, Jobs, InputKinds, ByMouse, InputSteps, InputReports
<1>2. SoundJob(NoJob)
  BY <1>1 DEF NoJob, SoundJob, Progress, ToldTruth, OnTarget, Refusals
<1>3. [NoJob EXCEPT !.step = "gone", !.confirm = c] \in Jobs
  BY <1>1 DEF Jobs, InputSteps
<1>4. QED
  BY <1>2, <1>3 DEF NoJob, SoundJob, Progress, ToldTruth, OnTarget, Refusals

(* A new request looks first, or analyses the page for its confirmation.     *)
LEMMA AsksKeeps ==
    ASSUME InputInv, NEW h \in Hands, NEW kind \in InputKinds, NEW exact \in BOOLEAN,
           NEW tool \in BOOLEAN, NEW confirm \in BOOLEAN, Asks(h, kind, exact, tool, confirm)
    PROVE  InputInv'
<1>1. PICK e \in Elements :
         SetJob(h, [NoJob EXCEPT !.kind = kind, !.target = e, !.exact = exact, !.tool = tool,
                                 !.confirm = confirm, !.step = IF confirm THEN "before" ELSE "look",
                                 !.spot = IF kind = "coordinates" THEN spotOf[e] ELSE Off])
  BY DEF Asks
<1>2. PICK at : at = IF kind = "coordinates" THEN spotOf[e] ELSE Off
  OBVIOUS
<1> DEFINE k == [NoJob EXCEPT !.kind = kind, !.target = e, !.exact = exact, !.tool = tool,
                              !.confirm = confirm, !.step = IF confirm THEN "before" ELSE "look",
                              !.spot = at]
<1>3. at \in Spots \cup {Off} /\ PageTypeOK
  BY <1>2 DEF InputInv, PageTypeOK, Places
<1>4. k \in Jobs
  <2>1. NoJob \in Jobs
    BY RestSound
  <2>2. PICK step \in InputSteps : step = IF confirm THEN "before" ELSE "look"
    BY DEF InputSteps
  <2>3. [NoJob EXCEPT !.kind = kind, !.target = e, !.exact = exact, !.tool = tool,
                      !.confirm = confirm, !.step = step, !.spot = at] \in Jobs
    BY <1>3, <2>1 DEF Jobs
  <2>4. QED
    BY <2>2, <2>3
<1>5. /\ k.confirm = confirm /\ k.step = (IF confirm THEN "before" ELSE "look")
      /\ k.compared = Nothing /\ k.report = "none" /\ k.touched = {} /\ k.target = e
  BY DEF NoJob
<1>6. SoundJob(k)
  BY <1>4, <1>5 DEF SoundJob, Progress, ToldTruth, OnTarget, Refusals
<1>7. SetJob(h, k) /\ UNCHANGED <<spotOf, disabled, focus, pressed, moves, beforeOf>>
  BY <1>1, <1>2 DEF Asks
<1> HIDE DEF k
<1>8. InputRest' /\ \A g \in Hands : SoundJob(job[g])'
  BY <1>6, <1>7, QuietStep
<1>9. ComparesOwn'
  <2>1. job'[h] = k /\ \A g \in Hands \ {h} : job'[g] = job[g]
    BY <1>7 DEF SetJob, InputInv
  <2>2. job[h].step = "idle" /\ ~job[h].confirm
    BY DEF Asks, InputInv, SoundJob, Progress
  <2>3. QED
    BY <1>5, <1>7, <2>1, <2>2 DEF InputInv, ComparesOwn, OthersConfirm
<1>10. PageTypeOK'
  BY <1>3, <1>7 DEF PageTypeOK
<1>11. QED
  BY <1>8, <1>9, <1>10 DEF InputInv, InputRest

LEMMA AskedKeeps ==
    ASSUME InputInv, NEW h \in Hands,
           \/ AskClick(h) \/ AskClickTool(h) \/ AskClickText(h) \/ AskClickLabel(h)
           \/ AskCheckbox(h) \/ AskType(h) \/ AskSelectTool(h) \/ AskInteract(h)
           \/ AskInFrame(h) \/ AskOther(h)
    PROVE  InputInv'
<1>1. PICK kind \in InputKinds, x \in BOOLEAN, t \in BOOLEAN, c \in BOOLEAN : Asks(h, kind, x, t, c)
  BY DEF AskClick, AskClickTool, AskClickText, AskClickLabel, AskCheckbox, AskType, AskSelectTool,
         AskInteract, AskInFrame, AskOther, InputKinds, ByMouse, ByKeys, AtOnce
<1>2. QED
  BY <1>1, AsksKeeps

LEMMA AnalyzesKeeps ==
    ASSUME InputInv, NEW h \in Hands, AnalyzesBefore(h)
    PROVE  InputInv'
<1>0. PICK j \in Jobs : j = job[h]
  BY DEF InputInv, SoundJob
<1> DEFINE k == [j EXCEPT !.step = "look"]
<1>1. /\ SoundJob(j) /\ j.step = "before" /\ j.confirm /\ beforeOf' = h
      /\ SetJob(h, k) /\ UNCHANGED <<spotOf, disabled, focus, pressed, moves>> /\ PageTypeOK
  BY <1>0 DEF AnalyzesBefore, InputInv, SoundJob, Progress
<1>2. k \in Jobs
  BY DEF Jobs, InputSteps
<1>3. /\ k.target = j.target /\ k.compared = j.compared /\ k.step = "look" /\ k.report = j.report
      /\ k.touched = j.touched /\ k.kind = j.kind /\ k.confirm = j.confirm
  BY DEF Jobs
<1> HIDE DEF k
<1>4. SoundJob(k)
  BY <1>1, <1>2, <1>3 DEF SoundJob, Progress, ToldTruth, OnTarget, Refusals
<1>5. InputRest' /\ \A g \in Hands : SoundJob(job[g])'
  BY <1>1, <1>4, QuietStep
<1>6. ComparesOwn'
  <2>1. job'[h] = k /\ \A g \in Hands \ {h} : job'[g] = job[g]
    BY <1>1 DEF SetJob, InputInv
  <2>2. job'[h].confirm
    BY <1>1, <1>3, <2>1
  <2>3. ASSUME NEW g \in Hands \ {h}
        PROVE  OthersConfirm(g)'
    BY <2>2, <2>3 DEF OthersConfirm
  <2>4. OthersConfirm(h) => OthersConfirm(h)'
    BY <2>1 DEF OthersConfirm
  <2>5. OthersConfirm(h) \/ k.compared \in {h, Nothing}
    BY <1>0, <1>3 DEF InputInv, ComparesOwn
  <2>6. QED
    BY <1>1, <2>1, <2>3, <2>4, <2>5 DEF ComparesOwn
<1>7. PageTypeOK'
  BY <1>1 DEF PageTypeOK
<1>8. QED
  BY <1>5, <1>6, <1>7 DEF InputInv, InputRest

LEMMA ConfirmsKeeps ==
    ASSUME InputInv, NEW h \in Hands, ConfirmsAfter(h)
    PROVE  InputInv'
<1>0. PICK j, own : j \in Jobs /\ j = job[h] /\ own = beforeOf
  BY DEF InputInv, SoundJob
<1> DEFINE k == [j EXCEPT !.step = "done", !.compared = own]
<1>1. /\ SoundJob(j) /\ j.step = "confirm" /\ j.confirm /\ own \in Hands \cup {Nothing}
      /\ SetJob(h, k) /\ UNCHANGED <<spotOf, disabled, focus, pressed, moves, beforeOf>>
      /\ PageTypeOK /\ j.target \in Elements
  BY <1>0 DEF ConfirmsAfter, InputInv, SoundJob, Progress, Page, PageTypeOK
<1>2. k \in Jobs
  BY <1>0, <1>1 DEF Jobs, InputSteps
<1>3. /\ k.target = j.target /\ k.compared = own /\ k.step = "done" /\ k.report = j.report
      /\ k.touched = j.touched /\ k.kind = j.kind /\ k.confirm = j.confirm
      /\ k.blind = j.blind /\ k.stirred = j.stirred
  BY <1>0 DEF Jobs
<1> HIDE DEF k
<1>4. SoundJob(k)
  BY <1>1, <1>2, <1>3 DEF SoundJob, Progress, ToldTruth, OnTarget, Meant
<1>5. InputRest' /\ \A g \in Hands : SoundJob(job[g])'
  BY <1>1, <1>4, QuietStep
<1>6. ComparesOwn'
  <2>1. job'[h] = k /\ \A g \in Hands \ {h} : job'[g] = job[g]
    BY <1>1 DEF SetJob, InputInv
  <2>2. OthersConfirm(h) \/ own = h
    BY <1>0, <1>1 DEF InputInv, ComparesOwn
  <2>3. QED
    BY <1>0, <1>1, <1>3, <2>1, <2>2 DEF InputInv, ComparesOwn, OthersConfirm
<1>7. PageTypeOK'
  BY <1>1 DEF PageTypeOK
<1>8. QED
  BY <1>5, <1>6, <1>7 DEF InputInv, InputRest

LEMMA AnsweredKeeps ==
    ASSUME InputInv, NEW h \in Hands, InputAnswered(h)
    PROVE  InputInv'
<1>0. PICK c \in BOOLEAN : c = job[h].confirm
  BY DEF InputInv, SoundJob, Jobs
<1> DEFINE k == [NoJob EXCEPT !.step = "gone", !.confirm = c]
<1>1. SetJob(h, k) /\ UNCHANGED <<spotOf, disabled, focus, pressed, moves, beforeOf>> /\ PageTypeOK
  BY <1>0 DEF InputAnswered, Page, InputInv
<1>2. SoundJob(k) /\ k.confirm = c /\ k.compared = Nothing /\ k.step = "gone"
  BY RestSound DEF NoJob
<1> HIDE DEF k
<1>3. InputRest' /\ \A g \in Hands : SoundJob(job[g])'
  BY <1>1, <1>2, QuietStep
<1>4. ComparesOwn'
  <2>1. job'[h] = k /\ \A g \in Hands \ {h} : job'[g] = job[g]
    BY <1>1 DEF SetJob, InputInv
  <2>2. QED
    BY <1>0, <1>1, <1>2, <2>1 DEF InputInv, ComparesOwn, OthersConfirm
<1>5. PageTypeOK'
  BY <1>1 DEF PageTypeOK
<1>6. QED
  BY <1>3, <1>4, <1>5 DEF InputInv, InputRest

-----------------------------------------------------------------------------
(* The page by itself, and the start.                                        *)

LEMMA PageMovesKeeps ==
    ASSUME InputInv, PageMoves
    PROVE  InputInv'
<1>0. PageTypeOK /\ MaxMoves \in Nat
  BY PageInputAssumption DEF InputInv
<1>1. PageTypeOK'
  <2>1. moves' \in 0..MaxMoves
    BY <1>0 DEF PageMoves, PageTypeOK
  <2>2. spotOf' \in Places /\ disabled' \subseteq Elements
    BY <1>0 DEF PageMoves, PageTypeOK
  <2>3. QED
    BY <1>0, <2>1, <2>2 DEF PageMoves, PageTypeOK
<1>2. /\ InputRest'
      /\ \A g \in Hands :
           job'[g] = [job[g] EXCEPT !.stirred = job[g].stirred \/ UnderWay(job[g])]
  BY DEF PageMoves, InputInv, InputRest
<1>3. ASSUME NEW g \in Hands
      PROVE  /\ SoundJob(job[g])'
             /\ job'[g].confirm = job[g].confirm /\ job'[g].compared = job[g].compared
             /\ job'[g].step = job[g].step
  <2>0. job[g] \in Jobs /\ UnderWay(job[g]) \in BOOLEAN
    BY <1>3 DEF InputInv, SoundJob, UnderWay
  <2>1. job'[g] \in Jobs
    BY <1>2, <1>3, <2>0 DEF Jobs
  <2>2. /\ job'[g].step = job[g].step /\ job'[g].report = job[g].report
        /\ job'[g].touched = job[g].touched /\ job'[g].compared = job[g].compared
        /\ job'[g].target = job[g].target /\ job'[g].kind = job[g].kind
        /\ job'[g].confirm = job[g].confirm /\ job'[g].blind = job[g].blind
        /\ job'[g].stirred = (job[g].stirred \/ UnderWay(job[g]))
    BY <1>2, <1>3, <2>0 DEF Jobs
  <2>3. Progress(job[g])' /\ ToldTruth(job[g])'
    BY <1>3, <2>1, <2>2 DEF InputInv, SoundJob, Jobs, Progress, ToldTruth, Meant
  <2>4. OnTarget(job[g])'
    BY <2>1, <2>2 DEF OnTarget, UnderWay, Jobs
  <2>5. QED
    BY <2>1, <2>2, <2>3, <2>4 DEF SoundJob, Jobs
<1>4. beforeOf' = beforeOf
  BY DEF PageMoves
<1>5. ComparesOwn'
  BY <1>3, <1>4 DEF InputInv, ComparesOwn, OthersConfirm
<1>6. QED
  BY <1>1, <1>2, <1>3, <1>5 DEF InputInv, InputRest

LEMMA InputInitInv == InputInit => InputInv
<1> SUFFICES ASSUME InputInit
             PROVE  InputInv
  OBVIOUS
<1>1. ASSUME NEW there \in SUBSET Elements
      PROVE  \E p \in Places : \A e \in Elements : p[e] # Off <=> e \in there
  <2>1. PICK all \in Places : \A e \in Elements : all[e] # Off
    BY PageHasRoom
  <2> DEFINE p == [e \in Elements |-> IF e \in there THEN all[e] ELSE Off]
  <2>2. p \in Places
    BY <2>1 DEF Places
  <2>3. \A e \in Elements : p[e] # Off <=> e \in there
    BY <2>1
  <2> HIDE DEF p
  <2>4. QED
    BY <2>2, <2>3
<1>2. spotOf \in Places
  <2>1. PICK there \in SUBSET Elements :
          spotOf = CHOOSE p \in Places : \A e \in Elements : p[e] # Off <=> e \in there
    BY DEF InputInit
  <2>2. QED
    BY <1>1, <2>1
<1>3. PageTypeOK
  BY <1>2, PageInputAssumption DEF InputInit, PageTypeOK
<1>4. job = [h \in Hands |-> NoJob]
  BY DEF InputInit
<1>5. \A h \in Hands : job[h] = NoJob /\ SoundJob(job[h])
  BY <1>4, RestSound
<1>6. ComparesOwn
  BY <1>5 DEF ComparesOwn, NoJob
<1>7. QED
  BY <1>3, <1>4, <1>5, <1>6 DEF InputInv

-----------------------------------------------------------------------------
(* The theorems.                                                             *)

LEMMA InputStep == InputInv /\ [InputNext]_inputVars => InputInv'
<1> SUFFICES ASSUME InputInv, [InputNext]_inputVars
             PROVE  InputInv'
  OBVIOUS
<1>1. CASE UNCHANGED inputVars
  BY <1>1 DEF inputVars, InputInv, PageTypeOK, SoundJob, Progress, ToldTruth, OnTarget, AimsAt,
              Here, Meant, ComparesOwn, OthersConfirm
<1>2. ASSUME NEW h \in Hands,
             \/ AskClick(h) \/ AskClickTool(h) \/ AskClickText(h) \/ AskClickLabel(h)
             \/ AskCheckbox(h) \/ AskType(h) \/ AskSelectTool(h) \/ AskInteract(h)
             \/ AskInFrame(h) \/ AskOther(h)
      PROVE  InputInv'
  BY <1>2, AskedKeeps
<1>3. ASSUME NEW h \in Hands,
             \/ AnalyzesBefore(h) \/ ConfirmsAfter(h) \/ InputAnswered(h)
             \/ AwaitsElement(h) \/ ClickCoordinates(h) \/ SetCheckbox(h) \/ CommandFails(h)
      PROVE  InputInv'
  BY <1>3, AnalyzesKeeps, ConfirmsKeeps, AnsweredKeeps, PlainKeeps
<1>4. ASSUME NEW h \in Hands,
             \/ Click(h) \/ Hover(h) \/ ClickInFrame(h) \/ LookByText(h) \/ LookByLabel(h)
             \/ MouseDown(h) \/ MouseUp(h) \/ InsertText(h) \/ Upload(h)
      PROVE  InputInv'
  BY <1>4, ClickKeeps, LookByKeeps, MouseDownKeeps, MouseUpKeeps, InsertKeeps, UploadKeeps
<1>5. ASSUME NEW h \in Hands, TypeText(h) \/ PressKey(h)
      PROVE  InputInv'
  BY <1>5, FocusesKeeps DEF TypeText, PressKey, ByKeys
<1>6. ASSUME NEW h \in Hands,
             \/ SetValueInFrame(h) \/ SmartFormFill(h) \/ FormSelect(h) \/ FillBackendNode(h)
             \/ DropdownSelect(h) \/ ScrollTo(h) \/ ClickBackendNode(h)
      PROVE  InputInv'
  BY <1>6, OnceActionsKeep
<1>7. QED
  BY <1>1, <1>2, <1>3, <1>4, <1>5, <1>6, PageMovesKeeps DEF InputNext

(* InputInv holds whatever the page and the other requests of the tab do.    *)
THEOREM InputInvariant == InputInit /\ [][InputNext]_inputVars => []InputInv
BY InputInitInv, InputStep, PTL

(* "ok" means that the control meant was touched, a refusal that nothing     *)
(* was, and a confirmation compares with the own analysis, but for the       *)
(* cases ReportsHold names; for any number of requests that overlap on a tab *)
(* and any page (click, type_text, upload_files, smart_form_fill, ...).      *)
THEOREM AnswersAreTrue == InputInit /\ [][InputNext]_inputVars => []ReportsHold
<1>1. InputInv => ReportsHold
  BY DEF InputInv, SoundJob, ToldTruth, ComparesOwn, OthersConfirm, ReportsHold
<1>2. QED
  BY <1>1, InputInvariant, PTL

LEMMA InputTypes == InputInit /\ [][InputNext]_inputVars => []InputTypeOK
<1>1. ASSUME InputInv
      PROVE  InputTypeOK
  <2>1. \A h \in Hands : job[h] \in Jobs
    BY <1>1 DEF InputInv, SoundJob
  <2>2. QED
    BY <1>1, <2>1 DEF InputInv, PageTypeOK, Jobs, InputSteps, InputReports, InputTypeOK
<1>2. QED
  BY InputInvariant, <1>1, PTL

-----------------------------------------------------------------------------
(* Waits.  The shape of the state.                                           *)
PageRecords ==
    [doc : 1..MaxDocs, url : 1..MaxUrl, ready : {"loading", "interactive", "complete"},
     holds : BOOLEAN, dialog : BOOLEAN]
WaitKindsAll == Scripts \cup Checks \cup {"navigate", "idle", "ready"}
Findings == {"none", "seen", "timeout", "failed", "unread", "ready"}
WaitRecords ==
    [kind : WaitKindsAll, layer : Layers,
     step : {"idle", "poll", "read", "send", "listen", "watch", "document", "settle", "done"},
     doc : 0..MaxDocs, url : 0..MaxUrl, base : 0..MaxDocs, slow : BOOLEAN, heard : SUBSET Fetches,
     quiet : 0..StableAfter, saw : BOOLEAN, others : BOOLEAN, found : Findings,
     told : {"none", "ok", "error"}]

(* How far a wait has got says what it has found and may tell.               *)
WaitStands(c) ==
    /\ c.step = "poll" => c.kind \in Scripts \cup Checks
    /\ c.step \in {"read", "send"} => c.kind \in {"url", "navigate"}
    /\ c.step \in {"listen", "watch"} => c.kind \in {"idle", "ready"}
    /\ c.step = "document" => c.kind = "navigate"
    /\ c.step = "settle" => c.kind \in {"navigate", "ready"}
    /\ c.layer = "tool" => c.kind # "url"
    /\ c.step \notin {"settle", "done"} => c.found = "none"
    /\ c.step = "settle" => c.found \in {"seen", "unread", "ready"}
    /\ c.step = "watch" => c.quiet < StableAfter
    /\ c.step = "document" => (~c.others /\ c.base # Unread => c.base = c.doc)
    /\ c.step = "done" => /\ c.found # "none"
                          /\ c.told = IF c.layer = "http" THEN HttpTells(c.kind, c.found)
                                                          ELSE ToolTells(c.kind, c.found)
    /\ c.found = "seen" => c.saw \/ (c.kind = "navigate" /\ (c.slow \/ c.base = Unread \/ c.others))

(* What a wait is for is noted while it lasts.                               *)
NothingMissed(c) ==
    c.step \notin {"idle", "done"} /\ c.kind # "ready" /\ Holds(c, page, flying) => c.saw

WaitInv ==
    /\ page \in PageRecords /\ flying \subseteq Fetches /\ await \in [Waiters -> WaitRecords]
    /\ \A w \in Waiters : WaitStands(await[w]) /\ NothingMissed(await[w])

LEMMA HoldsOrNot ==
  ASSUME NEW c \in WaitRecords, NEW p \in PageRecords, NEW f
  PROVE  Holds(c, p, f) \in BOOLEAN
<1>1. p.holds \in BOOLEAN
  BY DEF PageRecords
<1>2. QED
  BY <1>1 DEF Holds

LEMMA NotedStands ==
  ASSUME NEW c \in WaitRecords, NEW p \in PageRecords, NEW f, WaitStands(c)
  PROVE  LET d == Noted(c, p, f) IN
         /\ d \in WaitRecords /\ WaitStands(d) /\ (Holds(d, p, f) => d.saw)
         /\ d.step = c.step /\ d.kind = c.kind
<1>1. PICK s \in BOOLEAN : s = (c.saw \/ Holds(c, p, f))
  BY HoldsOrNot DEF WaitRecords
<1>2. PICK d : d = [c EXCEPT !.saw = s]
  OBVIOUS
<1>3. d = Noted(c, p, f)
  BY <1>1, <1>2 DEF Noted
<1>4. /\ d \in WaitRecords /\ d.saw = s /\ d.kind = c.kind /\ d.layer = c.layer /\ d.step = c.step
      /\ d.doc = c.doc /\ d.url = c.url /\ d.base = c.base /\ d.slow = c.slow /\ d.heard = c.heard
      /\ d.quiet = c.quiet /\ d.others = c.others /\ d.found = c.found /\ d.told = c.told
  BY <1>2 DEF WaitRecords
<1>5. WaitStands(d)
  BY <1>1, <1>4 DEF WaitStands
<1>6. Holds(d, p, f) = Holds(c, p, f)
  BY <1>4 DEF Holds
<1>7. QED
  BY <1>1, <1>3, <1>4, <1>5, <1>6

LEMMA StepKeeps ==
  ASSUME WaitInv, NEW w \in Waiters, NEW c \in WaitRecords, WaitStands(c), Step(w, c)
  PROVE  WaitInv'
<1>1. page' = page /\ flying' = flying
  BY DEF Step
<1>2. PICK d \in WaitRecords : /\ await' = [await EXCEPT ![w] = d]
                               /\ WaitStands(d) /\ NothingMissed(d)
  <2>1. CASE c.step = "done"
    BY <2>1 DEF Step, NothingMissed
  <2>2. CASE c.step # "done"
    BY <2>2, NotedStands DEF Step, NothingMissed, WaitInv
  <2>3. QED
    BY <2>1, <2>2
<1>3. await' \in [Waiters -> WaitRecords] /\ \A v \in Waiters : await'[v] = IF v = w THEN d ELSE await[v]
  BY <1>2 DEF WaitInv
<1>4. ASSUME NEW v \in Waiters
      PROVE  WaitStands(await'[v]) /\ NothingMissed(await'[v])
  BY <1>2, <1>3 DEF WaitInv
<1>5. (\A v \in Waiters : WaitStands(await[v]) /\ NothingMissed(await[v]))'
  BY <1>1, <1>4 DEF WaitStands, NothingMissed
<1>6. QED
  BY <1>1, <1>3, <1>5 DEF WaitInv

(* What one request does that takes no note.                                 *)
LEMMA OneKeeps ==
  ASSUME WaitInv, NEW w \in Waiters, NEW d \in WaitRecords, WaitStands(d),
         await' = [await EXCEPT ![w] = d], UNCHANGED <<page, flying>>,
         d.step = "idle" \/ d.kind = "ready"
  PROVE  WaitInv'
<1>1. await' \in [Waiters -> WaitRecords] /\ \A v \in Waiters : await'[v] = IF v = w THEN d ELSE await[v]
  BY DEF WaitInv
<1>2. ASSUME NEW v \in Waiters
      PROVE  WaitStands(await'[v]) /\ NothingMissed(await'[v])
  BY <1>1 DEF WaitInv, NothingMissed
<1>3. (\A v \in Waiters : WaitStands(await[v]) /\ NothingMissed(await[v]))'
  BY <1>1, <1>2 DEF WaitStands, NothingMissed
<1>4. QED
  BY <1>1, <1>3 DEF WaitInv

(* The page, or its requests, change: every wait under way takes note.       *)
LEMMA PageKeeps ==
  ASSUME WaitInv, NEW p \in PageRecords, NEW f \in SUBSET Fetches, page' = p, flying' = f,
         await' \in [Waiters -> WaitRecords],
         \A v \in Waiters : WaitStands(await'[v]) /\
                             (await'[v].step \in {"idle", "done"} \/ await'[v].kind = "ready"
                              \/ (Holds(await'[v], p, f) => await'[v].saw))
  PROVE  WaitInv'
<1>1. ASSUME NEW v \in Waiters
      PROVE  (WaitStands(await[v]) /\ NothingMissed(await[v]))'
  <2>1. WaitStands(await[v])'
    BY DEF WaitStands
  <2>2. NothingMissed(await[v])'
    BY DEF NothingMissed
  <2>3. QED
    BY <2>1, <2>2
<1>2. QED
  BY <1>1 DEF WaitInv

LEMMA PageIsKeeps ==
  ASSUME WaitInv, NEW p \in PageRecords, NEW f \in SUBSET Fetches, PageIs(p, f)
  PROVE  WaitInv'
<1>1. ASSUME NEW v \in Waiters
      PROVE  /\ await'[v] \in WaitRecords /\ WaitStands(await'[v])
             /\ \/ await'[v].step \in {"idle", "done"} \/ await'[v].kind = "ready"
                \/ (Holds(await'[v], p, f) => await'[v].saw)
  <2>1. await[v] \in WaitRecords /\ WaitStands(await[v])
    BY DEF WaitInv
  <2>2. CASE Waiting(v)
    BY <2>1, <2>2, NotedStands DEF PageIs
  <2>3. CASE ~Waiting(v)
    BY <2>1, <2>3 DEF PageIs, Waiting
  <2>4. QED
    BY <2>2, <2>3
<1>2. await' \in [Waiters -> WaitRecords]
  <2>1. await' = [v \in Waiters |-> await'[v]]
    BY DEF PageIs
  <2>2. QED
    BY <1>1, <2>1
<1>3. QED
  BY <1>1, <1>2, PageKeeps DEF PageIs

(* An answer stands.                                                         *)
LEMMA ToldStands ==
  ASSUME NEW c \in WaitRecords, WaitStands(c), NEW found \in Findings \ {"none"},
         found = "seen" => c.saw \/ (c.kind = "navigate" /\ (c.slow \/ c.base = Unread \/ c.others))
  PROVE  Told(c, found) \in WaitRecords /\ WaitStands(Told(c, found))
<1>1. PICK answer : answer = IF c.layer = "http" THEN HttpTells(c.kind, found) ELSE ToolTells(c.kind, found)
  OBVIOUS
<1>2. c.layer = "http" \/ (c.layer = "tool" /\ c.kind # "url")
  <2>1. c.layer \in {"http", "tool"}
    BY DEF WaitRecords, Layers
  <2>2. c.layer = "tool" => c.kind # "url"
    BY DEF WaitStands
  <2>3. QED
    BY <2>1, <2>2
<1>3. answer \in {"ok", "error"}
  BY <1>1, <1>2 DEF HttpTells, HttpWaitTells, HttpCheckTells, ToolTells, WaitForTool, WaitJsTool, WaitConditionTool,
        ElementStateTool, AssertTool, NetworkIdleTool, PageTextTool, NavigateTool, EngineFailure,
        WaitRecords, WaitKindsAll, Scripts, Checks
<1>4. PICK d : d = [c EXCEPT !.step = "done", !.found = found, !.told = answer]
  OBVIOUS
<1>5. d = Told(c, found)
  BY <1>1, <1>4 DEF Told
<1>6. /\ d \in WaitRecords /\ d.saw = c.saw /\ d.kind = c.kind /\ d.layer = c.layer /\ d.step = "done"
      /\ d.doc = c.doc /\ d.url = c.url /\ d.base = c.base /\ d.slow = c.slow
      /\ d.quiet = c.quiet /\ d.others = c.others /\ d.found = found /\ d.told = answer
  BY <1>3, <1>4 DEF WaitRecords
<1>7. WaitStands(d)
  BY <1>1, <1>6 DEF WaitStands
<1>8. QED
  BY <1>5, <1>6, <1>7

LEMMA TellsKeeps ==
  ASSUME WaitInv, NEW w \in Waiters, NEW found \in Findings \ {"none"},
         found = "seen" => \/ await[w].saw
                           \/ await[w].kind = "navigate" /\ (await[w].slow \/ await[w].base = Unread \/ await[w].others),
         Step(w, Told(await[w], found))
  PROVE  WaitInv'
BY ToldStands, StepKeeps DEF WaitInv

-----------------------------------------------------------------------------
LEMMA IdleCall == NoCall \in WaitRecords /\ NoCall.step = "idle" /\ NoCall.found = "none" /\ NoCall.kind = "element"
<1>1. {} \in SUBSET Fetches /\ 0 \in 0..MaxDocs /\ 0 \in 0..MaxUrl /\ 0 \in 0..StableAfter
  BY PageWaitsAssumption DEF StableAfter
<1>2. QED
  BY <1>1 DEF NoCall, WaitRecords, WaitKindsAll, Scripts, Layers, Unread, Findings

(* A call begins.                                                            *)
LEMMA BeginsKeeps ==
  ASSUME WaitInv, NEW w \in Waiters, NEW kind \in WaitKindsAll, NEW layers \in SUBSET Layers,
         NEW step \in {"poll", "read", "listen"}, Begins(w, kind, layers, step),
         step = "poll" => kind \in Scripts \cup Checks, step = "read" => kind \in {"url", "navigate"},
         step = "listen" => kind \in {"idle", "ready"}, kind = "url" => layers = {"http"}
  PROVE  WaitInv'
<1>1. PICK l \in layers :
         Step(w, [NoCall EXCEPT !.kind = kind, !.layer = l, !.doc = page.doc,
                                !.url = page.url, !.step = step])
  BY DEF Begins
<1>2. PICK c : c = [NoCall EXCEPT !.kind = kind, !.layer = l, !.doc = page.doc,
                                  !.url = page.url, !.step = step]
  OBVIOUS
<1>3. page.doc \in 0..MaxDocs /\ page.url \in 0..MaxUrl
  BY PageWaitsAssumption DEF WaitInv, PageRecords
<1>4. /\ c \in WaitRecords /\ c.kind = kind /\ c.step = step /\ c.layer = l /\ c.found = "none"
  <2>1. l \in Layers
    OBVIOUS
  <2>2. QED
    BY <1>2, <1>3, <2>1, IdleCall DEF WaitRecords
<1>5. WaitStands(c)
  BY <1>1, <1>4 DEF WaitStands
<1>6. QED
  BY <1>1, <1>2, <1>4, <1>5, StepKeeps

LEMMA CallsKeep ==
  ASSUME WaitInv, NEW w \in Waiters,
         \/ WaitForElement(w) \/ WaitForCondition(w) \/ WaitForText(w) \/ WaitForTextDetailed(w)
         \/ WaitJs(w) \/ AssertElements(w) \/ ElementState(w) \/ WaitForNavigation(w)
         \/ Navigate(w) \/ WaitForNetworkIdle(w) \/ WaitForReady(w)
  PROVE  WaitInv'
<1> USE DEF Layers, WaitKindsAll, Scripts, Checks
<1>1. CASE WaitForElement(w)
  <2>1. PICK k \in {"element", "gone"} : Begins(w, k, Layers, "poll")
    BY <1>1 DEF WaitForElement
  <2>2. QED
    BY <2>1, BeginsKeeps
<1>2. CASE WaitForCondition(w)
  BY <1>2, BeginsKeeps DEF WaitForCondition
<1>3. CASE WaitForText(w)
  BY <1>3, BeginsKeeps DEF WaitForText
<1>4. CASE WaitForTextDetailed(w)
  BY <1>4, BeginsKeeps DEF WaitForTextDetailed
<1>5. CASE WaitJs(w)
  BY <1>5, BeginsKeeps DEF WaitJs
<1>6. CASE AssertElements(w)
  BY <1>6, BeginsKeeps DEF AssertElements
<1>7. CASE ElementState(w)
  BY <1>7, BeginsKeeps DEF ElementState
<1>8. CASE WaitForNavigation(w)
  BY <1>8, BeginsKeeps DEF WaitForNavigation
<1>9. CASE Navigate(w)
  BY <1>9, BeginsKeeps DEF Navigate
<1>10. CASE WaitForNetworkIdle(w)
  BY <1>10, BeginsKeeps DEF WaitForNetworkIdle
<1>11. CASE WaitForReady(w)
  BY <1>11, BeginsKeeps DEF WaitForReady
<1>12. QED
  BY <1>1, <1>2, <1>3, <1>4, <1>5, <1>6, <1>7, <1>8, <1>9, <1>10, <1>11

(* A wait goes on, and what it has found so far is nothing.                  *)
LEMMA GoesOnKeeps ==
  ASSUME WaitInv, NEW w \in Waiters, NEW c \in WaitRecords, Step(w, c),
         c.kind = await[w].kind, c.layer = await[w].layer, c.found = await[w].found, await[w].found = "none",
         \/ c.step = "poll" /\ c.kind \in Scripts \cup Checks
         \/ c.step = "send" /\ c.kind \in {"url", "navigate"}
         \/ c.step = "watch" /\ c.kind \in {"idle", "ready"} /\ c.quiet < StableAfter
         \/ c.step = "document" /\ c.kind = "navigate" /\ (~c.others /\ c.base # Unread => c.base = c.doc)
  PROVE  WaitInv'
<1>1. WaitStands(await[w])
  BY DEF WaitInv
<1>2. WaitStands(c)
  BY <1>1 DEF WaitStands
<1>3. QED
  BY <1>2, StepKeeps

LEMMA PollsKeep ==
  ASSUME WaitInv, NEW w \in Waiters,
         PollSees(w) \/ PollExpires(w) \/ ScriptDestroyed(w) \/ CommandExpires(w)
  PROVE  WaitInv'
<1>1. PICK c \in WaitRecords : c = await[w] /\ WaitStands(c) /\ NothingMissed(c)
  BY DEF WaitInv
<1>2. CASE PollSees(w)
  <2>1. c.step = "poll" /\ Holds(c, page, flying) /\ Step(w, Told(c, "seen"))
    BY <1>1, <1>2 DEF PollSees, Running, Looked
  <2>2. c.kind # "ready"
    BY <1>1, <2>1 DEF WaitStands, Scripts, Checks
  <2>3. c.saw
    BY <1>1, <2>1, <2>2 DEF NothingMissed
  <2>4. QED
    BY <1>1, <2>1, <2>3, TellsKeeps DEF Findings
<1>3. CASE PollExpires(w)
  BY <1>3, TellsKeeps DEF PollExpires, Findings
<1>4. CASE ScriptDestroyed(w)
  BY <1>4, TellsKeeps DEF ScriptDestroyed, Findings
<1>5. CASE CommandExpires(w)
  <2>1. CASE c.step = "read" /\ c.kind = "navigate"
    <3>1. PICK d : d = [c EXCEPT !.step = "send"]
      OBVIOUS
    <3>2. Step(w, d)
      BY <1>1, <1>5, <2>1, <3>1 DEF CommandExpires
    <3>3. /\ d \in WaitRecords /\ d.kind = c.kind /\ d.layer = c.layer /\ d.found = c.found /\ d.step = "send"
      BY <3>1 DEF WaitRecords
    <3>4. c.found = "none"
      BY <1>1, <2>1 DEF WaitStands
    <3>5. QED
      BY <1>1, <2>1, <3>2, <3>3, <3>4, GoesOnKeeps
  <2>2. CASE c.step = "settle" /\ c.kind = "navigate"
    <3>1. Step(w, Told(c, c.found))
      BY <1>1, <1>5, <2>2 DEF CommandExpires
    <3>2. c.found \in Findings \ {"none"}
      BY <1>1, <2>2 DEF WaitStands, Findings
    <3>3. c.found = "seen" => c.saw \/ (c.kind = "navigate" /\ (c.slow \/ c.base = Unread \/ c.others))
      BY <1>1 DEF WaitStands
    <3>4. QED
      BY <1>1, <3>1, <3>2, <3>3, TellsKeeps
  <2>3. CASE ~(c.step = "read" /\ c.kind = "navigate") /\ ~(c.step = "settle" /\ c.kind = "navigate")
    BY <1>1, <1>5, <2>3, TellsKeeps DEF CommandExpires, Findings
  <2>4. QED
    BY <2>1, <2>2, <2>3
<1>6. QED
  BY <1>2, <1>3, <1>4, <1>5

LEMMA ReadsKeep ==
  ASSUME WaitInv, NEW w \in Waiters, ReadUrl(w) \/ PollSent(w) \/ ReadOrigin(w)
  PROVE  WaitInv'
<1>1. PICK c \in WaitRecords : c = await[w] /\ WaitStands(c)
  BY DEF WaitInv
<1>2. page.doc \in 0..MaxDocs /\ page.url \in 0..MaxUrl /\ Unread \in 0..MaxDocs
  BY PageWaitsAssumption DEF WaitInv, PageRecords, Unread
<1>3. CASE ReadUrl(w)
  <2>1. PICK d : d = [c EXCEPT !.step = "send", !.url = page.url]
    OBVIOUS
  <2>2. Step(w, d) /\ c.kind = "url" /\ c.step = "read"
    BY <1>1, <1>3, <2>1 DEF ReadUrl
  <2>3. /\ d \in WaitRecords /\ d.kind = c.kind /\ d.layer = c.layer /\ d.found = c.found /\ d.step = "send"
    BY <1>2, <2>1 DEF WaitRecords
  <2>4. c.found = "none"
    BY <1>1, <2>2 DEF WaitStands
  <2>5. QED
    BY <1>1, <2>2, <2>3, <2>4, GoesOnKeeps
<1>4. CASE PollSent(w)
  <2>1. PICK d : d = [c EXCEPT !.step = "poll", !.doc = page.doc]
    OBVIOUS
  <2>2. Step(w, d) /\ c.kind = "url" /\ c.step = "send"
    BY <1>1, <1>4, <2>1 DEF PollSent
  <2>3. /\ d \in WaitRecords /\ d.kind = c.kind /\ d.layer = c.layer /\ d.found = c.found /\ d.step = "poll"
    BY <1>2, <2>1 DEF WaitRecords
  <2>4. c.found = "none"
    BY <1>1, <2>2 DEF WaitStands
  <2>5. QED
    BY <1>1, <2>2, <2>3, <2>4, GoesOnKeeps DEF Scripts
<1>5. CASE ReadOrigin(w) /\ page.dialog
  BY <1>5, TellsKeeps DEF ReadOrigin, Findings
<1>6. CASE ReadOrigin(w) /\ ~page.dialog
  <2>1. PICK o \in {page.doc, Unread} : Step(w, [c EXCEPT !.step = "send", !.base = o])
    BY <1>1, <1>6 DEF ReadOrigin
  <2>2. PICK d : d = [c EXCEPT !.step = "send", !.base = o]
    OBVIOUS
  <2>3. Step(w, d) /\ c.kind = "navigate" /\ c.step = "read"
    BY <1>1, <1>6, <2>1, <2>2 DEF ReadOrigin
  <2>4. /\ d \in WaitRecords /\ d.kind = c.kind /\ d.layer = c.layer /\ d.found = c.found /\ d.step = "send"
    BY <1>2, <2>2 DEF WaitRecords
  <2>5. c.found = "none"
    BY <1>1, <2>3 DEF WaitStands
  <2>6. QED
    BY <1>1, <2>3, <2>4, <2>5, GoesOnKeeps
<1>7. QED
  BY <1>3, <1>4, <1>5, <1>6

LEMMA LoadingStands ==
  ASSUME NEW p \in PageRecords, NEW same \in BOOLEAN, p.url < MaxUrl, ~same => p.doc < MaxDocs
  PROVE  /\ Loading(p, same) \in PageRecords
         /\ same => Loading(p, same).doc = p.doc
         /\ ~same => Loading(p, same).ready = "loading"
<1>1. p.url \in 1..MaxUrl /\ p.doc \in 1..MaxDocs
  BY DEF PageRecords
<1>2. p.url + 1 \in 1..MaxUrl /\ (~same => p.doc + 1 \in 1..MaxDocs)
  BY <1>1, PageWaitsAssumption
<1>3. QED
  BY <1>2 DEF Loading, PageRecords

LEMMA SendKeeps ==
  ASSUME WaitInv, NEW w \in Waiters, SendNavigate(w)
  PROVE  WaitInv'
<1>1. PICK c \in WaitRecords : c = await[w] /\ WaitStands(c) /\ c.kind = "navigate" /\ c.step = "send"
  BY DEF WaitInv, SendNavigate
<1>2. CASE Step(w, Told(await[w], "failed"))
  BY <1>2, TellsKeeps DEF Findings
<1>3. CASE ~Step(w, Told(await[w], "failed"))
  <2>1. PICK same \in BOOLEAN :
               /\ page.url < MaxUrl /\ (~same => page.doc < MaxDocs)
               /\ page' = Loading(page, same) /\ UNCHANGED flying
               /\ await' = [v \in Waiters |->
                    IF v = w THEN [await[v] EXCEPT !.step = "document", !.doc = page.doc,
                                     !.slow = FALSE, !.saw = FALSE,
                                     !.others = await[v].base \notin {page.doc, Unread}]
                    ELSE IF Waiting(v) THEN Noted(await[v], page', flying) ELSE await[v]]
    BY <1>3 DEF SendNavigate
  <2>2. PICK p \in PageRecords : p = page' /\ (same => p.doc = page.doc) /\ (~same => p.ready = "loading")
    BY <2>1, LoadingStands DEF WaitInv
  <2>3. PICK o \in BOOLEAN : o = (c.base \notin {page.doc, Unread})
    OBVIOUS
  <2>4. PICK d : d = [c EXCEPT !.step = "document", !.doc = page.doc, !.slow = FALSE, !.saw = FALSE, !.others = o]
    OBVIOUS
  <2>5. page.doc \in 0..MaxDocs
    BY DEF WaitInv, PageRecords
  <2>6. /\ d \in WaitRecords /\ d.kind = "navigate" /\ d.step = "document" /\ d.layer = c.layer
        /\ d.doc = page.doc /\ d.others = o /\ d.base = c.base /\ d.found = c.found /\ ~d.slow /\ ~d.saw
    BY <1>1, <2>4, <2>5 DEF WaitRecords
  <2>7. WaitStands(d) /\ ~Holds(d, p, flying)
    <3>1. c.found = "none"
      BY <1>1 DEF WaitStands
    <3>2. WaitStands(d)
      BY <2>3, <2>6, <3>1 DEF WaitStands
    <3>3. QED
      BY <2>1, <2>2, <2>6, <3>2 DEF Holds
  <2>8. ASSUME NEW v \in Waiters
        PROVE  /\ await'[v] \in WaitRecords /\ WaitStands(await'[v])
               /\ \/ await'[v].step \in {"idle", "done"} \/ await'[v].kind = "ready"
                  \/ (Holds(await'[v], p, flying) => await'[v].saw)
    <3>0. await[v] \in WaitRecords /\ WaitStands(await[v])
      BY DEF WaitInv
    <3>1. CASE v = w
      <4>1. await'[v] = d
        BY <1>1, <2>1, <2>3, <2>4, <3>1
      <4>2. QED
        BY <2>6, <2>7, <4>1
    <3>2. CASE v # w /\ Waiting(v)
      <4>1. await'[v] = Noted(await[v], p, flying)
        BY <2>1, <2>2, <3>2
      <4>2. QED
        BY <3>0, <4>1, NotedStands
    <3>3. CASE v # w /\ ~Waiting(v)
      BY <2>1, <3>0, <3>3 DEF Waiting
    <3>4. QED
      BY <3>1, <3>2, <3>3
  <2>9. await' \in [Waiters -> WaitRecords]
    <3>1. await' = [v \in Waiters |-> await'[v]]
      BY <2>1
    <3>2. QED
      BY <2>8, <3>1
  <2>10. flying \in SUBSET Fetches /\ flying' = flying
    BY <2>1 DEF WaitInv
  <2>11. QED
    BY <2>2, <2>8, <2>9, <2>10, PageKeeps
<1>4. QED
  BY <1>2, <1>3

LEMMA DocumentsKeep ==
  ASSUME WaitInv, NEW w \in Waiters,
         SecondPasses(w) \/ DocumentReady(w) \/ DocumentUnreadable(w) \/ DocumentExpires(w) \/ Settles(w)
  PROVE  WaitInv'
<1>1. PICK c \in WaitRecords : c = await[w] /\ WaitStands(c) /\ NothingMissed(c)
  BY DEF WaitInv
<1>2. CASE SecondPasses(w)
  <2>1. PICK d : d = [c EXCEPT !.slow = TRUE]
    OBVIOUS
  <2>2. Step(w, d) /\ c.step = "document"
    BY <1>1, <1>2, <2>1 DEF SecondPasses
  <2>3. /\ d \in WaitRecords /\ d.kind = c.kind /\ d.layer = c.layer /\ d.found = c.found /\ d.step = "document"
        /\ d.others = c.others /\ d.base = c.base /\ d.doc = c.doc
    BY <2>1, <2>2 DEF WaitRecords
  <2>4. c.found = "none" /\ c.kind = "navigate" /\ (~c.others /\ c.base # Unread => c.base = c.doc)
    BY <1>1, <2>2 DEF WaitStands
  <2>5. QED
    BY <1>1, <2>2, <2>3, <2>4, GoesOnKeeps
<1>3. ASSUME NEW found \in {"seen", "unread"}, Step(w, Loaded(c, found)), c.step = "document",
             found = "seen" => c.saw \/ c.slow \/ c.base = Unread \/ c.others
      PROVE  WaitInv'
  <2>1. c.kind = "navigate"
    BY <1>1, <1>3 DEF WaitStands
  <2>2. CASE c.layer = "http"
    <3>1. PICK d : d = [c EXCEPT !.step = "settle", !.found = found]
      OBVIOUS
    <3>2. /\ d \in WaitRecords /\ d.kind = c.kind /\ d.layer = c.layer /\ d.found = found /\ d.step = "settle"
          /\ d.others = c.others /\ d.base = c.base /\ d.doc = c.doc /\ d.saw = c.saw /\ d.slow = c.slow
      BY <3>1 DEF WaitRecords, Findings
    <3>3. WaitStands(d)
      BY <1>3, <2>1, <2>2, <3>2 DEF WaitStands
    <3>4. QED
      BY <1>3, <2>2, <3>1, <3>2, <3>3, StepKeeps DEF Loaded
  <2>3. CASE c.layer # "http"
    BY <1>1, <1>3, <2>1, <2>3, TellsKeeps DEF Loaded, Findings
  <2>4. QED
    BY <2>2, <2>3
<1>4. CASE DocumentReady(w)
  <2>1. Step(w, Loaded(c, "seen")) /\ c.step = "document" /\ page.ready # "loading" /\ (page.doc # c.base \/ c.slow)
    BY <1>1, <1>4 DEF DocumentReady, Accepts, NewDocument
  <2>2. c.kind = "navigate" /\ (~c.others /\ c.base # Unread => c.base = c.doc)
    BY <1>1, <2>1 DEF WaitStands
  <2>3. c.saw \/ c.slow \/ c.base = Unread \/ c.others
    BY <1>1, <2>1, <2>2 DEF NothingMissed, Holds
  <2>4. QED
    BY <1>3, <2>1, <2>3
<1>5. CASE DocumentUnreadable(w)
  BY <1>1, <1>3, <1>5 DEF DocumentUnreadable
<1>6. CASE DocumentExpires(w)
  BY <1>6, TellsKeeps DEF DocumentExpires, Findings
<1>7. CASE Settles(w)
  <2>1. Step(w, Told(c, c.found)) /\ c.step = "settle"
    BY <1>1, <1>7 DEF Settles
  <2>2. c.found \in Findings \ {"none"}
    BY <1>1, <2>1 DEF WaitStands, Findings
  <2>3. c.found = "seen" => c.saw \/ (c.kind = "navigate" /\ (c.slow \/ c.base = Unread \/ c.others))
    BY <1>1 DEF WaitStands
  <2>4. QED
    BY <1>1, <2>1, <2>2, <2>3, TellsKeeps
<1>8. QED
  BY <1>2, <1>4, <1>5, <1>6, <1>7

LEMMA ReadyKeeps ==
  ASSUME WaitInv, NEW w \in Waiters, await[w].kind = "ready", await[w].step = "watch",
         NEW found \in {"ready", "failed"}, NEW c, c = ReadyEnds(await[w], found)
  PROVE  c \in WaitRecords /\ WaitStands(c) /\ c.step \in {"settle", "done"} /\ c.kind = "ready"
<1>1. PICK v \in WaitRecords : v = await[w] /\ WaitStands(v)
  BY DEF WaitInv
<1>2. CASE v.layer = "tool"
  <2>1. c = [v EXCEPT !.step = "settle", !.found = "ready"]
    BY <1>1, <1>2 DEF ReadyEnds
  <2>2. /\ c \in WaitRecords /\ c.kind = "ready" /\ c.layer = v.layer /\ c.found = "ready" /\ c.step = "settle"
    BY <1>1, <2>1 DEF WaitRecords, Findings
  <2>3. QED
    BY <2>2 DEF WaitStands
<1>3. CASE v.layer # "tool"
  <2>1. c = Told(v, found)
    BY <1>1, <1>3 DEF ReadyEnds
  <2>2. c \in WaitRecords /\ WaitStands(c)
    BY <1>1, <2>1, ToldStands DEF Findings
  <2>3. c.step = "done" /\ c.kind = "ready"
    BY <1>1, <2>1 DEF Told, WaitRecords
  <2>4. QED
    BY <2>2, <2>3
<1>4. QED
  BY <1>2, <1>3

LEMMA WatchesKeep ==
  ASSUME WaitInv, NEW w \in Waiters,
         Registers(w) \/ Quiet(w) \/ NotQuiet(w) \/ WatchExpires(w) \/ ReadsText(w) \/ ReadyExpires(w)
         \/ WaitAnswered(w)
  PROVE  WaitInv'
<1>1. PICK c \in WaitRecords : c = await[w] /\ WaitStands(c) /\ NothingMissed(c)
  BY DEF WaitInv
<1>0. ASSUME NEW d \in WaitRecords, d.kind = c.kind, d.layer = c.layer, d.found = c.found, d.step = "watch",
             d.quiet < StableAfter, Step(w, d), c.step \in {"listen", "watch"}
      PROVE  WaitInv'
  <2>1. c.found = "none" /\ c.kind \in {"idle", "ready"}
    BY <1>0, <1>1 DEF WaitStands
  <2>2. QED
    BY <1>0, <1>1, <2>1, GoesOnKeeps
<1>2. CASE Registers(w)
  <2>1. PICK d : d = [c EXCEPT !.step = "watch", !.heard = {}, !.quiet = 0]
    OBVIOUS
  <2>2. Step(w, d) /\ c.step = "listen"
    BY <1>1, <1>2, <2>1 DEF Registers
  <2>3. /\ d \in WaitRecords /\ d.kind = c.kind /\ d.layer = c.layer /\ d.found = c.found /\ d.step = "watch"
        /\ d.quiet = 0
    <3>1. {} \in SUBSET Fetches /\ 0 \in 0..StableAfter
      BY DEF StableAfter
    <3>2. QED
      BY <2>1, <3>1 DEF WaitRecords
  <2>4. d.quiet < StableAfter
    BY <2>3 DEF StableAfter
  <2>5. QED
    BY <1>0, <2>2, <2>3, <2>4
<1>3. ASSUME NEW q \in {0, 1}, Step(w, [c EXCEPT !.quiet = q]), c.step = "watch"
      PROVE  WaitInv'
  <2>1. PICK d : d = [c EXCEPT !.quiet = q]
    OBVIOUS
  <2>2. /\ d \in WaitRecords /\ d.kind = c.kind /\ d.layer = c.layer /\ d.found = c.found /\ d.step = "watch"
        /\ d.quiet < StableAfter
    BY <1>3, <2>1 DEF WaitRecords, StableAfter
  <2>3. QED
    BY <1>0, <1>3, <2>1, <2>2
<1>4. CASE Quiet(w)
  <2>1. c.kind = "idle" /\ c.step = "watch" /\ c.heard = {}
    BY <1>1, <1>4 DEF Quiet, Pending
  <2>2. CASE c.quiet = 0
    BY <1>1, <1>3, <1>4, <2>1, <2>2 DEF Quiet
  <2>3. CASE c.quiet # 0
    <3>1. Step(w, Told(c, "seen"))
      BY <1>1, <1>4, <2>3 DEF Quiet
    <3>2. c.saw
      BY <1>1, <2>1 DEF NothingMissed, Holds
    <3>3. QED
      BY <1>1, <3>1, <3>2, TellsKeeps DEF Findings
  <2>4. QED
    BY <2>2, <2>3
<1>5. CASE NotQuiet(w)
  BY <1>1, <1>3, <1>5 DEF NotQuiet
<1>6. CASE WatchExpires(w)
  BY <1>6, TellsKeeps DEF WatchExpires, Findings
<1>7. CASE ReadyExpires(w)
  <2>1. PICK found \in {"ready", "failed"} : Step(w, ReadyEnds(c, found))
    BY <1>1, <1>7 DEF ReadyExpires
  <2>2. ReadyEnds(c, found) \in WaitRecords /\ WaitStands(ReadyEnds(c, found))
    BY <1>1, <1>7, ReadyKeeps DEF ReadyExpires
  <2>3. QED
    BY <2>1, <2>2, StepKeeps
<1>8. CASE ReadsText(w)
  <2>1. c.kind = "ready" /\ c.step = "watch" /\ page' = page /\ flying' = flying
    BY <1>1, <1>8 DEF ReadsText
  <2>2. PICK n : n = IF c.doc = page.doc /\ c.saw = page.holds THEN c.quiet + 1 ELSE 0
    OBVIOUS
  <2>3. n \in 0..StableAfter
    BY <1>1, <2>1, <2>2 DEF WaitStands, WaitRecords, StableAfter
  <2>4. page.doc \in 0..MaxDocs /\ page.holds \in BOOLEAN
    BY DEF WaitInv, PageRecords
  <2>5. PICK d : d = IF n = StableAfter THEN ReadyEnds(c, "ready")
                     ELSE [c EXCEPT !.doc = page.doc, !.saw = page.holds, !.quiet = n]
    OBVIOUS
  <2>6. await' = [await EXCEPT ![w] = d]
    BY <1>1, <1>8, <2>2, <2>5 DEF ReadsText
  <2>7. d \in WaitRecords /\ WaitStands(d) /\ d.kind = "ready"
    <3>1. CASE n = StableAfter
      BY <1>1, <2>1, <2>5, <3>1, ReadyKeeps
    <3>2. CASE n # StableAfter
      <4>1. /\ d \in WaitRecords /\ d.kind = "ready" /\ d.layer = c.layer /\ d.found = c.found /\ d.step = "watch"
            /\ d.quiet = n
        BY <2>1, <2>3, <2>4, <2>5, <3>2 DEF WaitRecords
      <4>2. c.found = "none" /\ n < StableAfter
        BY <1>1, <2>1, <2>3, <3>2 DEF WaitStands, StableAfter
      <4>3. QED
        BY <4>1, <4>2 DEF WaitStands
    <3>3. QED
      BY <3>1, <3>2
  <2>8. QED
    BY <2>1, <2>6, <2>7, OneKeeps
<1>9. CASE WaitAnswered(w)
  <2>1. WaitStands(NoCall) /\ NoCall \in WaitRecords /\ NoCall.step = "idle"
    BY IdleCall DEF WaitStands, NoCall
  <2>2. QED
    BY <1>9, <2>1, OneKeeps DEF WaitAnswered
<1>10. QED
  BY <1>2, <1>4, <1>5, <1>6, <1>7, <1>8, <1>9

LEMMA PageGoesKeeps ==
  ASSUME WaitInv, PageGoes
  PROVE  WaitInv'
<1>1. page \in PageRecords /\ flying \in SUBSET Fetches
  BY DEF WaitInv
<1>2. \E p \in PageRecords : PageIs(p, flying)
  <2>1. ASSUME NEW same \in BOOLEAN, page.url < MaxUrl, ~same => page.doc < MaxDocs, PageIs(Loading(page, same), flying)
        PROVE  \E p \in PageRecords : PageIs(p, flying)
    BY <1>1, <2>1, LoadingStands
  <2>2. ASSUME PageIs([page EXCEPT !.ready = IF @ = "loading" THEN "interactive" ELSE "complete"], flying)
        PROVE  \E p \in PageRecords : PageIs(p, flying)
    <3>1. [page EXCEPT !.ready = IF @ = "loading" THEN "interactive" ELSE "complete"] \in PageRecords
      BY <1>1 DEF PageRecords
    <3>2. QED
      BY <2>2, <3>1
  <2>3. ASSUME PageIs([page EXCEPT !.holds = ~@], flying)
        PROVE  \E p \in PageRecords : PageIs(p, flying)
    <3>1. [page EXCEPT !.holds = ~@] \in PageRecords
      BY <1>1 DEF PageRecords
    <3>2. QED
      BY <2>3, <3>1
  <2>4. ASSUME PageIs([page EXCEPT !.dialog = ~@], flying)
        PROVE  \E p \in PageRecords : PageIs(p, flying)
    <3>1. [page EXCEPT !.dialog = ~@] \in PageRecords
      BY <1>1 DEF PageRecords
    <3>2. QED
      BY <2>4, <3>1
  <2>5. QED
    BY <2>1, <2>2, <2>3, <2>4 DEF PageGoes
<1>3. QED
  BY <1>1, <1>2, PageIsKeeps

LEMMA HeardStands ==
  ASSUME NEW c \in WaitRecords, WaitStands(c), NEW heard \in SUBSET Fetches
  PROVE  LET d == [c EXCEPT !.heard = heard] IN
         d \in WaitRecords /\ WaitStands(d) /\ d.heard = heard /\ d.step = c.step /\ d.kind = c.kind /\ d.saw = c.saw
<1>1. PICK d : d = [c EXCEPT !.heard = heard]
  OBVIOUS
<1>2. /\ d \in WaitRecords /\ d.saw = c.saw /\ d.kind = c.kind /\ d.layer = c.layer /\ d.step = c.step
      /\ d.doc = c.doc /\ d.url = c.url /\ d.base = c.base /\ d.slow = c.slow /\ d.heard = heard
      /\ d.quiet = c.quiet /\ d.others = c.others /\ d.found = c.found /\ d.told = c.told
  BY <1>1 DEF WaitRecords
<1>3. WaitStands(d)
  BY <1>2 DEF WaitStands
<1>4. QED
  BY <1>1, <1>2, <1>3

LEMMA FetchesKeep ==
  ASSUME WaitInv, NEW r \in Fetches, FetchStarts(r) \/ FetchEnds(r)
  PROVE  WaitInv'
<1>1. page \in PageRecords /\ page' = page /\ flying' \in SUBSET Fetches
  BY DEF WaitInv, FetchStarts, FetchEnds
<1>2. ASSUME NEW v \in Waiters
      PROVE  /\ await'[v] \in WaitRecords /\ WaitStands(await'[v])
             /\ \/ await'[v].step \in {"idle", "done"} \/ await'[v].kind = "ready"
                \/ (Holds(await'[v], page, flying') => await'[v].saw)
  <2>1. PICK c \in WaitRecords : c = await[v] /\ WaitStands(c) /\ NothingMissed(c) /\ c.heard \subseteq Fetches
    <3>1. await[v] \in WaitRecords
      BY DEF WaitInv
    <3>2. await[v].heard \subseteq Fetches
      BY <3>1 DEF WaitRecords
    <3>3. QED
      BY <3>1, <3>2 DEF WaitInv
  <2>2. CASE FetchStarts(r) /\ c.step = "watch"
    <3>1. PICK d : d = [c EXCEPT !.heard = c.heard \cup {r}]
      OBVIOUS
    <3>2. await'[v] = d /\ flying' = flying \cup {r}
      BY <2>1, <2>2, <3>1 DEF FetchStarts
    <3>3. d \in WaitRecords /\ WaitStands(d) /\ r \in d.heard /\ d.step = "watch"
      BY <2>1, <2>2, <3>1, HeardStands
    <3>4. d.kind = "ready" \/ (d.kind = "idle" /\ ~Holds(d, page, flying'))
      BY <3>2, <3>3 DEF WaitStands, Holds
    <3>5. QED
      BY <3>2, <3>3, <3>4
  <2>3. CASE FetchStarts(r) /\ c.step # "watch"
    <3>1. await'[v] = c /\ flying' = flying \cup {r}
      BY <2>1, <2>3 DEF FetchStarts
    <3>2. ASSUME c.step \notin {"idle", "done"}, c.kind # "ready", Holds(c, page, flying')
          PROVE  c.saw
      <4>1. Holds(c, page, flying)
        BY <3>1, <3>2 DEF Holds
      <4>2. QED
        BY <2>1, <3>2, <4>1 DEF NothingMissed
    <3>3. QED
      BY <2>1, <3>1, <3>2
  <2>4. CASE FetchEnds(r) /\ Waiting(v)
    <3>1. PICK answered \in BOOLEAN :
             await'[v] = Noted([c EXCEPT !.heard = IF answered THEN @ \ {r} ELSE @], page, flying')
      BY <2>1, <2>4 DEF FetchEnds
    <3>2. PICK heard \in SUBSET Fetches : heard = IF answered THEN c.heard \ {r} ELSE c.heard
      BY <2>1
    <3>3. PICK d : d = [c EXCEPT !.heard = heard]
      OBVIOUS
    <3>4. await'[v] = Noted(d, page, flying')
      BY <3>1, <3>2, <3>3
    <3>5. d \in WaitRecords /\ WaitStands(d)
      BY <2>1, <3>3, HeardStands
    <3>6. QED
      BY <1>1, <3>4, <3>5, NotedStands
  <2>5. CASE FetchEnds(r) /\ ~Waiting(v)
    BY <2>1, <2>5 DEF FetchEnds, Waiting
  <2>6. QED
    BY <2>2, <2>3, <2>4, <2>5
<1>3. await' \in [Waiters -> WaitRecords]
  <2>1. await' = [v \in Waiters |-> await'[v]]
    BY DEF FetchStarts, FetchEnds
  <2>2. QED
    BY <1>2, <2>1
<1>4. QED
  BY <1>1, <1>2, <1>3, PageKeeps

LEMMA WaitStep == WaitInv /\ [WaitNext]_waitVars => WaitInv'
<1> SUFFICES ASSUME WaitInv, [WaitNext]_waitVars
             PROVE  WaitInv'
  OBVIOUS
<1>1. CASE UNCHANGED waitVars
  BY <1>1 DEF waitVars, WaitInv, WaitStands, NothingMissed
<1>3. CASE WaitNext
  BY <1>3, CallsKeep, PollsKeep, ReadsKeep, SendKeeps, DocumentsKeep, WatchesKeep, PageGoesKeeps, FetchesKeep DEF WaitNext
<1>4. QED
  BY <1>1, <1>3

LEMMA WaitStart == WaitInit => WaitInv
<1> SUFFICES ASSUME WaitInit
             PROVE  WaitInv
  OBVIOUS
<1>1. page \in PageRecords /\ flying \subseteq Fetches /\ await \in [Waiters -> WaitRecords]
  BY IdleCall, PageWaitsAssumption DEF WaitInit, PageRecords
<1>2. \A w \in Waiters : await[w] = NoCall
  BY DEF WaitInit
<1>3. WaitStands(NoCall) /\ NothingMissed(NoCall)
  BY DEF NoCall, WaitStands, NothingMissed
<1>4. QED
  BY <1>1, <1>2, <1>3 DEF WaitInv

LEMMA WaitsTell ==
  ASSUME WaitInv
  PROVE  AnswersSeen /\ ToolTellsTruth /\ WaitTypeOK
<1>1. ASSUME NEW w \in Waiters, NEW c, c = await[w], c.step = "done", c.layer = "tool", c.told = "ok"
      PROVE  c.found \in {"seen", "ready", "unread"} \/ c.kind \in {"idle", "assert"}
  <2>1. c \in WaitRecords /\ WaitStands(c)
    BY <1>1 DEF WaitInv
  <2>2. c.kind \in WaitKindsAll /\ c.found \in Findings /\ c.found # "none" /\ c.kind # "url" /\ ToolTells(c.kind, c.found) = "ok"
    BY <1>1, <2>1 DEF WaitRecords, WaitStands
  <2>3. QED
    BY <2>2 DEF ToolTells, WaitForTool, WaitJsTool, WaitConditionTool, Findings,
        ElementStateTool, AssertTool, NetworkIdleTool, PageTextTool, NavigateTool, EngineFailure,
        WaitKindsAll, Scripts, Checks
<1>2. AnswersSeen
  BY DEF WaitInv, WaitStands, AnswersSeen
<1>3. WaitTypeOK
  <2>1. page.doc \in 1..MaxDocs /\ page.url \in 1..MaxUrl /\ flying \subseteq Fetches
    BY DEF WaitInv, PageRecords
  <2>2. ASSUME NEW w \in Waiters
        PROVE  await[w].base \in 0..MaxDocs /\ await[w].heard \subseteq Fetches /\ await[w].quiet \in 0..StableAfter
    <3>1. await[w] \in WaitRecords
      BY DEF WaitInv
    <3>2. QED
      BY <3>1 DEF WaitRecords
  <2>3. QED
    BY <2>1, <2>2 DEF WaitTypeOK
<1>4. QED
  BY <1>1, <1>2, <1>3 DEF ToolTellsTruth

(* Whatever waits, pages and requests do: an answer has something to show    *)
(* for it, and no tool calls a failure a success.                            *)
THEOREM WaitsAreTold == WaitInit /\ [][WaitNext]_waitVars => [](AnswersSeen /\ ToolTellsTruth)
<1>1. WaitInv /\ [WaitNext]_waitVars => WaitInv'
  BY WaitStep
<1>2. QED
  BY <1>1, WaitStart, WaitsTell, PTL

LEMMA WaitTypes == WaitInit /\ [][WaitNext]_waitVars => []WaitTypeOK
BY WaitStart, WaitStep, WaitsTell, PTL

-----------------------------------------------------------------------------
(* Cross-origin frames.  The shape of the state.                             *)
FrameRecords == [id : 1..MaxFrames, src : FrameSrcs \cup {NoSrc}, mark : Nat]
Entries == [key : Keys, src : FrameSrcs]
WorkRecords ==
    [does : {"rest", "scanned", "lists", "reads", "fill", "click"},
     todo : Seq(Entries) \cup Seq(Keys), found : [Keys -> 0..MaxFrames], spot : Nat,
     told : {"none", "listed", "filled", "clicked"}, hit : 0..MaxFrames]
FramesShape ==
    /\ frames \in Seq(FrameRecords) /\ made \in 0..MaxFrames
    /\ srcs \in [Keys -> FrameSrcs \cup {NoSrc}] /\ sids \in [FrameSrcs -> Sessions]
    /\ work \in [FrameUsers -> WorkRecords] /\ listing \in [FrameActors -> SUBSET Keys]
    /\ calm \in [FrameUsers -> BOOLEAN]

(* Frames are numbered as they are made and keep their address; a session is *)
(* of a frame with its address, or of one that is gone.                      *)
FramesApart ==
    /\ \A i \in DOMAIN frames : /\ frames[i].id <= made
                                /\ Near(i) => frames[i].mark = 0
    /\ \A i, j \in DOMAIN frames : frames[i].id = frames[j].id => i = j
    /\ \A s \in FrameSrcs : sids[s] \in {NoSid, Dead} \cup {frames[i].id : i \in Far(s)}

Scanning(w) == w.does \in {"scanned", "lists", "reads"}
FarFrames == {i \in DOMAIN frames : ~Near(i)}
Alone(i) == Cardinality(Far(frames[i].src)) = 1

(* While somebody finds the page as it was, so does whoever is at work on it, *)
(* and the frames bear their numbers.                                         *)
CalmShared ==
    \A c \in FrameUsers : calm[c] =>
      /\ \A i \in FarFrames : frames[i].mark = Number(i)
      /\ \A d \in FrameUsers : Scanning(work[d]) => calm[d]

(* The address of a number is right, or unknown and about to be found again. *)
WillSet(w, k) ==
    \/ w.does = "lists" /\ \E n \in DOMAIN w.todo : w.todo[n].key = k
    \/ w.does = "reads" /\ \E n \in DOMAIN w.todo : n # 1 /\ w.todo[n].key = k
SrcsRight ==
    /\ \A k \in Keys : srcs[k] # NoSrc => \E i \in FarFrames : frames[i].mark = k /\ frames[i].src = srcs[k]
    /\ \A i \in FarFrames : srcs[frames[i].mark] = NoSrc =>
                              \E d \in FrameUsers : WillSet(work[d], frames[i].mark)

(* A frame was found under its number, or there is no session for it.        *)
FrameFound(w, i) ==
    \/ Scanning(w) /\ \E n \in DOMAIN w.todo : w.todo[n].key = frames[i].mark
    \/ w.found[frames[i].mark] = frames[i].id
    \/ sids[frames[i].src] \notin {NoSid} \cup Ids
JobShape(w) ==
    /\ Scanning(w) => w.todo \in Seq(Entries)
    /\ w.does = "reads" => w.todo # <<>>
    /\ w.does \in {"fill", "click"} \/ w.told \in {"filled", "clicked"} =>
         w.todo \in Seq(Keys) /\ w.todo # <<>>
    /\ w.told = "listed" => w.does = "rest"
    /\ w.told \in {"filled", "clicked"} => w.does = "rest"

(* What a caller at work has found, while the page stands.                   *)
WorkCalm(c, w) ==
    /\ Scanning(w) => /\ \A n \in DOMAIN w.todo : \E i \in FarFrames :
                           frames[i].mark = w.todo[n].key /\ frames[i].src = w.todo[n].src
                      /\ \A k \in Keys : w.found[k] # 0 => \E i \in FarFrames : frames[i].mark = k
    /\ w.does = "scanned" => \A i \in FarFrames : \E n \in DOMAIN w.todo : w.todo[n].key = frames[i].mark
    /\ w.does # "scanned" => SrcsRight
    /\ c \in FrameActors /\ ~Scanning(w) =>
         \A k \in listing[c] : \E i \in FarFrames : frames[i].mark = k
    /\ w.does \in {"fill", "click"} =>
         \A n \in DOMAIN w.todo : \E i \in FarFrames : frames[i].mark = w.todo[n]
    /\ c \in FrameActors /\ (w.does \in {"lists", "reads"} \/ w.told = "listed") =>
         \A i \in FarFrames : Alone(i) => FrameFound(w, i)
    /\ w.does = "reads" =>
         \E j \in DOMAIN frames : frames[j].id = w.hit /\ frames[j].src = w.todo[1].src
    /\ w.does = "click" /\ w.spot # 0 => w.spot \in Marked(w.todo[1])
    /\ w.told \in {"filled", "clicked"} =>
         \A i \in Marked(w.todo[1]) : Alone(i) => w.hit = frames[i].id

FrameInv ==
    /\ FramesShape /\ FramesApart /\ CalmShared
    /\ \A c \in FrameUsers : JobShape(work[c]) /\ (calm[c] => WorkCalm(c, work[c]))

-----------------------------------------------------------------------------
(* An address with one frame.                                                *)
LEMMA OnlyOne ==
  ASSUME frames \in Seq(FrameRecords), NEW s, Cardinality(Far(s)) = 1,
         NEW i \in Far(s), NEW j \in Far(s)
  PROVE  i = j
<1>1. IsFiniteSet(DOMAIN frames)
  BY FS_Interval
<1>2. IsFiniteSet(Far(s))
  BY <1>1, FS_Subset DEF Far
<1>3. QED
  BY <1>2, FS_Singleton

(* The numbers an analysis gives run from one, each frame has its own.       *)
LEMMA NumberType ==
  ASSUME NEW i \in Nat
  PROVE  IsFiniteSet({j \in 1..i : ~Near(j)}) /\ Number(i) \in Nat
<1>1. IsFiniteSet(1..i)
  BY FS_Interval
<1>2. IsFiniteSet({j \in 1..i : ~Near(j)})
  BY <1>1, FS_Subset
<1>3. QED
  BY <1>2, FS_CardinalityType DEF Number

LEMMA NumberGrows ==
  ASSUME NEW i \in Nat, NEW j \in Nat, i < j, ~Near(j)
  PROVE  Number(i) < Number(j)
<1> DEFINE S(n) == {m \in 1..n : ~Near(m)}
<1>1. IsFiniteSet(S(j)) /\ Number(i) \in Nat /\ Number(j) \in Nat
  BY NumberType
<1>2. S(i) \in SUBSET S(j) /\ j \in S(j) /\ j \notin S(i)
  OBVIOUS
<1>3. Cardinality(S(i)) <= Cardinality(S(j)) /\ (Cardinality(S(j)) = Cardinality(S(i)) => S(j) = S(i))
  BY ONLY <1>1, <1>2, FS_Subset
<1>4. QED
  BY <1>1, <1>2, <1>3 DEF Number

LEMMA NumberOneOne ==
  ASSUME frames \in Seq(FrameRecords), NEW i \in FarFrames, NEW j \in FarFrames,
         Number(i) = Number(j)
  PROVE  i = j
<1>1. i \in Nat /\ j \in Nat /\ ~Near(i) /\ ~Near(j)
  BY DEF FarFrames
<1>2. Number(i) \in Nat
  BY <1>1, NumberType
<1>3. ASSUME i < j
      PROVE  FALSE
  <2>1. Number(i) < Number(j)
    BY <1>1, <1>3, NumberGrows
  <2>2. QED
    BY <1>2, <2>1
<1>4. ASSUME j < i
      PROVE  FALSE
  <2>1. Number(j) < Number(i)
    BY <1>1, <1>4, NumberGrows
  <2>2. QED
    BY <1>2, <2>1
<1>5. QED
  BY <1>1, <1>3, <1>4

LEMMA FarCounted ==
  ASSUME frames \in Seq(FrameRecords)
  PROVE  /\ IsFiniteSet(FarFrames) /\ Cardinality(FarFrames) \in Nat
         /\ \A i \in FarFrames : Number(i) \in 1..Cardinality(FarFrames)
<1>1. IsFiniteSet(DOMAIN frames)
  BY FS_Interval
<1>2. IsFiniteSet(FarFrames)
  BY <1>1, FS_Subset DEF FarFrames
<1>3. ASSUME NEW i \in FarFrames
      PROVE  Number(i) \in 1..Cardinality(FarFrames)
  <2> DEFINE S == {j \in 1..i : ~Near(j)}
  <2>1. i \in Nat /\ i \in DOMAIN frames /\ i \in S
    BY DEF FarFrames
  <2>2. S \in SUBSET FarFrames /\ IsFiniteSet(S)
    BY <2>1, NumberType DEF FarFrames
  <2>3. Cardinality(S) <= Cardinality(FarFrames) /\ Cardinality(S) # 0 /\ Cardinality(S) \in Nat
    BY ONLY <1>2, <2>1, <2>2, FS_Subset, FS_EmptySet, FS_CardinalityType
  <2>4. QED
    BY <2>3, <1>2, FS_CardinalityType DEF Number
<1>4. QED
  BY <1>2, <1>3, FS_CardinalityType

LEMMA NumberOnto ==
  ASSUME frames \in Seq(FrameRecords), NEW k \in 1..Cardinality(FarFrames)
  PROVE  \E i \in FarFrames : Number(i) = k
<1> DEFINE n == Cardinality(FarFrames)
           f == [i \in FarFrames |-> Number(i)]
<1>1. IsFiniteSet(FarFrames) /\ n \in Nat /\ \A i \in FarFrames : Number(i) \in 1..n
  BY FarCounted
<1>2. f \in Injection(FarFrames, 1..n)
  BY <1>1, NumberOneOne DEF Injection, IsInjective
<1>3. IsFiniteSet(1..n) /\ Cardinality(1..n) = n
  BY <1>1, FS_Interval
<1>4. f \in Surjection(FarFrames, 1..n)
  <2> HIDE DEF f
  <2> QED
    BY <1>2, <1>3, FS_Injection
<1>5. QED
  BY <1>4 DEF Surjection

(* There are no more frames than were made.                                  *)
LEMMA FarFew ==
  ASSUME frames \in Seq(FrameRecords), \A i, j \in DOMAIN frames : frames[i].id = frames[j].id => i = j
  PROVE  Cardinality(FarFrames) <= MaxFrames
<1> DEFINE f == [i \in FarFrames |-> frames[i].id]
<1>1. \A i \in FarFrames : i \in DOMAIN frames /\ frames[i].id \in 1..MaxFrames
  <2>1. ASSUME NEW i \in FarFrames
        PROVE  i \in DOMAIN frames /\ frames[i].id \in 1..MaxFrames
    <3>1. i \in DOMAIN frames
      BY DEF FarFrames
    <3>2. frames[i] \in FrameRecords
      BY <3>1
    <3>3. QED
      BY <3>1, <3>2 DEF FrameRecords
  <2>2. QED
    BY <2>1
<1>2. f \in Injection(FarFrames, 1..MaxFrames)
  BY <1>1 DEF Injection, IsInjective
<1>3. IsFiniteSet(1..MaxFrames) /\ Cardinality(1..MaxFrames) = MaxFrames
  BY FS_Interval, CrossFramesAssumption
<1>4. QED
  <2> HIDE DEF f
  <2> QED
    BY <1>2, <1>3, FS_Injection

-----------------------------------------------------------------------------
(* What the step of one caller on a page that stands has to show.            *)
SidsKept ==
    /\ sids' \in [FrameSrcs -> Sessions]
    /\ \A s \in FrameSrcs : sids'[s] \in {NoSid, Dead} \cup {frames[i].id : i \in Far(s)}
    /\ \A s \in FrameSrcs : sids[s] \notin {NoSid} \cup Ids => sids'[s] = sids[s]
Steady(c) ==
    /\ frames' = frames /\ made' = made /\ calm' = calm
    /\ work' \in [FrameUsers -> WorkRecords] /\ \A d \in FrameUsers \ {c} : work'[d] = work[d]
    /\ srcs' \in [Keys -> FrameSrcs \cup {NoSrc}] /\ listing' \in [FrameActors -> SUBSET Keys]
    /\ \A d \in FrameActors \ {c} : listing'[d] = listing[d]

LEMMA PageStands ==
  ASSUME frames' = frames
  PROVE  /\ FarFrames' = FarFrames /\ Ids' = Ids
         /\ \A i : Near(i)' = Near(i) /\ Number(i)' = Number(i) /\ Alone(i)' = Alone(i)
         /\ \A s : Far(s)' = Far(s) /\ Marked(s)' = Marked(s)
BY DEF FarFrames, Ids, Near, Number, Alone, Far, Marked

LEMMA FoundStays ==
  ASSUME FrameInv, frames' = frames, SidsKept, NEW w, NEW i \in FarFrames, FrameFound(w, i)
  PROVE  FrameFound(w, i)'
<1>1. frames[i].src \in FrameSrcs
  <2>1. i \in DOMAIN frames /\ frames \in Seq(FrameRecords) /\ frames[i].src # NoSrc
    BY DEF FrameInv, FramesShape, FarFrames, Near
  <2>2. frames[i] \in FrameRecords
    BY <2>1
  <2>3. QED
    BY <2>1, <2>2 DEF FrameRecords
<1>2. QED
  BY <1>1, PageStands DEF FrameFound, SidsKept

LEMMA OneCaller ==
  ASSUME FrameInv, NEW c \in FrameUsers, Steady(c), SidsKept, NEW w, w = work'[c], JobShape(w),
         Scanning(w) => Scanning(work[c]),
         \A d \in FrameUsers : calm[d] /\ work'[d].does # "scanned" => SrcsRight',
         calm[c] => WorkCalm(c, w)'
  PROVE  FrameInv'
<1>1. FramesShape'
  BY DEF FrameInv, FramesShape, Steady, SidsKept
<1>2. FramesApart'
  BY PageStands DEF FrameInv, FramesApart, Steady, SidsKept
<1>3. CalmShared'
  <2>1. ASSUME NEW d \in FrameUsers, NEW e \in FrameUsers, calm[d], Scanning(work'[e])
        PROVE  calm[e]
    <3>1. Scanning(work[e])
      BY <2>1 DEF Steady
    <3>2. QED
      BY <2>1, <3>1 DEF FrameInv, CalmShared
  <2>2. ASSUME NEW d \in FrameUsers, calm[d], NEW i \in FarFrames
        PROVE  frames[i].mark = Number(i)
    BY <2>2 DEF FrameInv, CalmShared
  <2>3. QED
    BY <2>1, <2>2, PageStands DEF CalmShared, Steady, Scanning
<1>4. ASSUME NEW d \in FrameUsers
      PROVE  JobShape(work'[d]) /\ (calm[d] => WorkCalm(d, work[d])')
  <2>1. CASE d = c
    BY <2>1
  <2>2. CASE d # c
    <3>1. PICK v : v = work[d]
      OBVIOUS
    <3>2. work'[d] = v /\ JobShape(v)
      BY <2>2, <3>1 DEF Steady, FrameInv
    <3>3. ASSUME calm[d]
          PROVE  WorkCalm(d, v)'
      <4>1. WorkCalm(d, v) /\ (v.does # "scanned" => SrcsRight')
        BY <3>1, <3>2, <3>3 DEF FrameInv
      <4>2. frames' = frames /\ (d \in FrameActors => listing'[d] = listing[d])
        BY <2>2 DEF Steady
      <4>3. \A i \in FarFrames : FrameFound(v, i) => FrameFound(v, i)'
        BY <4>2, FoundStays
      <4>4. QED
        BY <4>1, <4>2, <4>3, PageStands DEF WorkCalm, Scanning
    <3>4. QED
      BY <3>1, <3>2, <3>3
  <2>3. QED
    BY <2>1, <2>2
<1>5. QED
  BY <1>1, <1>2, <1>3, <1>4 DEF FrameInv, Steady, JobShape, Scanning

LEMMA AttachKeeps ==
  ASSUME FrameInv, NEW src \in FrameSrcs, NEW sid \in Sessions, Attaches(src, sid),
         sids' = [sids EXCEPT ![src] = sid]
  PROVE  /\ SidsKept
         /\ Alive(sid) => \E j \in Far(src) : frames[j].id = sid
         /\ ~Alive(sid) /\ Far(src) # {} => sids'[src] \notin {NoSid} \cup Ids
<1>1. sids \in [FrameSrcs -> Sessions] /\ sids'[src] = sid /\ \A s \in FrameSrcs \ {src} : sids'[s] = sids[s]
  BY DEF FrameInv, FramesShape
<1>2. \A s \in FrameSrcs : sids[s] \in {NoSid, Dead} \cup {frames[i].id : i \in Far(s)}
  BY DEF FrameInv, FramesApart
<1>3. sid \in {NoSid, Dead} \cup {frames[i].id : i \in Far(src)}
  BY <1>2 DEF Attaches
<1>4. sid \in Ids => sid \notin {NoSid, Dead}
  <2>1. ASSUME NEW i \in DOMAIN frames
        PROVE  frames[i].id \in 1..MaxFrames
    <3>1. frames[i] \in FrameRecords
      BY DEF FrameInv, FramesShape
    <3>2. QED
      BY <3>1 DEF FrameRecords
  <2>2. QED
    BY <2>1, CrossFramesAssumption DEF Ids, NoSid, Dead
<1>5. SidsKept
  <2>1. sids' \in [FrameSrcs -> Sessions]
    BY <1>1
  <2>2. sids[src] # NoSid => sid = sids[src]
    BY DEF Attaches
  <2>3. QED
    BY <1>1, <1>2, <1>3, <2>1, <2>2 DEF SidsKept
<1>6. ~Alive(sid) /\ Far(src) # {} => sid \notin {NoSid} \cup Ids
  <2>1. Far(src) \subseteq DOMAIN frames
    BY DEF Far
  <2>2. QED
    BY <2>1 DEF Attaches, Alive, Ids
<1>7. QED
  BY <1>1, <1>3, <1>4, <1>5, <1>6 DEF Alive

-----------------------------------------------------------------------------
LEMMA SidsStay == ASSUME FrameInv, sids' = sids PROVE SidsKept
BY DEF FrameInv, FramesShape, FramesApart, SidsKept

LEMMA SrcsStay ==
  ASSUME FrameInv, NEW c \in FrameUsers, Steady(c), srcs' = srcs,
         work'[c].does # "scanned" => work[c].does # "scanned",
         \A k \in Keys : WillSet(work[c], k) => WillSet(work'[c], k)
  PROVE  \A d \in FrameUsers : calm[d] /\ work'[d].does # "scanned" => SrcsRight'
<1>1. SUFFICES ASSUME NEW d \in FrameUsers, calm[d], work'[d].does # "scanned"
               PROVE  SrcsRight'
  OBVIOUS
<1>2. work[d].does # "scanned"
  BY <1>1 DEF Steady
<1>3. SrcsRight
  BY <1>1, <1>2 DEF FrameInv, WorkCalm
<1>4. ASSUME NEW i \in FarFrames, srcs[frames[i].mark] = NoSrc
      PROVE  \E e \in FrameUsers : WillSet(work'[e], frames[i].mark)
  <2>1. PICK e \in FrameUsers : WillSet(work[e], frames[i].mark)
    BY <1>3, <1>4 DEF SrcsRight
  <2>2. frames[i].mark \in Keys
    <3>1. work[e] \in WorkRecords /\ JobShape(work[e])
      BY DEF FrameInv, FramesShape
    <3>2. work[e].todo \in Seq(Entries)
      BY <2>1, <3>1 DEF JobShape, WillSet, Scanning
    <3>3. ASSUME NEW n \in DOMAIN work[e].todo
          PROVE  work[e].todo[n].key \in Keys
      <4>1. work[e].todo[n] \in Entries
        BY <3>2
      <4>2. QED
        BY <4>1 DEF Entries
    <3>4. QED
      BY <2>1, <3>3 DEF WillSet
  <2>3. QED
    BY <2>1, <2>2 DEF Steady
<1>5. frames' = frames
  BY DEF Steady
<1>6. \A i \in FarFrames : srcs[frames[i].mark] = NoSrc => \E e \in FrameUsers : WillSet(work[e], frames[i].mark)'
  BY <1>4, <1>5 DEF WillSet
<1>7. QED
  BY <1>3, <1>6, <1>5, PageStands DEF SrcsRight

LEMMA MarkOne ==
  ASSUME FrameInv, NEW d \in FrameUsers, calm[d], NEW i \in FarFrames, NEW j \in FarFrames,
         frames[i].mark = frames[j].mark
  PROVE  i = j
BY NumberOneOne DEF FrameInv, FramesShape, CalmShared

LEMMA MarkedFar ==
  ASSUME FrameInv, NEW k \in Keys, NEW i \in Marked(k)
  PROVE  i \in FarFrames
BY DEF FrameInv, FramesApart, Marked, FarFrames, Keys

LEMMA FarMarks ==
  ASSUME FrameInv, NEW d \in FrameUsers, calm[d], NEW i \in FarFrames
  PROVE  frames[i].mark \in Keys
<1>1. frames \in Seq(FrameRecords) /\ \A m, n \in DOMAIN frames : frames[m].id = frames[n].id => m = n
  BY DEF FrameInv, FramesShape, FramesApart
<1>2. frames[i].mark = Number(i)
  BY DEF FrameInv, CalmShared
<1>3. QED
  BY <1>1, <1>2, FarCounted, FarFew, CrossFramesAssumption DEF Keys

(* Whoever is at work on the page is calm when anybody is.                   *)
LEMMA CalmAll ==
  ASSUME FrameInv, NEW d \in FrameUsers, calm[d], NEW c \in FrameUsers, Scanning(work[c])
  PROVE  calm[c]
BY DEF FrameInv, CalmShared

LEMMA ForgetsKeeps ==
  ASSUME FrameInv, NEW c \in FrameUsers, Forgets(c)
  PROVE  FrameInv'
<1>1. PICK v \in WorkRecords : v = work[c] /\ JobShape(v) /\ v.does = "scanned" /\ (calm[c] => WorkCalm(c, v))
  BY DEF FrameInv, FramesShape, Forgets
<1>2. PICK w : w = [v EXCEPT !.does = "lists"]
  OBVIOUS
<1>3. /\ w \in WorkRecords /\ w.does = "lists" /\ w.todo = v.todo /\ w.found = v.found
      /\ w.told = v.told
  BY <1>1, <1>2 DEF WorkRecords
<1>4. work' = [work EXCEPT ![c] = w]
  BY <1>1, <1>2 DEF Forgets
<1>5. Steady(c) /\ w = work'[c]
  BY <1>3, <1>4 DEF FrameInv, FramesShape, Forgets, Steady
<1>6. JobShape(w) /\ Scanning(w) /\ Scanning(v)
  BY <1>1, <1>3 DEF JobShape, Scanning
<1>7. calm[c] => \A i \in FarFrames : \E n \in DOMAIN w.todo : w.todo[n].key = frames[i].mark
  BY <1>1, <1>3 DEF WorkCalm
<1>8. ASSUME NEW d \in FrameUsers, calm[d]
      PROVE  SrcsRight'
  <2>1. calm[c]
    BY <1>1, <1>6, <1>8, CalmAll
  <2>2. \A i \in FarFrames : WillSet(work[c], frames[i].mark)'
    BY <1>3, <1>5, <1>7, <2>1 DEF WillSet, Steady
  <2>3. frames' = frames /\ srcs' = [k \in Keys |-> NoSrc]
    BY DEF Forgets
  <2>4. QED
    BY <2>2, <2>3, PageStands DEF SrcsRight
<1>9. ASSUME calm[c]
      PROVE  WorkCalm(c, w)'
  <2>1. \A i \in FarFrames : FrameFound(w, i)'
    BY <1>5, <1>6, <1>7, <1>9 DEF FrameFound, Steady, Scanning
  <2>2. frames' = frames
    BY DEF Forgets
  <2>3. w.told = "none" \/ w.does = "rest"
    BY <1>1, <1>3 DEF JobShape, WorkRecords
  <2>4. Scanning(v) /\ Scanning(w)
    BY <1>1, <1>3 DEF Scanning
  <2>5. (Scanning(w) => /\ \A n \in DOMAIN w.todo : \E i \in FarFrames :
                           frames[i].mark = w.todo[n].key /\ frames[i].src = w.todo[n].src
                      /\ \A k \in Keys : w.found[k] # 0 => \E i \in FarFrames : frames[i].mark = k)'
    BY <1>1, <1>3, <1>9, <2>2, <2>4, PageStands DEF WorkCalm
  <2>6. QED
    BY <1>3, <1>8, <1>9, <2>1, <2>2, <2>3, <2>4, <2>5, PageStands DEF WorkCalm, Scanning
<1>10. SidsKept
  BY SidsStay DEF Forgets
<1>11. QED
  BY <1>1, <1>5, <1>6, <1>8, <1>9, <1>10, OneCaller

LEMMA HeadEntry ==
  ASSUME NEW todo \in Seq(Entries), todo # <<>>
  PROVE  /\ Head(todo) = todo[1] /\ 1 \in DOMAIN todo /\ todo[1] \in Entries
         /\ Tail(todo) \in Seq(Entries)
         /\ \A n \in DOMAIN todo : n # 1 => n - 1 \in DOMAIN Tail(todo) /\ Tail(todo)[n - 1] = todo[n]
         /\ \A n \in DOMAIN Tail(todo) : n + 1 \in DOMAIN todo /\ n + 1 # 1 /\ Tail(todo)[n] = todo[n + 1]
<1>1. /\ Head(todo) = todo[1] /\ 1 \in DOMAIN todo /\ todo[1] \in Entries
      /\ Len(todo) \in Nat \ {0} /\ DOMAIN todo = 1..Len(todo)
  OBVIOUS
<1>2. /\ Tail(todo) \in Seq(Entries) /\ Len(Tail(todo)) = Len(todo) - 1
      /\ DOMAIN Tail(todo) = 1..(Len(todo) - 1)
      /\ \A n \in 1..(Len(todo) - 1) : Tail(todo)[n] = todo[n + 1]
  OBVIOUS
<1>3. ASSUME NEW n \in DOMAIN todo, n # 1
      PROVE  n - 1 \in DOMAIN Tail(todo) /\ Tail(todo)[n - 1] = todo[n]
  BY <1>1, <1>2, <1>3
<1>4. ASSUME NEW n \in DOMAIN Tail(todo)
      PROVE  n + 1 \in DOMAIN todo /\ n + 1 # 1 /\ Tail(todo)[n] = todo[n + 1]
  BY <1>1, <1>2
<1>5. QED
  BY <1>1, <1>2, <1>3, <1>4

LEMMA TakesFrameKeeps ==
  ASSUME FrameInv, NEW c \in FrameUsers, TakesFrame(c)
  PROVE  FrameInv'
<1>1. PICK v \in WorkRecords : v = work[c] /\ JobShape(v) /\ v.does = "lists" /\ v.todo # <<>>
                              /\ (calm[c] => WorkCalm(c, v))
  BY DEF FrameInv, FramesShape, TakesFrame
<1>2. v.todo \in Seq(Entries) /\ v.told = "none"
  BY <1>1 DEF JobShape, Scanning, WorkRecords
<1>3. PICK f \in Entries : f = Head(v.todo) /\ f = v.todo[1] /\ 1 \in DOMAIN v.todo
  BY <1>1, <1>2, HeadEntry
<1>4. f.key \in Keys /\ f.src \in FrameSrcs /\ f.src # NoSrc
  BY <1>3, CrossFramesAssumption DEF Entries
<1>5. PICK sid \in Sessions :
            /\ Attaches(f.src, sid)
            /\ sids' = [sids EXCEPT ![f.src] = sid]
            /\ work' = [work EXCEPT ![c] = IF Alive(sid)
                   THEN [v EXCEPT !.does = "reads", !.hit = sid]
                   ELSE [v EXCEPT !.todo = Tail(v.todo)]]
  BY <1>1, <1>3 DEF TakesFrame
<1>6. /\ SidsKept /\ (Alive(sid) => \E j \in Far(f.src) : frames[j].id = sid)
      /\ (~Alive(sid) /\ Far(f.src) # {} => sids'[f.src] \notin {NoSid} \cup Ids)
  BY <1>4, <1>5, AttachKeeps
<1>7. /\ frames' = frames /\ srcs' = [srcs EXCEPT ![f.key] = f.src] /\ made' = made
      /\ calm' = calm /\ listing' = listing
  BY <1>1, <1>3 DEF TakesFrame
<1>8. PICK w : w = IF Alive(sid) THEN [v EXCEPT !.does = "reads", !.hit = sid]
                   ELSE [v EXCEPT !.todo = Tail(v.todo)]
  OBVIOUS
<1>9. Alive(sid) => sid \in 0..MaxFrames
  <2>1. ASSUME NEW i \in DOMAIN frames
        PROVE  frames[i].id \in 0..MaxFrames
    <3>1. frames[i] \in FrameRecords
      BY DEF FrameInv, FramesShape
    <3>2. QED
      BY <3>1, CrossFramesAssumption DEF FrameRecords
  <2>2. QED
    BY <2>1 DEF Alive, Ids
<1>10. /\ Tail(v.todo) \in Seq(Entries)
       /\ \A n \in DOMAIN v.todo : n # 1 => n - 1 \in DOMAIN Tail(v.todo) /\ Tail(v.todo)[n - 1] = v.todo[n]
       /\ \A n \in DOMAIN Tail(v.todo) : n + 1 \in DOMAIN v.todo /\ n + 1 # 1 /\ Tail(v.todo)[n] = v.todo[n + 1]
  BY <1>1, <1>2, HeadEntry
<1>11. /\ w \in WorkRecords /\ w.found = v.found /\ w.told = "none" /\ w.todo \in Seq(Entries)
       /\ w.does \in {"lists", "reads"} /\ (w.does = "reads" <=> Alive(sid))
       /\ w.todo = IF Alive(sid) THEN v.todo ELSE Tail(v.todo)
       /\ Alive(sid) => w.hit = sid
  <2>1. CASE Alive(sid)
    BY <1>1, <1>2, <1>8, <1>9, <2>1 DEF WorkRecords
  <2>2. CASE ~Alive(sid)
    BY <1>1, <1>2, <1>8, <1>10, <2>2 DEF WorkRecords
  <2>3. QED
    BY <2>1, <2>2
<1>12. /\ \A n \in DOMAIN w.todo : \E m \in DOMAIN v.todo : w.todo[n] = v.todo[m]
       /\ \A n \in DOMAIN v.todo : n # 1 \/ Alive(sid) => \E m \in DOMAIN w.todo : w.todo[m] = v.todo[n]
  <2>1. CASE Alive(sid)
    BY <1>11, <2>1
  <2>2. CASE ~Alive(sid)
    <3>1. w.todo = Tail(v.todo)
      BY <1>11, <2>2
    <3>2. \A n \in DOMAIN v.todo : n # 1 => n - 1 \in DOMAIN w.todo /\ w.todo[n - 1] = v.todo[n]
      BY ONLY <1>10, <3>1
    <3>3. \A n \in DOMAIN w.todo : n + 1 \in DOMAIN v.todo /\ w.todo[n] = v.todo[n + 1]
      BY ONLY <1>10, <3>1
    <3>4. \A n \in DOMAIN w.todo : \E m \in DOMAIN v.todo : w.todo[n] = v.todo[m]
      BY ONLY <3>3
    <3>5. \A n \in DOMAIN v.todo : n # 1 => \E m \in DOMAIN w.todo : w.todo[m] = v.todo[n]
      BY ONLY <3>2
    <3>6. QED
      BY <2>2, <3>4, <3>5
  <2>3. QED
    BY <2>1, <2>2
<1>13. \A k \in Keys : WillSet(v, k) /\ k # f.key => WillSet(w, k)
  <2>1. SUFFICES ASSUME NEW k \in Keys, k # f.key, NEW n \in DOMAIN v.todo, v.todo[n].key = k
                 PROVE  WillSet(w, k)
    BY <1>1 DEF WillSet
  <2>2. n # 1
    BY <1>3, <2>1
  <2>3. CASE Alive(sid)
    BY <1>11, <2>1, <2>2, <2>3 DEF WillSet
  <2>4. CASE ~Alive(sid)
    <3>1. n - 1 \in DOMAIN w.todo /\ w.todo[n - 1].key = k
      BY <1>10, <1>11, <2>1, <2>2, <2>4
    <3>2. w.does = "lists"
      BY <1>11, <2>4
    <3>3. QED
      BY <3>1, <3>2 DEF WillSet
  <2>5. QED
    BY <2>3, <2>4
<1>14. Steady(c) /\ w = work'[c]
  <2>1. srcs' \in [Keys -> FrameSrcs \cup {NoSrc}]
    BY <1>4, <1>7 DEF FrameInv, FramesShape
  <2>2. work' = [work EXCEPT ![c] = w]
    BY <1>5, <1>8
  <2>3. QED
    BY <1>7, <1>11, <2>1, <2>2 DEF FrameInv, FramesShape, Steady
<1>15. JobShape(w) /\ Scanning(w) /\ Scanning(v)
  BY <1>1, <1>11 DEF JobShape, Scanning
<1>16. ASSUME calm[c]
       PROVE  /\ SrcsRight
              /\ \A n \in DOMAIN v.todo : \E i \in FarFrames :
                           frames[i].mark = v.todo[n].key /\ frames[i].src = v.todo[n].src
              /\ \A k \in Keys : v.found[k] # 0 => \E i \in FarFrames : frames[i].mark = k
  BY <1>1, <1>15, <1>16 DEF WorkCalm
<1>17. ASSUME calm[c]
       PROVE  \E i \in FarFrames : frames[i].mark = f.key /\ frames[i].src = f.src
  BY <1>3, <1>16, <1>17
<1>18. ASSUME NEW d \in FrameUsers, calm[d]
       PROVE  SrcsRight'
  <2>1. calm[c]
    BY <1>1, <1>15, <1>18, CalmAll
  <2>2. srcs \in [Keys -> FrameSrcs \cup {NoSrc}]
    BY DEF FrameInv, FramesShape
  <2>3. ASSUME NEW k \in Keys, srcs'[k] # NoSrc
        PROVE  \E i \in FarFrames : frames[i].mark = k /\ frames[i].src = srcs'[k]
    <3>1. CASE k = f.key
      BY <1>4, <1>7, <1>17, <2>1, <2>2, <3>1
    <3>2. CASE k # f.key
      BY <1>7, <1>16, <2>1, <2>2, <2>3, <3>2 DEF SrcsRight
    <3>3. QED
      BY <3>1, <3>2
  <2>4. ASSUME NEW i \in FarFrames, srcs'[frames[i].mark] = NoSrc
        PROVE  \E e \in FrameUsers : WillSet(work'[e], frames[i].mark)
    <3>0. frames[i].mark \in Keys
      BY <2>1, FarMarks
    <3>1. frames[i].mark # f.key /\ srcs[frames[i].mark] = NoSrc
      BY <1>4, <1>7, <2>2, <2>4, <3>0
    <3>2. PICK e \in FrameUsers : WillSet(work[e], frames[i].mark)
      BY <1>16, <2>1, <3>1 DEF SrcsRight
    <3>3. QED
      BY <1>1, <1>13, <1>14, <3>0, <3>1, <3>2 DEF Steady
  <2>5. \A i \in FarFrames : srcs'[frames[i].mark] = NoSrc => \E e \in FrameUsers : WillSet(work[e], frames[i].mark)'
    BY <1>7, <2>4 DEF WillSet
  <2>6. QED
    BY <1>7, <2>3, <2>5, PageStands DEF SrcsRight
<1>19. ASSUME calm[c], NEW i \in FarFrames, FrameFound(v, i)
       PROVE  FrameFound(w, i)'
  <2>1. CASE \E n \in DOMAIN v.todo : v.todo[n].key = frames[i].mark
    <3>1. PICK n \in DOMAIN v.todo : v.todo[n].key = frames[i].mark
      BY <2>1
    <3>2. CASE n # 1 \/ Alive(sid)
      BY <1>7, <1>12, <1>15, <3>1, <3>2 DEF FrameFound, Scanning
    <3>3. CASE n = 1 /\ ~Alive(sid)
      <4>1. PICK j \in FarFrames : frames[j].mark = f.key /\ frames[j].src = f.src
        BY <1>17, <1>19
      <4>2. i = j
        BY <1>3, <1>19, <3>1, <3>3, <4>1, MarkOne
      <4>3. i \in Far(f.src)
        BY <4>1, <4>2 DEF Far, FarFrames
      <4>4. QED
        BY <1>6, <1>7, <3>3, <4>1, <4>2, <4>3, PageStands DEF FrameFound
    <3>4. QED
      BY <3>2, <3>3
  <2>2. CASE v.found[frames[i].mark] = frames[i].id
    BY <1>7, <1>11, <2>2 DEF FrameFound
  <2>3. CASE sids[frames[i].src] \notin {NoSid} \cup Ids
    <3>1. FrameFound(w, i)
      BY <2>3 DEF FrameFound
    <3>2. QED
      BY <1>6, <1>7, <3>1, FoundStays
  <2>4. QED
    BY <1>19, <2>1, <2>2, <2>3 DEF FrameFound
<1>20. ASSUME calm[c]
       PROVE  WorkCalm(c, w)'
  <2>1. (/\ \A n \in DOMAIN w.todo : \E i \in FarFrames :
                frames[i].mark = w.todo[n].key /\ frames[i].src = w.todo[n].src
         /\ \A k \in Keys : w.found[k] # 0 => \E i \in FarFrames : frames[i].mark = k)'
    <3>1. \A n \in DOMAIN w.todo : \E i \in FarFrames :
                frames[i].mark = w.todo[n].key /\ frames[i].src = w.todo[n].src
      BY <1>12, <1>16, <1>20
    <3>2. \A k \in Keys : w.found[k] # 0 => \E i \in FarFrames : frames[i].mark = k
      BY <1>11, <1>16, <1>20
    <3>3. QED
      BY <1>7, <3>1, <3>2, PageStands
  <2>2. (c \in FrameActors => \A i \in FarFrames : Alone(i) => FrameFound(w, i))'
    <3>1. c \in FrameActors => \A i \in FarFrames : Alone(i) => FrameFound(v, i)
      BY <1>1, <1>20 DEF WorkCalm
    <3>2. QED
      BY <1>7, <1>19, <1>20, <3>1, PageStands
  <2>3. (w.does = "reads" => \E j \in DOMAIN frames : frames[j].id = w.hit /\ frames[j].src = w.todo[1].src)'
    BY <1>3, <1>6, <1>7, <1>11 DEF Far
  <2>4. SrcsRight'
    BY <1>18, <1>20
  <2>5. QED
    BY <1>11, <1>15, <2>1, <2>2, <2>3, <2>4 DEF WorkCalm
<1>21. QED
  BY <1>1, <1>6, <1>14, <1>15, <1>18, <1>20, OneCaller

LEMMA ReadsFrameKeeps ==
  ASSUME FrameInv, NEW c \in FrameUsers, ReadsFrame(c)
  PROVE  FrameInv'
<1>1. PICK v \in WorkRecords : v = work[c] /\ JobShape(v) /\ v.does = "reads" /\ v.todo # <<>>
                              /\ (calm[c] => WorkCalm(c, v))
  BY DEF FrameInv, FramesShape, ReadsFrame, JobShape
<1>2. v.todo \in Seq(Entries) /\ v.told = "none" /\ v.found \in [Keys -> 0..MaxFrames] /\ v.hit \in 0..MaxFrames
  BY <1>1 DEF JobShape, Scanning, WorkRecords
<1>3. PICK f \in Entries : f = Head(v.todo) /\ f = v.todo[1] /\ 1 \in DOMAIN v.todo
  BY <1>1, <1>2, HeadEntry
<1>4. f.key \in Keys
  BY <1>3 DEF Entries
<1>5. PICK got : got = IF c \in FrameActors /\ v.hit \in Ids /\ Marked(f.key) # {}
                       THEN [v.found EXCEPT ![f.key] = v.hit] ELSE v.found
  OBVIOUS
<1>6. got \in [Keys -> 0..MaxFrames] /\ \A k \in Keys : k # f.key => got[k] = v.found[k]
  BY <1>2, <1>4, <1>5
<1>7. PICK w : w = [v EXCEPT !.does = "lists", !.todo = Tail(v.todo), !.hit = 0, !.found = got]
  OBVIOUS
<1>8. /\ frames' = frames /\ srcs' = srcs /\ made' = made /\ sids' = sids
      /\ calm' = calm /\ listing' = listing /\ work' = [work EXCEPT ![c] = w]
  BY <1>1, <1>3, <1>5, <1>7 DEF ReadsFrame
<1>9. /\ Tail(v.todo) \in Seq(Entries)
      /\ \A n \in DOMAIN v.todo : n # 1 => n - 1 \in DOMAIN Tail(v.todo) /\ Tail(v.todo)[n - 1] = v.todo[n]
      /\ \A n \in DOMAIN Tail(v.todo) : n + 1 \in DOMAIN v.todo /\ n + 1 # 1 /\ Tail(v.todo)[n] = v.todo[n + 1]
  BY <1>1, <1>2, HeadEntry
<1>10. /\ w \in WorkRecords /\ w.found = got /\ w.told = "none" /\ w.todo = Tail(v.todo) /\ w.does = "lists"
  <2>1. PICK shorter \in Seq(Entries) : shorter = Tail(v.todo)
    BY <1>9
  <2>2. w = [v EXCEPT !.does = "lists", !.todo = shorter, !.hit = 0, !.found = got]
    BY <1>7, <2>1
  <2>3. 0 \in 0..MaxFrames
    BY CrossFramesAssumption
  <2>4. w \in WorkRecords /\ w.found = got /\ w.told = v.told /\ w.todo = shorter /\ w.does = "lists"
    BY ONLY v \in WorkRecords, <1>6, <2>2, <2>3 DEF WorkRecords
  <2>5. QED
    BY <1>2, <2>1, <2>4
<1>11. /\ \A n \in DOMAIN v.todo : n # 1 => n - 1 \in DOMAIN w.todo /\ w.todo[n - 1] = v.todo[n]
       /\ \A n \in DOMAIN w.todo : n + 1 \in DOMAIN v.todo /\ w.todo[n] = v.todo[n + 1]
  BY ONLY <1>9, <1>10
<1>12. Steady(c) /\ w = work'[c]
  BY <1>8, <1>10 DEF FrameInv, FramesShape, Steady
<1>13. JobShape(w) /\ Scanning(w) /\ Scanning(v)
  BY <1>1, <1>9, <1>10 DEF JobShape, Scanning
<1>14. ASSUME NEW d \in FrameUsers
       PROVE  calm[d] /\ work'[d].does # "scanned" => SrcsRight'
  <2>1. \A k \in Keys : WillSet(v, k) => WillSet(w, k)
    BY <1>1, <1>10, <1>11 DEF WillSet
  <2>2. QED
    BY <1>1, <1>8, <1>12, <2>1, SrcsStay
<1>15. ASSUME calm[c]
       PROVE  /\ SrcsRight
              /\ \A n \in DOMAIN v.todo : \E i \in FarFrames :
                           frames[i].mark = v.todo[n].key /\ frames[i].src = v.todo[n].src
              /\ \A k \in Keys : v.found[k] # 0 => \E i \in FarFrames : frames[i].mark = k
              /\ \E j \in DOMAIN frames : frames[j].id = v.hit /\ frames[j].src = f.src
              /\ c \in FrameActors => \A i \in FarFrames : Alone(i) => FrameFound(v, i)
  BY <1>1, <1>3, <1>13, <1>15 DEF WorkCalm
<1>16. ASSUME calm[c]
       PROVE  \E i \in FarFrames : frames[i].mark = f.key /\ frames[i].src = f.src
  BY <1>3, <1>15, <1>16
<1>17. ASSUME calm[c], c \in FrameActors, NEW i \in FarFrames, Alone(i), frames[i].mark = f.key
       PROVE  got[f.key] = frames[i].id
  <2>1. PICK m \in FarFrames : frames[m].mark = f.key /\ frames[m].src = f.src
    BY <1>16, <1>17
  <2>2. i = m
    BY <1>17, <2>1, MarkOne
  <2>3. PICK j \in DOMAIN frames : frames[j].id = v.hit /\ frames[j].src = f.src
    BY <1>15, <1>17
  <2>4. i \in Far(frames[i].src) /\ j \in Far(frames[i].src)
    BY <2>1, <2>2, <2>3 DEF Far, FarFrames
  <2>5. i = j
    BY <1>17, <2>4, OnlyOne DEF Alone, FrameInv, FramesShape
  <2>6. v.hit \in Ids /\ i \in Marked(f.key)
    BY <1>17, <2>3 DEF Ids, Marked, FarFrames
  <2>7. QED
    BY <1>2, <1>4, <1>5, <1>17, <2>3, <2>5, <2>6
<1>18. ASSUME calm[c], c \in FrameActors, NEW i \in FarFrames, Alone(i)
       PROVE  FrameFound(w, i)
  <2>0. frames[i].mark \in Keys
    BY <1>18, FarMarks
  <2>1. CASE frames[i].mark = f.key
    BY <1>10, <1>17, <1>18, <2>1 DEF FrameFound
  <2>2. CASE frames[i].mark # f.key
    <3>1. FrameFound(v, i)
      BY <1>15, <1>18
    <3>2. CASE \E n \in DOMAIN v.todo : v.todo[n].key = frames[i].mark
      <4>1. PICK n \in DOMAIN v.todo : v.todo[n].key = frames[i].mark
        BY <3>2
      <4>2. n - 1 \in DOMAIN w.todo /\ w.todo[n - 1] = v.todo[n]
        BY <1>3, <1>11, <2>2, <4>1
      <4>3. QED
        BY <1>13, <4>1, <4>2 DEF FrameFound
    <3>3. CASE v.found[frames[i].mark] = frames[i].id \/ sids[frames[i].src] \notin {NoSid} \cup Ids
      BY <1>6, <1>10, <2>0, <2>2, <3>3 DEF FrameFound
    <3>4. QED
      BY <3>1, <3>2, <3>3 DEF FrameFound
  <2>3. QED
    BY <2>1, <2>2
<1>19. SidsKept
  BY <1>8, SidsStay
<1>20. ASSUME calm[c]
       PROVE  WorkCalm(c, w)'
  <2>1. (/\ \A n \in DOMAIN w.todo : \E i \in FarFrames :
                frames[i].mark = w.todo[n].key /\ frames[i].src = w.todo[n].src
         /\ \A k \in Keys : w.found[k] # 0 => \E i \in FarFrames : frames[i].mark = k)'
    <3>1. \A n \in DOMAIN w.todo : \E i \in FarFrames :
                frames[i].mark = w.todo[n].key /\ frames[i].src = w.todo[n].src
      BY <1>11, <1>15, <1>20
    <3>2. \A k \in Keys : w.found[k] # 0 => \E i \in FarFrames : frames[i].mark = k
      BY <1>6, <1>10, <1>15, <1>16, <1>20
    <3>3. QED
      BY <1>8, <3>1, <3>2, PageStands
  <2>2. (c \in FrameActors => \A i \in FarFrames : Alone(i) => FrameFound(w, i))'
    <3>1. c \in FrameActors => \A i \in FarFrames : Alone(i) => FrameFound(w, i)'
      BY <1>8, <1>18, <1>19, <1>20, FoundStays
    <3>2. QED
      BY <1>8, <3>1, PageStands
  <2>3. SrcsRight'
    BY <1>10, <1>12, <1>14, <1>20
  <2>4. QED
    BY <1>10, <1>13, <2>1, <2>2, <2>3 DEF WorkCalm
<1>21. QED
  BY <1>1, <1>12, <1>13, <1>14, <1>19, <1>20, OneCaller

LEMMA ListedKeeps ==
  ASSUME FrameInv, NEW c \in FrameUsers, Listed1(c)
  PROVE  FrameInv'
<1>1. PICK v \in WorkRecords : v = work[c] /\ JobShape(v) /\ v.does = "lists" /\ v.todo = <<>>
                              /\ (calm[c] => WorkCalm(c, v))
  BY DEF FrameInv, FramesShape, Listed1
<1>2. v.found \in [Keys -> 0..MaxFrames] /\ v.told = "none"
  BY <1>1 DEF JobShape, Scanning, WorkRecords
<1>3. PICK w : w = IF c \in FrameActors THEN [FrameIdle EXCEPT !.told = "listed", !.found = v.found] ELSE FrameIdle
  OBVIOUS
<1>4. /\ frames' = frames /\ srcs' = srcs /\ made' = made /\ sids' = sids
      /\ calm' = calm /\ work' = [work EXCEPT ![c] = w]
      /\ listing' = [d \in FrameActors |-> IF d = c THEN {k \in Keys : v.found[k] # 0} ELSE listing[d]]
  BY <1>1, <1>3 DEF Listed1
<1>5. /\ w \in WorkRecords /\ w.does = "rest" /\ w.todo = <<>> /\ w.told \in {"none", "listed"}
      /\ (w.told = "listed" => w.found = v.found)
  <2>1. FrameIdle \in WorkRecords
    BY CrossFramesAssumption DEF FrameIdle, WorkRecords
  <2>2. QED
    BY <1>2, <1>3, <2>1 DEF FrameIdle, WorkRecords
<1>6. Steady(c) /\ w = work'[c]
  <2>1. listing' \in [FrameActors -> SUBSET Keys]
    BY <1>4 DEF FrameInv, FramesShape
  <2>2. QED
    BY <1>4, <1>5, <2>1 DEF FrameInv, FramesShape, Steady
<1>7. JobShape(w) /\ ~Scanning(w) /\ Scanning(v)
  BY <1>1, <1>5 DEF JobShape, Scanning
<1>8. ASSUME NEW d \in FrameUsers
      PROVE  calm[d] /\ work'[d].does # "scanned" => SrcsRight'
  <2>1. \A k \in Keys : WillSet(v, k) => WillSet(w, k)
    BY <1>1 DEF WillSet
  <2>2. QED
    BY <1>1, <1>4, <1>6, <2>1, SrcsStay
<1>9. SidsKept
  BY <1>4, SidsStay
<1>10. ASSUME calm[c]
       PROVE  WorkCalm(c, w)'
  <2>1. \A k \in Keys : v.found[k] # 0 => \E i \in FarFrames : frames[i].mark = k
    BY <1>1, <1>7, <1>10 DEF WorkCalm
  <2>2. c \in FrameActors => \A i \in FarFrames : Alone(i) => FrameFound(v, i)
    BY <1>1, <1>10 DEF WorkCalm
  <2>3. (c \in FrameActors => \A k \in listing[c] : \E i \in FarFrames : frames[i].mark = k)'
    BY <1>4, <2>1, PageStands
  <2>4. ASSUME w.told = "listed", NEW i \in FarFrames, FrameFound(v, i)
        PROVE  FrameFound(w, i)
    BY <1>1, <1>5, <2>4 DEF FrameFound
  <2>5. (c \in FrameActors /\ w.told = "listed" => \A i \in FarFrames : Alone(i) => FrameFound(w, i))'
    <3>1. c \in FrameActors /\ w.told = "listed" => \A i \in FarFrames : Alone(i) => FrameFound(w, i)'
      BY <1>4, <1>9, <2>2, <2>4, FoundStays
    <3>2. QED
      BY <1>4, <3>1, PageStands
  <2>6. SrcsRight'
    BY <1>5, <1>6, <1>8, <1>10
  <2>7. QED
    BY <1>5, <1>7, <2>3, <2>5, <2>6 DEF WorkCalm
<1>11. QED
  BY <1>1, <1>6, <1>7, <1>8, <1>9, <1>10, OneCaller

(* A caller that acts on what it was shown.                                  *)
ActsRight(w) ==
    /\ w.does \in {"fill", "click"} =>
         \A n \in DOMAIN w.todo : \E i \in FarFrames : frames[i].mark = w.todo[n]
    /\ w.does = "click" /\ w.spot # 0 => w.spot \in Marked(w.todo[1])
    /\ w.told \in {"filled", "clicked"} =>
         \A i \in Marked(w.todo[1]) : Alone(i) => w.hit = frames[i].id

LEMMA ActorStep ==
  ASSUME FrameInv, NEW c \in FrameActors, ~Scanning(work[c]), NEW w \in WorkRecords,
         w.does \in {"rest", "fill", "click"}, w.told # "listed", JobShape(w),
         work' = [work EXCEPT ![c] = w], SidsKept,
         UNCHANGED <<frames, made, srcs, listing, calm>>,
         calm[c] /\ SrcsRight => ActsRight(w)
  PROVE  FrameInv'
<1>1. c \in FrameUsers /\ ~Scanning(w)
  BY CrossFramesAssumption DEF Scanning
<1>2. Steady(c) /\ w = work'[c]
  BY <1>1 DEF Steady, FrameInv, FramesShape
<1>3. work[c].does \notin {"scanned", "lists", "reads"}
  BY DEF Scanning
<1>4. ASSUME NEW d \in FrameUsers
      PROVE  calm[d] /\ work'[d].does # "scanned" => SrcsRight'
  <2>1. \A k \in Keys : ~WillSet(work[c], k)
    BY <1>3 DEF WillSet
  <2>2. QED
    BY <1>1, <1>2, <1>3, <2>1, SrcsStay
<1>5. ASSUME calm[c]
      PROVE  WorkCalm(c, w)'
  <2>1. WorkCalm(c, work[c])
    BY <1>1, <1>5 DEF FrameInv
  <2>2. SrcsRight /\ \A k \in listing[c] : \E i \in FarFrames : frames[i].mark = k
    BY <1>3, <2>1 DEF WorkCalm, Scanning
  <2>3. ActsRight(w)
    BY <1>5, <2>2
  <2>4. ActsRight(w)' /\ (\A k \in listing[c] : \E i \in FarFrames : frames[i].mark = k)'
    BY <2>2, <2>3, PageStands DEF ActsRight
  <2>5. SrcsRight'
    BY <1>1, <1>2, <1>4, <1>5
  <2>6. QED
    BY <1>1, <2>4, <2>5 DEF WorkCalm, ActsRight
<1>6. QED
  BY <1>1, <1>2, <1>4, <1>5, OneCaller

LEMMA IdleRight == FrameIdle \in WorkRecords /\ JobShape(FrameIdle) /\ ActsRight(FrameIdle)
                   /\ FrameIdle.does = "rest" /\ FrameIdle.told = "none"
BY CrossFramesAssumption DEF FrameIdle, WorkRecords, JobShape, Scanning, ActsRight

LEMMA FailsKeeps ==
  ASSUME FrameInv, NEW c \in FrameActors, ~Scanning(work[c]), WorkFails(c), SidsKept,
         UNCHANGED <<frames, made, srcs, listing, calm>>
  PROVE  FrameInv'
<1>1. PICK w : w = FrameIdle
  OBVIOUS
<1>2. QED
  BY <1>1, IdleRight, ActorStep DEF WorkFails

LEMMA ListingRight ==
  ASSUME FrameInv, NEW c \in FrameActors, ~Scanning(work[c]), calm[c], NEW k \in listing[c]
  PROVE  \E i \in FarFrames : frames[i].mark = k
BY CrossFramesAssumption DEF FrameInv, WorkCalm

LEMMA FillsKeeps ==
  ASSUME FrameInv, NEW c \in FrameActors, NEW k \in Keys, NEW l \in Keys, Fills(c, k, l)
  PROVE  FrameInv'
<1>1. PICK todo : todo = IF k = l THEN <<k>> ELSE <<k, l>>
  OBVIOUS
<1>2. todo \in Seq(Keys) /\ todo # <<>> /\ \A n \in DOMAIN todo : todo[n] \in {k, l}
  BY <1>1
<1>3. PICK w : w = [FrameIdle EXCEPT !.does = "fill", !.todo = todo]
  OBVIOUS
<1>4. w \in WorkRecords /\ w.does = "fill" /\ w.told = "none" /\ w.todo = todo
  BY <1>2, <1>3, IdleRight DEF WorkRecords
<1>5. work' = [work EXCEPT ![c] = w] /\ ~Scanning(work[c]) /\ k \in listing[c] /\ l \in listing[c]
  BY <1>1, <1>3 DEF Fills, Scanning
<1>6. JobShape(w)
  BY <1>2, <1>4 DEF JobShape, Scanning
<1>7. calm[c] => ActsRight(w)
  BY <1>2, <1>4, <1>5, ListingRight DEF ActsRight
<1>8. SidsKept /\ UNCHANGED <<frames, made, srcs, listing, calm>>
  BY SidsStay DEF Fills
<1>9. QED
  BY <1>4, <1>5, <1>6, <1>7, <1>8, ActorStep

LEMMA ClicksKeeps ==
  ASSUME FrameInv, NEW c \in FrameActors, NEW k \in Keys, FrameClicks(c, k)
  PROVE  FrameInv'
<1>2. <<k>> \in Seq(Keys) /\ <<k>> # <<>> /\ \A n \in DOMAIN <<k>> : <<k>>[n] = k
  OBVIOUS
<1>3. PICK w : w = [FrameIdle EXCEPT !.does = "click", !.todo = <<k>>]
  OBVIOUS
<1>4. w \in WorkRecords /\ w.does = "click" /\ w.told = "none" /\ w.todo = <<k>> /\ w.spot = 0
  BY <1>2, <1>3, IdleRight DEF WorkRecords, FrameIdle
<1>5. work' = [work EXCEPT ![c] = w] /\ ~Scanning(work[c]) /\ k \in listing[c]
  BY <1>3 DEF FrameClicks, Scanning
<1>6. JobShape(w)
  BY <1>2, <1>4 DEF JobShape, Scanning
<1>7. calm[c] => ActsRight(w)
  BY <1>2, <1>4, <1>5, ListingRight DEF ActsRight
<1>8. SidsKept /\ UNCHANGED <<frames, made, srcs, listing, calm>>
  BY SidsStay DEF FrameClicks
<1>9. QED
  BY <1>4, <1>5, <1>6, <1>7, <1>8, ActorStep

LEMMA NotKnownKeeps ==
  ASSUME FrameInv, NEW c \in FrameActors, NotKnown(c)
  PROVE  FrameInv'
<1>1. ~Scanning(work[c]) /\ WorkFails(c) /\ sids' = sids /\ UNCHANGED <<frames, made, srcs, listing, calm>>
  BY DEF NotKnown, Scanning
<1>2. QED
  BY <1>1, SidsStay, FailsKeeps

LEMMA HeadKey ==
  ASSUME NEW todo \in Seq(Keys), todo # <<>>
  PROVE  /\ Head(todo) = todo[1] /\ 1 \in DOMAIN todo /\ todo[1] \in Keys
         /\ Tail(todo) \in Seq(Keys) /\ (Len(todo) # 1 => Tail(todo) # <<>>)
         /\ \A n \in DOMAIN Tail(todo) : \E m \in DOMAIN todo : Tail(todo)[n] = todo[m]
<1>1. /\ Head(todo) = todo[1] /\ 1 \in DOMAIN todo /\ todo[1] \in Keys
      /\ Len(todo) \in Nat \ {0} /\ DOMAIN todo = 1..Len(todo)
  OBVIOUS
<1>2. /\ Tail(todo) \in Seq(Keys) /\ Len(Tail(todo)) = Len(todo) - 1
      /\ DOMAIN Tail(todo) = 1..(Len(todo) - 1)
      /\ \A n \in 1..(Len(todo) - 1) : Tail(todo)[n] = todo[n + 1]
  OBVIOUS
<1>3. ASSUME NEW n \in DOMAIN Tail(todo)
      PROVE  \E m \in DOMAIN todo : Tail(todo)[n] = todo[m]
  <2>1. n + 1 \in DOMAIN todo /\ Tail(todo)[n] = todo[n + 1]
    BY <1>1, <1>2
  <2>2. QED
    BY <2>1
<1>4. Len(todo) # 1 => Tail(todo) # <<>>
  BY <1>1, <1>2
<1>5. QED
  BY <1>1, <1>2, <1>3, <1>4

(* A caller at work on what it was shown: its next number, and the frame.    *)
LEMMA ActorAt ==
  ASSUME FrameInv, NEW c \in FrameActors, work[c].does \in {"fill", "click"}
  PROVE  /\ work[c] \in WorkRecords /\ JobShape(work[c]) /\ ~Scanning(work[c])
         /\ work[c].todo \in Seq(Keys) /\ work[c].todo # <<>> /\ work[c].told = "none"
         /\ Head(work[c].todo) = work[c].todo[1] /\ work[c].todo[1] \in Keys
         /\ calm[c] => ActsRight(work[c])
<1>1. work[c] \in WorkRecords /\ JobShape(work[c]) /\ (calm[c] => WorkCalm(c, work[c]))
  BY CrossFramesAssumption DEF FrameInv, FramesShape
<1>2. ~Scanning(work[c])
  BY DEF Scanning
<1>3. work[c].todo \in Seq(Keys) /\ work[c].todo # <<>> /\ work[c].told = "none"
  BY <1>1 DEF JobShape, WorkRecords
<1>4. calm[c] => ActsRight(work[c])
  BY <1>1 DEF WorkCalm, ActsRight
<1>5. QED
  BY <1>1, <1>2, <1>3, <1>4, HeadKey

LEMMA ResolvesRight ==
  ASSUME FrameInv, NEW c \in FrameActors, work[c].does \in {"fill", "click"}, NEW sid \in Sessions,
         FrameResolves(c, sid)
  PROVE  /\ SidsKept
         /\ Alive(sid) => sid \in 0..MaxFrames
         /\ Alive(sid) /\ calm[c] /\ SrcsRight =>
              \A i \in Marked(work[c].todo[1]) : Alone(i) => sid = frames[i].id
<1>1. PICK k \in Keys : k = Head(work[c].todo) /\ k = work[c].todo[1]
  BY ActorAt
<1>2. srcs[k] # NoSrc /\ Attaches(srcs[k], sid) /\ sids' = [sids EXCEPT ![srcs[k]] = sid]
  BY <1>1 DEF FrameResolves
<1>3. srcs[k] \in FrameSrcs
  BY <1>2 DEF FrameInv, FramesShape
<1>4. SidsKept /\ (Alive(sid) => \E j \in Far(srcs[k]) : frames[j].id = sid)
  BY <1>2, <1>3, AttachKeeps
<1>5. Alive(sid) => sid \in 0..MaxFrames
  <2>1. ASSUME NEW i \in DOMAIN frames
        PROVE  frames[i].id \in 0..MaxFrames
    <3>1. frames[i] \in FrameRecords
      BY DEF FrameInv, FramesShape
    <3>2. QED
      BY <3>1, CrossFramesAssumption DEF FrameRecords
  <2>2. QED
    BY <2>1 DEF Alive, Ids
<1>6. ASSUME Alive(sid), calm[c], SrcsRight, NEW i \in Marked(k), Alone(i)
      PROVE  sid = frames[i].id
  <2>1. PICK m \in FarFrames : frames[m].mark = k /\ frames[m].src = srcs[k]
    BY <1>2, <1>6 DEF SrcsRight
  <2>2. i \in FarFrames /\ frames[i].mark = k
    BY <1>6, MarkedFar DEF Marked
  <2>3. i = m
    BY <1>6, <2>1, <2>2, MarkOne, CrossFramesAssumption
  <2>4. PICK j \in Far(srcs[k]) : frames[j].id = sid
    BY <1>4, <1>6
  <2>5. i \in Far(frames[i].src) /\ j \in Far(frames[i].src)
    BY <2>1, <2>3, <2>4 DEF Far, FarFrames
  <2>6. i = j
    BY <1>6, <2>5, OnlyOne DEF Alone, FrameInv, FramesShape
  <2>7. QED
    BY <2>4, <2>6
<1>7. QED
  BY <1>1, <1>4, <1>5, <1>6

LEMMA FillsOneKeeps ==
  ASSUME FrameInv, NEW c \in FrameActors, FillsOne(c)
  PROVE  FrameInv'
<1>1. PICK sid \in Sessions :
         /\ FrameResolves(c, sid)
         /\ IF ~Alive(sid) THEN WorkFails(c)
            ELSE work' = [work EXCEPT ![c] =
                       IF Len(work[c].todo) = 1
                       THEN [FrameIdle EXCEPT !.told = "filled", !.hit = sid, !.todo = work[c].todo]
                       ELSE [work[c] EXCEPT !.todo = Tail(work[c].todo)]]
  BY DEF FillsOne, FrameInv, FramesShape
<1>2. work[c].does = "fill" /\ UNCHANGED <<frames, made, srcs, listing, calm>>
  BY DEF FillsOne
<1>3. /\ SidsKept
      /\ Alive(sid) => sid \in 0..MaxFrames
      /\ Alive(sid) /\ calm[c] /\ SrcsRight =>
              \A i \in Marked(work[c].todo[1]) : Alone(i) => sid = frames[i].id
  BY <1>1, <1>2, ResolvesRight
<1>4. PICK v \in WorkRecords : /\ v = work[c] /\ JobShape(v) /\ ~Scanning(v) /\ v.does = "fill"
                               /\ v.todo \in Seq(Keys) /\ v.todo # <<>> /\ v.told = "none"
                               /\ calm[c] => ActsRight(v)
  BY <1>2, ActorAt
<1>5. CASE ~Alive(sid)
  BY <1>1, <1>2, <1>3, <1>4, <1>5, FailsKeeps
<1>6. CASE Alive(sid) /\ Len(v.todo) = 1
  <2>1. PICK w : w = [FrameIdle EXCEPT !.told = "filled", !.hit = sid, !.todo = v.todo]
    OBVIOUS
  <2>2. w \in WorkRecords /\ w.does = "rest" /\ w.told = "filled" /\ w.hit = sid /\ w.todo = v.todo
    BY <1>3, <1>4, <1>6, <2>1, IdleRight DEF WorkRecords, FrameIdle
  <2>3. JobShape(w)
    BY <1>4, <2>2 DEF JobShape, Scanning
  <2>4. calm[c] /\ SrcsRight => ActsRight(w)
    BY <1>3, <1>4, <1>6, <2>2 DEF ActsRight
  <2>5. work' = [work EXCEPT ![c] = w]
    BY <1>1, <1>4, <1>6, <2>1
  <2>6. QED
    BY <1>2, <1>3, <1>4, <2>2, <2>3, <2>4, <2>5, ActorStep
<1>7. CASE Alive(sid) /\ Len(v.todo) # 1
  <2>1. PICK shorter \in Seq(Keys) : /\ shorter = Tail(v.todo) /\ shorter # <<>>
                                  /\ \A n \in DOMAIN shorter : \E m \in DOMAIN v.todo : shorter[n] = v.todo[m]
    BY <1>4, <1>7, HeadKey
  <2>2. PICK w : w = [v EXCEPT !.todo = shorter]
    OBVIOUS
  <2>3. w \in WorkRecords /\ w.does = "fill" /\ w.told = "none" /\ w.todo = shorter
    BY <1>4, <2>1, <2>2 DEF WorkRecords
  <2>4. JobShape(w)
    BY <2>1, <2>3 DEF JobShape, Scanning
  <2>5. calm[c] => ActsRight(w)
    BY <1>4, <2>1, <2>3 DEF ActsRight
  <2>6. work' = [work EXCEPT ![c] = w]
    BY <1>1, <1>4, <1>7, <2>1, <2>2
  <2>7. QED
    BY <1>2, <1>3, <1>4, <2>3, <2>4, <2>5, <2>6, ActorStep
<1>8. QED
  BY <1>5, <1>6, <1>7

LEMMA ClickFindsKeeps ==
  ASSUME FrameInv, NEW c \in FrameActors, ClickFinds(c)
  PROVE  FrameInv'
<1>1. PICK sid \in Sessions :
         /\ FrameResolves(c, sid)
         /\ IF ~Alive(sid) THEN WorkFails(c) ELSE work' = [work EXCEPT ![c].hit = sid]
  BY DEF ClickFinds
<1>2. work[c].does = "click" /\ work[c].spot = 0 /\ UNCHANGED <<frames, made, srcs, listing, calm>>
  BY DEF ClickFinds
<1>3. SidsKept /\ (Alive(sid) => sid \in 0..MaxFrames)
  BY <1>1, <1>2, ResolvesRight
<1>4. PICK v \in WorkRecords : /\ v = work[c] /\ JobShape(v) /\ ~Scanning(v) /\ v.does = "click" /\ v.spot = 0
                               /\ v.todo \in Seq(Keys) /\ v.todo # <<>> /\ v.told = "none"
                               /\ calm[c] => ActsRight(v)
  BY <1>2, ActorAt
<1>5. CASE ~Alive(sid)
  BY <1>1, <1>2, <1>3, <1>4, <1>5, FailsKeeps
<1>6. CASE Alive(sid)
  <2>1. PICK w : w = [v EXCEPT !.hit = sid]
    OBVIOUS
  <2>2. w \in WorkRecords /\ w.does = "click" /\ w.told = "none" /\ w.spot = 0 /\ w.todo = v.todo
    BY <1>3, <1>4, <1>6, <2>1 DEF WorkRecords
  <2>3. JobShape(w)
    BY <1>4, <2>2 DEF JobShape, Scanning
  <2>4. calm[c] => ActsRight(w)
    BY <1>4, <2>2 DEF ActsRight
  <2>5. work' = [work EXCEPT ![c] = w]
    BY <1>1, <1>4, <1>6, <2>1 DEF FrameInv, FramesShape
  <2>6. QED
    BY <1>2, <1>3, <1>4, <2>2, <2>3, <2>4, <2>5, ActorStep
<1>7. QED
  BY <1>5, <1>6

LEMMA ClickPlacesKeeps ==
  ASSUME FrameInv, NEW c \in FrameActors, ClickPlaces(c)
  PROVE  FrameInv'
<1>1. work[c].does = "click" /\ UNCHANGED <<frames, made, sids, srcs, listing, calm>>
  BY DEF ClickPlaces
<1>2. PICK v \in WorkRecords : /\ v = work[c] /\ JobShape(v) /\ ~Scanning(v) /\ v.does = "click"
                               /\ v.todo \in Seq(Keys) /\ v.todo # <<>> /\ v.told = "none"
                               /\ Head(v.todo) = v.todo[1] /\ v.todo[1] \in Keys
                               /\ calm[c] => ActsRight(v)
  BY <1>1, ActorAt
<1>3. SidsKept
  BY <1>1, SidsStay
<1>4. CASE Marked(v.todo[1]) = {}
  BY <1>1, <1>2, <1>3, <1>4, FailsKeeps DEF ClickPlaces
<1>5. CASE Marked(v.todo[1]) # {}
  <2>1. PICK i : i = CHOOSE k \in Marked(v.todo[1]) : \A j \in Marked(v.todo[1]) : k <= j
    OBVIOUS
  <2>2. i \in Marked(v.todo[1]) /\ i \in Nat
    <3>1. Marked(v.todo[1]) \in SUBSET Nat
      BY DEF Marked, FrameInv, FramesShape
    <3>2. \E m \in Marked(v.todo[1]) : \A j \in Marked(v.todo[1]) : m <= j
      BY <1>5, <3>1, LeastNumber
    <3>3. QED
      BY <2>1, <3>1, <3>2
  <2>3. PICK w : w = [v EXCEPT !.spot = i]
    OBVIOUS
  <2>4. w \in WorkRecords /\ w.does = "click" /\ w.told = "none" /\ w.spot = i /\ w.todo = v.todo
    BY <1>2, <2>2, <2>3 DEF WorkRecords
  <2>5. JobShape(w)
    BY <1>2, <2>4 DEF JobShape, Scanning
  <2>6. calm[c] => ActsRight(w)
    BY <1>2, <2>2, <2>4 DEF ActsRight
  <2>7. work' = [work EXCEPT ![c] = w]
    BY <1>2, <1>5, <2>1, <2>3 DEF FrameInv, FramesShape, ClickPlaces
  <2>8. QED
    BY <1>1, <1>2, <1>3, <2>4, <2>5, <2>6, <2>7, ActorStep
<1>6. QED
  BY <1>4, <1>5

LEMMA ClickLandsKeeps ==
  ASSUME FrameInv, NEW c \in FrameActors, ClickLands(c)
  PROVE  FrameInv'
<1>1. work[c].does = "click" /\ work[c].spot # 0 /\ UNCHANGED <<frames, made, sids, srcs, listing, calm>>
  BY DEF ClickLands
<1>2. PICK v \in WorkRecords : /\ v = work[c] /\ JobShape(v) /\ ~Scanning(v) /\ v.does = "click" /\ v.spot # 0
                               /\ v.todo \in Seq(Keys) /\ v.todo # <<>> /\ v.told = "none"
                               /\ v.todo[1] \in Keys /\ (calm[c] => ActsRight(v))
  BY <1>1, ActorAt
<1>3. SidsKept
  BY <1>1, SidsStay
<1>4. PICK under : under = IF v.spot \in DOMAIN frames THEN frames[v.spot].id ELSE 0
  OBVIOUS
<1>5. under \in 0..MaxFrames
  <2>1. v.spot \in DOMAIN frames => frames[v.spot] \in FrameRecords
    BY DEF FrameInv, FramesShape
  <2>2. QED
    BY <1>4, <2>1, CrossFramesAssumption DEF FrameRecords
<1>6. PICK w : w = [FrameIdle EXCEPT !.told = "clicked", !.hit = under, !.todo = v.todo]
  OBVIOUS
<1>7. w \in WorkRecords /\ w.does = "rest" /\ w.told = "clicked" /\ w.hit = under /\ w.todo = v.todo
  BY <1>2, <1>5, <1>6, IdleRight DEF WorkRecords, FrameIdle
<1>8. JobShape(w)
  BY <1>2, <1>7 DEF JobShape, Scanning
<1>9. ASSUME calm[c], NEW i \in Marked(v.todo[1])
      PROVE  under = frames[i].id
  <2>1. v.spot \in Marked(v.todo[1])
    BY <1>2, <1>9 DEF ActsRight
  <2>2. i \in FarFrames /\ v.spot \in FarFrames /\ frames[i].mark = frames[v.spot].mark
    BY <1>2, <1>9, <2>1, MarkedFar DEF Marked
  <2>3. i = v.spot
    BY <1>9, <2>2, MarkOne, CrossFramesAssumption
  <2>4. QED
    BY <1>4, <2>2, <2>3 DEF FarFrames
<1>10. calm[c] => ActsRight(w)
  BY <1>7, <1>9 DEF ActsRight
<1>11. work' = [work EXCEPT ![c] = w]
  BY <1>2, <1>4, <1>6 DEF ClickLands
<1>12. QED
  BY <1>1, <1>2, <1>3, <1>7, <1>8, <1>10, <1>11, ActorStep

-----------------------------------------------------------------------------
(* An analysis: it finds the frames in the order of the page, and a frame    *)
(* that bears its number keeps it.                                           *)
LEMMA ScanShape ==
  ASSUME FrameInv, NEW c \in FrameUsers, Scan(c)
  PROVE  /\ frames' \in Seq(FrameRecords) /\ DOMAIN frames' = DOMAIN frames
         /\ \A i \in DOMAIN frames : frames'[i].id = frames[i].id /\ frames'[i].src = frames[i].src
         /\ \A i \in DOMAIN frames : frames'[i].mark = IF Near(i) THEN frames[i].mark ELSE Number(i)
<1>1. /\ frames \in Seq(FrameRecords)
      /\ frames' = [i \in DOMAIN frames |->
           IF Near(i) THEN frames[i] ELSE [frames[i] EXCEPT !.mark = Number(i)]]
  BY DEF FrameInv, FramesShape, Scan
<1>2. ASSUME NEW i \in DOMAIN frames
      PROVE  /\ frames'[i] \in FrameRecords /\ frames'[i].id = frames[i].id /\ frames'[i].src = frames[i].src
             /\ frames'[i].mark = IF Near(i) THEN frames[i].mark ELSE Number(i)
  <2>1. frames[i] \in FrameRecords /\ i \in Nat
    BY <1>1
  <2>2. PICK n \in Nat : n = Number(i)
    BY <2>1, NumberType
  <2>3. frames'[i] = IF Near(i) THEN frames[i] ELSE [frames[i] EXCEPT !.mark = n]
    BY <1>1, <2>2
  <2>4. QED
    BY <2>1, <2>2, <2>3 DEF FrameRecords
<1>3. DOMAIN frames' = DOMAIN frames /\ DOMAIN frames = 1..Len(frames) /\ Len(frames) \in Nat
  BY <1>1
<1>4. frames' \in [1..Len(frames) -> FrameRecords]
  BY <1>1, <1>2, <1>3
<1>5. frames' \in Seq(FrameRecords)
  BY <1>3, <1>4
<1>6. QED
  BY <1>2, <1>3, <1>5

LEMMA ScanPlaces ==
  ASSUME FrameInv, NEW c \in FrameUsers, Scan(c)
  PROVE  /\ FarFrames' = FarFrames /\ Ids' = Ids
         /\ \A s \in FrameSrcs : {frames[i].id : i \in Far(s)}' = {frames[i].id : i \in Far(s)}
         /\ \A i \in FarFrames : Near(i)' = Near(i) /\ Number(i)' = Number(i)
<1>1. DOMAIN frames' = DOMAIN frames /\ \A i \in DOMAIN frames : frames'[i].id = frames[i].id /\ frames'[i].src = frames[i].src
  BY ScanShape
<1>2. FarFrames' = FarFrames /\ Ids' = Ids
  BY <1>1 DEF FarFrames, Near, Ids
<1>3. ASSUME NEW s \in FrameSrcs
      PROVE  {frames[i].id : i \in Far(s)}' = {frames[i].id : i \in Far(s)}
  <2>1. Far(s)' = Far(s) /\ Far(s) \subseteq DOMAIN frames
    BY <1>1 DEF Far
  <2>2. QED
    BY <1>1, <2>1
<1>4. ASSUME NEW i \in FarFrames
      PROVE  Near(i)' = Near(i) /\ Number(i)' = Number(i)
  <2>1. i \in DOMAIN frames /\ i \in Nat /\ 1..i \subseteq DOMAIN frames
    BY DEF FarFrames, FrameInv, FramesShape
  <2>2. \A j \in 1..i : Near(j)' = Near(j)
    BY <1>1, <2>1 DEF Near
  <2>3. {j \in 1..i : ~Near(j)}' = {j \in 1..i : ~Near(j)}
    BY <2>2
  <2>4. Number(i)' = Number(i)
    BY <2>3 DEF Number
  <2>5. i \in 1..i
    <3>1. i \in 1..Len(frames)
      BY <2>1 DEF FrameInv, FramesShape
    <3>2. QED
      BY <2>1, <3>1
  <2>6. QED
    BY <2>2, <2>4, <2>5
<1>5. QED
  BY <1>2, <1>3, <1>4

(* A page that stands keeps its numbers.                                     *)
LEMMA ScanSame ==
  ASSUME FrameInv, NEW c \in FrameUsers, Scan(c), NEW d \in FrameUsers, calm[d]
  PROVE  frames' = frames
<1>1. /\ frames' \in Seq(FrameRecords) /\ DOMAIN frames' = DOMAIN frames /\ frames \in Seq(FrameRecords)
      /\ \A i \in DOMAIN frames : frames'[i].id = frames[i].id /\ frames'[i].src = frames[i].src
      /\ \A i \in DOMAIN frames : frames'[i].mark = IF Near(i) THEN frames[i].mark ELSE Number(i)
  BY ScanShape DEF FrameInv, FramesShape
<1>2. \A i \in DOMAIN frames : ~Near(i) => frames[i].mark = Number(i)
  BY DEF FrameInv, CalmShared, FarFrames
<1>3. ASSUME NEW i \in DOMAIN frames
      PROVE  frames'[i] = frames[i]
  <2>1. frames[i] \in FrameRecords /\ frames'[i] \in FrameRecords
    BY <1>1
  <2>2. frames'[i].mark = frames[i].mark /\ frames'[i].id = frames[i].id /\ frames'[i].src = frames[i].src
    BY <1>1, <1>2
  <2>3. QED
    BY <2>1, <2>2 DEF FrameRecords
<1>4. QED
  BY <1>1, <1>3

(* What the analysis is to list.                                             *)
LEMMA ScanLists ==
  ASSUME FrameInv, NEW c \in FrameUsers, Scan(c)
  PROVE  \E todo \in Seq(Entries) :
           /\ work' = [work EXCEPT ![c] = [FrameIdle EXCEPT !.does = "scanned", !.todo = todo]]
           /\ \A n \in DOMAIN todo : \E i \in FarFrames : todo[n] = [key |-> Number(i), src |-> frames[i].src]
           /\ \A i \in FarFrames : \E n \in DOMAIN todo : todo[n].key = Number(i)
<1> DEFINE far == Cardinality(FarFrames)
           at(k) == CHOOSE i \in DOMAIN frames : ~Near(i) /\ Number(i) = k
           todo == [k \in 1..far |-> [key |-> k, src |-> frames[at(k)].src]]
<1>1. frames \in Seq(FrameRecords) /\ \A i, j \in DOMAIN frames : frames[i].id = frames[j].id => i = j
  BY DEF FrameInv, FramesShape, FramesApart
<1>2. /\ far \in Nat /\ far <= MaxFrames /\ MaxFrames \in Nat
      /\ \A i \in FarFrames : Number(i) \in 1..far
  BY <1>1, FarCounted, FarFew, CrossFramesAssumption
<1>3. ASSUME NEW k \in 1..far
      PROVE  at(k) \in FarFrames /\ Number(at(k)) = k
  <2>1. \E i \in FarFrames : Number(i) = k
    BY <1>1, NumberOnto
  <2>2. \E i \in DOMAIN frames : ~Near(i) /\ Number(i) = k
    BY <2>1 DEF FarFrames
  <2>3. at(k) \in DOMAIN frames /\ ~Near(at(k)) /\ Number(at(k)) = k
    BY <2>2
  <2>4. QED
    BY <2>3 DEF FarFrames
<1>4. ASSUME NEW i \in FarFrames
      PROVE  frames[i].src \in FrameSrcs
  <2>1. i \in DOMAIN frames /\ frames[i].src # NoSrc
    BY DEF FarFrames, Near
  <2>2. frames[i] \in FrameRecords
    BY <1>1, <2>1
  <2>3. QED
    BY <2>1, <2>2 DEF FrameRecords
<1>5. ASSUME NEW k \in 1..far
      PROVE  todo[k] \in Entries /\ \E i \in FarFrames : todo[k] = [key |-> Number(i), src |-> frames[i].src]
  <2>1. PICK i \in FarFrames : i = at(k) /\ Number(i) = k
    BY <1>3
  <2>2. todo[k] = [key |-> k, src |-> frames[i].src]
    BY <2>1
  <2>3. k \in Keys
    BY <1>2 DEF Keys
  <2>4. QED
    BY <1>4, <2>1, <2>2, <2>3 DEF Entries
<1>6. todo \in Seq(Entries) /\ DOMAIN todo = 1..far
  <2>1. DOMAIN todo = 1..far
    OBVIOUS
  <2>2. todo \in [1..far -> Entries]
    BY <1>5
  <2> HIDE DEF todo
  <2>3. QED
    BY <1>2, <2>1, <2>2
<1>7. work' = [work EXCEPT ![c] = [FrameIdle EXCEPT !.does = "scanned", !.todo = todo]]
  BY DEF Scan, FarFrames
<1>8. ASSUME NEW i \in FarFrames
      PROVE  Number(i) \in DOMAIN todo /\ todo[Number(i)].key = Number(i)
  <2>1. PICK k \in 1..far : k = Number(i)
    BY <1>2
  <2>2. todo[k].key = k
    OBVIOUS
  <2>3. QED
    BY <1>6, <2>1, <2>2
<1>9. QED
  <2>1. \A n \in DOMAIN todo : \E i \in FarFrames : todo[n] = [key |-> Number(i), src |-> frames[i].src]
    BY <1>5, <1>6
  <2> HIDE DEF todo
  <2>2. QED
    BY <1>6, <1>7, <1>8, <2>1

LEMMA ScanKeeps ==
  ASSUME FrameInv, NEW c \in FrameUsers, Scan(c)
  PROVE  FrameInv'
<1>1. /\ work[c].does = "rest" /\ ~Scanning(work[c])
      /\ made' = made /\ sids' = sids /\ srcs' = srcs /\ listing' = listing
      /\ calm' = [calm EXCEPT ![c] =
           \A d \in FrameUsers \ {c} : work[d].does \in {"scanned", "lists", "reads"} => calm[d]]
  BY DEF Scan, Scanning
<1>2. PICK todo \in Seq(Entries) :
           /\ work' = [work EXCEPT ![c] = [FrameIdle EXCEPT !.does = "scanned", !.todo = todo]]
           /\ \A n \in DOMAIN todo : \E i \in FarFrames : todo[n] = [key |-> Number(i), src |-> frames[i].src]
           /\ \A i \in FarFrames : \E n \in DOMAIN todo : todo[n].key = Number(i)
  BY ScanLists
<1>3. PICK w : w = [FrameIdle EXCEPT !.does = "scanned", !.todo = todo]
  OBVIOUS
<1>4. /\ w \in WorkRecords /\ w.does = "scanned" /\ w.told = "none" /\ w.todo = todo
      /\ w.found = [k \in Keys |-> 0]
  BY <1>3, IdleRight DEF WorkRecords, FrameIdle
<1>5. JobShape(w) /\ Scanning(w)
  BY <1>4 DEF JobShape, Scanning
<1>6. work \in [FrameUsers -> WorkRecords] /\ work' = [work EXCEPT ![c] = w] /\ work'[c] = w
  BY <1>2, <1>3 DEF FrameInv, FramesShape
<1>7. \A d \in FrameUsers \ {c} : work'[d] = work[d] /\ calm'[d] = calm[d]
  BY <1>1, <1>6 DEF FrameInv, FramesShape
<1>8. calm'[c] = \A d \in FrameUsers \ {c} : Scanning(work[d]) => calm[d]
  BY <1>1 DEF FrameInv, FramesShape, Scanning
<1>9. calm' \in [FrameUsers -> BOOLEAN]
  BY <1>1 DEF FrameInv, FramesShape
<1>10. FramesShape'
  BY <1>1, <1>4, <1>6, <1>9, ScanShape DEF FrameInv, FramesShape
<1>11. FramesApart'
  <2>1. /\ DOMAIN frames' = DOMAIN frames
        /\ \A i \in DOMAIN frames : frames'[i].id = frames[i].id /\ frames'[i].src = frames[i].src
        /\ \A i \in DOMAIN frames : frames'[i].mark = IF Near(i) THEN frames[i].mark ELSE Number(i)
    BY ScanShape
  <2>2. (\A i \in DOMAIN frames : frames[i].id <= made /\ (Near(i) => frames[i].mark = 0))'
    BY <1>1, <2>1 DEF FrameInv, FramesApart, Near
  <2>3. (\A i, j \in DOMAIN frames : frames[i].id = frames[j].id => i = j)'
    BY <2>1 DEF FrameInv, FramesApart
  <2>4. (\A s \in FrameSrcs : sids[s] \in {NoSid, Dead} \cup {frames[i].id : i \in Far(s)})'
    <3>1. ASSUME NEW s \in FrameSrcs
          PROVE  sids'[s] \in {NoSid, Dead} \cup {frames[i].id : i \in Far(s)}'
      <4>1. sids[s] \in {NoSid, Dead} \cup {frames[i].id : i \in Far(s)}
        BY DEF FrameInv, FramesApart
      <4>2. {frames[i].id : i \in Far(s)}' = {frames[i].id : i \in Far(s)}
        BY ScanPlaces
      <4>3. QED
        BY <1>1, <4>1, <4>2
    <3>2. NoSid' = NoSid /\ Dead' = Dead
      BY DEF NoSid, Dead
    <3>3. QED
      BY <3>1, <3>2
  <2>5. QED
    BY <2>2, <2>3, <2>4 DEF FramesApart
<1>12. ASSUME NEW d \in FrameUsers, calm'[d], NEW e \in FrameUsers, Scanning(work'[e])
       PROVE  calm'[e]
  <2>1. CASE d = c /\ e = c
    BY <1>12, <2>1
  <2>2. CASE d = c /\ e # c
    BY <1>7, <1>8, <1>12, <2>2
  <2>3. CASE d # c
    <3>1. \A f \in FrameUsers : Scanning(work[f]) => calm[f]
      BY <1>7, <1>12, <2>3 DEF FrameInv, CalmShared
    <3>2. QED
      BY <1>7, <1>8, <1>12, <3>1
  <2>4. QED
    BY <2>1, <2>2, <2>3
<1>13. CalmShared'
  <2>1. ASSUME NEW i \in FarFrames
        PROVE  frames'[i].mark = Number(i)'
    BY ScanShape, ScanPlaces DEF FarFrames
  <2>2. FarFrames' = FarFrames
    BY ScanPlaces
  <2>3. QED
    BY <1>12, <2>1, <2>2 DEF CalmShared, Scanning
<1>14. ASSUME NEW d \in FrameUsers
       PROVE  JobShape(work'[d]) /\ (calm'[d] => WorkCalm(d, work[d])')
  <2>1. CASE d = c
    <3>1. ASSUME calm'[c]
          PROVE  WorkCalm(c, w)'
      <4>1. ASSUME NEW i \in FarFrames
            PROVE  /\ frames'[i].mark = Number(i) /\ frames'[i].src = frames[i].src
        BY ScanShape DEF FarFrames
      <4>2. FarFrames' = FarFrames
        BY ScanPlaces
      <4>3. \A n \in DOMAIN w.todo : \E i \in FarFrames :
                           frames'[i].mark = w.todo[n].key /\ frames'[i].src = w.todo[n].src
        <5>1. ASSUME NEW n \in DOMAIN todo
              PROVE  \E i \in FarFrames : frames'[i].mark = todo[n].key /\ frames'[i].src = todo[n].src
          <6>1. PICK i \in FarFrames : todo[n] = [key |-> Number(i), src |-> frames[i].src]
            BY <1>2
          <6>2. todo[n].key = Number(i) /\ todo[n].src = frames[i].src
            BY <6>1
          <6>3. QED
            BY <4>1, <6>2
        <5>2. QED
          BY <1>4, <5>1
      <4>4. \A i \in FarFrames : \E n \in DOMAIN w.todo : w.todo[n].key = frames'[i].mark
        BY <1>2, <1>4, <4>1
      <4>5. \A k \in Keys : w.found[k] = 0
        BY <1>4
      <4>6. QED
        BY <1>4, <1>5, <4>2, <4>3, <4>4, <4>5 DEF WorkCalm
    <3>2. QED
      BY <1>5, <1>6, <2>1, <3>1
  <2>2. CASE d # c
    <3>1. PICK v : v = work[d] /\ v = work'[d]
      BY <1>7, <2>2
    <3>2. JobShape(v) /\ (calm[d] => WorkCalm(d, v))
      BY <3>1 DEF FrameInv
    <3>3. ASSUME calm'[d]
          PROVE  WorkCalm(d, v)'
      <4>1. calm[d] /\ WorkCalm(d, v) /\ frames' = frames
        BY <1>7, <2>2, <3>2, <3>3, ScanSame
      <4>2. SrcsRight => SrcsRight'
        <5>1. SUFFICES ASSUME SrcsRight
                       PROVE  SrcsRight'
          OBVIOUS
        <5>2. ASSUME NEW k, NEW e \in FrameUsers, WillSet(work[e], k)
              PROVE  WillSet(work'[e], k)
          <6>1. e # c
            BY <1>1, <5>2 DEF WillSet
          <6>2. QED
            BY <1>7, <5>2, <6>1
        <5>3. \A i \in FarFrames : srcs[frames[i].mark] = NoSrc =>
                              \E e \in FrameUsers : WillSet(work'[e], frames[i].mark)
          BY <5>1, <5>2 DEF SrcsRight
        <5>4. (\A i \in FarFrames : srcs[frames[i].mark] = NoSrc =>
                              \E e \in FrameUsers : WillSet(work[e], frames[i].mark))'
          BY <1>1, <4>1, <5>3, PageStands DEF WillSet
        <5>5. QED
          BY <1>1, <4>1, <5>1, <5>4, PageStands DEF SrcsRight
      <4>3. \A i \in FarFrames : FrameFound(v, i) => FrameFound(v, i)'
        BY <1>1, <4>1, FoundStays, SidsStay
      <4>4. QED
        BY <1>1, <4>1, <4>2, <4>3, PageStands DEF WorkCalm, Scanning
    <3>4. QED
      BY <3>1, <3>2, <3>3
  <2>3. QED
    BY <2>1, <2>2
<1>15. QED
  BY <1>10, <1>11, <1>13, <1>14 DEF FrameInv, JobShape, Scanning

-----------------------------------------------------------------------------
(* The page changes: nobody is calm.                                         *)
LEMMA UnrestKeeps ==
  ASSUME FrameInv, FramesShape', FramesApart', Unrest,
         \A d \in FrameUsers : work'[d] = work[d] \/ work'[d] = FrameIdle
  PROVE  FrameInv'
<1>1. \A d \in FrameUsers : ~calm'[d]
  BY DEF Unrest
<1>2. CalmShared'
  BY <1>1 DEF CalmShared
<1>3. ASSUME NEW d \in FrameUsers
      PROVE  JobShape(work'[d])
  BY <1>3, IdleRight DEF FrameInv
<1>4. (\A d \in FrameUsers : JobShape(work[d]) /\ (calm[d] => WorkCalm(d, work[d])))'
  BY <1>1, <1>3 DEF JobShape, Scanning
<1>5. QED
  BY <1>2, <1>4 DEF FrameInv

LEMMA PutFirst ==
  ASSUME NEW S, NEW seq \in Seq(S), NEW e \in S
  PROVE  /\ <<e>> \o seq \in Seq(S) /\ DOMAIN (<<e>> \o seq) = 1..(Len(seq) + 1)
         /\ (<<e>> \o seq)[1] = e /\ \A i \in 2..(Len(seq) + 1) : (<<e>> \o seq)[i] = seq[i - 1]
OBVIOUS

LEMMA PutLast ==
  ASSUME NEW S, NEW seq \in Seq(S), NEW e \in S
  PROVE  /\ Append(seq, e) \in Seq(S) /\ DOMAIN Append(seq, e) = 1..(Len(seq) + 1)
         /\ Append(seq, e)[Len(seq) + 1] = e /\ \A i \in 1..Len(seq) : Append(seq, e)[i] = seq[i]
OBVIOUS

LEMMA TakenOut ==
  ASSUME NEW S, NEW seq \in Seq(S), NEW i \in DOMAIN seq
  PROVE  LET shorter == SubSeq(seq, 1, i - 1) \o SubSeq(seq, i + 1, Len(seq)) IN
         /\ shorter \in Seq(S) /\ DOMAIN shorter = 1..(Len(seq) - 1)
         /\ \A j \in 1..(Len(seq) - 1) : shorter[j] = IF j < i THEN seq[j] ELSE seq[j + 1]
<1>1. i \in 1..Len(seq) /\ Len(seq) \in Nat
  OBVIOUS
<1>2. PICK a : a = SubSeq(seq, 1, i - 1)
  OBVIOUS
<1>3. PICK b : b = SubSeq(seq, i + 1, Len(seq))
  OBVIOUS
<1>4. a \in Seq(S) /\ Len(a) = i - 1 /\ \A j \in 1..(i - 1) : a[j] = seq[j]
  BY <1>1, <1>2
<1>5. b \in Seq(S) /\ Len(b) = Len(seq) - i /\ \A j \in 1..(Len(seq) - i) : b[j] = seq[i + j]
  BY <1>1, <1>3
<1>6. /\ a \o b \in Seq(S) /\ Len(a \o b) = Len(seq) - 1
      /\ \A j \in 1..(Len(seq) - 1) : (a \o b)[j] = IF j <= i - 1 THEN a[j] ELSE b[j - (i - 1)]
  <2>1. /\ a \o b \in Seq(S) /\ Len(a \o b) = Len(a) + Len(b)
        /\ \A j \in 1..(Len(a) + Len(b)) : (a \o b)[j] = IF j <= Len(a) THEN a[j] ELSE b[j - Len(a)]
    <3>1. a \in Seq(S) /\ b \in Seq(S)
      BY <1>4, <1>5
    <3>2. QED
      BY ONLY <3>1, ConcatProperties
  <2>2. Len(a) + Len(b) = Len(seq) - 1 /\ Len(a) = i - 1
    BY <1>1, <1>4, <1>5
  <2>3. QED
    BY ONLY <2>1, <2>2
<1>7. ASSUME NEW j \in 1..(Len(seq) - 1)
      PROVE  (a \o b)[j] = IF j < i THEN seq[j] ELSE seq[j + 1]
  <2>1. CASE j < i
    BY <1>1, <1>4, <1>6, <2>1
  <2>2. CASE ~(j < i)
    <3>1. j - (i - 1) \in 1..(Len(seq) - i) /\ i + (j - (i - 1)) = j + 1
      BY <1>1, <2>2
    <3>2. (a \o b)[j] = b[j - (i - 1)]
      <4>1. ~(j <= i - 1)
        BY <1>1, <2>2
      <4>2. QED
        BY ONLY <1>6, <1>7, <4>1
    <3>3. QED
      BY <1>5, <2>2, <3>1, <3>2
  <2>3. QED
    BY <2>1, <2>2
<1>8. DOMAIN (a \o b) = 1..(Len(seq) - 1)
  BY <1>6
<1>9. QED
  BY <1>2, <1>3, <1>6, <1>7, <1>8

LEMMA AddedKeeps ==
  ASSUME FrameInv, NEW s \in FrameSrcs \cup {NoSrc}, NEW first \in BOOLEAN, FrameAdded(s, first)
  PROVE  FrameInv'
<1>1. /\ frames \in Seq(FrameRecords) /\ Len(frames) \in Nat /\ DOMAIN frames = 1..Len(frames)
      /\ made \in 0..MaxFrames /\ made < MaxFrames /\ made' = made + 1 /\ MaxFrames \in Nat
      /\ UNCHANGED <<sids, srcs, work, listing>>
  BY CrossFramesAssumption DEF FrameInv, FramesShape, FrameAdded
<1>2. PICK f \in FrameRecords : /\ f = [id |-> made + 1, src |-> s, mark |-> 0]
                                /\ frames' = IF first THEN <<f>> \o frames ELSE Append(frames, f)
                                /\ f.id = made + 1 /\ f.mark = 0
  <2>1. PICK f : f = [id |-> made + 1, src |-> s, mark |-> 0]
    OBVIOUS
  <2>2. f \in FrameRecords /\ f.id = made + 1 /\ f.mark = 0
    BY <1>1, <2>1 DEF FrameRecords
  <2>3. frames' = IF first THEN <<f>> \o frames ELSE Append(frames, f)
    BY <2>1 DEF FrameAdded
  <2>4. QED
    BY <2>1, <2>2, <2>3
<1> DEFINE old(i) == IF first THEN i - 1 ELSE i
           new == IF first THEN 1 ELSE Len(frames) + 1
<1>3. /\ frames' \in Seq(FrameRecords) /\ DOMAIN frames' = 1..(Len(frames) + 1) /\ frames'[new] = f
      /\ \A i \in 1..(Len(frames) + 1) : i # new => frames'[i] = frames[old(i)]
  <2>1. CASE first
    BY <1>1, <1>2, <2>1, PutFirst
  <2>2. CASE ~first
    BY <1>1, <1>2, <2>2, PutLast
  <2>3. QED
    BY <2>1, <2>2
<1>4. \A i \in DOMAIN frames' : i # new => old(i) \in DOMAIN frames /\ frames'[i] = frames[old(i)]
  BY <1>1, <1>3
<1>5. \A j \in DOMAIN frames : \E i \in DOMAIN frames' : i # new /\ frames'[i] = frames[j]
  <2>1. ASSUME NEW j \in DOMAIN frames
        PROVE  \E i \in DOMAIN frames' : i # new /\ frames'[i] = frames[j]
    <3>1. PICK i : i = IF first THEN j + 1 ELSE j
      OBVIOUS
    <3>2. i \in DOMAIN frames' /\ i # new /\ old(i) = j
      BY <1>1, <1>3, <3>1
    <3>3. QED
      BY <1>4, <3>2
  <2>2. QED
    BY <2>1
<1>6. \A i, j \in DOMAIN frames' : old(i) = old(j) => i = j
  BY <1>1, <1>3
<1>7. \A i \in DOMAIN frames : frames[i].id <= made /\ frames[i].id \in Nat
  <2>1. ASSUME NEW i \in DOMAIN frames
        PROVE  frames[i].id <= made /\ frames[i].id \in Nat
    <3>1. frames[i] \in FrameRecords
      BY <1>1
    <3>2. QED
      BY <3>1 DEF FrameRecords, FrameInv, FramesApart
  <2>2. QED
    BY <2>1
<1>8. FramesShape'
  BY <1>1, <1>3 DEF FrameInv, FramesShape, FrameAdded, Unrest
<1>9. FramesApart'
  <2> HIDE DEF old, new
  <2>1. ASSUME NEW i \in DOMAIN frames'
        PROVE  frames'[i].id <= made' /\ (frames'[i].src = NoSrc => frames'[i].mark = 0)
    <3>1. CASE i = new
      BY <1>1, <1>2, <1>3, <3>1
    <3>2. CASE i # new
      BY <1>1, <1>4, <1>7, <3>2 DEF FrameInv, FramesApart, Near
    <3>3. QED
      BY <3>1, <3>2
  <2>2. ASSUME NEW i \in DOMAIN frames', NEW j \in DOMAIN frames', frames'[i].id = frames'[j].id
        PROVE  i = j
    <3>1. CASE i # new /\ j # new
      <4>1. old(i) \in DOMAIN frames /\ old(j) \in DOMAIN frames /\ frames[old(i)].id = frames[old(j)].id
        BY <1>4, <2>2, <3>1
      <4>2. old(i) = old(j)
        BY <4>1 DEF FrameInv, FramesApart
      <4>3. QED
        BY <1>6, <4>2
    <3>0. ASSUME NEW m \in DOMAIN frames', m # new
          PROVE  frames'[m].id # frames'[new].id
      <4>1. frames'[m].id <= made /\ frames'[m].id \in Nat
        BY <1>4, <1>7, <3>0
      <4>2. frames'[new].id = made + 1
        BY <1>2, <1>3
      <4>3. made \in Nat
        BY <1>1
      <4>4. QED
        BY <4>1, <4>2, <4>3
    <3>2. CASE i = new /\ j # new
      BY <2>2, <3>0, <3>2
    <3>3. CASE i # new /\ j = new
      BY <2>2, <3>0, <3>3
    <3>4. QED
      BY <3>1, <3>2, <3>3
  <2>3. ASSUME NEW t \in FrameSrcs
        PROVE  sids'[t] \in {NoSid, Dead} \cup {frames'[i].id : i \in {i \in DOMAIN frames' : frames'[i].src = t}}
    <3>1. sids[t] \in {NoSid, Dead} \cup {frames[i].id : i \in {i \in DOMAIN frames : frames[i].src = t}}
      BY DEF FrameInv, FramesApart, Far
    <3>2. QED
      BY <1>1, <1>5, <3>1
  <2>4. QED
    BY <2>1, <2>2, <2>3 DEF FramesApart, Near, Far, NoSid, Dead
<1>10. QED
  BY <1>1, <1>8, <1>9, UnrestKeeps DEF FrameAdded

LEMMA RemovedKeeps ==
  ASSUME FrameInv, NEW i \in DOMAIN frames, FrameRemoved(i)
  PROVE  FrameInv'
<1>1. /\ frames \in Seq(FrameRecords) /\ Len(frames) \in Nat /\ DOMAIN frames = 1..Len(frames)
      /\ UNCHANGED <<made, srcs, work, listing>>
  BY DEF FrameInv, FramesShape, FrameRemoved
<1> DEFINE old(j) == IF j < i THEN j ELSE j + 1
<1>2. /\ frames' \in Seq(FrameRecords) /\ DOMAIN frames' = 1..(Len(frames) - 1)
      /\ \A j \in 1..(Len(frames) - 1) : frames'[j] = frames[old(j)]
  <2>1. frames' = SubSeq(frames, 1, i - 1) \o SubSeq(frames, i + 1, Len(frames))
    BY DEF FrameRemoved
  <2>2. frames' \in Seq(FrameRecords) /\ DOMAIN frames' = 1..(Len(frames) - 1)
    BY <1>1, <2>1, TakenOut
  <2>3. \A j \in 1..(Len(frames) - 1) : frames'[j] = IF j < i THEN frames[j] ELSE frames[j + 1]
    BY <1>1, <2>1, TakenOut
  <2>4. QED
    BY <2>2, <2>3
<1>3. \A j \in DOMAIN frames' : old(j) \in DOMAIN frames /\ old(j) # i /\ frames'[j] = frames[old(j)]
  BY <1>1, <1>2
<1>4. \A m \in DOMAIN frames : m # i => \E j \in DOMAIN frames' : frames'[j] = frames[m]
  <2>1. ASSUME NEW m \in DOMAIN frames, m # i
        PROVE  \E j \in DOMAIN frames' : frames'[j] = frames[m]
    <3>1. PICK j : j = IF m < i THEN m ELSE m - 1
      OBVIOUS
    <3>2. j \in DOMAIN frames' /\ old(j) = m
      BY <1>1, <1>2, <2>1, <3>1
    <3>3. QED
      BY <1>3, <3>2
  <2>2. QED
    BY <2>1
<1>5. \A j, m \in DOMAIN frames' : old(j) = old(m) => j = m
  BY <1>1, <1>2
<1>6. sids' = [s \in FrameSrcs |-> IF sids[s] = frames[i].id THEN Dead ELSE sids[s]]
  BY DEF FrameRemoved
<1>7. FramesShape'
  <2>1. sids' \in [FrameSrcs -> Sessions]
    BY <1>6, CrossFramesAssumption DEF FrameInv, FramesShape, Sessions, Dead
  <2>2. QED
    BY <1>1, <1>2, <2>1 DEF FrameInv, FramesShape, FrameRemoved, Unrest
<1>8. FramesApart'
  <2> HIDE DEF old
  <2>1. \A j \in DOMAIN frames' : frames'[j].id <= made' /\ (frames'[j].src = NoSrc => frames'[j].mark = 0)
    BY <1>1, <1>3 DEF FrameInv, FramesApart, Near
  <2>2. ASSUME NEW j \in DOMAIN frames', NEW m \in DOMAIN frames', frames'[j].id = frames'[m].id
        PROVE  j = m
    <3>1. old(j) = old(m)
      BY <1>3, <2>2 DEF FrameInv, FramesApart
    <3>2. QED
      BY <1>5, <3>1
  <2>3. ASSUME NEW t \in FrameSrcs
        PROVE  sids'[t] \in {NoSid, Dead} \cup {frames'[j].id : j \in {j \in DOMAIN frames' : frames'[j].src = t}}
    <3>1. sids[t] \in {NoSid, Dead} \cup {frames[j].id : j \in {j \in DOMAIN frames : frames[j].src = t}}
      BY DEF FrameInv, FramesApart, Far
    <3>2. QED
      BY <1>4, <1>6, <3>1
  <2>4. QED
    BY <2>1, <2>2, <2>3 DEF FramesApart, Near, Far, NoSid, Dead
<1>9. QED
  BY <1>1, <1>7, <1>8, UnrestKeeps DEF FrameRemoved

LEMMA ReconnectedKeeps ==
  ASSUME FrameInv, Reconnected
  PROVE  FrameInv'
<1>1. sids' \in [FrameSrcs -> Sessions] /\ \A s \in FrameSrcs : sids'[s] \in {NoSid, Dead}
  BY CrossFramesAssumption DEF Reconnected, Sessions, NoSid, Dead
<1>2. work' \in [FrameUsers -> WorkRecords] /\ \A d \in FrameUsers : work'[d] = work[d] \/ work'[d] = FrameIdle
  BY IdleRight DEF Reconnected, FrameInv, FramesShape
<1>3. FramesShape'
  BY <1>1, <1>2 DEF Reconnected, FrameInv, FramesShape, Unrest
<1>4. FramesApart'
  BY <1>1, PageStands DEF Reconnected, FrameInv, FramesApart
<1>5. QED
  BY <1>2, <1>3, <1>4, UnrestKeeps DEF Reconnected

LEMMA FramesStep == FrameInv /\ [FramesNext]_frameVars => FrameInv'
<1> SUFFICES ASSUME FrameInv, [FramesNext]_frameVars
             PROVE  FrameInv'
  OBVIOUS
<1>1. CASE UNCHANGED frameVars
  <2>1. /\ frames' = frames /\ made' = made /\ sids' = sids /\ srcs' = srcs /\ work' = work
        /\ listing' = listing /\ calm' = calm
    BY <1>1 DEF frameVars
  <2>2. FramesShape' /\ FramesApart' /\ CalmShared'
    BY <2>1, PageStands DEF FrameInv, FramesShape, FramesApart, CalmShared, Scanning
  <2>3. SrcsRight => SrcsRight'
    BY <2>1, PageStands DEF SrcsRight, WillSet
  <2>4. ASSUME NEW d \in FrameUsers
        PROVE  JobShape(work[d]) /\ (calm[d] => WorkCalm(d, work[d])')
    <3>1. \A i \in FarFrames : FrameFound(work[d], i) => FrameFound(work[d], i)'
      BY <2>1, PageStands DEF FrameFound, Scanning
    <3>2. QED
      BY <2>1, <2>3, <3>1, PageStands DEF FrameInv, WorkCalm, Scanning
  <2>5. QED
    BY <2>1, <2>2, <2>4 DEF FrameInv, JobShape, Scanning
<1>2. CASE FramesNext
  <2>1. ASSUME NEW c \in FrameUsers, Scan(c) \/ Forgets(c) \/ TakesFrame(c) \/ ReadsFrame(c) \/ Listed1(c)
        PROVE  FrameInv'
    BY <2>1, ScanKeeps, ForgetsKeeps, TakesFrameKeeps, ReadsFrameKeeps, ListedKeeps
  <2>2. ASSUME NEW c \in FrameActors,
               NotKnown(c) \/ FillsOne(c) \/ ClickFinds(c) \/ ClickPlaces(c) \/ ClickLands(c)
        PROVE  FrameInv'
    BY <2>2, NotKnownKeeps, FillsOneKeeps, ClickFindsKeeps, ClickPlacesKeeps, ClickLandsKeeps
  <2>3. ASSUME NEW c \in FrameActors, NEW k \in Keys, FrameClicks(c, k) \/ \E l \in Keys : Fills(c, k, l)
        PROVE  FrameInv'
    BY <2>3, ClicksKeeps, FillsKeeps
  <2>4. QED
    BY <1>2, <2>1, <2>2, <2>3, AddedKeeps, RemovedKeeps, ReconnectedKeeps DEF FramesNext
<1>3. QED
  BY <1>1, <1>2

LEMMA FramesStart == FramesInit => FrameInv
<1> SUFFICES ASSUME FramesInit
             PROVE  FrameInv
  OBVIOUS
<1>1. FramesShape
  BY IdleRight, CrossFramesAssumption DEF FramesInit, FramesShape, Sessions, Dead, NoSid
<1>2. FramesApart
  BY DEF FramesInit, FramesApart
<1>3. \A c \in FrameUsers : ~calm[c] /\ work[c] = FrameIdle
  BY DEF FramesInit
<1>4. QED
  BY <1>1, <1>2, <1>3, IdleRight DEF FrameInv, CalmShared

LEMMA FrameTold ==
  ASSUME FrameInv
  PROVE  FramesHold
<1> SUFFICES ASSUME NEW c \in FrameActors, calm[c], NEW w, w = work[c]
             PROVE  /\ w.told \in {"filled", "clicked"} =>
                          LET k == Head(w.todo) IN
                          \A i \in Marked(k) : Cardinality(Far(frames[i].src)) = 1 => w.hit = frames[i].id
                    /\ w.told = "listed" => \A i \in DOMAIN frames :
                          ~Near(i) /\ Cardinality(Far(frames[i].src)) = 1 =>
                             w.found[frames[i].mark] = frames[i].id \/ ~Alive(sids[frames[i].src])
                    /\ w.does \in {"fill", "click"} /\ w.hit = 0 /\ srcs[Head(w.todo)] = NoSrc =>
                          \E d \in FrameUsers \ {c} : work[d].does \in {"lists", "reads"}
  BY DEF FramesHold
<1>1. c \in FrameUsers /\ JobShape(w) /\ WorkCalm(c, w)
  BY CrossFramesAssumption DEF FrameInv
<1>2. ASSUME w.told \in {"filled", "clicked"}, NEW i \in Marked(Head(w.todo)), Cardinality(Far(frames[i].src)) = 1
      PROVE  w.hit = frames[i].id
  <2>1. Head(w.todo) = w.todo[1]
    BY <1>1, <1>2, HeadKey DEF JobShape
  <2>2. QED
    BY <1>1, <1>2, <2>1 DEF WorkCalm, Alone
<1>3. ASSUME w.told = "listed", NEW i \in DOMAIN frames, ~Near(i), Cardinality(Far(frames[i].src)) = 1
      PROVE  w.found[frames[i].mark] = frames[i].id \/ ~Alive(sids[frames[i].src])
  <2>1. i \in FarFrames /\ Alone(i) /\ ~Scanning(w)
    BY <1>1, <1>3 DEF FarFrames, Alone, JobShape, Scanning
  <2>2. FrameFound(w, i)
    BY <1>1, <1>3, <2>1 DEF WorkCalm
  <2>3. QED
    BY <2>1, <2>2 DEF FrameFound, Alive
<1>4. ASSUME w.does \in {"fill", "click"}, srcs[Head(w.todo)] = NoSrc
      PROVE  \E d \in FrameUsers \ {c} : work[d].does \in {"lists", "reads"}
  <2>1. Head(w.todo) = w.todo[1] /\ 1 \in DOMAIN w.todo
    BY <1>1, <1>4, HeadKey DEF JobShape
  <2>2. PICK i \in FarFrames : frames[i].mark = w.todo[1]
    BY <1>1, <1>4, <2>1 DEF WorkCalm
  <2>3. SrcsRight
    BY <1>1, <1>4 DEF WorkCalm
  <2>4. PICK d \in FrameUsers : WillSet(work[d], frames[i].mark)
    BY <1>4, <2>1, <2>2, <2>3 DEF SrcsRight
  <2>5. QED
    BY <1>4, <2>4 DEF WillSet
<1>5. QED
  BY <1>2, <1>3, <1>4

(* Whatever callers, frames and connections do, what a caller is told of a   *)
(* frame on a page that stands is so.                                        *)
THEOREM FramesAreTold == FramesInit /\ [][FramesNext]_frameVars => []FramesHold
<1>1. FrameInv /\ [FramesNext]_frameVars => FrameInv'
  BY FramesStep
<1>2. QED
  BY <1>1, FramesStart, FrameTold, PTL

LEMMA FramesTypes == FramesInit /\ [][FramesNext]_frameVars => []FramesTypeOK
<1>1. ASSUME FrameInv
      PROVE  FramesTypeOK
  <2>1. FramesShape
    BY <1>1 DEF FrameInv
  <2>2. \A c \in FrameUsers : work[c].hit \in 0..MaxFrames
    BY <2>1 DEF FramesShape, WorkRecords
  <2>3. QED
    BY <2>1, <2>2 DEF FramesShape, FramesTypeOK
<1>2. QED
  BY FramesStart, FramesStep, <1>1, PTL

-----------------------------------------------------------------------------
(* Reading tabs.  The shape of the state.                                    *)
ReadStages == {"no", "opens", "wakes", "reads", "done"}
AtWork == {"opens", "wakes", "reads"}
ReaderRecords ==
    [does : {"rest", "scan", "scanned", "moves", "clicks", "deep"},
     tab : ReadTabs \cup {NoTab}, from : ReadTabs \cup {NoTab}, left : SUBSET ReadTabs,
     stage : [ReadTabs -> ReadStages],
     got : [ReadTabs -> [status : {"none", "ok", "error"}, text : Nat]],
     seen : [ReadTabs -> SUBSET Nat], labels : {<<>>} \cup [1..SubTabs -> Nat], moved : BOOLEAN]
ReadsShape ==
    /\ present \subseteq ReadTabs /\ {owned, fore} \subseteq present
    /\ text \in [ReadTabs -> 1..MaxText] /\ panel \in [ReadTabs -> 1..SubTabs]
    /\ reader \in [Readers -> ReaderRecords]

Engaged(stage) == {t \in ReadTabs : stage[t] \in AtWork}

(* Where a reader has got to says what it has read.                          *)
ReaderSound(w) ==
    /\ w.does # "scan" => \A t \in ReadTabs : w.stage[t] \notin AtWork
    /\ w.does \in {"scan", "scanned"} => \A t \in present : t \in w.left \/ w.stage[t] # "no"
    /\ w.does = "scanned" => w.left = {}
    /\ w.does = "scan" => \A t \in ReadTabs : text[t] \in w.seen[t]
    /\ \A t \in ReadTabs : /\ w.got[t].text \in w.seen[t] \cup {0}
                           /\ w.stage[t] = "done" => w.got[t].status # "none"
    /\ Cardinality(Engaged(w.stage)) <= MaxConcurrent
    /\ w.does \in {"moves", "clicks", "deep"} => w.tab \in ReadTabs
    /\ w.does = "clicks" => w.moved \/ owned = w.tab
    /\ w.does = "deep" => /\ w.moved \/ w.from = w.tab
                          /\ \A l \in 1..SubTabs : w.labels[l] = l \/ l \in LateSubTabs
ReadInv == ReadsShape /\ \A r \in Readers : ReaderSound(reader[r])

(* What the script finds for one sub-tab after the other is defined.         *)
LEMMA ShowingDefined ==
  ASSUME NEW first \in Nat, NEW n \in Nat
  PROVE  \E g \in [0..n -> Nat] :
           g = [l \in 0..n |-> IF l = 0 THEN first ELSE PanelFound(l, g[l - 1])]
<1> DEFINE Unveiled(g, m) == g = [l \in 0..m |-> IF l = 0 THEN first ELSE PanelFound(l, g[l - 1])]
           T == {m \in Nat : ~ \E g \in [0..m -> Nat] : Unveiled(g, m)}
<1>1. SUFFICES ASSUME T # {}
               PROVE  FALSE
  OBVIOUS
<1>2. PICK m \in T : \A k \in T : m <= k
  <2>1. T \subseteq Nat
    OBVIOUS
  <2>2. QED
    BY ONLY <1>1, <2>1, LeastNumber
<1>3. CASE m = 0
  <2>1. [l \in 0..0 |-> first] \in [0..0 -> Nat] /\ Unveiled([l \in 0..0 |-> first], 0)
    OBVIOUS
  <2>2. QED
    BY <1>2, <1>3, <2>1
<1>4. CASE m # 0
  <2>1. m \in Nat /\ m - 1 \in Nat /\ m - 1 \notin T
    <3>1. m \in Nat
      BY <1>2
    <3> HIDE DEF T
    <3>2. QED
      BY <1>2, <1>4, <3>1
  <2>2. PICK g \in [0..(m - 1) -> Nat] : Unveiled(g, m - 1)
    BY <2>1
  <2>3. PICK last \in Nat : last = PanelFound(m, g[m - 1])
    BY <1>4 DEF PanelFound
  <2> DEFINE h == [l \in 0..m |-> IF l = m THEN last ELSE g[l]]
  <2>4. h \in [0..m -> Nat]
    OBVIOUS
  <2>5. ASSUME NEW l \in 0..m
        PROVE  h[l] = IF l = 0 THEN first ELSE PanelFound(l, h[l - 1])
    <3>1. CASE l = m
      <4>1. h[m - 1] = g[m - 1] /\ h[m] = last
        BY <1>4
      <4>2. QED
        BY <1>4, <2>3, <3>1, <4>1
    <3>2. CASE l # m
      <4>1. g[l] = IF l = 0 THEN first ELSE PanelFound(l, g[l - 1])
        BY <2>2, <3>2
      <4>2. h[l] = g[l] /\ (l # 0 => h[l - 1] = g[l - 1])
        BY <3>2
      <4>3. QED
        BY <4>1, <4>2
    <3>3. QED
      BY <3>1, <3>2
  <2>6. Unveiled(h, m)
    BY <2>4, <2>5
  <2>7. QED
    BY <1>2, <2>4, <2>6
<1>5. QED
  BY <1>3, <1>4

LEMMA PanelsFound ==
  ASSUME NEW first \in Nat
  PROVE  /\ Extracted(first) \in [1..SubTabs -> Nat]
         /\ \A l \in 1..SubTabs : Extracted(first)[l] = l \/ l \in LateSubTabs
<1> DEFINE Unveiled(g) == g = [l \in 0..SubTabs |-> IF l = 0 THEN first ELSE PanelFound(l, g[l - 1])]
           showing == CHOOSE g : Unveiled(g)
<1>1. SubTabs \in Nat
  BY TabReadsAssumption
<1>2. PICK g \in [0..SubTabs -> Nat] : Unveiled(g)
  BY <1>1, ShowingDefined
<1>3. Unveiled(showing)
  BY <1>2
<1>4. Extracted(first) = [l \in 1..SubTabs |-> showing[l]]
  BY DEF Extracted
<1>5. ASSUME NEW n \in 0..SubTabs
      PROVE  showing[n] \in Nat /\ (n # 0 => showing[n] = PanelFound(n, showing[n - 1]))
  <2> HIDE DEF showing
  <2> DEFINE T == {m \in 0..SubTabs : showing[m] \notin Nat}
  <2>1. ASSUME T # {}
        PROVE  FALSE
    <3>1. PICK m \in T : \A k \in T : m <= k
      <4>1. T \in SUBSET Nat
        BY <1>1
      <4>2. QED
        BY ONLY <2>1, <4>1, LeastNumber
    <3>2. showing[m] = IF m = 0 THEN first ELSE PanelFound(m, showing[m - 1])
      BY <1>3
    <3>3. m # 0 => showing[m - 1] \in Nat
      BY <1>1, <3>1
    <3>4. QED
      BY <1>1, <3>1, <3>2, <3>3 DEF PanelFound
  <2>2. QED
    BY <1>3, <2>1
<1>6. QED
  <2> HIDE DEF showing
  <2>1. \A l \in 1..SubTabs : l \in 0..SubTabs /\ l # 0 /\ l \in Nat
    BY <1>1
  <2>2. QED
    BY <1>4, <1>5, <2>1 DEF PanelFound

(* One reader goes on; the tabs stay as they are, but for the one in front.  *)
LEMMA OneReader ==
  ASSUME ReadInv, NEW r \in Readers, NEW w \in ReaderRecords, ReaderSound(w),
         reader' = [reader EXCEPT ![r] = w],
         UNCHANGED <<present, text, panel, owned>>, fore' \in present
  PROVE  ReadInv'
<1>1. ReadsShape'
  BY DEF ReadInv, ReadsShape
<1>2. ASSUME NEW q \in Readers
      PROVE  ReaderSound(reader[q])'
  <2>1. PICK v : v = reader'[q] /\ ReaderSound(v)
    BY DEF ReadInv, ReadsShape
  <2>2. QED
    BY <2>1 DEF ReaderSound
<1>3. QED
  BY <1>1, <1>2 DEF ReadInv

LEMMA RestsSound == Rests \in ReaderRecords /\ ReaderSound(Rests)
<1>1. Rests \in ReaderRecords
  BY DEF Rests, ReaderRecords, NotRead, ReadStages
<1>2. Engaged(Rests.stage) = {}
  BY DEF Rests, AtWork, Engaged
<1>3. MaxConcurrent \in Nat
  BY TabReadsAssumption
<1>4. QED
  <2>1. Cardinality(Engaged(Rests.stage)) <= MaxConcurrent
    BY <1>2, <1>3, FS_EmptySet
  <2>2. QED
    BY <1>1, <2>1 DEF Rests, ReaderSound, NotRead, AtWork

LEMMA TextStep ==
  ASSUME ReadInv, NEW t \in ReadTabs, TextChanges(t)
  PROVE  ReadInv'
<1>1. text[t] \in Nat /\ text[t] + 1 \in 1..MaxText /\ text'[t] = text[t] + 1
      /\ text' \in [ReadTabs -> 1..MaxText] /\ \A u \in ReadTabs \ {t} : text'[u] = text[u]
  BY TabReadsAssumption DEF ReadInv, ReadsShape, TextChanges
<1>2. PICK v \in Nat : v = text[t] + 1
  BY <1>1
<1>3. UNCHANGED <<present, panel, owned, fore>> /\ Sees(t, v)
  BY <1>2 DEF TextChanges
<1>4. ASSUME NEW q \in Readers
      PROVE  reader'[q] \in ReaderRecords /\ ReaderSound(reader[q])'
  <2>1. PICK a \in ReaderRecords : a = reader[q] /\ ReaderSound(a)
    BY DEF ReadInv, ReadsShape
  <2>2. CASE a.does # "scan"
    <3>1. reader'[q] = a
      BY <1>3, <2>1, <2>2 DEF Sees
    <3>2. QED
      BY <1>3, <2>1, <2>2, <3>1 DEF ReaderSound
  <2>3. CASE a.does = "scan"
    <3> DEFINE s == [a.seen EXCEPT ![t] = @ \cup {v}]
    <3>0. s \in [ReadTabs -> SUBSET Nat]
      BY DEF ReaderRecords
    <3>1. PICK w : w = [a EXCEPT !.seen = s] /\ w = reader'[q]
      BY <1>3, <2>1, <2>3 DEF Sees
    <3>2. /\ w \in ReaderRecords /\ w.does = "scan" /\ w.left = a.left /\ w.stage = a.stage
          /\ w.got = a.got
      BY <2>3, <3>0, <3>1 DEF ReaderRecords
    <3>3. /\ w.seen[t] = a.seen[t] \cup {v}
          /\ \A u \in ReadTabs \ {t} : w.seen[u] = a.seen[u]
      BY <3>1 DEF ReaderRecords
    <3>4. \A u \in ReadTabs : text'[u] \in w.seen[u] /\ a.seen[u] \subseteq w.seen[u]
      BY <1>1, <1>2, <2>1, <2>3, <3>3 DEF ReaderSound
    <3>5. /\ \A u \in present : u \in w.left \/ w.stage[u] # "no"
          /\ Cardinality(Engaged(w.stage)) <= MaxConcurrent
      BY <2>1, <2>3, <3>2 DEF ReaderSound
    <3>6. \A u \in ReadTabs : /\ w.got[u].text \in w.seen[u] \cup {0}
                              /\ w.stage[u] = "done" => w.got[u].status # "none"
      BY <2>1, <3>2, <3>4 DEF ReaderSound
    <3>7. QED
      BY <1>3, <3>1, <3>2, <3>4, <3>5, <3>6 DEF ReaderSound
  <2>4. QED
    BY <2>2, <2>3
<1>5. reader' \in [Readers -> ReaderRecords]
  BY <1>3, <1>4 DEF Sees
<1>6. QED
  BY <1>1, <1>3, <1>4, <1>5 DEF ReadInv, ReadsShape

LEMMA CloseStep ==
  ASSUME ReadInv, NEW t \in ReadTabs, TabCloses(t)
  PROVE  ReadInv'
<1>1. ReadsShape' /\ present' \subseteq present /\ UNCHANGED <<text, panel, owned, reader>>
  BY DEF ReadInv, ReadsShape, TabCloses
<1>2. ASSUME NEW q \in Readers
      PROVE  ReaderSound(reader[q])'
  BY <1>1 DEF ReadInv, ReaderSound
<1>3. QED
  BY <1>1, <1>2 DEF ReadInv

(* A scan begins, takes a batch or ends.                                     *)
LEMMA ScanStep ==
  ASSUME ReadInv, NEW r \in Readers, ScanAll(r) \/ NextBatch(r) \/ ScanEnds(r) \/ AnswerForgotten(r)
  PROVE  ReadInv'
<1>1. PICK a \in ReaderRecords : a = reader[r] /\ ReaderSound(a)
  BY DEF ReadInv, ReadsShape
<1>2. UNCHANGED <<present, text, panel, owned, fore>> /\ fore \in present /\ present \subseteq ReadTabs
  BY DEF ScanAll, NextBatch, ScanEnds, AnswerForgotten, ReadInv, ReadsShape
<1>3. IsFiniteSet(ReadTabs) /\ MaxConcurrent \in Nat
  BY TabReadsAssumption
<1>4. CASE ScanAll(r)
  <2>1. PICK w : /\ reader' = [reader EXCEPT ![r] = w]
                 /\ w = [Rests EXCEPT !.does = "scan", !.left = present,
                                      !.seen = [t \in ReadTabs |-> {text[t]}]]
    BY <1>4 DEF ScanAll
  <2>2. text \in [ReadTabs -> Nat]
    BY TabReadsAssumption DEF ReadInv, ReadsShape
  <2>3. w \in ReaderRecords
    BY <1>2, <2>1, <2>2, RestsSound DEF ReaderRecords
  <2>4. /\ w.does = "scan" /\ w.left = present /\ w.stage = Rests.stage /\ w.got = Rests.got
        /\ \A t \in ReadTabs : w.seen[t] = {text[t]}
    BY <2>1 DEF Rests
  <2>5. \A t \in ReadTabs : Rests.got[t].text = 0 /\ Rests.stage[t] = "no"
    BY DEF Rests, NotRead
  <2>6. ReaderSound(w)
    BY <2>4, <2>5, RestsSound DEF ReaderSound
  <2>7. QED
    BY <1>2, <2>1, <2>3, <2>6, OneReader
<1>5. CASE NextBatch(r)
  <2>1. PICK B \in SUBSET a.left :
          /\ Cardinality(B) = IF Cardinality(a.left) < MaxConcurrent
                              THEN Cardinality(a.left) ELSE MaxConcurrent
          /\ reader' = [reader EXCEPT ![r] =
               [reader[r] EXCEPT !.left = reader[r].left \ B,
                         !.stage = [t \in ReadTabs |-> IF t \in B THEN "opens"
                                                        ELSE reader[r].stage[t]]]]
    BY <1>1, <1>5 DEF NextBatch
  <2> DEFINE stage == [t \in ReadTabs |-> IF t \in B THEN "opens" ELSE a.stage[t]]
  <2>2. PICK w : w = [a EXCEPT !.left = a.left \ B, !.stage = stage] /\ reader' = [reader EXCEPT ![r] = w]
    BY <1>1, <2>1
  <2>3. a.does = "scan" /\ Reading(r) = {}
    BY <1>1, <1>5 DEF NextBatch
  <2>4. /\ w \in ReaderRecords /\ w.does = "scan" /\ w.left = a.left \ B /\ w.got = a.got
        /\ w.seen = a.seen
    BY <2>2, <2>3 DEF ReaderRecords, ReadStages
  <2>5. \A t \in ReadTabs : w.stage[t] = IF t \in B THEN "opens" ELSE a.stage[t]
    BY <2>2 DEF ReaderRecords
  <2>6. Engaged(w.stage) = B
    BY <1>1, <2>3, <2>5 DEF Reading, Engaged, AtWork, ReaderRecords
  <2>7. Cardinality(B) <= MaxConcurrent
    <3>1. Cardinality(a.left) \in Nat
      BY <1>3, FS_Subset, FS_CardinalityType DEF ReaderRecords
    <3>2. QED
      BY <1>3, <2>1, <3>1
  <2>8. ReaderSound(w)
    <3>1. \A t \in present : t \in w.left \/ w.stage[t] # "no"
      BY <1>1, <1>2, <2>3, <2>4, <2>5 DEF ReaderSound
    <3>2. \A t \in ReadTabs : text[t] \in w.seen[t]
      BY <1>1, <2>3, <2>4 DEF ReaderSound
    <3>3. \A t \in ReadTabs : /\ w.got[t].text \in w.seen[t] \cup {0}
                              /\ w.stage[t] = "done" => w.got[t].status # "none"
      BY <1>1, <2>4, <2>5 DEF ReaderSound
    <3>4. QED
      BY <2>4, <2>6, <2>7, <3>1, <3>2, <3>3 DEF ReaderSound
  <2>9. QED
    BY <1>2, <2>2, <2>4, <2>8, OneReader
<1>6. CASE ScanEnds(r)
  <2>1. PICK w : w = [a EXCEPT !.does = "scanned"] /\ reader' = [reader EXCEPT ![r] = w]
    BY <1>1, <1>6 DEF ScanEnds
  <2>2. a.does = "scan" /\ a.left = {} /\ Reading(r) = {}
    BY <1>1, <1>6 DEF ScanEnds
  <2>3. /\ w \in ReaderRecords /\ w.does = "scanned" /\ w.left = a.left /\ w.got = a.got
        /\ w.seen = a.seen /\ w.stage = a.stage
    BY <2>1 DEF ReaderRecords
  <2>4. \A t \in ReadTabs : a.stage[t] \notin AtWork
    BY <1>1, <2>2 DEF Reading, AtWork
  <2>5. ReaderSound(w)
    BY <1>1, <2>2, <2>3, <2>4 DEF ReaderSound
  <2>6. QED
    BY <1>2, <2>1, <2>3, <2>5, OneReader
<1>7. CASE AnswerForgotten(r)
  BY <1>2, <1>7, OneReader, RestsSound DEF AnswerForgotten
<1>8. QED
  BY <1>4, <1>5, <1>6, <1>7

(* The connection to one tab of a batch goes on, or is answered.             *)
LEMMA StageKept ==
  ASSUME ReadInv, NEW r \in Readers, NEW t \in ReadTabs, NEW a \in ReaderRecords, a = reader[r],
         a.stage[t] \in AtWork, NEW stage \in ReadStages \ {"no"},
         NEW g \in [status : {"none", "ok", "error"}, text : Nat], stage = "done" => g.status # "none",
         g.text \in a.seen[t] \cup {0}, NEW w,
         w = [a EXCEPT !.stage = [@ EXCEPT ![t] = stage], !.got = [@ EXCEPT ![t] = g]]
  PROVE  w \in ReaderRecords /\ ReaderSound(w)
<1>1. ReaderSound(a) /\ a.does = "scan"
  BY DEF ReadInv, ReaderSound
<1>2. /\ w \in ReaderRecords /\ w.does = "scan" /\ w.left = a.left /\ w.seen = a.seen
  BY <1>1 DEF ReaderRecords
<1>3. /\ w.stage[t] = stage /\ \A u \in ReadTabs \ {t} : w.stage[u] = a.stage[u]
      /\ w.got[t] = g /\ \A u \in ReadTabs \ {t} : w.got[u] = a.got[u]
  BY DEF ReaderRecords
<1>4. Cardinality(Engaged(w.stage)) <= MaxConcurrent
  <2>1. Engaged(w.stage) \subseteq Engaged(a.stage)
    BY <1>3 DEF Engaged
  <2>2. IsFiniteSet(Engaged(a.stage))
    BY TabReadsAssumption, FS_Subset DEF Engaged
  <2>3. /\ Cardinality(Engaged(w.stage))
             <= Cardinality(Engaged(a.stage))
        /\ Cardinality(Engaged(w.stage)) \in Nat
        /\ Cardinality(Engaged(a.stage)) \in Nat
    BY <2>1, <2>2, FS_Subset, FS_CardinalityType
  <2>4. QED
    BY <1>1, <2>3, TabReadsAssumption DEF ReaderSound
<1>5. \A u \in ReadTabs : /\ w.got[u].text \in w.seen[u] \cup {0}
                          /\ w.stage[u] = "done" => w.got[u].status # "none"
  BY <1>1, <1>2, <1>3 DEF ReaderSound
<1>6. \A u \in present : u \in w.left \/ w.stage[u] # "no"
  BY <1>1, <1>2, <1>3 DEF ReaderSound, ReadInv, ReadsShape
<1>7. QED
  BY <1>1, <1>2, <1>4, <1>5, <1>6 DEF ReaderSound

LEMMA TabStep ==
  ASSUME ReadInv, NEW r \in Readers, NEW t \in ReadTabs,
         OpensTab(r, t) \/ WakesTab(r, t) \/ ReadsTab(r, t) \/ TakesTooLong(r, t)
  PROVE  ReadInv'
<1>1. PICK a \in ReaderRecords : a = reader[r] /\ ReaderSound(a)
  BY DEF ReadInv, ReadsShape
<1>2. UNCHANGED <<present, text, panel, owned>> /\ fore' \in present
  BY DEF OpensTab, WakesTab, ReadsTab, TakesTooLong, ReadInv, ReadsShape
<1>3. a.stage[t] \in AtWork /\ a.does = "scan"
  BY <1>1 DEF OpensTab, WakesTab, ReadsTab, TakesTooLong, AtWork, ReaderSound
<1>4. PICK g \in [status : {"none", "ok", "error"}, text : Nat] : g = a.got[t]
  BY DEF ReaderRecords
<1>5. g.text \in a.seen[t] \cup {0} /\ text[t] \in a.seen[t]
  BY <1>1, <1>3, <1>4 DEF ReaderSound
<1>6. ASSUME NEW stage \in {"wakes", "reads"}, reader' = [reader EXCEPT ![r].stage[t] = stage]
      PROVE  ReadInv'
  <2>1. PICK w : /\ w = [a EXCEPT !.stage = [@ EXCEPT ![t] = stage], !.got = [@ EXCEPT ![t] = g]]
    OBVIOUS
  <2>2. w = [a EXCEPT !.stage[t] = stage]
    BY <1>4, <2>1 DEF ReaderRecords
  <2>3. reader' = [reader EXCEPT ![r] = w]
    BY <1>1, <1>6, <2>2
  <2>4. stage \in ReadStages \ {"no"} /\ stage # "done"
    BY DEF ReadStages
  <2>5. w \in ReaderRecords /\ ReaderSound(w)
    BY <1>1, <1>3, <1>5, <2>1, <2>4, StageKept
  <2>6. QED
    BY <1>2, <2>3, <2>5, OneReader
<1>7. ASSUME NEW status \in {"ok", "error"}, NEW txt \in a.seen[t] \cup {0}, OneRead(r, t, status, txt)
      PROVE  ReadInv'
  <2>1. PICK n \in [status : {"none", "ok", "error"}, text : Nat] : n = [status |-> status, text |-> txt]
    <3>1. a.seen[t] \subseteq Nat
      BY DEF ReaderRecords
    <3>2. txt \in Nat
      BY <3>1
    <3>3. QED
      BY <3>2
  <2>2. PICK w : /\ w = [a EXCEPT !.stage = [@ EXCEPT ![t] = "done"], !.got = [@ EXCEPT ![t] = n]]
                 /\ reader' = [reader EXCEPT ![r] = w]
    <3>1. reader' = [reader EXCEPT ![r] =
             [a EXCEPT !.stage = [a.stage EXCEPT ![t] = "done"], !.got = [a.got EXCEPT ![t] = n]]]
      BY <1>1, <1>7, <2>1 DEF OneRead
    <3>2. QED
      BY <3>1
  <2>3. n.status # "none" /\ n.text \in a.seen[t] \cup {0}
    BY <2>1
  <2>4. "done" \in ReadStages \ {"no"}
    BY DEF ReadStages
  <2>5. w \in ReaderRecords /\ ReaderSound(w)
    BY <1>1, <1>3, <2>2, <2>3, <2>4, StageKept
  <2>6. QED
    BY <1>2, <2>2, <2>5, OneReader
<1>8. QED
  BY <1>5, <1>6, <1>7 DEF OpensTab, WakesTab, ReadsTab, TakesTooLong

(* A deep scan begins, moves the client and reads the page.                  *)
LEMMA DeepStep ==
  ASSUME ReadInv, NEW r \in Readers,
         (\E t \in ReadTabs : DeepScan(r, t)) \/ Moves(r) \/ ClicksThrough(r)
  PROVE  ReadInv'
<1>1. PICK a \in ReaderRecords : a = reader[r] /\ ReaderSound(a)
  BY DEF ReadInv, ReadsShape
<1>2. CASE \E t \in ReadTabs : DeepScan(r, t)
  <2>1. PICK t \in ReadTabs : DeepScan(r, t)
    BY <1>2
  <2>2. PICK w : w = [Rests EXCEPT !.does = "moves", !.tab = t] /\ reader' = [reader EXCEPT ![r] = w]
    BY <2>1 DEF DeepScan
  <2>3. w \in ReaderRecords
    BY <2>2, RestsSound DEF ReaderRecords
  <2>4. /\ w.does = "moves" /\ w.tab = t /\ w.stage = Rests.stage /\ w.got = Rests.got
        /\ w.seen = Rests.seen
    BY <2>2 DEF Rests
  <2>5. Rests.does = "rest"
    BY DEF Rests
  <2>6. ReaderSound(w)
    BY <2>4, <2>5, RestsSound DEF ReaderSound
  <2>7. QED
    BY <2>1, <2>2, <2>3, <2>6, OneReader DEF DeepScan, ReadInv, ReadsShape
<1>3. CASE Moves(r) /\ a.tab \notin present
  BY <1>1, <1>3, OneReader, RestsSound DEF Moves, ReadInv, ReadsShape
<1>4. CASE Moves(r) /\ a.tab \in present
  <2>1. /\ a.does = "moves" /\ owned' = a.tab /\ fore' = a.tab /\ UNCHANGED <<present, text, panel>>
        /\ reader' = [q \in Readers |->
              IF q = r THEN [reader[r] EXCEPT !.does = "clicks"]
              ELSE IF a.tab # owned THEN [reader[q] EXCEPT !.moved = @ \/ reader[q].does = "clicks"]
              ELSE reader[q]]
    BY <1>1, <1>4 DEF Moves
  <2>2. ASSUME NEW q \in Readers
        PROVE  reader'[q] \in ReaderRecords /\ ReaderSound(reader[q])'
    <3>1. CASE q = r
      <4>1. PICK w : w = [a EXCEPT !.does = "clicks"] /\ w = reader'[q]
        BY <1>1, <2>1, <3>1
      <4>2. /\ w \in ReaderRecords /\ w.does = "clicks" /\ w.tab = a.tab /\ w.got = a.got
            /\ w.seen = a.seen /\ w.stage = a.stage
        BY <4>1 DEF ReaderRecords
      <4>3. ReaderSound(a) /\ Engaged(w.stage) = Engaged(a.stage)
        BY <1>1, <4>2
      <4>4. \A t \in ReadTabs : /\ w.stage[t] \notin AtWork
                                /\ w.got[t].text \in w.seen[t] \cup {0}
                                /\ w.stage[t] = "done" => w.got[t].status # "none"
        BY <2>1, <4>2, <4>3 DEF ReaderSound
      <4>5. Cardinality(Engaged(w.stage)) <= MaxConcurrent /\ w.tab \in ReadTabs /\ owned' = w.tab
        BY <2>1, <4>2, <4>3 DEF ReaderSound
      <4>6. QED
        BY <4>1, <4>2, <4>4, <4>5 DEF ReaderSound
    <3>2. CASE q # r /\ a.tab # owned
      <4>1. PICK b \in ReaderRecords : b = reader[q] /\ ReaderSound(b)
        BY DEF ReadInv, ReadsShape
      <4>2. PICK clicks \in BOOLEAN : clicks = (b.does = "clicks")
        <5>1. (b.does = "clicks") \in BOOLEAN
          OBVIOUS
        <5>2. QED
          BY ONLY <5>1, Zenon
      <4>3. PICK w : w = [b EXCEPT !.moved = @ \/ clicks] /\ w = reader'[q]
        BY <2>1, <3>2, <4>1, <4>2
      <4>4. /\ w \in ReaderRecords /\ w.does = b.does /\ w.tab = b.tab /\ w.from = b.from
            /\ w.got = b.got /\ w.seen = b.seen /\ w.stage = b.stage /\ w.left = b.left
            /\ w.labels = b.labels
        BY <4>3 DEF ReaderRecords
      <4>5. (b.moved => w.moved) /\ (b.does = "clicks" => w.moved)
        BY <4>2, <4>3 DEF ReaderRecords
      <4>6. \A t \in ReadTabs : /\ w.got[t].text \in w.seen[t] \cup {0}
                                /\ w.stage[t] = "done" => w.got[t].status # "none"
                                /\ w.does # "scan" => w.stage[t] \notin AtWork
                                /\ w.does = "scan" => text'[t] \in w.seen[t]
        BY <2>1, <4>1, <4>4 DEF ReaderSound
      <4>7. /\ w.does \in {"scan", "scanned"} => \A t \in present' : t \in w.left \/ w.stage[t] # "no"
            /\ w.does = "scanned" => w.left = {}
            /\ Cardinality(Engaged(w.stage)) <= MaxConcurrent
            /\ w.does \in {"moves", "clicks", "deep"} => w.tab \in ReadTabs
        BY <2>1, <4>1, <4>4 DEF ReaderSound
      <4>8. /\ w.does = "clicks" => w.moved
            /\ w.does = "deep" => /\ w.moved \/ w.from = w.tab
                                  /\ \A l \in 1..SubTabs : w.labels[l] = l \/ l \in LateSubTabs
        BY <4>1, <4>4, <4>5 DEF ReaderSound
      <4>9. QED
        BY <4>3, <4>4, <4>6, <4>7, <4>8 DEF ReaderSound
    <3>3. CASE q # r /\ a.tab = owned
      <4>1. reader'[q] = reader[q] /\ owned' = owned
        BY <2>1, <3>3
      <4>2. reader[q] \in ReaderRecords /\ ReaderSound(reader[q])
        BY DEF ReadInv, ReadsShape
      <4>3. QED
        BY <2>1, <4>1, <4>2 DEF ReaderSound
    <3>4. QED
      BY <3>1, <3>2, <3>3
  <2>3. reader' \in [Readers -> ReaderRecords]
    BY <2>1, <2>2
  <2>4. QED
    BY <1>4, <2>1, <2>2, <2>3 DEF ReadInv, ReadsShape
<1>5. CASE ClicksThrough(r)
  <2>1. PICK first \in Nat : first = panel[owned]
    BY TabReadsAssumption DEF ReadInv, ReadsShape
  <2>2. PICK found : /\ found = Extracted(first) /\ found \in [1..SubTabs -> Nat]
                     /\ \A l \in 1..SubTabs : found[l] = l \/ l \in LateSubTabs
    BY PanelsFound
  <2>3. PICK w : /\ w = [a EXCEPT !.does = "deep", !.from = owned, !.labels = found]
                 /\ reader' = [reader EXCEPT ![r] = w]
    BY <1>1, <1>5, <2>1, <2>2 DEF ClicksThrough
  <2>4. a.does = "clicks" /\ owned \in ReadTabs /\ UNCHANGED <<present, text, owned, fore>>
    BY <1>1, <1>5 DEF ClicksThrough, ReadInv, ReadsShape
  <2>5. /\ w \in ReaderRecords /\ w.does = "deep" /\ w.from = owned /\ w.labels = found
        /\ w.tab = a.tab /\ w.stage = a.stage /\ w.got = a.got /\ w.seen = a.seen
    BY <2>2, <2>3, <2>4 DEF ReaderRecords
  <2>6. w.moved = a.moved
    BY <2>3 DEF ReaderRecords
  <2>7. ReaderSound(w)
    BY <1>1, <2>2, <2>4, <2>5, <2>6 DEF ReaderSound
  <2>8. panel' \in [ReadTabs -> 1..SubTabs]
    BY <1>5, TabReadsAssumption DEF ClicksThrough, ReadInv, ReadsShape
  <2>9. ReadsShape'
    BY <2>3, <2>4, <2>5, <2>8 DEF ReadInv, ReadsShape
  <2>10. ASSUME NEW q \in Readers
         PROVE  ReaderSound(reader[q])'
    <3>1. PICK v : v = reader'[q] /\ ReaderSound(v)
      BY <2>3, <2>7 DEF ReadInv, ReadsShape
    <3>2. QED
      BY <2>4, <3>1 DEF ReaderSound
  <2>11. QED
    BY <2>9, <2>10 DEF ReadInv
<1>6. QED
  BY <1>2, <1>3, <1>4, <1>5

LEMMA ReadsStart == ReadsInit => ReadInv
<1> SUFFICES ASSUME ReadsInit
             PROVE  ReadInv
  OBVIOUS
<1>1. ReadsShape
  BY TabReadsAssumption, RestsSound DEF ReadsInit, ReadsShape
<1>2. QED
  BY <1>1, RestsSound DEF ReadsInit, ReadInv

LEMMA ReadsStep == ReadInv /\ [ReadsNext]_readVars => ReadInv'
<1> SUFFICES ASSUME ReadInv, [ReadsNext]_readVars
             PROVE  ReadInv'
  OBVIOUS
<1>1. CASE UNCHANGED readVars
  BY <1>1 DEF readVars, ReadInv, ReadsShape, ReaderSound
<1>2. QED
  BY <1>1, TextStep, CloseStep, ScanStep, TabStep, DeepStep DEF ReadsNext

(* However readers overlap (scan_all_tabs and deep_scan_tab of               *)
(* cdp_client.py), the tabs close and their pages change: a scan answers for *)
(* every tab with what it showed meanwhile, and a deep scan tells of its own *)
(* tab, unless another one moved the client, and of each sub-tab by its own  *)
(* panel, unless that came late.                                             *)
THEOREM ReadsAreTrue == ReadsInit /\ [][ReadsNext]_readVars => []ReadsTrue
<1>1. ReadsInit => ReadInv
  BY ReadsStart
<1>2. ReadInv /\ [ReadsNext]_readVars => ReadInv'
  BY ReadsStep
<1>3. ReadInv => ReadsTrue
  <2> SUFFICES ASSUME ReadInv
               PROVE  ReadsTrue
    OBVIOUS
  <2>1. ASSUME NEW r \in Readers
        PROVE  LET w == reader[r] IN
               /\ w.does = "scanned" =>
                    /\ \A t \in present : w.got[t].status # "none"
                    /\ \A t \in ReadTabs : w.got[t].text \in w.seen[t] \cup {0}
               /\ w.does = "deep" =>
                    /\ w.moved \/ w.from = w.tab
                    /\ \A l \in 1..SubTabs : w.labels[l] = l \/ l \in LateSubTabs
    <3>1. PICK w \in ReaderRecords : w = reader[r] /\ ReaderSound(w)
      BY DEF ReadInv, ReadsShape
    <3>2. ASSUME w.does = "scanned", NEW t \in present
          PROVE  w.got[t].status # "none"
      <4>1. t \in ReadTabs /\ w.stage[t] \in ReadStages
        BY DEF ReadInv, ReadsShape, ReaderRecords
      <4>2. w.stage[t] \notin AtWork /\ w.stage[t] # "no"
        BY <3>1, <3>2, <4>1 DEF ReaderSound
      <4>3. w.stage[t] = "done"
        BY <4>1, <4>2 DEF ReadStages, AtWork
      <4>4. QED
        BY <3>1, <4>1, <4>3 DEF ReaderSound
    <3>3. QED
      BY <3>1, <3>2 DEF ReaderSound
  <2>2. QED
    BY <2>1 DEF ReadInv, ReadsShape, ReadsTrue
<1>4. QED
  BY <1>1, <1>2, <1>3, PTL

LEMMA ReadsTyped == ReadInv => ReadsTypeOK
<1> SUFFICES ASSUME ReadInv
             PROVE  ReadsTypeOK
  OBVIOUS
<1>1. ReadsShape /\ \A r \in Readers : Cardinality(Engaged(reader[r].stage)) <= MaxConcurrent
  BY DEF ReadInv, ReaderSound
<1>2. \A r \in Readers : Cardinality(Reading(r)) <= MaxConcurrent
  BY <1>1 DEF Reading, Engaged, AtWork
<1>3. QED
  <2>1. present \subseteq ReadTabs /\ {owned, fore} \subseteq ReadTabs
    BY <1>1 DEF ReadsShape
  <2>2. text \in [ReadTabs -> 1..MaxText] /\ panel \in [ReadTabs -> 1..SubTabs]
    BY <1>1 DEF ReadsShape
  <2>3. QED
    BY <1>2, <2>1, <2>2 DEF ReadsTypeOK

LEMMA ReadsTypes == ReadsInit /\ [][ReadsNext]_readVars => []ReadsTypeOK
BY ReadsStart, ReadsStep, ReadsTyped, PTL

=============================================================================
