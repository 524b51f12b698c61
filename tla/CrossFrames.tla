----------------------------- MODULE CrossFrames -----------------------------
(***************************************************************************)
(* The iframes of a page (cdp_client.py).  Those of another origin are     *)
(* read and filled through a session of their own, kept by the address of  *)
(* the frame; an analysis of the page numbers them, and an element of one  *)
(* is named by that number, which means something only until the next      *)
(* analysis.  Callers share the client: analyses, fills and clicks         *)
(* overlap, while frames come and go and the connection is replaced.       *)
(***************************************************************************)
EXTENDS Naturals, Sequences, FiniteSets

CONSTANTS
    FrameUsers,     (* callers of the client                                 *)
    FrameActors,    (* bound: those that also act on what they were shown    *)
    FrameSrcs,      (* addresses of iframes                                  *)
    NoSrc,          (* none                                                  *)
    MaxFrames       (* bound: iframes ever created                           *)

ASSUME CrossFramesAssumption ==
    /\ MaxFrames \in Nat \ {0} /\ NoSrc \notin FrameSrcs
    /\ FrameActors \subseteq FrameUsers

VARIABLES
    frames,         (* the iframes, in the order of the page                 *)
    made,           (* iframes created so far                                *)
    sids,           (* _oopif_sessions: address -> the frame of the session  *)
    srcs,           (* _oopif_src: number -> address                         *)
    work,           (* what each caller is doing                             *)
    listing,        (* the numbers of the frames it was last shown           *)
    calm            (* the page is as its last analysis found it             *)

frameVars == <<frames, made, sids, srcs, work, listing, calm>>

Keys   == 1..MaxFrames
NoSid  == 0
(* The session of a frame that is gone, or of an earlier connection.         *)
Dead   == MaxFrames + 1
FrameIdle == [does |-> "rest", todo |-> <<>>, found |-> [k \in Keys |-> 0],
           spot |-> 0, told |-> "none", hit |-> 0]

FramesInit ==
    /\ frames = <<>> /\ made = 0
    /\ sids = [s \in FrameSrcs |-> NoSid] /\ srcs = [k \in Keys |-> NoSrc]
    /\ work = [c \in FrameUsers |-> FrameIdle]
    /\ listing = [c \in FrameActors |-> {}]
    /\ calm = [c \in FrameUsers |-> FALSE]

-----------------------------------------------------------------------------
Ids    == {frames[i].id : i \in DOMAIN frames}
(* One the page may look into counts for nothing but its place: no address.  *)
Near(i) == frames[i].src = NoSrc
Far(s) == {i \in DOMAIN frames : frames[i].src = s}
Marked(k) == {i \in DOMAIN frames : frames[i].mark = k}
Unrest == calm' = [c \in FrameUsers |-> FALSE]

(* The page adds an iframe, removes one, or goes to a document without.      *)
FrameAdded(s, first) ==
    /\ made < MaxFrames /\ made' = made + 1
    /\ LET f == [id |-> made + 1, src |-> s, mark |-> 0]
       IN frames' = IF first THEN <<f>> \o frames ELSE Append(frames, f)
    /\ Unrest /\ UNCHANGED <<sids, srcs, work, listing>>

FrameRemoved(i) ==
    /\ frames' = SubSeq(frames, 1, i - 1) \o SubSeq(frames, i + 1, Len(frames))
    /\ sids' = [s \in FrameSrcs |-> IF sids[s] = frames[i].id THEN Dead ELSE sids[s]]
    /\ Unrest /\ UNCHANGED <<made, srcs, work, listing>>

(* The client connects again: what it remembers of frames is not forgotten.  *)
Reconnected ==
    /\ sids' = [s \in FrameSrcs |-> IF sids[s] = NoSid THEN NoSid ELSE Dead]
    /\ work' = [c \in FrameUsers |-> IF work[c].does = "rest" THEN work[c]
                                     ELSE FrameIdle]
    /\ Unrest /\ UNCHANGED <<frames, made, srcs, listing>>

-----------------------------------------------------------------------------
(* analyze_page_condensed: the script walks the page and numbers the iframes *)
(* it may not look into.                                                     *)
Number(i) == Cardinality({j \in 1..i : ~Near(j)})
Scan(c) ==
    /\ work[c].does = "rest"
    /\ frames' = [i \in DOMAIN frames |->
           IF Near(i) THEN frames[i] ELSE [frames[i] EXCEPT !.mark = Number(i)]]
    /\ LET far == Cardinality({i \in DOMAIN frames : ~Near(i)})
           at(k) == CHOOSE i \in DOMAIN frames : ~Near(i) /\ Number(i) = k
       IN work' = [work EXCEPT ![c] = [FrameIdle EXCEPT !.does = "scanned",
                      !.todo = [k \in 1..far |-> [key |-> k, src |-> frames[at(k)].src]]]]
    /\ calm' = [calm EXCEPT ![c] =
           \A d \in FrameUsers \ {c} : work[d].does \in {"scanned", "lists", "reads"} => calm[d]]
    /\ UNCHANGED <<made, sids, srcs, listing>>

Forgets(c) ==
    /\ work[c].does = "scanned"
    /\ srcs' = [k \in Keys |-> NoSrc]
    /\ work' = [work EXCEPT ![c].does = "lists"]
    /\ UNCHANGED <<frames, made, sids, listing, calm>>

(* _frame_session: a session that was kept, whatever became of it, or one of *)
(* a target with the address; `none` when there is none.                     *)
Attaches(src, sid) ==
    IF sids[src] # NoSid THEN sid = sids[src]
    ELSE IF Far(src) = {} THEN sid = NoSid
    ELSE sid \in {frames[i].id : i \in Far(src)}
Sessions == 0..Dead
Alive(sid) == sid \in Ids

(* _augment_with_cross_origin_frames, a frame at a time.                     *)
TakesFrame(c) ==
    /\ work[c].does = "lists" /\ work[c].todo # <<>>
    /\ LET f == Head(work[c].todo) IN
       /\ srcs' = [srcs EXCEPT ![f.key] = f.src]
       /\ \E sid \in Sessions :
            /\ Attaches(f.src, sid)
            /\ sids' = [sids EXCEPT ![f.src] = sid]
            /\ work' = [work EXCEPT ![c] = IF Alive(sid)
                   THEN [@ EXCEPT !.does = "reads", !.hit = sid]
                   ELSE [@ EXCEPT !.todo = Tail(work[c].todo)]]
    /\ UNCHANGED <<frames, made, listing, calm>>

(* _FRAME_SCAN_JS and _frame_offset: the controls are those of the frame of  *)
(* the session, their place that of the frame with the number.               *)
ReadsFrame(c) ==
    /\ work[c].does = "reads"
    /\ LET k == Head(work[c].todo).key IN
       work' = [work EXCEPT ![c] =
           [@ EXCEPT !.does = "lists", !.todo = Tail(work[c].todo), !.hit = 0,
                     !.found = IF c \in FrameActors /\ work[c].hit \in Ids /\ Marked(k) # {}
                               THEN [work[c].found EXCEPT ![k] = work[c].hit] ELSE work[c].found]]
    /\ UNCHANGED <<frames, made, sids, srcs, listing, calm>>

Listed1(c) ==
    /\ work[c].does = "lists" /\ work[c].todo = <<>>
    /\ listing' = [d \in FrameActors |->
           IF d = c THEN {k \in Keys : work[c].found[k] # 0} ELSE listing[d]]
    /\ work' = [work EXCEPT ![c] = IF c \in FrameActors
           THEN [FrameIdle EXCEPT !.told = "listed", !.found = work[c].found] ELSE FrameIdle]
    /\ UNCHANGED <<frames, made, sids, srcs, calm>>

-----------------------------------------------------------------------------
(* smart_form_fill and click: what the caller was shown, by number.          *)
Fills(c, k, l) ==
    /\ work[c].does = "rest" /\ {k, l} \subseteq listing[c]
    /\ work' = [work EXCEPT ![c] = [FrameIdle EXCEPT !.does = "fill",
           !.todo = IF k = l THEN <<k>> ELSE <<k, l>>]]
    /\ UNCHANGED <<frames, made, sids, srcs, listing, calm>>
FrameClicks(c, k) ==
    /\ work[c].does = "rest" /\ k \in listing[c]
    /\ work' = [work EXCEPT ![c] = [FrameIdle EXCEPT !.does = "click", !.todo = <<k>>]]
    /\ UNCHANGED <<frames, made, sids, srcs, listing, calm>>

WorkFails(c) == work' = [work EXCEPT ![c] = FrameIdle]

(* _oopif_session_for: the address now known by the number.                  *)
FrameResolves(c, sid) ==
    LET k == Head(work[c].todo) IN
    /\ srcs[k] # NoSrc /\ Attaches(srcs[k], sid)
    /\ sids' = [sids EXCEPT ![srcs[k]] = sid]

NotKnown(c) ==
    /\ work[c].does \in {"fill", "click"} /\ work[c].hit = 0
    /\ srcs[Head(work[c].todo)] = NoSrc
    /\ WorkFails(c)
    /\ UNCHANGED <<frames, made, sids, srcs, listing, calm>>

(* _set_value_in_frame: the field takes the value; then the                   *)
(* next field, through its own frame; one that is out of reach ends it all.  *)
FillsOne(c) ==
    /\ work[c].does = "fill"
    /\ \E sid \in Sessions :
         /\ FrameResolves(c, sid)
         /\ IF ~Alive(sid) THEN WorkFails(c)
            ELSE work' = [work EXCEPT ![c] =
                       IF Len(@.todo) = 1
                       THEN [FrameIdle EXCEPT !.told = "filled", !.hit = sid, !.todo = work[c].todo]
                       ELSE [@ EXCEPT !.todo = Tail(work[c].todo)]]
    /\ UNCHANGED <<frames, made, srcs, listing, calm>>

(* _click_in_frame: the element's place in its frame, then the frame's place *)
(* on the page, then the mouse there.                                        *)
ClickFinds(c) ==
    /\ work[c].does = "click" /\ work[c].spot = 0 /\ work[c].hit = 0
    /\ \E sid \in Sessions :
         /\ FrameResolves(c, sid)
         /\ IF ~Alive(sid) THEN WorkFails(c)
            ELSE work' = [work EXCEPT ![c].hit = sid]
    /\ UNCHANGED <<frames, made, srcs, listing, calm>>
ClickPlaces(c) ==
    /\ work[c].does = "click" /\ work[c].spot = 0 /\ work[c].hit # 0
    /\ LET k == Head(work[c].todo) IN
       IF Marked(k) = {} THEN WorkFails(c)
       ELSE work' = [work EXCEPT ![c].spot = CHOOSE i \in Marked(k) : \A j \in Marked(k) : i <= j]
    /\ UNCHANGED <<frames, made, sids, srcs, listing, calm>>
ClickLands(c) ==
    /\ work[c].does = "click" /\ work[c].spot # 0
    /\ LET under == IF work[c].spot \in DOMAIN frames THEN frames[work[c].spot].id ELSE 0 IN
       work' = [work EXCEPT ![c] =
             [FrameIdle EXCEPT !.told = "clicked", !.hit = under, !.todo = work[c].todo]]
    /\ UNCHANGED <<frames, made, sids, srcs, listing, calm>>

-----------------------------------------------------------------------------
FramesNext ==
    \/ \E s \in FrameSrcs \cup {NoSrc}, first \in BOOLEAN : FrameAdded(s, first)
    \/ \E i \in DOMAIN frames : FrameRemoved(i)
    \/ Reconnected
    \/ \E c \in FrameUsers :
         \/ Scan(c) \/ Forgets(c) \/ TakesFrame(c) \/ ReadsFrame(c) \/ Listed1(c)
    \/ \E c \in FrameActors :
         \/ NotKnown(c) \/ FillsOne(c) \/ ClickFinds(c) \/ ClickPlaces(c) \/ ClickLands(c)
         \/ \E k \in Keys : FrameClicks(c, k) \/ \E l \in Keys : Fills(c, k, l)

-----------------------------------------------------------------------------
FramesTypeOK ==
    /\ made \in 0..MaxFrames /\ sids \in [FrameSrcs -> Sessions]
    /\ srcs \in [Keys -> FrameSrcs \cup {NoSrc}] /\ calm \in [FrameUsers -> BOOLEAN]
    /\ listing \in [FrameActors -> SUBSET Keys]
    /\ \A c \in FrameUsers : work[c].hit \in 0..MaxFrames

(* While the page stands as a caller's analysis found it: what it was shown  *)
(* under a number was read in the frame with that number, and a fill or a    *)
(* click it is told of reached that frame -- unless the page has another     *)
(* frame of the same address, which the session may be of instead.  A frame  *)
(* is missing from what it was shown only where a session of a frame that is *)
(* gone, or of an earlier connection, is kept for the address; and a number  *)
(* it was shown is unknown only while an analysis lists frames.              *)
FramesHold ==
    \A c \in FrameActors : LET w == work[c] IN
        /\ calm[c] =>
             /\ w.told \in {"filled", "clicked"} =>
                  LET k == Head(w.todo) IN
                  \A i \in Marked(k) : Cardinality(Far(frames[i].src)) = 1 => w.hit = frames[i].id
             /\ w.told = "listed" => \A i \in DOMAIN frames :
                  ~Near(i) /\ Cardinality(Far(frames[i].src)) = 1 =>
                     w.found[frames[i].mark] = frames[i].id \/ ~Alive(sids[frames[i].src])
             /\ w.does \in {"fill", "click"} /\ w.hit = 0 /\ srcs[Head(w.todo)] = NoSrc =>
                  \E d \in FrameUsers \ {c} : work[d].does \in {"lists", "reads"}

=============================================================================
