---------------------------- MODULE AgentRuntime ----------------------------
(***************************************************************************)
(* What the agent endpoints keep between requests: the page snapshots that *)
(* element references point into (SnapshotStore of                         *)
(* src/src/agent_runtime.py for the semantic ones, ax_snapshots of         *)
(* src/src/main.py for those of the accessibility tree), which an act pins *)
(* while it runs, and the recordings that replay acts.                     *)
(*                                                                         *)
(* An act is awaited and has two actions; everything else is one.  What a  *)
(* snapshot shows and what an act does to the page is left out.            *)
(***************************************************************************)
EXTENDS Naturals, Sequences, FiniteSets, Lists

CONSTANTS
    Agents,        (* clients of the agent endpoints                          *)
    SnapshotIds,
    Recordings,
    None,
    MaxSnapshots,  (* max_snapshots                                           *)
    MaxSteps       (* bound: steps a replay may have before it                *)

ASSUME AgentAssumption ==
    /\ None \notin SnapshotIds \cup Recordings
    /\ IsFiniteSet(Agents)
    /\ MaxSnapshots \in Nat \ {0}
    /\ MaxSteps \in Nat

Kinds == {"ax", "semantic"}

VARIABLES
    items,         (* per kind: the snapshots kept, oldest first              *)
    pins,          (* per kind and snapshot: its pins                         *)
    aged,          (* snapshots older than ttl_seconds                        *)
    act,           (* per agent: the act in progress and what it has pinned   *)
    active,        (* active_recording_id                                     *)
    steps,         (* per recording: acts recorded                            *)
    replay         (* per agent: the recording it replays, and what is left   *)

snapshotVars == <<items, pins, aged>>
recordVars == <<active, steps, replay>>
agentVars == <<snapshotVars, act, recordVars>>

NoAct == [runs |-> FALSE, kind |-> "ax", pinned |-> None]
NoReplay == [of |-> None, left |-> 0]

AgentTypeOK ==
    /\ items \in [Kinds -> Seq(SnapshotIds)]
    /\ pins \in [Kinds -> [SnapshotIds -> 0..Cardinality(Agents)]]
    /\ aged \subseteq SnapshotIds
    /\ act \in [Agents -> [runs : BOOLEAN, kind : Kinds, pinned : SnapshotIds \cup {None}]]
    /\ active \in Recordings \cup {None}
    /\ steps \in [Recordings -> 0..MaxSteps]
    /\ replay \in [Agents -> [of : Recordings \cup {None}, left : 0..MaxSteps]]

AgentInit ==
    /\ items = [k \in Kinds |-> <<>>]
    /\ pins = [k \in Kinds |-> [s \in SnapshotIds |-> 0]]
    /\ aged = {}
    /\ act = [a \in Agents |-> NoAct]
    /\ active = None
    /\ steps = [r \in Recordings |-> 0]
    /\ replay = [a \in Agents |-> NoReplay]

-----------------------------------------------------------------------------
Kept(k) == {items[k][i] : i \in DOMAIN items[k]}
Pinned(k) == {s \in SnapshotIds : pins[k][s] > 0}

(* Adding to a full table drops the oldest snapshot that is not pinned - the  *)
(* new one itself, if all the others are.                                     *)
Pruned(k, list) ==
    LET loose == Those(list, SnapshotIds \ Pinned(k))
    IN IF Len(list) > MaxSnapshots /\ loose # <<>> THEN Those(list, SnapshotIds \ {Head(loose)}) ELSE list

(* The semantic table also loses what is too old.                             *)
Unexpired(k) == IF k = "ax" THEN items[k]
           ELSE Those(items[k], Pinned(k) \cup (SnapshotIds \ aged))

NewSnapshots == SnapshotIds \ (Kept("ax") \cup Kept("semantic") \cup Pinned("ax") \cup Pinned("semantic"))

(* observe, and every snapshot an act or a form takes on its way              *)
Observe(k) ==
    /\ NewSnapshots # {}                                       (* bound              *)
    /\ LET s == CHOOSE s \in NewSnapshots : TRUE
       IN /\ items' = [items EXCEPT ![k] = Pruned(k, Append(Unexpired(k), s))]
          /\ aged' = aged \ {s}
    /\ UNCHANGED <<pins, act, recordVars>>

Ages(s) ==
    /\ s \in Kept("semantic") \ aged
    /\ aged' = aged \cup {s}
    /\ UNCHANGED <<items, pins, act, recordVars>>

(* get: whoever asks for a snapshot that is too old removes it, pinned or not *)
AskForOld(s) ==
    /\ s \in Kept("semantic") \cap aged
    /\ items' = [items EXCEPT !["semantic"] = Those(@, SnapshotIds \ {s})]
    /\ UNCHANGED <<pins, aged, act, recordVars>>

Free(a) == ~act[a].runs /\ replay[a] = NoReplay

(* agent_act with a reference into a snapshot                                 *)
ActPins(a, k, s) ==
    /\ Free(a)
    /\ s \in Kept(k)
    /\ k = "semantic" => s \notin aged
    /\ pins' = [pins EXCEPT ![k][s] = @ + 1]
    /\ act' = [act EXCEPT ![a] = [runs |-> TRUE, kind |-> k, pinned |-> s]]
    /\ UNCHANGED <<items, aged, recordVars>>

UnpinAll(k, s) == [pins EXCEPT ![k][s] = 0]                (* mutant of Unpin  *)

Unpin(k, s) == [pins EXCEPT ![k][s] = IF @ > 0 THEN @ - 1 ELSE 0]

ListensToAny(a) == replay[a].of # None                  (* mutant of Listens *)

(* A replay of the active recording iterates over the list that acts extend.  *)
Listens(a) == active # None /\ replay[a].of = active

Longer(n) == IF n < MaxSteps THEN n + 1 ELSE n          (* bound               *)

(* _record_agent_step, after an act that may itself be a step of a replay     *)
RecordStep(replayed) ==
    /\ steps' = [r \in Recordings |-> IF r = active THEN Longer(steps[r]) ELSE steps[r]]
    /\ replay' = [a \in Agents |->
          [replay[a] EXCEPT !.left = IF a \in replayed
                                     THEN IF Listens(a) THEN @ ELSE @ - 1
                                     ELSE IF Listens(a) THEN Longer(@) ELSE @]]

(* The act has been carried out, and is recorded, or has failed.              *)
ActEnds(a, ok) ==
    /\ act[a].runs
    /\ pins' = Unpin(act[a].kind, act[a].pinned)
    /\ act' = [act EXCEPT ![a] = NoAct]
    /\ IF ok THEN RecordStep({}) ELSE UNCHANGED <<steps, replay>>
    /\ UNCHANGED <<items, aged, active>>

(* agent_record; the recording that was active stays in the table.            *)
RecordStarts(r) ==
    /\ steps[r] = 0 /\ r # active
    /\ active' = r
    /\ UNCHANGED <<snapshotVars, act, steps, replay>>

RecordStops ==
    /\ active # None
    /\ active' = None
    /\ UNCHANGED <<snapshotVars, act, steps, replay>>

ReplayStarts(a, r) ==
    /\ Free(a)
    /\ steps[r] > 0
    /\ replay' = [replay EXCEPT ![a] = [of |-> r, left |-> steps[r]]]
    /\ UNCHANGED <<snapshotVars, act, active, steps>>

(* One recorded act, which pins nothing ...                                   *)
ReplayActs(a) ==
    /\ replay[a].left > 0
    /\ RecordStep({a})
    /\ UNCHANGED <<snapshotVars, act, active>>

(* ... or which fails, and may end the replay (stop_on_error).                *)
ReplayFails(a) ==
    /\ replay[a].left > 0
    /\ \E left \in {0, replay[a].left - 1} : replay' = [replay EXCEPT ![a].left = left]
    /\ UNCHANGED <<snapshotVars, act, active, steps>>

ReplayEnds(a) ==
    /\ replay[a] # NoReplay /\ replay[a].left = 0
    /\ replay' = [replay EXCEPT ![a] = NoReplay]
    /\ UNCHANGED <<snapshotVars, act, active, steps>>

AgentNext ==
    \/ \E k \in Kinds : Observe(k)
    \/ \E s \in SnapshotIds : Ages(s) \/ AskForOld(s)
    \/ \E a \in Agents :
         \/ \E k \in Kinds, s \in SnapshotIds : ActPins(a, k, s)
         \/ \E ok \in BOOLEAN : ActEnds(a, ok)
         \/ ReplayActs(a) \/ ReplayFails(a)
         \/ \E r \in Recordings : ReplayStarts(a, r)
         \/ ReplayEnds(a)
    \/ \E r \in Recordings : RecordStarts(r)
    \/ RecordStops

(* An act that was begun ends: every call to Chrome has a timeout.            *)
AgentFairness ==
    \A a \in Agents : WF_agentVars(ReplayActs(a) \/ ReplayFails(a) \/ ReplayEnds(a))

AgentSpec == AgentInit /\ [][AgentNext]_agentVars /\ AgentFairness

-----------------------------------------------------------------------------
(* The snapshot an act has pinned is in its table until the act ends,        *)
(* although others observe, and end acts that pinned the same one; only age  *)
(* can remove it (pin and unpin, _prune, _capture_accessibility_snapshot).   *)
PinnedKept ==
    \A a \in Agents : act[a].runs =>
        \/ act[a].pinned \in Kept(act[a].kind)
        \/ act[a].kind = "semantic" /\ act[a].pinned \in aged

(* A replay comes to its end, whatever is recorded meanwhile - into another  *)
(* recording: the replay of the recording that is active records its own     *)
(* steps behind the last one and need not end (agent_replay).                *)
ReplayTerminates ==
    \A a \in Agents : (replay[a] # NoReplay) ~> (replay[a] = NoReplay \/ active = replay[a].of)

=============================================================================
