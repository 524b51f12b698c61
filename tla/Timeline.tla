------------------------------ MODULE Timeline ------------------------------
(***************************************************************************)
(* What is kept of the operations that ran (run_timeline.py, main.py       *)
(* log_operation): the timeline, newest first, and the log, newest last,   *)
(* two rings of the same size that are filled together and cleared apart;  *)
(* what the recovery advice, the comparison and the launchpad make of      *)
(* them; and the artifacts operations leave on disk (artifact_store.py).   *)
(***************************************************************************)
EXTENDS Naturals, Sequences, SequencesExt, FiniteSets, Lists

CONSTANTS
    MaxRuns,        (* the timeline and the log keep this many (100)         *)
    LaunchpadRuns,  (* runs the launchpad looks at (20)                      *)
    Artifacts,      (* artifact ids                                          *)
    MaxRecorded     (* bound: operations recorded                            *)

ASSUME TimelineAssumption ==
    {MaxRuns, LaunchpadRuns, MaxRecorded} \subseteq Nat \ {0} /\ LaunchpadRuns <= MaxRuns

VARIABLES
    side,           (* what a behaviour is about: the runs or the artifacts  *)
    runs,           (* RunStore._runs                                        *)
    oplog,          (* operation_log                                         *)
    recorded,       (* operations recorded so far                            *)
    lastCleared,    (* the last one when the timeline was cleared            *)
    files,          (* the artifacts: [content, record, expired]             *)
    handedOut       (* artifacts whose id was answered                       *)

timelineVars == <<side, runs, oplog, recorded, lastCleared, files, handedOut>>

NoFile == [content |-> FALSE, record |-> FALSE, expired |-> FALSE]
TimelineInit ==
    /\ side \in {"runs", "artifacts"}
    /\ runs = <<>> /\ oplog = <<>> /\ recorded = 0 /\ lastCleared = 0
    /\ files = [a \in Artifacts |-> NoFile] /\ handedOut = {}

-----------------------------------------------------------------------------
(* What is told of an operation: it looks at the page, by its name, or acts  *)
(* on it; it succeeded or not; its result proves, refutes or leaves open     *)
(* what it was for (infer_verification).                                     *)
OperationKinds == {"look", "act"}
Verified(status, proof) ==
    IF status = "error" \/ proof = "none" THEN "unverified"
    ELSE IF proof = "yes" THEN "verified" ELSE "failed"

Record(run) == runs' = SubSeq(<<run>> \o runs, 1, IF Len(runs) < MaxRuns THEN Len(runs) + 1 ELSE MaxRuns)

(* log_operation.                                                            *)
LogOperation(op, status, proof) ==
    LET run == [id |-> recorded + 1, op |-> op, status |-> status,
                verification |-> Verified(status, proof)]
    IN
    /\ recorded < MaxRecorded /\ recorded' = recorded + 1
    /\ Record(run)
    /\ oplog' = IF Len(oplog) = MaxRuns THEN Append(Tail(oplog), run.id) ELSE Append(oplog, run.id)
    /\ UNCHANGED <<side, lastCleared, files, handedOut>>

ClearRuns ==
    /\ runs # <<>> /\ runs' = <<>> /\ lastCleared' = recorded
    /\ UNCHANGED <<side, oplog, recorded, files, handedOut>>

GetRun(id) == Those(runs, {r \in ToSet(runs) : r.id = id})
ListRuns(status, limit) ==
    LET S == Those(runs, {r \in ToSet(runs) : status = "any" \/ r.status = status})
    IN SubSeq(S, 1, IF limit < Len(S) THEN limit ELSE Len(S))

(* LogsSearch: the newest of the log.                                        *)
LogsSearch(limit) ==
    SubSeq(oplog, IF limit < Len(oplog) THEN Len(oplog) - limit + 1 ELSE 1, Len(oplog))

(* RecoveryAdvisor.advise: how safe it is to repeat a run.                   *)
Advise(run) ==
    IF run.verification = "failed" THEN "review"
    ELSE IF run.status = "error" THEN IF run.op = "look" THEN "safe" ELSE "review"
    ELSE IF run.verification = "unverified" THEN "review" ELSE "not_needed"

(* compare_runs.                                                             *)
Differences(a, b) == {f \in {"op", "status", "verification"} : a[f] # b[f]}

(* build_daily_launchpad: what it calls attention to, and the next action.   *)
NeedsAttention(s) ==
    Those(s, {r \in ToSet(s) : r.status = "error" \/ r.verification = "failed"})
NextAction(connected, active, saved) ==
    LET attention == NeedsAttention(ListRuns("any", LaunchpadRuns)) IN
    IF ~connected THEN "connect_browser"
    ELSE IF attention # <<>> THEN "review_failures"
    ELSE IF ~active THEN "choose_environment"
    ELSE IF saved THEN "run_workflow" ELSE "start_browser_task"

-----------------------------------------------------------------------------
(* put writes the content, then the record beside it, and answers; a write   *)
(* that fails, or the end of the process, leaves what was written.           *)
PutArtifact(a) ==
    /\ files[a] = NoFile
    /\ \/ /\ files' = [files EXCEPT ![a] = [NoFile EXCEPT !.content = TRUE, !.record = TRUE]]
          /\ handedOut' = handedOut \cup {a}
       \/ /\ files' = [files EXCEPT ![a] = [NoFile EXCEPT !.content = TRUE]]
          /\ UNCHANGED handedOut
    /\ UNCHANGED <<side, runs, oplog, recorded, lastCleared>>

Expires(a) ==
    /\ files[a].record /\ ~files[a].expired
    /\ files' = [files EXCEPT ![a].expired = TRUE]
    /\ UNCHANGED <<side, runs, oplog, recorded, lastCleared, handedOut>>

GetArtifact(a) == files[a].record /\ files[a].content

(* cleanup removes the content and then the record of what has expired, in   *)
(* the order of the records, and goes on with the next where one fails.      *)
CleanUp ==
    \E S, T \in SUBSET {a \in Artifacts : files[a].record /\ files[a].expired} :
        /\ T \subseteq S /\ S # {}
        /\ files' = [a \in Artifacts |->
              IF a \in T THEN [NoFile EXCEPT !.expired = TRUE]
              ELSE IF a \in S THEN [files[a] EXCEPT !.content = FALSE] ELSE files[a]]
        /\ UNCHANGED <<side, runs, oplog, recorded, lastCleared, handedOut>>

TimelineNext ==
    \/ /\ side = "runs"
       /\ \/ \E op \in OperationKinds, s \in {"success", "error"}, p \in {"yes", "no", "none"} :
               LogOperation(op, s, p)
          \/ ClearRuns
    \/ /\ side = "artifacts"
       /\ (\E a \in Artifacts : PutArtifact(a) \/ Expires(a)) \/ CleanUp

-----------------------------------------------------------------------------
TimelineTypeOK ==
    /\ Len(runs) <= MaxRuns /\ Len(oplog) <= MaxRuns
    /\ \A i \in DOMAIN oplog : oplog[i] \in 1..MaxRecorded
    /\ handedOut \subseteq Artifacts

(* The two rings keep the same operations: what the log tells of, in its     *)
(* order, is in the timeline in the other, unless the timeline was cleared   *)
(* since.  A run that may be repeated safely did not act; and a failure is   *)
(* called to attention until as many runs came after it as the launchpad     *)
(* looks at, whatever else could be done next.  An artifact whose id was     *)
(* answered is there until it has expired.                                   *)
TimelineHolds ==
    /\ Reverse(LogsSearch(MaxRuns)) = [i \in DOMAIN oplog |-> recorded + 1 - i]
    /\ runs = <<>> \/ runs[1].id = recorded
    /\ \A i \in DOMAIN oplog :
         oplog[i] > lastCleared <=> GetRun(oplog[i]) # <<>>
    /\ \A i \in DOMAIN runs :
         /\ runs[i].id = recorded + 1 - i
         /\ Advise(runs[i]) = "safe" => runs[i].op = "look" /\ runs[i].status = "error"
         /\ Advise(runs[i]) = "not_needed" => runs[i].status = "success"
         /\ i <= LaunchpadRuns /\ (runs[i].status = "error" \/ runs[i].verification = "failed") =>
              \A b \in BOOLEAN : NextAction(TRUE, b, b) = "review_failures"
         /\ \A j \in DOMAIN runs :
              Differences(runs[i], runs[j]) = {} => Advise(runs[i]) = Advise(runs[j])
    /\ \A a \in handedOut : files[a].expired \/ GetArtifact(a)

=============================================================================
