------------------------------ MODULE Workspace ------------------------------
(***************************************************************************)
(* The operator's workspace (enterprise_workspace.py): leases of sessions  *)
(* on nodes under a tenant's quota, takeovers by a person, evaluations of  *)
(* a candidate over trials.  Everything is in one SQLite file that several *)
(* processes may have open.  A read takes no lock there: what an operation *)
(* read may have changed when it writes.  The three desks share nothing.   *)
(***************************************************************************)
EXTENDS Naturals, Sequences, FiniteSets

CONSTANTS
    Operators,     (* processes, and the persons that use them               *)
    NoOperator,    (* none                                                   *)
    WorkNodes,     (* nodes                                                  *)
    MaxQuota,      (* bound: sessions a quota allows                         *)
    MaxLeases,     (* bound: leases ever given, trials ever recorded         *)
    Threshold      (* what share of trials has to succeed, in percent        *)

ASSUME WorkspaceAssumption ==
    /\ {MaxQuota, MaxLeases} \subseteq Nat \ {0} /\ Threshold \in 0..100
    /\ NoOperator \notin Operators /\ IsFiniteSet(Operators) /\ Operators # {}

VARIABLES
    desk,          (* what a behaviour is about                              *)
    quota,         (* quotas: max_sessions of the tenant, 0 for none         *)
    highest,       (* the highest it ever was                                *)
    lost,          (* nodes that are LOST                                    *)
    leases,        (* sessions, in order: [node, checkpoint, state]          *)
    takeover,      (* takeovers: [state, claimant, expired]                  *)
    approver,      (* who approved, and whether it was overtaken meanwhile   *)
    trials,        (* trials: whether each succeeded                         *)
    verdict,       (* evaluations.state, and of how many trials              *)
    duty           (* what each operator is doing, and what it read          *)

workspaceVars == <<desk, quota, highest, lost, leases, takeover, approver, trials, verdict, duty>>

OffDuty == [does |-> "rest", read |-> 0, node |-> NoOperator, checkpoint |-> FALSE]
WorkspaceInit ==
    /\ desk \in {"leases", "takeover", "evaluation"}
    /\ quota = 0 /\ highest = 0 /\ lost = {} /\ leases = <<>>
    /\ takeover = [state |-> "NONE", claimant |-> NoOperator, expired |-> FALSE]
    /\ approver = [who |-> NoOperator, overtaken |-> FALSE]
    /\ trials = <<>> /\ verdict = [state |-> "RUNNING", of |-> 0]
    /\ duty = [o \in Operators |-> OffDuty]

otherDesks == <<desk, takeover, approver, trials, verdict>>

-----------------------------------------------------------------------------
SetQuota(n) ==
    /\ n > 0 /\ quota' = n /\ highest' = IF n > highest THEN n ELSE highest
    /\ UNCHANGED <<otherDesks, lost, leases, duty>>

(* lease_session: it counts, then inserts.                                   *)
TenantActive == {i \in DOMAIN leases : leases[i].state = "ACTIVE"}
Counts(o, n, ckpt) ==
    /\ duty[o].does = "rest"
    /\ quota > 0 /\ Cardinality(TenantActive) < quota
    /\ duty' = [duty EXCEPT ![o] = [OffDuty EXCEPT !.does = "leases", !.node = n, !.checkpoint = ckpt]]
    /\ UNCHANGED <<otherDesks, quota, highest, lost, leases>>
Leases(o) ==
    /\ duty[o].does = "leases" /\ Len(leases) < MaxLeases
    /\ leases' = Append(leases, [node |-> duty[o].node, checkpoint |-> duty[o].checkpoint,
                                 state |-> "ACTIVE"])
    /\ duty' = [duty EXCEPT ![o] = OffDuty]
    /\ UNCHANGED <<otherDesks, quota, highest, lost>>

(* mark_node_lost: a session without a checkpoint is beyond recovery.        *)
MarkNodeLost(n) ==
    /\ lost' = lost \cup {n}
    /\ leases' = [i \in DOMAIN leases |->
          IF leases[i].node # n THEN leases[i]
          ELSE [leases[i] EXCEPT !.state = IF leases[i].checkpoint THEN "RECOVERABLE" ELSE "FAILED"]]
    /\ UNCHANGED <<otherDesks, quota, highest, duty>>
RecoverySessions == {i \in DOMAIN leases : leases[i].state = "RECOVERABLE"}

-----------------------------------------------------------------------------
leaseDesk == <<desk, quota, highest, lost, leases>>

RequestTakeover ==
    /\ takeover.state = "NONE" /\ takeover' = [takeover EXCEPT !.state = "WAITING"]
    /\ UNCHANGED <<leaseDesk, approver, trials, verdict, duty>>
(* claim_takeover asks nothing of what the takeover was.                     *)
ClaimTakeover(o, expired) ==
    /\ takeover.state # "NONE"
    /\ takeover' = [state |-> "CLAIMED", claimant |-> o, expired |-> expired]
    /\ approver' = [who |-> NoOperator, overtaken |-> FALSE]
    /\ duty' = [p \in Operators |->
          IF duty[p].does = "approves" /\ o # p THEN [duty[p] EXCEPT !.read = 1] ELSE duty[p]]
    /\ UNCHANGED <<leaseDesk, trials, verdict>>
ClaimExpires ==
    /\ takeover.claimant # NoOperator /\ ~takeover.expired
    /\ takeover' = [takeover EXCEPT !.expired = TRUE]
    /\ UNCHANGED <<leaseDesk, approver, trials, verdict, duty>>
(* approve_takeover: it reads who holds the claim, then writes.              *)
MayApproveAny(o) == takeover.claimant # NoOperator      (* mutant of MayApprove *)
MayApprove(o) == takeover.claimant = o /\ ~takeover.expired
ReadsClaim(o) ==
    /\ duty[o].does = "rest" /\ MayApprove(o)
    /\ duty' = [duty EXCEPT ![o] = [OffDuty EXCEPT !.does = "approves"]]
    /\ UNCHANGED <<leaseDesk, takeover, approver, trials, verdict>>
Approves(o) ==
    /\ duty[o].does = "approves"
    /\ takeover' = [takeover EXCEPT !.state = "APPROVED"]
    /\ approver' = [who |-> o, overtaken |-> duty[o].read = 1]
    /\ duty' = [duty EXCEPT ![o] = OffDuty]
    /\ UNCHANGED <<leaseDesk, trials, verdict>>

-----------------------------------------------------------------------------
RecordTrial(success) ==
    /\ Len(trials) < MaxLeases /\ trials' = Append(trials, success)
    /\ UNCHANGED <<leaseDesk, takeover, approver, verdict, duty>>
(* evaluate: the share of the trials there are, none counting as failure;    *)
(* then the state.                                                           *)
Successes(ts) == Len(SelectSeq(ts, LAMBDA s : s))
Rate(n) == IF n = 0 THEN 0 ELSE (100 * Successes(SubSeq(trials, 1, n))) \div n
Passes(n) == Rate(n) >= Threshold
ReadsTrials(o) ==
    /\ duty[o].does = "rest"
    /\ duty' = [duty EXCEPT ![o] = [OffDuty EXCEPT !.does = "judges", !.read = Len(trials)]]
    /\ UNCHANGED <<leaseDesk, takeover, approver, trials, verdict>>
Judges(o) ==
    /\ duty[o].does = "judges"
    /\ verdict' = [state |-> IF Passes(duty[o].read) THEN "PASSED" ELSE "FAILED", of |-> duty[o].read]
    /\ duty' = [duty EXCEPT ![o] = OffDuty]
    /\ UNCHANGED <<leaseDesk, takeover, approver, trials>>

WorkspaceNext ==
    \/ /\ desk = "leases"
       /\ \/ \E n \in 1..MaxQuota : SetQuota(n)
          \/ \E n \in WorkNodes : MarkNodeLost(n) \/ \E o \in Operators, b \in BOOLEAN : Counts(o, n, b)
          \/ \E o \in Operators : Leases(o)
    \/ /\ desk = "takeover"
       /\ \/ RequestTakeover \/ ClaimExpires
          \/ \E o \in Operators : ReadsClaim(o) \/ Approves(o) \/ \E b \in BOOLEAN : ClaimTakeover(o, b)
    \/ /\ desk = "evaluation"
       /\ \/ \E b \in BOOLEAN : RecordTrial(b)
          \/ \E o \in Operators : ReadsTrials(o) \/ Judges(o)

-----------------------------------------------------------------------------
WorkspaceTypeOK ==
    /\ quota \in 0..highest /\ highest \in 0..MaxQuota /\ lost \subseteq WorkNodes
    /\ \A i \in DOMAIN leases : leases[i].state \in {"ACTIVE", "RECOVERABLE", "FAILED"}
    /\ takeover.state \in {"NONE", "WAITING", "CLAIMED", "APPROVED"}
    /\ verdict.state \in {"RUNNING", "PASSED", "FAILED"}

(* The tenant has no more sessions than its quota ever allowed and one for   *)
(* each operator but one, which may have counted before the others' leases.  *)
(* What recovery is offered is what had a checkpoint on a node that was      *)
(* lost.  A takeover is approved by its claimant, unless another claim came  *)
(* between the look at the claim and the approval.  A verdict is that on the *)
(* trials there were when they were read.                                    *)
WorkspaceHolds ==
    /\ Cardinality(TenantActive) <= highest + Cardinality(Operators) - 1
    /\ \A i \in DOMAIN leases :
          /\ i \in RecoverySessions <=> leases[i].checkpoint /\ leases[i].state # "ACTIVE"
          /\ leases[i].state # "ACTIVE" => leases[i].node \in lost
    /\ takeover.state = "APPROVED" =>
          /\ approver.who # NoOperator
          /\ takeover.claimant = approver.who \/ approver.overtaken
    /\ verdict.state # "RUNNING" =>
          verdict.of <= Len(trials) /\ (verdict.state = "PASSED" <=> Passes(verdict.of))

=============================================================================
