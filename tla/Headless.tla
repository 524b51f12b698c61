------------------------------ MODULE Headless ------------------------------
(***************************************************************************)
(* Headless sessions (src/src/headless_manager.py): a table of Chrome      *)
(* processes with a limit, a guard task that closes those that are too old *)
(* or too large, and the sweep of src/src/main.py that kills what an       *)
(* earlier life of the service has left behind.  The sweep runs in a       *)
(* thread, next to the event loop.                                         *)
(*                                                                         *)
(* An action is a stretch of code between two awaits (of the sweep: a      *)
(* system call).  Ports, profiles and fingerprints are left out.           *)
(***************************************************************************)
EXTENDS Naturals, FiniteSets

CONSTANTS
    HeadlessUsers, (* requests to /headless                                   *)
    Guard,         (* the task _timeout_guard                                 *)
    Procs,         (* headless Chrome processes                               *)
    NoProc,
    Aging,         (* bound: those whose sessions may pass their timeout      *)
    MaxHeadless    (* max_sessions                                            *)

HeadlessTasks == HeadlessUsers \cup {Guard}

ASSUME HeadlessAssumption ==
    /\ Guard \notin HeadlessUsers
    /\ NoProc \notin Procs
    /\ IsFiniteSet(HeadlessUsers) /\ IsFiniteSet(Procs)
    /\ Aging \subseteq Procs
    /\ MaxHeadless \in Nat \ {0}

VARIABLES
    status,        (* per process: the status of its handle in the table      *)
    alive,         (* processes that run                                      *)
    orphans,       (* those whose parent is init                              *)
    outlived,      (* sessions past session_timeout                           *)
    task,          (* per task: launching or closing, and which process       *)
    guardOn,       (* _timeout_task runs                                      *)
    toReap,        (* sessions the guard has found expired                    *)
    sweep          (* processes the sweep has listed and not looked at        *)

headlessVars == <<status, alive, orphans, outlived, task, guardOn, toReap, sweep>>

AtRest == [does |-> "idle", with |-> NoProc]

HeadlessTypeOK ==
    /\ status \in [Procs -> {"none", "active", "closing"}]
    /\ alive \subseteq Procs
    /\ orphans \subseteq Procs
    /\ outlived \subseteq Procs
    /\ task \in [HeadlessTasks -> [does : {"idle", "launch", "close"},
                                   with : Procs \cup {NoProc}]]
    /\ guardOn \in BOOLEAN
    /\ toReap \subseteq Procs
    /\ sweep \subseteq Procs

HeadlessInit ==
    /\ status = [p \in Procs |-> "none"]
    /\ alive = {} /\ orphans = {} /\ outlived = {}
    /\ task = [t \in HeadlessTasks |-> AtRest]
    /\ guardOn = FALSE
    /\ toReap = {}
    /\ sweep = {}

Active == {p \in Procs : status[p] = "active"}
Tabled == {p \in Procs : status[p] # "none"}
With(does) == {task[t].with : t \in {u \in HeadlessTasks : task[u].does = does}}

(* A process id is used again when nobody refers to it.                       *)
Spare == Procs \ (Tabled \cup alive \cup With("launch") \cup With("close") \cup toReap \cup sweep)

Begin(t, does, p) == task' = [task EXCEPT ![t] = [does |-> does, with |-> p]]
End(t) == task' = [task EXCEPT ![t] = AtRest]

LaunchUnchecked(u) ==                               (* mutant of HeadlessLaunch *)
    /\ task[u] = AtRest
    /\ Spare # {}
    /\ LET p == CHOOSE p \in Spare : TRUE
       IN alive' = alive \cup {p} /\ Begin(u, "launch", p)
    /\ UNCHANGED <<status, orphans, outlived, guardOn, toReap, sweep>>

(* launch_session: the limit is checked here, and the session counts when     *)
(* its browser answers.                                                       *)
HeadlessLaunch(u) ==
    /\ task[u] = AtRest
    /\ Cardinality(Active) < MaxHeadless
    /\ Spare # {}                                       (* bound              *)
    /\ LET p == CHOOSE p \in Spare : TRUE
       IN alive' = alive \cup {p} /\ Begin(u, "launch", p)
    /\ UNCHANGED <<status, orphans, outlived, guardOn, toReap, sweep>>

(* The port answers; whichever browser it is that has taken it.               *)
LaunchReady(u) ==
    /\ task[u].does = "launch"
    /\ status' = [status EXCEPT ![task[u].with] = "active"]
    /\ guardOn' = TRUE
    /\ End(u)
    /\ UNCHANGED <<alive, orphans, outlived, toReap, sweep>>

(* Twenty polls without an answer: the process is told to end (see Exits).    *)
LaunchGivesUp(u) ==
    /\ task[u].does = "launch"
    /\ End(u)
    /\ UNCHANGED <<status, alive, orphans, outlived, guardOn, toReap, sweep>>

CloseSession(t, p) ==
    /\ task[t] = AtRest
    /\ p \in Tabled
    /\ status' = [status EXCEPT ![p] = "closing"]
    /\ Begin(t, "close", p)
    /\ UNCHANGED <<alive, orphans, outlived, guardOn, sweep>>

UserCloses(u, p) == u \in HeadlessUsers /\ CloseSession(u, p) /\ UNCHANGED toReap

(* The process has exited, or 5 s have passed (and it exits later).           *)
SessionCloses(t) ==
    /\ task[t].does = "close"
    /\ status' = [status EXCEPT ![task[t].with] = "none"]
    /\ outlived' = outlived \ {task[t].with}
    /\ End(t)
    /\ UNCHANGED <<alive, orphans, guardOn, toReap, sweep>>

(* navigate() does not ask whether the session is being closed.               *)
NavigateSession(p) ==
    /\ status[p] = "closing"
    /\ status' = [status EXCEPT ![p] = "active"]
    /\ UNCHANGED <<alive, orphans, outlived, task, guardOn, toReap, sweep>>

Outlives(p) ==
    /\ p \in (Active \cap Aging) \ outlived
    /\ outlived' = outlived \cup {p}
    /\ UNCHANGED <<status, alive, orphans, task, guardOn, toReap, sweep>>

Exits(p) ==
    /\ p \in alive
    /\ alive' = alive \ {p}
    /\ orphans' = orphans \ {p}
    /\ UNCHANGED <<status, outlived, task, guardOn, toReap, sweep>>

GuardListsAlive ==                                   (* mutant of GuardLists  *)
    /\ guardOn
    /\ task[Guard] = AtRest /\ toReap = {}
    /\ toReap' = Active \cap outlived \cap alive
    /\ UNCHANGED <<status, alive, orphans, outlived, task, guardOn, sweep>>

(* The guard wakes up.                                                        *)
GuardLists ==
    /\ guardOn
    /\ task[Guard] = AtRest /\ toReap = {}
    /\ toReap' = Active \cap outlived
    /\ UNCHANGED <<status, alive, orphans, outlived, task, guardOn, sweep>>

(* close_session of a session that is gone already does nothing.              *)
GuardCloses(p) ==
    /\ task[Guard] = AtRest
    /\ p \in toReap
    /\ toReap' = toReap \ {p}
    /\ IF p \in Tabled
       THEN CloseSession(Guard, p)
       ELSE UNCHANGED <<status, alive, orphans, outlived, task, guardOn, sweep>>

(* The service ends and is started again: what runs now belongs to init.      *)
ServiceRestarts ==
    /\ status' = [p \in Procs |-> "none"]
    /\ orphans' = alive
    /\ outlived' = {}
    /\ task' = [t \in HeadlessTasks |-> AtRest]
    /\ guardOn' = FALSE
    /\ toReap' = {}
    /\ sweep' = {}
    /\ UNCHANGED alive

(* _reap_orphan_headless: list, leave out what the table holds ... (bound: a   *)
(* list without an orphan, of which none is killed, is left out)              *)
SweepListsAlive ==
    /\ sweep = {}
    /\ orphans # {}
    /\ sweep' = alive \ Tabled
    /\ UNCHANGED <<status, alive, orphans, outlived, task, guardOn, toReap>>

SweepKillsAny(p) ==                                  (* mutant of SweepKills  *)
    /\ p \in sweep
    /\ sweep' = sweep \ {p}
    /\ alive' = alive \ {p}
    /\ orphans' = orphans \ {p}
    /\ UNCHANGED <<status, outlived, task, guardOn, toReap>>

(* ... and kill, one after the other, those that have no parent.              *)
SweepKills(p) ==
    /\ p \in sweep
    /\ sweep' = sweep \ {p}
    /\ alive' = alive \ ({p} \cap orphans)
    /\ orphans' = orphans \ {p}
    /\ UNCHANGED <<status, outlived, task, guardOn, toReap>>

HeadlessNext ==
    \/ \E u \in HeadlessUsers : HeadlessLaunch(u) \/ LaunchReady(u) \/ LaunchGivesUp(u)
    \/ \E t \in HeadlessTasks : SessionCloses(t)
    \/ \E p \in Procs :
         \/ \E u \in HeadlessUsers : UserCloses(u, p)
         \/ NavigateSession(p) \/ Outlives(p) \/ Exits(p)
         \/ GuardCloses(p) \/ SweepKills(p)
    \/ GuardLists \/ ServiceRestarts \/ SweepListsAlive

(* The guard's timer and the watchdog's keep coming, and every wait ends.     *)
GuardDue ==
    (GuardLists /\ Active \cap outlived # {}) \/ \E p \in Procs : GuardCloses(p)
HeadlessFairness ==
    /\ WF_headlessVars(GuardDue)
    /\ \A t \in HeadlessTasks : WF_headlessVars(SessionCloses(t))

HeadlessSpec == HeadlessInit /\ [][HeadlessNext]_headlessVars /\ HeadlessFairness

-----------------------------------------------------------------------------
(* The limit is checked when a launch begins and the session is counted when *)
(* it ends, so launches that overlap exceed it - but never by more than      *)
(* there are requests at once, whatever is closed, restarted, or navigated   *)
(* while it is being closed (launch_session, navigate).                      *)
HeadlessBounded ==
    Cardinality((Active \ With("close")) \cup With("launch"))
        <= MaxHeadless - 1 + Cardinality(HeadlessUsers)

(* The sweep of the watchdog never kills the browser of a session, not even  *)
(* one that was launched, or taken into the table, after the sweep listed    *)
(* the processes (_reap_orphan_headless).                                    *)
SweepSparesHeadless ==
    [][\A p \in Procs :
         (SweepKills(p) /\ p \in alive \ alive') =>
             p \notin Tabled \cup With("launch")]_headlessVars

(* The pool neither outgrows its limit nor loses a browser to the sweep      *)
(* (launch_session, _reap_orphan_headless).                                  *)
HeadlessHolds == SweepSparesHeadless /\ []HeadlessBounded

(* A session past its timeout is closed in the end, although the guard works *)
(* from a list while others close and navigate, and whether its process      *)
(* still runs or not (_timeout_guard).                                       *)
OutlivedCloses ==
    \A p \in Procs : (p \in outlived ~> p \notin outlived)

=============================================================================
