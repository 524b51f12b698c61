---------------------------- MODULE ChromeLaunch ----------------------------
(***************************************************************************)
(* How the one headed Chrome of the service is started, found again,       *)
(* watched and stopped: ChromeManager (src/src/chrome_manager.py) and the  *)
(* health watchdog of src/src/main.py.  Any request, the keep-warm task    *)
(* and the watchdog call launch(); the flag _launch_in_progress is to keep *)
(* two of them from starting a browser on one profile directory, and       *)
(* Chrome's own SingletonLock in that directory is the second guard.       *)
(*                                                                         *)
(* An action is a stretch of code between two awaits.  Time is not         *)
(* modelled: a deadline may pass at any moment, and the three probes of a  *)
(* watchdog tick are one.  A process id is used again once nothing but the *)
(* settings file names it.                                                 *)
(***************************************************************************)
EXTENDS Naturals, FiniteSets

CONSTANTS
    Watchdog,      (* the task _chrome_health_watchdog                        *)
    Requests,      (* requests that need a browser, and the task _keep_warm   *)
    Browsers,      (* Chrome processes on the profile directory               *)
    NoBrowser,
    FailTicks,     (* _FAIL_TICKS                                             *)
    Stalls         (* a browser that is up may leave a probe unanswered, ps may *)
                   (* fail                                                    *)

Launchers == Requests \cup {Watchdog}

ASSUME ChromeAssumption ==
    /\ Watchdog \notin Requests
    /\ NoBrowser \notin Browsers
    /\ FailTicks \in Nat \ {0}
    /\ Stalls \in BOOLEAN

VARIABLES
    launching,     (* _launch_in_progress                                     *)
    at,            (* per launcher: where its launch() has got to             *)
    found,         (* per launcher: the browser its process scan has seen     *)
    mine,          (* per launcher: the browser it has started                *)
    browser,       (* per process: gone, starting, serving DevTools, or       *)
                   (* ending, which it does in its own time                   *)
    singleton,     (* whose SingletonLock lies in the profile directory       *)
    process,       (* _process                                                *)
    pid,           (* _pid                                                    *)
    portKnown,     (* _port # 0                                               *)
    savedPort,     (* settings: chrome_launched_port # 0                      *)
    savedPid,      (* settings: chrome_pid                                    *)
    supervised,    (* processes with a running _supervise_chrome task         *)
    failedTicks,   (* _consecutive_failed_ticks                               *)
    foreign,       (* the configured port belongs to another program          *)
    slipped        (* history: a scan has missed a living Chrome, or three    *)
                   (* launches were past the flag together, and since then no *)
                   (* launch has begun by itself, with one Chrome at most     *)

managerVars == <<process, pid, portKnown, supervised>>
settingsVars == <<savedPort, savedPid>>
osVars == <<browser, singleton, foreign>>
taskVars == <<at, found, mine>>
chromeVars == <<launching, taskVars, osVars, managerVars, settingsVars, failedTicks, slipped>>

Stages == {"idle", "waiting", "listing", "listed", "relisting", "relisted",
           "warming"}

ChromeTypeOK ==
    /\ launching \in BOOLEAN
    /\ at \in [Launchers -> Stages]
    /\ found \in [Launchers -> Browsers \cup {NoBrowser}]
    /\ mine \in [Launchers -> Browsers \cup {NoBrowser}]
    /\ browser \in [Browsers -> {"gone", "starting", "serving", "ending"}]
    /\ singleton \in Browsers \cup {NoBrowser}
    /\ process \in Browsers \cup {NoBrowser}
    /\ pid \in Browsers \cup {NoBrowser}
    /\ portKnown \in BOOLEAN
    /\ savedPort \in BOOLEAN
    /\ savedPid \in Browsers \cup {NoBrowser}
    /\ supervised \subseteq Browsers
    /\ failedTicks \in 0..FailTicks - 1
    /\ foreign \in BOOLEAN
    /\ slipped \in BOOLEAN

ChromeInit ==
    /\ launching = FALSE
    /\ at = [l \in Launchers |-> "idle"]
    /\ found = [l \in Launchers |-> NoBrowser]
    /\ mine = [l \in Launchers |-> NoBrowser]
    /\ browser = [b \in Browsers |-> "gone"]
    /\ singleton = NoBrowser
    /\ process = NoBrowser
    /\ pid = NoBrowser
    /\ portKnown = FALSE
    /\ savedPort = FALSE
    /\ savedPid = NoBrowser
    /\ supervised = {}
    /\ failedTicks = 0
    /\ foreign \in BOOLEAN
    /\ slipped = FALSE

Serving == {b \in Browsers : browser[b] = "serving"}
OnProfile == {b \in Browsers : browser[b] \in {"serving", "ending"}}
Live == {b \in Browsers : browser[b] # "gone"}

(* A probe of the configured port, or of the port the settings name: what the *)
(* answer may be.  A Chrome that is ending answers or not.                    *)
Answers(reachable) ==
    IF ~reachable \/ OnProfile = {} THEN {FALSE}
    ELSE IF Serving = {} THEN BOOLEAN ELSE {TRUE, ~Stalls}
ConfiguredPort == ~foreign
SavedPort == savedPort \/ ~foreign

Goto(l, stage) == at' = [at EXCEPT ![l] = stage]

(***************************************************************************)
(* launch().                                                               *)
(***************************************************************************)
Searching == {l \in Launchers : at[l] \in {"listing", "listed", "relisting", "relisted"}}

(* A launch goes past the flag beside two others, or by itself.               *)
PastFlag ==
    slipped' = IF \E l, m \in Searching : l # m THEN TRUE
               ELSE IF Searching = {} /\ \A b, c \in Live : b = c THEN FALSE
               ELSE slipped

(* From the flag to the first process scan: a Chrome that answers on the      *)
(* configured port is taken as it is, and is not ours to own.                 *)
TakeOrScan(l) ==
    \E up \in Answers(ConfiguredPort) :
        IF up
        THEN /\ launching' = FALSE
             /\ pid' = NoBrowser
             /\ portKnown' = TRUE
             /\ savedPort' = TRUE
             /\ Goto(l, "idle")
             /\ UNCHANGED slipped
        ELSE /\ launching' = TRUE
             /\ Goto(l, "listing")
             /\ PastFlag
             /\ UNCHANGED <<pid, portKnown, savedPort>>

LaunchBegins(l) ==
    /\ at[l] = "idle"
    /\ IF launching
       THEN /\ Goto(l, "waiting")
            /\ UNCHANGED <<launching, pid, portKnown, savedPort, slipped>>
       ELSE TakeOrScan(l)
    /\ UNCHANGED <<found, mine, osVars, process, supervised, savedPid>>

Launch(l) == LaunchBegins(l) /\ UNCHANGED failedTicks

(* The launch waited for is over, or 30 s are; either way the port decides.   *)
(* Taking the browser of the other launch keeps _pid and clears the flag.     *)
WaitEnds(l) ==
    /\ at[l] = "waiting"
    /\ \/ \E up \in Answers(ConfiguredPort) :
            /\ up
            /\ launching' = FALSE
            /\ portKnown' = TRUE
            /\ savedPort' = TRUE
            /\ Goto(l, "idle")
            /\ UNCHANGED <<pid, slipped>>
       \/ /\ FALSE \in Answers(ConfiguredPort)
          /\ TakeOrScan(l)
    /\ UNCHANGED <<found, mine, osVars, process, supervised, savedPid, failedTicks>>

(* _find_chrome_with_profile in its thread: ps sees some live Chrome on the   *)
(* profile or that there is none, and a ps that fails or takes 5 s counts as  *)
(* none.                                                                      *)
Lists(l) ==
    /\ at[l] \in {"listing", "relisting"}
    /\ \E b \in Live \cup (IF Live = {} \/ Stalls THEN {NoBrowser} ELSE {}) :
         /\ found' = [found EXCEPT ![l] = b]
         /\ slipped' = (slipped \/ (b = NoBrowser /\ Live # {}))
    /\ Goto(l, IF at[l] = "listing" THEN "listed" ELSE "relisted")
    /\ UNCHANGED <<launching, mine, osVars, managerVars, settingsVars, failedTicks>>

(* The scan takes longer than _PROCESS_SCAN_TIMEOUT_S: launch() raises, and   *)
(* the flag it has set stays.                                                 *)
ListingTimesOut(l) ==
    /\ at[l] \in {"listing", "relisting"}
    /\ Goto(l, "idle")
    /\ UNCHANGED <<launching, found, mine, osVars, managerVars, settingsVars, failedTicks, slipped>>

ClearsNothing(l) ==                             (* mutant of ClearsSingleton  *)
    /\ at[l] = "listed"
    /\ found' = [found EXCEPT ![l] = NoBrowser]
    /\ Goto(l, "relisting")
    /\ UNCHANGED <<launching, mine, osVars, managerVars, settingsVars, failedTicks, slipped>>

(* The first scan is back: a lock nobody holds is removed, by that scan.      *)
ClearsSingleton(l) ==
    /\ at[l] = "listed"
    /\ singleton' = IF found[l] = NoBrowser THEN NoBrowser ELSE singleton
    /\ found' = [found EXCEPT ![l] = NoBrowser]
    /\ Goto(l, "relisting")
    /\ UNCHANGED <<launching, mine, browser, foreign, managerVars, settingsVars, failedTicks, slipped>>

Reuses(l) ==
    /\ at[l] = "relisted"
    /\ found[l] # NoBrowser
    /\ found' = [found EXCEPT ![l] = NoBrowser]
    /\ portKnown' = TRUE
    /\ pid' = NoBrowser
    /\ savedPort' = TRUE
    /\ launching' = FALSE
    /\ Goto(l, "idle")
    /\ UNCHANGED <<mine, osVars, process, supervised, savedPid, failedTicks, slipped>>

Unused(b) ==
    /\ browser[b] = "gone"
    /\ b \notin supervised \cup {process, pid, singleton}
    /\ \A l \in Launchers : b \notin {found[l], mine[l]}

(* The process gets an id that nothing refers to any more.                    *)
Fork(l) ==
    LET b == CHOOSE x \in Browsers : Unused(x)
    IN /\ \E x \in Browsers : Unused(x)
       /\ browser' = [browser EXCEPT ![b] = "starting"]
       /\ mine' = [mine EXCEPT ![l] = b]
       /\ process' = b
       /\ pid' = b
       /\ supervised' = supervised \cup {b}
       /\ portKnown' = TRUE
       /\ Goto(l, "warming")
       /\ UNCHANGED <<launching, found, singleton, foreign, settingsVars, failedTicks, slipped>>

SpawnsUnlisted(l) ==                                   (* mutant of Spawns    *)
    at[l] = "relisted" /\ Fork(l)

(* A new process, on the configured port or, if that is taken by another      *)
(* program, on a later one.                                                   *)
Spawns(l) ==
    /\ at[l] = "relisted"
    /\ found[l] = NoBrowser
    /\ Fork(l)

(* No free port, no executable, or the spawn raises.                          *)
SpawnFails(l) ==
    /\ at[l] = "relisted"
    /\ found[l] = NoBrowser
    /\ launching' = FALSE
    /\ Goto(l, "idle")
    /\ UNCHANGED <<found, mine, osVars, managerVars, settingsVars, failedTicks, slipped>>

(* DevTools answers or twenty polls have not seen it, and the extensions had  *)
(* their time to warm up: together some 15 s, in which a Chrome has come up   *)
(* or gone (bound).                                                           *)
LaunchEnds(l) ==
    /\ at[l] = "warming"
    /\ browser[mine[l]] # "starting"
    /\ savedPort' = TRUE
    /\ savedPid' = mine[l]
    /\ mine' = [mine EXCEPT ![l] = NoBrowser]
    /\ launching' = FALSE
    /\ Goto(l, "idle")
    /\ UNCHANGED <<found, osVars, managerVars, failedTicks, slipped>>

(***************************************************************************)
(* The processes, their supervisors, and stop().                           *)
(***************************************************************************)
(* Chrome creates the lock; if there is one, it hands off and exits.          *)
Starts(b) ==
    /\ browser[b] = "starting"
    /\ IF singleton = NoBrowser
       THEN /\ singleton' = b
            /\ browser' = [browser EXCEPT ![b] = "serving"]
       ELSE /\ browser' = [browser EXCEPT ![b] = "gone"]
            /\ UNCHANGED singleton
    /\ UNCHANGED <<launching, taskVars, foreign, managerVars, settingsVars, failedTicks, slipped>>

(* A crash leaves the lock behind, a clean exit removes it.  A Chrome that    *)
(* does not come up has served for no time at all.                            *)
Dies(b) ==
    /\ b \in Serving
    /\ browser' = [browser EXCEPT ![b] = "gone"]
    /\ singleton' \in IF singleton = b THEN {b, NoBrowser} ELSE {singleton}
    /\ UNCHANGED <<launching, taskVars, foreign, managerVars, settingsVars, failedTicks, slipped>>

(* A Chrome that was told to end removes its lock last.                       *)
ChromeEnds(b) ==
    /\ browser[b] = "ending"
    /\ browser' = [browser EXCEPT ![b] = "gone"]
    /\ singleton' = IF singleton = b THEN NoBrowser ELSE singleton
    /\ UNCHANGED <<launching, taskVars, foreign, managerVars, settingsVars, failedTicks, slipped>>

SupervisesAny(b) ==                                 (* mutant of Supervises   *)
    /\ b \in supervised
    /\ b \notin Live
    /\ supervised' = supervised \ {b}
    /\ process' = NoBrowser
    /\ pid' = NoBrowser
    /\ UNCHANGED <<launching, taskVars, osVars, portKnown, settingsVars, failedTicks, slipped>>

(* The supervisor clears the handle only if it is still that of its process.  *)
Supervises(b) ==
    /\ b \in supervised
    /\ b \notin Live
    /\ supervised' = supervised \ {b}
    /\ IF process = b
       THEN process' = NoBrowser /\ pid' = NoBrowser
       ELSE UNCHANGED <<process, pid>>
    /\ UNCHANGED <<launching, taskVars, osVars, portKnown, settingsVars, failedTicks, slipped>>

(* The process gets SIGTERM; one that has not come up goes at once.           *)
Killed == IF pid # NoBrowser THEN pid ELSE savedPid

Stop ==
    /\ pid # NoBrowser \/ portKnown
    /\ IF Killed \in Live
       THEN browser' = [browser EXCEPT ![Killed] = IF Killed \in OnProfile THEN "ending" ELSE "gone"]
       ELSE UNCHANGED browser
    /\ supervised' = supervised \ {process}
    /\ process' = NoBrowser
    /\ pid' = NoBrowser
    /\ portKnown' = FALSE
    /\ savedPort' = FALSE
    /\ savedPid' = NoBrowser
    /\ UNCHANGED <<launching, taskVars, singleton, foreign, failedTicks, slipped>>

(***************************************************************************)
(* A tick of the watchdog.                                                 *)
(***************************************************************************)
(* A launch under way counts as health.                                       *)
TickSeesHealth ==
    /\ at[Watchdog] = "idle"
    /\ launching \/ TRUE \in Answers(SavedPort)
    /\ failedTicks' = 0
    /\ UNCHANGED <<launching, taskVars, osVars, managerVars, settingsVars, slipped>>

TickDefersLonger ==                                        (* mutant of TickDefers *)
    /\ at[Watchdog] = "idle"
    /\ ~launching
    /\ FALSE \in Answers(SavedPort)
    /\ failedTicks < FailTicks
    /\ failedTicks' = failedTicks + 1
    /\ UNCHANGED <<launching, taskVars, osVars, managerVars, settingsVars, slipped>>

TickDefers ==
    /\ at[Watchdog] = "idle"
    /\ ~launching
    /\ FALSE \in Answers(SavedPort)
    /\ failedTicks + 1 < FailTicks
    /\ failedTicks' = failedTicks + 1
    /\ UNCHANGED <<launching, taskVars, osVars, managerVars, settingsVars, slipped>>

TickRelaunches ==
    /\ ~launching
    /\ FALSE \in Answers(SavedPort)
    /\ failedTicks + 1 >= FailTicks
    /\ LaunchBegins(Watchdog)
    /\ failedTicks' = 0

(* Whatever a launch that has begun does next.                                *)
LaunchGoesOn(l) ==
    \/ WaitEnds(l) \/ Lists(l) \/ ListingTimesOut(l)
    \/ ClearsSingleton(l) \/ Reuses(l) \/ Spawns(l) \/ SpawnFails(l)
    \/ LaunchEnds(l)

ChromeNext ==
    \/ \E l \in Requests : Launch(l)
    \/ \E l \in Launchers : LaunchGoesOn(l)
    \/ \E b \in Browsers : Starts(b) \/ Dies(b) \/ ChromeEnds(b) \/ Supervises(b)
    \/ Stop
    \/ TickSeesHealth \/ TickDefers \/ TickRelaunches

Tick == TickSeesHealth \/ TickDefers \/ TickRelaunches

(* Every wait of launch() has a bound, and Chrome decides about its lock.     *)
LaunchFairness ==
    /\ \A l \in Launchers : WF_chromeVars(LaunchGoesOn(l))
    /\ \A b \in Browsers : WF_chromeVars(Starts(b) \/ ChromeEnds(b) \/ Supervises(b))

ChromeSpec == ChromeInit /\ [][ChromeNext]_chromeVars /\ LaunchFairness /\ WF_chromeVars(Tick)

-----------------------------------------------------------------------------
(* The profile is not in use by two browsers, although a launch that has     *)
(* waited 30 s clears the flag of another and goes on beside it (launch).    *)
(* What lets a second one by is named, and only that: a ps that failed or    *)
(* took 5 s and so missed a Chrome that lives (_find_chrome_with_profile),   *)
(* or three launches past the flag at once, of which the second removes the  *)
(* lock of the Chrome of the first before the third starts its own.  Nor is  *)
(* there a second again once one launch alone has found at most one.         *)
OneBrowser == ~slipped => \A b, c \in OnProfile : b = c

(* The manager lets go of the handle of a Chrome that runs only in stop() or *)
(* for a new process: the supervisor of an earlier process, which ends when  *)
(* that one is long gone, must not clear it (_supervise_chrome).             *)
HandleKept ==
    [][(process \in Live /\ process' = NoBrowser) => (portKnown' = FALSE)]_chromeVars

(* One Chrome serves the profile, and its manager forgets it only together   *)
(* with its port (launch, _supervise_chrome).                                *)
ChromeHolds == HandleKept /\ []OneBrowser

(* A failed scan has left the flag set and nobody is launching.               *)
FlagLeft == launching /\ \A l \in Launchers : at[l] \in {"idle", "waiting"}

(* What people, Chrome and the operating system do against it.                *)
Disturbed ==
    \/ Stop
    \/ \E l \in Requests : Launch(l)
    \/ \E b \in Browsers : Dies(b)
    \/ \E l \in Launchers : ListingTimesOut(l) \/ SpawnFails(l)

(* A Chrome that died, or was never there, comes back without any request:   *)
(* once it is left in peace, the watchdog launches it, also over the lock of *)
(* a crashed one.  The one thing that keeps it from doing so is a flag left  *)
(* behind by a launch whose process scan timed out: every tick takes it for  *)
(* a launch under way (_chrome_health_watchdog).                             *)
Relaunched ==
    <>[][~Disturbed]_chromeVars =>
        (Serving = {} ~> (Serving # {} \/ FlagLeft))

=============================================================================
