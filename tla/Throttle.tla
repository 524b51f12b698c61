------------------------------ MODULE Throttle ------------------------------
(***************************************************************************)
(* Navigations on their way to Chrome: run_op (src/src/main.py) makes each *)
(* of them wait in the domain throttle (src/src/domain_throttle.py), which *)
(* sleeps under one lock for all sites, and then for _navigate_lock.       *)
(*                                                                         *)
(* Time is relative: `age` is the time since a site was last let through,  *)
(* up to Interval.  Both locks are asyncio.Lock, which serves its waiters  *)
(* in order.  A sleep ends when its time has come (bound: the event loop   *)
(* is never late).                                                         *)
(***************************************************************************)
EXTENDS Naturals, Sequences, FiniteSets

CONSTANTS
    Navigators,    (* requests that navigate, again and again                 *)
    Sites,         (* domains that are throttled                              *)
    Local,         (* localhost, or a URL without a domain                    *)
    Nobody,
    Interval       (* domain_min_interval_sec                                 *)

ASSUME ThrottleAssumption ==
    /\ Interval \in Nat \ {0}
    /\ IsFiniteSet(Navigators)
    /\ Local \notin Sites
    /\ Nobody \notin Navigators

VARIABLES
    nav,           (* per navigation: where it has got to                     *)
    site,          (* per navigation on its way: its domain                   *)
    age,           (* per site: time since _last, up to Interval              *)
    throttling,    (* who holds the throttle's lock                           *)
    throttled,     (* who waits for it                                        *)
    rest,          (* what is left of the holder's sleep                      *)
    navigating,    (* who holds _navigate_lock                                *)
    navQueue,      (* who waits for it                                        *)
    waited,        (* per navigation: time spent in the throttle (history)    *)
    queued,        (* per navigation: time spent in navQueue, up to Interval   *)
                   (* (history)                                               *)
    early          (* per site: for how long a load of it comes within the    *)
                   (* interval of the last one, less what that one queued     *)
                   (* (history)                                               *)

lockVars == <<throttling, throttled, rest>>
navigateVars == <<navigating, navQueue>>
paceVars == <<queued, early>>
throttleVars == <<nav, site, age, lockVars, navigateVars, waited, paceVars>>

ThrottleTypeOK ==
    /\ nav \in [Navigators -> {"idle", "throttle", "queue", "page"}]
    /\ site \in [Navigators -> Sites \cup {Local}]
    /\ age \in [Sites -> 0..Interval]
    /\ throttling \in Navigators \cup {Nobody}
    /\ throttled \in Seq(Navigators)
    /\ rest \in 0..Interval
    /\ navigating \in Navigators \cup {Nobody}
    /\ navQueue \in Seq(Navigators)
    /\ waited \in [Navigators -> Nat]
    /\ queued \in [Navigators -> 0..Interval]
    /\ early \in [Sites -> 0..Interval]

ThrottleInit ==
    /\ nav = [n \in Navigators |-> "idle"]
    /\ site = [n \in Navigators |-> Local]
    /\ age = [d \in Sites |-> Interval]
    /\ throttling = Nobody
    /\ throttled = <<>>
    /\ rest = 0
    /\ navigating = Nobody
    /\ navQueue = <<>>
    /\ waited = [n \in Navigators |-> 0]
    /\ queued = [n \in Navigators |-> 0]
    /\ early = [d \in Sites |-> 0]

(* Past the throttle: n queues for _navigate_lock.                            *)
GoesOn(n) ==
    /\ nav' = [nav EXCEPT ![n] = "queue"]
    /\ navQueue' = Append(navQueue, n)
    /\ UNCHANGED navigating

ArriveLocal(n) ==
    /\ nav[n] = "idle"
    /\ GoesOn(n)
    /\ UNCHANGED <<site, age, lockVars, waited, paceVars>>

Arrive(n, d) ==
    /\ nav[n] = "idle"
    /\ nav' = [nav EXCEPT ![n] = "throttle"]
    /\ site' = [site EXCEPT ![n] = d]
    /\ throttled' = Append(throttled, n)
    /\ UNCHANGED <<age, throttling, rest, navigateVars, waited, paceVars>>

RestElapsed(d) == age[d]                                  (* mutant of Rest   *)

RestSummed(d) == Interval + age[d]                        (* mutant of Rest   *)

(* How long the throttle makes a navigation to d sleep.                       *)
Rest(d) == Interval - age[d]

(* wait() from the lock to its sleep.                                         *)
LockTaken ==
    /\ throttling = Nobody
    /\ throttled # <<>>
    /\ throttling' = Head(throttled)
    /\ throttled' = Tail(throttled)
    /\ rest' = Rest(site[Head(throttled)])
    /\ UNCHANGED <<nav, site, age, navigateVars, waited, paceVars>>

(* The sleep, if there was any, is over: wait() stamps the site and returns.  *)
LetThrough ==
    /\ throttling # Nobody
    /\ rest = 0
    /\ age' = [age EXCEPT ![site[throttling]] = 0]
    /\ throttling' = Nobody
    /\ GoesOn(throttling)
    /\ waited' = [waited EXCEPT ![throttling] = 0]
    /\ UNCHANGED <<site, throttled, rest, paceVars>>

Later(t) == IF t < Interval THEN t + 1 ELSE Interval

(* One unit of time, in which no lock is idle that somebody waits for.        *)
TimePasses ==
    /\ IF throttling = Nobody THEN throttled = <<>> ELSE rest > 0
    /\ age' = [d \in Sites |-> Later(age[d])]
    /\ rest' = IF rest > 0 THEN rest - 1 ELSE 0
    /\ waited' = [n \in Navigators |-> IF nav[n] = "throttle" THEN waited[n] + 1 ELSE 0]
    /\ queued' = [n \in Navigators |-> IF nav[n] = "queue" THEN Later(queued[n]) ELSE queued[n]]
    /\ early' = [d \in Sites |-> IF early[d] > 0 THEN early[d] - 1 ELSE 0]
    /\ UNCHANGED <<nav, site, throttling, throttled, navigateVars>>

(* The lock is taken and the page starts to load.                             *)
NavigateStarts ==
    /\ navigating = Nobody
    /\ navQueue # <<>>
    /\ navigating' = Head(navQueue)
    /\ navQueue' = Tail(navQueue)
    /\ nav' = [nav EXCEPT ![Head(navQueue)] = "page"]
    /\ site' = [site EXCEPT ![Head(navQueue)] = Local]
    /\ early' = [d \in Sites |-> IF d = site[Head(navQueue)]
                               THEN Interval - queued[Head(navQueue)] ELSE early[d]]
    /\ queued' = [queued EXCEPT ![Head(navQueue)] = 0]
    /\ UNCHANGED <<age, lockVars, waited>>

(* The page has loaded, or navigate() failed.                                 *)
NavigateEnds ==
    /\ navigating # Nobody
    /\ nav' = [nav EXCEPT ![navigating] = "idle"]
    /\ navigating' = Nobody
    /\ UNCHANGED <<site, age, lockVars, navQueue, waited, paceVars>>

ThrottleNext ==
    \/ \E n \in Navigators : ArriveLocal(n) \/ \E d \in Sites : Arrive(n, d)
    \/ LockTaken \/ LetThrough \/ TimePasses
    \/ NavigateStarts \/ NavigateEnds

ThrottleSpec == ThrottleInit /\ [][ThrottleNext]_throttleVars

-----------------------------------------------------------------------------
(* No site is let through twice within the interval, however many requests   *)
(* arrive while one of them sleeps: the time is not looked at again after    *)
(* the sleep, only the lock keeps the others out (DomainThrottle.wait).      *)
LetThroughSpaced == LetThrough => age[site[throttling]] = Interval

(* Two loads of one site start an interval apart, except that the second may *)
(* come sooner by as long as the first was queued for _navigate_lock: the    *)
(* throttle (run_op) comes before that lock and stamps the site when it lets *)
(* a navigation go on, not when the load starts.  Nothing else shortens the  *)
(* distance, in whatever order sites and requests mix in the two queues.     *)
LoadsSpaced ==
    NavigateStarts => \A d \in Sites : site[Head(navQueue)] = d => early[d] = 0

(* No request waits in the throttle longer than one interval for each        *)
(* request that can be before it and one for itself, although the sleep of   *)
(* one site holds up all the others.                                         *)
WaitBounded == \A n \in Navigators : waited[n] <= Interval * Cardinality(Navigators)

(* All at once: a site is not hurried but for that, and nobody is held up    *)
(* for it longer than that takes (DomainThrottle.wait, run_op).              *)
Spaced == LetThroughSpaced /\ LoadsSpaced
ThrottleHolds == [][Spaced]_throttleVars /\ []WaitBounded

=============================================================================
