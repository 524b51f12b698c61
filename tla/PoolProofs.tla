----------------------------- MODULE PoolProofs -----------------------------
(***************************************************************************)
(* Theorems about what callers share: the throttle of the sites they       *)
(* visit, the tabs of a tool session, the pool of cloud browsers and the   *)
(* pool of proxies; and about what is stored for them: profiles, saved     *)
(* logins, recipes and workflows, run records and the memory.  For any     *)
(* number of callers and of what they share, and any bounds.               *)
(***************************************************************************)
EXTENDS ListProofs, Throttle, McpSession, CloudPool, ProxyPool,
        ProfileStore, SavedSessions, Catalogs, Timeline, MemoryStore

-----------------------------------------------------------------------------
(* Round robin.  The index points after the proxy given out last, and those  *)
(* given out before it stand before it, round the list.                      *)
Place(k, n) == IF k < nextIndex THEN nextIndex - k ELSE nextIndex - k + n
TurnsLaid ==
    LET free == Available(Proxies) IN
    turn # <<>> =>
      /\ nextIndex \in 1..Len(free)
      /\ \A k \in 0..(Len(free) - 1) :
           k < Len(turn) => turn[Len(turn) - k] = free[Place(k, Len(free))]
ProxyInv ==
    /\ ProxyTypeOK /\ NoneTwice(entries) /\ sidelined \cap enabled = {}
    /\ TurnsLaid /\ RoundRobinEven

-----------------------------------------------------------------------------
(* Throttle.                                                                 *)
Held == throttling # Nobody
Allowed == Interval * Cardinality(Navigators)

(* Nobody waits twice.                                                       *)
Distinct(queue) ==
    \A i, j \in 1..Len(queue) : queue[i] = queue[j] => i = j

(* A navigation is in the throttle when it holds its lock or waits for it,   *)
(* and knows its site.                                                       *)
InThrottle ==
    /\ Distinct(throttled)
    /\ \A i \in 1..Len(throttled) :
         /\ throttled[i] # throttling
         /\ nav[throttled[i]] = "throttle" /\ site[throttled[i]] \in Sites
    /\ Held => nav[throttling] = "throttle" /\ site[throttling] \in Sites
    /\ \A n \in Navigators :
         nav[n] = "throttle" =>
            n = throttling \/ \E i \in 1..Len(throttled) : throttled[i] = n

(* One that waits for _navigate_lock or holds it is past the throttle.       *)
PastThrottle ==
    /\ Distinct(navQueue)
    /\ \A i \in 1..Len(navQueue) : nav[navQueue[i]] = "queue"
    /\ navigating # Nobody => nav[navigating] = "page"

(* The holder's sleep ends when its site's interval does.                    *)
SleepsInterval ==
    IF Held THEN rest + age[site[throttling]] = Interval ELSE rest = 0

(* Whoever waits has one interval left for each request before it.           *)
WithinAllowance ==
    /\ \A n \in Navigators : nav[n] # "throttle" => waited[n] = 0
    /\ Held => waited[throttling] + rest <= Allowed
    /\ \A i \in 1..Len(throttled) :
         waited[throttled[i]] + rest + Interval * i <= Allowed

(* Where several of a site wait for _navigate_lock, all but the last have    *)
(* waited the interval, so their loads take nothing off it.                  *)
LoadsPaced ==
    /\ \A n \in Navigators : nav[n] # "queue" => queued[n] = 0
    /\ \A n \in Navigators : nav[n] \in {"idle", "page"} => site[n] = Local
    /\ \A d \in Sites : early[d] + age[d] <= Interval
    /\ \A i \in 1..Len(navQueue) :
         site[navQueue[i]] \in Sites =>
            age[site[navQueue[i]]] <= queued[navQueue[i]] /\ early[site[navQueue[i]]] = 0
    /\ \A i, k \in 1..Len(navQueue) :
         (i < k /\ site[navQueue[i]] = site[navQueue[k]] /\ site[navQueue[k]] \in Sites) =>
            queued[navQueue[i]] = Interval

ThrottleInv ==
    /\ ThrottleTypeOK /\ InThrottle /\ PastThrottle
    /\ SleepsInterval /\ WithinAllowance /\ LoadsPaced

-----------------------------------------------------------------------------
(* Queues. *)

(* A newcomer goes to the end of a queue, and does not wait twice.           *)
LEMMA Joined ==
    ASSUME NEW S, NEW q \in Seq(S), NEW x \in S, Distinct(q),
           \A i \in 1..Len(q) : q[i] # x
    PROVE  /\ Append(q, x) \in Seq(S) /\ Len(Append(q, x)) = Len(q) + 1
           /\ \A i \in 1..Len(q) : Append(q, x)[i] = q[i]
           /\ Append(q, x)[Len(q) + 1] = x
           /\ Distinct(Append(q, x))
<1>1. /\ Append(q, x) \in Seq(S) /\ Len(Append(q, x)) = Len(q) + 1 /\ Len(q) \in Nat
      /\ \A i \in 1..Len(q) : Append(q, x)[i] = q[i]
      /\ Append(q, x)[Len(q) + 1] = x
  OBVIOUS
<1>2. Distinct(Append(q, x))
  BY <1>1 DEF Distinct
<1>3. QED
  BY <1>1, <1>2

(* The first of a queue leaves it; the others move up.                       *)
LEMMA Served ==
    ASSUME NEW S, NEW q \in Seq(S), Distinct(q), q # <<>>
    PROVE  /\ Head(q) = q[1] /\ Head(q) \in S /\ 1 \in 1..Len(q)
           /\ Tail(q) \in Seq(S) /\ Len(Tail(q)) = Len(q) - 1 /\ Len(q) \in Nat \ {0}
           /\ \A i \in 1..Len(Tail(q)) :
                i + 1 \in 1..Len(q) /\ Tail(q)[i] = q[i + 1] /\ Tail(q)[i] # Head(q)
           /\ Distinct(Tail(q))
<1>1. /\ Head(q) = q[1] /\ Head(q) \in S /\ 1 \in 1..Len(q)
      /\ Tail(q) \in Seq(S) /\ Len(Tail(q)) = Len(q) - 1 /\ Len(q) \in Nat \ {0}
      /\ \A i \in 1..Len(Tail(q)) : i + 1 \in 1..Len(q) /\ Tail(q)[i] = q[i + 1]
  OBVIOUS
<1>2. \A i \in 1..Len(Tail(q)) : Tail(q)[i] # Head(q)
  BY <1>1 DEF Distinct
<1>3. Distinct(Tail(q))
  BY <1>1 DEF Distinct
<1>4. QED
  BY <1>1, <1>2, <1>3

(* A queue in which nobody waits twice is no longer than there are waiters.  *)
LEMMA QueueLength ==
    ASSUME NEW S, IsFiniteSet(S), NEW q \in Seq(S), Distinct(q)
    PROVE  Len(q) <= Cardinality(S)
<1>0. Len(q) \in Nat /\ 1 \in Int /\ Len(q) \in Int
  OBVIOUS
<1>1. q \in Injection(1..Len(q), S)
  BY DEF Distinct, Injection, IsInjective
<1>2. Cardinality(1..Len(q)) <= Cardinality(S)
  BY <1>1, FS_Injection
<1>3. Cardinality(1..Len(q)) = Len(q)
  <2>1. Cardinality(1..Len(q)) = IF 1 > Len(q) THEN 0 ELSE Len(q) - 1 + 1
    BY <1>0, FS_Interval
  <2>2. QED
    BY <1>0, <2>1
<1>4. QED
  BY <1>2, <1>3

-----------------------------------------------------------------------------
(* Every step keeps the types, given the rest of the invariant.              *)
LEMMA ThrottleTypeStep ==
    ASSUME ThrottleInv, [ThrottleNext]_throttleVars
    PROVE  ThrottleTypeOK'
<1> USE ThrottleAssumption DEF ThrottleTypeOK, lockVars, navigateVars, paceVars
<1>0. ThrottleTypeOK /\ InThrottle /\ PastThrottle
  BY DEF ThrottleInv
<1>1. ASSUME NEW n \in Navigators, ArriveLocal(n)
      PROVE  ThrottleTypeOK'
  BY <1>0, <1>1 DEF ArriveLocal, GoesOn
<1>2. ASSUME NEW n \in Navigators, NEW d \in Sites, Arrive(n, d)
      PROVE  ThrottleTypeOK'
  BY <1>0, <1>2 DEF Arrive
<1>3. CASE LockTaken
  <2>1. /\ Head(throttled) \in Navigators /\ Tail(throttled) \in Seq(Navigators)
        /\ site[Head(throttled)] \in Sites
    BY <1>0, <1>3, Served DEF LockTaken, InThrottle
  <2>2. Rest(site[Head(throttled)]) \in 0..Interval
    BY <1>0, <2>1 DEF Rest
  <2>3. QED
    BY <1>0, <1>3, <2>1, <2>2 DEF LockTaken
<1>4. CASE LetThrough
  <2>1. throttling \in Navigators /\ throttling' = Nobody /\ UNCHANGED <<throttled, rest, navigating>>
    BY <1>0, <1>4 DEF LetThrough, GoesOn
  <2>2. navQueue' \in Seq(Navigators) /\ nav' \in [Navigators -> {"idle", "throttle", "queue", "page"}]
    BY <1>0, <1>4, <2>1 DEF LetThrough, GoesOn
  <2>3. age' \in [Sites -> 0..Interval]
    BY <1>0, <1>4 DEF LetThrough
  <2>4. site' \in [Navigators -> Sites \cup {Local}] /\ waited' \in [Navigators -> Nat]
    BY <1>0, <1>4 DEF LetThrough
  <2>5. UNCHANGED <<queued, early>>
    BY <1>4 DEF LetThrough
  <2>6. QED
    BY <1>0, <2>1, <2>2, <2>3, <2>4, <2>5
<1>5. CASE TimePasses
  BY <1>0, <1>5 DEF TimePasses, Later
<1>6. CASE NavigateStarts
  <2>1. Head(navQueue) \in Navigators /\ Tail(navQueue) \in Seq(Navigators)
    BY <1>0, <1>6, Served DEF NavigateStarts, PastThrottle
  <2>2. Interval - queued[Head(navQueue)] \in 0..Interval
    BY <1>0, <2>1
  <2>3. /\ early' \in [Sites -> 0..Interval] /\ queued' \in [Navigators -> 0..Interval]
        /\ navQueue' \in Seq(Navigators) /\ navigating' \in Navigators
    BY <1>0, <1>6, <2>1, <2>2 DEF NavigateStarts
  <2>4. /\ nav' \in [Navigators -> {"idle", "throttle", "queue", "page"}]
        /\ site' \in [Navigators -> Sites \cup {Local}]
    BY <1>0, <1>6, <2>1 DEF NavigateStarts
  <2>5. UNCHANGED <<age, throttling, throttled, rest, waited>>
    BY <1>6 DEF NavigateStarts
  <2>6. QED
    BY <1>0, <2>3, <2>4, <2>5
<1>7. CASE NavigateEnds
  BY <1>0, <1>7 DEF NavigateEnds
<1>8. CASE UNCHANGED throttleVars
  BY <1>0, <1>8 DEF throttleVars
<1>9. QED
  BY <1>1, <1>2, <1>3, <1>4, <1>5, <1>6, <1>7, <1>8 DEF ThrottleNext

(* Who is in the throttle stays in its queue or holds its lock.              *)
LEMMA InThrottleStep ==
    ASSUME ThrottleInv, [ThrottleNext]_throttleVars
    PROVE  InThrottle'
<1> USE ThrottleAssumption DEF InThrottle, Held, lockVars, navigateVars
<1>a. InThrottle /\ PastThrottle /\ ThrottleTypeOK
  BY DEF ThrottleInv
<1>b. /\ throttled \in Seq(Navigators) /\ navQueue \in Seq(Navigators)
      /\ nav \in [Navigators -> {"idle", "throttle", "queue", "page"}]
      /\ site \in [Navigators -> Sites \cup {Local}]
      /\ throttling \in Navigators \cup {Nobody}
      /\ navigating \in Navigators \cup {Nobody}
  BY ONLY <1>a DEF ThrottleTypeOK
<1>c. /\ \A i \in 1..Len(throttled) : throttled[i] \in Navigators
      /\ \A i \in 1..Len(navQueue) : navQueue[i] \in Navigators
  BY ONLY <1>b
<1>0. /\ InThrottle /\ PastThrottle
      /\ nav \in [Navigators -> {"idle", "throttle", "queue", "page"}]
      /\ site \in [Navigators -> Sites \cup {Local}]
      /\ throttled \in Seq(Navigators) /\ navQueue \in Seq(Navigators)
      /\ \A i \in 1..Len(throttled) : throttled[i] \in Navigators
      /\ \A i \in 1..Len(navQueue) : navQueue[i] \in Navigators
      /\ throttling \in Navigators \cup {Nobody}
      /\ navigating \in Navigators \cup {Nobody}
  BY <1>a, <1>b, <1>c
(* Steps of navigations that are not in the throttle.                        *)
<1>1. ASSUME NEW n \in Navigators, nav[n] # "throttle", NEW at, at # "throttle",
             nav' = [nav EXCEPT ![n] = at], \A x \in Navigators \ {n} : site'[x] = site[x],
             UNCHANGED <<throttling, throttled>>
      PROVE  InThrottle'
  <2>1. \A x \in Navigators : nav[x] = "throttle" => nav'[x] = "throttle"
    BY <1>0, <1>1
  <2>2. \A x \in Navigators : nav'[x] = "throttle" => nav[x] = "throttle"
    BY <1>0, <1>1
  <2>3. QED
    BY <1>0, <1>1, <2>1, <2>2
<1>2. ASSUME NEW n \in Navigators, ArriveLocal(n)
      PROVE  InThrottle'
  BY <1>1, <1>2 DEF ArriveLocal, GoesOn
<1>3. ASSUME NEW n \in Navigators, NEW d \in Sites, Arrive(n, d)
      PROVE  InThrottle'
  <2>1. \A i \in 1..Len(throttled) : throttled[i] # n
    BY <1>0, <1>3 DEF Arrive
  <2>2. /\ Len(throttled') = Len(throttled) + 1 /\ Len(throttled) \in Nat
        /\ \A i \in 1..Len(throttled) : throttled'[i] = throttled[i]
        /\ throttled'[Len(throttled) + 1] = n
        /\ Distinct(throttled')
    BY <1>0, <1>3, <2>1, Joined DEF Arrive
  <2>3. nav'[n] = "throttle" /\ site'[n] = d /\ throttling' = throttling /\ n # throttling
    BY <1>0, <1>3 DEF Arrive
  <2>4. \A x \in Navigators \ {n} : nav'[x] = nav[x] /\ site'[x] = site[x]
    BY <1>0, <1>3 DEF Arrive
  <2>5. \A i \in 1..Len(throttled') :
          /\ throttled'[i] # throttling'
          /\ nav'[throttled'[i]] = "throttle" /\ site'[throttled'[i]] \in Sites
    BY <1>0, <2>1, <2>2, <2>3, <2>4
  <2>6. \A x \in Navigators : nav'[x] = "throttle" =>
          x = throttling' \/ \E i \in 1..Len(throttled') : throttled'[i] = x
    <3>1. Len(throttled) + 1 \in 1..Len(throttled')
      BY <2>2
    <3>2. \A i \in 1..Len(throttled) : i \in 1..Len(throttled')
      BY <2>2
    <3>3. ASSUME NEW x \in Navigators \ {n}, nav'[x] = "throttle"
          PROVE  x = throttling' \/ \E i \in 1..Len(throttled') : throttled'[i] = x
      BY <1>0, <2>2, <2>3, <2>4, <3>2, <3>3
    <3>4. QED
      BY <2>2, <3>1, <3>3
  <2>7. QED
    BY <1>0, <2>2, <2>3, <2>4, <2>5, <2>6
<1>4. CASE LockTaken
  <2>1. /\ Distinct(throttled') /\ throttling' = throttled[1] /\ 1 \in 1..Len(throttled)
        /\ Len(throttled') = Len(throttled) - 1 /\ Len(throttled) \in Nat
        /\ \A i \in 1..Len(throttled') :
             i + 1 \in 1..Len(throttled) /\ throttled'[i] = throttled[i + 1]
               /\ throttled'[i] # throttling'
    BY <1>0, <1>4, Served DEF LockTaken
  <2>2. UNCHANGED <<nav, site>> /\ throttling = Nobody
    BY <1>4 DEF LockTaken
  <2>3. \A x \in Navigators : nav[x] = "throttle" =>
          x = throttling' \/ \E i \in 1..Len(throttled') : throttled'[i] = x
    <3>1. ASSUME NEW i \in 1..Len(throttled)
          PROVE  throttled[i] = throttling' \/ \E k \in 1..Len(throttled') : throttled'[k] = throttled[i]
      <4>1. CASE i = 1
        BY <2>1, <4>1
      <4>2. CASE i # 1
        <5>1. i - 1 \in 1..Len(throttled') /\ (i - 1) + 1 = i
          BY <2>1, <4>2
        <5>2. QED
          BY <2>1, <5>1
      <4>3. QED
        BY <4>1, <4>2
    <3>2. QED
      BY <1>0, <2>2, <3>1
  <2>4. nav[throttling'] = "throttle" /\ site[throttling'] \in Sites
    BY <1>0, <2>1
  <2>5. \A i \in 1..Len(throttled') :
          nav[throttled'[i]] = "throttle" /\ site[throttled'[i]] \in Sites
    <3>1. ASSUME NEW i \in 1..Len(throttled')
          PROVE  nav[throttled[i + 1]] = "throttle" /\ site[throttled[i + 1]] \in Sites
      <4>1. i + 1 \in 1..Len(throttled)
        BY <2>1
      <4>2. QED
        BY <1>0, <4>1
    <3>2. QED
      BY <2>1, <3>1
  <2>6. QED
    BY <2>1, <2>2, <2>3, <2>4, <2>5
<1>5. CASE LetThrough
  <2>1. /\ nav'[throttling] = "queue" /\ throttling' = Nobody /\ throttled' = throttled
        /\ \A x \in Navigators \ {throttling} : nav'[x] = nav[x] /\ site'[x] = site[x]
    BY <1>0, <1>5 DEF LetThrough, GoesOn
  <2>2. throttling \in Navigators /\ throttling' \notin Navigators
        /\ \A i \in 1..Len(throttled) : throttled[i] \in Navigators \ {throttling}
    BY <1>0, <1>5, <2>1 DEF LetThrough, ThrottleInv, ThrottleTypeOK
  <2>3. Distinct(throttled') /\ ~(throttling' # Nobody)
    BY <1>0, <2>1
  <2>4. \A i \in 1..Len(throttled') :
          /\ throttled'[i] # throttling'
          /\ nav'[throttled'[i]] = "throttle" /\ site'[throttled'[i]] \in Sites
    BY <1>0, <2>1, <2>2
  <2>5. ASSUME NEW n \in Navigators, nav'[n] = "throttle"
        PROVE  n = throttling' \/ \E i \in 1..Len(throttled') : throttled'[i] = n
    <3>1. n # throttling
      BY <2>1, <2>5
    <3>2. nav[n] = "throttle"
      BY <2>1, <2>5, <3>1
    <3>3. PICK i \in 1..Len(throttled) : throttled[i] = n
      BY <1>0, <3>1, <3>2
    <3>4. QED
      BY <2>1, <3>3
  <2>6. QED
    BY <2>3, <2>4, <2>5
<1>6. CASE NavigateStarts
  <2>1. Head(navQueue) \in Navigators /\ nav[Head(navQueue)] = "queue"
    BY <1>0, <1>6, Served DEF NavigateStarts, PastThrottle
  <2>2. \A x \in Navigators \ {Head(navQueue)} : site'[x] = site[x]
    BY <1>0, <1>6 DEF NavigateStarts
  <2>3. QED
    BY <1>1, <1>6, <2>1, <2>2 DEF NavigateStarts
<1>7. CASE NavigateEnds
  BY <1>0, <1>1, <1>7 DEF NavigateEnds, PastThrottle
<1>8. CASE TimePasses \/ UNCHANGED throttleVars
  BY <1>0, <1>8 DEF TimePasses, throttleVars
<1>9. QED
  BY <1>2, <1>3, <1>4, <1>5, <1>6, <1>7, <1>8 DEF ThrottleNext

(* Who is past the throttle stays so until its page has loaded.              *)
LEMMA PastThrottleStep ==
    ASSUME ThrottleInv, [ThrottleNext]_throttleVars
    PROVE  PastThrottle'
<1> USE ThrottleAssumption DEF PastThrottle, lockVars, navigateVars
<1>0. /\ PastThrottle
      /\ nav \in [Navigators -> {"idle", "throttle", "queue", "page"}]
      /\ navQueue \in Seq(Navigators)
      /\ \A i \in 1..Len(navQueue) : navQueue[i] \in Navigators
      /\ throttling \in Navigators \cup {Nobody}
      /\ navigating \in Navigators \cup {Nobody}
      /\ throttling # Nobody => nav[throttling] = "throttle"
  BY DEF ThrottleInv, ThrottleTypeOK, InThrottle, Held
(* Joining the queue from outside.                                           *)
<1>1. ASSUME NEW n \in Navigators, nav[n] \in {"idle", "throttle"}, GoesOn(n)
      PROVE  PastThrottle'
  <2>1. \A i \in 1..Len(navQueue) : navQueue[i] # n
    BY <1>0, <1>1
  <2>2. /\ Len(navQueue') = Len(navQueue) + 1 /\ Len(navQueue) \in Nat
        /\ \A i \in 1..Len(navQueue) : navQueue'[i] = navQueue[i]
        /\ navQueue'[Len(navQueue) + 1] = n
        /\ Distinct(navQueue')
    BY <1>0, <1>1, <2>1, Joined DEF GoesOn
  <2>3. nav'[n] = "queue" /\ \A x \in Navigators \ {n} : nav'[x] = nav[x]
    BY <1>0, <1>1 DEF GoesOn
  <2>4. \A i \in 1..Len(navQueue') : nav'[navQueue'[i]] = "queue"
    BY <1>0, <2>1, <2>2, <2>3
  <2>5. QED
    BY <1>0, <1>1, <2>2, <2>3, <2>4 DEF GoesOn
<1>2. ASSUME NEW n \in Navigators, ArriveLocal(n)
      PROVE  PastThrottle'
  BY <1>1, <1>2 DEF ArriveLocal
<1>3. ASSUME NEW n \in Navigators, NEW d \in Sites, Arrive(n, d)
      PROVE  PastThrottle'
  BY <1>0, <1>3 DEF Arrive
<1>4. CASE LetThrough
  BY <1>0, <1>1, <1>4 DEF LetThrough
<1>5. CASE NavigateStarts
  <2>1. /\ Head(navQueue) \in Navigators /\ Distinct(navQueue')
        /\ Len(navQueue') = Len(navQueue) - 1 /\ Len(navQueue) \in Nat
        /\ \A i \in 1..Len(navQueue') :
             i + 1 \in 1..Len(navQueue) /\ navQueue'[i] = navQueue[i + 1]
               /\ navQueue'[i] # Head(navQueue)
    BY <1>0, <1>5, Served DEF NavigateStarts
  <2>2. \A x \in Navigators \ {Head(navQueue)} : nav'[x] = nav[x]
    BY <1>0, <1>5 DEF NavigateStarts
  <2>3. ASSUME NEW i \in 1..Len(navQueue')
        PROVE  nav'[navQueue'[i]] = "queue"
    <3>1. i + 1 \in 1..Len(navQueue) /\ navQueue'[i] = navQueue[i + 1]
            /\ navQueue'[i] # Head(navQueue)
      BY <2>1
    <3>2. QED
      BY <1>0, <2>2, <3>1
  <2>4. navigating' = Head(navQueue) /\ nav'[Head(navQueue)] = "page"
    BY <1>0, <1>5, <2>1 DEF NavigateStarts
  <2>5. QED
    BY <2>1, <2>3, <2>4
<1>6. CASE NavigateEnds
  BY <1>0, <1>6 DEF NavigateEnds
<1>7. CASE LockTaken \/ TimePasses \/ UNCHANGED throttleVars
  BY <1>0, <1>7 DEF LockTaken, TimePasses, throttleVars
<1>8. QED
  BY <1>2, <1>3, <1>4, <1>5, <1>6, <1>7 DEF ThrottleNext

(* Nobody but the holder of the lock is let through, so what the holder has  *)
(* still to sleep and the age of its site go on adding up to the interval.   *)
LEMMA SleepsIntervalStep ==
    ASSUME ThrottleInv, [ThrottleNext]_throttleVars
    PROVE  SleepsInterval'
<1> USE ThrottleAssumption DEF SleepsInterval, Held, lockVars, navigateVars
<1>0. /\ ThrottleTypeOK /\ InThrottle /\ SleepsInterval
      /\ site \in [Navigators -> Sites \cup {Local}]
      /\ age \in [Sites -> 0..Interval] /\ rest \in 0..Interval
      /\ throttling \in Navigators \cup {Nobody}
      /\ throttled \in Seq(Navigators)
      /\ Held => nav[throttling] = "throttle" /\ site[throttling] \in Sites
  BY DEF ThrottleInv, ThrottleTypeOK, InThrottle
<1>1. ASSUME NEW n \in Navigators, ArriveLocal(n)
      PROVE  SleepsInterval'
  BY <1>0, <1>1 DEF ArriveLocal
<1>2. ASSUME NEW n \in Navigators, NEW d \in Sites, Arrive(n, d)
      PROVE  SleepsInterval'
  <2>1. Held => site'[throttling] = site[throttling]
    BY <1>0, <1>2 DEF Arrive
  <2>2. QED
    BY <1>0, <1>2, <2>1 DEF Arrive
<1>3. CASE LockTaken
  <2>1. Head(throttled) \in Navigators /\ site[Head(throttled)] \in Sites
    BY <1>0, <1>3, Served DEF LockTaken, InThrottle
  <2>2. QED
    BY <1>0, <1>3, <2>1 DEF LockTaken, Rest
<1>4. CASE LetThrough
  BY <1>0, <1>4 DEF LetThrough
<1>5. CASE TimePasses
  <2>1. CASE Held
    <3>1. rest > 0 /\ age[site[throttling]] < Interval
      BY <1>0, <1>5, <2>1 DEF TimePasses
    <3>2. age'[site[throttling]] = age[site[throttling]] + 1 /\ rest' = rest - 1
      BY <1>0, <1>5, <2>1, <3>1 DEF TimePasses, Later
    <3>3. QED
      BY <1>0, <1>5, <2>1, <3>2 DEF TimePasses
  <2>2. CASE ~Held
    BY <1>0, <1>5, <2>2 DEF TimePasses
  <2>3. QED
    BY <2>1, <2>2
<1>6. CASE NavigateStarts
  <2>1. Head(navQueue) \in Navigators /\ nav[Head(navQueue)] = "queue"
    BY <1>6, Served DEF ThrottleInv, ThrottleTypeOK, PastThrottle, NavigateStarts
  <2>2. Held => site'[throttling] = site[throttling]
    BY <1>0, <1>6, <2>1 DEF NavigateStarts
  <2>3. QED
    BY <1>0, <1>6, <2>2 DEF NavigateStarts
<1>8. CASE NavigateEnds \/ UNCHANGED throttleVars
  BY <1>0, <1>8 DEF NavigateEnds, throttleVars
<1>7. QED
  BY <1>1, <1>2, <1>3, <1>4, <1>5, <1>6, <1>8 DEF ThrottleNext

(* The allowance covers one interval for each place in the queue and one     *)
(* more where the lock is held.                                              *)
LEMMA AllowanceCoversQueue ==
    ASSUME ThrottleInv, NEW n \in Navigators, nav[n] = "idle"
    PROVE  /\ Allowed \in Nat /\ Len(throttled) \in Nat
           /\ rest + Interval * (Len(throttled) + 1) <= Allowed
<1> DEFINE room == Cardinality(Navigators)
           others == Navigators \ {throttling}
           queue == Append(throttled, n)
<1>0. /\ throttled \in Seq(Navigators) /\ rest \in 0..Interval /\ Interval \in Nat \ {0}
      /\ throttling \in Navigators \cup {Nobody}
      /\ Distinct(throttled)
      /\ \A i \in 1..Len(throttled) : throttled[i] \in Navigators /\ throttled[i] # throttling
      /\ Len(throttled) \in Nat
      /\ IsFiniteSet(Navigators)
      /\ ~Held => rest = 0
  BY ThrottleAssumption DEF ThrottleInv, ThrottleTypeOK, InThrottle, SleepsInterval
<1>1. n # throttling /\ \A i \in 1..Len(throttled) : throttled[i] # n
  BY ThrottleAssumption DEF ThrottleInv, InThrottle, Held
<1>2. throttled \in Seq(others) /\ n \in others
  BY <1>0, <1>1
<1>3. queue \in Seq(others) /\ Distinct(queue) /\ Len(queue) = Len(throttled) + 1
  BY <1>0, <1>1, <1>2, Joined
<1>4. /\ room \in Nat /\ IsFiniteSet(others) /\ Cardinality(others) \in Nat
      /\ Cardinality(others) = IF Held THEN room - 1 ELSE room
  <2>1. Held <=> throttling \in Navigators
    BY <1>0, ThrottleAssumption DEF Held
  <2>2. QED
    BY <1>0, <2>1, FS_RemoveElement, FS_CardinalityType
<1>5. Len(throttled) + 1 <= Cardinality(others)
  BY <1>3, <1>4, QueueLength
<1>6. \A k \in Nat : k <= room => Interval * k <= Interval * room
  BY <1>0, <1>4
<1>7. CASE Held
  <2>1. Len(throttled) + 2 <= room
    BY <1>0, <1>4, <1>5, <1>7
  <2>2. Interval * (Len(throttled) + 2) <= Interval * room
    BY <1>0, <1>6, <2>1
  <2>3. Interval * (Len(throttled) + 2) = Interval * (Len(throttled) + 1) + Interval
    BY <1>0
  <2>4. Interval * room \in Nat /\ Interval * (Len(throttled) + 1) \in Nat
    BY <1>0, <1>4
  <2>5. QED
    BY <1>0, <2>2, <2>3, <2>4 DEF Allowed
<1>8. CASE ~Held
  <2>1. Interval * (Len(throttled) + 1) <= Interval * room
    BY <1>0, <1>4, <1>5, <1>6, <1>8
  <2>2. Interval * room \in Nat /\ Interval * (Len(throttled) + 1) \in Nat
    BY <1>0, <1>4
  <2>3. QED
    BY <1>0, <1>8, <2>1, <2>2 DEF Allowed
<1>9. QED
  BY <1>7, <1>8

(* No step uses up more of the allowance than there is.                      *)
LEMMA WithinAllowanceStep ==
    ASSUME ThrottleInv, [ThrottleNext]_throttleVars
    PROVE  WithinAllowance'
<1> USE ThrottleAssumption DEF WithinAllowance, Held, lockVars, navigateVars
<1>0. /\ ThrottleInv /\ WithinAllowance /\ InThrottle
      /\ nav \in [Navigators -> {"idle", "throttle", "queue", "page"}]
      /\ waited \in [Navigators -> Nat] /\ site \in [Navigators -> Sites \cup {Local}]
      /\ age \in [Sites -> 0..Interval] /\ rest \in 0..Interval
      /\ throttling \in Navigators \cup {Nobody} /\ navigating \in Navigators \cup {Nobody}
      /\ throttled \in Seq(Navigators) /\ Len(throttled) \in Nat
      /\ \A i \in 1..Len(throttled) :
           throttled[i] \in Navigators /\ nav[throttled[i]] = "throttle"
             /\ throttled[i] # throttling
      /\ Allowed \in Nat
      /\ throttling # Nobody => nav[throttling] = "throttle"
  <2>1. Allowed \in Nat
    BY FS_CardinalityType DEF Allowed
  <2>2. ThrottleInv /\ WithinAllowance /\ InThrottle /\ ThrottleTypeOK
    BY DEF ThrottleInv
  <2>3. /\ nav \in [Navigators -> {"idle", "throttle", "queue", "page"}]
        /\ waited \in [Navigators -> Nat] /\ site \in [Navigators -> Sites \cup {Local}]
        /\ age \in [Sites -> 0..Interval] /\ rest \in 0..Interval
        /\ throttling \in Navigators \cup {Nobody} /\ navigating \in Navigators \cup {Nobody}
        /\ throttled \in Seq(Navigators)
    BY <2>2 DEF ThrottleTypeOK
  <2>4. /\ Len(throttled) \in Nat
        /\ \A i \in 1..Len(throttled) : throttled[i] \in Navigators
    BY ONLY <2>3
  <2>5. /\ \A i \in 1..Len(throttled) :
             nav[throttled[i]] = "throttle" /\ throttled[i] # throttling
        /\ throttling # Nobody => nav[throttling] = "throttle"
    BY <2>2 DEF InThrottle
  <2>6. QED
    BY ONLY <2>1, <2>2, <2>3, <2>4, <2>5
<1>1. Allowed' = Allowed
  BY DEF Allowed
(* Steps outside the throttle.                                               *)
<1>2. ASSUME UNCHANGED <<waited, throttling, throttled, rest>>,
             \A n \in Navigators : nav'[n] # "throttle" => nav[n] # "throttle"
      PROVE  WithinAllowance'
  BY <1>0, <1>1, <1>2
<1>3. ASSUME NEW n \in Navigators, ArriveLocal(n)
      PROVE  WithinAllowance'
  BY <1>0, <1>2, <1>3 DEF ArriveLocal, GoesOn
<1>4. ASSUME NEW n \in Navigators, NEW d \in Sites, Arrive(n, d)
      PROVE  WithinAllowance'
  <2>1. /\ Len(throttled') = Len(throttled) + 1
        /\ \A i \in 1..Len(throttled) : throttled'[i] = throttled[i]
        /\ throttled'[Len(throttled) + 1] = n
    BY <1>0, <1>4, Joined DEF Arrive, InThrottle
  <2>2. rest + Interval * (Len(throttled) + 1) <= Allowed
    BY <1>0, <1>4, AllowanceCoversQueue DEF Arrive
  <2>3. waited[n] = 0 /\ UNCHANGED <<waited, throttling, rest>>
    BY <1>0, <1>4 DEF Arrive
  <2>4. ASSUME NEW i \in 1..Len(throttled')
        PROVE  waited'[throttled'[i]] + rest' + Interval * i <= Allowed'
    <3>1. CASE i = Len(throttled) + 1
      <4>1. Interval * i \in Nat
        BY <2>1
      <4>2. QED
        BY <1>0, <1>1, <2>1, <2>2, <2>3, <3>1, <4>1
    <3>2. CASE i # Len(throttled) + 1
      <4>1. i \in 1..Len(throttled)
        BY <1>0, <2>1, <3>2
      <4>2. QED
        BY <1>0, <1>1, <2>1, <2>3, <4>1
    <3>3. QED
      BY <3>1, <3>2
  <2>5. \A x \in Navigators : nav'[x] # "throttle" => waited'[x] = 0
    BY <1>0, <1>4, <2>3 DEF Arrive
  <2>6. QED
    BY <1>0, <1>1, <2>3, <2>4, <2>5
<1>5. CASE LockTaken
  <2>1. /\ throttling' = throttled[1] /\ 1 \in 1..Len(throttled)
        /\ Len(throttled') = Len(throttled) - 1
        /\ \A i \in 1..Len(throttled') :
             i + 1 \in 1..Len(throttled) /\ throttled'[i] = throttled[i + 1]
    BY <1>0, <1>5, Served DEF LockTaken, InThrottle
  <2>2. rest = 0 /\ rest' \in 0..Interval
    <3>1. site[Head(throttled)] \in Sites
      BY <1>0, <1>5, Served DEF LockTaken, InThrottle
    <3>2. QED
      BY <1>0, <1>5, <3>1 DEF LockTaken, Rest, ThrottleInv, SleepsInterval
  <2>3. UNCHANGED <<nav, waited>>
    BY <1>5 DEF LockTaken
  <2>4. waited[throttled[1]] + rest' <= Allowed
    <3>1. waited[throttled[1]] + rest + Interval * 1 <= Allowed /\ waited[throttled[1]] \in Nat
      BY <1>0, <2>1
    <3>2. QED
      BY <1>0, <2>2, <3>1
  <2>5. ASSUME NEW i \in 1..Len(throttled')
        PROVE  waited[throttled'[i]] + rest' + Interval * i <= Allowed
    <3>1. waited[throttled[i + 1]] + rest + Interval * (i + 1) <= Allowed
            /\ waited[throttled[i + 1]] \in Nat
      BY <1>0, <2>1
    <3>2. Interval * (i + 1) = Interval * i + Interval /\ Interval * i \in Nat
      BY <2>1
    <3>3. waited[throttled[i + 1]] + Interval * i + Interval <= Allowed
      BY <1>0, <2>2, <3>1, <3>2
    <3>4. \A w, p, r \in Nat :
            w + p + Interval <= Allowed /\ r <= Interval => w + r + p <= Allowed
      BY <1>0
    <3>5. rest' \in Nat /\ rest' <= Interval
      BY <2>2
    <3>6. waited[throttled[i + 1]] + rest' + Interval * i <= Allowed
      BY <3>1, <3>2, <3>3, <3>4, <3>5
    <3>7. QED
      BY <2>1, <3>6
  <2>6. QED
    BY <1>0, <1>1, <2>1, <2>3, <2>4, <2>5
<1>6. CASE LetThrough
  <2>1. /\ throttling \in Navigators /\ throttling' = Nobody
        /\ UNCHANGED <<throttled, rest>>
        /\ waited'[throttling] = 0 /\ nav'[throttling] = "queue"
        /\ \A x \in Navigators \ {throttling} : waited'[x] = waited[x] /\ nav'[x] = nav[x]
    BY <1>0, <1>6 DEF LetThrough, GoesOn
  <2>2. \A i \in 1..Len(throttled) : waited'[throttled[i]] = waited[throttled[i]]
    BY <1>0, <2>1
  <2>3. QED
    BY <1>0, <1>1, <2>1, <2>2
<1>7. CASE TimePasses
  (* What the wait grows by, the holder's sleep shrinks by.                  *)
  <2>1. UNCHANGED <<nav, throttling, throttled>>
    BY <1>7 DEF TimePasses
  <2>2. ASSUME throttling # Nobody
        PROVE  /\ rest' = rest - 1
               /\ \A x \in Navigators : nav[x] = "throttle" => waited'[x] = waited[x] + 1
    BY <1>0, <1>7, <2>2 DEF TimePasses
  <2>3. \A x \in Navigators : nav'[x] # "throttle" => waited'[x] = 0
    BY <1>0, <1>7 DEF TimePasses
  <2>4. CASE throttling # Nobody
    <3>1. waited'[throttling] + rest' = waited[throttling] + rest
      BY <1>0, <2>2, <2>4
    <3>2. ASSUME NEW i \in 1..Len(throttled)
          PROVE  waited'[throttled[i]] + rest' + Interval * i <= Allowed
      <4>1. waited[throttled[i]] \in Nat /\ waited'[throttled[i]] = waited[throttled[i]] + 1
        <5>1. throttled[i] \in Navigators /\ nav[throttled[i]] = "throttle"
          BY <1>0
        <5>2. QED
          BY <1>0, <2>2, <2>4, <5>1
      <4>2. waited[throttled[i]] + rest + Interval * i <= Allowed /\ Interval * i \in Nat
        BY <1>0
      <4>3. QED
        BY <1>0, <2>2, <2>4, <4>1, <4>2
    <3>3. QED
      BY <1>0, <1>1, <2>1, <2>3, <2>4, <3>1, <3>2
  <2>5. CASE throttling = Nobody
    <3>1. throttled = <<>>
      BY <1>7, <2>5 DEF TimePasses
    <3>2. QED
      BY <2>1, <2>3, <2>5, <3>1
  <2>6. QED
    BY <2>4, <2>5
<1>8. CASE NavigateStarts
  <2>1. Head(navQueue) \in Navigators /\ nav[Head(navQueue)] = "queue"
    BY <1>8, Served DEF ThrottleInv, ThrottleTypeOK, PastThrottle, NavigateStarts
  <2>2. QED
    BY <1>0, <1>2, <1>8, <2>1 DEF NavigateStarts
<1>9. CASE NavigateEnds
  BY <1>0, <1>2, <1>9 DEF NavigateEnds, ThrottleInv, PastThrottle
<1>10. CASE UNCHANGED throttleVars
  BY <1>2, <1>10 DEF throttleVars
<1>11. QED
  BY <1>3, <1>4, <1>5, <1>6, <1>7, <1>8, <1>9, <1>10 DEF ThrottleNext

(* Whoever joins the queue behind another of its site has let it wait the    *)
(* interval, for the throttle has let that one through before.               *)
LEMMA LoadsPacedStep ==
    ASSUME ThrottleInv, [ThrottleNext]_throttleVars
    PROVE  LoadsPaced'
<1> USE ThrottleAssumption
<1>0. /\ LoadsPaced /\ Interval \in Nat \ {0}
      /\ nav \in [Navigators -> {"idle", "throttle", "queue", "page"}]
      /\ site \in [Navigators -> Sites \cup {Local}] /\ Local \notin Sites
      /\ age \in [Sites -> 0..Interval] /\ early \in [Sites -> 0..Interval]
      /\ queued \in [Navigators -> 0..Interval]
      /\ navQueue \in Seq(Navigators) /\ Len(navQueue) \in Nat /\ Distinct(navQueue)
      /\ \A i \in 1..Len(navQueue) : navQueue[i] \in Navigators /\ nav[navQueue[i]] = "queue"
      /\ throttling # Nobody =>
           /\ throttling \in Navigators /\ nav[throttling] = "throttle"
           /\ site[throttling] \in Sites
           /\ rest + age[site[throttling]] = Interval
      /\ navigating # Nobody => navigating \in Navigators /\ nav[navigating] = "page"
  BY DEF ThrottleInv, ThrottleTypeOK, InThrottle, PastThrottle, SleepsInterval, Held
<1>a. /\ \A n \in Navigators : nav[n] # "queue" => queued[n] = 0
      /\ \A n \in Navigators : nav[n] \in {"idle", "page"} => site[n] = Local
      /\ \A d \in Sites : early[d] + age[d] <= Interval
  BY <1>0 DEF LoadsPaced
<1>b. \A i \in 1..Len(navQueue) :
        site[navQueue[i]] \in Sites =>
          age[site[navQueue[i]]] <= queued[navQueue[i]] /\ early[site[navQueue[i]]] = 0
  BY <1>0 DEF LoadsPaced
<1>c. \A i, k \in 1..Len(navQueue) :
        (i < k /\ site[navQueue[i]] = site[navQueue[k]] /\ site[navQueue[k]] \in Sites) =>
          queued[navQueue[i]] = Interval
  BY <1>0 DEF LoadsPaced
<1>1. ASSUME NEW n \in Navigators, nav[n] \in {"idle", "throttle"}, GoesOn(n),
             UNCHANGED <<site, queued, early>>, age' \in [Sites -> 0..Interval],
             \A d \in Sites : age'[d] <= age[d],
             site[n] \in Sites => age'[site[n]] = 0 /\ age[site[n]] = Interval
      PROVE  LoadsPaced'
  <2>1. \A i \in 1..Len(navQueue) : navQueue[i] # n
    BY <1>0, <1>1
  <2>2. /\ Len(navQueue') = Len(navQueue) + 1
        /\ \A i \in 1..Len(navQueue) : navQueue'[i] = navQueue[i]
        /\ navQueue'[Len(navQueue) + 1] = n
    BY <1>0, <1>1, <2>1, Joined DEF GoesOn
  <2>3. nav'[n] = "queue" /\ \A x \in Navigators \ {n} : nav'[x] = nav[x]
    BY <1>0, <1>1 DEF GoesOn
  <2>4. /\ \A x \in Navigators : nav'[x] # "queue" => queued'[x] = 0
        /\ \A x \in Navigators : nav'[x] \in {"idle", "page"} => site'[x] = Local
    BY <1>1, <1>a, <2>3
  <2>5. \A d \in Sites : early'[d] + age'[d] <= Interval
    BY <1>0, <1>1, <1>a
  <2>6. site[n] \in Sites => early[site[n]] = 0
    BY <1>0, <1>1, <1>a
  <2>7. ASSUME NEW i \in 1..Len(navQueue'), site'[navQueue'[i]] \in Sites
        PROVE  age'[site'[navQueue'[i]]] <= queued'[navQueue'[i]] /\ early'[site'[navQueue'[i]]] = 0
    <3>1. CASE i = Len(navQueue) + 1
      BY <1>0, <1>1, <2>2, <2>6, <2>7, <3>1
    <3>2. CASE i # Len(navQueue) + 1
      <4>1. i \in 1..Len(navQueue) /\ navQueue'[i] = navQueue[i]
        BY <1>0, <2>2, <3>2
      <4>2. PICK x \in Navigators : x = navQueue[i]
        BY <1>0, <4>1
      <4>3. site[x] \in Sites /\ age[site[x]] <= queued[x] /\ early[site[x]] = 0
        BY <1>1, <1>b, <2>7, <4>1, <4>2
      <4>4. age'[site[x]] <= age[site[x]] /\ age'[site[x]] \in Int /\ age[site[x]] \in Int
              /\ queued[x] \in Int
        BY <1>0, <1>1, <4>3
      <4>5. age'[site[x]] <= queued[x]
        BY <4>3, <4>4
      <4>6. QED
        BY <1>1, <4>1, <4>2, <4>3, <4>5
    <3>3. QED
      BY <3>1, <3>2
  <2>8. ASSUME NEW i \in 1..Len(navQueue'), NEW k \in 1..Len(navQueue'), i < k,
               site'[navQueue'[i]] = site'[navQueue'[k]], site'[navQueue'[k]] \in Sites
        PROVE  queued'[navQueue'[i]] = Interval
    <3>1. i \in 1..Len(navQueue) /\ navQueue'[i] = navQueue[i]
      BY <1>0, <2>2, <2>8
    <3>2. PICK x \in Navigators : x = navQueue[i]
      BY <1>0, <3>1
    <3>3. CASE k = Len(navQueue) + 1
      <4>1. site[x] = site[n] /\ site[n] \in Sites
        BY <1>1, <2>2, <2>8, <3>1, <3>2, <3>3
      <4>2. age[site[x]] <= queued[x] /\ age[site[x]] = Interval /\ queued[x] \in 0..Interval
        BY <1>0, <1>1, <1>b, <3>1, <3>2, <4>1
      <4>3. QED
        BY <1>0, <1>1, <3>1, <3>2, <4>2
    <3>4. CASE k # Len(navQueue) + 1
      <4>1. k \in 1..Len(navQueue) /\ navQueue'[k] = navQueue[k]
        BY <1>0, <2>2, <3>4
      <4>2. QED
        BY <1>1, <1>c, <2>8, <3>1, <4>1
    <3>5. QED
      BY <3>3, <3>4
  <2>9. QED
    BY <2>4, <2>5, <2>7, <2>8 DEF LoadsPaced
<1>2. ASSUME NEW n \in Navigators, ArriveLocal(n)
      PROVE  LoadsPaced'
  <2>1. site[n] = Local /\ nav[n] = "idle" /\ GoesOn(n) /\ UNCHANGED <<site, queued, early, age>>
    BY <1>a, <1>2 DEF ArriveLocal, paceVars
  <2>2. age' \in [Sites -> 0..Interval] /\ (\A d \in Sites : age'[d] <= age[d]) /\ site[n] \notin Sites
    BY <1>0, <2>1
  <2>3. QED
    BY <1>1, <2>1, <2>2
<1>3. ASSUME NEW n \in Navigators, NEW d \in Sites, Arrive(n, d)
      PROVE  LoadsPaced'
  <2>1. /\ nav[n] = "idle" /\ nav'[n] = "throttle" /\ site'[n] = d
        /\ \A x \in Navigators \ {n} : nav'[x] = nav[x] /\ site'[x] = site[x]
        /\ UNCHANGED <<age, navQueue, queued, early>>
    BY <1>0, <1>3 DEF Arrive, navigateVars, paceVars
  <2>2. \A i \in 1..Len(navQueue) : navQueue[i] \in Navigators \ {n}
    BY <1>0, <2>1
  <2>3. /\ \A x \in Navigators : nav'[x] # "queue" => queued[x] = 0
        /\ \A x \in Navigators : nav'[x] \in {"idle", "page"} => site'[x] = Local
    BY <1>a, <2>1
  <2>4. \A i \in 1..Len(navQueue) : site'[navQueue[i]] = site[navQueue[i]]
    BY <2>1, <2>2
  <2>5. QED
    BY <1>a, <1>b, <1>c, <2>1, <2>3, <2>4 DEF LoadsPaced
<1>4. CASE LetThrough
  <2>1. /\ throttling \in Navigators /\ nav[throttling] = "throttle" /\ GoesOn(throttling)
        /\ UNCHANGED <<site, queued, early>>
        /\ site[throttling] \in Sites /\ age[site[throttling]] = Interval
        /\ age' = [age EXCEPT ![site[throttling]] = 0]
    BY <1>0, <1>4 DEF LetThrough, paceVars
  <2>2. /\ age' \in [Sites -> 0..Interval] /\ age'[site[throttling]] = 0
        /\ \A d \in Sites : age'[d] <= age[d]
    BY <1>0, <2>1
  <2>3. QED
    BY <1>1, <2>1, <2>2
<1>5. CASE TimePasses
  <2>1. /\ UNCHANGED <<nav, site, navQueue>>
        /\ \A d \in Sites : age'[d] = Later(age[d]) /\ early'[d] = IF early[d] > 0 THEN early[d] - 1 ELSE 0
        /\ \A x \in Navigators : queued'[x] = IF nav[x] = "queue" THEN Later(queued[x]) ELSE queued[x]
    BY <1>5 DEF TimePasses, navigateVars
  <2>2. \A x, y \in 0..Interval : x <= y => Later(x) <= Later(y)
    BY <1>0 DEF Later
  <2>3. Later(Interval) = Interval
    BY <1>0 DEF Later
  <2>4. \A d \in Sites : early'[d] + age'[d] <= Interval
    <3>1. ASSUME NEW d \in Sites
          PROVE  early'[d] + age'[d] <= Interval
      <4>1. early[d] \in 0..Interval /\ age[d] \in 0..Interval /\ early[d] + age[d] <= Interval
        BY <1>0, <1>a
      <4>2. QED
        BY <1>0, <2>1, <4>1 DEF Later
    <3>2. QED
      BY <3>1
  <2>5. ASSUME NEW i \in 1..Len(navQueue), site[navQueue[i]] \in Sites
        PROVE  age'[site[navQueue[i]]] <= queued'[navQueue[i]] /\ early'[site[navQueue[i]]] = 0
    <3>1. PICK x \in Navigators : x = navQueue[i]
      BY <1>0
    <3>2. age[site[x]] <= queued[x] /\ early[site[x]] = 0 /\ nav[x] = "queue" /\ site[x] \in Sites
      BY <1>0, <1>b, <2>5, <3>1
    <3>3. Later(age[site[x]]) <= Later(queued[x])
      BY <1>0, <2>2, <3>2
    <3>4. QED
      BY <1>0, <2>1, <3>1, <3>2, <3>3
  <2>6. \A i \in 1..Len(navQueue) : queued[navQueue[i]] = Interval => queued'[navQueue[i]] = Interval
    BY <1>0, <2>1, <2>3
  <2>7. /\ \A x \in Navigators : nav'[x] # "queue" => queued'[x] = 0
        /\ \A x \in Navigators : nav'[x] \in {"idle", "page"} => site'[x] = Local
    BY <1>a, <2>1
  <2>8. QED
    BY <1>c, <2>1, <2>4, <2>5, <2>6, <2>7 DEF LoadsPaced
<1>6. CASE NavigateStarts
  <2> DEFINE h == Head(navQueue)
  <2>1. /\ h = navQueue[1] /\ h \in Navigators /\ 1 \in 1..Len(navQueue)
        /\ Len(navQueue') = Len(navQueue) - 1
        /\ \A i \in 1..Len(navQueue') :
             i + 1 \in 1..Len(navQueue) /\ navQueue'[i] = navQueue[i + 1] /\ navQueue'[i] # h
    BY <1>0, <1>6, Served DEF NavigateStarts
  <2>2. /\ nav'[h] = "page" /\ site'[h] = Local /\ queued'[h] = 0
        /\ \A x \in Navigators \ {h} :
             nav'[x] = nav[x] /\ site'[x] = site[x] /\ queued'[x] = queued[x]
        /\ UNCHANGED age
        /\ \A d \in Sites : early'[d] = IF d = site[h] THEN Interval - queued[h] ELSE early[d]
    BY <1>0, <1>6, <2>1 DEF NavigateStarts
  <2> HIDE DEF h
  <2>3. /\ \A x \in Navigators : nav'[x] # "queue" => queued'[x] = 0
        /\ \A x \in Navigators : nav'[x] \in {"idle", "page"} => site'[x] = Local
    BY <1>a, <2>1, <2>2
  <2>4. site[h] \in Sites => age[site[h]] <= queued[h]
    BY <1>b, <2>1
  <2>5. \A d \in Sites : early'[d] + age'[d] <= Interval
    <3>1. ASSUME NEW d \in Sites
          PROVE  early'[d] + age'[d] <= Interval
      <4>1. age[d] \in 0..Interval /\ queued[h] \in 0..Interval /\ early[d] + age[d] <= Interval
        BY <1>0, <1>a, <2>1
      <4>2. CASE d = site[h]
        BY <1>0, <2>2, <2>4, <4>1, <4>2
      <4>3. CASE d # site[h]
        BY <1>0, <2>2, <4>1, <4>3
      <4>4. QED
        BY <4>2, <4>3
    <3>2. QED
      BY <3>1
  <2>6. ASSUME NEW i \in 1..Len(navQueue')
        PROVE  /\ i + 1 \in 1..Len(navQueue) /\ navQueue'[i] = navQueue[i + 1]
               /\ navQueue[i + 1] \in Navigators
               /\ site'[navQueue'[i]] = site[navQueue[i + 1]]
               /\ queued'[navQueue'[i]] = queued[navQueue[i + 1]]
    <3>1. i + 1 \in 1..Len(navQueue) /\ navQueue'[i] = navQueue[i + 1] /\ navQueue'[i] # h
      BY <2>1
    <3>2. navQueue[i + 1] \in Navigators \ {h}
      BY <1>0, <3>1
    <3>3. QED
      BY <2>2, <3>1, <3>2
  <2>7. ASSUME NEW i \in 1..Len(navQueue'), site'[navQueue'[i]] \in Sites
        PROVE  age'[site'[navQueue'[i]]] <= queued'[navQueue'[i]] /\ early'[site'[navQueue'[i]]] = 0
    <3>1. PICK x \in Navigators : x = navQueue[i + 1]
      BY <2>6
    <3>2. i + 1 \in 1..Len(navQueue) /\ 1 < i + 1 /\ site[x] \in Sites
      BY <2>6, <2>7, <3>1
    <3>3. age[site[x]] <= queued[x] /\ early[site[x]] = 0
      BY <1>b, <3>1, <3>2
    <3>4. site[x] = site[h] => queued[h] = Interval
      BY <1>c, <2>1, <3>1, <3>2
    <3>5. early'[site[x]] = 0
      BY <1>0, <2>2, <3>2, <3>3, <3>4
    <3>6. QED
      BY <2>2, <2>6, <3>1, <3>3, <3>5
  <2>8. ASSUME NEW i \in 1..Len(navQueue'), NEW k \in 1..Len(navQueue'), i < k,
               site'[navQueue'[i]] = site'[navQueue'[k]], site'[navQueue'[k]] \in Sites
        PROVE  queued'[navQueue'[i]] = Interval
    <3>1. i + 1 \in 1..Len(navQueue) /\ k + 1 \in 1..Len(navQueue) /\ i + 1 < k + 1
      BY <1>0, <2>1, <2>6, <2>8
    <3>2. site[navQueue[i + 1]] = site[navQueue[k + 1]] /\ site[navQueue[k + 1]] \in Sites
      BY <2>6, <2>8
    <3>3. queued[navQueue[i + 1]] = Interval
      BY <1>c, <3>1, <3>2
    <3>4. QED
      BY <2>6, <3>3
  <2>9. QED
    BY <2>3, <2>5, <2>7, <2>8 DEF LoadsPaced
<1>7. CASE NavigateEnds
  <2>1. /\ navigating \in Navigators /\ nav'[navigating] = "idle"
        /\ \A x \in Navigators \ {navigating} : nav'[x] = nav[x]
        /\ UNCHANGED <<site, age, navQueue, queued, early>>
    BY <1>0, <1>7 DEF NavigateEnds, paceVars
  <2>2. /\ \A x \in Navigators : nav'[x] # "queue" => queued[x] = 0
        /\ \A x \in Navigators : nav'[x] \in {"idle", "page"} => site[x] = Local
    BY <1>0, <1>a, <2>1
  <2>3. QED
    BY <1>a, <1>b, <1>c, <2>1, <2>2 DEF LoadsPaced
<1>8. CASE LockTaken \/ UNCHANGED throttleVars
  <2>1. UNCHANGED <<nav, site, age, navQueue, queued, early>>
    BY <1>8 DEF LockTaken, throttleVars, navigateVars, paceVars
  <2>2. QED
    BY <1>0, <2>1 DEF LoadsPaced
<1>9. QED
  BY <1>2, <1>3, <1>4, <1>5, <1>6, <1>7, <1>8 DEF ThrottleNext

-----------------------------------------------------------------------------
(* The invariant holds throughout: types, who is where, what the holder      *)
(* still sleeps, what everybody may still wait, and how loads are spaced.    *)
THEOREM ThrottleInvariant == ThrottleSpec => []ThrottleInv
<1>1. ThrottleInit => ThrottleInv
  <2> SUFFICES ASSUME ThrottleInit
               PROVE  ThrottleInv
    OBVIOUS
  <2> USE ThrottleAssumption DEF ThrottleInit
  <2>1. ThrottleTypeOK
    BY DEF ThrottleTypeOK
  <2>2. InThrottle /\ PastThrottle
    BY DEF InThrottle, PastThrottle, Distinct, Held
  <2>3. SleepsInterval /\ WithinAllowance
    BY DEF SleepsInterval, WithinAllowance, Held
  <2>4. LoadsPaced
    BY DEF LoadsPaced
  <2>5. QED
    BY <2>1, <2>2, <2>3, <2>4 DEF ThrottleInv
<1>2. ThrottleInv /\ [ThrottleNext]_throttleVars => ThrottleInv'
  BY ThrottleTypeStep, InThrottleStep, PastThrottleStep, SleepsIntervalStep,
     WithinAllowanceStep, LoadsPacedStep
  DEF ThrottleInv
<1>3. QED
  BY <1>1, <1>2, PTL DEF ThrottleSpec

(* In every state the waits are within the allowance.                        *)
LEMMA AllowanceBoundsWaits == ThrottleInv => WaitBounded
<1> SUFFICES ASSUME ThrottleInv, NEW n \in Navigators
             PROVE  waited[n] <= Allowed
  BY DEF WaitBounded, Allowed
<1> USE ThrottleAssumption
<1>0. /\ InThrottle /\ WithinAllowance /\ rest \in 0..Interval
      /\ waited \in [Navigators -> Nat] /\ throttled \in Seq(Navigators)
      /\ \A i \in 1..Len(throttled) : throttled[i] \in Navigators
      /\ Allowed \in Nat
  <2>1. Allowed \in Nat
    BY FS_CardinalityType DEF Allowed
  <2>2. QED
    BY <2>1 DEF ThrottleInv, ThrottleTypeOK
<1>1. CASE nav[n] # "throttle"
  BY <1>0, <1>1 DEF WithinAllowance
<1>2. CASE n = throttling
  BY <1>0, <1>2 DEF WithinAllowance, Held
<1>3. ASSUME NEW i \in 1..Len(throttled), throttled[i] = n
      PROVE  waited[n] <= Allowed
  <2>1. waited[n] + rest + Interval * i <= Allowed /\ Interval * i \in Nat
    BY <1>0, <1>3 DEF WithinAllowance
  <2>2. QED
    BY <1>0, <2>1
<1>4. QED
  BY <1>0, <1>1, <1>2, <1>3 DEF InThrottle

(* However many navigations there are and whatever their sites: the throttle *)
(* lets no site through twice within the interval, two loads of a site start *)
(* an interval apart but for what the earlier was queued for _navigate_lock, *)
(* and no navigation waits in the throttle longer than one interval for each *)
(* there is.                                                                 *)
THEOREM ThrottleIsFair == ThrottleSpec => ThrottleHolds
<1>1. ThrottleInv /\ [ThrottleNext]_throttleVars => [Spaced]_throttleVars
  <2>1. ASSUME ThrottleInv, LetThrough
        PROVE  age[site[throttling]] = Interval
    BY <2>1, ThrottleAssumption
    DEF LetThrough, ThrottleInv, ThrottleTypeOK, SleepsInterval, InThrottle, Held
  <2>2. ASSUME ThrottleInv, NavigateStarts, NEW d \in Sites, site[Head(navQueue)] = d
        PROVE  early[d] = 0
    <3>1. Head(navQueue) = navQueue[1] /\ 1 \in 1..Len(navQueue)
      BY <2>2, Served DEF NavigateStarts, ThrottleInv, ThrottleTypeOK, PastThrottle
    <3>2. QED
      BY <2>2, <3>1 DEF ThrottleInv, LoadsPaced
  <2>3. QED
    BY <2>1, <2>2 DEF Spaced, LetThroughSpaced, LoadsSpaced
<1>2. ThrottleSpec => [][Spaced]_throttleVars
  BY <1>1, ThrottleInvariant, PTL DEF ThrottleSpec
<1>3. ThrottleSpec => []WaitBounded
  BY AllowanceBoundsWaits, ThrottleInvariant, PTL
<1>4. QED
  BY <1>2, <1>3, PTL DEF ThrottleHolds

-----------------------------------------------------------------------------
(* McpSession.                                                               *)
(* The sessions that calls are about to destroy.                             *)
Doomed == {call[c].on : c \in {d \in ToolCalls : call[d].at = "dropping"}}

(* A registered session is cached, doomed, or was pushed out of the cache: a *)
(* call that merely runs on it is not what keeps it from being forgotten.    *)
RegisteredKnown == registered \subseteq {cached} \cup Doomed \cup displaced

(* What the client has seen or is about to see results of.                   *)
SeenByClient ==
    {lastTab} \cup
        {call[c].on : c \in {d \in ToolCalls : call[d].at \in {"probing", "running"}}}

(* What it has heard or is about to hear is lost, or can no longer rely on.  *)
Lost == told \cup notices \cup BeingLost \cup displaced

(* The cached session is the only one in sight that is not lost.             *)
OneInSight == SeenByClient \subseteq Lost \cup {cached, NoSession}

(* A call that looks at a session, or is rid of it, has one.                 *)
HasOne ==
    \A c \in ToolCalls :
        call[c].at \in {"probing", "dropping", "replacing"} => call[c].on \in McpSessions

McpInv == McpTypeOK /\ HasOne /\ RegisteredKnown /\ OneInSight

-----------------------------------------------------------------------------
(* What the actions change in common.                                        *)

(* A new session is one nobody refers to.                                    *)
LEMMA OpensFresh ==
    ASSUME McpTypeOK, NEW c \in ToolCalls, Opens(c)
    PROVE  \E s \in McpSessions :
             /\ s \notin {cached, lastTab, NoSession} /\ s \notin registered \cup notices
             /\ \A d \in ToolCalls : call[d].on # s
             /\ registered' = registered \cup {s} /\ cached' = s
             /\ displaced' = (displaced \cup ({cached} \ {NoSession})) \ {s}
             /\ told' = told \ {s}
             /\ call' = [call EXCEPT ![c] = [at |-> "running", on |-> s]]
             /\ UNCHANGED lastTab
<1>1. PICK s \in FreshIds :
             /\ registered' = registered \cup {s} /\ cached' = s
             /\ displaced' = (displaced \cup ({cached} \ {NoSession})) \ {s}
             /\ told' = told \ {s}
             /\ call' = [call EXCEPT ![c] = [at |-> "running", on |-> s]]
             /\ UNCHANGED lastTab
  BY DEF Opens, CallTo
<1>2. QED
  BY <1>1, McpAssumption DEF FreshIds, InCalls

(* Every step keeps the types.                                               *)
LEMMA McpTypeStep ==
    ASSUME McpTypeOK, HasOne, [McpNext]_mcpVars
    PROVE  McpTypeOK' /\ HasOne'
<1> USE DEF McpTypeOK, HasOne, Maybe
<1>1. ASSUME NEW c \in ToolCalls, Resolves(c)
      PROVE  McpTypeOK' /\ HasOne'
  BY <1>1, McpAssumption DEF Resolves, Loses, Caches, CallTo
<1>2. ASSUME NEW c \in ToolCalls, ProbeEnds(c)
      PROVE  McpTypeOK' /\ HasOne'
  BY <1>2 DEF ProbeEnds, Loses, Caches, CallTo
<1>3. ASSUME NEW c \in ToolCalls, Destroys(c) \/ ReplaceFails(c) \/ MintFails(c)
      PROVE  McpTypeOK' /\ HasOne'
  BY <1>3 DEF Destroys, ReplaceFails, MintFails, CallTo
<1>4. ASSUME NEW c \in ToolCalls, CallEnds(c)
      PROVE  McpTypeOK' /\ HasOne'
  BY <1>4 DEF CallEnds, AtRestCall
<1>5. ASSUME NEW c \in ToolCalls, Opens(c), notices' \subseteq notices \cup ({call[c].on} \cap McpSessions)
      PROVE  McpTypeOK' /\ HasOne'
  BY <1>5, OpensFresh
<1>6. ASSUME NEW c \in ToolCalls, Replaces(c) \/ Mints(c)
      PROVE  McpTypeOK' /\ HasOne'
  BY <1>5, <1>6 DEF Replaces, Mints
<1>7. ASSUME NEW s \in McpSessions, RegistryDrops(s)
      PROVE  McpTypeOK' /\ HasOne'
  BY <1>7 DEF RegistryDrops
<1>8. CASE UNCHANGED mcpVars
  BY <1>8 DEF mcpVars
<1>9. QED
  BY <1>1, <1>2, <1>3, <1>4, <1>6, <1>7, <1>8 DEF McpNext

-----------------------------------------------------------------------------
(* Every step keeps what is said of the sessions.                            *)

(* Which calls are about to destroy, about to leave word of or at work on a  *)
(* session, said of one session at a time.                                   *)
LEMMA McpSets ==
    /\ \A s : s \in Doomed <=> \E c \in ToolCalls : call[c].at = "dropping" /\ call[c].on = s
    /\ \A s : s \in BeingLost <=>
                \E c \in ToolCalls : call[c].at \in {"dropping", "replacing"} /\ call[c].on = s
    /\ \A s : s \in SeenByClient <=>
                \/ s = lastTab
                \/ \E c \in ToolCalls : call[c].at \in {"probing", "running"} /\ call[c].on = s
BY DEF Doomed, BeingLost, SeenByClient

(* RegisteredKnown and OneInSight, likewise.                                 *)
KnownOne(s) ==
    \/ s = cached \/ s \in displaced
    \/ \E c \in ToolCalls : call[c].at = "dropping" /\ call[c].on = s

LostOne(s) ==
    \/ s \in told \/ s \in notices \/ s \in displaced
    \/ \E c \in ToolCalls : call[c].at \in {"dropping", "replacing"} /\ call[c].on = s

SightOne(s) == LostOne(s) \/ s = cached \/ s = NoSession

LEMMA McpPointwise ==
    /\ RegisteredKnown <=> \A s \in registered : KnownOne(s)
    /\ OneInSight <=>
         /\ SightOne(lastTab)
         /\ \A c \in ToolCalls : call[c].at \in {"probing", "running"} => SightOne(call[c].on)
<1>1. RegisteredKnown <=> \A s \in registered : KnownOne(s)
  BY DEF RegisteredKnown, KnownOne, Doomed
<1>2. \A s : s \in Lost <=> LostOne(s)
  BY DEF Lost, LostOne, BeingLost
<1>3. OneInSight <=> \A s \in SeenByClient : SightOne(s)
  BY <1>2 DEF OneInSight, SightOne
<1>4. QED
  BY <1>1, <1>3 DEF SeenByClient

(* A session that nobody had in sight before is not the one that is cached.  *)
LEMMA McpKnownStep ==
    ASSUME McpInv, [McpNext]_mcpVars
    PROVE  \A s \in registered' : KnownOne(s)'
<1> USE DEF KnownOne
<1>0. McpTypeOK /\ HasOne /\ \A s \in registered : KnownOne(s)
  BY McpPointwise DEF McpInv
<1> USE DEF McpTypeOK, HasOne, Maybe
<1>1. ASSUME NEW c \in ToolCalls, Resolves(c) \/ ProbeEnds(c), NEW s \in registered'
      PROVE  KnownOne(s)'
  <2>1. s \in registered /\ KnownOne(s)
    BY <1>0, <1>1 DEF Resolves, ProbeEnds
  <2>2. ASSUME NEW t \in Maybe, Loses(c, t), call[c].at # "dropping"
        PROVE  KnownOne(s)'
    BY <1>0, <2>1, <2>2, McpAssumption DEF Loses, Caches, CallTo
  <2>3. CASE ~(\E t \in Maybe : Loses(c, t))
    BY <1>0, <1>1, <2>1, <2>3 DEF Resolves, ProbeEnds, CallTo
  <2>4. QED
    BY <1>1, <2>2, <2>3 DEF Resolves, ProbeEnds
<1>2. ASSUME NEW c \in ToolCalls, Destroys(c), NEW s \in registered'
      PROVE  KnownOne(s)'
  BY <1>0, <1>2 DEF Destroys, CallTo
<1>3. ASSUME NEW c \in ToolCalls, ReplaceFails(c) \/ MintFails(c) \/ CallEnds(c),
             NEW s \in registered'
      PROVE  KnownOne(s)'
  BY <1>0, <1>3 DEF ReplaceFails, MintFails, CallEnds, CallTo, AtRestCall
<1>4. ASSUME NEW c \in ToolCalls, Opens(c), call[c].at # "dropping", NEW s \in registered'
      PROVE  KnownOne(s)'
  <2>1. PICK n \in McpSessions :
             /\ n \notin {cached, lastTab, NoSession} /\ n \notin registered \cup notices
             /\ registered' = registered \cup {n} /\ cached' = n
             /\ displaced' = (displaced \cup ({cached} \ {NoSession})) \ {n}
             /\ call' = [call EXCEPT ![c] = [at |-> "running", on |-> n]]
    BY <1>0, <1>4, OpensFresh
  <2>2. CASE s = n
    BY <2>1, <2>2
  <2>3. CASE s # n
    BY <1>0, <1>4, <2>1, <2>3, McpAssumption
  <2>4. QED
    BY <2>2, <2>3
<1>5. ASSUME NEW c \in ToolCalls, Replaces(c) \/ Mints(c), NEW s \in registered'
      PROVE  KnownOne(s)'
  BY <1>4, <1>5 DEF Replaces, Mints
<1>6. ASSUME NEW t \in McpSessions, RegistryDrops(t), NEW s \in registered'
      PROVE  KnownOne(s)'
  BY <1>0, <1>6 DEF RegistryDrops
<1>7. CASE UNCHANGED mcpVars
  BY <1>0, <1>7 DEF mcpVars
<1>8. QED
  BY <1>1, <1>2, <1>3, <1>5, <1>6, <1>7 DEF McpNext

(* Every result under way, and the last one, still come from the cached      *)
(* session or from one that is lost.                                         *)
LEMMA McpSightStep ==
    ASSUME McpInv, [McpNext]_mcpVars
    PROVE  /\ SightOne(lastTab)'
           /\ \A c \in ToolCalls :
                call'[c].at \in {"probing", "running"} => SightOne(call[c].on)'
<1> DEFINE Goal == /\ SightOne(lastTab)'
                   /\ \A d \in ToolCalls :
                        call'[d].at \in {"probing", "running"} => SightOne(call[d].on)'
<1> USE DEF SightOne, LostOne
<1>0. /\ McpTypeOK /\ HasOne /\ SightOne(lastTab)
      /\ \A c \in ToolCalls : call[c].at \in {"probing", "running"} => SightOne(call[c].on)
  BY McpPointwise DEF McpInv
<1> USE DEF McpTypeOK, HasOne, Maybe
<1>1. ASSUME NEW c \in ToolCalls, NEW t \in Maybe, Loses(c, t), t # NoSession,
             call[c].at \notin {"dropping", "replacing"},
             UNCHANGED <<notices, told, lastTab>>
      PROVE  Goal
  <2>1. \A s \in Maybe : SightOne(s) => SightOne(s)'
    BY <1>0, <1>1 DEF Loses, Caches, CallTo
  <2>2. ASSUME NEW d \in ToolCalls, call'[d].at \in {"probing", "running"}
        PROVE  d # c /\ call'[d] = call[d]
    BY <1>0, <1>1, <2>2 DEF Loses, CallTo
  <2>3. QED
    BY <1>0, <1>1, <2>1, <2>2
<1>2. ASSUME NEW c \in ToolCalls, Resolves(c)
      PROVE  Goal
  <2>1. CASE cached = NoSession
    BY <1>0, <1>2, <2>1 DEF Resolves, CallTo
  <2>2. CASE cached \in registered
    BY <1>0, <1>2, <2>2, McpAssumption DEF Resolves, CallTo
  <2>3. CASE cached # NoSession /\ cached \notin registered
    BY <1>0, <1>1, <1>2, <2>3 DEF Resolves
  <2>4. QED
    BY <2>1, <2>2, <2>3
<1>3. ASSUME NEW c \in ToolCalls, ProbeEnds(c)
      PROVE  Goal
  <2>1. CASE CallTo(c, "running", call[c].on) /\ UNCHANGED <<cached, displaced>>
    BY <1>0, <1>3, <2>1 DEF ProbeEnds, CallTo
  <2>2. CASE Loses(c, call[c].on)
    BY <1>0, <1>1, <1>3, <2>2, McpAssumption DEF ProbeEnds
  <2>3. QED
    BY <1>3, <2>1, <2>2 DEF ProbeEnds
<1>4. ASSUME NEW c \in ToolCalls, Destroys(c)
      PROVE  Goal
  BY <1>0, <1>4 DEF Destroys, CallTo
<1>5. ASSUME NEW c \in ToolCalls, ReplaceFails(c) \/ MintFails(c)
      PROVE  Goal
  BY <1>0, <1>5 DEF ReplaceFails, MintFails, CallTo
<1>6. ASSUME NEW c \in ToolCalls, Replaces(c) \/ Mints(c)
      PROVE  Goal
  <2>1. PICK n \in McpSessions :
             /\ n \notin {cached, lastTab, NoSession} /\ n \notin registered \cup notices
             /\ \A d \in ToolCalls : call[d].on # n
             /\ registered' = registered \cup {n} /\ cached' = n
             /\ displaced' = (displaced \cup ({cached} \ {NoSession})) \ {n}
             /\ told' = told \ {n}
             /\ call' = [call EXCEPT ![c] = [at |-> "running", on |-> n]]
             /\ UNCHANGED lastTab
    BY <1>0, <1>6, OpensFresh DEF Replaces, Mints
  <2>2. \A s \in Maybe : SightOne(s) /\ s # n => SightOne(s)'
    BY <1>0, <1>6, <2>1 DEF Replaces, Mints
  <2>3. QED
    BY <1>0, <2>1, <2>2
<1>7. ASSUME NEW c \in ToolCalls, CallEnds(c)
      PROVE  Goal
  <2>1. \A s \in Maybe : SightOne(s) => SightOne(s)'
    BY <1>0, <1>7 DEF CallEnds, AtRestCall
  <2>2. QED
    BY <1>0, <1>7, <2>1 DEF CallEnds, AtRestCall
<1>8. ASSUME NEW s \in McpSessions, RegistryDrops(s)
      PROVE  Goal
  BY <1>0, <1>8 DEF RegistryDrops
<1>9. CASE UNCHANGED mcpVars
  BY <1>0, <1>9 DEF mcpVars
<1>10. QED
  BY <1>2, <1>3, <1>4, <1>5, <1>6, <1>7, <1>8, <1>9 DEF McpNext

-----------------------------------------------------------------------------
(* The theorems.                                                             *)

(* McpInv holds for any number of overlapping calls, whatever the probes say *)
(* and whenever the registry drops a session (_mcp_session, session_hook).   *)
THEOREM McpInvariant == McpSpec => []McpInv
<1>1. McpInit => McpInv
  BY McpAssumption DEF McpInit, McpInv, McpTypeOK, Maybe, AtRestCall, HasOne,
     RegisteredKnown, OneInSight, SeenByClient, Lost
<1>2. McpInv /\ [McpNext]_mcpVars => McpInv'
  <2> SUFFICES ASSUME McpInv, [McpNext]_mcpVars
               PROVE  McpInv'
    OBVIOUS
  <2>1. McpTypeOK' /\ HasOne'
    BY McpTypeStep DEF McpInv
  <2>2. RegisteredKnown'
    BY McpKnownStep DEF RegisteredKnown, KnownOne, Doomed
  <2>3. OneInSight'
    BY McpSightStep DEF OneInSight, SightOne, LostOne, SeenByClient, Lost, BeingLost
  <2>4. QED
    BY <2>1, <2>2, <2>3 DEF McpInv
<1>3. QED
  BY <1>1, <1>2, PTL DEF McpSpec

(* No tool call leaves a session behind that nobody closes, and a result     *)
(* that comes from another tab than the last one is announced, for any       *)
(* number of overlapping calls (_mcp_session, take_notices).                 *)
THEOREM McpKeepsItsWord == McpSpec => McpHolds
<1>1. McpInv => NoneLeftBehind
  BY DEF McpInv, RegisteredKnown, NoneLeftBehind, Doomed, InCalls
<1>2. ASSUME McpInv, NEW c \in ToolCalls, CallEnds(c),
             NoSession \notin {call[c].on, lastTab}, call[c].on # lastTab
      PROVE  {call[c].on, lastTab} \cap (told' \cup BeingLost \cup displaced) # {}
  <2>1. {call[c].on, lastTab} \subseteq SeenByClient
    BY <1>2 DEF SeenByClient, CallEnds
  <2>2. call[c].on \in Lost \/ lastTab \in Lost
    BY <1>2, <2>1 DEF McpInv, OneInSight
  <2>3. Lost = told' \cup BeingLost \cup displaced
    BY <1>2 DEF Lost, CallEnds
  <2>4. QED
    BY <2>2, <2>3
<1>3. McpInv /\ [McpNext]_mcpVars =>
        [\A c \in ToolCalls :
           CallEnds(c) /\ NoSession \notin {call[c].on, lastTab} /\ call[c].on # lastTab =>
             {call[c].on, lastTab} \cap (told' \cup BeingLost \cup displaced) # {}]_mcpVars
  BY <1>2
<1>4. QED
  BY <1>1, <1>3, McpInvariant, PTL DEF McpSpec, McpHolds, SwapAnnounced

-----------------------------------------------------------------------------
(* CloudPool.                                                                *)
(* Cloud sessions.  The table and the provider change together, one session  *)
(* at a time, so the invariant holds of every step by itself.                *)
CloudInv == CloudTypeOK /\ LostOnlyByExpiry

LEMMA WaitsTyped ==
  ASSUME CloudTypeOK, NEW u \in PoolUsers, NEW what \in {"idle", "get", "release", "grow", "shrink"},
         NEW closes \in SUBSET CloudSessions, NEW launches \in Nat, Waits(u, what, closes, launches)
  PROVE  /\ doing' \in [PoolUsers -> {"idle", "get", "release", "grow", "shrink"}]
         /\ toClose' \in [PoolUsers -> SUBSET CloudSessions]
         /\ toLaunch' \in [PoolUsers -> Nat]
BY DEF CloudTypeOK, Waits

LEMMA EvictsKeeps ==
  ASSUME CloudInv, Evicts
  PROVE  /\ {pool', expired', evicted'} \subseteq SUBSET CloudSessions
         /\ running \subseteq pool' \cup evicted'
BY DEF CloudInv, CloudTypeOK, LostOnlyByExpiry, Evicts, Fresh

LEMMA CloudStep == CloudInv /\ [CloudNext]_cloudVars => CloudInv'
<1> SUFFICES ASSUME CloudInv, [CloudNext]_cloudVars
             PROVE  CloudInv'
  OBVIOUS
<1> USE DEF CloudInv, CloudTypeOK, LostOnlyByExpiry, tableVars, workVars
<1>1. CASE UNCHANGED cloudVars
  BY <1>1 DEF cloudVars
<1>2. ASSUME NEW u \in PoolUsers, Get(u)
      PROVE  CloudInv'
  BY <1>2, EvictsKeeps, WaitsTyped DEF Get
<1>3. ASSUME NEW u \in PoolUsers, Launched(u)
      PROVE  CloudInv'
  <2>1. PICK s \in CloudSessions : /\ running' = running \cup {s} /\ pool' = pool \cup {s}
                                   /\ warm' \in {warm, warm \cup {s}}
    BY <1>3 DEF Launched, NewIds
  <2>2. toLaunch' \in [PoolUsers -> Nat]
    BY <1>3 DEF Launched
  <2>3. QED
    BY <1>3, <2>1, <2>2 DEF Launched
<1>4. ASSUME NEW u \in PoolUsers, Fails(u)
      PROVE  CloudInv'
  BY <1>4, WaitsTyped DEF Fails
<1>5. ASSUME NEW u \in PoolUsers, NEW s \in CloudSessions, Release(u, s)
      PROVE  CloudInv'
  BY <1>5, EvictsKeeps, WaitsTyped DEF Release
<1>6. ASSUME NEW u \in PoolUsers, NEW target \in 0..MaxWarm, Scale(u, target)
      PROVE  CloudInv'
  <2>1. Cardinality(Fresh) \in Nat /\ target \in Nat /\ Fresh \subseteq CloudSessions
    BY CloudAssumption, FS_Subset, FS_CardinalityType DEF Fresh
  <2>2. /\ doing' \in [PoolUsers -> {"idle", "get", "release", "grow", "shrink"}]
        /\ toClose' \in [PoolUsers -> SUBSET CloudSessions]
        /\ toLaunch' \in [PoolUsers -> Nat]
    <3>1. PICK current \in Nat : current = Cardinality(Fresh)
      BY <2>1
    <3>2. CASE target > current
      <4>1. target - current \in Nat /\ Waits(u, "grow", {}, target - current)
        BY <1>6, <2>1, <3>1, <3>2 DEF Scale
      <4>2. QED
        BY <4>1, WaitsTyped
    <3>3. CASE target = current
      BY <1>6, <3>1, <3>3 DEF Scale
    <3>4. CASE target < current
      <4>1. PICK extra \in SUBSET Fresh : Waits(u, "shrink", extra, 0)
        BY <1>6, <2>1, <3>1, <3>4 DEF Scale, kSubset
      <4>2. QED
        BY <2>1, <4>1, WaitsTyped
    <3>5. QED
      BY <2>1, <3>1, <3>2, <3>3, <3>4
  <2>3. QED
    BY <1>6, <2>2, EvictsKeeps DEF Scale
<1>7. ASSUME NEW u \in PoolUsers, NEW s \in CloudSessions, Closed(u, s)
      PROVE  CloudInv'
  BY <1>7, WaitsTyped DEF Closed
<1>8. ASSUME NEW s \in CloudSessions, TtlPasses(s)
      PROVE  CloudInv'
  BY <1>8 DEF TtlPasses
<1>9. QED
  BY <1>1, <1>2, <1>3, <1>4, <1>5, <1>6, <1>7, <1>8 DEF CloudNext

LEMMA CloudStart == CloudInit => CloudInv
BY CloudAssumption DEF CloudInit, CloudInv, CloudTypeOK, LostOnlyByExpiry

(* Whatever becomes of calls to the provider, and however many overlap       *)
(* (CloudSessionPool of session_pool.py), what runs is in the table, so that *)
(* it can be closed, or has been dropped from it for its age.                *)
THEOREM NothingIsLost == CloudSpec => []LostOnlyByExpiry
<1>1. CloudInit => CloudInv
  BY CloudStart
<1>2. CloudInv => LostOnlyByExpiry
  BY DEF CloudInv
<1>3. QED
  BY <1>1, <1>2, CloudStep, PTL DEF CloudSpec

LEMMA CloudTypes == CloudSpec => []CloudTypeOK
<1>1. CloudInv => CloudTypeOK
  BY DEF CloudInv
<1>2. QED
  BY CloudStart, CloudStep, <1>1, PTL DEF CloudSpec

-----------------------------------------------------------------------------
(* ProxyPool.                                                                *)
(* One index further round a list.                                           *)
LEMMA RoundTheList ==
  ASSUME NEW n \in Nat \ {0}, NEW k \in Nat
  PROVE  /\ k % n \in 0..(n - 1)
         /\ k \in 1..n => k % n = IF k = n THEN 0 ELSE k
OBVIOUS

(* What changes the list or the flags forgets whose turn it was.             *)
LEMMA TurnForgotten ==
  ASSUME ProxyInv, ProxyTypeOK', NoneTwice(entries)', (sidelined \cap enabled = {})', turn' = <<>>
  PROVE  ProxyInv'
BY DEF ProxyInv, TurnsLaid, RoundRobinEven

(* Who takes turns stays while the list and the flags stay.                  *)
LEMMA TurnTaken ==
  ASSUME ProxyInv, Available(Proxies) # <<>>,
         nextIndex' = NextIndex(nextIndex % Len(Available(Proxies))),
         turn' = Append(turn, Available(Proxies)[(nextIndex % Len(Available(Proxies))) + 1]),
         UNCHANGED <<entries, healthy, enabled, cooling>>
  PROVE  TurnsLaid' /\ RoundRobinEven'
<1>1. PICK free : free = Available(Proxies)
  OBVIOUS
<1>2. free \in Seq(Proxies) /\ NoneTwice(free)
  <2>1. entries \in Seq(Proxies) /\ NoneTwice(entries)
    BY DEF ProxyInv, ProxyTypeOK
  <2>2. QED
    BY <1>1, <2>1, ThoseFound DEF Available
<1>3. Available(Proxies)' = free
  BY <1>1 DEF Available, Those, Usable
<1>4. PICK n \in Nat \ {0} : n = Len(free)
  BY <1>1, <1>2
<1>5. DOMAIN free = 1..n
  BY <1>2, <1>4
<1>6. nextIndex \in Nat /\ turn \in Seq(Proxies)
  BY DEF ProxyInv, ProxyTypeOK
<1>7. PICK index \in 0..(n - 1) : index = nextIndex % n
  BY <1>4, <1>6, RoundTheList
<1>8. nextIndex' = index + 1 /\ free[index + 1] \in Proxies /\ index + 1 \in 1..n
      /\ turn' = Append(turn, free[index + 1])
  BY <1>1, <1>2, <1>4, <1>5, <1>7 DEF NextIndex
<1>9. PICK size \in Nat : size = Len(turn)
  BY <1>6
<1>10. /\ Len(turn') = size + 1 /\ turn'[size + 1] = free[index + 1] /\ DOMAIN turn' = 1..(size + 1)
       /\ DOMAIN turn = 1..size /\ \A i \in 1..size : turn'[i] = turn[i]
  BY <1>6, <1>8, <1>9
<1>11. size # 0 => /\ nextIndex \in 1..n
                   /\ \A k \in 0..(n - 1) :
                        k < size => turn[size - k] = free[Place(k, n)]
  BY <1>1, <1>4, <1>6, <1>9 DEF ProxyInv, TurnsLaid
<1>12. size # 0 => index = IF nextIndex = n THEN 0 ELSE nextIndex
  BY <1>4, <1>6, <1>7, <1>11, RoundTheList
<1>13. ASSUME NEW k \in 0..(n - 1)
       PROVE  Place(k, n)' = IF k < index + 1 THEN index + 1 - k ELSE index + 1 - k + n
  BY <1>8 DEF Place
<1>14. ASSUME NEW k \in 0..(n - 1), k < size + 1
       PROVE  turn'[size + 1 - k] = free[Place(k, n)']
  <2>1. CASE k = 0
    <3>1. Place(k, n)' = index + 1
      BY <1>7, <1>13, <2>1
    <3>2. QED
      BY <1>10, <2>1, <3>1
  <2>2. CASE k # 0
    <3>1. k - 1 \in 0..(n - 1) /\ k - 1 < size /\ size # 0 /\ size + 1 - k \in 1..size
          /\ size - (k - 1) = size + 1 - k
      BY <1>4, <1>9, <1>14, <2>2
    <3>2. turn'[size + 1 - k] = turn[size + 1 - k]
      BY <1>10, <3>1
    <3>3. turn[size + 1 - k] = free[Place(k - 1, n)]
      BY <1>11, <3>1
    <3>4. Place(k - 1, n) = Place(k, n)'
      <4>1. Place(k - 1, n) = IF k - 1 < nextIndex THEN nextIndex - (k - 1) ELSE nextIndex - (k - 1) + n
        BY DEF Place
      <4>2. nextIndex \in 1..n /\ index = IF nextIndex = n THEN 0 ELSE nextIndex
        BY <1>11, <1>12, <3>1
      <4>3. PICK place : place = Place(k, n)'
        OBVIOUS
      <4>4. place = IF k < index + 1 THEN index + 1 - k ELSE index + 1 - k + n
        BY <1>13, <4>3
      <4>5. Place(k - 1, n) = place
        BY <1>4, <1>7, <2>2, <4>1, <4>2, <4>4
      <4>6. QED
        BY <4>3, <4>5
    <3>5. QED
      BY <3>2, <3>3, <3>4
  <2>3. QED
    BY <2>1, <2>2
<1>15. TurnsLaid'
  <2>1. nextIndex' \in 1..Len(free)
    BY <1>4, <1>8
  <2>2. QED
    BY <1>3, <1>4, <1>10, <1>14, <2>1 DEF TurnsLaid
<1>16. ASSUME NEW i \in 1..(size + 1), NEW j \in 1..(size + 1), i < j, turn'[i] = turn'[j]
       PROVE  j - i >= n
  <2>1. i \in 1..size
    BY <1>9, <1>16
  <2>2. CASE j \in 1..size
    BY <1>1, <1>4, <1>10, <1>16, <2>1, <2>2 DEF ProxyInv, RoundRobinEven
  <2>3. CASE j = size + 1
    <3>1. SUFFICES ASSUME j - i < n
                   PROVE  FALSE
      BY <1>4, <1>9
    <3>2. PICK k \in 0..(n - 1) : k = j - i
      BY <1>4, <1>9, <1>16, <3>1
    <3>3. k # 0 /\ k < size + 1 /\ size + 1 - k = i /\ 0 \in 0..(n - 1) /\ 0 < size + 1
          /\ size + 1 - 0 = size + 1
      BY <1>4, <1>9, <1>16, <2>3, <3>2
    <3>4. turn'[i] = free[Place(k, n)'] /\ turn'[size + 1] = free[Place(0, n)']
      <4>1. turn'[i] = free[Place(k, n)']
        BY <1>14, <3>3
      <4>2. turn'[size + 1 - 0] = free[Place(0, n)']
        BY ONLY <1>14, <3>3
      <4>3. QED
        BY <3>3, <4>1, <4>2
    <3>5. PICK there : there = Place(k, n)'
      OBVIOUS
    <3>6. PICK here : here = Place(0, n)'
      OBVIOUS
    <3>7. there = IF k < index + 1 THEN index + 1 - k ELSE index + 1 - k + n
      BY <1>13, <3>5
    <3>8. here = index + 1
      BY <1>7, <1>13, <3>3, <3>6
    <3>9. there \in 1..n /\ here \in 1..n /\ there # here
      <4>1. n \in Nat /\ index \in Nat /\ index < n /\ k \in Nat /\ k < n /\ k # 0
        BY <1>4, <1>7, <3>2, <3>3
      <4>2. CASE k < index + 1
        BY ONLY <3>7, <3>8, <4>1, <4>2
      <4>3. CASE ~(k < index + 1)
        BY ONLY <3>7, <3>8, <4>1, <4>3
      <4>4. QED
        BY ONLY <4>2, <4>3
    <3>10. free[there] = free[here]
      BY <1>16, <2>3, <3>4, <3>5, <3>6
    <3>11. QED
      BY <1>2, <1>5, <3>9, <3>10 DEF NoneTwice
  <2>4. QED
    BY <1>9, <2>2, <2>3
<1>17. RoundRobinEven'
  BY <1>3, <1>4, <1>10, <1>16 DEF RoundRobinEven
<1>18. QED
  BY <1>15, <1>17

LEMMA PickKeeps ==
  ASSUME ProxyInv, NEW group, InTurn(group), UNCHANGED <<entries, flagVars, checks, stickyMap>>
  PROVE  ProxyInv'
<1>1. PICK free : free = Available(group)
  OBVIOUS
<1>2. free \in Seq(Proxies) /\ free # <<>>
  <2>1. entries \in Seq(Proxies) /\ NoneTwice(entries)
    BY DEF ProxyInv, ProxyTypeOK
  <2>2. QED
    BY <1>1, <2>1, ThoseFound DEF Available, InTurn
<1>3. PICK n \in Nat \ {0} : n = Len(free)
  BY <1>2
<1>4. PICK index \in 0..(n - 1) : index = nextIndex % n
  BY <1>3, RoundTheList DEF ProxyInv, ProxyTypeOK
<1>5. free[index + 1] \in Proxies
  BY <1>2, <1>3
<1>6. turn' = IF group = Proxies THEN Append(turn, free[index + 1]) ELSE <<>>
  BY <1>1, <1>3, <1>4 DEF InTurn
<1>7. nextIndex' = index + 1
  BY <1>1, <1>3, <1>4 DEF InTurn, NextIndex
<1>8. ProxyTypeOK'
  <2>1. turn' \in Seq(Proxies)
    BY <1>5, <1>6 DEF ProxyInv, ProxyTypeOK
  <2>2. nextIndex' \in Nat
    BY <1>7
  <2>3. QED
    BY <2>1, <2>2 DEF ProxyInv, ProxyTypeOK, flagVars
<1>9. NoneTwice(entries)' /\ (sidelined \cap enabled = {})'
  BY DEF ProxyInv, flagVars, NoneTwice
<1>10. CASE group = Proxies
  <2>1. /\ Available(Proxies) # <<>>
        /\ nextIndex' = NextIndex(nextIndex % Len(Available(Proxies)))
        /\ turn' = Append(turn, Available(Proxies)[(nextIndex % Len(Available(Proxies))) + 1])
    BY <1>10 DEF InTurn
  <2>2. TurnsLaid' /\ RoundRobinEven'
    BY <2>1, TurnTaken DEF flagVars
  <2>3. QED
    BY <1>8, <1>9, <2>2 DEF ProxyInv
<1>11. CASE group # Proxies
  BY <1>6, <1>8, <1>9, <1>11, TurnForgotten
<1>12. QED
  BY <1>10, <1>11

LEMMA StickyKeeps ==
  ASSUME ProxyInv, NEW s \in PinnedTo, PickSticky(s)
  PROVE  ProxyInv'
<1>1. PICK free : free = Available(Proxies)
  OBVIOUS
<1>2. free \in Seq(Proxies) /\ free # <<>>
  <2>1. entries \in Seq(Proxies) /\ NoneTwice(entries)
    BY DEF ProxyInv, ProxyTypeOK
  <2>2. QED
    BY <1>1, <2>1, ThoseFound DEF Available, PickSticky
<1>3. PICK n \in Nat \ {0} : n = Len(free)
  BY <1>2
<1>4. PICK index \in 0..(n - 1) : index = nextIndex % n
  BY <1>3, RoundTheList DEF ProxyInv, ProxyTypeOK
<1>5. free[index + 1] \in Proxies
  BY <1>2, <1>3
<1>6. nextIndex' = index + 1 /\ stickyMap' = [stickyMap EXCEPT ![s] = free[index + 1]]
  BY <1>1, <1>3, <1>4 DEF PickSticky, NextIndex
<1>7. ProxyTypeOK'
  BY <1>5, <1>6 DEF ProxyInv, ProxyTypeOK, PickSticky, flagVars
<1>8. NoneTwice(entries)' /\ (sidelined \cap enabled = {})'
  BY DEF ProxyInv, PickSticky, flagVars, NoneTwice
<1>9. QED
  BY <1>7, <1>8, TurnForgotten DEF PickSticky

LEMMA AddKeeps ==
  ASSUME ProxyInv, NEW p \in Proxies, AddProxy(p)
  PROVE  ProxyInv'
<1>1. entries' = Append(entries, p) /\ entries \in Seq(Proxies)
  BY DEF AddProxy, ProxyInv, ProxyTypeOK
<1>2. PICK n \in Nat : n = Len(entries)
  BY <1>1
<1>3. /\ DOMAIN entries' = 1..(n + 1) /\ entries'[n + 1] = p /\ DOMAIN entries = 1..n
      /\ \A i \in 1..n : entries'[i] = entries[i]
  BY <1>1, <1>2
<1>4. \A i \in 1..n : entries[i] # p
  BY <1>2 DEF AddProxy, Pooled
<1>5. NoneTwice(entries)'
  <2>1. SUFFICES ASSUME NEW i \in 1..(n + 1), NEW j \in 1..(n + 1), entries'[i] = entries'[j]
                 PROVE  i = j
    BY <1>3 DEF NoneTwice
  <2>2. (i \in 1..n \/ i = n + 1) /\ (j \in 1..n \/ j = n + 1)
    BY <1>2
  <2>3. NoneTwice(entries)
    BY DEF ProxyInv
  <2>4. QED
    BY <1>3, <1>4, <2>1, <2>2, <2>3 DEF NoneTwice
<1>6. ProxyTypeOK'
  <2>1. failures' \in [Proxies -> 0..FailureThreshold]
    BY ProxyAssumption DEF AddProxy, ProxyInv, ProxyTypeOK
  <2>2. entries' \in Seq(Proxies) /\ turn' \in Seq(Proxies)
    BY <1>1 DEF AddProxy
  <2>3. QED
    BY <2>1, <2>2 DEF AddProxy, ProxyInv, ProxyTypeOK
<1>7. QED
  BY <1>5, <1>6, TurnForgotten DEF AddProxy, ProxyInv

LEMMA ForgottenTyped ==
  ASSUME ProxyInv, NEW gone \in SUBSET Proxies, Forgotten(gone)
  PROVE  /\ healthy' \subseteq Proxies /\ enabled' \subseteq Proxies /\ cooling' \subseteq Proxies
         /\ sidelined' \subseteq Proxies /\ failures' \in [Proxies -> 0..FailureThreshold]
         /\ (sidelined \cap enabled = {})'
BY ProxyAssumption DEF ProxyInv, ProxyTypeOK, Forgotten

LEMMA RemoveKeeps ==
  ASSUME ProxyInv, NEW p \in Proxies, RemoveProxy(p)
  PROVE  ProxyInv'
<1>1. entries' \in Seq(Proxies) /\ NoneTwice(entries')
  <2>1. entries \in Seq(Proxies) /\ NoneTwice(entries)
    BY DEF ProxyInv, ProxyTypeOK
  <2>2. QED
    BY <2>1, ThoseFound DEF RemoveProxy
<1>2. NoneTwice(entries)'
  BY <1>1 DEF NoneTwice
<1>3. ProxyTypeOK' /\ (sidelined \cap enabled = {})'
  BY <1>1, ForgottenTyped DEF RemoveProxy, ProxyInv, ProxyTypeOK
<1>4. QED
  BY <1>2, <1>3, TurnForgotten DEF RemoveProxy

LEMMA ClearKeeps ==
  ASSUME ProxyInv, ClearPool
  PROVE  ProxyInv'
<1>1. NoneTwice(entries)'
  BY DEF ClearPool, NoneTwice
<1>2. ProxyTypeOK' /\ (sidelined \cap enabled = {})'
  BY ForgottenTyped DEF ClearPool, ProxyInv, ProxyTypeOK
<1>3. QED
  BY <1>1, <1>2, TurnForgotten DEF ClearPool

LEMMA FailureKeeps ==
  ASSUME ProxyInv, NEW p \in Proxies, ReportFailure(p)
  PROVE  ProxyInv'
<1>1. NoneTwice(entries)' /\ entries' = entries /\ turn' = <<>>
  BY DEF ProxyInv, ReportFailure, NoneTwice
<1>2. PICK count \in Nat : count = failures[p] + 1
  BY ProxyAssumption DEF ProxyInv, ProxyTypeOK
<1>3. ProxyTypeOK' /\ (sidelined \cap enabled = {})'
  <2>1. CASE count < FailureThreshold
    <3>0. failures' = [failures EXCEPT ![p] = count] /\ count \in 0..FailureThreshold
      BY <1>2, <2>1, ProxyAssumption DEF ReportFailure
    <3>1. failures' \in [Proxies -> 0..FailureThreshold]
      BY <3>0 DEF ProxyInv, ProxyTypeOK
    <3>2. UNCHANGED <<healthy, enabled, cooling, sidelined>>
      BY <1>2, <2>1 DEF ReportFailure
    <3>3. QED
      BY <1>1, <3>1, <3>2 DEF ProxyInv, ProxyTypeOK, ReportFailure
  <2>2. CASE ~(count < FailureThreshold)
    <3>1. failures' \in [Proxies -> 0..FailureThreshold]
      BY <1>2, <2>2, ProxyAssumption DEF ProxyInv, ProxyTypeOK, ReportFailure
    <3>2. /\ cooling' = cooling \cup {p} /\ healthy' = healthy \ {p}
          /\ enabled' = enabled \ {p} /\ sidelined' = sidelined \cup {p}
      BY <1>2, <2>2 DEF ReportFailure
    <3>3. QED
      BY <1>1, <3>1, <3>2 DEF ProxyInv, ProxyTypeOK, ReportFailure
  <2>3. QED
    BY <2>1, <2>2
<1>4. QED
  BY <1>1, <1>3, TurnForgotten

LEMMA TurnStays ==
  ASSUME ProxyInv, UNCHANGED <<entries, flagVars, pickVars>>, checks' \subseteq Proxies
  PROVE  ProxyInv'
<1>1. PICK free : free = Available(Proxies)
  OBVIOUS
<1>2. Available(Proxies)' = free
  BY <1>1 DEF Available, Those, Usable, flagVars
<1>3. \A k, n : Place(k, n)' = Place(k, n)
  BY DEF Place, pickVars
<1>4. turn' = turn /\ nextIndex' = nextIndex /\ entries' = entries
  BY DEF pickVars
<1>5. TurnsLaid'
  BY <1>1, <1>2, <1>3, <1>4 DEF ProxyInv, TurnsLaid
<1>6. RoundRobinEven'
  BY <1>1, <1>2, <1>4 DEF ProxyInv, RoundRobinEven
<1>7. ProxyTypeOK' /\ NoneTwice(entries)' /\ (sidelined \cap enabled = {})'
  BY DEF ProxyInv, ProxyTypeOK, NoneTwice, flagVars, pickVars
<1>8. QED
  BY <1>5, <1>6, <1>7 DEF ProxyInv

LEMMA OtherKeeps ==
  ASSUME ProxyInv, NEW p \in Proxies,
         CheckStarts(p) \/ (\E ok \in BOOLEAN : CheckEnds(p, ok)) \/ ReportSuccess(p) \/ CooldownEnds(p)
  PROVE  ProxyInv'
<1>1. CASE CheckStarts(p)
  <2>1. UNCHANGED <<entries, flagVars, pickVars>> /\ checks' \subseteq Proxies
    BY <1>1 DEF CheckStarts, ProxyInv, ProxyTypeOK
  <2>2. QED
    BY <2>1, TurnStays
<1>2. CASE \E ok \in BOOLEAN : CheckEnds(p, ok)
  <2>1. ProxyTypeOK' /\ turn' = <<>> /\ NoneTwice(entries)' /\ (sidelined \cap enabled = {})'
    BY <1>2 DEF CheckEnds, ProxyInv, ProxyTypeOK, NoneTwice
  <2>2. QED
    BY <2>1, TurnForgotten
<1>3. CASE ReportSuccess(p)
  <2>1. failures' \in [Proxies -> 0..FailureThreshold]
    BY <1>3, ProxyAssumption DEF ReportSuccess, ProxyInv, ProxyTypeOK
  <2>2. ProxyTypeOK' /\ turn' = <<>> /\ NoneTwice(entries)' /\ (sidelined \cap enabled = {})'
    BY <1>3, <2>1 DEF ReportSuccess, ProxyInv, ProxyTypeOK, NoneTwice
  <2>3. QED
    BY <2>2, TurnForgotten
<1>4. CASE CooldownEnds(p)
  <2>1. ProxyTypeOK' /\ turn' = <<>> /\ NoneTwice(entries)' /\ (sidelined \cap enabled = {})'
    BY <1>4 DEF CooldownEnds, ProxyInv, ProxyTypeOK, NoneTwice
  <2>2. QED
    BY <2>1, TurnForgotten
<1>5. QED
  BY <1>1, <1>2, <1>3, <1>4

LEMMA ProxyStep ==
  ASSUME ProxyInv, [ProxyNext]_proxyVars
  PROVE  ProxyInv'
<1>1. CASE ProxyNext
  <2>1. ASSUME NEW p \in Proxies, AddProxy(p) \/ RemoveProxy(p) \/ ReportFailure(p)
        PROVE  ProxyInv'
    BY <2>1, AddKeeps, RemoveKeeps, FailureKeeps
  <2>2. CASE PickRoundRobin \/ PickByTag
    BY <2>2, PickKeeps DEF PickRoundRobin, PickByTag
  <2>3. QED
    BY <1>1, <2>1, <2>2, OtherKeeps, ClearKeeps, StickyKeeps DEF ProxyNext
<1>2. CASE UNCHANGED proxyVars
  <2>1. UNCHANGED <<entries, flagVars, pickVars>> /\ checks' \subseteq Proxies
    BY <1>2 DEF proxyVars, ProxyInv, ProxyTypeOK
  <2>2. QED
    BY <2>1, TurnStays
<1>3. QED
  BY <1>1, <1>2

LEMMA ProxyStart ==
  ASSUME ProxyInit
  PROVE  ProxyInv
BY ProxyAssumption DEF ProxyInit, ProxyInv, ProxyTypeOK, TurnsLaid, RoundRobinEven, NoneTwice

(* Whatever the pool and its users do in whatever order, no strategy returns *)
(* a proxy at the failure threshold before a success is reported for it, and *)
(* round-robin returns every available proxy before it returns one again     *)
(* (get_proxy, report_failure, health_check_async).                          *)
THEOREM ProxiesTakeTurns == ProxySpec => [](SidelinedStaysOut /\ RoundRobinEven)
<1>1. ProxyInv => SidelinedStaysOut /\ RoundRobinEven
  BY DEF ProxyInv, SidelinedStaysOut, Offered, Usable
<1>2. QED
  BY ProxyStart, ProxyStep, <1>1, PTL DEF ProxySpec

LEMMA ProxyTypes == ProxySpec => []ProxyTypeOK
<1>1. ProxyInv => ProxyTypeOK
  BY DEF ProxyInv
<1>2. QED
  BY ProxyStart, ProxyStep, <1>1, PTL DEF ProxySpec

-----------------------------------------------------------------------------
(* Profiles.                                                                 *)
ProfileInv == ProfileTypeOK /\ ListedSurvives

LEMMA ProfilesStart == ProfileInit => ProfileInv
BY DEF ProfileInit, ProfileInv, ProfileTypeOK, ListedSurvives, Known, NoProfiles, Contents

LEMMA SavedProfiles ==
  ASSUME ProfileInv, profiles' \in [ProfileNames -> Contents], Save(profiles')
  PROVE  ProfileInv'
BY DEF Save, ProfileInv, ProfileTypeOK, ListedSurvives, Known, NoProfiles, Contents

LEMMA PutProfile ==
  ASSUME ProfileInv, NEW n \in ProfileNames, NEW content \in Contents, Puts(n, content)
  PROVE  ProfileInv'
BY SavedProfiles DEF Puts, ProfileInv, ProfileTypeOK

LEMMA ProfilesStep == ProfileInv /\ [ProfileNext]_profileVars => ProfileInv'
<1>1. SUFFICES ASSUME ProfileInv, [ProfileNext]_profileVars
               PROVE  ProfileInv'
  OBVIOUS
<1>2. CASE UNCHANGED profileVars
  BY <1>1, <1>2 DEF profileVars, ProfileInv, ProfileTypeOK, ListedSurvives, Known
<1>3. ASSUME NEW n \in ProfileNames,
             \/ CreateProfile(n) \/ ImportProfile(n) \/ CreateAntiDetection(n)
             \/ SetFingerprint(n) \/ UpdateProfile(n) \/ EditExtensions(n) \/ DeleteProfile(n)
      PROVE  ProfileInv'
  <2>1. \E content \in Contents : Puts(n, content)
    BY <1>1, <1>3
       DEF CreateProfile, ImportProfile, CreateAntiDetection, SetFingerprint, UpdateProfile,
           EditExtensions, DeleteProfile, ProfileInv, ProfileTypeOK, Contents
  <2>2. QED
    BY <1>1, <2>1, PutProfile
<1>4. ASSUME NEW n \in ProfileNames, RenameFails(n)
      PROVE  ProfileInv'
  BY <1>1, <1>4 DEF RenameFails, ProfileInv, ProfileTypeOK, ListedSurvives, Known, Contents
<1>5. ASSUME NEW n \in ProfileNames, SessionProfile(n)
      PROVE  ProfileInv'
  BY <1>1, <1>5 DEF SessionProfile, ProfileInv, ProfileTypeOK, ListedSurvives, Known, Contents
<1>6. ASSUME NEW n \in ProfileNames, NEW to \in ProfileNames, RenameProfile(n, to)
      PROVE  ProfileInv'
  <2>1. profiles' \in [ProfileNames -> Contents] /\ Save(profiles')
    BY <1>1, <1>6 DEF RenameProfile, ProfileInv, ProfileTypeOK, Contents
  <2>2. QED
    BY <1>1, <2>1, SavedProfiles
<1>7. CASE Restart
  BY <1>1, <1>7 DEF Restart, ProfileInv, ProfileTypeOK, ListedSurvives, Known
<1>8. CASE CrashInSave
  BY <1>1, <1>8 DEF CrashInSave, ProfileInv, ProfileTypeOK, ListedSurvives, Known, NoProfiles, Contents
<1>9. QED
  BY <1>1, <1>2, <1>3, <1>4, <1>5, <1>6, <1>7, <1>8 DEF ProfileNext

(* A restart brings back every profile that is listed, as it is listed,      *)
(* unless the last save failed (ProfileManager.save, _load, session_new).    *)
THEOREM ProfilesSurvive == ProfileSpec => []ListedSurvives
<1>1. ProfileInv => ListedSurvives
  BY DEF ProfileInv
<1>2. QED
  BY <1>1, ProfilesStart, ProfilesStep, PTL DEF ProfileSpec

LEMMA ProfileTypes == ProfileSpec => []ProfileTypeOK
<1>1. ProfileInv => ProfileTypeOK
  BY DEF ProfileInv
<1>2. QED
  BY ProfilesStart, ProfilesStep, <1>1, PTL DEF ProfileSpec

-----------------------------------------------------------------------------
(* Saved logins.                                                             *)
LoginIds == 0..MaxLogins
Logins == [cookies : LoginIds, storage : LoginIds]
Captures0 == [cookies : LoginIds, there : BOOLEAN, stale : BOOLEAN]
KeepOps == {"none", "capture", "restore", "save", "profile", "bundle", "clone"}
KeepSteps == {"idle", "connect", "create", "cookies", "storage", "touch", "write"}
KeepRecords ==
    [op : KeepOps, pc : KeepSteps, id : Saves \cup {"none"}, cookies : LoginIds, storage : LoginIds]
SavedShape ==
    /\ account \in Logins /\ bundle \in Logins /\ logins \in LoginIds /\ mixed \in BOOLEAN
    /\ archive \in [Saves -> Captures0] /\ captured \in [Saves -> Captures0]
    /\ keeping \in [Keepers -> KeepRecords]

(* What a request has read or is to set, as long as nobody came between.     *)
KeeperSound(e, a) ==
    /\ e.pc = "idle" => e.op = "none" /\ e.cookies = 0 /\ e.storage = 0
    /\ e.op = "bundle" => e.cookies = e.storage
    /\ e.op = "bundle" /\ e.pc = "storage" /\ e.cookies # 0 => a.cookies = e.cookies
    /\ e.op = "clone" => a.cookies = e.cookies /\ e.pc \in {"create", "cookies"}
    /\ Saving(e.op) /\ e.pc = "storage" => a.cookies = e.cookies
    /\ Saving(e.op) /\ e.pc = "write" => e.cookies = e.storage
SetsStorage(e) == e.op = "bundle" /\ e.pc = "storage" /\ e.cookies # 0
CopySound(n) == /\ archive[n].cookies = captured[n].cookies /\ archive[n].there = captured[n].there
                /\ ~captured[n].stale
SavedWhole ==
    /\ \A k \in Keepers : KeeperSound(keeping[k], account)
    /\ bundle.cookies = bundle.storage
    /\ account.cookies = account.storage \/ \E k \in Keepers : SetsStorage(keeping[k])
    /\ \A n \in Saves : CopySound(n)
SavedInv == SavedShape /\ (~mixed => SavedWhole)

LEMMA NoLogin == Signed0 \in LoginIds /\ 0 \in LoginIds
BY SavedAssumption DEF Signed0, LoginIds

LEMMA LoginsAreKept == SavedInv => LoginsWhole
<1>1. SUFFICES ASSUME SavedInv, ~mixed
               PROVE  /\ bundle.cookies = bundle.storage
                      /\ account.cookies = account.storage
                           \/ \E k \in Keepers : KeeperAt(k, "bundle", "storage")
                      /\ \A n \in Saves : [archive[n] EXCEPT !.stale = FALSE] = captured[n]
  BY DEF LoginsWhole
<1>2. \A n \in Saves : [archive[n] EXCEPT !.stale = FALSE] = captured[n]
  <2>1. TAKE n \in Saves
  <2>2. archive[n] \in Captures0 /\ captured[n] \in Captures0 /\ CopySound(n)
    BY <1>1 DEF SavedInv, SavedShape, SavedWhole
  <2>3. QED
    BY <2>2 DEF Captures0, CopySound
<1>3. QED
  BY <1>1, <1>2 DEF SavedInv, SavedWhole, SetsStorage, KeeperAt

LEMMA SavedTyped == SavedInv => SavedTypeOK
<1> SUFFICES ASSUME SavedInv
             PROVE  SavedTypeOK
  OBVIOUS
<1>1. \A n \in Saves : archive[n] \in Captures0
  BY DEF SavedInv, SavedShape
<1>2. \A k \in Keepers : keeping[k] \in KeepRecords
  BY DEF SavedInv, SavedShape
<1>3. account \in Logins /\ bundle \in Logins
  BY DEF SavedInv, SavedShape
<1>4. QED
  BY <1>1, <1>2, <1>3 DEF SavedTypeOK, Captures0, KeepRecords, KeepSteps, Logins, LoginIds

LEMMA SavedStart == SavedInit => SavedInv
<1>1. SUFFICES ASSUME SavedInit PROVE SavedInv
  OBVIOUS
<1>2. NoState \in Captures0 /\ Resting \in KeepRecords
  BY NoLogin DEF NoState, Resting, Signed0, Captures0, KeepRecords, KeepOps, KeepSteps
<1>3. account \in Logins /\ account.cookies = account.storage
  BY <1>1, NoLogin DEF SavedInit, Signed0, Logins
<1>4. SavedShape
  BY <1>1, <1>2, <1>3, NoLogin DEF SavedInit, SavedShape, Logins, Signed0
<1>5. \A a : KeeperSound(Resting, a)
  BY DEF KeeperSound, Resting, Signed0, Saving
<1>6. \A n \in Saves : CopySound(n)
  BY <1>1 DEF SavedInit, CopySound, NoState
<1>7. SavedWhole
  BY <1>1, <1>3, <1>5, <1>6 DEF SavedInit, SavedWhole
<1>8. QED
  BY <1>4, <1>7 DEF SavedInv

(* What a request keeps when some fields change.                             *)
LEMMA KeepsFields ==
  ASSUME SavedInv, NEW k \in Keepers, NEW changes, Keeps(k, changes),
         "op" \in DOMAIN changes => changes.op \in KeepOps,
         "pc" \in DOMAIN changes => changes.pc \in KeepSteps,
         "id" \in DOMAIN changes => changes.id \in Saves \cup {"none"},
         "cookies" \in DOMAIN changes => changes.cookies \in LoginIds,
         "storage" \in DOMAIN changes => changes.storage \in LoginIds
  PROVE  \E e \in KeepRecords :
           /\ keeping' = [keeping EXCEPT ![k] = e]
           /\ e.op = IF "op" \in DOMAIN changes THEN changes.op ELSE keeping[k].op
           /\ e.pc = IF "pc" \in DOMAIN changes THEN changes.pc ELSE keeping[k].pc
           /\ e.id = IF "id" \in DOMAIN changes THEN changes.id ELSE keeping[k].id
           /\ e.cookies = IF "cookies" \in DOMAIN changes THEN changes.cookies ELSE keeping[k].cookies
           /\ e.storage = IF "storage" \in DOMAIN changes THEN changes.storage ELSE keeping[k].storage
<1>1. keeping[k] \in KeepRecords
  BY DEF SavedInv, SavedShape
<1>2. PICK e : e = [f \in DOMAIN Resting |-> IF f \in DOMAIN changes THEN changes[f] ELSE keeping[k][f]]
  OBVIOUS
<1>3. keeping' = [keeping EXCEPT ![k] = e]
  BY <1>2 DEF Keeps
<1>4. e \in KeepRecords
  BY <1>1, <1>2 DEF KeepRecords, Resting
<1>5. QED
  BY <1>2, <1>3, <1>4 DEF Resting

(* One request takes a step; the login in the browser stays.                 *)
LEMMA KeeperMoves ==
  ASSUME SavedInv, NEW k \in Keepers, NEW e \in KeepRecords, SavedShape',
         keeping' = [keeping EXCEPT ![k] = e], UNCHANGED account, ~mixed' => ~mixed,
         ~mixed' => /\ ~SetsStorage(keeping[k]) /\ KeeperSound(e, account)
                    /\ bundle'.cookies = bundle'.storage /\ \A n \in Saves : CopySound(n)'
  PROVE  SavedInv'
<1>1. ASSUME ~mixed' PROVE SavedWhole'
  <2>1. SavedWhole
    BY <1>1 DEF SavedInv
  <2>2. \A j \in Keepers : KeeperSound(keeping'[j], account)
    BY <1>1, <2>1 DEF SavedInv, SavedShape, SavedWhole
  <2>3. account.cookies = account.storage \/ \E j \in Keepers : SetsStorage(keeping'[j])
    BY <1>1, <2>1 DEF SavedInv, SavedShape, SavedWhole
  <2>4. QED
    BY <1>1, <2>2, <2>3 DEF SavedWhole
<1>2. QED
  BY <1>1 DEF SavedInv

(* One request takes a step and only its own record changes.                 *)
LEMMA KeeperSteps ==
  ASSUME SavedInv, NEW k \in Keepers, NEW e \in KeepRecords,
         keeping' = [keeping EXCEPT ![k] = e], mixed' \in BOOLEAN, ~mixed' => ~mixed,
         UNCHANGED <<account, logins, archive, bundle, captured>>,
         ~mixed' => ~SetsStorage(keeping[k]) /\ KeeperSound(e, account)
  PROVE  SavedInv'
<1>1. SavedShape'
  BY DEF SavedInv, SavedShape
<1>2. ~mixed' => bundle'.cookies = bundle'.storage /\ \A n \in Saves : CopySound(n)'
  BY DEF SavedInv, SavedWhole, CopySound
<1>3. QED
  BY <1>1, <1>2, KeeperMoves

(* One request changes the login, and no other was halfway.                  *)
LEMMA LoginMoves ==
  ASSUME SavedInv, NEW k \in Keepers, NEW e \in KeepRecords, NEW a \in Logins,
         keeping' = [keeping EXCEPT ![k] = e], account' = a, MeetsOther(k),
         UNCHANGED <<logins, archive, bundle, captured>>,
         ~mixed' => KeeperSound(e, a) /\ (a.cookies = a.storage \/ SetsStorage(e))
  PROVE  SavedInv'
<1>1. SavedShape' /\ (~mixed' => ~mixed /\ \A j \in Keepers \ {k} : ~Halfway(j))
  BY DEF SavedInv, SavedShape, MeetsOther
<1>2. ASSUME ~mixed' PROVE SavedWhole'
  <2>1. SavedWhole
    BY <1>1, <1>2 DEF SavedInv
  <2>2. ASSUME NEW j \in Keepers
        PROVE  KeeperSound(keeping'[j], a)
    <3>1. CASE j = k
      BY <1>2, <3>1 DEF SavedInv, SavedShape
    <3>2. CASE j # k
      <4>1. keeping'[j] = keeping[j] /\ KeeperSound(keeping[j], account) /\ ~Halfway(j)
        BY <1>1, <1>2, <2>1, <3>2 DEF SavedInv, SavedShape, SavedWhole
      <4>2. QED
        BY <4>1 DEF KeeperSound, Halfway, KeeperAt
    <3>3. QED
      BY <3>1, <3>2
  <2>3. a.cookies = a.storage \/ \E j \in Keepers : SetsStorage(keeping'[j])
    BY <1>2 DEF SavedInv, SavedShape
  <2>4. QED
    BY <2>1, <2>2, <2>3 DEF SavedWhole, CopySound
<1>3. QED
  BY <1>1, <1>2 DEF SavedInv

(* Once a login is mixed, only the shape is left to keep.                    *)
LEMMA MixedKeeps == SavedShape' /\ mixed' => SavedInv'
BY DEF SavedInv

LEMMA KeepingTyped ==
  ASSUME SavedInv, NEW k \in Keepers
  PROVE  /\ keeping[k] \in KeepRecords /\ keeping[k].cookies \in LoginIds /\ keeping[k].storage \in LoginIds
         /\ account.cookies \in LoginIds /\ account.storage \in LoginIds
         /\ bundle.cookies \in LoginIds /\ bundle.storage \in LoginIds
BY DEF SavedInv, SavedShape, KeepRecords, Logins

LEMMA RestingSound == Resting \in KeepRecords /\ (\A a : KeeperSound(Resting, a)) /\ ~SetsStorage(Resting)
BY NoLogin DEF KeeperSound, Resting, Signed0, Saving, KeepRecords, KeepOps, KeepSteps, SetsStorage

LEMMA AskCaptureKeeps ==
  ASSUME SavedInv, NEW k \in Keepers, NEW n \in Saves, AskCapture(k, n)
  PROVE  SavedInv'
<1>1. PICK pc \in {"cookies", "write"} : Keeps(k, [op |-> "capture", pc |-> pc, id |-> n])
  BY DEF AskCapture
<1>2. PICK e \in KeepRecords : /\ keeping' = [keeping EXCEPT ![k] = e]
                               /\ e.op = "capture" /\ e.pc = pc
                               /\ e.cookies = keeping[k].cookies /\ e.storage = keeping[k].storage
  BY <1>1, KeepsFields DEF KeepOps, KeepSteps
<1>3. KeeperSound(e, account)
  BY <1>2 DEF KeeperSound, Saving
<1>4. QED
  BY <1>2, <1>3, KeeperSteps DEF AskCapture, SetsStorage, SavedInv, SavedShape

LEMMA CaptureReadsKeeps ==
  ASSUME SavedInv, NEW k \in Keepers, CaptureReads(k)
  PROVE  SavedInv'
<1>1. PICK c \in LoginIds : Keeps(k, [pc |-> "write", cookies |-> c]) \/ Keeps(k, [pc |-> "write"])
  BY KeepingTyped DEF CaptureReads
<1>2. PICK e \in KeepRecords : /\ keeping' = [keeping EXCEPT ![k] = e]
                               /\ e.op = "capture" /\ e.pc = "write"
  <2>1. CASE Keeps(k, [pc |-> "write", cookies |-> c])
    BY <2>1, KeepsFields DEF KeepOps, KeepSteps, CaptureReads, KeeperAt
  <2>2. CASE Keeps(k, [pc |-> "write"])
    BY <2>2, KeepsFields DEF KeepOps, KeepSteps, CaptureReads, KeeperAt
  <2>3. QED
    BY <1>1, <2>1, <2>2
<1>3. KeeperSound(e, account)
  BY <1>2 DEF KeeperSound, Saving
<1>4. QED
  BY <1>2, <1>3, KeeperSteps DEF CaptureReads, KeeperAt, SetsStorage, SavedInv, SavedShape

(* What is written of a captured session.                                    *)
LEMMA StoredTyped ==
  ASSUME SavedInv, NEW k \in Keepers
  PROVE  /\ Stored(k) \in Captures0 /\ Stored(k).cookies = keeping[k].cookies /\ Stored(k).there
         /\ ~Stored(k).stale
BY KeepingTyped DEF Stored, Captures0

LEMMA SavesCaptureKeeps ==
  ASSUME SavedInv, NEW k \in Keepers, SavesCapture(k)
  PROVE  SavedInv'
<1>1. PICK c \in Captures0 : c = Stored(k) /\ ~c.stale
  BY StoredTyped
<1>2. PICK n : n = keeping[k].id
  OBVIOUS
<1>3. archive' = [archive EXCEPT ![n] = c] /\ captured' = [captured EXCEPT ![n] = c]
  BY <1>1, <1>2 DEF SavesCapture
<1>4. keeping' = [keeping EXCEPT ![k] = Resting] /\ UNCHANGED <<account, logins, bundle, mixed>>
  BY DEF SavesCapture, KeeperEnds
<1>5. SavedShape'
  BY <1>3, <1>4, RestingSound DEF SavedInv, SavedShape
<1>6. ~mixed' => \A m \in Saves : CopySound(m)'
  <2>1. SUFFICES ASSUME ~mixed', NEW m \in Saves
                 PROVE  CopySound(m)'
    OBVIOUS
  <2>2. CopySound(m)
    BY <1>4, <2>1 DEF SavedInv, SavedWhole
  <2>3. CASE m = n
    <3>1. archive'[m] = c /\ captured'[m] = c
      BY <1>3, <2>3 DEF SavedInv, SavedShape
    <3>2. QED
      BY <1>1, <3>1 DEF CopySound
  <2>4. CASE m # n
    BY <1>3, <2>2, <2>4 DEF SavedInv, SavedShape, CopySound
  <2>5. QED
    BY <2>3, <2>4
<1>7. ~mixed' => bundle'.cookies = bundle'.storage
  BY <1>4 DEF SavedInv, SavedWhole
<1>8. ~SetsStorage(keeping[k])
  BY DEF SavesCapture, KeeperAt, SetsStorage
<1>9. QED
  BY <1>4, <1>5, <1>6, <1>7, <1>8, RestingSound, KeeperMoves

LEMMA AskRestoreKeeps ==
  ASSUME SavedInv, NEW k \in Keepers, NEW n \in Saves, AskRestore(k, n)
  PROVE  SavedInv'
<1>1. PICK c \in LoginIds : Keeps(k, [op |-> "restore", pc |-> "connect", id |-> n, cookies |-> c])
  BY DEF AskRestore, SavedInv, SavedShape, Captures0
<1>2. PICK e \in KeepRecords : /\ keeping' = [keeping EXCEPT ![k] = e]
                               /\ e.op = "restore" /\ e.pc = "connect"
  BY <1>1, KeepsFields DEF KeepOps, KeepSteps
<1>3. KeeperSound(e, account)
  BY <1>2 DEF KeeperSound, Saving
<1>4. QED
  BY <1>2, <1>3, KeeperSteps DEF AskRestore, SetsStorage, SavedInv, SavedShape

LEMMA RestoreConnectsKeeps ==
  ASSUME SavedInv, NEW k \in Keepers, RestoreConnects(k)
  PROVE  SavedInv'
<1>1. PICK pc \in {"cookies", "touch"} : Keeps(k, [pc |-> pc])
  BY DEF RestoreConnects
<1>2. PICK e \in KeepRecords : /\ keeping' = [keeping EXCEPT ![k] = e]
                               /\ e.op = "restore" /\ e.pc = pc
  BY <1>1, KeepsFields DEF KeepOps, KeepSteps, RestoreConnects, KeeperAt
<1>3. KeeperSound(e, account)
  BY <1>2 DEF KeeperSound, Saving
<1>4. QED
  BY <1>2, <1>3, KeeperSteps DEF RestoreConnects, KeeperAt, SetsStorage, SavedInv, SavedShape

LEMMA RestoresCookiesKeeps ==
  ASSUME SavedInv, NEW k \in Keepers, RestoresCookies(k)
  PROVE  SavedInv'
<1>1. PICK e \in KeepRecords : /\ keeping' = [keeping EXCEPT ![k] = e]
                               /\ e.op = "restore" /\ e.pc = "touch"
  <2>1. Keeps(k, [pc |-> "touch"])
    BY DEF RestoresCookies
  <2>2. QED
    BY <2>1, KeepsFields DEF KeepOps, KeepSteps, RestoresCookies, KeeperAt
<1>2. KeeperSound(e, account) /\ ~SetsStorage(keeping[k])
  BY <1>1 DEF KeeperSound, Saving, RestoresCookies, KeeperAt, SetsStorage
<1>3. CASE UNCHANGED <<account, mixed>>
  BY <1>1, <1>2, <1>3, KeeperSteps DEF RestoresCookies, SavedInv, SavedShape
<1>4. CASE account' = [account EXCEPT !.cookies = keeping[k].cookies] /\ mixed' = TRUE
  <2>1. account' \in Logins
    BY <1>4, KeepingTyped DEF SavedInv, SavedShape, Logins
  <2>2. SavedShape'
    BY <1>1, <1>4, <2>1 DEF RestoresCookies, SavedInv, SavedShape
  <2>3. QED
    BY <1>4, <2>2, MixedKeeps
<1>5. QED
  BY <1>3, <1>4 DEF RestoresCookies

LEMMA SavesAgainKeeps ==
  ASSUME SavedInv, NEW k \in Keepers, SavesAgain(k)
  PROVE  SavedInv'
<1>1. PICK c \in Captures0 : c = Stored(k) /\ ~c.stale
  BY StoredTyped
<1>2. PICK n : n = keeping[k].id
  OBVIOUS
<1>3. /\ archive' = [archive EXCEPT ![n] = c]
      /\ mixed' = (mixed \/ c # [archive[n] EXCEPT !.stale = FALSE])
  BY <1>1, <1>2 DEF SavesAgain
<1>4. keeping' = [keeping EXCEPT ![k] = Resting] /\ UNCHANGED <<account, logins, bundle, captured>>
  BY DEF SavesAgain, KeeperEnds
<1>5. mixed' \in BOOLEAN /\ (~mixed' => ~mixed /\ c = [archive[n] EXCEPT !.stale = FALSE])
  BY <1>3
<1>6. SavedShape'
  BY <1>3, <1>4, <1>5, RestingSound DEF SavedInv, SavedShape
<1>7. ~mixed' => \A m \in Saves : CopySound(m)'
  <2>1. SUFFICES ASSUME ~mixed', NEW m \in Saves
                 PROVE  CopySound(m)'
    OBVIOUS
  <2>2. CopySound(m) /\ archive[m] \in Captures0
    BY <1>5, <2>1 DEF SavedInv, SavedShape, SavedWhole
  <2>3. CASE m = n
    <3>1. archive'[m] = c /\ captured'[m] = captured[m]
      BY <1>3, <1>4, <2>3 DEF SavedInv, SavedShape
    <3>2. c.cookies = archive[m].cookies /\ c.there = archive[m].there
      BY <1>5, <2>1, <2>2, <2>3 DEF Captures0
    <3>3. QED
      BY <2>2, <3>1, <3>2 DEF CopySound
  <2>4. CASE m # n
    BY <1>3, <1>4, <2>2, <2>4 DEF SavedInv, SavedShape, CopySound
  <2>5. QED
    BY <2>3, <2>4
<1>8. ~mixed' => bundle'.cookies = bundle'.storage
  BY <1>4, <1>5 DEF SavedInv, SavedWhole
<1>9. ~SetsStorage(keeping[k])
  BY DEF SavesAgain, KeeperAt, SetsStorage
<1>10. QED
  BY <1>4, <1>5, <1>6, <1>7, <1>8, <1>9, RestingSound, KeeperMoves

LEMMA DeleteSavedKeeps ==
  ASSUME SavedInv, NEW n \in Saves, DeleteSaved(n)
  PROVE  SavedInv'
<1>1. NoState \in Captures0 /\ ~NoState.stale
  BY NoLogin DEF NoState, Captures0, Signed0
<1>2. /\ archive' = [archive EXCEPT ![n] = NoState] /\ captured' = [captured EXCEPT ![n] = NoState]
      /\ UNCHANGED <<account, logins, bundle, keeping, mixed>>
  BY DEF DeleteSaved
<1>3. SavedShape'
  BY <1>1, <1>2 DEF SavedInv, SavedShape
<1>4. ASSUME ~mixed' PROVE SavedWhole'
  <2>1. SavedWhole
    BY <1>2, <1>4 DEF SavedInv
  <2>2. \A m \in Saves : CopySound(m)'
    BY <1>1, <1>2, <2>1 DEF SavedWhole, CopySound, SavedInv, SavedShape
  <2>3. QED
    BY <1>2, <2>1, <2>2 DEF SavedWhole
<1>5. QED
  BY <1>3, <1>4 DEF SavedInv

LEMMA GrowsOldKeeps ==
  ASSUME SavedInv, NEW n \in Saves, SavedGrowsOld(n)
  PROVE  SavedInv'
<1>1. PICK c : c = [archive[n] EXCEPT !.stale = TRUE]
  OBVIOUS
<1>2. c \in Captures0 /\ c.cookies = archive[n].cookies /\ c.there = archive[n].there
  BY <1>1 DEF SavedInv, SavedShape, Captures0
<1>3. archive' = [archive EXCEPT ![n] = c]
  BY <1>1 DEF SavedGrowsOld
<1>4. UNCHANGED <<account, logins, bundle, keeping, captured, mixed>>
  BY DEF SavedGrowsOld
<1>5. SavedShape'
  BY <1>2, <1>3, <1>4 DEF SavedInv, SavedShape
<1>6. ASSUME ~mixed' PROVE SavedWhole'
  <2>1. SavedWhole
    BY <1>4, <1>6 DEF SavedInv
  <2>2. \A m \in Saves : CopySound(m)'
    BY <1>2, <1>3, <1>4, <2>1 DEF SavedWhole, CopySound, SavedInv, SavedShape
  <2>3. QED
    BY <1>4, <2>1, <2>2 DEF SavedWhole
<1>7. QED
  BY <1>5, <1>6 DEF SavedInv

LEMMA RemoveExpiredKeeps ==
  ASSUME SavedInv, RemoveExpired
  PROVE  SavedInv'
<1>1. NoState \in Captures0 /\ ~NoState.stale
  BY NoLogin DEF NoState, Captures0, Signed0
<1>2. /\ archive' = [n \in Saves |-> IF archive[n].stale THEN NoState ELSE archive[n]]
      /\ captured' = [n \in Saves |-> IF archive[n].stale THEN NoState ELSE captured[n]]
      /\ UNCHANGED <<account, logins, bundle, keeping, mixed>>
  BY DEF RemoveExpired, Renewed
<1>3. SavedShape'
  BY <1>1, <1>2 DEF SavedInv, SavedShape
<1>4. ASSUME ~mixed' PROVE SavedWhole'
  <2>1. SavedWhole
    BY <1>2, <1>4 DEF SavedInv
  <2>2. \A m \in Saves : CopySound(m)'
    BY <1>1, <1>2, <2>1 DEF SavedWhole, CopySound, SavedInv, SavedShape
  <2>3. QED
    BY <1>2, <2>1, <2>2 DEF SavedWhole
<1>5. QED
  BY <1>3, <1>4 DEF SavedInv

LEMMA AskSaveKeeps ==
  ASSUME SavedInv, NEW k \in Keepers, AskSave(k)
  PROVE  SavedInv'
<1>1. PICK op \in {"save", "profile"} : Keeps(k, [op |-> op, pc |-> "cookies"])
  BY DEF AskSave
<1>2. PICK e \in KeepRecords : /\ keeping' = [keeping EXCEPT ![k] = e]
                               /\ e.op = op /\ e.pc = "cookies"
  BY <1>1, KeepsFields DEF KeepOps, KeepSteps
<1>3. KeeperSound(e, account)
  BY <1>2 DEF KeeperSound, Saving
<1>4. QED
  BY <1>2, <1>3, KeeperSteps DEF AskSave, SetsStorage, SavedInv, SavedShape

LEMMA SaveReadsKeeps ==
  ASSUME SavedInv, NEW k \in Keepers, SaveReads(k)
  PROVE  SavedInv'
<1>1. Saving(keeping[k].op) /\ UNCHANGED <<account, logins, archive, bundle, captured>>
  BY DEF SaveReads
<1>2. ~SetsStorage(keeping[k])
  BY <1>1 DEF Saving, SetsStorage
<1>3. CASE Keeps(k, [pc |-> "storage", cookies |-> account.cookies]) /\ UNCHANGED mixed
  <2>1. PICK e \in KeepRecords : /\ keeping' = [keeping EXCEPT ![k] = e]
                                 /\ e.op = keeping[k].op /\ e.pc = "storage"
                                 /\ e.cookies = account.cookies
    BY <1>3, KeepsFields, KeepingTyped DEF KeepSteps
  <2>2. KeeperSound(e, account)
    BY <1>1, <2>1 DEF KeeperSound, Saving
  <2>3. QED
    BY <1>1, <1>2, <1>3, <2>1, <2>2, KeeperSteps DEF SavedInv, SavedShape
<1>4. CASE /\ keeping[k].pc = "storage" /\ Keeps(k, [pc |-> "write", storage |-> account.storage])
           /\ mixed' = (mixed \/ \E j \in Keepers : KeeperAt(j, "bundle", "storage"))
  <2>1. PICK e \in KeepRecords : /\ keeping' = [keeping EXCEPT ![k] = e]
                                 /\ e.op = keeping[k].op /\ e.pc = "write"
                                 /\ e.cookies = keeping[k].cookies /\ e.storage = account.storage
    BY <1>4, KeepsFields, KeepingTyped DEF KeepSteps
  <2>2. ASSUME ~mixed' PROVE KeeperSound(e, account) /\ ~mixed
    <3>1. ~mixed /\ \A j \in Keepers : ~KeeperAt(j, "bundle", "storage")
      BY <1>4, <2>2
    <3>2. SavedWhole
      BY <3>1 DEF SavedInv
    <3>3. account.cookies = account.storage /\ keeping[k].cookies = account.cookies
      BY <1>1, <1>4, <3>1, <3>2 DEF SavedWhole, SetsStorage, KeeperAt, KeeperSound
    <3>4. QED
      BY <1>1, <2>1, <3>1, <3>3 DEF KeeperSound, Saving
  <2>3. mixed' \in BOOLEAN
    BY <1>4
  <2>4. QED
    BY <1>1, <1>2, <2>1, <2>2, <2>3, KeeperSteps
<1>5. CASE KeeperEnds(k) /\ UNCHANGED mixed
  BY <1>1, <1>2, <1>5, RestingSound, KeeperSteps DEF KeeperEnds, SavedInv, SavedShape
<1>6. QED
  BY <1>3, <1>4, <1>5 DEF SaveReads

LEMMA SavesBundleKeeps ==
  ASSUME SavedInv, NEW k \in Keepers, SavesBundle(k)
  PROVE  SavedInv'
<1>1. /\ keeping' = [keeping EXCEPT ![k] = Resting] /\ UNCHANGED <<account, logins, archive, captured, mixed>>
      /\ bundle' = [cookies |-> keeping[k].cookies, storage |-> keeping[k].storage]
      /\ keeping[k].op = "save" /\ keeping[k].pc = "write"
  BY DEF SavesBundle, KeeperEnds, KeeperAt
<1>2. SavedShape'
  <2>1. bundle' \in Logins
    BY <1>1, KeepingTyped DEF Logins
  <2>2. QED
    BY <1>1, <2>1, RestingSound DEF SavedInv, SavedShape
<1>3. ~mixed' => bundle'.cookies = bundle'.storage /\ \A n \in Saves : CopySound(n)'
  BY <1>1 DEF SavedInv, SavedWhole, CopySound, KeeperSound, Saving
<1>4. ~SetsStorage(keeping[k])
  BY <1>1 DEF SetsStorage
<1>5. QED
  BY <1>1, <1>2, <1>3, <1>4, RestingSound, KeeperMoves

LEMMA SavesProfileKeeps ==
  ASSUME SavedInv, NEW k \in Keepers, SavesProfile(k) \/ (CloneCreates(k) /\ KeeperEnds(k))
  PROVE  SavedInv'
BY RestingSound, KeeperSteps
   DEF SavesProfile, CloneCreates, KeeperEnds, KeeperAt, SetsStorage, SavedInv, SavedShape

LEMMA ProfileRestoreKeeps ==
  ASSUME SavedInv, NEW k \in Keepers, AskProfileRestore(k)
  PROVE  SavedInv'
<1>1. PICK e \in KeepRecords : /\ keeping' = [keeping EXCEPT ![k] = e]
                               /\ e.op = "bundle" /\ e.pc = "cookies"
                               /\ e.cookies = keeping[k].cookies /\ e.storage = keeping[k].storage
  <2>1. Keeps(k, [op |-> "bundle", pc |-> "cookies"])
    BY DEF AskProfileRestore
  <2>2. QED
    BY <2>1, KeepsFields DEF KeepOps, KeepSteps
<1>2. ~mixed => KeeperSound(e, account)
  BY <1>1 DEF KeeperSound, Saving, AskProfileRestore, SavedInv, SavedWhole
<1>3. QED
  BY <1>1, <1>2, KeeperSteps DEF AskProfileRestore, SetsStorage, SavedInv, SavedShape

LEMMA BundleRestoreKeeps ==
  ASSUME SavedInv, NEW k \in Keepers, AskBundleRestore(k)
  PROVE  SavedInv'
<1>1. PICK e \in KeepRecords : /\ keeping' = [keeping EXCEPT ![k] = e]
                               /\ e.op = "bundle" /\ e.pc = "cookies"
                               /\ e.cookies = bundle.cookies /\ e.storage = bundle.storage
  <2>1. Keeps(k, [op |-> "bundle", pc |-> "cookies", cookies |-> bundle.cookies, storage |-> bundle.storage])
    BY DEF AskBundleRestore
  <2>2. QED
    BY <2>1, KeepsFields, KeepingTyped DEF KeepOps, KeepSteps
<1>2. ~mixed => KeeperSound(e, account)
  BY <1>1 DEF KeeperSound, Saving, SavedInv, SavedWhole
<1>3. QED
  BY <1>1, <1>2, KeeperSteps DEF AskBundleRestore, SetsStorage, SavedInv, SavedShape

LEMMA BundleCookiesKeeps ==
  ASSUME SavedInv, NEW k \in Keepers, BundleSetsCookies(k)
  PROVE  SavedInv'
<1>1. PICK e \in KeepRecords : /\ keeping' = [keeping EXCEPT ![k] = e]
                               /\ e.op = "bundle" /\ e.pc = "storage"
                               /\ e.cookies = keeping[k].cookies /\ e.storage = keeping[k].storage
  <2>1. Keeps(k, [pc |-> "storage"])
    BY DEF BundleSetsCookies
  <2>2. QED
    BY <2>1, KeepsFields DEF KeepOps, KeepSteps, BundleSetsCookies, KeeperAt
<1>2. ~SetsStorage(keeping[k]) /\ UNCHANGED <<logins, archive, bundle, captured>>
  BY DEF BundleSetsCookies, KeeperAt, SetsStorage
<1>3. ~mixed => e.cookies = e.storage
  BY <1>1 DEF BundleSetsCookies, KeeperAt, SavedInv, SavedWhole, KeeperSound
<1>4. CASE keeping[k].cookies = Signed0 /\ UNCHANGED <<account, mixed>>
  <2>1. ~mixed => KeeperSound(e, account)
    BY <1>1, <1>3, <1>4 DEF KeeperSound, Saving, Signed0
  <2>2. QED
    BY <1>1, <1>2, <1>4, <2>1, KeeperSteps DEF SavedInv, SavedShape
<1>5. CASE /\ keeping[k].cookies # Signed0 /\ MeetsOther(k)
           /\ account' = [account EXCEPT !.cookies = keeping[k].cookies]
  <2>1. PICK a : a = [account EXCEPT !.cookies = keeping[k].cookies]
    OBVIOUS
  <2>2. a \in Logins /\ a.cookies = keeping[k].cookies
    BY <2>1, KeepingTyped DEF SavedInv, SavedShape, Logins
  <2>3. ~mixed' => ~mixed
    BY <1>5 DEF MeetsOther
  <2>4. ~mixed' => KeeperSound(e, a) /\ SetsStorage(e)
    BY <1>1, <1>3, <1>5, <2>2, <2>3 DEF KeeperSound, Saving, SetsStorage, Signed0
  <2>5. QED
    BY <1>1, <1>2, <1>5, <2>1, <2>2, <2>4, LoginMoves
<1>6. CASE UNCHANGED account /\ mixed' = TRUE
  BY <1>1, <1>2, <1>6, KeeperSteps
<1>7. QED
  BY <1>4, <1>5, <1>6 DEF BundleSetsCookies

LEMMA BundleStorageKeeps ==
  ASSUME SavedInv, NEW k \in Keepers, BundleSetsStorage(k)
  PROVE  SavedInv'
<1>1. /\ keeping' = [keeping EXCEPT ![k] = Resting] /\ UNCHANGED <<logins, archive, bundle, captured>>
      /\ keeping[k].op = "bundle" /\ keeping[k].pc = "storage"
  BY DEF BundleSetsStorage, KeeperEnds, KeeperAt
<1>2. ~mixed => /\ keeping[k].cookies = keeping[k].storage
                /\ keeping[k].cookies # 0 => account.cookies = keeping[k].cookies
  BY <1>1 DEF SavedInv, SavedWhole, KeeperSound
<1>3. CASE keeping[k].storage = Signed0 /\ UNCHANGED <<account, mixed>>
  <2>1. ~mixed' => ~SetsStorage(keeping[k])
    BY <1>2, <1>3 DEF SetsStorage, Signed0
  <2>2. QED
    BY <1>1, <1>3, <2>1, RestingSound, KeeperSteps DEF SavedInv, SavedShape
<1>4. CASE /\ keeping[k].storage # Signed0 /\ MeetsOther(k)
           /\ account' = [account EXCEPT !.storage = keeping[k].storage]
  <2>1. PICK a : a = [account EXCEPT !.storage = keeping[k].storage]
    OBVIOUS
  <2>2. a \in Logins /\ a.storage = keeping[k].storage /\ a.cookies = account.cookies
    BY <2>1, KeepingTyped DEF SavedInv, SavedShape, Logins
  <2>3. ~mixed' => ~mixed
    BY <1>4 DEF MeetsOther
  <2>4. ~mixed' => a.cookies = a.storage
    BY <1>2, <1>4, <2>2, <2>3 DEF Signed0
  <2>5. QED
    BY <1>1, <1>4, <2>1, <2>2, <2>4, RestingSound, LoginMoves
<1>5. CASE UNCHANGED account /\ mixed' = TRUE
  BY <1>1, <1>5, RestingSound, KeeperSteps
<1>6. QED
  BY <1>3, <1>4, <1>5 DEF BundleSetsStorage

LEMMA AskCloneKeeps ==
  ASSUME SavedInv, NEW k \in Keepers, AskClone(k)
  PROVE  SavedInv'
<1>1. Keeps(k, [op |-> "clone", pc |-> "create", cookies |-> account.cookies])
  BY DEF AskClone
<1>2. PICK e \in KeepRecords : /\ keeping' = [keeping EXCEPT ![k] = e]
                               /\ e.op = "clone" /\ e.pc = "create" /\ e.cookies = account.cookies
  BY <1>1, KeepsFields, KeepingTyped DEF KeepOps, KeepSteps
<1>3. KeeperSound(e, account)
  BY <1>2 DEF KeeperSound, Saving
<1>4. QED
  BY <1>2, <1>3, KeeperSteps DEF AskClone, SetsStorage, SavedInv, SavedShape

LEMMA CloneCreatesKeeps ==
  ASSUME SavedInv, NEW k \in Keepers, CloneCreates(k)
  PROVE  SavedInv'
<1>1. CASE KeeperEnds(k)
  BY <1>1, SavesProfileKeeps
<1>2. CASE Keeps(k, [pc |-> "cookies"])
  <2>1. PICK e \in KeepRecords : /\ keeping' = [keeping EXCEPT ![k] = e]
                                 /\ e.op = "clone" /\ e.pc = "cookies" /\ e.cookies = keeping[k].cookies
    BY <1>2, KeepsFields DEF KeepOps, KeepSteps, CloneCreates, KeeperAt
  <2>2. ~mixed => KeeperSound(e, account)
    BY <2>1 DEF KeeperSound, Saving, CloneCreates, KeeperAt, SavedInv, SavedWhole
  <2>3. QED
    BY <2>1, <2>2, KeeperSteps DEF CloneCreates, KeeperAt, SetsStorage, SavedInv, SavedShape
<1>3. QED
  BY <1>1, <1>2 DEF CloneCreates

LEMMA CloneSetsKeeps ==
  ASSUME SavedInv, NEW k \in Keepers, CloneSets(k)
  PROVE  SavedInv'
<1>1. /\ keeping' = [keeping EXCEPT ![k] = Resting] /\ UNCHANGED <<logins, archive, bundle, captured>>
      /\ keeping[k].op = "clone" /\ keeping[k].pc = "cookies" /\ SetsCookies(k)
  BY DEF CloneSets, KeeperEnds, KeeperAt
<1>2. CASE UNCHANGED <<account, mixed>>
  BY <1>1, <1>2, RestingSound, KeeperSteps DEF SetsStorage, SavedInv, SavedShape
<1>3. CASE MeetsOther(k) /\ account' = [account EXCEPT !.cookies = keeping[k].cookies]
  <2>1. PICK a : a = [account EXCEPT !.cookies = keeping[k].cookies]
    OBVIOUS
  <2>2. a \in Logins /\ a.cookies = keeping[k].cookies /\ a.storage = account.storage
    BY <2>1, KeepingTyped DEF SavedInv, SavedShape, Logins
  <2>3. ~mixed' => ~mixed /\ \A j \in Keepers \ {k} : ~Halfway(j)
    BY <1>3 DEF MeetsOther
  <2>4. ASSUME ~mixed' PROVE a.cookies = a.storage
    <3>1. SavedWhole
      BY <2>3, <2>4 DEF SavedInv
    <3>2. \A j \in Keepers : ~SetsStorage(keeping[j])
      BY <1>1, <2>3, <2>4 DEF SetsStorage, Halfway
    <3>3. account.cookies = account.storage /\ keeping[k].cookies = account.cookies
      BY <1>1, <3>1, <3>2 DEF SavedWhole, KeeperSound
    <3>4. QED
      BY <2>2, <3>3
  <2>5. QED
    BY <1>1, <1>3, <2>1, <2>2, <2>4, RestingSound, LoginMoves
<1>4. QED
  BY <1>1, <1>2, <1>3 DEF SetsCookies

(* The user, or cookies alone.                                               *)
LEMMA SignsKeeps ==
  ASSUME SavedInv, SignsIn \/ SignsOut
  PROVE  SavedInv'
<1>1. PICK n \in LoginIds : SignsAs(n)
  <2>1. logins \in LoginIds
    BY DEF SavedInv, SavedShape
  <2>2. logins < MaxLogins => logins + 1 \in LoginIds
    BY ONLY <2>1, SavedAssumption DEF LoginIds
  <2>3. QED
    BY <2>2, NoLogin DEF SignsIn, SignsOut
<1>2. /\ account' = [cookies |-> n, storage |-> n]
      /\ mixed' = (mixed \/ \E k \in Keepers : Halfway(k))
      /\ UNCHANGED <<archive, bundle, keeping, captured>> /\ logins' \in LoginIds
  <2>1. logins \in LoginIds
    BY DEF SavedInv, SavedShape
  <2>2. logins < MaxLogins => logins + 1 \in LoginIds
    BY ONLY <2>1, SavedAssumption DEF LoginIds
  <2>3. QED
    BY <1>1, <2>1, <2>2 DEF SignsAs, SignsIn, SignsOut
<1>3. PICK a \in Logins : a = account' /\ a.cookies = n /\ a.storage = n
  BY <1>2 DEF Logins
<1>4. SavedShape'
  BY <1>2, <1>3 DEF SavedInv, SavedShape
<1>5. ASSUME ~mixed' PROVE SavedWhole'
  <2>1. SavedWhole /\ \A k \in Keepers : ~Halfway(k)
    BY <1>2, <1>5 DEF SavedInv
  <2>2. ASSUME NEW k \in Keepers
        PROVE  KeeperSound(keeping[k], a)
    <3>1. KeeperSound(keeping[k], account) /\ ~Halfway(k)
      BY <2>1 DEF SavedWhole
    <3>2. QED
      BY <3>1 DEF KeeperSound, Halfway, KeeperAt
  <2>3. QED
    BY <1>2, <1>3, <2>1, <2>2 DEF SavedWhole, CopySound
<1>6. QED
  BY <1>4, <1>5 DEF SavedInv

LEMMA AloneKeeps ==
  ASSUME SavedInv, ImportCookies \/ ClearCookies
  PROVE  SavedInv'
<1>1. PICK n \in LoginIds : SetsAlone(n)
  BY KeepingTyped, NoLogin DEF ImportCookies, ClearCookies, Signed0, SavedInv, SavedShape, Logins
<1>2. account' \in Logins
  BY <1>1 DEF SetsAlone, SavedInv, SavedShape, Logins
<1>3. SavedShape' /\ mixed'
  BY <1>1, <1>2 DEF SetsAlone, SavedInv, SavedShape
<1>4. QED
  BY <1>3, MixedKeeps

LEMMA SavedStep == SavedInv /\ [SavedNext]_savedVars => SavedInv'
<1>1. SUFFICES ASSUME SavedInv, [SavedNext]_savedVars
               PROVE  SavedInv'
  OBVIOUS
<1>2. CASE UNCHANGED savedVars
  BY <1>1, <1>2
     DEF savedVars, SavedInv, SavedShape, SavedWhole, KeeperSound, SetsStorage, CopySound, Saving
<1>3. CASE SignsIn \/ SignsOut \/ RemoveExpired \/ ImportCookies \/ ClearCookies
  BY <1>1, <1>3, SignsKeeps, RemoveExpiredKeeps, AloneKeeps
<1>4. CASE \E n \in Saves : DeleteSaved(n) \/ SavedGrowsOld(n)
  BY <1>1, <1>4, DeleteSavedKeeps, GrowsOldKeeps
<1>5. CASE \E k \in Keepers :
             \/ \E n \in Saves : AskCapture(k, n) \/ AskRestore(k, n)
             \/ CaptureReads(k) \/ SavesCapture(k)
             \/ RestoreConnects(k) \/ RestoresCookies(k) \/ SavesAgain(k)
  BY <1>1, <1>5, AskCaptureKeeps, AskRestoreKeeps, CaptureReadsKeeps, SavesCaptureKeeps,
     RestoreConnectsKeeps, RestoresCookiesKeeps, SavesAgainKeeps
<1>6. CASE \E k \in Keepers :
             \/ AskSave(k) \/ SaveReads(k) \/ SavesBundle(k) \/ SavesProfile(k)
             \/ AskProfileRestore(k) \/ AskBundleRestore(k)
             \/ BundleSetsCookies(k) \/ BundleSetsStorage(k)
             \/ AskClone(k) \/ CloneCreates(k) \/ CloneSets(k)
  BY <1>1, <1>6, AskSaveKeeps, SaveReadsKeeps, SavesBundleKeeps, SavesProfileKeeps,
     ProfileRestoreKeeps, BundleRestoreKeeps, BundleCookiesKeeps, BundleStorageKeeps,
     AskCloneKeeps, CloneCreatesKeeps, CloneSetsKeeps
<1>7. QED
  BY <1>1, <1>2, <1>3, <1>4, <1>5, <1>6 DEF SavedNext

(* A login stays whole in the browser and in a bundle, and a captured        *)
(* session is the one captured last, as long as no request missed a part or  *)
(* met another's change halfway (session_manager.py, session_restore).       *)
THEOREM LoginsStayWhole == SavedInit /\ [][SavedNext]_savedVars => []LoginsWhole
BY SavedStart, SavedStep, LoginsAreKept, PTL

LEMMA SavedTypes == SavedInit /\ [][SavedNext]_savedVars => []SavedTypeOK
BY SavedStart, SavedStep, SavedTyped, PTL

-----------------------------------------------------------------------------
(* Recipes and workflows.                                                    *)
RecipeTables == [names : [Recipes -> Titles \cup {NoTitle}], active : Recipes \cup {NoRecipe}]
VersionRecords == [number : Nat, title : Titles, archived : BOOLEAN]
FlowTables == [Recipes -> Seq(VersionRecords)]
CatalogShape ==
    /\ recipes \in RecipeTables /\ flows \in FlowTables
    /\ shelf \in [recipes : RecipeTables, flows : FlowTables]
    /\ confirmed \in [recipes : SUBSET Recipes, flows : SUBSET (Recipes \X Nat \X Titles)]

(* A table of recipes, and one of workflows, in memory or on the shelf.      *)
RecipesSound(t, kept) ==
    /\ t.active # NoRecipe => t.names[t.active] # NoTitle
    /\ \A q, r \in Recipes : q # r /\ t.names[q] # NoTitle => t.names[q] # t.names[r]
    /\ \A r \in kept : t.names[r] # NoTitle
Numbered(s) == \A n \in DOMAIN s : s[n].number = n
OneVersion(s) == Len(s) = 1 /\ ~s[1].archived
Keeps1(s, n, t) == n \in 1..Len(s) /\ s[n].title = t
FlowsSound(f, kept) ==
    /\ \A r \in Recipes : Numbered(f[r])
    /\ \A q, r \in Recipes : q # r /\ OneVersion(f[q]) /\ OneVersion(f[r]) =>
         f[q][1].title # f[r][1].title
    /\ \A k \in kept : Keeps1(f[k[1]], k[2], k[3])
InMemory ==
    /\ "recipes" \notin failedSince => recipes = shelf.recipes
    /\ "shown" \notin failedSince => shown = recipes.active
    /\ "flows" \notin failedSince => flows = shelf.flows
CatalogInv ==
    /\ CatalogShape /\ InMemory
    /\ RecipesSound(recipes, confirmed.recipes) /\ RecipesSound(shelf.recipes, confirmed.recipes)
    /\ FlowsSound(flows, confirmed.flows) /\ FlowsSound(shelf.flows, confirmed.flows)

LEMMA GetsVersion ==
  ASSUME NEW r \in Recipes, flows[r] \in Seq(VersionRecords), Numbered(flows[r]), NEW n \in DOMAIN flows[r]
  PROVE  GetVersion(r, n) = flows[r][n].title
<1>1. PICK S : S = {i \in DOMAIN flows[r] : flows[r][i].number = n}
  OBVIOUS
<1>2. S = {n}
  BY <1>1 DEF Numbered
<1>3. DOMAIN flows[r] \subseteq Nat
  OBVIOUS
<1>4. (CHOOSE i \in S : \A j \in S : i <= j) = n
  BY <1>2, <1>3
<1>5. QED
  BY <1>1, <1>2, <1>4 DEF GetVersion

LEMMA CatalogsAreKept == CatalogInv => CatalogsHold
<1>1. SUFFICES ASSUME CatalogInv PROVE CatalogsHold
  OBVIOUS
<1>2. \A r \in confirmed.recipes : shelf.recipes.names[r] # NoTitle
  BY <1>1 DEF CatalogInv, RecipesSound
<1>3. \A k \in confirmed.flows : k[2] <= Len(shelf.flows[k[1]])
         /\ shelf.flows[k[1]][k[2]].title = k[3] /\ shelf.flows[k[1]][k[2]].number = k[2]
  <2>1. TAKE k \in confirmed.flows
  <2>2. k[1] \in Recipes /\ shelf.flows[k[1]] \in Seq(VersionRecords)
    BY <1>1 DEF CatalogInv, CatalogShape, FlowTables
  <2>3. Keeps1(shelf.flows[k[1]], k[2], k[3]) /\ Numbered(shelf.flows[k[1]])
    BY <1>1, <2>2 DEF CatalogInv, FlowsSound
  <2>4. QED
    BY <2>2, <2>3 DEF Keeps1, Numbered
<1>4. \A r \in Existing : \A n \in DOMAIN flows[r] :
         flows[r][n].number = n /\ GetVersion(r, n) = flows[r][n].title
  BY <1>1, GetsVersion DEF CatalogInv, CatalogShape, FlowTables, FlowsSound, Numbered, Existing
<1>5. \A q, r \in ListWorkflows : q # r /\ Len(flows[q]) = 1 /\ Len(flows[r]) = 1 =>
         Latest(q).title # Latest(r).title
  BY <1>1 DEF CatalogInv, FlowsSound, ListWorkflows, Existing, Latest, OneVersion
<1>6. recipes.active # NoRecipe => Present(recipes.active)
  BY <1>1 DEF CatalogInv, RecipesSound, Present
<1>7. \A q, r \in Recipes : q # r /\ Present(q) => recipes.names[q] # recipes.names[r]
  BY <1>1 DEF CatalogInv, RecipesSound, Present
<1>8. QED
  BY <1>1, <1>2, <1>3, <1>4, <1>5, <1>6, <1>7 DEF CatalogsHold, CatalogInv, InMemory

LEMMA CatalogsStart == CatalogInit => CatalogInv
<1>1. SUFFICES ASSUME CatalogInit PROVE CatalogInv
  OBVIOUS
<1>2. recipes \in RecipeTables /\ NoFlows \in FlowTables
  BY <1>1 DEF CatalogInit, NoFlows, RecipeTables, FlowTables
<1>3. CatalogShape
  BY <1>1, <1>2 DEF CatalogInit, CatalogShape
<1>4. \A r \in Recipes : Len(NoFlows[r]) = 0 /\ DOMAIN NoFlows[r] = {}
  BY DEF NoFlows
<1>5. FlowsSound(NoFlows, {})
  BY <1>1, <1>4 DEF CatalogInit, FlowsSound, Numbered, OneVersion
<1>6. RecipesSound(recipes, {})
  BY <1>1 DEF CatalogInit, RecipesSound
<1>7. QED
  BY <1>1, <1>3, <1>5, <1>6 DEF CatalogInit, CatalogInv, InMemory

(* A change of the recipes that is written, or is not.                       *)
LEMMA RecipesSaved ==
  ASSUME CatalogInv, NEW t \in RecipeTables, NEW answered \in SUBSET Recipes,
         NEW otherwise \in SUBSET Recipes, recipes' = t, t.active = recipes.active,
         RecipesSound(t, answered), RecipesSound(t, otherwise), otherwise \subseteq confirmed.recipes,
         SaveRecipes(answered, otherwise), UNCHANGED <<flows, shown>>
  PROVE  CatalogInv'
<1>1. CASE /\ shelf' = [shelf EXCEPT !.recipes = t]
           /\ failedSince' = failedSince \ {"recipes"}
           /\ confirmed' = [confirmed EXCEPT !.recipes = answered]
  <2>1. shelf'.recipes = t /\ shelf'.flows = shelf.flows
    BY <1>1 DEF CatalogInv, CatalogShape
  <2>2. confirmed'.recipes = answered /\ confirmed'.flows = confirmed.flows
    BY <1>1 DEF CatalogInv, CatalogShape
  <2>3. CatalogShape'
    BY <1>1 DEF CatalogInv, CatalogShape
  <2>4. InMemory'
    BY <1>1, <2>1 DEF CatalogInv, InMemory
  <2>5. QED
    BY <2>1, <2>2, <2>3, <2>4 DEF CatalogInv
<1>2. CASE /\ failedSince' = failedSince \cup {"recipes"}
           /\ confirmed' = [confirmed EXCEPT !.recipes = otherwise]
           /\ UNCHANGED shelf
  <2>1. confirmed'.recipes = otherwise /\ confirmed'.flows = confirmed.flows
    BY <1>2 DEF CatalogInv, CatalogShape
  <2>2. CatalogShape'
    BY <1>2 DEF CatalogInv, CatalogShape
  <2>3. InMemory'
    BY <1>2 DEF CatalogInv, InMemory
  <2>4. RecipesSound(shelf.recipes, otherwise)
    BY DEF CatalogInv, RecipesSound
  <2>5. QED
    BY <1>2, <2>1, <2>2, <2>3, <2>4 DEF CatalogInv
<1>3. QED
  BY <1>1, <1>2 DEF SaveRecipes

LEMMA CreateRecipeKeeps ==
  ASSUME CatalogInv, NEW r \in Recipes, NEW t \in Titles, CreateRecipe(r, t)
  PROVE  CatalogInv'
<1>1. PICK u : u = [recipes EXCEPT !.names[r] = t]
  OBVIOUS
<1>2. PICK names : names = [recipes.names EXCEPT ![r] = t]
  OBVIOUS
<1>3. u = [recipes EXCEPT !.names = names] /\ recipes \in RecipeTables
  BY <1>1, <1>2 DEF CatalogInv, CatalogShape
<1>4. u \in RecipeTables /\ u.active = recipes.active /\ u.names = names
  BY <1>2, <1>3 DEF RecipeTables
<1>5. /\ \A q \in Recipes : names[q] = IF q = r THEN t ELSE recipes.names[q]
      /\ t # NoTitle /\ \A q \in Recipes : recipes.names[q] # t
  BY <1>2, <1>3, CatalogsAssumption DEF CreateRecipe, RecipeTables
<1>6. recipes.active \in Recipes \cup {NoRecipe}
  BY <1>3 DEF RecipeTables
<1>7. RecipesSound(u, confirmed.recipes) /\ RecipesSound(u, confirmed.recipes \cup {r})
  BY <1>4, <1>5, <1>6, CatalogsAssumption DEF CatalogInv, CatalogShape, RecipesSound
<1>8. confirmed.recipes \in SUBSET Recipes
  BY DEF CatalogInv, CatalogShape
<1>9. SaveRecipes(confirmed.recipes \cup {r}, confirmed.recipes) /\ UNCHANGED <<flows, shown>> /\ recipes' = u
  BY <1>1 DEF CreateRecipe
<1>10. QED
  BY <1>4, <1>7, <1>8, <1>9, RecipesSaved

LEMMA DeleteRecipeKeeps ==
  ASSUME CatalogInv, NEW r \in Recipes, DeleteRecipe(r)
  PROVE  CatalogInv'
<1>1. PICK u : u = [recipes EXCEPT !.names[r] = NoTitle]
  OBVIOUS
<1>2. PICK names : names = [recipes.names EXCEPT ![r] = NoTitle]
  OBVIOUS
<1>3. u = [recipes EXCEPT !.names = names] /\ recipes \in RecipeTables
  BY <1>1, <1>2 DEF CatalogInv, CatalogShape
<1>4. u \in RecipeTables /\ u.active = recipes.active /\ u.names = names
  BY <1>2, <1>3 DEF RecipeTables
<1>5. /\ \A q \in Recipes : names[q] = IF q = r THEN NoTitle ELSE recipes.names[q]
      /\ recipes.active # r
  BY <1>2, <1>3 DEF DeleteRecipe, RecipeTables
<1>6. recipes.active \in Recipes \cup {NoRecipe} /\ confirmed.recipes \in SUBSET Recipes
  BY <1>3 DEF RecipeTables, CatalogInv, CatalogShape
<1>7. RecipesSound(u, confirmed.recipes \ {r})
  BY <1>4, <1>5, <1>6 DEF CatalogInv, RecipesSound
<1>8. /\ SaveRecipes(confirmed.recipes \ {r}, confirmed.recipes \ {r}) /\ UNCHANGED <<flows, shown>>
      /\ recipes' = u
  BY <1>1 DEF DeleteRecipe
<1>9. QED
  BY <1>4, <1>6, <1>7, <1>8, RecipesSaved

LEMMA ActivateKeeps ==
  ASSUME CatalogInv, NEW r \in Recipes, ActivateRecipe(r)
  PROVE  CatalogInv'
<1>1. PICK u : u = [recipes EXCEPT !.active = r]
  OBVIOUS
<1>2. u \in RecipeTables /\ u.active = r /\ u.names = recipes.names /\ recipes' = u
  BY <1>1 DEF CatalogInv, CatalogShape, RecipeTables, ActivateRecipe
<1>3. RecipesSound(u, confirmed.recipes)
  BY <1>2 DEF CatalogInv, RecipesSound, ActivateRecipe, Present
<1>4. UNCHANGED <<flows, confirmed>>
  BY DEF ActivateRecipe
<1>5. CASE /\ shelf' = [shelf EXCEPT !.recipes = u] /\ shown' = r
           /\ failedSince' = failedSince \ {"recipes", "shown"}
  <2>1. shelf'.recipes = u /\ shelf'.flows = shelf.flows
    BY <1>5 DEF CatalogInv, CatalogShape
  <2>2. CatalogShape'
    BY <1>2, <1>4, <1>5 DEF CatalogInv, CatalogShape
  <2>3. InMemory'
    BY <1>2, <1>4, <1>5, <2>1 DEF CatalogInv, InMemory
  <2>4. QED
    BY <1>2, <1>3, <1>4, <2>1, <2>2, <2>3 DEF CatalogInv
<1>6. CASE failedSince' = failedSince \cup {"recipes", "shown"} /\ UNCHANGED <<shelf, shown>>
  <2>1. CatalogShape'
    BY <1>2, <1>4, <1>6 DEF CatalogInv, CatalogShape
  <2>2. InMemory'
    BY <1>4, <1>6 DEF CatalogInv, InMemory
  <2>3. QED
    BY <1>2, <1>3, <1>4, <1>6, <2>1, <2>2 DEF CatalogInv
<1>7. QED
  BY <1>2, <1>5, <1>6 DEF ActivateRecipe

(* A change of the workflows that is written, or is not.                     *)
LEMMA FlowsSaved ==
  ASSUME CatalogInv, NEW f \in FlowTables, NEW answered \in SUBSET (Recipes \X Nat \X Titles),
         flows' = f, FlowsSound(f, answered), confirmed.flows \subseteq answered,
         SaveFlows(answered), UNCHANGED <<recipes, shown>>
  PROVE  CatalogInv'
<1>1. CASE /\ shelf' = [shelf EXCEPT !.flows = f]
           /\ failedSince' = failedSince \ {"flows"}
           /\ confirmed' = [confirmed EXCEPT !.flows = answered]
  <2>1. shelf'.flows = f /\ shelf'.recipes = shelf.recipes
    BY <1>1 DEF CatalogInv, CatalogShape
  <2>2. confirmed'.flows = answered /\ confirmed'.recipes = confirmed.recipes
    BY <1>1 DEF CatalogInv, CatalogShape
  <2>3. CatalogShape'
    BY <1>1 DEF CatalogInv, CatalogShape
  <2>4. InMemory'
    BY <1>1, <2>1 DEF CatalogInv, InMemory
  <2>5. QED
    BY <2>1, <2>2, <2>3, <2>4 DEF CatalogInv
<1>2. CASE failedSince' = failedSince \cup {"flows"} /\ UNCHANGED <<shelf, confirmed>>
  <2>1. CatalogShape'
    BY <1>2 DEF CatalogInv, CatalogShape
  <2>2. InMemory'
    BY <1>2 DEF CatalogInv, InMemory
  <2>3. FlowsSound(f, confirmed.flows)
    BY DEF FlowsSound
  <2>4. QED
    BY <1>2, <2>1, <2>2, <2>3 DEF CatalogInv
<1>3. QED
  BY <1>1, <1>2 DEF SaveFlows

(* One more version of a workflow, numbered after the last.                  *)
LEMMA AppendKeeps ==
  ASSUME CatalogInv, NEW r \in Recipes, NEW t \in Titles, Append1(r, Len(flows[r]) + 1, t)
  PROVE  CatalogInv'
<1>1. PICK s : s = flows[r]
  OBVIOUS
<1>2. s \in Seq(VersionRecords) /\ Len(s) \in Nat /\ flows \in FlowTables
  BY <1>1 DEF CatalogInv, CatalogShape, FlowTables
<1>3. PICK v : v = Version(r, Len(s) + 1, t)
  OBVIOUS
<1>4. v \in VersionRecords /\ v.number = Len(s) + 1 /\ v.title = t
  BY <1>2, <1>3 DEF Version, VersionRecords
<1>5. PICK l \in Seq(VersionRecords) : l = Append(s, v)
  <2>1. Append(s, v) \in Seq(VersionRecords)
    BY ONLY <1>2, <1>4
  <2>2. QED
    BY ONLY <2>1
<1>6. PICK f : f = [flows EXCEPT ![r] = l]
  OBVIOUS
<1>7. f \in FlowTables /\ \A q \in Recipes : f[q] = IF q = r THEN l ELSE flows[q]
  BY <1>2, <1>5, <1>6 DEF FlowTables
<1>8. Len(l) = Len(s) + 1 /\ l[Len(s) + 1] = v /\ \A n \in 1..Len(s) : l[n] = s[n]
  BY <1>2, <1>4, <1>5
<1>9. DOMAIN l = 1..(Len(s) + 1) /\ DOMAIN s = 1..Len(s)
  BY <1>2, <1>5, <1>8
<1>10. \A q \in Recipes : Numbered(f[q])
  <2>1. ASSUME NEW q \in Recipes PROVE Numbered(f[q])
    <3>1. Numbered(flows[q])
      BY DEF CatalogInv, FlowsSound
    <3>2. CASE q = r
      <4>1. \A n \in 1..Len(s) : s[n].number = n
        BY <1>1, <1>9, <3>1, <3>2 DEF Numbered
      <4>2. \A n \in 1..(Len(s) + 1) : l[n].number = n
        BY ONLY <1>2, <1>4, <1>8, <4>1
      <4>3. QED
        BY <1>7, <1>9, <3>2, <4>2 DEF Numbered
    <3>3. CASE q # r
      BY <1>7, <3>1, <3>3
    <3>4. QED
      BY <3>2, <3>3
  <2>2. QED
    BY <2>1
<1>11. ASSUME NEW q \in Recipes, q # r, OneVersion(flows[q]), OneVersion(f[r])
       PROVE  flows[q][1].title # t
  <2>1. Len(s) + 1 = 1
    BY <1>7, <1>8, <1>11 DEF OneVersion
  <2>2. \A p \in Existing : Latest(p).title # t
    BY <1>1, <2>1 DEF Append1
  <2>3. q \in Existing /\ Latest(q) = flows[q][1]
    BY <1>2, <1>11 DEF OneVersion, Existing, Latest, FlowTables
  <2>4. QED
    BY <2>2, <2>3
<1>12. \A p, q \in Recipes : p # q /\ OneVersion(f[p]) /\ OneVersion(f[q]) =>
         f[p][1].title # f[q][1].title
  <2>1. SUFFICES ASSUME NEW p \in Recipes, NEW q \in Recipes, p # q, OneVersion(f[p]), OneVersion(f[q])
                 PROVE  f[p][1].title # f[q][1].title
    OBVIOUS
  <2>2. OneVersion(f[r]) => f[r][1].title = t
    <3>1. OneVersion(l) => Len(s) + 1 = 1
      BY <1>8 DEF OneVersion
    <3>2. Len(s) + 1 = 1 => l[1].title = t
      BY <1>4, <1>8
    <3>3. QED
      BY <1>7, <3>1, <3>2
  <2>3. CASE p = r
    BY <1>7, <1>11, <2>1, <2>2, <2>3
  <2>4. CASE q = r
    BY <1>7, <1>11, <2>1, <2>2, <2>4
  <2>5. CASE p # r /\ q # r
    BY <1>7, <2>1, <2>5 DEF CatalogInv, FlowsSound
  <2>6. QED
    BY <2>3, <2>4, <2>5
<1>13. PICK answered : answered = confirmed.flows \cup {<<r, Len(s) + 1, t>>}
  OBVIOUS
<1>14. answered \in SUBSET (Recipes \X Nat \X Titles) /\ confirmed.flows \subseteq answered
  <2>1. confirmed.flows \in SUBSET (Recipes \X Nat \X Titles)
    BY DEF CatalogInv, CatalogShape
  <2>2. <<r, Len(s) + 1, t>> \in Recipes \X Nat \X Titles
    BY <1>2
  <2>3. QED
    BY <1>13, <2>1, <2>2
<1>15. \A k \in answered : Keeps1(f[k[1]], k[2], k[3])
  <2>1. ASSUME NEW k \in confirmed.flows
        PROVE  Keeps1(f[k[1]], k[2], k[3])
    <3>1. k[1] \in Recipes /\ Keeps1(flows[k[1]], k[2], k[3])
      BY DEF CatalogInv, CatalogShape, FlowsSound
    <3>2. CASE k[1] = r
      <4>1. k[2] \in 1..Len(s) /\ s[k[2]].title = k[3]
        BY <1>1, <3>1, <3>2 DEF Keeps1
      <4>2. k[2] \in 1..Len(l) /\ l[k[2]].title = k[3]
        BY ONLY <1>2, <1>8, <4>1
      <4>3. QED
        BY <1>7, <3>2, <4>2 DEF Keeps1
    <3>3. CASE k[1] # r
      BY <1>7, <3>1, <3>3
    <3>4. QED
      BY <3>2, <3>3
  <2>2. Keeps1(f[r], Len(s) + 1, t)
    <3>1. Len(s) + 1 \in 1..Len(l) /\ l[Len(s) + 1].title = t
      BY ONLY <1>2, <1>4, <1>8
    <3>2. QED
      BY <1>7, <3>1 DEF Keeps1
  <2>3. QED
    BY <1>13, <2>1, <2>2
<1>16. FlowsSound(f, answered)
  BY <1>10, <1>12, <1>15 DEF FlowsSound
<1>17. flows' = f /\ SaveFlows(answered) /\ UNCHANGED <<recipes, shown>>
  BY <1>1, <1>3, <1>5, <1>6, <1>13 DEF Append1
<1>18. QED
  BY <1>7, <1>14, <1>16, <1>17, FlowsSaved

LEMMA WorkflowKeeps ==
  ASSUME CatalogInv, NEW r \in Recipes, NEW t \in Titles, CreateWorkflow(r, t) \/ CreateVersion(r, t)
  PROVE  CatalogInv'
<1>1. flows[r] \in Seq(VersionRecords) /\ Numbered(flows[r])
  BY DEF CatalogInv, CatalogShape, FlowTables, FlowsSound
<1>2. CASE CreateWorkflow(r, t)
  <2>1. Len(flows[r]) + 1 = 1
    BY <1>2 DEF CreateWorkflow
  <2>2. QED
    BY <1>2, <2>1, AppendKeeps DEF CreateWorkflow
<1>3. CASE CreateVersion(r, t)
  <2>1. Latest(r).number = Len(flows[r])
    BY <1>1, <1>3 DEF CreateVersion, Existing, Latest, Numbered
  <2>2. QED
    BY <1>3, <2>1, AppendKeeps DEF CreateVersion
<1>4. QED
  BY <1>2, <1>3

LEMMA ArchiveKeeps ==
  ASSUME CatalogInv, NEW r \in Recipes, ArchiveWorkflow(r)
  PROVE  CatalogInv'
<1>1. PICK s : s = flows[r]
  OBVIOUS
<1>2. s \in Seq(VersionRecords) /\ Len(s) \in Nat \ {0} /\ flows \in FlowTables
  BY <1>1 DEF CatalogInv, CatalogShape, FlowTables, ArchiveWorkflow, Existing
<1>3. PICK v : v = [s[Len(s)] EXCEPT !.archived = TRUE]
  OBVIOUS
<1>4. /\ v \in VersionRecords /\ v.number = s[Len(s)].number /\ v.title = s[Len(s)].title
      /\ v.archived
  <2>1. s[Len(s)] \in VersionRecords
    BY <1>2
  <2>2. QED
    BY <1>3, <2>1 DEF VersionRecords
<1>5. PICK l : l = [s EXCEPT ![Len(s)] = v]
  OBVIOUS
<1>6. /\ l \in Seq(VersionRecords) /\ Len(l) = Len(s) /\ DOMAIN l = DOMAIN s
      /\ \A n \in 1..Len(s) : l[n] = IF n = Len(s) THEN v ELSE s[n]
  BY <1>2, <1>4, <1>5
<1>7. PICK f : f = [flows EXCEPT ![r] = l]
  OBVIOUS
<1>8. f \in FlowTables /\ \A q \in Recipes : f[q] = IF q = r THEN l ELSE flows[q]
  BY <1>2, <1>6, <1>7 DEF FlowTables
<1>9. flows' = f
  BY <1>1, <1>2, <1>3, <1>5, <1>7 DEF ArchiveWorkflow
<1>10. \A q \in Recipes : Numbered(f[q])
  <2>1. Numbered(s)
    BY <1>1 DEF CatalogInv, FlowsSound
  <2>2. Numbered(l)
    <3>1. DOMAIN s = 1..Len(s) /\ \A n \in 1..Len(s) : s[n].number = n
      BY <1>2, <2>1 DEF Numbered
    <3>2. \A n \in 1..Len(s) : l[n].number = n
      BY ONLY <1>2, <1>4, <1>6, <3>1
    <3>3. QED
      BY <1>6, <3>1, <3>2 DEF Numbered
  <2>3. QED
    BY <1>8, <2>2 DEF CatalogInv, FlowsSound
<1>11. \A n \in 1..Len(s) : l[n].title = s[n].title
  BY <1>2, <1>4, <1>6
<1>12. ~OneVersion(l)
  <2>1. Len(s) = 1 => l[1] = v
    BY ONLY <1>6
  <2>2. QED
    BY <1>4, <1>6, <2>1 DEF OneVersion
<1>13. \A p, q \in Recipes : p # q /\ OneVersion(f[p]) /\ OneVersion(f[q]) =>
         f[p][1].title # f[q][1].title
  BY <1>8, <1>12 DEF CatalogInv, FlowsSound
<1>14. \A k \in confirmed.flows : Keeps1(f[k[1]], k[2], k[3])
  <2>1. SUFFICES ASSUME NEW k \in confirmed.flows
                 PROVE  Keeps1(f[k[1]], k[2], k[3])
    OBVIOUS
  <2>2. k[1] \in Recipes /\ Keeps1(flows[k[1]], k[2], k[3])
    BY DEF CatalogInv, CatalogShape, FlowsSound
  <2>3. CASE k[1] = r
    BY <1>1, <1>6, <1>8, <1>11, <2>2, <2>3 DEF Keeps1
  <2>4. CASE k[1] # r
    BY <1>8, <2>2, <2>4
  <2>5. QED
    BY <2>3, <2>4
<1>15. FlowsSound(f, confirmed.flows)
  BY <1>10, <1>13, <1>14 DEF FlowsSound
<1>16. SaveFlows(confirmed.flows) /\ UNCHANGED <<recipes, shown>>
       /\ confirmed.flows \in SUBSET (Recipes \X Nat \X Titles)
  BY DEF ArchiveWorkflow, CatalogInv, CatalogShape
<1>17. QED
  BY <1>8, <1>9, <1>15, <1>16, FlowsSaved

LEMMA RestartKeeps ==
  ASSUME CatalogInv, CatalogRestart
  PROVE  CatalogInv'
<1>1. PICK t : t = shelf.recipes
  OBVIOUS
<1>2. t \in RecipeTables /\ RecipesSound(t, confirmed.recipes)
  BY <1>1 DEF CatalogInv, CatalogShape
<1>3. recipes' = t
  <2>1. recipes' = [t EXCEPT !.active = IF t.active = NoRecipe THEN NoRecipe
                                       ELSE IF t.names[t.active] = NoTitle THEN NoRecipe ELSE t.active]
    BY <1>1, <1>2 DEF CatalogRestart, RecipeTables
  <2>2. recipes' = [t EXCEPT !.active = t.active]
    BY <1>2, <2>1 DEF RecipesSound
  <2>3. QED
    BY <1>2, <2>2 DEF RecipeTables
<1>4. /\ flows' = shelf.flows /\ shown' = recipes'.active /\ failedSince' = {}
      /\ UNCHANGED <<shelf, confirmed>>
  BY DEF CatalogRestart
<1>5. CatalogShape'
  BY <1>2, <1>3, <1>4 DEF CatalogInv, CatalogShape
<1>6. InMemory'
  BY <1>1, <1>3, <1>4 DEF InMemory
<1>7. QED
  BY <1>1, <1>3, <1>4, <1>5, <1>6 DEF CatalogInv

LEMMA CatalogsStep == CatalogInv /\ [CatalogNext]_catalogVars => CatalogInv'
<1>1. SUFFICES ASSUME CatalogInv, [CatalogNext]_catalogVars
               PROVE  CatalogInv'
  OBVIOUS
<1>2. CASE UNCHANGED catalogVars
  BY <1>1, <1>2 DEF catalogVars, CatalogInv, CatalogShape, InMemory
<1>3. CASE \E r \in Recipes : \/ \E t \in Titles : CreateRecipe(r, t)
                              \/ ActivateRecipe(r) \/ DeleteRecipe(r)
  BY <1>1, <1>3, CreateRecipeKeeps, ActivateKeeps, DeleteRecipeKeeps
<1>4. CASE \E r \in Recipes : \/ \E t \in Titles : CreateWorkflow(r, t) \/ CreateVersion(r, t)
                              \/ ArchiveWorkflow(r)
  BY <1>1, <1>4, WorkflowKeeps, ArchiveKeeps
<1>5. CASE CatalogRestart
  BY <1>1, <1>5, RestartKeeps
<1>6. QED
  BY <1>1, <1>2, <1>3, <1>4, <1>5 DEF CatalogNext

(* What was answered stored is on the shelf, over failed writes and restarts;*)
(* the active environment exists, names are unique, and versions numbered    *)
(* without a gap (environment_store.py, workflow_catalog.py).                *)
THEOREM CatalogsAreSound == CatalogInit /\ [][CatalogNext]_catalogVars => []CatalogsHold
BY CatalogsStart, CatalogsStep, CatalogsAreKept, PTL

(* Workflows have as many versions as the bound allows; what is shown is an  *)
(* environment.                                                              *)
Short(tables) == \A r \in Recipes : Len(tables[r]) <= MaxVersions
CatalogLimits == Short(flows) /\ Short(shelf.flows) /\ shown \in Recipes \cup {NoRecipe}

LEMMA CatalogLimitsStart == CatalogInit => CatalogLimits
<1> SUFFICES ASSUME CatalogInit
             PROVE  CatalogLimits
  OBVIOUS
<1>1. shelf.flows = NoFlows /\ flows = NoFlows /\ shown = NoRecipe
  BY DEF CatalogInit
<1>2. Short(NoFlows)
  BY CatalogsAssumption DEF Short, NoFlows
<1>3. QED
  BY <1>1, <1>2 DEF CatalogLimits

(* A catalog that is saved, or not.                                          *)
LEMMA ShelfShort ==
  ASSUME CatalogInv, CatalogLimits, Short(flows'), shown' \in Recipes \cup {NoRecipe},
         \/ \E a : SaveFlows(a)
         \/ shelf' = [shelf EXCEPT !.recipes = recipes']
         \/ UNCHANGED shelf
  PROVE  CatalogLimits'
<1>1. shelf \in [recipes : RecipeTables, flows : FlowTables]
  BY DEF CatalogInv, CatalogShape
<1>2. shelf'.flows \in {shelf.flows, flows'}
  BY <1>1 DEF SaveFlows
<1>3. QED
  BY <1>2 DEF CatalogLimits

LEMMA CatalogLimitsStep == CatalogInv /\ CatalogLimits /\ [CatalogNext]_catalogVars => CatalogLimits'
<1> SUFFICES ASSUME CatalogInv, CatalogLimits, [CatalogNext]_catalogVars
             PROVE  CatalogLimits'
  OBVIOUS
<1>1. flows \in FlowTables /\ shelf \in [recipes : RecipeTables, flows : FlowTables]
  BY DEF CatalogInv, CatalogShape
<1>2. CASE UNCHANGED catalogVars
  BY <1>2 DEF catalogVars, CatalogLimits
<1>3. ASSUME NEW r \in Recipes, NEW t,
             CreateRecipe(r, t) \/ DeleteRecipe(r) \/ ActivateRecipe(r)
      PROVE  CatalogLimits'
  <2>1. Short(flows') /\ shown' \in Recipes \cup {NoRecipe}
    BY <1>3 DEF CreateRecipe, DeleteRecipe, ActivateRecipe, CatalogLimits
  <2>2. shelf' = [shelf EXCEPT !.recipes = recipes'] \/ UNCHANGED shelf
    BY <1>3 DEF CreateRecipe, DeleteRecipe, ActivateRecipe, SaveRecipes
  <2>3. QED
    BY <2>1, <2>2, ShelfShort
<1>4. ASSUME NEW r \in Recipes, NEW t,
             CreateWorkflow(r, t) \/ CreateVersion(r, t) \/ ArchiveWorkflow(r)
      PROVE  CatalogLimits'
  <2>1. flows[r] \in Seq(VersionRecords) /\ Len(flows[r]) \in Nat
    BY <1>1 DEF FlowTables
  <2>2. PICK l : flows' = [flows EXCEPT ![r] = l] /\ Len(l) <= MaxVersions
    <3>1. CASE CreateWorkflow(r, t) \/ CreateVersion(r, t)
      <4>1. PICK n : Append1(r, n, t)
        BY <3>1 DEF CreateWorkflow, CreateVersion
      <4>2. Len(flows[r]) < MaxVersions
        BY <2>1, <3>1, CatalogsAssumption DEF CreateWorkflow, CreateVersion
      <4>3. PICK l : l = Append(flows[r], Version(r, n, t))
        OBVIOUS
      <4>4. Len(l) = Len(flows[r]) + 1
        BY <2>1, <4>3
      <4>5. Len(l) <= MaxVersions
        BY ONLY <2>1, <4>2, <4>4, CatalogsAssumption
      <4>6. flows' = [flows EXCEPT ![r] = l]
        BY <4>1, <4>3 DEF Append1
      <4>7. QED
        BY <4>5, <4>6
    <3>2. CASE ArchiveWorkflow(r)
      <4>1. PICK l : l = [flows[r] EXCEPT ![Len(flows[r])].archived = TRUE]
        OBVIOUS
      <4>2. DOMAIN l = DOMAIN flows[r]
        BY <4>1
      <4>3. Len(l) = Len(flows[r])
        <5>1. DOMAIN flows[r] = 1..Len(flows[r])
          BY ONLY <2>1
        <5>2. QED
          BY ONLY <2>1, <4>1, <4>2, <5>1
      <4>4. flows' = [flows EXCEPT ![r] = l]
        BY <3>2, <4>1 DEF ArchiveWorkflow
      <4>5. QED
        BY <4>3, <4>4 DEF CatalogLimits, Short
    <3>3. QED
      BY <1>4, <3>1, <3>2
  <2>3. Short(flows')
    BY <1>1, <2>2 DEF FlowTables, CatalogLimits, Short
  <2>4. \E a : SaveFlows(a)
    BY <1>4 DEF CreateWorkflow, CreateVersion, Append1, ArchiveWorkflow
  <2>5. shown' \in Recipes \cup {NoRecipe}
    BY <1>4 DEF CreateWorkflow, CreateVersion, Append1, ArchiveWorkflow, CatalogLimits
  <2>6. QED
    BY <2>3, <2>4, <2>5, ShelfShort
<1>5. CASE CatalogRestart
  <2>1. CatalogInv'
    BY CatalogsStep
  <2>2. recipes'.active \in Recipes \cup {NoRecipe}
    BY <2>1 DEF CatalogInv, CatalogShape, RecipeTables
  <2>3. QED
    BY <1>5, <2>2 DEF CatalogRestart, CatalogLimits
<1>6. QED
  BY <1>2, <1>3, <1>4, <1>5 DEF CatalogNext

LEMMA CatalogsTyped == CatalogInv /\ CatalogLimits => CatalogTypeOK
BY DEF CatalogInv, CatalogShape, RecipeTables, CatalogLimits, Short, CatalogTypeOK

LEMMA CatalogTypes == CatalogInit /\ [][CatalogNext]_catalogVars => []CatalogTypeOK
BY CatalogsStart, CatalogsStep, CatalogLimitsStart, CatalogLimitsStep, CatalogsTyped, PTL

-----------------------------------------------------------------------------
(* Run records and artifacts. *)
(* What a record of a run holds.                                             *)
RunRecords ==
    [id : Nat, op : OperationKinds, status : {"success", "error"},
     verification : {"verified", "unverified", "failed"}]

AtMost(n) == IF n < MaxRuns THEN n ELSE MaxRuns

(* The timeline: the runs since it was cleared, the newest first.            *)
KeptRuns(list, n, cleared) ==
    /\ list \in Seq(RunRecords) /\ Len(list) = AtMost(n - cleared)
    /\ \A k \in 1..Len(list) :
         /\ list[k].id = n + 1 - k
         /\ list[k].status = "error" => list[k].verification = "unverified"

(* The log: the newest runs, in their order.                                 *)
KeptLog(list, n) ==
    /\ list \in Seq(Nat) /\ Len(list) = AtMost(n)
    /\ \A k \in 1..Len(list) : list[k] = n - Len(list) + k

(* An artifact that was answered is there, or has expired.                   *)
KeptFiles(f, out) ==
    /\ f \in [Artifacts -> [content : BOOLEAN, record : BOOLEAN, expired : BOOLEAN]]
    /\ out \subseteq Artifacts
    /\ \A a \in out : f[a].expired \/ (f[a].record /\ f[a].content)

TimelineInv ==
    /\ recorded \in Nat /\ lastCleared \in 0..recorded
    /\ KeptRuns(runs, recorded, lastCleared) /\ KeptLog(oplog, recorded)
    /\ KeptFiles(files, handedOut)

-----------------------------------------------------------------------------
LEMMA AtMostFits ==
  ASSUME NEW n \in Nat
  PROVE  /\ AtMost(n) \in Nat /\ AtMost(n) <= n /\ AtMost(n) <= MaxRuns
         /\ AtMost(n + 1) = IF AtMost(n) < MaxRuns THEN AtMost(n) + 1 ELSE MaxRuns
         /\ AtMost(n) < MaxRuns => AtMost(n) = n
BY TimelineAssumption DEF AtMost

(* A run is recorded: in front of the timeline, at the end of the log.       *)
LEMMA RunAdded ==
  ASSUME NEW n \in Nat, NEW cleared \in 0..n, NEW list, KeptRuns(list, n, cleared),
         NEW run \in RunRecords, run.id = n + 1,
         run.status = "error" => run.verification = "unverified"
  PROVE  KeptRuns(SubSeq(<<run>> \o list, 1, IF Len(list) < MaxRuns THEN Len(list) + 1 ELSE MaxRuns),
                  n + 1, cleared)
<1>1. /\ list \in Seq(RunRecords) /\ Len(list) = AtMost(n - cleared) /\ Len(list) \in Nat
      /\ \A k \in 1..Len(list) :
         /\ list[k].id = n + 1 - k
         /\ list[k].status = "error" => list[k].verification = "unverified"
  BY DEF KeptRuns
<1>2. PICK m : m = IF Len(list) < MaxRuns THEN Len(list) + 1 ELSE MaxRuns
  OBVIOUS
<1>3. m \in Nat /\ m <= Len(list) + 1 /\ m = AtMost(n + 1 - cleared)
  <2>1. PICK r \in Nat : r = n - cleared /\ r + 1 = n + 1 - cleared
    OBVIOUS
  <2>2. AtMost(r) = Len(list) /\ AtMost(r + 1) = AtMost(n + 1 - cleared)
    BY <1>1, <2>1
  <2>3. AtMost(r + 1) = m
    <3>1. PICK len \in Nat : len = Len(list)
      BY <1>1
    <3>2. len = AtMost(r) /\ m = IF len < MaxRuns THEN len + 1 ELSE MaxRuns
      BY <1>2, <2>2, <3>1
    <3>3. QED
      BY ONLY <3>2, r \in Nat, len \in Nat, TimelineAssumption DEF AtMost
  <2>4. m \in Nat /\ m <= Len(list) + 1
    BY <1>1, <1>2, TimelineAssumption
  <2>5. QED
    BY <2>2, <2>3, <2>4
<1>4. PICK long : long = <<run>> \o list
  OBVIOUS
<1>5. /\ long \in Seq(RunRecords) /\ Len(long) = Len(list) + 1 /\ long[1] = run
      /\ \A k \in 2..Len(long) : k - 1 \in 1..Len(list) /\ long[k] = list[k - 1]
  <2>1. PICK one : one = <<run>>
    OBVIOUS
  <2>2. one \in Seq(RunRecords) /\ Len(one) = 1 /\ one[1] = run /\ long = one \o list
    BY <1>4, <2>1
  <2>3. long \in Seq(RunRecords) /\ Len(long) = 1 + Len(list)
        /\ \A k \in 1..Len(long) : long[k] = IF k <= 1 THEN one[k] ELSE list[k - 1]
    <3>1. one \in Seq(RunRecords) /\ list \in Seq(RunRecords)
      BY ONLY <1>1, <2>2
    <3>2. /\ one \o list \in Seq(RunRecords) /\ Len(one \o list) = Len(one) + Len(list)
          /\ \A k \in 1..(Len(one) + Len(list)) :
               (one \o list)[k] = IF k <= Len(one) THEN one[k] ELSE list[k - Len(one)]
      BY ONLY <3>1
    <3>3. QED
      BY ONLY <1>1, <2>2, <3>2
  <2>4. QED
    BY ONLY <1>1, <2>2, <2>3
<1>6. PICK new : new = SubSeq(long, 1, m)
  OBVIOUS
<1>7. new \in Seq(RunRecords) /\ Len(new) = m /\ \A k \in 1..m : new[k] = long[k]
  BY ONLY <1>1, <1>3, <1>5, <1>6
<1>8. ASSUME NEW k \in 1..m
      PROVE  /\ new[k].id = n + 1 + 1 - k
             /\ new[k].status = "error" => new[k].verification = "unverified"
  <2>1. CASE k = 1
    BY <1>5, <1>7, <2>1
  <2>2. CASE k # 1
    <3>1. k \in 2..Len(long) /\ k - 1 \in 1..Len(list)
      BY <1>1, <1>3, <1>5, <2>2
    <3>2. new[k] = list[k - 1] /\ list[k - 1].id = n + 1 - (k - 1)
      BY <1>1, <1>5, <1>7, <3>1
    <3>3. QED
      BY <1>1, <3>1, <3>2
  <2>3. QED
    BY <2>1, <2>2
<1>9. KeptRuns(new, n + 1, cleared)
  BY <1>3, <1>7, <1>8 DEF KeptRuns
<1>10. QED
  BY <1>2, <1>4, <1>6, <1>9

LEMMA RunLogged ==
  ASSUME NEW n \in Nat, NEW list, KeptLog(list, n)
  PROVE  KeptLog(IF Len(list) = MaxRuns THEN Append(Tail(list), n + 1) ELSE Append(list, n + 1), n + 1)
<1>1. /\ list \in Seq(Nat) /\ Len(list) = AtMost(n) /\ Len(list) \in Nat
      /\ \A k \in 1..Len(list) : list[k] = n - Len(list) + k
  BY DEF KeptLog
<1>2. PICK short : short = IF Len(list) = MaxRuns THEN Tail(list) ELSE list
  OBVIOUS
<1>3. /\ short \in Seq(Nat) /\ Len(short) \in Nat /\ Len(short) + 1 = AtMost(n + 1)
      /\ \A k \in 1..Len(short) : short[k] = n - Len(short) + k
  <2>1. CASE Len(list) = MaxRuns
    <3>1. list # <<>>
      BY <1>1, <2>1, TimelineAssumption
    <3>2. /\ short \in Seq(Nat) /\ Len(short) = Len(list) - 1
          /\ \A k \in 1..Len(short) : k + 1 \in 1..Len(list) /\ short[k] = list[k + 1]
      BY <1>1, <1>2, <2>1, <3>1
    <3>3. \A k \in 1..Len(short) : short[k] = n - Len(short) + k
      BY <1>1, <3>2
    <3>4. Len(short) + 1 = AtMost(n + 1)
      BY <1>1, <2>1, <3>2, TimelineAssumption DEF AtMost
    <3>5. QED
      BY <1>1, <3>1, <3>2, <3>3, <3>4
  <2>2. CASE Len(list) # MaxRuns
    BY <1>1, <1>2, <2>2, TimelineAssumption DEF AtMost
  <2>3. QED
    BY <2>1, <2>2
<1>4. PICK new : new = Append(short, n + 1)
  OBVIOUS
<1>5. /\ new \in Seq(Nat) /\ Len(new) = Len(short) + 1 /\ new[Len(short) + 1] = n + 1
      /\ \A k \in 1..Len(short) : new[k] = short[k]
  BY ONLY <1>3, <1>4, n \in Nat
<1>6. \A k \in 1..Len(new) : new[k] = n + 1 - Len(new) + k
  <2>1. \A k \in 1..Len(new) : k \in 1..Len(short) \/ k = Len(short) + 1
    BY <1>3, <1>5
  <2>2. QED
    BY <1>3, <1>5, <2>1
<1>7. KeptLog(new, n + 1)
  BY <1>3, <1>5, <1>6 DEF KeptLog
<1>8. QED
  BY <1>2, <1>4, <1>7

LEMMA TimelineRecords ==
  ASSUME TimelineInv, NEW o \in OperationKinds, NEW s \in {"success", "error"},
         NEW p \in {"yes", "no", "none"}, LogOperation(o, s, p)
  PROVE  TimelineInv'
<1>1. /\ recorded \in Nat /\ lastCleared \in 0..recorded
      /\ KeptRuns(runs, recorded, lastCleared) /\ KeptLog(oplog, recorded)
      /\ KeptFiles(files, handedOut)
  BY DEF TimelineInv
<1>2. PICK run : run = [id |-> recorded + 1, op |-> o, status |-> s, verification |-> Verified(s, p)]
  OBVIOUS
<1>3. /\ run \in RunRecords /\ run.id = recorded + 1
      /\ run.status = "error" => run.verification = "unverified"
  BY <1>1, <1>2 DEF RunRecords, Verified
<1>4. /\ recorded' = recorded + 1 /\ lastCleared' = lastCleared
      /\ files' = files /\ handedOut' = handedOut
      /\ runs' = SubSeq(<<run>> \o runs, 1, IF Len(runs) < MaxRuns THEN Len(runs) + 1 ELSE MaxRuns)
      /\ oplog' = IF Len(oplog) = MaxRuns THEN Append(Tail(oplog), run.id) ELSE Append(oplog, run.id)
  BY <1>2 DEF LogOperation, Record
<1>5. PICK new : new = runs'
  OBVIOUS
<1>6. KeptRuns(new, recorded + 1, lastCleared)
  BY <1>1, <1>3, <1>4, <1>5, RunAdded
<1>7. PICK log : log = oplog'
  OBVIOUS
<1>8. KeptLog(log, recorded + 1)
  BY <1>1, <1>3, <1>4, <1>7, RunLogged
<1>9. recorded' \in Nat /\ lastCleared' \in 0..recorded'
  BY <1>1, <1>4
<1>10. QED
  BY <1>1, <1>4, <1>5, <1>6, <1>7, <1>8, <1>9 DEF TimelineInv

LEMMA FilesKept ==
  ASSUME KeptFiles(files, handedOut),
         (\E a \in Artifacts : PutArtifact(a) \/ Expires(a)) \/ CleanUp
  PROVE  KeptFiles(files', handedOut')
<1>1. /\ files \in [Artifacts -> [content : BOOLEAN, record : BOOLEAN, expired : BOOLEAN]]
      /\ handedOut \subseteq Artifacts
      /\ \A a \in handedOut : files[a].expired \/ (files[a].record /\ files[a].content)
  BY DEF KeptFiles
<1>2. ASSUME NEW a \in Artifacts, PutArtifact(a)
      PROVE  KeptFiles(files', handedOut')
  <2>1. files[a] = NoFile
    BY <1>2 DEF PutArtifact
  <2>2. a \notin handedOut
    BY <1>1, <2>1 DEF NoFile
  <2>3. PICK w \in [content : BOOLEAN, record : BOOLEAN, expired : BOOLEAN], b \in BOOLEAN :
          /\ w.content = TRUE /\ w.record = b
          /\ files' = [files EXCEPT ![a] = w]
          /\ handedOut' = IF b THEN handedOut \cup {a} ELSE handedOut
    <3>1. PICK whole : whole = [NoFile EXCEPT !.content = TRUE, !.record = TRUE]
      OBVIOUS
    <3>2. whole \in [content : BOOLEAN, record : BOOLEAN, expired : BOOLEAN]
          /\ whole.content = TRUE /\ whole.record = TRUE
      BY <3>1 DEF NoFile
    <3>3. PICK half : half = [NoFile EXCEPT !.content = TRUE]
      OBVIOUS
    <3>4. half \in [content : BOOLEAN, record : BOOLEAN, expired : BOOLEAN]
          /\ half.content = TRUE /\ half.record = FALSE
      BY <3>3 DEF NoFile
    <3>5. \/ files' = [files EXCEPT ![a] = whole] /\ handedOut' = handedOut \cup {a}
          \/ files' = [files EXCEPT ![a] = half] /\ handedOut' = handedOut
      BY <1>2, <3>1, <3>3 DEF PutArtifact
    <3>6. CASE files' = [files EXCEPT ![a] = whole] /\ handedOut' = handedOut \cup {a}
      <4> USE <3>2
      <4> WITNESS whole \in [content : BOOLEAN, record : BOOLEAN, expired : BOOLEAN],
                  TRUE \in BOOLEAN
      <4> QED
        BY <3>2, <3>6
    <3>7. CASE files' = [files EXCEPT ![a] = half] /\ handedOut' = handedOut
      <4> USE <3>4
      <4> WITNESS half \in [content : BOOLEAN, record : BOOLEAN, expired : BOOLEAN],
                  FALSE \in BOOLEAN
      <4> QED
        BY <3>4, <3>7
    <3>8. QED
      BY <3>5, <3>6, <3>7
  <2>4. \A x \in Artifacts : files'[x] = IF x = a THEN w ELSE files[x]
    BY <1>1, <2>3
  <2>5. DOMAIN files' = Artifacts /\ files' = [x \in Artifacts |-> files'[x]]
    BY <1>1, <2>3
  <2>6. PICK f, out : f = files' /\ out = handedOut'
    OBVIOUS
  <2>7. f \in [Artifacts -> [content : BOOLEAN, record : BOOLEAN, expired : BOOLEAN]]
    BY ONLY <1>1, <2>3, <2>4, <2>5, <2>6
  <2>8. out \subseteq Artifacts /\ \A x \in out : x = a => b
    BY <1>1, <2>2, <2>3, <2>6
  <2>9. \A x \in out : f[x].expired \/ (f[x].record /\ f[x].content)
    BY <1>1, <2>3, <2>4, <2>6, <2>8
  <2>10. QED
    BY <2>6, <2>7, <2>8, <2>9 DEF KeptFiles
<1>3. ASSUME NEW a \in Artifacts, Expires(a)
      PROVE  KeptFiles(files', handedOut')
  BY <1>1, <1>3 DEF Expires, KeptFiles
<1>4. CASE CleanUp
  <2>1. PICK S \in SUBSET {a \in Artifacts : files[a].record /\ files[a].expired},
             T \in SUBSET {a \in Artifacts : files[a].record /\ files[a].expired} :
          /\ T \subseteq S
          /\ files' = [a \in Artifacts |->
              IF a \in T THEN [NoFile EXCEPT !.expired = TRUE]
              ELSE IF a \in S THEN [files[a] EXCEPT !.content = FALSE] ELSE files[a]]
          /\ handedOut' = handedOut
    BY <1>4 DEF CleanUp
  <2>2. ASSUME NEW a \in Artifacts
        PROVE  /\ files'[a] \in [content : BOOLEAN, record : BOOLEAN, expired : BOOLEAN]
               /\ a \in S => files'[a].expired
               /\ a \notin S => files'[a] = files[a]
    BY <1>1, <2>1 DEF NoFile
  <2>3. QED
    BY <1>1, <2>1, <2>2 DEF KeptFiles
<1>5. QED
  BY <1>2, <1>3, <1>4

LEMMA TimelineStep == TimelineInv /\ [TimelineNext]_timelineVars => TimelineInv'
<1> SUFFICES ASSUME TimelineInv, [TimelineNext]_timelineVars
             PROVE  TimelineInv'
  OBVIOUS
<1>1. CASE UNCHANGED timelineVars
  BY <1>1 DEF timelineVars, TimelineInv
<1>2. ASSUME NEW o \in OperationKinds, NEW s \in {"success", "error"},
             NEW p \in {"yes", "no", "none"}, LogOperation(o, s, p)
      PROVE  TimelineInv'
  BY <1>2, TimelineRecords
<1>3. CASE ClearRuns
  <2>1. /\ runs' = <<>> /\ lastCleared' = recorded /\ recorded' = recorded
        /\ UNCHANGED <<oplog, files, handedOut>>
    BY <1>3 DEF ClearRuns
  <2>2. KeptRuns(<<>>, recorded, recorded) /\ recorded \in Nat
    BY TimelineAssumption DEF KeptRuns, AtMost, TimelineInv
  <2>3. QED
    BY <2>1, <2>2 DEF TimelineInv
<1>4. CASE side = "artifacts" /\ ((\E a \in Artifacts : PutArtifact(a) \/ Expires(a)) \/ CleanUp)
  <2>1. UNCHANGED <<runs, oplog, recorded, lastCleared>>
    BY <1>4 DEF PutArtifact, Expires, CleanUp
  <2>2. KeptFiles(files', handedOut')
    BY <1>4, FilesKept DEF TimelineInv
  <2>3. QED
    BY <2>1, <2>2 DEF TimelineInv
<1>5. QED
  BY <1>1, <1>2, <1>3, <1>4 DEF TimelineNext

LEMMA TimelineStart == TimelineInit => TimelineInv
BY TimelineAssumption
DEF TimelineInit, TimelineInv, KeptRuns, KeptLog, KeptFiles, AtMost, NoFile

-----------------------------------------------------------------------------
(* What was recorded is found by its number while it is kept.                *)
LEMMA RunFound ==
  ASSUME TimelineInv, NEW id \in Nat
  PROVE  GetRun(id) # <<>> <=> \E k \in 1..Len(runs) : runs[k].id = id
<1>1. runs \in Seq(RunRecords) /\ DOMAIN runs = 1..Len(runs)
  BY DEF TimelineInv, KeptRuns
<1>2. PICK found : found = GetRun(id)
  OBVIOUS
<1>3. found \in Seq(RunRecords)
      /\ ElementsOf(found) = ElementsOf(runs) \cap {r \in ToSet(runs) : r.id = id}
  BY <1>1, <1>2, ThoseMembers DEF GetRun
<1>4. found # <<>> <=> ElementsOf(found) # {}
  <2>1. DOMAIN found = 1..Len(found) /\ Len(found) \in Nat
    BY <1>3
  <2>2. found # <<>> <=> Len(found) # 0
    BY <1>3
  <2>3. QED
    BY <2>1, <2>2 DEF ElementsOf
<1>5. QED
  BY <1>1, <1>2, <1>3, <1>4 DEF ElementsOf, ToSet

LEMMA LogMirrors ==
  ASSUME TimelineInv
  PROVE  /\ Reverse(LogsSearch(MaxRuns)) = [k \in DOMAIN oplog |-> recorded + 1 - k]
         /\ \A k \in DOMAIN oplog : oplog[k] > lastCleared <=> GetRun(oplog[k]) # <<>>
<1>1. /\ recorded \in Nat /\ lastCleared \in 0..recorded
      /\ oplog \in Seq(Nat) /\ Len(oplog) = AtMost(recorded) /\ Len(oplog) \in Nat
      /\ DOMAIN oplog = 1..Len(oplog) /\ Len(oplog) <= MaxRuns
      /\ \A k \in 1..Len(oplog) : oplog[k] = recorded - Len(oplog) + k
      /\ Len(runs) = AtMost(recorded - lastCleared) /\ Len(runs) \in Nat
      /\ \A k \in 1..Len(runs) : runs[k].id = recorded + 1 - k
  BY AtMostFits DEF TimelineInv, KeptLog, KeptRuns
<1>2. LogsSearch(MaxRuns) = oplog
  BY <1>1, TimelineAssumption DEF LogsSearch
<1>3. Reverse(oplog) = [k \in DOMAIN oplog |-> recorded + 1 - k]
  BY <1>1 DEF Reverse
<1>4. ASSUME NEW k \in DOMAIN oplog
      PROVE  oplog[k] > lastCleared <=> GetRun(oplog[k]) # <<>>
  <2>1. PICK n \in Nat : n = oplog[k] /\ n = recorded - Len(oplog) + k
    BY <1>1
  <2>2. n > lastCleared <=> \E j \in 1..Len(runs) : recorded + 1 - j = n
    <3>1. k \in 1..Len(oplog) /\ Len(oplog) <= recorded
      BY <1>1, AtMostFits
    <3>2. ASSUME n > lastCleared
          PROVE  \E j \in 1..Len(runs) : recorded + 1 - j = n
      <4>1. PICK len \in Nat : len = Len(oplog)
        BY <1>1
      <4> k \in Nat /\ recorded \in Nat
        BY <1>1, <3>1
      <4>2. PICK j \in Nat \ {0} : j = len - k + 1 /\ j <= len
        BY <3>1, <4>1
      <4>3. n = recorded - len + k
        BY <2>1, <4>1
      <4>4. recorded + 1 - j = n
        BY ONLY recorded \in Nat, n \in Nat, len \in Nat, j \in Nat, k \in Nat, <4>2, <4>3
      <4>5. j <= recorded - lastCleared /\ j <= MaxRuns
        <5>1. len <= MaxRuns /\ MaxRuns \in Nat /\ lastCleared \in Nat
          BY <1>1, <4>1, TimelineAssumption
        <5>2. QED
          BY ONLY <3>2, <4>2, <4>4, <5>1, n \in Nat, len \in Nat, recorded \in Nat
      <4>6. j \in 1..Len(runs)
        BY <1>1, <4>2, <4>5 DEF AtMost
      <4>7. QED
        BY <4>4, <4>6
    <3>3. ASSUME NEW j \in 1..Len(runs), recorded + 1 - j = n
          PROVE  n > lastCleared
      <4>1. Len(runs) <= recorded - lastCleared
        BY <1>1, AtMostFits
      <4>2. QED
        BY <1>1, <3>3, <4>1
    <3>4. QED
      BY <3>2, <3>3
  <2>3. GetRun(n) # <<>> <=> \E j \in 1..Len(runs) : runs[j].id = n
    BY RunFound
  <2>4. QED
    BY <1>1, <2>1, <2>2, <2>3
<1>5. QED
  BY <1>2, <1>3, <1>4

(* What failed lately is called to attention.                                *)
LEMMA FailureSeen ==
  ASSUME TimelineInv, NEW k \in DOMAIN runs, k <= LaunchpadRuns,
         runs[k].status = "error" \/ runs[k].verification = "failed", NEW b \in BOOLEAN
  PROVE  NextAction(TRUE, b, b) = "review_failures"
<1>1. runs \in Seq(RunRecords) /\ DOMAIN runs = 1..Len(runs) /\ Len(runs) \in Nat
  BY DEF TimelineInv, KeptRuns
<1>2. PICK all : all = Those(runs, {r \in ToSet(runs) : "any" = "any" \/ r.status = "any"})
  OBVIOUS
<1>3. all = runs
  <2>1. {r \in ToSet(runs) : "any" = "any" \/ r.status = "any"} = ElementsOf(runs)
    BY DEF ToSet, ElementsOf
  <2>2. QED
    BY <1>1, <1>2, <2>1, ThoseAll
<1>4. PICK m : m = IF LaunchpadRuns < Len(all) THEN LaunchpadRuns ELSE Len(all)
  OBVIOUS
<1>5. PICK seen : seen = SubSeq(runs, 1, m)
  OBVIOUS
<1>6. m \in Nat /\ m <= Len(runs) /\ k \in 1..m
  BY <1>1, <1>3, <1>4, TimelineAssumption
<1>7. /\ seen \in Seq(RunRecords) /\ Len(seen) = m /\ DOMAIN seen = 1..m
      /\ \A j \in 1..m : seen[j] = runs[j]
  BY ONLY <1>1, <1>5, <1>6
<1>8. ListRuns("any", LaunchpadRuns) = seen
  BY <1>2, <1>3, <1>4, <1>5 DEF ListRuns
<1>9. PICK bad : bad = NeedsAttention(seen)
  OBVIOUS
<1>10. bad \in Seq(RunRecords) /\ ElementsOf(bad) =
         ElementsOf(seen) \cap {r \in ToSet(seen) : r.status = "error" \/ r.verification = "failed"}
  BY <1>7, <1>9, ThoseMembers DEF NeedsAttention
<1>11. seen[k] \in ElementsOf(bad)
  BY <1>6, <1>7, <1>10 DEF ElementsOf, ToSet
<1>12. bad # <<>>
  BY <1>11 DEF ElementsOf
<1>13. QED
  BY <1>8, <1>9, <1>12 DEF NextAction

LEMMA TimelineTold == TimelineInv => TimelineHolds
<1> SUFFICES ASSUME TimelineInv
             PROVE  TimelineHolds
  OBVIOUS
<1>1. /\ recorded \in Nat /\ runs \in Seq(RunRecords) /\ DOMAIN runs = 1..Len(runs) /\ Len(runs) \in Nat
      /\ \A k \in 1..Len(runs) :
         /\ runs[k] \in RunRecords /\ runs[k].id = recorded + 1 - k
         /\ runs[k].status = "error" => runs[k].verification = "unverified"
  BY DEF TimelineInv, KeptRuns
<1>2. runs = <<>> \/ runs[1].id = recorded
  BY <1>1
<1>3. ASSUME NEW k \in DOMAIN runs
      PROVE  /\ runs[k].id = recorded + 1 - k
             /\ Advise(runs[k]) = "safe" => runs[k].op = "look" /\ runs[k].status = "error"
             /\ Advise(runs[k]) = "not_needed" => runs[k].status = "success"
  <2>1. runs[k] \in RunRecords /\ runs[k].id = recorded + 1 - k
    BY <1>1
  <2>2. QED
    BY <2>1 DEF Advise, RunRecords
<1>4. ASSUME NEW k \in DOMAIN runs, NEW j \in DOMAIN runs, Differences(runs[k], runs[j]) = {}
      PROVE  Advise(runs[k]) = Advise(runs[j])
  <2>1. runs[k].op = runs[j].op /\ runs[k].status = runs[j].status
        /\ runs[k].verification = runs[j].verification
    BY <1>4 DEF Differences
  <2>2. QED
    BY <2>1 DEF Advise
<1>5. \A a \in handedOut : files[a].expired \/ GetArtifact(a)
  BY DEF TimelineInv, KeptFiles, GetArtifact
<1>6. QED
  BY <1>2, <1>3, <1>4, <1>5, LogMirrors, FailureSeen DEF TimelineHolds

(* What the timeline, the log and the launchpad tell of the runs agrees with *)
(* what was recorded, and an artifact whose id was answered is there until   *)
(* it expires (run_timeline.py, artifact_store.py).                          *)
THEOREM TimelineIsTrue == TimelineInit /\ [][TimelineNext]_timelineVars => []TimelineHolds
BY TimelineStart, TimelineStep, TimelineTold, PTL

LEMMA TimelineLimits ==
  /\ TimelineInit => recorded <= MaxRecorded
  /\ TimelineInv /\ recorded <= MaxRecorded /\ [TimelineNext]_timelineVars => (recorded <= MaxRecorded)'
<1>1. TimelineInit => recorded <= MaxRecorded
  BY TimelineAssumption DEF TimelineInit
<1>2. ASSUME TimelineInv, recorded <= MaxRecorded, [TimelineNext]_timelineVars
      PROVE  recorded' <= MaxRecorded
  <2>1. recorded' = recorded \/ (recorded < MaxRecorded /\ recorded' = recorded + 1)
    BY <1>2 DEF TimelineNext, LogOperation, ClearRuns, PutArtifact, Expires, CleanUp, timelineVars
  <2>2. recorded \in Nat
    BY <1>2 DEF TimelineInv
  <2>3. QED
    BY ONLY <1>2, <2>1, <2>2, TimelineAssumption
<1>3. QED
  BY <1>1, <1>2

LEMMA TimelineTyped == TimelineInv /\ recorded <= MaxRecorded => TimelineTypeOK
<1> SUFFICES ASSUME TimelineInv, recorded <= MaxRecorded
             PROVE  TimelineTypeOK
  OBVIOUS
<1>1. recorded \in Nat /\ lastCleared \in 0..recorded
  BY DEF TimelineInv
<1>2. AtMost(recorded) \in Nat /\ AtMost(recorded) <= recorded /\ AtMost(recorded) <= MaxRuns
  BY <1>1, AtMostFits
<1>3. AtMost(recorded - lastCleared) <= MaxRuns
  <2>1. recorded - lastCleared \in Nat
    BY <1>1
  <2>2. QED
    BY <2>1, AtMostFits
<1>4. Len(runs) <= MaxRuns /\ Len(oplog) <= MaxRuns
  BY <1>2, <1>3 DEF TimelineInv, KeptRuns, KeptLog
<1>5. ASSUME NEW i \in DOMAIN oplog
      PROVE  oplog[i] \in 1..MaxRecorded
  <2>1. oplog \in Seq(Nat) /\ Len(oplog) = AtMost(recorded)
    BY DEF TimelineInv, KeptLog
  <2>2. i \in 1..Len(oplog)
    BY ONLY <1>5, <2>1
  <2>3. oplog[i] = recorded - Len(oplog) + i
    BY <2>2 DEF TimelineInv, KeptLog
  <2>4. QED
    BY ONLY recorded <= MaxRecorded, <1>1, <1>2, <2>1, <2>2, <2>3, TimelineAssumption
<1>6. handedOut \subseteq Artifacts
  BY DEF TimelineInv, KeptFiles
<1>7. QED
  BY <1>4, <1>5, <1>6 DEF TimelineTypeOK

LEMMA TimelineTypes == TimelineInit /\ [][TimelineNext]_timelineVars => []TimelineTypeOK
BY TimelineStart, TimelineStep, TimelineLimits, TimelineTyped, PTL

-----------------------------------------------------------------------------
(* The memory. *)
(* A table after n rows were written: each row has its own id and time.      *)
Table(t, n) ==
    /\ t = [k \in Topics |-> t[k]]
    /\ \A k \in Topics : t[k] = NoRow \/ t[k] \in [id : 1..n, at : 1..MaxWrites]
    /\ \A j, k \in Topics : t[j] # NoRow /\ (t[k].at = t[j].at \/ t[k].id = t[j].id) => j = k

(* A call: it holds the lock from begin to its answer, its transaction is    *)
(* open while it changes the table unless it was undone, and it has stored   *)
(* what it is answered for.  n: the rows written; ids: of the rows there are.*)
LockedSteps == {"begin", "change", "commit", "read"}
CallSound(m, c, holder, open, n, ids) ==
    /\ DOMAIN m = DOMAIN IdleMemo
    /\ m.pc \in {"idle", "lock", "undo", "told"} \cup LockedSteps
    /\ m.told \in {"none", "ok", "failed"} /\ m.stored \in BOOLEAN /\ m.undone \in BOOLEAN
    /\ m.op = "remember" => m.topic \in Topics
    /\ holder = c <=> m.pc \in LockedSteps
    /\ open = c => m.pc \in {"change", "commit", "undo"}
    /\ m.pc \in {"change", "commit"} => open = c \/ m.undone
    /\ m.pc \in {"idle", "lock", "begin", "change"} => ~m.stored
    /\ m.pc \in {"commit", "undo"} /\ m.stored => m.undone
    /\ m.pc = "commit" /\ m.op = "remember" => m.id \in 1..n
    /\ m.pc = "read" => m.op = "remember" /\ m.stored /\ open = NoHolder /\ m.id \in 1..n
    /\ m.pc = "told" =>
         /\ m.told = "ok" /\ (m.op = "remember" \/ m.id # 0) => m.stored
         /\ m.told = "failed" /\ m.stored /\ ~m.undone =>
              m.op = "remember" /\ m.id \in 1..n /\ m.id \notin ids

AnyIds == IdsOf(rows) \cup IdsOf(saved)
MemoryInv ==
    /\ writes \in 0..MaxWrites /\ Table(rows, writes) /\ Table(saved, writes)
    /\ held \in Minders \cup {NoHolder} /\ txn \in Minders \cup {NoHolder}
    /\ memo = [c \in Minders |-> memo[c]]
    /\ txn = NoHolder => rows = saved
    /\ \A c \in Minders : CallSound(memo[c], c, held, txn, writes, AnyIds)

-----------------------------------------------------------------------------
LEMMA SetsGives ==
  ASSUME memo = [d \in Minders |-> memo[d]], NEW c \in Minders, NEW changes, Sets(c, changes)
  PROVE  /\ memo' = [d \in Minders |-> IF d = c THEN memo'[c] ELSE memo[d]]
         /\ DOMAIN memo'[c] = DOMAIN IdleMemo
         /\ \A f \in DOMAIN IdleMemo :
              memo'[c][f] = IF f \in DOMAIN changes THEN changes[f] ELSE memo[c][f]
<1>1. PICK m : m = [f \in DOMAIN IdleMemo |-> IF f \in DOMAIN changes THEN changes[f] ELSE memo[c][f]]
  OBVIOUS
<1>2. memo' = [memo EXCEPT ![c] = m]
  BY <1>1 DEF Sets
<1>3. QED
  BY <1>1, <1>2

(* What a call did stays so while others go on.                              *)
LEMMA CallStays ==
  ASSUME NEW m, NEW d, NEW h1, NEW h2, NEW t1, NEW t2, NEW n1 \in Nat, NEW n2 \in Nat, n1 <= n2,
         NEW ids1, NEW ids2, CallSound(m, d, h1, t1, n1, ids1),
         h1 = d <=> h2 = d, t2 = d => t1 = d,
         m.pc \in {"change", "commit"} /\ t1 = d => t2 = d,
         m.pc = "read" => t2 = NoHolder,
         \A x \in 1..n1 : x \in ids2 => x \in ids1
  PROVE  CallSound(m, d, h2, t2, n2, ids2)
BY DEF CallSound

LEMMA CallMoves ==
  ASSUME MemoryInv, NEW c \in Minders, NEW m, NEW r, NEW s, NEW n, NEW h, NEW t,
         rows' = r, saved' = s, writes' = n, held' = h, txn' = t,
         memo' = [d \in Minders |-> IF d = c THEN m ELSE memo[d]],
         n \in writes..MaxWrites, Table(r, n), Table(s, n), t = NoHolder => r = s,
         \A x \in 1..writes : x \in IdsOf(r) \cup IdsOf(s) => x \in AnyIds,
         CallSound(m, c, h, t, n, IdsOf(r) \cup IdsOf(s)),
         \/ held = c /\ h \in {c, NoHolder}
         \/ held = NoHolder /\ h = c
         \/ h = held,
         \/ t = txn
         \/ t = NoHolder /\ (txn = c \/ held = c)
         \/ t = c /\ txn = NoHolder /\ held = c
  PROVE  MemoryInv'
<1>1. /\ writes \in 0..MaxWrites /\ writes \in Nat /\ n \in Nat /\ n \in 0..MaxWrites /\ writes <= n
      /\ held \in Minders \cup {NoHolder} /\ txn \in Minders \cup {NoHolder}
      /\ \A d \in Minders : CallSound(memo[d], d, held, txn, writes, AnyIds)
  BY MemoryAssumption DEF MemoryInv
<1>2. ASSUME NEW d \in Minders, d # c
      PROVE  CallSound(memo[d], d, h, t, n, IdsOf(r) \cup IdsOf(s))
  <2>1. CallSound(memo[d], d, held, txn, writes, AnyIds) /\ d # NoHolder /\ c # NoHolder
    BY <1>1, MemoryAssumption
  <2>2. held = d <=> h = d
    BY <1>2, <2>1
  <2>3. t = d => txn = d
    BY <1>2, <2>1
  <2>4. memo[d].pc \in LockedSteps => held = d
    BY <2>1 DEF CallSound
  <2>5. memo[d].pc \in {"change", "commit"} /\ txn = d => t = d
    BY <1>2, <2>1, <2>4 DEF LockedSteps
  <2>6. memo[d].pc = "read" => t = NoHolder
    <3>1. memo[d].pc = "read" => txn = NoHolder
      BY <2>1 DEF CallSound
    <3>2. QED
      BY <1>2, <2>4, <3>1 DEF LockedSteps
  <2>7. QED
    BY <1>1, <2>1, <2>2, <2>3, <2>5, <2>6, CallStays
<1>3. \A d \in Minders : CallSound(memo'[d], d, h, t, n, IdsOf(r) \cup IdsOf(s))
  BY <1>2
<1>4. memo' = [d \in Minders |-> memo'[d]]
  OBVIOUS
<1>5. h \in Minders \cup {NoHolder} /\ t \in Minders \cup {NoHolder}
  BY <1>1
<1>6. AnyIds' = IdsOf(r) \cup IdsOf(s)
  BY DEF AnyIds, IdsOf
<1>7. QED
  BY <1>1, <1>3, <1>4, <1>5, <1>6 DEF MemoryInv

LEMMA MemoryParts ==
  ASSUME MemoryInv, NEW c \in Minders
  PROVE  /\ writes \in 0..MaxWrites /\ writes \in Nat /\ writes \in writes..MaxWrites
         /\ Table(rows, writes) /\ Table(saved, writes)
         /\ memo = [d \in Minders |-> memo[d]] /\ (txn = NoHolder => rows = saved)
         /\ CallSound(memo[c], c, held, txn, writes, AnyIds)
         /\ \A x \in 1..writes : x \in IdsOf(rows) \cup IdsOf(saved) => x \in AnyIds
         /\ AnyIds = IdsOf(rows) \cup IdsOf(saved) /\ c # NoHolder
BY MemoryAssumption DEF MemoryInv, AnyIds

(* Tables as they change.                                                    *)
LEMMA TableGrows ==
  ASSUME NEW t, NEW n \in Nat, Table(t, n), NEW k \in Topics, NEW now \in TimesFor(k, t), NEW row,
         row = [id |-> IF t[k] = NoRow THEN n + 1 ELSE t[k].id, at |-> now],
         NEW u, u = [t EXCEPT ![k] = row]
  PROVE  Table(u, n + 1) /\ row.id \in 1..(n + 1)
<1>1. \A j \in Topics : u[j] = IF j = k THEN row ELSE t[j]
  BY DEF Table
<1>2. u = [j \in Topics |-> u[j]]
  BY DEF Table
<1>3. ASSUME NEW j \in Topics
      PROVE  /\ t[j] = NoRow \/ (t[j] \in [id : 1..(n + 1), at : 1..MaxWrites] /\ t[j].id \in 1..n /\ t[j].at # 0)
             /\ t[j] = NoRow => t[j].at = 0 /\ t[j].id = 0
  BY DEF Table, NoRow
<1>4. now \in 1..MaxWrites /\ now # 0 /\ \A j \in Topics : j # k => t[j].at # now
  BY MemoryAssumption DEF TimesFor
<1>5. row.at = now /\ row.id \in 1..(n + 1) /\ row \in [id : 1..(n + 1), at : 1..MaxWrites]
  BY <1>3, <1>4
<1>6. row # NoRow
  BY <1>4, <1>5 DEF NoRow
<1>7. \A j \in Topics : j # k => t[j].id # row.id
  BY <1>3 DEF Table
<1>8. ASSUME NEW i \in Topics, NEW j \in Topics, u[i] # NoRow, u[j].at = u[i].at \/ u[j].id = u[i].id
      PROVE  i = j
  <2>1. CASE i = k
    BY <1>1, <1>4, <1>5, <1>7, <1>8, <2>1
  <2>2. CASE i # k /\ j = k
    BY <1>1, <1>4, <1>5, <1>7, <1>8, <2>2
  <2>3. CASE i # k /\ j # k
    BY <1>1, <1>8, <2>3 DEF Table
  <2>4. QED
    BY <2>1, <2>2, <2>3
<1>9. \A j \in Topics : u[j] = NoRow \/ u[j] \in [id : 1..(n + 1), at : 1..MaxWrites]
  BY <1>1, <1>3, <1>5
<1>10. QED
  BY <1>2, <1>5, <1>8, <1>9 DEF Table

LEMMA TableShrinks ==
  ASSUME NEW t, NEW n \in Nat, Table(t, n), NEW u, u = [k \in Topics |-> u[k]],
         \A k \in Topics : u[k] = t[k] \/ u[k] = NoRow
  PROVE  Table(u, n) /\ IdsOf(u) \subseteq IdsOf(t)
<1>1. \A k \in Topics : t[k] = NoRow \/ (t[k].at # 0 /\ t[k].id # 0)
  BY DEF Table
<1>2. NoRow.at = 0 /\ NoRow.id = 0
  BY DEF NoRow
<1>3. \A j, k \in Topics : u[j] # NoRow /\ (u[k].at = u[j].at \/ u[k].id = u[j].id) => j = k
  BY <1>1, <1>2 DEF Table
<1>4. IdsOf(u) \subseteq IdsOf(t)
  BY <1>2 DEF IdsOf
<1>5. QED
  BY <1>3, <1>4 DEF Table

LEMMA TableStays ==
  ASSUME NEW t, NEW n \in Nat, Table(t, n)
  PROVE  Table(t, n + 1)
BY DEF Table

-----------------------------------------------------------------------------
(* Steps that leave the tables alone.                                        *)
LEMMA MemoryWaits ==
  ASSUME MemoryInv, NEW c \in Minders,
         \/ \E k \in Topics : Remember(c, k) \/ Forget(c, k)
         \/ TakesWriteLock(c) \/ BeginImmediate(c) \/ ReadsBack(c) \/ MemoAnswered(c)
  PROVE  MemoryInv'
<1>0. /\ MemoryInv /\ writes \in 0..MaxWrites /\ writes \in Nat /\ writes \in writes..MaxWrites
      /\ Table(rows, writes) /\ Table(saved, writes)
      /\ memo = [d \in Minders |-> memo[d]] /\ (txn = NoHolder => rows = saved)
      /\ CallSound(memo[c], c, held, txn, writes, AnyIds)
      /\ \A x \in 1..writes : x \in IdsOf(rows) \cup IdsOf(saved) => x \in AnyIds
      /\ AnyIds = IdsOf(rows) \cup IdsOf(saved) /\ c # NoHolder
  BY MemoryParts
<1>1. ASSUME UNCHANGED <<rows, saved, writes>>, NEW m, NEW h, NEW t, held' = h, txn' = t,
             memo' = [d \in Minders |-> IF d = c THEN m ELSE memo[d]],
             CallSound(m, c, h, t, writes, AnyIds), t = NoHolder => txn = NoHolder,
             \/ held = c /\ h \in {c, NoHolder}
             \/ held = NoHolder /\ h = c
             \/ h = held,
             t = txn \/ (t = c /\ txn = NoHolder /\ held = c)
      PROVE  MemoryInv'
  <2>1. PICK r, s, n : r = rows /\ s = saved /\ n = writes
    OBVIOUS
  <2>2. /\ rows' = r /\ saved' = s /\ writes' = n /\ n \in writes..MaxWrites
        /\ Table(r, n) /\ Table(s, n) /\ (t = NoHolder => r = s)
        /\ \A x \in 1..writes : x \in IdsOf(r) \cup IdsOf(s) => x \in AnyIds
        /\ CallSound(m, c, h, t, n, IdsOf(r) \cup IdsOf(s))
    BY <1>0, <1>1, <2>1
  <2>3. QED
    BY ONLY <1>0, <1>1, <2>2, CallMoves
<1>2. ASSUME NEW changes, Sets(c, changes)
      PROVE  /\ memo' = [d \in Minders |-> IF d = c THEN memo'[c] ELSE memo[d]]
             /\ DOMAIN memo'[c] = DOMAIN IdleMemo
             /\ \A f \in DOMAIN IdleMemo :
                  memo'[c][f] = IF f \in DOMAIN changes THEN changes[f] ELSE memo[c][f]
  BY <1>0, <1>2, SetsGives
<1>3. ASSUME NEW k \in Topics, Remember(c, k)
      PROVE  MemoryInv'
  <2>1. PICK m : m = memo'[c]
    OBVIOUS
  <2>2. Sets(c, [op |-> "remember", pc |-> "lock", topic |-> k]) /\ memo[c].pc = "idle"
    BY <1>3 DEF Remember, MemoAt
  <2>3. /\ memo' = [d \in Minders |-> IF d = c THEN m ELSE memo[d]] /\ DOMAIN m = DOMAIN IdleMemo
        /\ m.pc = "lock" /\ m.told = memo[c].told /\ m.stored = memo[c].stored /\ m.topic = k
        /\ m.undone = memo[c].undone
    BY <1>2, <2>1, <2>2 DEF IdleMemo
  <2>4. CallSound(m, c, held, txn, writes, AnyIds)
    BY <1>0, <2>2, <2>3 DEF CallSound, LockedSteps
  <2>5. UNCHANGED <<rows, saved, writes>> /\ held' = held /\ txn' = txn
    BY <1>3 DEF Remember
  <2>6. QED
    BY <1>1, <2>3, <2>4, <2>5
<1>4. ASSUME NEW k \in Topics, Forget(c, k)
      PROVE  MemoryInv'
  <2>1. PICK m : m = memo'[c]
    OBVIOUS
  <2>2. memo[c].pc = "idle" /\ UNCHANGED <<rows, saved, writes>> /\ held' = held /\ txn' = txn
    BY <1>4 DEF Forget, MemoAt
  <2>3. CASE Sets(c, [op |-> "forget", pc |-> "told", topic |-> k, id |-> 0, told |-> "ok"])
    <3>1. /\ memo' = [d \in Minders |-> IF d = c THEN m ELSE memo[d]] /\ DOMAIN m = DOMAIN IdleMemo
          /\ m.pc = "told" /\ m.told = "ok" /\ m.op = "forget" /\ m.id = 0
          /\ m.stored = memo[c].stored /\ m.undone = memo[c].undone
      BY <1>2, <2>1, <2>3 DEF IdleMemo
    <3>2. CallSound(m, c, held, txn, writes, AnyIds)
      BY <1>0, <2>2, <3>1 DEF CallSound, LockedSteps
    <3>3. QED
      BY <1>1, <2>2, <3>1, <3>2
  <2>4. CASE Sets(c, [op |-> "forget", pc |-> "lock", topic |-> k, id |-> Found(k)])
    <3>1. /\ memo' = [d \in Minders |-> IF d = c THEN m ELSE memo[d]] /\ DOMAIN m = DOMAIN IdleMemo
          /\ m.pc = "lock" /\ m.told = memo[c].told /\ m.op = "forget"
          /\ m.stored = memo[c].stored /\ m.undone = memo[c].undone
      BY <1>2, <2>1, <2>4 DEF IdleMemo
    <3>2. CallSound(m, c, held, txn, writes, AnyIds)
      BY <1>0, <2>2, <3>1 DEF CallSound, LockedSteps
    <3>3. QED
      BY <1>1, <2>2, <3>1, <3>2
  <2>5. QED
    BY <1>4, <2>3, <2>4 DEF Forget
<1>5. CASE TakesWriteLock(c)
  <2>1. PICK m : m = memo'[c]
    OBVIOUS
  <2>2. Sets(c, [pc |-> "begin"]) /\ memo[c].pc = "lock" /\ held = NoHolder
    BY <1>5 DEF TakesWriteLock, MemoAt
  <2>3. /\ memo' = [d \in Minders |-> IF d = c THEN m ELSE memo[d]] /\ DOMAIN m = DOMAIN IdleMemo
        /\ m.pc = "begin" /\ m.told = memo[c].told /\ m.stored = memo[c].stored
        /\ m.undone = memo[c].undone /\ m.op = memo[c].op /\ m.topic = memo[c].topic
    BY <1>2, <2>1, <2>2 DEF IdleMemo
  <2>4. CallSound(m, c, c, txn, writes, AnyIds)
    BY <1>0, <2>2, <2>3 DEF CallSound, LockedSteps
  <2>5. UNCHANGED <<rows, saved, writes>> /\ held' = c /\ txn' = txn
    BY <1>5 DEF TakesWriteLock
  <2>6. QED
    BY <1>1, <2>2, <2>3, <2>4, <2>5
<1>6. CASE BeginImmediate(c)
  <2>1. PICK m : m = memo'[c]
    OBVIOUS
  <2>2. Sets(c, [pc |-> "change"]) /\ memo[c].pc = "begin" /\ txn = NoHolder
    BY <1>6 DEF BeginImmediate, MemoAt
  <2>3. /\ memo' = [d \in Minders |-> IF d = c THEN m ELSE memo[d]] /\ DOMAIN m = DOMAIN IdleMemo
        /\ m.pc = "change" /\ m.told = memo[c].told /\ m.stored = memo[c].stored
        /\ m.undone = memo[c].undone /\ m.op = memo[c].op /\ m.topic = memo[c].topic
    BY <1>2, <2>1, <2>2 DEF IdleMemo
  <2>4. CallSound(m, c, held, c, writes, AnyIds) /\ held = c
    BY <1>0, <2>2, <2>3 DEF CallSound, LockedSteps
  <2>5. UNCHANGED <<rows, saved, writes>> /\ held' = held /\ txn' = c
    BY <1>6 DEF BeginImmediate
  <2>6. QED
    BY <1>0, <1>1, <2>2, <2>3, <2>4, <2>5
<1>7. CASE ReadsBack(c)
  <2>1. PICK m, said : m = memo'[c] /\ said = IF memo[c].id \in IdsOf(rows) THEN "ok" ELSE "failed"
    OBVIOUS
  <2>2. Sets(c, [pc |-> "told", told |-> said]) /\ memo[c].pc = "read"
    BY <1>7, <2>1 DEF ReadsBack, MemoAt
  <2>3. /\ memo' = [d \in Minders |-> IF d = c THEN m ELSE memo[d]] /\ DOMAIN m = DOMAIN IdleMemo
        /\ m.pc = "told" /\ m.told = said /\ m.stored = memo[c].stored
        /\ m.undone = memo[c].undone /\ m.op = memo[c].op /\ m.topic = memo[c].topic /\ m.id = memo[c].id
    BY <1>2, <2>1, <2>2 DEF IdleMemo
  <2>4. /\ memo[c].op = "remember" /\ memo[c].stored /\ txn = NoHolder /\ memo[c].id \in 1..writes
        /\ held = c
    BY <1>0, <2>2 DEF CallSound, LockedSteps
  <2>5. said = "failed" => memo[c].id \notin AnyIds
    BY <1>0, <2>1, <2>4
  <2>6. CallSound(m, c, NoHolder, txn, writes, AnyIds)
    BY <1>0, <2>1, <2>2, <2>3, <2>4, <2>5 DEF CallSound, LockedSteps
  <2>7. UNCHANGED <<rows, saved, writes>> /\ held' = NoHolder /\ txn' = txn
    BY <1>7 DEF ReadsBack
  <2>8. QED
    BY <1>1, <2>3, <2>4, <2>6, <2>7
<1>8. CASE MemoAnswered(c)
  <2>1. /\ memo' = [d \in Minders |-> IF d = c THEN IdleMemo ELSE memo[d]] /\ memo[c].pc = "told"
        /\ UNCHANGED <<rows, saved, writes>> /\ held' = held /\ txn' = txn
    BY <1>0, <1>8 DEF MemoAnswered, MemoAt
  <2>2. CallSound(IdleMemo, c, held, txn, writes, AnyIds)
    BY <1>0, <2>1 DEF CallSound, LockedSteps, IdleMemo
  <2>3. QED
    BY <1>1, <2>1, <2>2
<1>9. QED
  BY <1>3, <1>4, <1>5, <1>6, <1>7, <1>8

(* The write is made.                                                        *)
LEMMA MemoryWrites ==
  ASSUME MemoryInv, NEW c \in Minders, ChangesRow(c)
  PROVE  MemoryInv'
<1>0. /\ MemoryInv /\ writes \in 0..MaxWrites /\ writes \in Nat /\ writes \in writes..MaxWrites
      /\ Table(rows, writes) /\ Table(saved, writes)
      /\ memo = [d \in Minders |-> memo[d]] /\ (txn = NoHolder => rows = saved)
      /\ CallSound(memo[c], c, held, txn, writes, AnyIds)
      /\ \A x \in 1..writes : x \in IdsOf(rows) \cup IdsOf(saved) => x \in AnyIds
      /\ AnyIds = IdsOf(rows) \cup IdsOf(saved) /\ c # NoHolder
  BY MemoryParts
<1>1. PICK m, r, s, n : m = memo'[c] /\ r = rows' /\ s = saved' /\ n = writes'
  OBVIOUS
<1>2. /\ memo[c].pc = "change" /\ held' = held /\ txn' = txn /\ held = c
      /\ s = IF txn = c THEN saved ELSE r
  BY <1>0, <1>1 DEF ChangesRow, MemoAt, CallSound, LockedSteps
<1>3. Sets(c, [pc |-> "commit", stored |-> txn # c,
               id |-> IF memo[c].op = "remember" THEN r[memo[c].topic].id ELSE memo[c].id])
  BY <1>1 DEF ChangesRow
<1>4. /\ memo' = [d \in Minders |-> IF d = c THEN m ELSE memo[d]] /\ DOMAIN m = DOMAIN IdleMemo
      /\ m.pc = "commit" /\ m.stored = (txn # c) /\ m.told = memo[c].told
      /\ m.undone = memo[c].undone /\ m.op = memo[c].op /\ m.topic = memo[c].topic
      /\ m.id = IF memo[c].op = "remember" THEN r[memo[c].topic].id ELSE memo[c].id
  <2>0. PICK stored \in BOOLEAN : stored = (txn # c)
    OBVIOUS
  <2>1. PICK id : id = IF memo[c].op = "remember" THEN r[memo[c].topic].id ELSE memo[c].id
    OBVIOUS
  <2>2. Sets(c, [pc |-> "commit", stored |-> stored, id |-> id])
    BY <1>3, <2>0, <2>1
  <2>3. /\ memo' = [d \in Minders |-> IF d = c THEN m ELSE memo[d]] /\ DOMAIN m = DOMAIN IdleMemo
        /\ \A f \in DOMAIN IdleMemo :
             m[f] = IF f \in DOMAIN [pc |-> "commit", stored |-> stored, id |-> id]
                    THEN [pc |-> "commit", stored |-> stored, id |-> id][f] ELSE memo[c][f]
    BY ONLY <1>0, <1>1, <2>2, SetsGives
  <2>4. QED
    BY <2>0, <2>1, <2>3 DEF IdleMemo
<1>5. /\ n \in writes..MaxWrites /\ Table(r, n)
      /\ \A x \in 1..writes : x \in IdsOf(r) => x \in IdsOf(rows)
      /\ memo[c].op = "remember" => r[memo[c].topic].id \in 1..n
  <2>1. CASE memo[c].op # "remember"
    <3>1. r = Deleted(c) /\ n = writes
      BY <1>1, <2>1 DEF ChangesRow
    <3>2. r = [k \in Topics |-> r[k]] /\ \A k \in Topics : r[k] = rows[k] \/ r[k] = NoRow
      BY <3>1 DEF Deleted
    <3>3. Table(r, n) /\ IdsOf(r) \subseteq IdsOf(rows)
      BY <1>0, <3>1, <3>2, TableShrinks
    <3>4. QED
      BY <1>0, <2>1, <3>1, <3>3
  <2>2. CASE memo[c].op = "remember"
    <3>1. writes < MaxWrites /\ n = writes + 1 /\ memo[c].topic \in Topics
      BY <1>0, <1>1, <2>2 DEF ChangesRow, CallSound
    <3>2. PICK k \in Topics : k = memo[c].topic
      BY <3>1
    <3>3. PICK now \in TimesFor(k, rows) : r = Upserted(c, now)
      BY <1>1, <2>2, <3>2 DEF ChangesRow
    <3>4. PICK row : row = [id |-> IF rows[k] = NoRow THEN writes + 1 ELSE rows[k].id, at |-> now]
      OBVIOUS
    <3>5. r = [rows EXCEPT ![k] = row]
      BY <3>2, <3>3, <3>4 DEF Upserted
    <3>6. Table(r, writes + 1) /\ row.id \in 1..(writes + 1)
      BY <1>0, <3>4, <3>5, TableGrows
    <3>7. row.id = writes + 1 \/ row.id = rows[k].id
      BY <3>4
    <3>8. \A j \in Topics : r[j] = IF j = k THEN row ELSE rows[j]
      BY <1>0, <3>5 DEF Table
    <3>9. \A x \in 1..writes : x \in IdsOf(r) => x \in IdsOf(rows)
      BY <1>0, <3>7, <3>8 DEF IdsOf
    <3>10. r[k].id \in 1..n /\ n \in writes..MaxWrites
      <4>1. r[k] = row
        BY ONLY <3>8, k \in Topics
      <4>2. row.id \in 1..(writes + 1)
        BY ONLY <3>6
      <4>3. QED
        BY ONLY <1>0, <3>1, <4>1, <4>2, MemoryAssumption
    <3>11. QED
      BY <3>1, <3>2, <3>6, <3>9, <3>10
  <2>3. QED
    BY <2>1, <2>2
<1>6. Table(s, n)
  <2>1. n = writes \/ n = writes + 1
    BY <1>1 DEF ChangesRow
  <2>2. QED
    BY <1>0, <1>2, <1>5, <2>1, TableStays
<1>7. \A x \in 1..writes : x \in IdsOf(r) \cup IdsOf(s) => x \in AnyIds
  BY <1>0, <1>2, <1>5
<1>8. CallSound(m, c, held, txn, n, IdsOf(r) \cup IdsOf(s))
  BY <1>0, <1>2, <1>4, <1>5 DEF CallSound, LockedSteps
<1>9. txn = NoHolder => r = s
  BY <1>0, <1>2
<1>10. PICK h, t : h = held /\ t = txn
  OBVIOUS
<1>11. /\ held' = h /\ txn' = t /\ rows' = r /\ saved' = s /\ writes' = n
       /\ (t = NoHolder => r = s) /\ CallSound(m, c, h, t, n, IdsOf(r) \cup IdsOf(s))
  BY <1>1, <1>2, <1>8, <1>9, <1>10
<1>12. QED
  BY ONLY <1>0, <1>4, <1>5, <1>6, <1>7, <1>10, <1>11, CallMoves

(* The transaction is committed, or what was begun fails.                    *)
LEMMA MemoryCommits ==
  ASSUME MemoryInv, NEW c \in Minders, Commit(c)
  PROVE  MemoryInv'
<1>0. /\ MemoryInv /\ writes \in 0..MaxWrites /\ writes \in Nat /\ writes \in writes..MaxWrites
      /\ Table(rows, writes) /\ Table(saved, writes)
      /\ memo = [d \in Minders |-> memo[d]] /\ (txn = NoHolder => rows = saved)
      /\ CallSound(memo[c], c, held, txn, writes, AnyIds)
      /\ \A x \in 1..writes : x \in IdsOf(rows) \cup IdsOf(saved) => x \in AnyIds
      /\ AnyIds = IdsOf(rows) \cup IdsOf(saved) /\ c # NoHolder
  BY MemoryParts
<1>1. /\ memo[c].pc = "commit" /\ txn = c /\ held = c
      /\ saved' = rows /\ rows' = rows /\ writes' = writes /\ txn' = NoHolder
  BY <1>0 DEF Commit, MemoAt, CallSound, LockedSteps
<1>2. PICK m, h : m = memo'[c] /\ h = held'
  OBVIOUS
<1>3. /\ memo' = [d \in Minders |-> IF d = c THEN m ELSE memo[d]] /\ h \in {c, NoHolder}
      /\ CallSound(m, c, h, NoHolder, writes, IdsOf(rows) \cup IdsOf(rows))
  <2>1. CASE memo[c].op = "remember"
    <3>1. Sets(c, [pc |-> "read", stored |-> TRUE]) /\ h = c
      BY <1>1, <1>2, <2>1 DEF Commit
    <3>2. /\ memo' = [d \in Minders |-> IF d = c THEN m ELSE memo[d]] /\ DOMAIN m = DOMAIN IdleMemo
          /\ m.pc = "read" /\ m.stored = TRUE /\ m.told = memo[c].told
          /\ m.undone = memo[c].undone /\ m.op = memo[c].op /\ m.topic = memo[c].topic /\ m.id = memo[c].id
      BY <1>0, <1>2, <3>1, SetsGives DEF IdleMemo
    <3>3. QED
      BY <1>0, <1>1, <2>1, <3>1, <3>2 DEF CallSound, LockedSteps
  <2>2. CASE memo[c].op # "remember"
    <3>1. Sets(c, [pc |-> "told", told |-> "ok", stored |-> TRUE]) /\ h = NoHolder
      BY <1>1, <1>2, <2>2 DEF Commit
    <3>2. /\ memo' = [d \in Minders |-> IF d = c THEN m ELSE memo[d]] /\ DOMAIN m = DOMAIN IdleMemo
          /\ m.pc = "told" /\ m.stored = TRUE /\ m.told = "ok"
          /\ m.undone = memo[c].undone /\ m.op = memo[c].op /\ m.topic = memo[c].topic /\ m.id = memo[c].id
      BY <1>0, <1>2, <3>1, SetsGives DEF IdleMemo
    <3>3. QED
      BY <1>0, <1>1, <2>2, <3>1, <3>2 DEF CallSound, LockedSteps
  <2>3. QED
    BY <2>1, <2>2
<1>4. PICK r, s, n, t : r = rows /\ s = rows /\ n = writes /\ t = NoHolder
  OBVIOUS
<1>5. /\ rows' = r /\ saved' = s /\ writes' = n /\ held' = h /\ txn' = t
      /\ n \in writes..MaxWrites /\ Table(r, n) /\ Table(s, n) /\ (t = NoHolder => r = s)
      /\ \A x \in 1..writes : x \in IdsOf(r) \cup IdsOf(s) => x \in AnyIds
      /\ CallSound(m, c, h, t, n, IdsOf(r) \cup IdsOf(s))
  BY <1>0, <1>1, <1>2, <1>3, <1>4
<1>6. QED
  BY ONLY <1>0, <1>1, <1>3, <1>4, <1>5, CallMoves

LEMMA MemoryFails ==
  ASSUME MemoryInv, NEW c \in Minders, LockedFails(c),
         memo[c].pc \in {"begin", "change", "commit"}
  PROVE  MemoryInv'
<1>0. /\ MemoryInv /\ writes \in 0..MaxWrites /\ writes \in Nat /\ writes \in writes..MaxWrites
      /\ Table(rows, writes) /\ Table(saved, writes)
      /\ memo = [d \in Minders |-> memo[d]] /\ (txn = NoHolder => rows = saved)
      /\ CallSound(memo[c], c, held, txn, writes, AnyIds)
      /\ \A x \in 1..writes : x \in IdsOf(rows) \cup IdsOf(saved) => x \in AnyIds
      /\ AnyIds = IdsOf(rows) \cup IdsOf(saved) /\ c # NoHolder
  BY MemoryParts
<1>1. /\ held = c /\ held' = NoHolder /\ saved' = saved /\ writes' = writes
      /\ (memo[c].stored => memo[c].undone)
  BY <1>0 DEF LockedFails, CallSound, LockedSteps
<1>2. PICK m, r, t : m = memo'[c] /\ r = rows' /\ t = txn'
  OBVIOUS
<1>3. CASE memo[c].op = "forget"
  <2>1. Sets(c, [pc |-> "undo"]) /\ r = rows /\ t = txn
    BY <1>2, <1>3 DEF LockedFails
  <2>2. /\ memo' = [d \in Minders |-> IF d = c THEN m ELSE memo[d]] /\ DOMAIN m = DOMAIN IdleMemo
        /\ m.pc = "undo" /\ m.stored = memo[c].stored /\ m.told = memo[c].told
        /\ m.undone = memo[c].undone /\ m.op = memo[c].op /\ m.topic = memo[c].topic
    BY <1>0, <1>2, <2>1, SetsGives DEF IdleMemo
  <2>3. CallSound(m, c, NoHolder, t, writes, AnyIds)
    BY <1>0, <1>1, <2>1, <2>2 DEF CallSound, LockedSteps
  <2>4. PICK s, n, h : s = saved /\ n = writes /\ h = NoHolder
    OBVIOUS
  <2>5. /\ rows' = r /\ saved' = s /\ writes' = n /\ held' = h /\ txn' = t
        /\ n \in writes..MaxWrites /\ Table(r, n) /\ Table(s, n) /\ (t = NoHolder => r = s)
        /\ \A x \in 1..writes : x \in IdsOf(r) \cup IdsOf(s) => x \in AnyIds
        /\ CallSound(m, c, h, t, n, IdsOf(r) \cup IdsOf(s))
    BY <1>0, <1>1, <1>2, <2>1, <2>3, <2>4
  <2>6. QED
    BY ONLY <1>0, <1>1, <2>1, <2>2, <2>4, <2>5, CallMoves
<1>4. CASE memo[c].op # "forget"
  <2>1. /\ Sets(c, [pc |-> "told", told |-> "failed"]) /\ t = NoHolder
        /\ r = IF txn = NoHolder THEN rows ELSE saved
    BY <1>2, <1>4 DEF LockedFails
  <2>2. /\ memo' = [d \in Minders |-> IF d = c THEN m ELSE memo[d]] /\ DOMAIN m = DOMAIN IdleMemo
        /\ m.pc = "told" /\ m.stored = memo[c].stored /\ m.told = "failed"
        /\ m.undone = memo[c].undone /\ m.op = memo[c].op /\ m.topic = memo[c].topic
    BY <1>0, <1>2, <2>1, SetsGives DEF IdleMemo
  <2>3. r = saved
    BY <1>0, <2>1
  <2>4. CallSound(m, c, NoHolder, t, writes, IdsOf(saved) \cup IdsOf(saved))
    BY <1>0, <1>1, <2>1, <2>2 DEF CallSound, LockedSteps
  <2>5. PICK s, n, h : s = saved /\ n = writes /\ h = NoHolder
    OBVIOUS
  <2>6. /\ rows' = r /\ saved' = s /\ writes' = n /\ held' = h /\ txn' = t
        /\ n \in writes..MaxWrites /\ Table(r, n) /\ Table(s, n) /\ (t = NoHolder => r = s)
        /\ \A x \in 1..writes : x \in IdsOf(r) \cup IdsOf(s) => x \in AnyIds
        /\ CallSound(m, c, h, t, n, IdsOf(r) \cup IdsOf(s))
    BY <1>0, <1>1, <1>2, <2>1, <2>3, <2>4, <2>5
  <2>7. QED
    BY ONLY <1>0, <1>1, <2>1, <2>2, <2>5, <2>6, CallMoves
<1>5. QED
  BY <1>3, <1>4

(* A rollback, of whatever transaction is open.                              *)
LEMMA MemoryRollsBack ==
  ASSUME MemoryInv, NEW c \in Minders, RollsBack(c)
  PROVE  MemoryInv'
<1>0. /\ writes \in 0..MaxWrites /\ writes \in Nat
      /\ Table(saved, writes) /\ held \in Minders \cup {NoHolder} /\ txn \in Minders \cup {NoHolder}
      /\ AnyIds = IdsOf(rows) \cup IdsOf(saved)
      /\ \A d \in Minders : CallSound(memo[d], d, held, txn, writes, AnyIds) /\ d # NoHolder
  BY MemoryParts, MemoryAssumption DEF MemoryInv
<1>1. /\ memo[c].pc = "undo" /\ rows' = saved /\ txn' = NoHolder
      /\ saved' = saved /\ writes' = writes /\ held' = held
      /\ memo' = [d \in Minders |->
                  IF d = c THEN [memo[c] EXCEPT !.pc = "told", !.told = "failed"]
                  ELSE IF d = txn THEN [memo[d] EXCEPT !.undone = TRUE] ELSE memo[d]]
  BY DEF RollsBack, MemoAt
<1>2. AnyIds' = IdsOf(saved) \cup IdsOf(saved)
  BY <1>1 DEF AnyIds, IdsOf
<1>3. PICK ids : ids = IdsOf(saved) \cup IdsOf(saved)
  OBVIOUS
<1>4. \A x \in 1..writes : x \in ids => x \in AnyIds
  BY <1>0, <1>3
<1>5. ASSUME NEW d \in Minders
      PROVE  CallSound(memo'[d], d, held, NoHolder, writes, ids)
  <2>1. CallSound(memo[d], d, held, txn, writes, AnyIds) /\ d # NoHolder
    BY <1>0
  <2>2. PICK m : m = memo'[d]
    OBVIOUS
  <2>3. CASE d = c
    <3>1. m = [memo[c] EXCEPT !.pc = "told", !.told = "failed"]
      BY <1>1, <2>2, <2>3
    <3>2. DOMAIN memo[c] = DOMAIN IdleMemo
      BY <2>1, <2>3 DEF CallSound
    <3>3. /\ DOMAIN m = DOMAIN IdleMemo /\ m.pc = "told" /\ m.told = "failed" /\ m.op = memo[c].op
          /\ m.stored = memo[c].stored /\ m.undone = memo[c].undone /\ m.topic = memo[c].topic
      BY ONLY <3>1, <3>2 DEF IdleMemo
    <3>4. QED
      BY <1>1, <2>1, <2>2, <2>3, <3>3 DEF CallSound, LockedSteps
  <2>4. CASE d # c /\ d = txn
    <3>1. m = [memo[d] EXCEPT !.undone = TRUE]
      BY <1>1, <2>2, <2>4
    <3>2. DOMAIN memo[d] = DOMAIN IdleMemo
      BY <2>1 DEF CallSound
    <3>3. /\ DOMAIN m = DOMAIN IdleMemo /\ m.pc = memo[d].pc /\ m.told = memo[d].told
          /\ m.op = memo[d].op /\ m.id = memo[d].id
          /\ m.stored = memo[d].stored /\ m.undone = TRUE /\ m.topic = memo[d].topic
      BY ONLY <3>1, <3>2 DEF IdleMemo
    <3>4. QED
      BY <2>1, <2>2, <2>4, <3>3 DEF CallSound, LockedSteps
  <2>5. CASE d # c /\ d # txn
    <3>1. m = memo[d]
      BY <1>1, <2>2, <2>5
    <3>2. CallSound(memo[d], d, held, NoHolder, writes, ids)
      BY <1>0, <1>4, <2>1, <2>5, CallStays DEF CallSound
    <3>3. QED
      BY <2>2, <3>1, <3>2
  <2>6. QED
    BY <2>3, <2>4, <2>5
<1>6. memo' = [d \in Minders |-> memo'[d]]
  BY <1>1
<1>7. QED
  BY <1>0, <1>1, <1>2, <1>3, <1>5, <1>6 DEF MemoryInv

(* The other process writes.                                                 *)
LEMMA OtherWrites ==
  ASSUME MemoryInv, CliCommits
  PROVE  MemoryInv'
<1>0. /\ writes \in 0..MaxWrites /\ writes \in Nat
      /\ Table(saved, writes) /\ Table(rows, writes) /\ AnyIds = IdsOf(rows) \cup IdsOf(saved)
      /\ \A d \in Minders : CallSound(memo[d], d, held, txn, writes, AnyIds)
  BY MemoryAssumption DEF MemoryInv, AnyIds
<1>1. held' = held /\ txn' = txn /\ memo' = memo
  BY DEF CliCommits
<1>2. CASE UNCHANGED <<rows, saved, writes>>
  BY <1>1, <1>2 DEF MemoryInv, AnyIds, IdsOf
<1>3. ASSUME NEW t, NEW n, rows' = t, saved' = t, writes' = n, n \in writes..MaxWrites, Table(t, n),
             \A x \in 1..writes : x \in IdsOf(t) => x \in IdsOf(saved)
      PROVE  MemoryInv'
  <2>1. AnyIds' = IdsOf(t)
    BY <1>3 DEF AnyIds, IdsOf
  <2>2. ASSUME NEW d \in Minders
        PROVE  CallSound(memo[d], d, held, txn, n, IdsOf(t))
    <3>1. CallSound(memo[d], d, held, txn, writes, AnyIds)
      BY <1>0
    <3>2. memo[d].pc = "read" => txn = NoHolder
      BY <3>1 DEF CallSound
    <3>3. n \in Nat /\ writes <= n /\ \A x \in 1..writes : x \in IdsOf(t) => x \in AnyIds
      BY <1>0, <1>3
    <3>4. QED
      BY ONLY <1>0, <3>1, <3>2, <3>3, CallStays
  <2>3. n \in 0..MaxWrites
    BY <1>0, <1>3
  <2>4. QED
    BY <1>1, <1>3, <2>1, <2>2, <2>3 DEF MemoryInv
<1>4. ASSUME NEW k \in Listed(saved), rows' = [saved EXCEPT ![k] = NoRow], saved' = rows', writes' = writes
      PROVE  MemoryInv'
  <2>1. PICK t : t = [saved EXCEPT ![k] = NoRow]
    OBVIOUS
  <2>2. t = [j \in Topics |-> t[j]] /\ \A j \in Topics : t[j] = saved[j] \/ t[j] = NoRow
    BY <1>0, <2>1 DEF Table
  <2>3. Table(t, writes) /\ IdsOf(t) \subseteq IdsOf(saved)
    BY <1>0, <2>2, TableShrinks
  <2>4. PICK n : n = writes
    OBVIOUS
  <2>5. /\ rows' = t /\ saved' = t /\ writes' = n /\ n \in writes..MaxWrites /\ Table(t, n)
        /\ \A x \in 1..writes : x \in IdsOf(t) => x \in IdsOf(saved)
    <3>1. writes \in writes..MaxWrites
      BY <1>0, MemoryAssumption
    <3>2. rows' = t /\ saved' = t /\ writes' = n
      BY <1>4, <2>1, <2>4
    <3>3. QED
      BY ONLY <2>3, <2>4, <3>1, <3>2
  <2>6. QED
    BY <1>3, <2>5
<1>5. ASSUME NEW k \in Topics \ Listed(saved), NEW now \in TimesFor(k, saved),
             writes < MaxWrites, writes' = writes + 1,
             rows' = [saved EXCEPT ![k] = [id |-> writes + 1, at |-> now]], saved' = rows'
      PROVE  MemoryInv'
  <2>1. PICK row : row = [id |-> writes + 1, at |-> now]
    OBVIOUS
  <2>2. saved[k] = NoRow /\ row.id = writes + 1
        /\ row = [id |-> IF saved[k] = NoRow THEN writes + 1 ELSE saved[k].id, at |-> now]
    BY <2>1 DEF Listed
  <2>3. PICK t : t = [saved EXCEPT ![k] = row]
    OBVIOUS
  <2>4. Table(t, writes + 1)
    BY <1>0, <2>2, <2>3, TableGrows
  <2>5. \A j \in Topics : t[j] = IF j = k THEN row ELSE saved[j]
    BY <1>0, <2>3 DEF Table
  <2>6. \A x \in 1..writes : x \in IdsOf(t) => x \in IdsOf(saved)
    BY <1>0, <2>2, <2>5 DEF IdsOf
  <2>7. writes + 1 \in writes..MaxWrites
    BY <1>0, <1>5, MemoryAssumption
  <2>8. QED
    BY <1>3, <1>5, <2>1, <2>3, <2>4, <2>6, <2>7
<1>6. QED
  BY <1>2, <1>4, <1>5 DEF CliCommits

LEMMA MemoryStep == MemoryInv /\ [MemoryNext]_memoryVars => MemoryInv'
<1> SUFFICES ASSUME MemoryInv, [MemoryNext]_memoryVars
             PROVE  MemoryInv'
  OBVIOUS
<1>1. ASSUME NEW c \in Minders,
             \/ \E k \in Topics : Remember(c, k) \/ Forget(c, k)
             \/ TakesWriteLock(c) \/ BeginImmediate(c) \/ ReadsBack(c) \/ MemoAnswered(c)
      PROVE  MemoryInv'
  BY <1>1, MemoryWaits
<1>2. ASSUME NEW c \in Minders, BeginFails(c) \/ ChangeFails(c) \/ CommitFails(c)
      PROVE  MemoryInv'
  BY <1>2, MemoryFails DEF BeginFails, ChangeFails, CommitFails, MemoAt
<1>3. ASSUME NEW c \in Minders, ChangesRow(c) \/ Commit(c) \/ RollsBack(c)
      PROVE  MemoryInv'
  BY <1>3, MemoryWrites, MemoryCommits, MemoryRollsBack
<1>4. CASE CliCommits
  BY <1>4, OtherWrites
<1>5. CASE CliBegins \/ UNCHANGED memoryVars
  <2>1. UNCHANGED <<rows, saved, writes, held, txn, memo>>
    BY <1>5 DEF CliBegins, memoryVars
  <2>2. QED
    BY <2>1 DEF MemoryInv, AnyIds, IdsOf
<1>6. QED
  BY <1>1, <1>2, <1>3, <1>4, <1>5 DEF MemoryNext

LEMMA MemoryStart == MemoryInit => MemoryInv
<1> SUFFICES ASSUME MemoryInit
             PROVE  MemoryInv
  OBVIOUS
<1>1. /\ rows = [k \in Topics |-> NoRow] /\ saved = rows /\ writes = 0
      /\ held = NoHolder /\ txn = NoHolder
      /\ memo = [c \in Minders |-> IdleMemo]
  BY DEF MemoryInit
<1>2. Table(rows, 0)
  BY <1>1 DEF Table
<1>3. ASSUME NEW c \in Minders
      PROVE  CallSound(IdleMemo, c, NoHolder, NoHolder, 0, AnyIds)
  BY MemoryAssumption DEF CallSound, LockedSteps, IdleMemo
<1>4. 0 \in 0..MaxWrites
  BY MemoryAssumption
<1>5. QED
  BY <1>1, <1>2, <1>3, <1>4 DEF MemoryInv

-----------------------------------------------------------------------------
(* recall.  The rows of any set can be put in order.                         *)
Descends(s, n, t) == \A i, j \in 1..n : i < j => t[s[i]].at > t[s[j]].at

LEMMA Sorted ==
  ASSUME NEW t, NEW n \in Nat, Table(t, n), NEW S \in SUBSET Listed(t)
  PROVE  IsFiniteSet(S) /\ \E s \in [1..Cardinality(S) -> S] : Descends(s, Cardinality(S), t)
<1>1. IsFiniteSet(Topics) /\ Listed(t) \subseteq Topics
  BY MemoryAssumption DEF Listed
<1>2. \A R \in SUBSET Listed(t) : IsFiniteSet(R) /\ Cardinality(R) \in Nat
  BY <1>1, FS_Subset, FS_CardinalityType
<1>3. PICK m \in Nat : m = Cardinality(S)
  BY <1>2
<1> DEFINE CanSort(R, k) == \E s \in [1..k -> R] : Descends(s, k, t)
           G == {k \in 0..m : \A R \in SUBSET Listed(t) : Cardinality(R) = k => CanSort(R, k)}
<1>4. 0 \in G
  <2>1. ASSUME NEW R \in SUBSET Listed(t)
        PROVE  CanSort(R, 0)
    <3>1. [j \in 1..0 |-> 0] \in [1..0 -> R] /\ Descends([j \in 1..0 |-> 0], 0, t)
      BY DEF Descends
    <3>2. QED
      BY <3>1
  <2>2. QED
    BY <1>3, <2>1
<1>5. ASSUME NEW k \in 1..m, k - 1 \in G
      PROVE  k \in G
  <2>1. ASSUME NEW R \in SUBSET Listed(t), Cardinality(R) = k
        PROVE  CanSort(R, k)
    <3>1. R # {}
      BY <2>1, FS_EmptySet
    <3>2. \A x \in R : t[x].at \in Nat
      BY DEF Table, Listed
    <3> DEFINE Times == {t[x].at : x \in R}
    <3>3. PICK least \in Times : \A y \in Times : least <= y
      <4>1. Times \in SUBSET Nat /\ Times # {}
        BY <3>1, <3>2
      <4>2. QED
        BY ONLY <4>1, LeastNumber
    <3>4. PICK x \in R : t[x].at = least
      BY <3>3
    <3>5. \A y \in R : y # x => t[y].at > t[x].at
      <4>1. \A y \in R : y # x => t[y].at # t[x].at
        BY DEF Table, Listed
      <4>2. \A y \in R : t[x].at <= t[y].at
        BY <3>3, <3>4
      <4>3. QED
        BY <3>2, <4>1, <4>2
    <3>6. R \ {x} \in SUBSET Listed(t) /\ Cardinality(R \ {x}) = k - 1
      BY <1>2, <2>1, FS_RemoveElement
    <3>7. PICK s \in [1..(k - 1) -> R \ {x}] : Descends(s, k - 1, t)
      BY <1>5, <3>6
    <3>8. PICK u : u = [j \in 1..k |-> IF j = k THEN x ELSE s[j]]
      OBVIOUS
    <3>9. \A j \in 1..k : j = k \/ j \in 1..(k - 1)
      BY <1>3
    <3>10. u \in [1..k -> R]
      BY <3>7, <3>8, <3>9
    <3>11. Descends(u, k, t)
      <4>1. ASSUME NEW i \in 1..k, NEW j \in 1..k, i < j
            PROVE  t[u[i]].at > t[u[j]].at
        <5>1. i \in 1..(k - 1) /\ u[i] = s[i] /\ s[i] \in R \ {x}
          BY <1>3, <3>7, <3>8, <4>1
        <5>2. CASE j = k
          BY <3>5, <3>8, <5>1, <5>2
        <5>3. CASE j # k
          <6>1. j \in 1..(k - 1) /\ u[j] = s[j]
            BY <3>8, <3>9, <5>3
          <6>2. QED
            BY <3>7, <4>1, <5>1, <6>1 DEF Descends
        <5>4. QED
          BY <5>2, <5>3
      <4>2. QED
        BY <4>1 DEF Descends
    <3>12. QED
      BY <3>10, <3>11
  <2>2. k \in 0..m
    BY <1>3
  <2>3. QED
    BY <2>1, <2>2
<1>6. \A k \in 0..m : k \in G
  <2> HIDE DEF G
  <2> QED
    BY ONLY <1>3, <1>4, <1>5, CountingUp
<1>7. m \in G
  BY <1>3, <1>6
<1>8. QED
  BY <1>2, <1>3, <1>7

(* What is listed in order is listed once.                                   *)
LEMMA NewestFound ==
  ASSUME MemoryInv, NEW S \in SUBSET Listed(rows)
  PROVE  /\ IsFiniteSet(S) /\ Cardinality(S) \in Nat
         /\ NewestRows(S) \in Seq(S) /\ Len(NewestRows(S)) = Cardinality(S)
         /\ NoneTwice(NewestRows(S))
<1>1. writes \in Nat /\ Table(rows, writes)
  BY MemoryAssumption DEF MemoryInv
<1>2. IsFiniteSet(S) /\ \E s \in [1..Cardinality(S) -> S] : Descends(s, Cardinality(S), rows)
  BY <1>1, Sorted
<1>3. PICK m \in Nat : m = Cardinality(S)
  BY <1>2, FS_CardinalityType
<1>4. PICK s : s = NewestRows(S)
  OBVIOUS
<1>5. s \in [1..m -> S] /\ \A i, j \in 1..m : i < j => rows[s[i]].at > rows[s[j]].at
  BY <1>2, <1>3, <1>4 DEF NewestRows, Descends
<1>6. s \in Seq(S) /\ Len(s) = m /\ DOMAIN s = 1..m
  BY <1>3, <1>5
<1>7. ASSUME NEW i \in 1..m, NEW j \in 1..m, s[i] = s[j]
      PROVE  i = j
  <2>1. rows[s[i]].at \in Nat
    BY <1>1, <1>5 DEF Table, Listed
  <2>2. ~(i < j) /\ ~(j < i)
    BY <1>5, <1>7, <2>1
  <2>3. QED
    BY <1>3, <2>2
<1>8. QED
  BY <1>2, <1>3, <1>4, <1>6, <1>7 DEF NoneTwice

LEMMA FirstsOf ==
  ASSUME NEW S, NEW s \in Seq(S), NEW n \in Nat
  PROVE  /\ Firsts(s, n) \in Seq(S)
         /\ Len(Firsts(s, n)) = IF n < Len(s) THEN n ELSE Len(s)
         /\ \A k \in 1..Len(Firsts(s, n)) : Firsts(s, n)[k] = s[k]
         /\ ElementsOf(Firsts(s, n)) \subseteq ElementsOf(s)
         /\ NoneTwice(s) => NoneTwice(Firsts(s, n))
<1>1. PICK m : m = IF n < Len(s) THEN n ELSE Len(s)
  OBVIOUS
<1>2. m \in Nat /\ m <= Len(s) /\ DOMAIN s = 1..Len(s) /\ Len(s) \in Nat
  BY <1>1
<1>3. PICK u : u = SubSeq(s, 1, m)
  OBVIOUS
<1>4. u \in Seq(S) /\ Len(u) = m /\ DOMAIN u = 1..m /\ \A k \in 1..m : u[k] = s[k]
  BY ONLY <1>2, <1>3, s \in Seq(S)
<1>5. 1..m \subseteq 1..Len(s)
  BY <1>2
<1>6. ElementsOf(u) \subseteq ElementsOf(s)
  BY <1>2, <1>4, <1>5 DEF ElementsOf
<1>7. NoneTwice(s) => NoneTwice(u)
  BY <1>2, <1>4, <1>5 DEF NoneTwice
<1>8. Firsts(s, n) = u
  BY <1>1, <1>3 DEF Firsts
<1>9. QED
  BY <1>1, <1>4, <1>6, <1>7, <1>8

(* The ids of the rows there are, newest first: each once, and all of them.  *)
LEMMA NewestIdsFound ==
  ASSUME MemoryInv
  PROVE  /\ IsFiniteSet(Listed(rows)) /\ Cardinality(Listed(rows)) \in Nat
         /\ NewestIds \in Seq(IdsOf(rows)) /\ Len(NewestIds) = Cardinality(Listed(rows))
         /\ NoneTwice(NewestIds)
<1>1. PICK L, s : L = Listed(rows) /\ s = NewestRows(L)
  OBVIOUS
<1>2. /\ IsFiniteSet(L) /\ Cardinality(L) \in Nat /\ s \in Seq(L) /\ Len(s) = Cardinality(L)
      /\ NoneTwice(s) /\ L \in SUBSET Listed(rows)
  BY <1>1, NewestFound
<1>3. Table(rows, writes)
  BY DEF MemoryInv
<1>4. \A k \in L : k \in Topics /\ rows[k] # NoRow /\ rows[k].id \in IdsOf(rows)
  BY <1>1, <1>3 DEF Table, Listed, IdsOf
<1>5. PICK m \in Nat : m = Len(s)
  BY <1>2
<1>6. DOMAIN s = 1..m /\ \A i \in 1..m : s[i] \in L
  BY <1>2, <1>5
<1>7. PICK ids : ids = [i \in DOMAIN s |-> rows[s[i]].id]
  OBVIOUS
<1>8. ids \in Seq(IdsOf(rows)) /\ Len(ids) = m /\ DOMAIN ids = 1..m
  BY <1>4, <1>6, <1>7
<1>9. NoneTwice(ids)
  <2>1. ASSUME NEW i \in 1..m, NEW j \in 1..m, ids[i] = ids[j]
        PROVE  i = j
    <3>1. rows[s[i]].id = rows[s[j]].id /\ s[i] \in L /\ s[j] \in L
      BY <1>6, <1>7, <2>1
    <3>2. s[i] = s[j]
      BY <1>3, <1>4, <3>1 DEF Table
    <3>3. QED
      BY <1>2, <1>6, <3>2 DEF NoneTwice
  <2>2. QED
    BY <1>8, <2>1 DEF NoneTwice
<1>10. NewestIds = ids
  BY <1>1, <1>7 DEF NewestIds
<1>11. QED
  BY <1>1, <1>2, <1>5, <1>8, <1>9, <1>10

LEMMA RecallFills ==
  ASSUME MemoryInv, NEW found \in 0..writes, NEW n \in 1..2, NEW hits \in [1..found -> 1..writes],
         ToldOnce(hits)
  PROVE  /\ ToldOnce(Recall(hits, n))
         /\ Len(Recall(hits, n)) >= n \/ Len(Recall(hits, n)) >= Cardinality(Listed(rows))
<1>1. PICK I, H, X : I = IdsOf(rows) /\ H = ElementsOf(hits) /\ X = H \cup I
  OBVIOUS
<1>2. /\ writes \in Nat /\ found \in Nat /\ hits \in Seq(Nat) /\ Len(hits) = found
      /\ NoneTwice(hits) /\ DOMAIN hits = 1..found /\ hits \in Seq(H)
  BY <1>1, MemoryAssumption DEF MemoryInv, ToldOnce, NoneTwice, ElementsOf
<1>3. PICK all : all = NewestIds
  OBVIOUS
<1>4. PICK a \in Nat : a = Cardinality(Listed(rows))
  BY NewestIdsFound
<1>5. all \in Seq(I) /\ Len(all) = a /\ NoneTwice(all)
  BY <1>1, <1>3, <1>4, NewestIdsFound
<1>6. PICK pg : pg = Firsts(all, n + found)
  OBVIOUS
<1>7. /\ pg \in Seq(I) /\ NoneTwice(pg) /\ Len(pg) \in Nat
      /\ Len(pg) = IF n + found < a THEN n + found ELSE a
  <2>1. n + found \in Nat
    BY <1>2
  <2>2. /\ pg \in Seq(I) /\ NoneTwice(pg)
        /\ Len(pg) = IF n + found < Len(all) THEN n + found ELSE Len(all)
    BY <1>5, <1>6, <2>1, FirstsOf
  <2>3. QED
    BY <1>5, <2>2
<1>8. PICK fill : fill = Those(pg, I \ H)
  OBVIOUS
<1>9. /\ fill \in Seq(I) /\ NoneTwice(fill) /\ Len(fill) \in Nat /\ DOMAIN fill = 1..Len(fill)
      /\ ElementsOf(fill) = ElementsOf(pg) \ H
  <2>1. fill \in Seq(I) /\ NoneTwice(fill)
    BY <1>7, <1>8, ThoseFound
  <2>2. ElementsOf(fill) = ElementsOf(pg) \cap (I \ H)
    BY <1>7, <1>8, ThoseMembers
  <2>3. ElementsOf(pg) \subseteq I
    BY <1>7 DEF ElementsOf
  <2>4. QED
    BY <2>1, <2>2, <2>3
<1>10. Len(fill) >= Len(pg) - found
  <2>1. /\ IsFiniteSet(ElementsOf(pg)) /\ Cardinality(ElementsOf(pg)) = Len(pg)
        /\ Cardinality(ElementsOf(fill)) = Len(fill)
    BY <1>7, <1>9, CountedOnce
  <2>2. IsFiniteSet(H) /\ Cardinality(H) = found
    BY <1>1, <1>2, CountedOnce
  <2>3. PICK P : P = ElementsOf(pg)
    OBVIOUS
  <2>4. Cardinality(P \ H) = Cardinality(P) - Cardinality(P \cap H)
    BY <2>1, <2>3, FS_Difference
  <2>5. Cardinality(P \cap H) <= Cardinality(H) /\ Cardinality(P \cap H) \in Nat
    BY <2>2, FS_Subset, FS_CardinalityType
  <2>6. QED
    BY <1>2, <1>7, <1>9, <2>1, <2>2, <2>3, <2>4, <2>5
<1>11. PICK whole : whole = hits \o fill
  OBVIOUS
<1>12. /\ whole \in Seq(X) /\ Len(whole) = found + Len(fill) /\ Len(whole) \in Nat
       /\ DOMAIN whole = 1..(found + Len(fill))
       /\ \A k \in 1..(found + Len(fill)) :
            whole[k] = IF k <= found THEN hits[k] ELSE fill[k - found]
  <2>1. hits \in Seq(X) /\ fill \in Seq(X)
    BY <1>1, <1>2, <1>9
  <2>2. /\ whole \in Seq(X) /\ Len(whole) = Len(hits) + Len(fill)
        /\ \A k \in 1..(Len(hits) + Len(fill)) :
             whole[k] = IF k <= Len(hits) THEN hits[k] ELSE fill[k - Len(hits)]
    BY ONLY <1>11, <2>1
  <2>3. Len(whole) \in Nat /\ DOMAIN whole = 1..Len(whole)
    BY ONLY <2>2
  <2>4. QED
    BY ONLY <1>2, <2>2, <2>3
<1>13. NoneTwice(whole)
  <2>1. ASSUME NEW i \in 1..(found + Len(fill)), NEW j \in 1..(found + Len(fill)), whole[i] = whole[j]
        PROVE  i = j
    <3>1. ASSUME NEW k \in 1..(found + Len(fill))
          PROVE  /\ k <= found => k \in DOMAIN hits /\ whole[k] = hits[k] /\ whole[k] \in H
                 /\ k > found => k - found \in DOMAIN fill /\ whole[k] = fill[k - found] /\ whole[k] \notin H
      <4>1. CASE k <= found
        BY <1>1, <1>2, <1>12, <4>1 DEF ElementsOf
      <4>2. CASE k > found
        <5>1. k - found \in 1..Len(fill) /\ whole[k] = fill[k - found]
          BY <1>2, <1>9, <1>12, <4>2
        <5>2. QED
          BY <1>2, <1>9, <4>2, <5>1 DEF ElementsOf
      <4>3. QED
        BY <1>2, <4>1, <4>2
    <3>2. CASE i <= found /\ j <= found
      BY <1>2, <2>1, <3>1, <3>2 DEF NoneTwice
    <3>3. CASE i > found /\ j > found
      <4>1. i - found = j - found
        BY <1>9, <2>1, <3>1, <3>3 DEF NoneTwice
      <4>2. QED
        BY <1>2, <1>9, <4>1
    <3>4. CASE (i <= found /\ j > found) \/ (i > found /\ j <= found)
      BY <2>1, <3>1, <3>4
    <3>5. QED
      BY <1>2, <1>9, <3>2, <3>3, <3>4
  <2>2. QED
    BY <1>12, <2>1 DEF NoneTwice
<1>14. PICK answer : answer = Firsts(whole, n)
  OBVIOUS
<1>15. NoneTwice(answer) /\ Len(answer) = IF n < Len(whole) THEN n ELSE Len(whole)
  <2>1. n \in Nat /\ whole \in Seq(X)
    BY <1>12
  <2>2. QED
    BY ONLY <1>13, <1>14, <2>1, FirstsOf
<1>16. Len(answer) >= n \/ Len(answer) >= a
  <2>1. PICK f, p, w \in Nat : f = Len(fill) /\ p = Len(pg) /\ w = Len(whole)
    BY <1>7, <1>9, <1>12
  <2>2. w = found + f /\ f >= p - found /\ p = IF n + found < a THEN n + found ELSE a
    BY <1>7, <1>10, <1>12, <2>1
  <2>3. PICK x : x = Len(answer)
    OBVIOUS
  <2>4. x = IF n < w THEN n ELSE w
    BY <1>15, <2>1, <2>3
  <2>5. x >= n \/ x >= a
    BY ONLY <2>2, <2>4, n \in 1..2, a \in Nat, f \in Nat, p \in Nat, w \in Nat, <1>2
  <2>6. QED
    BY <2>3, <2>5
<1>17. Recall(hits, n) = answer
  <2>1. Those(pg, IdsOf(rows) \ {hits[i] : i \in DOMAIN hits}) = fill
    BY <1>1, <1>8 DEF ElementsOf
  <2>2. Firsts(NewestIds, n + Len(hits)) = pg
    BY <1>2, <1>3, <1>6
  <2>3. QED
    BY <1>11, <1>14, <2>1, <2>2 DEF Recall
<1>18. QED
  BY <1>4, <1>15, <1>16, <1>17 DEF ToldOnce, NoneTwice

LEMMA MemoryTold == MemoryInv => MemoryHolds
<1> SUFFICES ASSUME MemoryInv
             PROVE  MemoryHolds
  OBVIOUS
<1>1. \A c \in Minders : CallSound(memo[c], c, held, txn, writes, AnyIds)
  BY DEF MemoryInv
<1>2. ASSUME NEW c \in Minders, MemoAt(c, "told")
      PROVE  /\ memo[c].told = "ok" /\ memo[c].op = "remember" => memo[c].stored
             /\ memo[c].told = "ok" /\ memo[c].id # 0 => memo[c].stored
             /\ memo[c].told = "failed" /\ memo[c].stored /\ ~memo[c].undone =>
                  memo[c].op = "remember" /\ memo[c].id \notin IdsOf(saved)
  BY <1>1, <1>2 DEF MemoAt, CallSound, AnyIds
<1>3. txn # NoHolder => txn = held \/ memo[txn].pc = "undo"
  BY <1>1 DEF MemoryInv, CallSound, LockedSteps
<1>4. txn = NoHolder => rows = saved
  BY DEF MemoryInv
<1>5. QED
  BY <1>2, <1>3, <1>4, RecallFills DEF MemoryHolds

(* What the memory answers is so, for any number of callers: who was told    *)
(* that it is stored finds it committed, an open transaction is the lock     *)
(* holder's, and a recall fills its limit and tells no row twice, whatever   *)
(* changes between its statements (mcp_server/memory).                       *)
THEOREM MemoryIsTrue == MemoryInit /\ [][MemoryNext]_memoryVars => []MemoryHolds
BY MemoryStart, MemoryStep, MemoryTold, PTL

LEMMA MemoryTypes == MemoryInit /\ [][MemoryNext]_memoryVars => []MemoryTypeOK
<1>1. ASSUME MemoryInv
      PROVE  MemoryTypeOK
  <2>1. \A c \in Minders : memo[c].told \in {"none", "ok", "failed"}
    BY <1>1 DEF MemoryInv, CallSound
  <2>2. [id : 1..writes, at : 1..MaxWrites] \subseteq [id : 1..MaxWrites, at : 1..MaxWrites]
    <3>1. 1..writes \subseteq 1..MaxWrites
      <4>1. writes \in 0..MaxWrites
        BY <1>1 DEF MemoryInv
      <4>2. QED
        BY ONLY <4>1, MemoryAssumption
    <3>2. QED
      BY <3>1
  <2>3. saved = [k \in Topics |-> saved[k]]
        /\ \A k \in Topics : saved[k] \in {NoRow} \cup [id : 1..MaxWrites, at : 1..MaxWrites]
    BY <1>1, <2>2 DEF MemoryInv, Table
  <2>4. saved \in [Topics -> {NoRow} \cup [id : 1..MaxWrites, at : 1..MaxWrites]]
    BY ONLY <2>3
  <2>5. QED
    BY <1>1, <2>1, <2>4 DEF MemoryInv, MemoryTypeOK
<1>2. QED
  BY MemoryStart, MemoryStep, <1>1, PTL

=============================================================================
