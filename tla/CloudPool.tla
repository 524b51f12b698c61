----------------------------- MODULE CloudPool -----------------------------
(***************************************************************************)
(* CloudSessionPool (src/src/browser_providers/session_pool.py): sessions  *)
(* that run, and cost money, at a cloud provider.  The table of the pool   *)
(* changes before and after calls to the provider that are awaited, under  *)
(* no lock.                                                                *)
(*                                                                         *)
(* An action is a stretch of code between two awaits.  Which session of    *)
(* the table is the first one, and by which provider it was launched, is   *)
(* left open.                                                              *)
(***************************************************************************)
EXTENDS Naturals, FiniteSets, FiniteSetsExt

CONSTANTS
    PoolUsers,     (* coroutines that call the pool                           *)
    CloudSessions, (* session ids a provider may hand out                     *)
    MaxWarm        (* max_warm                                                *)

ASSUME CloudAssumption == MaxWarm \in Nat /\ IsFiniteSet(CloudSessions)

VARIABLES
    pool,          (* _sessions                                               *)
    warm,          (* sessions with warm = True                               *)
    expired,       (* sessions of the table not used for ttl_seconds          *)
    running,       (* sessions that exist at the provider                     *)
    evicted,       (* history: sessions _evict_expired has dropped            *)
    doing,         (* per user: the call it waits for                         *)
    toClose,       (* per user: sessions it is about to close                 *)
    toLaunch       (* per user: sessions it is about to launch                *)

tableVars == <<pool, warm, expired, evicted>>
workVars == <<doing, toClose, toLaunch>>
cloudVars == <<tableVars, running, workVars>>

CloudTypeOK ==
    /\ pool \subseteq CloudSessions
    /\ warm \subseteq CloudSessions
    /\ expired \subseteq CloudSessions
    /\ running \subseteq CloudSessions
    /\ evicted \subseteq CloudSessions
    /\ doing \in [PoolUsers -> {"idle", "get", "release", "grow", "shrink"}]
    /\ toClose \in [PoolUsers -> SUBSET CloudSessions]
    /\ toLaunch \in [PoolUsers -> Nat]

CloudInit ==
    /\ pool = {} /\ warm = {} /\ expired = {} /\ running = {} /\ evicted = {}
    /\ doing = [u \in PoolUsers |-> "idle"]
    /\ toClose = [u \in PoolUsers |-> {}]
    /\ toLaunch = [u \in PoolUsers |-> 0]

(* What _evict_expired leaves of the table; nobody closes the others.         *)
Fresh == pool \ expired

Evicts ==
    /\ pool' = Fresh
    /\ evicted' = evicted \cup expired
    /\ expired' = {}

Waits(u, what, closes, launches) ==
    /\ doing' = [doing EXCEPT ![u] = what]
    /\ toClose' = [toClose EXCEPT ![u] = closes]
    /\ toLaunch' = [toLaunch EXCEPT ![u] = launches]

(* get_session: any session of the table if no provider is asked for, else a  *)
(* warm one.  It stays in the table, and warm.                                *)
Get(u) ==
    /\ doing[u] = "idle"
    /\ Evicts
    /\ \E usable \in {Fresh, Fresh \cap warm} :
         IF usable # {}
         THEN UNCHANGED workVars
         ELSE Waits(u, "get", {}, 1)
    /\ UNCHANGED <<warm, running>>

NewIds ==
    CloudSessions \ (pool \cup running \cup UNION {toClose[u] : u \in PoolUsers})

Launched(u) ==
    /\ toLaunch[u] > 0
    /\ NewIds # {}                                     (* bound              *)
    /\ LET s == CHOOSE s \in NewIds : TRUE
       IN /\ running' = running \cup {s}
          /\ pool' = pool \cup {s}
          /\ warm' = IF doing[u] = "grow" THEN warm \cup {s} ELSE warm
    /\ toLaunch' = [toLaunch EXCEPT ![u] = @ - 1]
    /\ doing' = [doing EXCEPT ![u] = IF toLaunch[u] = 1 THEN "idle" ELSE @]
    /\ UNCHANGED <<expired, evicted, toClose>>

(* launch_sandbox or close_session raises: the call ends there.               *)
Fails(u) ==
    /\ doing[u] # "idle"
    /\ Waits(u, "idle", {}, 0)
    /\ UNCHANGED <<tableVars, running>>

(* release_session: the session may itself be one that has just expired.      *)
Release(u, s) ==
    /\ doing[u] = "idle"
    /\ s \in pool
    /\ Evicts
    /\ IF Cardinality(Fresh) >= MaxWarm
       THEN warm' = warm \ {s} /\ Waits(u, "release", {s}, 0)
       ELSE warm' = warm \cup {s} /\ UNCHANGED workVars
    /\ UNCHANGED running

(* scale_pool: the difference is computed once.                               *)
Scale(u, target) ==
    /\ doing[u] = "idle"
    /\ Evicts
    /\ LET current == Cardinality(Fresh)
       IN IF target > current THEN Waits(u, "grow", {}, target - current)
          ELSE IF target = current THEN UNCHANGED workVars
          ELSE \E extra \in kSubset(current - target, Fresh) : Waits(u, "shrink", extra, 0)
    /\ UNCHANGED <<warm, running>>

ClosedDropsFirst(u, s) ==                                 (* mutant of Closed *)
    /\ s \in toClose[u]
    /\ pool' = pool \ toClose[u]
    /\ running' = running \ {s}
    /\ IF doing[u] = "shrink" /\ toClose[u] # {s} /\ s \in pool
       THEN toClose' = [toClose EXCEPT ![u] = @ \ {s}] /\ UNCHANGED <<doing, toLaunch>>
       ELSE Waits(u, "idle", {}, 0)
    /\ warm' = warm \ {s}
    /\ expired' = expired \ {s}
    /\ evicted' = evicted \ {s}

(* The provider has closed s: out of the table with it, and on to the next.   *)
(* If another call has taken it out, the KeyError ends this one.              *)
Closed(u, s) ==
    /\ s \in toClose[u]
    /\ pool' = pool \ {s}
    /\ running' = running \ {s}
    /\ IF doing[u] = "shrink" /\ toClose[u] # {s} /\ s \in pool
       THEN toClose' = [toClose EXCEPT ![u] = @ \ {s}] /\ UNCHANGED <<doing, toLaunch>>
       ELSE Waits(u, "idle", {}, 0)
    /\ warm' = warm \ {s}
    /\ expired' = expired \ {s}
    /\ evicted' = evicted \ {s}

TtlPasses(s) ==
    /\ s \in pool \ expired
    /\ expired' = expired \cup {s}
    /\ UNCHANGED <<pool, warm, evicted, running, workVars>>

CloudNext ==
    \/ \E u \in PoolUsers :
         \/ Get(u) \/ Launched(u) \/ Fails(u)
         \/ \E s \in CloudSessions : Release(u, s) \/ Closed(u, s)
         \/ \E target \in 0..MaxWarm : Scale(u, target)
    \/ \E s \in CloudSessions : TtlPasses(s)

CloudSpec == CloudInit /\ [][CloudNext]_cloudVars

-----------------------------------------------------------------------------
(* Whatever runs at a provider is in the table, so that somebody can still   *)
(* close it: the only sessions that get lost are those that _evict_expired   *)
(* drops (which does not close them).  This holds across failing calls, and  *)
(* when two calls close one session or work from the same count.             *)
LostOnlyByExpiry == running \subseteq pool \cup evicted

=============================================================================
