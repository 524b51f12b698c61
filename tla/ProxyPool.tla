----------------------------- MODULE ProxyPool -----------------------------
(***************************************************************************)
(* The proxy pool (src/src/proxy_manager.py) and the wrapper that adds the *)
(* health-check strategy (src/src/proxy_rotation_manager.py).  Which proxy *)
(* a strategy may return depends on reports of its users, on a pause after *)
(* failures, and on health checks that end ten seconds after they began.   *)
(*                                                                         *)
(* One action per call; a check is awaited and has two.  URLs, latencies   *)
(* and the geo tag are left out, and so is load(), which nothing calls.    *)
(***************************************************************************)
EXTENDS Naturals, Sequences, Lists

CONSTANTS
    Proxies,          (* proxy ids                                            *)
    NoProxy,
    PinnedTo,         (* session ids that use the sticky strategy             *)
    Tagged,           (* proxies with the tag of by-tag requests              *)
    FailureThreshold, (* FAILURE_THRESHOLD                                    *)
    MaxSize           (* max_size                                             *)

ASSUME ProxyAssumption ==
    /\ NoProxy \notin Proxies
    /\ Tagged \subseteq Proxies
    /\ FailureThreshold \in Nat \ {0}
    /\ MaxSize \in Nat

VARIABLES
    entries,          (* _proxies, in the order they were added               *)
    healthy, enabled, (* the entries' flags                                   *)
    cooling,          (* those with cooling_until in the future               *)
    failures,         (* consecutive_failures, up to the threshold            *)
    checks,           (* entries with a health check on its way               *)
    stickyMap,        (* _sticky_map                                          *)
    nextIndex,        (* _round_robin_index                                   *)
    sidelined,        (* history: at the threshold, and no success since      *)
    turn              (* history: proxies given out, one after the other, by  *)
                      (* round-robin, since anything else has happened        *)

flagVars == <<healthy, enabled, cooling, failures, sidelined>>
pickVars == <<stickyMap, nextIndex, turn>>
proxyVars == <<entries, flagVars, checks, pickVars>>

ProxyTypeOK ==
    /\ entries \in Seq(Proxies)
    /\ healthy \subseteq Proxies /\ enabled \subseteq Proxies
    /\ cooling \subseteq Proxies /\ checks \subseteq Proxies
    /\ sidelined \subseteq Proxies
    /\ failures \in [Proxies -> 0..FailureThreshold]
    /\ stickyMap \in [PinnedTo -> Proxies \cup {NoProxy}]
    /\ nextIndex \in Nat
    /\ turn \in Seq(Proxies)

ProxyInit ==
    /\ entries = <<>>
    /\ healthy = {} /\ enabled = {} /\ cooling = {} /\ checks = {} /\ sidelined = {}
    /\ failures = [p \in Proxies |-> 0]
    /\ stickyMap = [s \in PinnedTo |-> NoProxy]
    /\ nextIndex = 0
    /\ turn = <<>>

Pooled == {entries[i] : i \in 1..Len(entries)}

(* An id is new; the check of a removed entry writes to that entry.           *)
AddProxy(p) ==
    /\ Len(entries) < MaxSize
    /\ p \notin Pooled \cup checks
    /\ entries' = Append(entries, p)
    /\ healthy' = healthy \cup {p}
    /\ enabled' = enabled \cup {p}
    /\ cooling' = cooling \ {p}
    /\ failures' = [failures EXCEPT ![p] = 0]
    /\ sidelined' = sidelined \ {p}
    /\ turn' = <<>>
    /\ UNCHANGED <<checks, stickyMap, nextIndex>>

(* The flags of an entry that is gone mean nothing: they are reset.           *)
Forgotten(gone) ==
    /\ healthy' = healthy \ gone /\ enabled' = enabled \ gone
    /\ cooling' = cooling \ gone /\ sidelined' = sidelined \ gone
    /\ failures' = [p \in Proxies |-> IF p \in gone THEN 0 ELSE failures[p]]

RemoveProxy(p) ==
    /\ p \in Pooled
    /\ entries' = Those(entries, Proxies \ {p})
    /\ Forgotten({p})
    /\ stickyMap' = [s \in PinnedTo |-> IF stickyMap[s] = p THEN NoProxy ELSE stickyMap[s]]
    /\ turn' = <<>>
    /\ UNCHANGED <<checks, nextIndex>>

ClearPool ==
    /\ entries' = <<>>
    /\ Forgotten(Proxies)
    /\ stickyMap' = [s \in PinnedTo |-> NoProxy]
    /\ nextIndex' = 0
    /\ turn' = <<>>
    /\ UNCHANGED checks

(* health_check_async, on its own or for one entry after the other.           *)
CheckStarts(p) ==
    /\ p \in Pooled \ checks
    /\ checks' = checks \cup {p}
    /\ UNCHANGED <<entries, flagVars, pickVars>>

CheckEnds(p, ok) ==
    /\ p \in checks
    /\ checks' = checks \ {p}
    /\ healthy' = IF ok /\ p \in Pooled THEN healthy \cup {p} ELSE healthy \ {p}
    /\ turn' = <<>>
    /\ UNCHANGED <<entries, enabled, cooling, failures, sidelined, stickyMap, nextIndex>>

ReportSuccess(p) ==
    /\ p \in Pooled
    /\ healthy' = healthy \cup {p}
    /\ enabled' = enabled \cup {p}
    /\ cooling' = cooling \ {p}
    /\ failures' = [failures EXCEPT ![p] = 0]
    /\ sidelined' = sidelined \ {p}
    /\ turn' = <<>>
    /\ UNCHANGED <<entries, checks, stickyMap, nextIndex>>

ReportFailure(p) ==
    /\ p \in Pooled
    /\ LET count == failures[p] + 1
       IN IF count < FailureThreshold
          THEN /\ failures' = [failures EXCEPT ![p] = count]
               /\ UNCHANGED <<healthy, enabled, cooling, sidelined>>
          ELSE /\ failures' = [failures EXCEPT ![p] = FailureThreshold]
               /\ cooling' = cooling \cup {p}
               /\ healthy' = healthy \ {p}
               /\ enabled' = enabled \ {p}
               /\ sidelined' = sidelined \cup {p}
    /\ turn' = <<>>
    /\ UNCHANGED <<entries, checks, stickyMap, nextIndex>>

CooldownEnds(p) ==
    /\ p \in cooling
    /\ cooling' = cooling \ {p}
    /\ turn' = <<>>
    /\ UNCHANGED <<entries, healthy, enabled, failures, sidelined, checks, stickyMap, nextIndex>>

UsableHealthy(p) == p \in healthy                       (* mutant of Usable   *)

(* What the sticky and the health-check strategy ask of a proxy.              *)
Usable(p) == p \in healthy /\ p \in enabled

(* _get_healthy_enabled                                                       *)
Available(group) == Those(entries, {p \in group : Usable(p) /\ p \notin cooling})

NextSame(index) == index                               (* mutant of NextIndex *)

NextIndex(index) == index + 1

(* The next of some proxies in turn; nothing if there is none.                *)
InTurn(group) ==
    /\ Available(group) # <<>>
    /\ LET index == nextIndex % Len(Available(group))
       IN /\ nextIndex' = NextIndex(index)
          /\ turn' = IF group = Proxies THEN Append(turn, Available(group)[index + 1])
                                        ELSE <<>>

(* round-robin, and every strategy that falls back to it                      *)
PickRoundRobin ==
    /\ Len(turn) < 2 * MaxSize                         (* bound               *)
    /\ InTurn(Proxies)
    /\ UNCHANGED <<entries, flagVars, checks, stickyMap>>

PickByTag ==
    /\ InTurn(Tagged)
    /\ UNCHANGED <<entries, flagVars, checks, stickyMap>>

(* A session whose proxy can no longer be used is given the next one.         *)
PickSticky(s) ==
    /\ Available(Proxies) # <<>>
    /\ stickyMap[s] \notin Pooled \/ ~Usable(stickyMap[s])
    /\ LET index == nextIndex % Len(Available(Proxies))
       IN /\ nextIndex' = NextIndex(index)
          /\ stickyMap' = [stickyMap EXCEPT ![s] = Available(Proxies)[index + 1]]
    /\ turn' = <<>>
    /\ UNCHANGED <<entries, flagVars, checks>>

(* What some strategy may return.  The widest choice is that of the wrapper,  *)
(* which takes the lowest latency and does not look at cooling_until; random  *)
(* and sticky, for a session that has its proxy, change nothing either.       *)
Offered == {p \in Pooled : Usable(p)}

ProxyNext ==
    \/ \E p \in Proxies :
         \/ AddProxy(p) \/ RemoveProxy(p)
         \/ CheckStarts(p) \/ \E ok \in BOOLEAN : CheckEnds(p, ok)
         \/ ReportSuccess(p) \/ ReportFailure(p) \/ CooldownEnds(p)
    \/ ClearPool
    \/ PickRoundRobin \/ PickByTag
    \/ \E s \in PinnedTo : PickSticky(s)

ProxySpec == ProxyInit /\ [][ProxyNext]_proxyVars

-----------------------------------------------------------------------------
(* No strategy returns a proxy that has failed FAILURE_THRESHOLD times in a  *)
(* row, until a success is reported for it or it leaves the pool - although  *)
(* a health check, begun before or since, may find it healthy again, and its *)
(* pause may be over (get_proxy, health_check_async, report_failure).        *)
SidelinedStaysOut == Offered \cap sidelined = {}

(* While nothing else happens, round-robin returns no proxy a second time    *)
(* before it has returned every proxy that is available, wherever other      *)
(* strategies, which use the same index, have left it (get_proxy).           *)
RoundRobinEven ==
    \A i, j \in DOMAIN turn :
        (i < j /\ turn[i] = turn[j]) => j - i >= Len(Available(Proxies))

=============================================================================
