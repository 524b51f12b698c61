---------------------------- MODULE SavedSessions ----------------------------
(***************************************************************************)
(* Logins that are saved and brought back: the captured sessions           *)
(* (session_manager.py, /api/v1/session), the bundles of session_save and  *)
(* session_restore, auth profiles, clones and imported cookies.  All tabs  *)
(* of the browser share its cookies and storage, which the user changes    *)
(* meanwhile; each request reads or writes them in steps.                  *)
(***************************************************************************)
EXTENDS Naturals

CONSTANTS
    Keepers,        (* requests                                              *)
    Saves,          (* ids a captured session is kept under                  *)
    MaxLogins       (* bound: times the user signs in                        *)

ASSUME SavedAssumption == MaxLogins \in Nat

VARIABLES
    account,           (* the login in the browser: its cookies and its storage *)
    logins,         (* logins so far                                         *)
    archive,        (* the files of the captured sessions                    *)
    bundle,         (* what session_save answered last; the caller keeps it  *)
    keeping,        (* what each request does                                *)
    captured,       (* what was captured last under each id, and not removed *)
    mixed           (* a request missed a part, met another's change halfway, *)
                    (* or set the cookies of another login alone             *)

savedVars == <<account, logins, archive, bundle, keeping, captured, mixed>>

Signed0 == 0       (* signed out: no cookie, nothing stored                  *)
NoState == [cookies |-> Signed0, there |-> FALSE, stale |-> FALSE]
Resting == [op |-> "none", pc |-> "idle", id |-> "none", cookies |-> Signed0, storage |-> Signed0]

SavedInit ==
    /\ account = [cookies |-> Signed0, storage |-> Signed0] /\ logins = 0
    /\ archive = [n \in Saves |-> NoState] /\ bundle = account
    /\ keeping = [k \in Keepers |-> Resting]
    /\ captured = archive /\ mixed = FALSE

KeeperAt(k, op, pc) == keeping[k].op = op /\ keeping[k].pc = pc
Keeps(k, changes)   ==
    keeping' = [keeping EXCEPT ![k] =
                  [f \in DOMAIN Resting |-> IF f \in DOMAIN changes THEN changes[f] ELSE @[f]]]
KeeperEnds(k)       == keeping' = [keeping EXCEPT ![k] = Resting]

Saving(op) == op \in {"save", "profile"}
Halfway(k) ==
    \/ keeping[k].pc = "storage"
    \/ KeeperAt(k, "clone", "create") \/ KeeperAt(k, "clone", "cookies")
MeetsOther(k) == mixed' = (mixed \/ \E j \in Keepers \ {k} : Halfway(j))

(* The user signs in or out between two steps of a request.                  *)
SignsAs(n) ==
    /\ account' = [cookies |-> n, storage |-> n]
    /\ mixed' = (mixed \/ \E k \in Keepers : Halfway(k))
    /\ UNCHANGED <<archive, bundle, keeping, captured>>
SignsIn  == logins < MaxLogins /\ logins' = logins + 1 /\ SignsAs(logins + 1)
SignsOut == account # [cookies |-> Signed0, storage |-> Signed0] /\ SignsAs(Signed0) /\ UNCHANGED logins

-----------------------------------------------------------------------------
(* POST /api/v1/session/capture: a client of its own is connected, or not;   *)
(* cookies that cannot be read are taken for none.  The storage is evaluated *)
(* without returnByValue: the answer names an object and has no value, so    *)
(* that none is ever captured.                                               *)
AskCapture(k, n) ==
    /\ keeping[k].pc = "idle"
    /\ Keeps(k, [op |-> "capture", pc |-> "cookies", id |-> n]) \/ Keeps(k, [op |-> "capture", pc |-> "write", id |-> n])
    /\ UNCHANGED <<account, logins, archive, bundle, captured, mixed>>

CaptureReads(k) ==
    /\ KeeperAt(k, "capture", "cookies")
    /\ Keeps(k, [pc |-> "write", cookies |-> account.cookies]) \/ Keeps(k, [pc |-> "write"])
    /\ UNCHANGED <<account, logins, archive, bundle, captured, mixed>>

Stored(k) == [cookies |-> keeping[k].cookies, there |-> TRUE, stale |-> FALSE]
SavesCapture(k) ==
    /\ KeeperAt(k, "capture", "write")
    /\ archive'  = [archive EXCEPT ![keeping[k].id] = Stored(k)]
    /\ captured' = [captured EXCEPT ![keeping[k].id] = Stored(k)]
    /\ KeeperEnds(k) /\ UNCHANGED <<account, logins, bundle, mixed>>

(* POST /api/v1/session/restore: the file is loaded, then the client is      *)
(* connected, or not; cookies that cannot be set are left; then the state    *)
(* that was loaded is saved again for its last_active.                       *)
AskRestore(k, n) ==
    /\ keeping[k].pc = "idle" /\ archive[n].there
    /\ Keeps(k, [op |-> "restore", pc |-> "connect", id |-> n, cookies |-> archive[n].cookies])
    /\ UNCHANGED <<account, logins, archive, bundle, captured, mixed>>

RestoreConnects(k) ==
    /\ KeeperAt(k, "restore", "connect")
    /\ Keeps(k, [pc |-> "cookies"]) \/ Keeps(k, [pc |-> "touch"])
    /\ UNCHANGED <<account, logins, archive, bundle, captured, mixed>>

(* The cookies are set, or are not; none are set where there are none.       *)
SetsCookies(k) ==
    \/ /\ keeping[k].cookies # Signed0
       /\ account' = [account EXCEPT !.cookies = keeping[k].cookies] /\ MeetsOther(k)
    \/ UNCHANGED <<account, mixed>>

RestoresCookies(k) ==
    /\ KeeperAt(k, "restore", "cookies") /\ Keeps(k, [pc |-> "touch"])
    /\ \/ UNCHANGED <<account, mixed>>
       \/ /\ keeping[k].cookies \notin {account.cookies, Signed0}
          /\ account' = [account EXCEPT !.cookies = keeping[k].cookies] /\ mixed' = TRUE
    /\ UNCHANGED <<logins, archive, bundle, captured>>

(* A mutation: what is saved again is what the tab has.                      *)
SavesAgainFromTab(k) ==
    /\ KeeperAt(k, "restore", "touch")
    /\ archive' = [archive EXCEPT ![keeping[k].id] = [Stored(k) EXCEPT !.cookies = account.cookies]]
    /\ mixed' = (mixed \/ Stored(k) # [archive[keeping[k].id] EXCEPT !.stale = FALSE])
    /\ KeeperEnds(k) /\ UNCHANGED <<account, logins, bundle, captured>>

SavesAgain(k) ==
    /\ KeeperAt(k, "restore", "touch")
    /\ archive' = [archive EXCEPT ![keeping[k].id] = Stored(k)]
    /\ mixed' = (mixed \/ Stored(k) # [archive[keeping[k].id] EXCEPT !.stale = FALSE])
    /\ KeeperEnds(k) /\ UNCHANGED <<account, logins, bundle, captured>>

DeleteSaved(n) ==
    /\ archive[n].there
    /\ archive' = [archive EXCEPT ![n] = NoState] /\ captured' = [captured EXCEPT ![n] = NoState]
    /\ UNCHANGED <<account, logins, bundle, keeping, mixed>>

SavedGrowsOld(n) ==
    /\ archive[n].there /\ ~archive[n].stale /\ archive' = [archive EXCEPT ![n].stale = TRUE]
    /\ UNCHANGED <<account, logins, bundle, keeping, captured, mixed>>

(* cleanup and remove_expired.                                               *)
Renewed(files) == [n \in Saves |-> IF archive[n].stale THEN NoState ELSE files[n]]
RemoveExpired ==
    /\ \E n \in Saves : archive[n].stale
    /\ archive' = Renewed(archive) /\ captured' = Renewed(captured)
    /\ UNCHANGED <<account, logins, bundle, keeping, mixed>>

-----------------------------------------------------------------------------
(* session_save, for its caller or for an auth profile: it fails where the   *)
(* capture goes on with nothing.                                             *)
AskSave(k) ==
    /\ keeping[k].pc = "idle"
    /\ \E op \in {"save", "profile"} : Keeps(k, [op |-> op, pc |-> "cookies"])
    /\ UNCHANGED <<account, logins, archive, bundle, captured, mixed>>

SaveReads(k) ==
    /\ Saving(keeping[k].op)
    /\ \/ /\ keeping[k].pc = "cookies"
          /\ Keeps(k, [pc |-> "storage", cookies |-> account.cookies]) /\ UNCHANGED mixed
       \/ /\ keeping[k].pc = "storage" /\ Keeps(k, [pc |-> "write", storage |-> account.storage])
          /\ mixed' = (mixed \/ \E j \in Keepers : KeeperAt(j, "bundle", "storage"))
       \/ keeping[k].pc \in {"cookies", "storage"} /\ KeeperEnds(k) /\ UNCHANGED mixed
    /\ UNCHANGED <<account, logins, archive, bundle, captured>>

SavesBundle(k) ==
    /\ KeeperAt(k, "save", "write")
    /\ bundle' = [cookies |-> keeping[k].cookies, storage |-> keeping[k].storage]
    /\ KeeperEnds(k) /\ UNCHANGED <<account, logins, archive, captured, mixed>>

(* The file of a profile holds the session one level below the keys that its *)
(* restore reads: what is restored from it is nothing.                       *)
SavesProfile(k) ==
    /\ KeeperAt(k, "profile", "write") /\ KeeperEnds(k)
    /\ UNCHANGED <<account, logins, archive, bundle, captured, mixed>>
AskProfileRestore(k) ==
    /\ keeping[k].pc = "idle" /\ Keeps(k, [op |-> "bundle", pc |-> "cookies"])
    /\ UNCHANGED <<account, logins, archive, bundle, captured, mixed>>

AskBundleRestore(k) ==
    /\ keeping[k].pc = "idle"
    /\ Keeps(k, [op |-> "bundle", pc |-> "cookies", cookies |-> bundle.cookies, storage |-> bundle.storage])
    /\ UNCHANGED <<account, logins, archive, bundle, captured, mixed>>

(* session_restore: the cookies, of which one that fails is passed over, then *)
(* the storage, where a failure ends it.                                     *)
BundleSetsCookies(k) ==
    /\ KeeperAt(k, "bundle", "cookies") /\ Keeps(k, [pc |-> "storage"])
    /\ \/ keeping[k].cookies = Signed0 /\ UNCHANGED <<account, mixed>>
       \/ /\ keeping[k].cookies # Signed0 /\ MeetsOther(k)
          /\ account' = [account EXCEPT !.cookies = keeping[k].cookies]
       \/ keeping[k].cookies # Signed0 /\ UNCHANGED account /\ mixed' = TRUE
    /\ UNCHANGED <<logins, archive, bundle, captured>>

BundleSetsStorage(k) ==
    /\ KeeperAt(k, "bundle", "storage") /\ KeeperEnds(k)
    /\ \/ keeping[k].storage = Signed0 /\ UNCHANGED <<account, mixed>>
       \/ /\ keeping[k].storage # Signed0 /\ MeetsOther(k)
          /\ account' = [account EXCEPT !.storage = keeping[k].storage]
       \/ keeping[k].storage # Signed0 /\ UNCHANGED account /\ mixed' = TRUE
    /\ UNCHANGED <<logins, archive, bundle, captured>>

-----------------------------------------------------------------------------
(* POST /session/{id}/clone: the cookies of the source are read, a session   *)
(* is created, and they are set in its tab, which shares them with all.      *)
AskClone(k) ==
    /\ keeping[k].pc = "idle" /\ Keeps(k, [op |-> "clone", pc |-> "create", cookies |-> account.cookies])
    /\ UNCHANGED <<account, logins, archive, bundle, captured, mixed>>

CloneCreates(k) ==
    /\ KeeperAt(k, "clone", "create")
    /\ Keeps(k, [pc |-> "cookies"]) \/ KeeperEnds(k)
    /\ UNCHANGED <<account, logins, archive, bundle, captured, mixed>>

CloneSets(k) ==
    /\ KeeperAt(k, "clone", "cookies") /\ KeeperEnds(k) /\ SetsCookies(k)
    /\ UNCHANGED <<logins, archive, bundle, captured>>

(* Cookies alone, of the caller's bundle or none: import_cookies, clear.     *)
SetsAlone(n) ==
    /\ account.cookies # n /\ account' = [account EXCEPT !.cookies = n] /\ mixed' = TRUE
    /\ UNCHANGED <<logins, archive, bundle, keeping, captured>>
ImportCookies == bundle.cookies # Signed0 /\ SetsAlone(bundle.cookies)
ClearCookies  == SetsAlone(Signed0)

(* Bound: what follows once a login is mixed is not explored.                *)
SavedNext ==
  ~mixed /\
    \/ SignsIn \/ SignsOut \/ RemoveExpired \/ ImportCookies \/ ClearCookies
    \/ \E n \in Saves : DeleteSaved(n) \/ SavedGrowsOld(n)
    \/ \E k \in Keepers :
         \/ \E n \in Saves : AskCapture(k, n) \/ AskRestore(k, n)
         \/ CaptureReads(k) \/ SavesCapture(k)
         \/ RestoreConnects(k) \/ RestoresCookies(k) \/ SavesAgain(k)
         \/ AskSave(k) \/ SaveReads(k) \/ SavesBundle(k) \/ SavesProfile(k)
         \/ AskProfileRestore(k) \/ AskBundleRestore(k)
         \/ BundleSetsCookies(k) \/ BundleSetsStorage(k)
         \/ AskClone(k) \/ CloneCreates(k) \/ CloneSets(k)

-----------------------------------------------------------------------------
SavedTypeOK ==
    /\ account.cookies \in 0..MaxLogins /\ account.storage \in 0..MaxLogins
    /\ bundle.cookies \in 0..MaxLogins /\ bundle.storage \in 0..MaxLogins
    /\ \A n \in Saves : archive[n].cookies \in 0..MaxLogins
    /\ \A k \in Keepers : keeping[k].pc \in {"idle", "connect", "create", "cookies", "storage", "touch", "write"}

(* As long as no request missed a part, met the change of another or of the  *)
(* user halfway, or set the cookies of another login alone, a login stays    *)
(* whole: the cookies and the storage of the browser, and those of a saved   *)
(* bundle, are of the same login, and a captured session is the one that was *)
(* captured last, until it is removed, though each restore writes it again.  *)
LoginsWhole ==
    ~mixed =>
        /\ bundle.cookies = bundle.storage
        /\ account.cookies = account.storage \/ \E k \in Keepers : KeeperAt(k, "bundle", "storage")
        /\ \A n \in Saves : [archive[n] EXCEPT !.stale = FALSE] = captured[n]

=============================================================================
