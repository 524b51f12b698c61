---------------------------- MODULE ProfileStore ----------------------------
(***************************************************************************)
(* The profiles of the service and their file, profiles.json               *)
(* (src/src/profile_manager.py).  The service keeps one ProfileManager,    *)
(* which reads the file once and writes it whole after every change; a     *)
(* request for a session with a profile uses a manager of its own, which   *)
(* reads the file, perhaps writes it, and is forgotten.                    *)
(*                                                                         *)
(* No handler waits between its change and its save, so each is one        *)
(* action; its save may fail.  Of a profile, only whether it has a         *)
(* fingerprint is told apart; directories are left out.                    *)
(***************************************************************************)
EXTENDS Naturals

CONSTANTS
    ProfileNames

VARIABLES
    profiles,      (* _data of the service's manager                          *)
    onDisk,        (* what profiles.json gives when it is read: nothing if it *)
                   (* is cut short                                            *)
    saveFailed     (* history: the last save of the service's manager failed  *)

profileVars == <<profiles, onDisk, saveFailed>>

Contents == {"absent", "plain", "fingerprinted"}
NoProfiles == [n \in ProfileNames |-> "absent"]

ProfileTypeOK ==
    /\ profiles \in [ProfileNames -> Contents]
    /\ onDisk \in [ProfileNames -> Contents]
    /\ saveFailed \in BOOLEAN

ProfileInit ==
    /\ profiles = NoProfiles
    /\ onDisk = NoProfiles
    /\ saveFailed = FALSE

Known(n) == profiles[n] # "absent"

(* save() opens the file, which empties it, and then writes it.  An OSError   *)
(* is logged and the caller is answered as if nothing had happened.           *)
Save(data) ==
    \/ onDisk' = data /\ saveFailed' = FALSE
    \/ onDisk' = onDisk /\ saveFailed' = TRUE               (* not opened       *)
    \/ onDisk' = NoProfiles /\ saveFailed' = TRUE           (* cut short        *)

Puts(n, content) ==
    /\ profiles' = [profiles EXCEPT ![n] = content]
    /\ Save(profiles')

(* create_profile, import_profile                                             *)
CreateProfile(n) == ~Known(n) /\ Puts(n, "plain")

ImportProfile(n) == ~Known(n) /\ \E content \in Contents \ {"absent"} : Puts(n, content)

CreateAntiDetection(n) == ~Known(n) /\ Puts(n, "fingerprinted")

(* generate_fingerprint, set_fingerprint_config                               *)
SetFingerprint(n) == Known(n) /\ Puts(n, "fingerprinted")

(* PUT /profiles/{name} builds the profile anew, from fields among which the  *)
(* fingerprint is not.                                                        *)
UpdateProfile(n) == Known(n) /\ Puts(n, "plain")

(* add_extension, remove_extension                                            *)
EditExtensions(n) == Known(n) /\ Puts(n, profiles[n])

DeleteProfile(n) == Known(n) /\ Puts(n, "absent")

(* rename_profile takes the entry out before it moves the directory.          *)
RenameProfile(n, to) ==
    /\ Known(n) /\ ~Known(to)
    /\ profiles' = [profiles EXCEPT ![n] = "absent", ![to] = profiles[n]]
    /\ Save(profiles')

RenameFails(n) ==
    /\ Known(n)
    /\ profiles' = [profiles EXCEPT ![n] = "absent"]
    /\ UNCHANGED <<onDisk, saveFailed>>

SessionProfileBlind(n) ==                         (* mutant of SessionProfile *)
    /\ onDisk' = [NoProfiles EXCEPT ![n] = "plain"]
    /\ UNCHANGED <<profiles, saveFailed>>

(* POST /session/new with a profile: one that is not in the file is made      *)
(* there.  A launch of a headless session only reads the file.                *)
SessionProfile(n) ==
    /\ onDisk[n] = "absent"
    /\ onDisk' = [onDisk EXCEPT ![n] = "plain"]
    /\ UNCHANGED <<profiles, saveFailed>>

(* The service stops, perhaps in the middle of a save, and starts again.      *)
Restart ==
    /\ profiles' = onDisk
    /\ saveFailed' = FALSE
    /\ UNCHANGED onDisk

CrashInSave ==
    /\ profiles' = NoProfiles
    /\ onDisk' = NoProfiles
    /\ saveFailed' = FALSE

ProfileNext ==
    \/ \E n \in ProfileNames :
         \/ CreateProfile(n) \/ ImportProfile(n) \/ CreateAntiDetection(n)
         \/ SetFingerprint(n) \/ UpdateProfile(n) \/ EditExtensions(n)
         \/ DeleteProfile(n) \/ RenameFails(n)
         \/ SessionProfile(n)
         \/ \E to \in ProfileNames \ {n} : RenameProfile(n, to)
    \/ Restart \/ CrashInSave

ProfileSpec == ProfileInit /\ [][ProfileNext]_profileVars

-----------------------------------------------------------------------------
(* A restart brings back every profile that the service lists, as it lists   *)
(* it, unless its last save has failed: the managers that requests make for  *)
(* themselves, and write with, keep what they have not made (save, _load,    *)
(* session_new).                                                             *)
ListedSurvives ==
    ~saveFailed => \A n \in ProfileNames : Known(n) => onDisk[n] = profiles[n]

=============================================================================
