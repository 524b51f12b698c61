------------------------------ MODULE Downloads ------------------------------
(***************************************************************************)
(* A file fetched through the browser (cdp_client.py download_file, POST   *)
(* /page/download and the two MCP tools): the browser is told to put what  *)
(* it downloads in a fresh directory, the address is opened, and the first *)
(* file that appears there is stored as the artifact of that address.  The *)
(* directory downloads go to is one for the whole browser; every caller    *)
(* has a tab and a directory of its own.                                   *)
(***************************************************************************)
EXTENDS Naturals, FiniteSets

CONSTANTS
    RestLoaders, McpLoaders,   (* callers of the endpoint and of the tools    *)
    NoLoader,                  (* none: a page's own doing, or no directory   *)
    MaxLoads                   (* bound: downloads asked for, and by pages    *)

ASSUME DownloadsAssumption ==
    /\ MaxLoads \in Nat /\ RestLoaders \cap McpLoaders = {}
    /\ NoLoader \notin RestLoaders \cup McpLoaders

VARIABLES
    target,      (* the directory of the browser's downloads: its caller's    *)
    dirs,        (* the directories that exist, named by their caller         *)
    fetched,       (* [of, dir, done]: what is being downloaded, or was         *)
    load,        (* what each caller is doing, and was told                   *)
    others,      (* callers that were at work while this one was              *)
    asked        (* downloads begun so far                                    *)

loadVars == <<target, dirs, fetched, load, others, asked>>

Loaders == RestLoaders \cup McpLoaders
NoLoad  == [does |-> "rest", path |-> NoLoader, told |-> "none"]

LoadsInit ==
    /\ target = NoLoader /\ dirs = {} /\ fetched = {} /\ asked = 0
    /\ load = [c \in Loaders |-> NoLoad] /\ others = [c \in Loaders |-> {}]

Working == {c \in Loaders : load[c].does # "rest"}

-----------------------------------------------------------------------------
(* page_download, download and browser_download_file begin: a directory.     *)
AskDownload(c) ==
    /\ load[c].does = "rest" /\ asked < MaxLoads /\ asked' = asked + 1
    /\ dirs' = dirs \cup {c}
    /\ load' = [load EXCEPT ![c] = [NoLoad EXCEPT !.does = "sets"]]
    /\ others' = [d \in Loaders |-> IF d = c THEN Working
                                    ELSE IF d \in Working THEN others[d] \cup {c} ELSE others[d]]
    /\ UNCHANGED <<target, fetched>>

(* The end of the directory takes what is in it along; what is still on its  *)
(* way there is lost.                                                        *)
LoadEnds(c, told, path) ==
    /\ dirs' = dirs \ {c}
    /\ fetched' = {f \in fetched : f.dir # c}
    /\ load' = [load EXCEPT ![c] = [NoLoad EXCEPT !.told = told, !.path = path]]

(* Browser.setDownloadBehavior, or its failure.                              *)
SetsBehavior(c) ==
    /\ load[c].does = "sets"
    /\ \/ /\ target' = c /\ load' = [load EXCEPT ![c].does = "opens"]
          /\ UNCHANGED <<dirs, fetched>>
       \/ /\ LoadEnds(c, "error", NoLoader) /\ UNCHANGED target
    /\ UNCHANGED <<others, asked>>

(* The address is opened: the browser begins to download, into the directory *)
(* that is set by now; or navigate fails, before that or after it.           *)
FollowsLink(c) ==
    /\ load[c].does = "opens"
    /\ \E begins, fails \in BOOLEAN :
         LET new == IF begins /\ target \in dirs
                    THEN {[of |-> c, dir |-> target, done |-> FALSE]} ELSE {}
         IN IF fails
            THEN /\ dirs' = dirs \ {c}
                 /\ fetched' = {f \in fetched \cup new : f.dir # c}
                 /\ load' = [load EXCEPT ![c] = [NoLoad EXCEPT !.told = "error"]]
            ELSE /\ fetched' = fetched \cup new
                 /\ load' = [load EXCEPT ![c].does = "polls"]
                 /\ UNCHANGED dirs
    /\ UNCHANGED <<target, others, asked>>

(* A page downloads something by itself.                                     *)
PageDownloads ==
    /\ asked < MaxLoads /\ asked' = asked + 1
    /\ target \in dirs
    /\ fetched' = fetched \cup {[of |-> NoLoader, dir |-> target, done |-> FALSE]}
    /\ UNCHANGED <<target, dirs, load, others>>
Arrives(f) ==
    /\ ~f.done
    /\ fetched' = (fetched \ {f}) \cup {[f EXCEPT !.done = TRUE]}
    /\ UNCHANGED <<target, dirs, load, others, asked>>

(* The newest complete file of the directory that was not there before: the  *)
(* directory was empty.                                                      *)
Appeared(c) == {f \in fetched : f.dir = c /\ f.done}
Polls(c) ==
    /\ load[c].does = "polls"
    /\ \E f \in Appeared(c) :
         load' = [load EXCEPT ![c] = [NoLoad EXCEPT !.does = "stores", !.path = f.of]]
    /\ UNCHANGED <<target, dirs, fetched, others, asked>>
LoadTimesOut(c) ==
    /\ load[c].does = "polls"
    /\ LoadEnds(c, "timeout", NoLoader) /\ UNCHANGED <<target, others, asked>>

(* The file is read and stored as the artifact; the tools look for it one    *)
(* level above where run_op puts it, and fail.                               *)
StoresFile(c) ==
    /\ c \in RestLoaders /\ load[c].does = "stores"
    /\ LoadEnds(c, "ok", load[c].path) /\ UNCHANGED <<target, others, asked>>
McpStores(c) ==
    /\ c \in McpLoaders /\ load[c].does = "stores"
    /\ LoadEnds(c, "error", NoLoader) /\ UNCHANGED <<target, others, asked>>

LoadsNext ==
    \/ \E c \in Loaders : \/ AskDownload(c) \/ SetsBehavior(c) \/ FollowsLink(c)
                          \/ Polls(c) \/ LoadTimesOut(c) \/ StoresFile(c) \/ McpStores(c)
    \/ PageDownloads \/ \E f \in fetched : Arrives(f)

-----------------------------------------------------------------------------
LoadsTypeOK ==
    /\ target \in Loaders \cup {NoLoader} /\ dirs \subseteq Loaders /\ asked \in 0..MaxLoads
    /\ fetched \subseteq [of : Loaders \cup {NoLoader}, dir : Loaders, done : BOOLEAN]
    /\ \A c \in Loaders : load[c].path \in Loaders \cup {NoLoader}

(* An artifact is a file its caller's directory received while it waited: of *)
(* its own address, of a page, or of a caller that was at work meanwhile --   *)
(* never one left by a download that had ended.  A caller's file is in       *)
(* another's directory only where the two overlapped, and no directory, and  *)
(* nothing in one, outlives the request that made it.                        *)
DownloadsWhole ==
    /\ \A c \in Loaders : load[c].path \in {c, NoLoader} \cup others[c]
    /\ \A f \in fetched : f.of \in {f.dir, NoLoader} \cup others[f.dir]
    /\ dirs = Working /\ \A f \in fetched : f.dir \in dirs

=============================================================================
