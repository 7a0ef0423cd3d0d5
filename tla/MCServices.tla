------------------------------ MODULE MCServices ------------------------------
(***************************************************************************)
(* The scan and what surrounds it: the questions of MCRules, the queue     *)
(* under scans and requests, the pages of a media server, the sessions of  *)
(* a browser, a deletion in Sonarr or Radarr, and the start on an old      *)
(* database.  They share no state, so a behaviour looks at one of them,    *)
(* its focus, and the others stay as they were.                            *)
(***************************************************************************)
EXTENDS MCRules, Scanner, PagedScan, Auth, ArrDelete, Upgrade

CONSTANTS a, e1, e2, p1, p2

VARIABLE focus

rulesVars == <<q, x, y>>

-----------------------------------------------------------------------------
(* One film, that nobody has requested, in a library and its clone. *)
Settings   == {[on |-> TRUE, grace |-> 1, cond |-> "any", seerr |-> TRUE],
               [on |-> TRUE, grace |-> 2, cond |-> "unwatched", seerr |-> FALSE]}

ASSUME ConstantsFit ==
    /\ ScannerConstants /\ PagedConstants /\ AuthConstants
    /\ ArrDeleteConstants /\ UpgradeConstants /\ RuleConstants

-----------------------------------------------------------------------------
(* A component that is not looked at is in one of its initial states.  The film
   of the scan may also be a season: the two exceptions of StaysIgnored, groups
   and clients of the API, are looked at together. *)
ServicesInit ==
    /\ focus \in {"rules", "scan", "pages", "browser", "arr", "start"}
    /\ RulesInit
    /\ ScanInit
    /\ api <=> grouped # {}
    /\ focus # "scan" => ~api /\ \E l \in Libraries : libs[l] # Absent /\ libs[l].seerr
    /\ PagedInit /\ (focus # "pages" => In(shelf) = Media /\ \A u \in Users : played[u] = {})
    /\ AuthInit
    /\ ArrInit
    /\ UpInit /\ (focus # "start" => engine = "sqlite" /\ original.journal /\ backupsOn)

ServicesNext ==
    \/ focus = "rules" /\ RulesNext
       /\ UNCHANGED <<focus, scanVars, pagedVars, authVars, arrVars, upVars>>
    \/ focus = "scan" /\ ScanNext
       /\ UNCHANGED <<focus, rulesVars, pagedVars, authVars, arrVars, upVars>>
    \/ focus = "pages" /\ PagedNext
       /\ UNCHANGED <<focus, rulesVars, scanVars, authVars, arrVars, upVars>>
    \/ focus = "browser" /\ AuthNext
       /\ UNCHANGED <<focus, rulesVars, scanVars, pagedVars, arrVars, upVars>>
    \/ focus = "arr" /\ ArrNext
       /\ UNCHANGED <<focus, rulesVars, scanVars, pagedVars, authVars, upVars>>
    \/ focus = "start" /\ UpNext
       /\ UNCHANGED <<focus, rulesVars, scanVars, pagedVars, authVars, arrVars>>

ServicesSpec ==
    ServicesInit
    /\ [][ServicesNext]_<<focus, rulesVars, scanVars, pagedVars, authVars, arrVars, upVars>>
=============================================================================
