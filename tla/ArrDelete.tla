------------------------------ MODULE ArrDelete ------------------------------
(***************************************************************************)
(* The deletions the arr clients perform (arr_clients/radarr.py,           *)
(* arr_clients/sonarr.py) over a connection that loses requests and        *)
(* answers, with the retries of arr_clients/retry.py.  A film and an       *)
(* episode are one request; a season and a series are a listing, a bulk    *)
(* deletion and the requests that stop Sonarr from fetching the files      *)
(* again, all of it inside the function that is retried.                   *)
(***************************************************************************)
EXTENDS Integers, FiniteSets

CONSTANTS
    Files,       \* episode files of the series (one episode each), or the film's
    Season,      \* those of the season that is deleted
    Kinds,       \* which deletions are asked for
    Retries,     \* retries of with_retry
    MaxCalls,    \* bound: deletions asked for, one after the other
    MaxLosses,   \* bound: requests or answers lost, and answers other than 200
    MaxImports   \* bound: files imported meanwhile

ArrDeleteConstants ==
    /\ Season \subseteq Files /\ Retries \in Nat \ {0}
    /\ Kinds \subseteq {"film", "episode", "season", "series"}

VARIABLES
    present,    \* files arr has
    linked,     \* episodes that name their file (episodeFileId)
    monitored,  \* episodes arr looks for
    watching,   \* the series is monitored
    job,        \* the call: kind, step, attempt, what it listed
    outcome,    \* what the last call returned: "none", TRUE or FALSE as "yes"/"no"
    imported,   \* history: files imported since the call began
    wiped,      \* history: files deleted by the call
    losses, calls

arrVars == <<present, linked, monitored, watching, job, outcome, imported,
             wiped, losses, calls>>
arrState == <<present, linked, monitored, watching, wiped>>

Wanted(kind) == IF kind = "season" \/ kind = "episode" THEN Season ELSE Files
Resting == [step |-> "idle"]

ArrInit ==
    /\ present = Files /\ linked = Files /\ monitored = Files /\ watching = TRUE
    /\ job = Resting /\ outcome = "none"
    /\ imported = {} /\ wiped = {}
    /\ losses = 0 /\ calls = 0

Step(s) == job' = [job EXCEPT !.step = s]
Returns(o) == job' = Resting /\ outcome' = o
Loses == losses < MaxLosses /\ losses' = losses + 1
FirstStep(kind) == IF kind \in {"season", "series"} THEN "list" ELSE "delete"

(* One of _RETRYABLE is raised: from the start again, or False. *)
Retry ==
    IF job.attempt < Retries
      THEN job' = [step |-> FirstStep(job.kind), kind |-> job.kind,
                   attempt |-> job.attempt + 1, ids |-> {}]
           /\ UNCHANGED outcome
      ELSE Returns("no")

(* An httpx error: retried if it is one of _RETRYABLE, and False if not. *)
Breaks == Retry \/ Returns("no")

-----------------------------------------------------------------------------
Call(kind) ==
    /\ job.step = "idle" /\ calls < MaxCalls /\ calls' = calls + 1
    /\ job' = [step |-> FirstStep(kind), kind |-> kind, attempt |-> 1, ids |-> {}]
    /\ outcome' = "none" /\ imported' = {} /\ wiped' = {}
    /\ UNCHANGED <<present, linked, monitored, watching, losses>>

(* Mutation: the season is not looked at. *)
EveryFile == present

ListedIds == present \cap Wanted(job.kind)

(* GET /episodefile *)
List ==
    /\ job.step = "list"
    /\ \/ /\ ListedIds = {} /\ Returns("yes") /\ UNCHANGED losses
       \/ /\ ListedIds # {}
          /\ job' = [job EXCEPT !.step = "delete", !.ids = ListedIds]
          /\ UNCHANGED <<losses, outcome>>
       \/ Loses /\ Breaks
    /\ UNCHANGED <<arrState, imported, calls>>

Ids == IF job.kind \in {"season", "series"} THEN job.ids ELSE Wanted(job.kind)

Wipe ==
    /\ present' = present \ Ids /\ wiped' = wiped \cup (Ids \cap present)
    /\ imported' = imported \ Ids
    /\ UNCHANGED <<linked, monitored, watching>>

(* DELETE /movie, /episodefile or /episodefile/bulk.  A film or an episode
   file that is no longer there is answered with a 404. *)
Delete ==
    /\ job.step = "delete"
    /\ \/ /\ Ids \cap present # {} /\ Wipe
          /\ \/ /\ IF FirstStep(job.kind) = "list" THEN Step("find") /\ UNCHANGED outcome
                                                   ELSE Returns("yes")
                /\ UNCHANGED losses
             \/ Loses /\ Breaks                  \* the answer is lost
       \/ /\ Ids \cap present = {}
          /\ IF FirstStep(job.kind) = "list" THEN Step("find") /\ UNCHANGED outcome
                                             ELSE Returns("no")
          /\ UNCHANGED <<arrState, imported, losses>>
       \/ /\ Loses /\ Breaks                  \* not delivered, refused
          /\ UNCHANGED <<arrState, imported>>
    /\ UNCHANGED calls

(* What comes after a successful bulk deletion: the episodes of the season
   that name one of the files, or the series itself; an answer other than 200
   ends it with nothing unmonitored and True. *)
Find ==
    /\ job.step = "find"
    /\ \/ /\ job' = [job EXCEPT !.step = "stop", !.ids = @ \cap linked]
          /\ UNCHANGED <<losses, outcome>>
       \/ Loses /\ (Breaks \/ Returns("yes"))
    /\ UNCHANGED <<arrState, imported, calls>>

StopMonitoring ==
    IF job.kind = "season" THEN monitored' = monitored \ job.ids /\ UNCHANGED watching
                           ELSE watching' = FALSE /\ UNCHANGED monitored

(* PUT /episode/monitor, which never raises, or PUT /series, which does; no
   one looks at the status of the answer. *)
Stop ==
    /\ job.step = "stop"
    /\ \/ StopMonitoring /\ Returns("yes") /\ UNCHANGED losses
       \/ /\ Loses /\ (StopMonitoring \/ UNCHANGED <<monitored, watching>>)
          /\ IF job.kind = "season" THEN Returns("yes") ELSE Breaks \/ Returns("yes")
    /\ UNCHANGED <<present, linked, wiped, imported, calls>>

-----------------------------------------------------------------------------
(* Sonarr itself: an episode whose file is gone stops naming it, and what is
   looked for is fetched and imported again. *)
Unlink ==
    /\ linked # linked \cap present
    /\ linked' = linked \cap present
    /\ UNCHANGED <<present, monitored, watching, job, outcome, imported, wiped, losses, calls>>

Import(f) ==
    /\ Cardinality(imported) < MaxImports
    /\ f \notin present /\ f \in monitored /\ watching
    /\ present' = present \cup {f} /\ linked' = linked \cup {f}
    /\ imported' = imported \cup {f}
    /\ UNCHANGED <<monitored, watching, job, outcome, wiped, losses, calls>>

ArrNext ==
    \/ \E kind \in Kinds : Call(kind)
    \/ List \/ Delete \/ Find \/ Stop
    \/ Unlink \/ \E f \in Files : Import(f)

ArrSpec == ArrInit /\ [][ArrNext]_arrVars

-----------------------------------------------------------------------------
(* When a deletion reports success, nothing of what was asked for is left
   except what arr has imported since, and the call has deleted nothing else:
   lost requests, lost answers and retries do not change that. *)
SuccessIsReal ==
    outcome' = "yes" /\ outcome # "yes" =>
        /\ present' \cap Wanted(job.kind) \subseteq imported'
        /\ wiped' \subseteq Wanted(job.kind)

(* sonarr_delete_series on a connection that loses nothing: a success leaves
   the series unmonitored when the call deleted something. *)
StopsInPeace ==
    outcome' = "yes" /\ job.step # "idle" /\ job.kind = "series" /\ losses' = 0 /\ wiped' # {}
        => ~watching'

(* What the callers of the clients take the answer for. *)
DeletionIsReal == [][SuccessIsReal /\ StopsInPeace]_arrVars
=============================================================================
