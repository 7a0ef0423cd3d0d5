--------------------------- MODULE DeletionPipeline ---------------------------
(***************************************************************************)
(* deletion_pipeline.py, step by step: what one attempt at deleting a row  *)
(* does to the media server, to Radarr or Sonarr, to Seerr, qBittorrent,   *)
(* Discord and the statistics, and what a later attempt finds when an      *)
(* earlier one stopped half-way.  Nothing is undone and nothing about the  *)
(* progress of an attempt is stored, except the 'now' marker.              *)
(*                                                                         *)
(* The table is reduced to the status of a fixed set of rows; selection,   *)
(* rescue and removal of rows are in DeletionQueue.                        *)
(***************************************************************************)
EXTENDS Integers, FiniteSets

CONSTANTS
    Rows,        \* media_queue rows
    KindOf,      \* Rows -> {"movie", "episode", "group"}
    Stored,      \* rows that carry the id of their arr entry
    Requested,   \* rows with a seerr_id
    Elsewhere,   \* rows whose library is not on the server with id "0"
    Torrents,    \* downloads known to qBittorrent
    Backing,     \* Rows -> SUBSET Torrents: the downloads of the row's files
    History,     \* Rows -> SUBSET Torrents: what arr's history lists for it
    Workers,     \* concurrent executions: the batch's tasks and the handlers
    NoRow,       \* what an idle worker works on
    Origins,     \* which callers there are
    Faults,      \* which failures may happen
    MaxAttempts  \* bound: executions started for one row

ASSUME PipelineConstants ==
    /\ KindOf \in [Rows -> {"movie", "episode", "group"}]
    /\ Stored \subseteq Rows
    /\ Requested \subseteq Rows
    /\ Elsewhere \subseteq Rows
    /\ Backing \in [Rows -> SUBSET Torrents]
    /\ History \in [Rows -> SUBSET Torrents]
    /\ NoRow \notin Rows
    /\ Origins \subseteq {"job", "now", "bulk"}
    /\ Faults \subseteq {"crash", "lost", "refuse", "lookup", "discord", "dbwrite", "qbit"}
    /\ MaxAttempts \in Nat

VARIABLES
    status,    \* media_queue.status
    marker,    \* rows with a 'now' line in notifications
    messages,  \* Discord messages announcing the deletion of the row
    onServer,  \* rows whose media the media server has
    strangers, \* rows whose id names something else on the server with id "0"
    inArr,     \* rows with an entry (and its history) in Radarr or Sonarr
    requests,  \* rows whose Seerr entry exists
    handled,   \* torrents tagged or deleted
    recorded,  \* lines in stats_history
    attempts,  \* executions started
    pipe       \* the execution of each worker

vars == <<status, marker, messages, onServer, strangers, inArr, requests,
          handled, recorded, attempts, pipe>>
services == <<onServer, strangers, inArr, requests, handled>>

Steps == {"size", "hash", "notify", "mark", "resolve", "server", "arr",
          "seerr", "qbit", "stats", "passed", "failed"}
Pipe == [row : Rows, by : Origins, step : Steps, hashes : SUBSET Torrents,
         routed : BOOLEAN]
Idle == [row |-> NoRow, by |-> "none", step |-> "idle", hashes |-> {},
         routed |-> FALSE]

Busy(w) == pipe[w].step # "idle"
At(w, s) == pipe[w].step = s
Move(w, s) == pipe' = [pipe EXCEPT ![w].step = s]
Group(r) == KindOf[r] = "group"

Init ==
    /\ status = [r \in Rows |-> "pending"]
    /\ marker = {}
    /\ messages = [r \in Rows |-> 0]
    /\ onServer = Rows
    /\ strangers \in SUBSET Elsewhere
    /\ \E found \in SUBSET Rows : inArr = Stored \cup found
    /\ requests = Requested
    /\ handled = {}
    /\ recorded = [r \in Rows |-> 0]
    /\ attempts = [r \in Rows |-> 0]
    /\ pipe = [w \in Workers |-> Idle]

-----------------------------------------------------------------------------
(* _delete_one and delete_now claim the row; bulk takes it as it is. *)
Start(w, r, by) ==
    /\ ~Busy(w)
    /\ by \in Origins
    /\ attempts[r] < MaxAttempts
    /\ \/ /\ by # "bulk"
          /\ status[r] = "pending"
          /\ status' = [status EXCEPT ![r] = "deleting"]
       \/ by = "bulk" /\ status' = status
    /\ attempts' = [attempts EXCEPT ![r] = @ + 1]
    /\ pipe' = [pipe EXCEPT ![w] =
                  [row |-> r, by |-> by, step |-> "size", hashes |-> {}, routed |-> FALSE]]
    /\ UNCHANGED <<marker, messages, recorded, services>>

(* SizeLookupStep: a failure only costs the figure in the statistics. *)
SizeLookup(w) ==
    /\ At(w, "size")
    /\ Move(w, "hash")
    /\ UNCHANGED <<status, marker, messages, recorded, attempts, services>>

(* What _find_torrent_hash and _find_torrent_hashes_consolidated may return.
   A group is matched through its episode files.  A film or an episode gets
   the first download of the history arr keeps for the film or the whole
   series; qBittorrent is asked only about a row without an arr entry. *)
HashesOf(r) ==
    CASE Group(r) -> {IF r \in inArr THEN Backing[r] ELSE {}}
      [] ~Group(r) /\ r \in inArr /\ History[r] # {} -> {{t} : t \in History[r]}
      [] ~Group(r) /\ r \in inArr /\ History[r] = {} -> {{}}
      [] ~Group(r) /\ r \notin inArr /\ r \in Stored -> {{}}
      [] ~Group(r) /\ r \notin inArr /\ r \notin Stored ->
           {{}} \cup {{t} : t \in Backing[r]}

TorrentHash(w) ==
    /\ At(w, "hash")
    /\ \E hs \in HashesOf(pipe[w].row)
                  \cup (IF "lookup" \in Faults THEN {{}} ELSE {}) :
         pipe' = [pipe EXCEPT ![w].hashes = hs, ![w].step = "notify"]
    /\ UNCHANGED <<status, marker, messages, recorded, attempts, services>>

(* Mutation: the marker is not looked at. *)
NotifyAgain(w) ==
    /\ At(w, "notify")
    /\ messages' = [messages EXCEPT ![pipe[w].row] = @ + 1]
    /\ Move(w, "mark")
    /\ UNCHANGED <<status, marker, recorded, attempts, services>>

(* DiscordNotifyStep, up to the answer of the webhook.  http_retry repeats a
   request whose answer timed out; send_notification turns a failure into
   False, which the step does not look at. *)
Notify(w) ==
    /\ At(w, "notify")
    /\ \/ /\ pipe[w].row \in marker
          /\ Move(w, "resolve")
          /\ messages' = messages
       \/ /\ pipe[w].row \notin marker
          /\ \E n \in {1} \cup (IF "lost" \in Faults THEN {2, 3} ELSE {})
                          \cup (IF "discord" \in Faults THEN {0} ELSE {}) :
               messages' = [messages EXCEPT ![pipe[w].row] = @ + n]
          /\ Move(w, "mark")
       \/ /\ "dbwrite" \in Faults
          /\ Move(w, "resolve")
          /\ messages' = messages
    /\ UNCHANGED <<status, marker, recorded, attempts, services>>

(* The marker is written once the webhook has answered. *)
NotifyMark(w) ==
    /\ At(w, "mark")
    /\ Move(w, "resolve")
    /\ \/ marker' = marker \cup {pipe[w].row}
       \/ "dbwrite" \in Faults /\ marker' = marker
    /\ UNCHANGED <<status, messages, recorded, attempts, services>>

(* Mutation: the statistics are written before the deletion is attempted. *)
ServerResolveCounts(w) ==
    /\ At(w, "resolve")
    /\ pipe' = [pipe EXCEPT ![w].routed = TRUE, ![w].step = "server"]
    /\ recorded' = [recorded EXCEPT ![pipe[w].row] = @ + 1]
    /\ UNCHANGED <<status, marker, messages, attempts, services>>

(* ServerResolveStep: _server_id is put on the row by the job alone, and
   stands for "0" when it is missing. *)
ServerResolve(w) ==
    /\ At(w, "resolve")
    /\ pipe' = [pipe EXCEPT
         ![w].routed = (pipe[w].by = "job" \/ pipe[w].row \notin Elsewhere),
         ![w].step = "server"]
    /\ UNCHANGED <<status, marker, messages, recorded, attempts, services>>

(* Mutation: MediaServerStep ignores the result of the deletion. *)
ServerSingleUnchecked(w) ==
    /\ onServer' \in {onServer, onServer \ {pipe[w].row}}
    /\ strangers' = strangers
    /\ Move(w, "arr")

(* delete_server_item for a film or an episode.  Deleting what is already
   gone is a 404, which both clients report as a failure; so is an answer
   that was lost, since the repetition of the request finds nothing. *)
ServerSingle(w) ==
    LET r == pipe[w].row IN
    \/ /\ pipe[w].routed
       /\ r \in onServer
       /\ onServer' = onServer \ {r}
       /\ strangers' = strangers
       /\ Move(w, "arr") \/ ("lost" \in Faults /\ Move(w, "failed"))
    \/ /\ ~pipe[w].routed
       /\ r \in strangers
       /\ strangers' = strangers \ {r}
       /\ onServer' = onServer
       /\ Move(w, "arr") \/ ("lost" \in Faults /\ Move(w, "failed"))
    \/ /\ \/ "refuse" \in Faults
          \/ r \notin (IF pipe[w].routed THEN onServer ELSE strangers)
       /\ Move(w, "failed")
       /\ UNCHANGED <<onServer, strangers>>

(* _delete_consolidated: the library item is looked up by the path Sonarr
   knows; nothing found is no failure. *)
ServerGroup(w) ==
    LET r == pipe[w].row IN
    /\ strangers' = strangers
    /\ \/ /\ pipe[w].routed
          /\ r \in onServer
          /\ onServer' = onServer \ {r}
          /\ Move(w, "arr") \/ ("lost" \in Faults /\ Move(w, "failed"))
       \/ /\ ~pipe[w].routed \/ r \notin onServer \/ "lookup" \in Faults
          /\ onServer' = onServer
          /\ Move(w, "arr")
       \/ /\ "refuse" \in Faults
          /\ pipe[w].routed
          /\ r \in onServer
          /\ onServer' = onServer
          /\ Move(w, "failed")

MediaServer(w) ==
    /\ At(w, "server")
    /\ IF Group(pipe[w].row) THEN ServerGroup(w) ELSE ServerSingle(w)
    /\ UNCHANGED <<status, marker, messages, recorded, attempts,
                   inArr, requests, handled>>

(* _delete_from_arr, then the failure of the step when it reports one.  A
   film or an episode with a stored id that is gone is a 404; a group without
   files, or an entry that is not found by path, counts as done. *)
Arr(w) ==
    LET r == pipe[w].row IN
    /\ At(w, "arr")
    /\ \/ /\ r \in inArr
          /\ inArr' = inArr \ {r}
          /\ Move(w, "seerr") \/ ("lost" \in Faults /\ ~Group(r) /\ Move(w, "failed"))
       \/ /\ r \notin inArr
          /\ inArr' = inArr
          /\ Move(w, IF Group(r) \/ r \notin Stored THEN "seerr" ELSE "failed")
       \/ /\ "refuse" \in Faults
          /\ inArr' = inArr
          /\ Move(w, "failed")
    /\ UNCHANGED <<status, marker, messages, recorded, attempts,
                   onServer, strangers, requests, handled>>

(* SeerrStep: the client's answer is not looked at. *)
Seerr(w) ==
    /\ At(w, "seerr")
    /\ Move(w, "qbit")
    /\ \/ requests' = requests \ {pipe[w].row}
       \/ "refuse" \in Faults /\ requests' = requests
    /\ UNCHANGED <<status, marker, messages, recorded, attempts,
                   onServer, strangers, inArr, handled>>

(* Mutation: a group's first torrent is handled and the others are dropped. *)
QbitFirstOnly(w) ==
    /\ At(w, "qbit")
    /\ \/ /\ pipe[w].hashes = {}
          /\ Move(w, "stats")
          /\ handled' = handled
       \/ \E t \in pipe[w].hashes :
            /\ pipe' = [pipe EXCEPT ![w].hashes = {}]
            /\ handled' = handled \cup {t}
    /\ UNCHANGED <<status, marker, messages, recorded, attempts,
                   onServer, strangers, inArr, requests>>

(* QbitStep: one torrent after the other; _handle_qbit never raises. *)
Qbit(w) ==
    /\ At(w, "qbit")
    /\ \/ /\ pipe[w].hashes = {}
          /\ Move(w, "stats")
          /\ handled' = handled
       \/ \E t \in pipe[w].hashes :
            /\ pipe' = [pipe EXCEPT ![w].hashes = @ \ {t}]
            /\ \/ handled' = handled \cup {t}
               \/ "qbit" \in Faults /\ handled' = handled
    /\ UNCHANGED <<status, marker, messages, recorded, attempts,
                   onServer, strangers, inArr, requests>>

Stats(w) ==
    /\ At(w, "stats")
    /\ Move(w, "passed")
    /\ \/ recorded' = [recorded EXCEPT ![pipe[w].row] = @ + 1]
       \/ "dbwrite" \in Faults /\ recorded' = recorded
    /\ UNCHANGED <<status, marker, messages, attempts, services>>

(* The caller writes the outcome; 'deleted' writes the marker as well. *)
Return(w) ==
    LET r == pipe[w].row IN
    /\ \/ /\ At(w, "passed")
          /\ status' = [status EXCEPT ![r] = "deleted"]
          /\ marker' = marker \cup {r}
       \/ /\ At(w, "failed")
          /\ status' = [status EXCEPT ![r] =
                          CASE pipe[w].by = "job" -> "error"
                            [] pipe[w].by = "now" -> "pending"
                            [] pipe[w].by = "bulk" -> @]
          /\ marker' = marker
    /\ pipe' = [pipe EXCEPT ![w] = Idle]
    /\ UNCHANGED <<messages, recorded, attempts, services>>

(* The process dies and is started again: reset_stale_deleting. *)
Crash ==
    /\ "crash" \in Faults
    /\ \E w \in Workers : Busy(w)
    /\ pipe' = [w \in Workers |-> Idle]
    /\ status' = [r \in Rows |-> IF status[r] = "deleting" THEN "pending" ELSE status[r]]
    /\ UNCHANGED <<marker, messages, recorded, attempts, services>>

PipeStep(w) ==
    \/ SizeLookup(w) \/ TorrentHash(w) \/ Notify(w) \/ NotifyMark(w)
    \/ ServerResolve(w) \/ MediaServer(w) \/ Arr(w) \/ Seerr(w)
    \/ Qbit(w) \/ Stats(w) \/ Return(w)

Next ==
    \/ \E w \in Workers, r \in Rows, by \in Origins : Start(w, r, by)
    \/ \E w \in Workers : PipeStep(w)
    \/ Crash

Spec == Init /\ [][Next]_vars

-----------------------------------------------------------------------------
(* Properties. *)

Past == {"arr", "seerr", "qbit", "stats"}
WorksOn(w, r) == pipe[w].row = r
Plain(r) == ~Group(r) /\ r \notin Elsewhere

(* Every variable keeps its shape. *)
TypeOK ==
    /\ status \in [Rows -> {"pending", "deleting", "deleted", "error"}]
    /\ marker \subseteq Rows
    /\ messages \in [Rows -> Nat]
    /\ onServer \subseteq Rows
    /\ strangers \subseteq Rows
    /\ inArr \subseteq Rows
    /\ requests \subseteq Rows
    /\ handled \subseteq Torrents
    /\ recorded \in [Rows -> Nat]
    /\ attempts \in [Rows -> Nat]
    /\ pipe \in [Workers -> Pipe \cup {Idle}]

(* The arr entry, and with it the history and the way back, is given up only
   after the media server has really dropped the item, whatever failed before
   and however many callers work on the row (MediaServerStep, ArrStep). *)
ArrAfterServer ==
    \A r \in Stored : Plain(r) /\ r \in onServer => r \in inArr

(* However often a deletion is repeated, and with unclaimed bulk deletions
   beside it, the statistics count a film or an episode at most once
   (StatsStep): only one execution gets the item from the media server. *)
CountedOnce == \A r \in Rows : Plain(r) => recorded[r] <= 1

(* No download outlives the deletion of its files: once a row that arr knew is
   deleted and nobody works on it, all torrents of a group, and the one found
   for a film or an episode, have been handled, although every lookup happens
   before the arr entry disappears and may belong to an earlier attempt
   (TorrentHashStep, QbitStep).  Soft failures of the lookup or of qBittorrent,
   lost answers and crashes do lose them. *)
TorrentsFollow ==
    Faults \cap {"crash", "lost", "lookup", "qbit"} = {} =>
      \A r \in Stored :
        status[r] = "deleted" /\ (\A w \in Workers : ~WorksOn(w, r)) =>
          IF Group(r) THEN Backing[r] \subseteq handled
          ELSE History[r] # {} => History[r] \cap handled # {}

(* DiscordNotifyStep's docstring: the deletion of an item is announced once,
   also when it failed and was tried again. *)
AnnouncedOnce == \A r \in Rows : messages[r] <= 1

(* It is, as long as the marker is written after every message: no crash, no
   failed write, no repeated request, and no caller without a claim. *)
AnnouncedOnceInPeace ==
    Faults \cap {"crash", "lost", "dbwrite"} = {} /\ "bulk" \notin Origins
      => AnnouncedOnce

(* ServerResolveStep's docstring, "the media server dict for this item's
   library": nothing is removed from another server. *)
RightServer == [][strangers' = strangers]_vars

(* sonarr_get_torrent_hashes_for_group's docstring: no torrent is touched
   that is unrelated to the files being removed. *)
OwnTorrentsOnly ==
    \A t \in handled : \E r \in Rows : attempts[r] > 0 /\ t \in Backing[r]

-----------------------------------------------------------------------------
(* The executions as their callers see them. *)

StageOf(s) ==
    CASE s = "idle" -> "idle"
      [] s \in {"size", "hash", "notify", "mark", "resolve", "server"} -> "media"
      [] s \in Past -> "rest"
      [] s \in {"passed", "failed"} -> s

Reaches(x) == x.row # NoRow /\ (x.by = "job" \/ x.row \notin Elsewhere)

Seen(x) == [row |-> x.row, reaches |-> Reaches(x), stage |-> StageOf(x.step)]

Contract == INSTANCE PipelineContract WITH
    Groups <- {r \in Rows : Group(r)},
    media <- onServer,
    exec <- [w \in Workers |-> Seen(pipe[w])]

(* The nine steps implement what DeletionQueue assumes of a pipeline. *)
MeetsContract == Contract!CSpec

-----------------------------------------------------------------------------
(* What ArrAfterServer and CountedOnce rest on, in inductive form. *)

(* The server step has a resolved server; a plain row is always routed. *)
Routed ==
    \A w \in Workers : At(w, "server") => (pipe[w].routed <=> Reaches(pipe[w]))

(* Only one execution ever gets past the media server for a plain row, it did
   remove the media, and the row is counted after it. *)
OnePasses ==
    \A r \in Rows : Plain(r) =>
      /\ r \in onServer => recorded[r] = 0
      /\ recorded[r] <= 1
      /\ \A w \in Workers : WorksOn(w, r) /\ pipe[w].step \in Past =>
           /\ r \notin onServer
           /\ recorded[r] = 0
           /\ \A v \in Workers : WorksOn(v, r) /\ pipe[v].step \in Past => v = w

PipelineInv == Routed /\ OnePasses /\ ArrAfterServer
=============================================================================
