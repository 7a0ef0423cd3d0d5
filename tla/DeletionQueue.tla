---------------------------- MODULE DeletionQueue ----------------------------
(***************************************************************************)
(* The life of a media_queue row: the scanner inserts it, users and the    *)
(* scanner touch it, and three actors may delete the media behind it --    *)
(* the scheduled deletion job (deletion.py), the delete-now endpoint and   *)
(* the bulk endpoint (routers/media.py).  They share nothing but the       *)
(* table: each reads rows, awaits, and writes back by primary key.         *)
(*                                                                         *)
(* The table is a set of rows.  Times are small naturals; 0 as a play time *)
(* stands for a NULL last_played.  The pipeline that talks to the services *)
(* (deletion_pipeline.py) is reduced to the two facts this level needs:    *)
(* whether the media left the media server, and whether the whole pipeline *)
(* reported success.                                                       *)
(***************************************************************************)
EXTENDS Integers, FiniteSets

CONSTANTS
    Items,        \* emby_id values
    Servers,      \* media servers
    ServerOf,     \* Items -> Servers, through the library of the item
    DefaultServer,\* the server with id "0"
    Tracked,      \* servers with a readable activity log (Emby, Jellyfin)
    Consolidated, \* items with a synthetic id ("sonarr-series:", "sonarr-season:")
    Requests,     \* concurrent HTTP handlers
    Parallel,     \* asyncio.Semaphore(3) of _execute_batch
    Graces,       \* grace periods a library or a Seerr rule may configure
    Retention,    \* deleted_retention_days
    Features,     \* which optional parts of the deployment are in use
    Faults,       \* which failures may happen
    MaxRowId,     \* bound: rows ever inserted
    MaxTime       \* bound: the clock

Time == 0 .. MaxTime
RowIds == 1 .. MaxRowId

ASSUME ConstantsOK ==
    /\ ServerOf \in [Items -> Servers]
    /\ DefaultServer \in Servers
    /\ Tracked \subseteq Servers
    /\ Consolidated \subseteq Items
    /\ "job" \notin Requests
    /\ Parallel \in Nat \ {0}
    /\ Graces \subseteq Nat
    /\ Retention \in Nat
    /\ Features \subseteq {"bulk", "scrobble", "workers"}
    /\ Faults \subseteq {"crash", "timeout", "dbwrite", "server"}
    /\ MaxRowId \in Nat
    /\ MaxTime \in Nat \ {0}

VARIABLES
    queue,   \* the media_queue table
    nextId,  \* AUTOINCREMENT: an id is never used twice
    now,     \* wall clock
    served,  \* last play of each item, as the media server knows it
    media,   \* items still present on the media server
    dryRun,  \* the dry_run setting
    up,      \* the process is running
    job,     \* the deletion job, at most one (the deletion lock)
    pipes,   \* DeletionPipeline executions in flight
    req      \* the delete-now and bulk handlers

vars == <<queue, nextId, now, served, media, dryRun, up, job, pipes, req>>

Status == {"pending", "deleting", "deleted", "error"}
Row == [id : RowIds, item : Items, status : Status,
        detected : Time, due : Nat, played : Time]

(* What a caller keeps of a row it read: the rest is never looked at again. *)
Snapshot == [id : RowIds, item : Items, detected : Time, played : Time]
SnapshotOf(r) == [id |-> r.id, item |-> r.item,
                  detected |-> r.detected, played |-> r.played]

Pipe == [who : Requests \cup {"job"}, by : {"job", "now", "bulk"},
         id : RowIds, item : Items, detected : Time,
         stage : {"load", "media", "rest", "passed", "failed"}]

JobPc == {"idle", "select", "refresh", "rescue", "execute"}
Job == [pc : JobPc, dry : BOOLEAN, batch : SUBSET Snapshot,
        servers : SUBSET Servers, writes : [Items -> Time],
        seen : [Items -> Time]]

ReqPc == {"idle", "claim", "now", "bulk"}
Req == [pc : ReqPc, dry : BOOLEAN, todo : SUBSET Snapshot]

Neglected == [i \in Items |-> 0]
IdleJob == [pc |-> "idle", dry |-> FALSE, batch |-> {},
            servers |-> {}, writes |-> Neglected, seen |-> Neglected]
IdleReq == [pc |-> "idle", dry |-> FALSE, todo |-> {}]

(* Items whose last play the job can read for certain before it deletes. *)
Direct == {i \in Items \ Consolidated : ServerOf[i] \in Tracked}

-----------------------------------------------------------------------------
(* The statements of db/repositories.py. *)

WithStatus(q, id, s) ==
    {IF r.id = id THEN [r EXCEPT !.status = s] ELSE r : r \in q}

Without(q, id) == {r \in q : r.id # id}

(* Mutation: the claim forgets AND status='pending'. *)
ClaimableAnyStatus(id) == \E r \in queue : r.id = id

(* claim_for_deletion: UPDATE ... WHERE id=? AND status='pending'. *)
Claimable(id) == \E r \in queue : r.id = id /\ r.status = "pending"

(* update_activity_log_batch and update_consolidated_watch_state: pending
   rows only, and the play date only moves forward. *)
Advanced(q, writes) ==
    {IF r.status = "pending" /\ r.played < writes[r.item]
     THEN [r EXCEPT !.played = writes[r.item]] ELSE r : r \in q}

(* Mutation: the startup recovery resets every row that is not deleted. *)
ResetAllUnfinished(q) ==
    {IF r.status # "deleted" THEN [r EXCEPT !.status = "pending"] ELSE r : r \in q}

ResetDeleting(q) ==
    {IF r.status = "deleting" THEN [r EXCEPT !.status = "pending"] ELSE r : r \in q}

Init ==
    /\ queue = {}
    /\ nextId = 1
    /\ now = 1
    /\ served = Neglected
    /\ media = Items
    /\ dryRun \in BOOLEAN
    /\ up = TRUE
    /\ job = IdleJob
    /\ pipes = {}
    /\ req = [h \in Requests |-> IdleReq]

-----------------------------------------------------------------------------
(* The world around the table. *)

Tick ==
    /\ now < MaxTime
    /\ now' = now + 1
    /\ UNCHANGED <<queue, nextId, served, media, dryRun, up, job, pipes, req>>

(* Someone plays an item; Hygie learns of it later, if at all. *)
Watch(i) ==
    /\ i \in media
    /\ served' = [served EXCEPT ![i] = now]
    /\ UNCHANGED <<queue, nextId, now, media, dryRun, up, job, pipes, req>>

SetDryRun ==
    /\ up
    /\ dryRun' = ~dryRun
    /\ UNCHANGED <<queue, nextId, now, served, media, up, job, pipes, req>>

(* Mutation: emby_id is not UNIQUE. *)
EnqueueDuplicate(i) ==
    /\ up
    /\ nextId \in RowIds
    /\ \E g \in Graces, p \in 0 .. served[i] :
         queue' = queue \cup
           {[id |-> nextId, item |-> i, status |-> "pending",
             detected |-> now, due |-> now + g, played |-> p]}
    /\ nextId' = nextId + 1
    /\ UNCHANGED <<now, served, media, dryRun, up, job, pipes, req>>

(* insert_queue_entry (INSERT OR IGNORE) at the end of a scan, or the requeue
   endpoint.  The play date was read before the arr and poster lookups, the
   detection date is taken after them; requeue does not look at the server. *)
Enqueue(i) ==
    /\ up
    /\ nextId \in RowIds
    /\ \A r \in queue : r.item # i
    /\ \E g \in Graces, p \in 0 .. served[i] :
         queue' = queue \cup
           {[id |-> nextId, item |-> i, status |-> "pending",
             detected |-> now, due |-> now + g, played |-> p]}
    /\ nextId' = nextId + 1
    /\ UNCHANGED <<now, served, media, dryRun, up, job, pipes, req>>

(* The scan meets a queued item again: update_queue_item_dates writes by id
   what the scan read, after having seen the row pending.  The play date may
   move backward.  Consolidated and Plex rows are not reached by it. *)
RefreshDates(r) ==
    /\ up
    /\ r \in queue
    /\ r.item \in Direct
    /\ r.status \in {"pending", "deleting"}
    /\ \E g \in Graces, p \in 0 .. served[r.item] :
         queue' = (queue \ {r}) \cup {[r EXCEPT !.due = r.detected + g, !.played = p]}
    /\ UNCHANGED <<nextId, now, served, media, dryRun, up, job, pipes, req>>

(* The scan's bulk play-date updates, from the activity log. *)
ScanAdvance(i) ==
    /\ up
    /\ ServerOf[i] \in Tracked
    /\ queue' = Advanced(queue, [Neglected EXCEPT ![i] = served[i]])
    /\ queue' # queue
    /\ UNCHANGED <<nextId, now, served, media, dryRun, up, job, pipes, req>>

(* remove_from_queue, ignore_one, bulk ignore, add_ignored and
   reevaluate_library_queue: DELETE by key, whatever the status. *)
RemoveRow(r) ==
    /\ up
    /\ r \in queue
    /\ queue' = Without(queue, r.id)
    /\ UNCHANGED <<nextId, now, served, media, dryRun, up, job, pipes, req>>

(* delete_pending_by_server, when a server is disabled or removed. *)
DropPending(s) ==
    /\ up
    /\ queue' = {r \in queue : ~(ServerOf[r.item] = s /\ r.status = "pending")}
    /\ queue' # queue
    /\ UNCHANGED <<nextId, now, served, media, dryRun, up, job, pipes, req>>

PurgeDeleted ==
    /\ up
    /\ queue' = {r \in queue : r.status # "deleted"}
    /\ queue' # queue
    /\ UNCHANGED <<nextId, now, served, media, dryRun, up, job, pipes, req>>

(* run_ignored_cleanup's retention purge. *)
CleanupRetention ==
    /\ up
    /\ Retention > 0
    /\ queue' = {r \in queue : ~(r.status = "deleted" /\ r.detected < now - Retention)}
    /\ queue' # queue
    /\ UNCHANGED <<nextId, now, served, media, dryRun, up, job, pipes, req>>

(* The Plex webhook: the row goes back to 'pending' whatever its status. *)
Scrobble(r) ==
    /\ up
    /\ "scrobble" \in Features
    /\ r \in queue
    /\ ServerOf[r.item] \notin Tracked
    /\ r.item \in media
    /\ served' = [served EXCEPT ![r.item] = now]
    /\ \E p \in {served[r.item], now} \ {0} :
         queue' = (queue \ {r}) \cup {[r EXCEPT !.status = "pending", !.played = p]}
    /\ UNCHANGED <<nextId, now, media, dryRun, up, job, pipes, req>>

-----------------------------------------------------------------------------
(* The deletion job: run_deletion, under the deletion lock. *)

JobStart ==
    /\ up
    /\ job.pc = "idle"
    /\ job' = [IdleJob EXCEPT !.pc = "select", !.dry = dryRun, !.seen = served]
    /\ UNCHANGED <<queue, nextId, now, served, media, dryRun, up, pipes, req>>

(* get_pending_queue: the due rows, copied out of the table. *)
DueRows == {r \in queue : r.status = "pending" /\ r.due <= now}

JobSelect ==
    /\ job.pc = "select"
    /\ job' = [job EXCEPT !.pc = "refresh",
                          !.batch = {SnapshotOf(r) : r \in DueRows},
                          !.servers = {ServerOf[r.item] : r \in DueRows}]
    /\ UNCHANGED <<queue, nextId, now, served, media, dryRun, up, pipes, req>>

(* Mutation: the fresh play date is written to the table but not to the copy
   of the row that the rescue guard looks at. *)
FresherForgotten(b, log) == b

Fresher(b, log) ==
    [b EXCEPT !.played = IF log[b.item] > b.played THEN log[b.item] ELSE b.played]

(* get_play_activity, seen through the items: 0 for an item that is not in the
   log, and for a consolidated row whose library item is not found. *)
ActivityLog(s, lost) ==
    [i \in Items |-> IF ServerOf[i] = s /\ i \notin lost THEN served[i] ELSE 0]

RefreshedBy(s, log) ==
    [job EXCEPT !.servers = @ \ {s},
                !.batch = {Fresher(b, log) : b \in @},
                !.writes = [i \in Items |->
                   IF \E b \in job.batch : b.item = i THEN log[i] ELSE 0]]

(* One turn of _refresh_watch_state_before_deletion's loop over servers: the
   activity log is read once for all the rows of the server.  A consolidated
   row is looked up through Sonarr and may not be resolved. *)
JobRefresh(s) ==
    /\ job.pc = "refresh"
    /\ s \in job.servers
    /\ job.writes = Neglected
    /\ \/ /\ s \notin Tracked
          /\ job' = [job EXCEPT !.servers = @ \ {s}]
       \/ /\ s \in Tracked
          /\ \E lost \in SUBSET {i \in Consolidated : ServerOf[i] = s} :
               job' = RefreshedBy(s, ActivityLog(s, lost))
       \/ /\ s \in Tracked
          /\ "server" \in Faults
          /\ job' = [job EXCEPT !.servers = @ \ {s},
                                !.batch = {b \in @ : ServerOf[b.item] # s}]
    /\ UNCHANGED <<queue, nextId, now, served, media, dryRun, up, pipes, req>>

(* The write that closes the turn; its failure is logged and ignored. *)
JobWriteWatchState ==
    /\ job.pc = "refresh"
    /\ job.writes # Neglected
    /\ job' = [job EXCEPT !.writes = Neglected]
    /\ \/ queue' = Advanced(queue, job.writes)
       \/ "dbwrite" \in Faults /\ queue' = queue
    /\ UNCHANGED <<nextId, now, served, media, dryRun, up, pipes, req>>

JobRefreshed ==
    /\ job.pc = "refresh"
    /\ job.servers = {}
    /\ job.writes = Neglected
    /\ job' = [job EXCEPT !.pc = "rescue"]
    /\ UNCHANGED <<queue, nextId, now, served, media, dryRun, up, pipes, req>>

Rescued(b) == b.played > b.detected

(* _rescue_watched_since_queued, one row: deleted by id, whatever happened to
   it since it was selected, and dropped from the batch in any case. *)
JobRescue(b) ==
    /\ job.pc = "rescue"
    /\ b \in job.batch
    /\ Rescued(b)
    /\ job' = [job EXCEPT !.batch = @ \ {b}]
    /\ \/ queue' = Without(queue, b.id)
       \/ "dbwrite" \in Faults /\ queue' = queue
    /\ UNCHANGED <<nextId, now, served, media, dryRun, up, pipes, req>>

JobBeginExecute ==
    /\ job.pc = "rescue"
    /\ \A b \in job.batch : ~Rescued(b)
    /\ job' = [job EXCEPT !.pc = "execute"]
    /\ UNCHANGED <<queue, nextId, now, served, media, dryRun, up, pipes, req>>

JobPipes == {p \in pipes : p.by = "job"}

PipeFor(who, by, b, stage) ==
    [who |-> who, by |-> by, id |-> b.id, item |-> b.item,
     detected |-> b.detected, stage |-> stage]

(* _delete_one: the atomic claim, then the pipeline on the copied row. *)
JobClaim(b) ==
    /\ job.pc = "execute"
    /\ ~job.dry
    /\ b \in job.batch
    /\ Cardinality(JobPipes) < Parallel
    /\ Claimable(b.id)
    /\ queue' = WithStatus(queue, b.id, "deleting")
    /\ pipes' = pipes \cup {PipeFor("job", "job", b, "media")}
    /\ job' = [job EXCEPT !.batch = @ \ {b}]
    /\ UNCHANGED <<nextId, now, served, media, dryRun, up, req>>

(* The claim matched no row, or raised: the batch goes on without it. *)
JobSkip(b) ==
    /\ job.pc = "execute"
    /\ ~job.dry
    /\ b \in job.batch
    /\ Cardinality(JobPipes) < Parallel
    /\ ~Claimable(b.id) \/ "dbwrite" \in Faults
    /\ job' = [job EXCEPT !.batch = @ \ {b}]
    /\ UNCHANGED <<queue, nextId, now, served, media, dryRun, up, pipes, req>>

(* Mutation: the run ends without releasing the deletion lock. *)
JobEndKeepsLock ==
    /\ job.pc = "execute"
    /\ job.dry \/ (job.batch = {} /\ JobPipes = {})
    /\ job' = [IdleJob EXCEPT !.pc = "execute"]
    /\ UNCHANGED <<queue, nextId, now, served, media, dryRun, up, pipes, req>>

(* gather returned; in a dry run the items were only logged. *)
JobEnd ==
    /\ job.pc = "execute"
    /\ job.dry \/ (job.batch = {} /\ JobPipes = {})
    /\ job' = IdleJob
    /\ UNCHANGED <<queue, nextId, now, served, media, dryRun, up, pipes, req>>

(* An exception outside gather ends the run: before the batch is executed. *)
JobAbort ==
    /\ "server" \in Faults
    /\ job.pc \in {"select", "refresh", "rescue"}
    /\ job' = IdleJob
    /\ UNCHANGED <<queue, nextId, now, served, media, dryRun, up, pipes, req>>

(* asyncio.timeout(3600) cancels the run and the pipelines it gathered; the
   cancellation is no Exception, so no status is written for their rows. *)
JobTimeout ==
    /\ "timeout" \in Faults
    /\ job.pc # "idle"
    /\ job' = IdleJob
    /\ pipes' = pipes \ JobPipes
    /\ UNCHANGED <<queue, nextId, now, served, media, dryRun, up, req>>

-----------------------------------------------------------------------------
(* The endpoints of routers/media.py. *)

(* delete-now has read dry_run as false; the claim is the next await. *)
DeleteNow(h, r) ==
    /\ up
    /\ ~dryRun
    /\ req[h].pc = "idle"
    /\ r \in queue
    /\ req' = [req EXCEPT ![h] = [pc |-> "claim", dry |-> FALSE, todo |-> {SnapshotOf(r)}]]
    /\ UNCHANGED <<queue, nextId, now, served, media, dryRun, up, job, pipes>>

DeleteNowClaim(h) ==
    /\ req[h].pc = "claim"
    /\ \E b \in req[h].todo :
         \/ /\ Claimable(b.id)
            /\ queue' = WithStatus(queue, b.id, "deleting")
            /\ pipes' = pipes \cup {PipeFor(h, "now", b, "load")}
            /\ req' = [req EXCEPT ![h].pc = "now", ![h].todo = {}]
         \/ /\ ~Claimable(b.id)                                  \* 404
            /\ req' = [req EXCEPT ![h] = IdleReq]
            /\ UNCHANGED <<queue, pipes>>
    /\ UNCHANGED <<nextId, now, served, media, dryRun, up, job>>

(* get_by_id after the claim: the row may be gone by then, and _delete_media
   raises on None. *)
DeleteNowLoad(p) ==
    /\ p \in pipes
    /\ p.stage = "load"
    /\ \/ /\ \E r \in queue : r.id = p.id
          /\ pipes' = (pipes \ {p}) \cup {[p EXCEPT !.stage = "media"]}
          /\ req' = req
       \/ /\ \A r \in queue : r.id # p.id
          /\ pipes' = pipes \ {p}
          /\ req' = [req EXCEPT ![p.who] = IdleReq]
    /\ UNCHANGED <<queue, nextId, now, served, media, dryRun, up, job>>

(* bulk delete: dry_run and the rows are read once, then one row at a time. *)
BulkDelete(h, rows) ==
    /\ up
    /\ "bulk" \in Features
    /\ req[h].pc = "idle"
    /\ rows # {}
    /\ req' = [req EXCEPT ![h] = [pc |-> "bulk", dry |-> dryRun,
                                  todo |-> {SnapshotOf(r) : r \in rows}]]
    /\ UNCHANGED <<queue, nextId, now, served, media, dryRun, up, job, pipes>>

PipesOf(h) == {p \in pipes : p.who = h}

(* The loop body starts: _delete_media without a claim; in a dry run it
   returns True at once and the row is marked deleted. *)
BulkNext(h, b) ==
    /\ req[h].pc = "bulk"
    /\ b \in req[h].todo
    /\ PipesOf(h) = {}
    /\ req' = [req EXCEPT ![h].todo = @ \ {b}]
    /\ \/ /\ req[h].dry
          /\ queue' = WithStatus(queue, b.id, "deleted")
          /\ pipes' = pipes
       \/ /\ ~req[h].dry
          /\ pipes' = pipes \cup {PipeFor(h, "bulk", b, "media")}
          /\ queue' = queue
    /\ UNCHANGED <<nextId, now, served, media, dryRun, up, job>>

BulkEnd(h) ==
    /\ req[h].pc = "bulk"
    /\ req[h].todo = {}
    /\ PipesOf(h) = {}
    /\ req' = [req EXCEPT ![h] = IdleReq]
    /\ UNCHANGED <<queue, nextId, now, served, media, dryRun, up, job, pipes>>

-----------------------------------------------------------------------------
(* DeletionPipeline.execute and the status write that follows it. *)

AtStage(p, stage) == pipes' = (pipes \ {p}) \cup {[p EXCEPT !.stage = stage]}

(* Mutation: MediaServerStep does not raise when the server refuses. *)
PipeMediaUnchecked(p) ==
    /\ p \in pipes
    /\ p.stage = "media"
    /\ media' \in {media, media \ {p.item}}
    /\ AtStage(p, "rest")
    /\ UNCHANGED <<queue, nextId, now, served, dryRun, up, job, req>>

(* Only the job puts _server_id on the row: delete-now and bulk talk to the
   server with id "0", whatever library the item is in. *)
Reaches(p) == p.by = "job" \/ ServerOf[p.item] = DefaultServer

(* Up to MediaServerStep.  The media is removed and the step passes, or the
   answer is lost and it raises.  Or nothing is removed: the server refuses,
   or has something else under that id, or a consolidated row is not resolved
   and the step returns having done nothing. *)
PipeMedia(p) ==
    /\ p \in pipes
    /\ p.stage = "media"
    /\ \/ /\ Reaches(p)
          /\ media' = media \ {p.item}
          /\ \E s \in {"rest", "failed"} : AtStage(p, s)
       \/ /\ p.item \in Consolidated \/ ~Reaches(p)
          /\ media' = media
          /\ AtStage(p, "rest")
       \/ media' = media /\ AtStage(p, "failed")
    /\ UNCHANGED <<queue, nextId, now, served, dryRun, up, job, req>>

(* ArrStep may raise; the later steps only warn. *)
PipeRest(p) ==
    /\ p \in pipes
    /\ p.stage = "rest"
    /\ \E s \in {"passed", "failed"} : AtStage(p, s)
    /\ UNCHANGED <<queue, nextId, now, served, media, dryRun, up, job, req>>

(* Mutation: a failed pipeline writes no status at all. *)
OutcomeOnlySuccess(p) ==
    IF p.stage = "passed" THEN WithStatus(queue, p.id, "deleted") ELSE queue

(* update_queue_status: by id, unconditionally; a row that is gone is not
   resurrected.  A bulk failure writes nothing. *)
Outcome(p) ==
    CASE p.stage = "passed" -> WithStatus(queue, p.id, "deleted")
      [] p.stage = "failed" /\ p.by = "job" -> WithStatus(queue, p.id, "error")
      [] p.stage = "failed" /\ p.by = "now" -> WithStatus(queue, p.id, "pending")
      [] p.stage = "failed" /\ p.by = "bulk" -> queue

(* What is left of the request that ran p: delete-now returns; bulk goes on,
   unless writing 'deleted' for a row that is gone breaks the notifications
   foreign key (SQLite) and ends the loop. *)
Returned(p) ==
    \/ p.by = "job" /\ req' = req
    \/ p.by = "now" /\ req' = [req EXCEPT ![p.who] = IdleReq]
    \/ p.by = "bulk" /\ req' = req
    \/ /\ p.by = "bulk"
       /\ p.stage = "passed"
       /\ \A r \in queue : r.id # p.id
       /\ req' = [req EXCEPT ![p.who] = IdleReq]

PipeFinish(p) ==
    /\ p \in pipes
    /\ p.stage \in {"passed", "failed"}
    /\ queue' = Outcome(p)
    /\ pipes' = pipes \ {p}
    /\ Returned(p)
    /\ UNCHANGED <<nextId, now, served, media, dryRun, up, job>>

(* The status write raises: the row keeps the status it had. *)
PipeWriteFails(p) ==
    /\ "dbwrite" \in Faults
    /\ p \in pipes
    /\ p.stage \in {"passed", "failed"}
    /\ pipes' = pipes \ {p}
    /\ req' = IF p.by = "job" THEN req ELSE [req EXCEPT ![p.who] = IdleReq]
    /\ UNCHANGED <<queue, nextId, now, served, media, dryRun, up, job>>

-----------------------------------------------------------------------------
(* The process. *)

Crash ==
    /\ "crash" \in Faults
    /\ up
    /\ up' = FALSE
    /\ job' = IdleJob
    /\ pipes' = {}
    /\ req' = [h \in Requests |-> IdleReq]
    /\ UNCHANGED <<queue, nextId, now, served, media, dryRun>>

(* Mutation: startup without _recover_stale_deletions. *)
RestartUnrecovered ==
    /\ ~up
    /\ up' = TRUE
    /\ UNCHANGED <<queue, nextId, now, served, media, dryRun, job, pipes, req>>

(* Startup runs _recover_stale_deletions before anything is served. *)
Restart ==
    /\ ~up
    /\ up' = TRUE
    /\ queue' = ResetDeleting(queue)
    /\ UNCHANGED <<nextId, now, served, media, dryRun, job, pipes, req>>

(* With several workers, each one's startup resets every 'deleting' row. *)
OtherWorkerStarts ==
    /\ "workers" \in Features
    /\ up
    /\ queue' = ResetDeleting(queue)
    /\ queue' # queue
    /\ UNCHANGED <<nextId, now, served, media, dryRun, up, job, pipes, req>>

-----------------------------------------------------------------------------
World ==
    \/ Tick \/ SetDryRun
    \/ \E i \in Items : Watch(i) \/ Enqueue(i) \/ ScanAdvance(i)
    \/ \E r \in queue : RefreshDates(r) \/ RemoveRow(r) \/ Scrobble(r)
    \/ \E s \in Servers : DropPending(s)
    \/ PurgeDeleted \/ CleanupRetention
    \/ OtherWorkerStarts

JobStep ==
    \/ JobStart \/ JobSelect \/ JobWriteWatchState \/ JobRefreshed
    \/ JobBeginExecute \/ JobEnd
    \/ \E s \in Servers : JobRefresh(s)
    \/ \E b \in job.batch : JobRescue(b) \/ JobClaim(b) \/ JobSkip(b)

PipeStep(p) == PipeMedia(p) \/ PipeRest(p) \/ PipeFinish(p)

ReqStep(h) ==
    \/ DeleteNowClaim(h)
    \/ \E b \in req[h].todo : BulkNext(h, b)
    \/ BulkEnd(h)
    \/ \E p \in PipesOf(h) : DeleteNowLoad(p) \/ PipeStep(p)

JobPipeStep == \E p \in JobPipes : PipeStep(p)

Start(h) ==
    \/ \E r \in queue : DeleteNow(h, r)
    \/ \E rows \in SUBSET queue : BulkDelete(h, rows)

Fault ==
    \/ JobAbort \/ JobTimeout \/ Crash
    \/ \E p \in pipes : PipeWriteFails(p)

Next ==
    \/ World
    \/ JobStep \/ JobPipeStep
    \/ \E h \in Requests : Start(h) \/ ReqStep(h)
    \/ Fault
    \/ Restart

Spec == Init /\ [][Next]_vars

(* The scheduler starts the job at every interval, the event loop runs every
   task that is ready, and the container's restart policy restarts it. *)
Fairness ==
    /\ WF_vars(JobStep)
    /\ WF_vars(JobPipeStep)
    /\ \A h \in Requests : WF_vars(ReqStep(h))
    /\ WF_vars(Restart)

FairSpec == Spec /\ Fairness

-----------------------------------------------------------------------------
(* Properties. *)

(* Every variable keeps its shape; the two UNIQUE keys of media_queue, id and
   emby_id, identify a row, and no id is ever handed out twice. *)
TypeOK ==
    /\ queue \subseteq Row
    /\ nextId \in 1 .. MaxRowId + 1
    /\ now \in Time
    /\ served \in [Items -> Time]
    /\ media \subseteq Items
    /\ dryRun \in BOOLEAN
    /\ up \in BOOLEAN
    /\ job \in Job
    /\ pipes \subseteq Pipe
    /\ req \in [Requests -> Req]
    /\ \A r \in queue : r.id < nextId
    /\ \A r, q \in queue : r.id = q.id \/ r.item = q.item => r = q

(* At most one of the deletion job and the delete-now handlers runs the
   pipeline for a row (_claim_pending, delete_now). *)
ClaimsExclusive ==
    \A p, q \in pipes : p.id = q.id /\ "bulk" \notin {p.by, q.by} => p = q

(* The claim (pending -> deleting) ensures it as long as nothing else writes
   the status column of a claimed row: the Plex webhook and the startup of
   another worker do (claim_for_deletion, update_queue_status). *)
ClaimExclusive == Features \cap {"scrobble", "workers"} = {} => ClaimsExclusive

(* A row is 'deleting' only while someone is deleting it: no failure of a
   pipeline, crash or row removal leaves it in a state the job never selects
   again (_delete_one, delete_now, reset_stale_deleting).  The hard timeout
   and a failed status write are the exceptions. *)
DeletingHasOwner ==
    Faults \cap {"timeout", "dbwrite"} = {} /\ up =>
      \A r \in queue : r.status = "deleting" =>
         \E p \in pipes : p.id = r.id /\ p.by # "bulk"

(* The rescue guard: the job runs no pipeline for an item that was played
   after it was queued and before the run started, whatever the scan wrote
   in between (_refresh_watch_state_before_deletion,
   _rescue_watched_since_queued). *)
RescueGuarantee ==
    \A p \in JobPipes : p.item \in Direct => job.seen[p.item] <= p.detected

(* The media behind a row marked 'deleted' has left the media server.  A
   consolidated row is the documented exception (its library item may not be
   found). *)
DeletedRowsAreGone ==
    \A r \in queue : r.status = "deleted" /\ r.item \notin Consolidated
                        => r.item \notin media

(* The same without the bulk endpoint, which marks rows in dry runs too, and
   with one media server: delete-now asks the server with id "0". *)
DeletedIsGone ==
    "bulk" \notin Features /\ Servers = {DefaultServer} => DeletedRowsAreGone

Edges == {<<"pending", "deleting">>, <<"deleting", "deleted">>,
          <<"deleting", "error">>, <<"deleting", "pending">>}

(* A row moves only along the edges of its life cycle: 'deleted' and 'error'
   are final, although every status write after a claim is unconditional. *)
LifeCycle ==
    [][Features = {} =>
        \A r \in queue : \A q \in queue' :
          r.id = q.id /\ r.status # q.status => <<r.status, q.status>> \in Edges]_vars

IsDeleting(id) == \E r \in queue : r.id = id /\ r.status = "deleting"
IsDue(id) == \E r \in queue : r.id = id /\ r.status = "pending" /\ r.due <= now

(* Every claimed row is released in the end, by its pipeline or by the reset
   at the next startup. *)
DeletingResolves == \A id \in RowIds : IsDeleting(id) ~> ~IsDeleting(id)

(* Once dry-run is off for good and the process has stopped crashing, a due
   row does not stay due: the job deletes it, rescues it, or reports an error. *)
DueIsProcessed ==
    <>[](~dryRun /\ up) => \A id \in RowIds : IsDue(id) ~> ~IsDue(id)

-----------------------------------------------------------------------------
(* What the invariants above rest on, in inductive form. *)

(* A copy of a row, or a pipeline started on one, names an id that was handed
   out, and while the row exists both describe the same media. *)
Agrees(b) ==
    /\ b.id < nextId
    /\ \A r \in queue : r.id = b.id => r.item = b.item /\ r.detected = b.detected

RefsAgree ==
    /\ \A p \in pipes : Agrees(p)
    /\ \A b \in job.batch : Agrees(b)
    /\ \A h \in Requests : \A b \in req[h].todo : Agrees(b)

(* Nothing runs in a process that is down; bulk work needs the endpoint. *)
Grounded ==
    /\ ~up => pipes = {} /\ job.pc = "idle" /\ \A h \in Requests : req[h].pc = "idle"
    /\ (\E p \in pipes : p.by = "bulk") \/ (\E h \in Requests : req[h].pc = "bulk")
         => "bulk" \in Features

(* While a claiming pipeline runs, its row is gone or still 'deleting'; only
   a bulk request may have marked it deleted meanwhile. *)
ClaimHolds ==
    Features \cap {"scrobble", "workers"} = {} =>
      \A p \in pipes : p.by # "bulk" =>
        \A r \in queue : r.id = p.id =>
          r.status = "deleting" \/ (r.status = "deleted" /\ "bulk" \in Features)

ClaimInv == RefsAgree /\ Grounded /\ ClaimHolds /\ ClaimExclusive

(* A pipeline that got past MediaServerStep removed the media. *)
GoneInv ==
    \A p \in pipes : p.stage \in {"rest", "passed"} /\ p.item \notin Consolidated /\ Reaches(p)
                        => p.item \notin media

(* The evidence of the rescue guard on its way from the activity log to the
   claim: refreshed rows carry at least the play date known at the start, and
   what is left to execute was not played after it was queued. *)
RescueInv ==
    /\ \A i \in Items : served[i] <= now
    /\ job.pc # "idle" => \A i \in Items : job.seen[i] <= served[i]
    /\ job.pc # "execute" \/ job.dry => JobPipes = {}
    /\ \A b \in job.batch :
         /\ job.pc = "refresh" /\ b.item \in Direct /\ ServerOf[b.item] \notin job.servers
              => job.seen[b.item] <= b.played
         /\ job.pc \in {"rescue", "execute"} /\ b.item \in Direct
              => job.seen[b.item] <= b.played
         /\ job.pc = "execute" => b.played <= b.detected
=============================================================================
