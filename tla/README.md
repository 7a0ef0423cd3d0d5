# Hygie in TLA+

Hygie watches Emby, Jellyfin and Plex libraries, queues media nobody watches,
announces it, and after a grace period deletes it from the media server, from
Radarr or Sonarr, Seerr and qBittorrent.  A deletion cannot be undone, and the
program decides it from data that several asynchronous tasks, HTTP handlers,
webhooks and sometimes several worker processes read and write around `await`
points.  This directory holds TLA+ models of those parts, the TLC
configurations that check them on small instances, and proofs checked by TLAPS.

## 1. The system: inventory

| Part | State it keeps | Operations | Talks to |
|---|---|---|---|
| Deletion job (`deletion.py`) | rows of `media_queue` (status pending, deleting, deleted, error), the deletion lock | select due rows, refresh watch state, rescue, claim, run the pipeline, write the outcome, one-hour timeout, ignored cleanup | table, media servers, pipeline |
| Deletion endpoints (`routers/media.py`) | the same rows | delete-now, bulk delete or ignore, remove, purge | table, pipeline |
| Pipeline (`deletion_pipeline.py`, `deletion_helpers.py`) | a context per execution; the `now` marker in `notifications` | nine steps: size, torrent hash, Discord, server resolve, media server, arr, Seerr, qBittorrent, stats | every external service |
| Job lock (`_lock_backend.py`) | asyncio locks or MariaDB advisory locks, one name per job | try-acquire, release, is-locked | every job |
| Scanner (`scanner/`) | snapshots of library, ignored and queued sets, accumulators for consolidation | scan all or one library, purge stale rows, re-evaluate a library | media servers, Sonarr, table, rules |
| Rules (`rules/`) | none | evaluate conditions and expert rules, compute the grace | scanner |
| Notifications (`notifications.py`, `discord_client.py`) | markers in `notifications` | reminders at configured thresholds | Discord, table |
| Circuit breaker (`arr_clients/circuit_breaker.py`) | failures, state, opening time per service | call, on success, on failure | arr clients |
| Caches (`db/media_servers.py`, `db/settings_store.py`) | a process-local copy of a table | read through, invalidate on save | everything |
| Database (`db/`) | the file or server, the schema version | statements, migrations, logs | everything |
| Authentication (`auth.py`, `routers/auth.py`) | refresh tokens, login counters | setup, login, refresh, logout, change password | users |
| Ignored list, Plex webhook (`routers/`) | `ignored_media`; the play date of a row | add, remove, requeue; scrobble | queue |
| Collection and overlays | posters and collection members on the server | synchronise | media servers |
| Process (`main.py`, `scheduler.py`) | the APScheduler jobs | startup recovery, scheduling, shutdown | everything |

What is hard here:

* **Concurrency around `await`.**  The scan, the job, the endpoints and the
  webhook interleave on one event loop; each copies rows, awaits a network
  call and writes back by primary key.
* **Failure in the middle.**  A pipeline has nine steps over five services; a
  step can raise, the job can be cancelled by its timeout, the process can be
  killed.  Nothing is undone; retries meet half-done work.
* **Stale data.**  Play dates, the ignored list, the server configuration and
  settings are read once and used minutes later.
* **Several workers.**  With MariaDB, Hygie may run several processes that share
  the table and not their memory.

What makes each part correct: a row is deleted by one actor at a time; nothing
watched since it was queued is deleted; `deleted` means gone; no row is
stranded; a lock has one holder and is given back; a breaker that opens lets
probes through again; a cached setting is old for a bounded time at most; a
reminder is sent once; only what a rule selects, and never what is ignored,
enters the queue; a deletion goes to the right server and does what it reports;
a session survives the rotation of its token; an interrupted upgrade loses
nothing.

## 2. The modules

| Module | Models | Instance for TLC | Theorems |
|---|---|---|---|
| `DeletionQueue` | the life of a queue row: job, endpoints, scan, webhook, crashes | `MCDeletionQueue` | `DeletionQueueProofs`, `DeletionQueueOutcome` |
| `DeletionPipeline` | the nine steps of one deletion and what they leave behind | `MCDeletionPipeline` | `DeletionPipelineProofs` |
| `PipelineContract` | the pipeline as its callers see it (abstract) | through `DeletionPipeline!Contract` | in `DeletionPipelineProofs` |
| `JobLock` | the advisory lock of several workers | `MCJobLock` | `JobLockProofs` |
| `CircuitBreaker` | breaker and retry loops | `MCRecovery` | `RecoveryProofs` |
| `LeavingSoon` | the "leaving soon" collection and its posters | `MCRecovery` | |
| `ConfigCache` | the settings cache of one worker among several | `MCRecovery` | `RecoveryProofs` |
| `DbPool` | pooled MariaDB connections with their snapshots | `MCRecovery` | `RecoveryProofs` |
| `RuleEngine` | conditions, expert rules, Seerr filters, the purge's test, copied rules (operators) | `MCRules` | `RuleProofs` |
| `ArrLookup` | arr servers, search by path, the target of a deletion (operators) | `MCRules` | `RuleProofs` |
| `Eligibility` | what one scan makes of one medium, groups, the Plex mirror (operators) | `MCRules` | `RuleProofs` |
| `Scanner` | scans, reminders, re-evaluation and requests on the queue | `MCServices` | `ScannerProofs` |
| `PagedScan` | reading a library page by page while it changes | `MCServices` | `ScannerProofs` |
| `Auth` | refresh tokens and the attempt limiter | `MCServices` | `AuthProofs` |
| `ArrDelete` | deletions in Radarr and Sonarr over a lossy connection | `MCServices` | `ScannerProofs` |
| `Upgrade` | lock, safety backup, `init_db` and the migrations | `MCServices` | `RecoveryProofs` |

`MCRules` asks the pure operators one question per step.  `MCServices` extends
it and five components, `MCRecovery` extends four components.  They share no
state in the code; a behaviour looks at one of them, its
`focus`, and the others stay put, so that the state space is the sum of theirs
and not the product.

`DeletionQueue` uses a pipeline of four stages (media, rest, passed, failed);
`PipelineContract` states that pipeline alone, and `DeletionPipeline` is shown
to implement it.  `JobLock` justifies that `DeletionQueue` has a single `job`.

### DeletionQueue

| State | Code |
|---|---|
| `queue`, `nextId` | `media_queue` and its AUTOINCREMENT key; of a row, the id, item, status, detection date, deletion date and last play |
| `served` | the latest play date the media server has on record for an item; `media`: what it still has |
| `job` | the local variables of `run_deletion`: `pc` is the function it is in, `batch` the rows it selected, `seen` the play dates on record when it started (history, for `RescueGuarantee`) |
| `pipes` | calls of `_delete_media` in flight, from the job, delete-now or bulk |
| `req` | the local variables of the handlers of `routers/media.py` |

One action is what happens between two `await`s that other tasks can see:
`JobSelect` the SELECT, `JobRefresh` one server's activity log, `JobRescue` one
row's rescue, `JobClaim` and `JobSkip` the claim and its failure, `PipeFinish`
the status written after the pipeline.  `World` holds the actors that are not
scheduled by the program: the clock, plays, the scan's effect on the table
(`Enqueue`, `RefreshDates`, `ScanAdvance`), removals, purges, the webhook
(`Scrobble`), a second worker (`OtherWorkerStarts`).  Choices worth knowing:

* A statement is atomic.  Status writes after the claim go by id alone, as in
  the code, whatever became of the row.
* A row's age and grace are reduced to `detected` and `due`; the 90 days of
  activity the job asks for are longer than the modelled time.  A scan may write
  any play date up to the one on record.
* `Enqueue` does not ask whether the item is still on the server: the scan's
  listing may be old.
* In a dry run the job only logs, and bulk writes `deleted` all the same.
* The row's server: only the job puts `_server_id` on a row (`Reaches`); the
  other callers reach the server with id "0", the constant `DefaultServer`.
* Deleting what is already gone may succeed in this module; the exact answer
  (a 404 is a failure) is in `DeletionPipeline`.
* `Features` switches parts of a deployment on (bulk, the Plex webhook, several
  workers), `Faults` the failures (crash, timeout, server, dbwrite).

### DeletionPipeline and PipelineContract

Rows are fixed and each worker (a batch slot or a handler) runs one execution
at a time: `Start`, then one action per step of `build_default_pipeline()`,
then `Return`, which writes the caller's outcome.  `DiscordNotifyStep` is two
actions, the message (`Notify`) and the marker (`NotifyMark`), because a crash
may come between them; `QbitStep` handles one torrent per action.  The services
are sets: `onServer`, `inArr`, `requests`, `handled`; `strangers` are the rows
whose id names another item on the server with id "0".  What a failed or
repeated request does is spelled out per step: a lost answer of the media server
is a deletion that happened and a 404 on the repetition; a consolidated row
whose library item is not found is no failure; an arr entry that was never
stored is searched by path and its absence is no failure.  A crash and the
restart's `reset_stale_deleting` are one action here.  `HashesOf` gives the
torrents a lookup may return: for a single film or episode, the first download
in the history of the film or the whole series.

The refinement maps `onServer` to `media` and each execution to
`Seen(pipe[w])`: the row, whether it reaches the right server, and one of four
stages.

### JobLock

`owner` is the server's table of advisory locks, keyed by connection; `idle`,
`conn` and `kept` say where each connection is (pool, a coroutine's local
variable, `self._conn`); `held` is `self._held`.  `Ask` is the moment MariaDB
executes GET_LOCK and `Enter` the moment its answer is stored, so that two runs
of one worker can both be past the `locked()` check.  `ConnLost` ends a session;
`severed` is a history variable that remembers whose lock went with it.  The
asyncio lock is left out: nothing can happen between its check and acquisition.

### CircuitBreaker

`cooling` is what is left of `recovery_timeout` since `_last_failure_ts`, so
that no clock value is needed: `Open` is `status = "open"` with time left, and
half-open is the same without.  A call is `CallClosed` or `CallHalfOpen`, then
perhaps `Locked`, then `Retry` (the loops of `with_retry` and `http_retry`) and
one of `Succeed`, `Fail`, `Cancel`.  An open breaker's rejection changes nothing
and is therefore no action.  Waiting callers get the lock in any order, which
includes asyncio's.

### Scanner, PagedScan, Eligibility, ArrLookup, RuleEngine

A scan is split along its two difficulties.  `Eligibility` is what the code of
`_collect_eligible_items`, `_evaluate_expert_rules_fallback`, `_consolidation.py`
and `_plex_scanner.py` computes from what it has read: `WatchOf` merges the data
of all users with the activity log, `EvaluateItem` and `ExpertFallback` are the
two evaluators, `Consolidate` the groups, `ScanPlexItem` the mirror.  It rests
on `RuleEngine` (operators of `rules/engine.py`, `legacy_conditions.py` and
`models.py`, and `_build_expert_conditions` of `db/schema.py`) and `ArrLookup`
(caches by path, longest search first, and the server of a deletion).  Days are
numbers, paths are sequences of folders, unknown is `None`.  Caches and lists of
conditions are sequences in the order the code appends to them, so that the last
write of a key and the first match of a loop are visible; a group is the set of
its places in the list of eligible media, because a file may be listed twice.

`PagedScan` is how the data gets there: `shelf` and `played` are the server,
`logFrom`, `userFrom` and `itemFrom` the `StartIndex` of the three listings,
each page one step, with plays, insertions and removals in between.  A failing
page of the log is passed over, one of a user's data aborts the scan, one of
the items ends the listing: the three functions differ, and so do the actions.

`Scanner` is the queue around it: `run` is the scan that holds `_scan_lock`
(server, libraries, purge, reminders) with the snapshot it has taken, `task` the
scan of each of its libraries (load, collect, move a date, reset its markers,
insert, mark in advance, announce the detection), `sender` the two callers of
`_send_pending_notifications`, the scan and the deletion job, with the rows and
thresholds each has read, `check` a re-evaluation of a library.  The two senders
hold different locks, so either notifies whenever it likes.  A message may fail,
be delivered with its answer lost and be posted again, or be delivered and never
marked; each transaction of a moved date may fail on its own.  A row carries its
history for the properties: the messages told of each threshold since it has its
date (`told`), the thresholds that lost an answer or a mark (`lost`), that both
senders had in hand (`crossed`) or that the detection stood for (`covered`), and
why a marker may be false (`slack`).  The items in `grouped` stand for seasons
and series, which are inserted after a look at the queued ids only.  The
requests (ignore, requeue, remove, add, edit and delete a library) interleave at
every await.  Media, conditions and grace are reduced to two library settings.

### Auth, ArrDelete, LeavingSoon, Upgrade, ConfigCache, DbPool

* `Auth`: `tokens` are the rows of `refresh_tokens` with their expiry, `cookie`
  what the browser holds, `request` the endpoint each tab is in and the step it
  has reached; an answer may be lost, a statement may fail (`errors`).
  `attempts` are the rows of the limiter, which inserts, counts and releases in
  separate statements, in the table or, when the database fails, in memory.
* `ArrDelete`: `job` is the function inside `with_retry`: list, delete, find the
  episodes, stop monitoring.  `Breaks` is an httpx error: retried from the start,
  or False when the attempts are used up or the error is none of `_RETRYABLE`.
  Sonarr itself unlinks files and imports monitored ones again.
* `LeavingSoon`: `due` is the queue, each of `Syncs` a call of
  `sync_emby_collection` with what it has selected; nothing serialises them.
  Search, users and creation are requests of their own: `boxes` are the
  collections of the name on the server, `first` the one a search lists.
* `Upgrade`: `boot` is where each process is; `applied` the ids in
  `schema_migrations`, `missing` the columns still to come.  Migrations that move
  data (legacy server, encryption, expert rules, intervals) are actions of their
  own, with the crash between effect and mark; the others are `OtherMigration`.
  m011 looks for a rule and inserts it in two steps.  `backupsOn` is the setting;
  a process that is up goes on making backups, by the job or on request, which
  prune the files of all (`RunBackup`).
* `ConfigCache`: settings are numbered in the order of their commits, so that
  the age of an answer is visible; `DbPool`: `commits` numbers the database, and
  a snapshot is such a number.

## 3. What the runs show

| Run | Question | Bounds |
|---|---|---|
| `queue_claims` | Is the claim exclusive, is no row orphaned, does `deleted` mean gone, do statuses follow the life cycle? With crashes and an unreachable server | 1 film, job and 1 handler, 2 row ids (a row can be removed and enqueued again), time 0..3 |
| `queue_rescue` | Does the job spare what was played before it started, when the scan and other writers interfere and writes fail? | 2 items on 2 servers, one of them (Plex) without activity log, 2 row ids, time 0..2 |
| `queue_live` | Is every claim released and every due row processed? Is the claim exclusive beside bulk deletes? | 1 consolidated row, job and 1 handler, time 0..2 |
| `pipe_faults` | Does the arr entry outlive the media, is an item counted once, and do the nine steps implement the contract, under every fault at once? | 1 film, 2 workers, 3 executions, all callers |
| `pipe_peace` | Are all torrents handled, and is one message sent, over failed and repeated attempts? | an episode and a series that share a download, 2 workers, 3 executions each |
| `job_lock` | One run at a time, no stranded lock, no lost connection, every lock comes back? | 2 workers, 3 runs, 2 connections each, 1 lost session |
| `recovery` | Breaker: one probe, fast failure, only a probe closes, recovery. Collection: does it converge on what is due? Cache: is an answer older than the time to live? Pool: does a block read through an old snapshot? | 3 callers, threshold 2, 2 attempts, recovery 2 ticks; 1 film, 2 synchronisations, 1 move of the queue, 1 fault, 1 restart; 2 readers, time to live 2 of 4 ticks, 2 writes; 2 coroutines, 2 connections, 2 commits |
| `services` | Do all evaluators agree, does only what a rule selects enter the queue, with the right arr entry, as a whole group? Is what is ignored left alone, a reminder sent once, a listing cut short noticed? Are bursts bounded, sessions kept, deletions real, upgrades safe? | 2 users, 1 medium, 2 arr servers, up to 2 conditions or rules; 1 film in 2 libraries, 1 threshold, a film or a season, 2 rows, 1 upset (a request that edits, a play, or a message delivered and not marked); 3 media on pages of one, 1 insertion, removal and play; 2 tabs, 3 requests, 3 tokens; 2 files, 2 deletions, 2 losses, 1 import; 2 processes, 2 kills, 1 later backup |

Why these bounds are enough to be interesting: every property has a mutation of
a mapped definition (the operators commented "Mutation") that TLC finds under
the same configuration, and every disjunct of every next-state relation fires.
`MaxRowId` 2 is what a stale id needs: the row it named is gone and another has
taken its item.  Two workers are what a race needs, three executions what a
retry after a retry needs.  `MaxCount` only stops the failure counter where it
no longer matters: above the threshold it cannot change the state, and the few
calls still in flight cannot bring it below before a success resets it.
`MaxAttempts`, `MaxRowId` and `MaxTime` bound the length of a behaviour.  Pages
of one item put a border between any two media.  One attempt allowed makes the
second request of two tabs the one too many.  Two files, one of them in the
season, tell a season from its series.  Two losses exhaust the two retries, two
kills let a start be repeated after each of its halves.

The properties of these runs in brief.  `RuleMeaning`: the detour through the
rule engine keeps the meaning of a library's conditions, and a copied rule never
queues more (joined by AND, fields that the library knows, dates known).  `QueuedWithReason`: a recent play by
anybody keeps a medium out whichever evaluator looks at it, and so does being
ignored; Plex mirrors only what is pending elsewhere.  `RightArrEntry`: id and
server of a row belong together, and a deletion never guesses.
`PurgeMatchesRules`: the purge removes only from libraries where no rule could
queue.  `GroupsAreWhole`: a group enters complete and as late as its last
episode.  `WarnedOnce`: one reminder per row, threshold and date, with the scan
and the job notifying side by side: two where both had the row in hand, more
only where an answer or a marker was lost.  `MarkIsTrue`: a marker stands for a
message about the date the row has, unless `slack` says what went wrong.
`StaysIgnored`: a scan does not put back what was ignored since it read the
queue; seasons and series, a media in two libraries scanned side by side and
media ignored through the API while not queued are excepted, in the formula.
`ScanSeesAll`: a scan that ends normally has missed no play and no medium that
stayed, as long as nothing left the listing under it.  `BurstIsBounded`,
`SessionIsKept`, `DeletionIsReal`, `NoDuplicateColumn`, `UpgradeIsSafe`,
`StaleAtMostTtl`, `ReadsAreFresh` and `MembershipConverges` are as their
comments say.

`CHECK_DEADLOCK FALSE` is set where the bounds let the system stop: when all
executions of the pipeline are used up, in `job_lock` where nothing but the
jobs themselves happens, and in `recovery` and `services` where a component's
requests or its clock come to their bound.

### Disagreements between code and documentation

Four runs end in a violation; each checks what a comment or the changelog says.

* `bulk_dry_run`: a bulk delete in dry-run marks rows `deleted` (changelog:
  "Dry-run no longer marks items as deleted").
* `timeout_orphans`: after the one-hour timeout, rows stay `deleting` and no
  later run takes them up ("so the next scheduled run can start fresh").
* `wrong_server`: delete-now and bulk always address the server with id "0".
* `foreign_torrent`: deleting one episode handles the first torrent of its
  series' history, which may be another episode's.

The same models show more, which no run is spent on; the invariants state their
exceptions accordingly:

* A Plex scrobble sets a claimed row back to `pending`, and it can be claimed
  again (`Scrobble`; `ClaimExclusive` excludes webhooks).
* The startup of a respawned worker resets rows a live worker is deleting
  (`OtherWorkerStarts`; `ClaimExclusive` excludes several workers).
* A bulk delete runs the pipeline without a claim, beside the job's.
* A failing write of the outcome is only logged, and the row stays `deleting`
  until the next start (`DeletingHasOwner` excludes failing writes).
* A message that Discord refuses is marked as sent, and is never sent again.
* The scan and the deletion job may both read a threshold before either has
  marked it, and both send it (`crossed`).  A message whose answer is lost is
  posted again by `http_retry`, and by the next call when the last answer or the
  marker was lost.
* The markers of a new row are committed before the message on its detection and
  stay without it: when it fails, nobody hears of these thresholds.
* The date of a row is moved in one transaction and its markers reset in another,
  whose exception is swallowed: the markers of the old date may stay and silence
  the new one.  A reset that follows an announcement of the new date makes it
  repeat, and a message under way while the date moves is marked for the new one.
* In dry-run, `send_notification` holds a reminder back and reports it as sent:
  the threshold is marked and not announced once dry-run is off.
* A re-evaluation deletes the rows it found by their ids, on a verdict that may be
  stale by then and whatever the row's status has become.
* Overlapping synchronisations, or one whose search is refused, create a second
  collection of the same name (`boxes`); a later one works on what its search
  lists first, and what the other holds stays there (`MembershipConverges` is
  about the former).
* A play between the activity log and the deletion is not seen
  (`RescueGuarantee` speaks of plays on record when the run started).
* A crash between the Discord message and its marker, or a timed-out post,
  announces a deletion twice (`AnnouncedOnceInPeace` excludes them).
* A deletion interrupted after the media server step meets a 404 when it is
  retried and ends in `error`; the later services are never cleaned up.
* After a lost session, two runs of one worker may share a lock object, whose
  single `_conn` then forgets one connection (`severed`).
* A removal from the server's listing while users' data is read shifts the
  pages, and a watched medium may be missed (`Steady` excepts it); nothing on a
  page tells the scan.
* Two libraries that list the same medium both insert it and announce it, and
  each scan of either moves the row's date and resets its markers.
* A consolidated row is looked up among the queued ids only, never among the
  ignored, so that the next scan queues an ignored season or series again
  (`StaysIgnored` excepts `grouped`); series of two Sonarr servers with one number
  are one group.
* On Plex, an episode of Emby that carries its series' TMDB id stands for the
  whole series.
* A row written by POST /api/ignored has no TMDB id, and ignoring is two
  transactions there; a requeued row has no path and no arr id.
* A copied rule queues more than its library when conditions are joined by OR.
  The copy drops a condition on a field it does not know, which the library
  counts as false (ARCHITECTURE.md:110, "unknown fields evaluate to False"), and
  it takes `added_days_ago`, which never holds in the library.
* `_consolidate_and_insert` compares the number of eligible episodes with the
  number of files Sonarr has: a file that the scan lists twice makes up for one
  that is missing.
* `sonarr_delete_series` returns True without unmonitoring when its answer is
  lost and the retry finds no file left; `sonarr_delete_season` looks up the
  episodes by files it has just deleted, so that Sonarr may fetch them again;
  `radarr_delete` reports False when its lost answer was a success.
* A refresh whose answer is lost logs the user out after the grace period; a
  refresh in flight may overwrite the cookie of a password change.
* A reader in flight stores the old settings after a save's invalidation, for up
  to the time to live; the cache of media servers answers with a copy of any age
  when the database fails.
* `init_db` seeds `scan_interval_minutes` before m012 looks, so that intervals in
  hours are dropped; m011 leaves no mark when there is no library.
* The backup made before an upgrade is one of the `hygie_*` files: a crash loop,
  which makes one at every start, the periodic job and backups on request prune
  it after `retention` of them, a user may delete it, and there is none when
  backups are off.  `SnapshotKept` says so.
* POST /migrate-from-libraries runs the copy of m011 without the lock of a start,
  with the lookup and the insert on separate connections: two requests at once may
  double the rules, which db/schema.py:554 calls idempotent.
* The banner of a row that was deleted is never taken off its poster.

## 4. Fairness

* `DeletionQueue`: weak fairness of the job's steps (APScheduler starts
  `run_deletion` at every interval and asyncio runs what is ready), of pipelines
  and of each handler (their HTTP calls have timeouts), and of the restart
  (docker-compose says `restart: unless-stopped`).  None of plays, requests,
  scans or crashes.  `DueIsProcessed` assumes that dry-run stays off and the
  process up from some point on, `DeletingResolves` nothing of the kind.
* `JobLock`: weak fairness of each coroutine's next step, strong fairness of
  taking a connection from the pool, which serves in order.  Not of starting a
  job, of crashes or of lost sessions.
* `LeavingSoon`: each synchronisation goes on, and the timer starts new ones
  (weak).  Faults are bounded, and `MembershipConverges` assumes that the queue
  comes to rest.
* The other modules state safety only and assume none.
* `CircuitBreaker`: time passes, calls are made again and answered (weak), and
  not every caller is cancelled each time it has the lock or an answer
  (strong); the service's state is free, `Recovers` assumes it returns for good.

## 5. What is proved

Every theorem holds for all values of the constants: any number of rows, workers,
tabs, libraries, pages, retries and kills, and any set of faults.  What a proof
assumes of the constants is either the module's `ASSUME` or the definition
`<Module>Constants` that the theorem names; each only gives the constants their
shape (a count is a number, a null value differs from the values it stands
beside, the tabs and the media are finitely many), and TLC evaluates each on the
run of its module (`ConstantsFit` in `MCServices`).

The proofs of a component follow one pattern: an inductive invariant, of which
the property is a conjunct or a consequence, one lemma per action or group of
actions, and a last step that puts them together.  All strengthenings were
checked with TLC on the configuration of the run before they were proved.

### The deletion

* `TypeCorrect` (DeletionQueueProofs): `TypeOK` is inductive.  It includes that
  id and item are keys of the table and that ids are never reused.
* `ClaimIsExclusive`: `ClaimExclusive` is not inductive by itself.  `ClaimHolds`
  adds that while a claiming pipeline runs, its row is gone or still `deleting`,
  so that a second claim finds nothing to take; that needs `RefsAgree`, that a
  copied id still names the same item, and `Grounded`, that nothing runs in a
  dead process.  Together they are `ClaimInv`.
* `DeletingIsOwned`: the converse, each `deleting` row has its pipeline.
* `RescueHolds` (DeletionQueueOutcome): `RescueInv` follows the evidence of a
  play on its way: what was on record at the start is never above what the
  server serves now, a refreshed row of the batch carries at least as much, and
  a row left for execution was not played after it was queued.  The claim copies
  the row from the batch, which gives `RescueGuarantee`; that nothing but the
  batch feeds the job's pipelines needs the clause on `JobPipes`.
* `DeletedMeansGone`: `GoneInv` says that a pipeline past the media server step
  removed the media of the server it reached; a row becomes `deleted` only at
  the end of such a pipeline (`DeletedOrigin`, from `ClaimInv`'s agreement of
  ids), and media never comes back.
* `StatusMovesOnEdges`: an action property, from `ClaimHolds`: the pipeline that
  writes an outcome by id alone finds the row `deleting`.
* `PipelineTypes`, `ServerBeforeArr`, `StatsCountOnce`
  (DeletionPipelineProofs): `ArrAfterServer` and `CountedOnce` follow from
  `PipelineInv`: at most one execution of a plain row is ever past the media
  server, it removed the media, and nothing was counted before it (`OnePasses`).
* `PipelineMeetsContract`: the refinement, step by step; most steps stutter,
  `MediaServer` is the contract's `Server`, `Arr` and `Stats` are its `Rest`.
* `OneAnnouncement`: without a crash between message and marker, a lost answer,
  a failing write or a bulk delete, a row is announced once however often its
  deletion is repeated.  `PeaceInv`: a row has one execution, which keeps it
  `deleting` (`Claimed`), and a message that was sent has its marker or the
  execution that is about to write it (`Announced`).
* `NoTorrentLeft`: `TorrentInv` follows the torrents from the lookup, which finds
  enough as long as arr has the entry (`Looked`), over the arr step, after which
  only the execution that did it knows them (`Followed`), to the outcome: what
  arr still has was not reported deleted (`Kept`).

### Locks, pools and recovery

* `OneRunAtATime`, `NothingStranded` (JobLockProofs): each connection is in one
  place (`OnePlace`), whoever is granted or running owns its lock (`Owned`), and
  a dead session owns nothing (`Live`); two owners of one lock would be one
  connection in two places.
* `PoolNeverDrains`: a connection that is not in the pool has a coroutine that
  still needs it, through refusals, releases and crashes; `severed` is the
  exception found by the model.
* `ProbesAreSingle`, `ClosedCountsBelow`, `OpenFailsFast` (RecoveryProofs): a
  prober has the lock, and the three outcomes keep the count in step with the
  state (`BreakerInv`).  `ProbeCloses`: only the success of a probe closes an
  open breaker, from `ProbeLocked` and the effect of each outcome.
* `StaleAtMostOneTtl`: `CacheInv` adds to the property that the stamp of an
  entry, and of a value a reader still holds, is not later than the moment that
  value was replaced.
* `BlocksReadFresh`: `PoolInv` adds that a connection in the pool has no snapshot
  and that a connection serves one block at a time.
* `ColumnsAddedOnce`: no migration adds a column that is there.  `ExclusionInv`:
  on SQLite one process runs, on MariaDB whoever works has the lock
  (`LockedWork`), so what a process looked up is still so when it alters.
* `StartsAreSafe`: whatever is killed, an upgrade loses no connection to the
  media server, doubles no rules, and leaves a backup of what was there, when
  backups are on and no dump failed, as long as the interrupted starts and the
  later backups are together fewer than the files kept.  `SafeInv` adds that
  migrations run in order (`InOrder`), that migration 9 has promoted the old
  connection before migration 10 removes it (`Promoted`), that m011 looks and
  inserts while it has the start to itself, so that a rule it found missing still
  is (`RulesAwaited`), and counts backups against kills and later backups (`FewBackups`), so that
  pruning spares the first one (`SnapshotFirst`).

### The scan and its surroundings

* `WarnedOnlyOnce`, `MarksAreTrue`, `IgnoredIsKept` (ScannerProofs) share
  `ScanInv`: the types, whose turn it is between the scan and its libraries
  (`Turns`), and that a row queued again is another row (`RowIds`).  `Effects`
  reduces the actions to what they do to the rows (they thin out, one is born,
  one is rewritten: its date moves, its markers are reset or set in advance, its
  detection is heard; or a sender reads, says, notes or stops), and each property
  is proved over these effects.  `WarnInv` (`Warned`) bounds, per row and
  threshold, the messages told together with those the two senders have in hand;
  `TruthInv` (`Honest`): what is marked or about to be marked was told, unless
  the row's history says why not; `AloneInv` (`Fresh`): in a scan of one library,
  a medium that the snapshot has neither queued nor ignored is still neither,
  groups excepted.
* `PagesMissNothing`: `PagedInv` says that what was there at the start has been
  read or stands behind what has been read (`StopsAhead`, `PlaysAhead`,
  `ItemsAhead`): insertions push it down, never up.  `Page` and `InsertAt` have
  lemmas of their own.
* `SuccessIsTrue`: an action property on the answer of a deletion.  `ArrInv`:
  what was asked for is in the list or has come since, after the deletion it is
  gone or has come since (`Accounted`), and without a loss nothing was deleted
  before the list (`FirstTry`).
* `PurgedCannotReturn` (RuleProofs): in a library from which the purge takes the
  rows nobody requested, no expert rule can queue such a row, for any rules whose
  groups and conditions are joined by AND.  `PurgeAgreesWithRules` is its
  instance on the questions of `MCRules`.
* `RecentPlayKeepsOut`: when the conditions of the library and every rule that
  queues ask for more than n days without a play, a medium that any user has
  played within n days is queued by neither evaluator; `PlexFollowsOthers`: the
  mirror queues for a rule or for the same pending content, and never what is
  ignored.  `NothingWithoutReason` is their instance on `MCRules`.  They hold for
  rules and conditions of any number, users and items of any kind.
* `ConditionsKeepTheirMeaning`: `_evaluate_conditions`, which converts each
  condition into a group and asks the rule engine, is the conjunction or
  disjunction of what the conditions say (`Says`), for lists of any length.
  `GroupMeans` proves it for one condition, field by field, and an invalid one
  says nothing (`InvalidSaysNothing`).
* `CopyNarrows`: if the rule that `_build_expert_conditions` makes of a library
  holds, so do the conditions of the library and its Seerr filter; `CopyHolds`
  says which conditions the flat list of the copy has, `CopyMeans` what each is
  worth.  It assumes what `RuleMeaning` assumes, and of the watch state that
  "never" means no plays; `ScannedCopyNarrows` replaces that by the scan itself,
  for which `WatchIsSane` shows it.  `MeaningIsKept` is the instance on `MCRules`.
* `EntryNamesTheFile`: the arr id and URL of a queued row are those of an entry
  that a server which answered has, and that has the file of the row.
  `FilmInCache` and `FileInCache` say where each entry of the two caches comes
  from, over all servers, films, series and files; `ResolvedIsReal` follows an id
  from there, or from asking the servers again, into the row.
  `DeletionTarget`: the server `radarr_delete_by_id` goes to is in use, and it is
  the one the row names, the only one, or one that has the file.
  `EntryIsRight` is their instance.
* `RowSpeaksForAll`: the row of a group has the largest grace and number of
  plays and the latest play of its members, which are finitely many
  (`GreatestIs`, `LeastIs`).  `GroupIsWhole`: the eligible episodes of a group
  are mapped to their files; no two have the same, and their number is that of
  the files, so every file is reached.  It assumes that the scan lists no file
  twice and that Sonarr numbers the seasons, without which the code's comparison
  of numbers says less; that the entries are those of the cache
  (`SeriesFromCache`) is proved of what the scan makes in `SeasonGoesAsAWhole`.
  `GroupsStayWhole` is the instance on `MCRules`.

The library's induction theorems take an operator as a parameter, which the
installed provers cannot instantiate.  What `FlattenSeq` computes is proved all
the same: its recursive function exists (`JoinExists`), and a least index at
which it would hold something else contradicts its definition (`LeastOf`,
`InFlat`, `Flattening`).  The general theorems of `RuleProofs` speak of any
servers, rules, items and lists; their instances speak of the questions that
`MCRules` asks, and show that these satisfy every hypothesis that the properties
do not state themselves.
* `SessionSurvives` (AuthProofs): `SessionInv` is `ended`, or `Session`: a
  retired token is one that a request was sent with, a new token one that no
  request was sent with (`Unseen`), and the browser holds a token with its full
  time or is about to be answered with one (`Held`).
* `BurstsAreBounded`: `Backed` says that in the window a store has a row for each
  request it let in, and another for each that has recorded itself there without
  being let in by it.  Recording comes before counting, so the request that is
  about to be let in has a row of its own and the count includes it; a release
  takes away a row that is its own.

### Only model-checked

* Liveness (`DeletingResolves`, `DueIsProcessed`, `LockComesBack`, `Recovers`,
  `MembershipConverges`) is out of the prover's reach.
* `LeavingSoon` has no safety property: the collection may be wrong at any time
  and has to become right.

Every invariant and action property of a passing run is stated by a theorem.
The hazards without a property (a scrobble on a row that is being deleted, a
respawned worker's startup, an outcome that could not be written, a message
whose refusal is not looked at) are what the code does; section 3 reports them,
and a property would have to be agreed on before it can be proved.

## 6. Not modelled, and why

* **qBittorrent client**: what it does to the torrents is an answer in
  `DeletionPipeline!QbitStep`.  The session cookie it keeps, renewed under a
  lock when it is refused, and the fallback from the proxy to the direct
  address only decide whether that answer is a failure.
* **Plex banners** (`plex_collection.py`): `LeavingSoon` models the collection
  and posters of Emby and Jellyfin.  Plex has no collection; its banners are
  noted in the table `plex_overlays`, compared with the pending rows at each
  synchronisation.  Drawing a banner is image processing.
* **The cache of media servers**: read through like the settings, but with a
  fallback to a copy of any age when the database fails, so that no bound on
  staleness holds; the finding is in section 3.
* **DDL and dialect translation** (`db/schema.py`, `db/engine.py`): `Upgrade`
  models the order of the steps and what a crash leaves; the SQL text itself is
  the databases' business.
* **The row-by-row copy tools and restoring a backup**: one-off programs run by
  hand while the service is stopped.
* **The storage service, log retention**: snapshots of one process that feed no
  deletion.
* **The first setup**: it creates the only user, once, and its attempts are
  recorded like those of a login but never given back.
* **Read-only routers, message layout, the Vue interface**: they change no state.
