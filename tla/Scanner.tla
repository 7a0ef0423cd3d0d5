------------------------------- MODULE Scanner -------------------------------
(***************************************************************************)
(* The life of the queue around a scan: run_scan, run_scan_library and     *)
(* run_scan_libraries (scanner/_orchestrator.py), the steps of one library *)
(* (scanner/_emby_scanner.py, scanner/_queue_entry.py), the threshold      *)
(* notifications sent after a scan and before a deletion (notifications.py)*)
(* the re-evaluation of a library, and the requests that change the queue, *)
(* the ignored list and the libraries meanwhile (routers/ignored.py,       *)
(* routers/media.py, routers/libraries.py).                                *)
(*                                                                         *)
(* One media server.  Every library lists the same items, as a library and *)
(* its clone do.  Time is in days; a threshold fires when delete_at is at  *)
(* most that many days away.  Which media a condition selects is the       *)
(* matter of module Eligibility: here it is "any" or "unwatched".  An item *)
(* may stand for a season or a series, whose episodes are all eligible when*)
(* it matches: the queue knows it under an id of its own.                  *)
(***************************************************************************)
EXTENDS Integers, FiniteSets, FiniteSetsExt

CONSTANTS
    Items, Libraries, Absent,
    Thresholds,     \* discord_notif_thresholds
    Configs,        \* what a library may be set to: [on, grace, cond, seerr]
    Requested,      \* the items that have a requester in Seerr
    DefaultGrace,   \* of an ignored media whose library is not known: 7
    LastDay,        \* bound: the clock
    MaxRows,        \* bound: rows ever inserted
    MaxUpsets       \* bound: requests on libraries and the ignored list, plays,
                    \* and messages that are delivered and not marked

ScannerConstants ==
    /\ Thresholds \subseteq Nat
    /\ \A c \in Configs : c.on \in BOOLEAN /\ c.grace \in Nat \ {0} /\ c.seerr \in BOOLEAN
    /\ DefaultGrace \in Nat
    /\ IsFiniteSet(Libraries)

VARIABLES
    row,      \* media_queue and its notifications, by emby_id, and the
              \* history of each row (NewRow)
    skipped,  \* ignored_media: Absent or [lib, expire]
    libs,     \* libraries: Absent or one of Configs
    day, rows, upsets,
    watched,  \* the media server: the items somebody has played
    run,      \* the scan that holds _scan_lock
    task,     \* the scan of each library
    sender,   \* the calls of _send_pending_notifications
    check,    \* a reevaluate_library_queue under way: the rows it will delete
    grouped,  \* the items that stand for a season or a series
    api       \* whether clients of the API ignore media that are not queued,
              \* which the web interface never does

scanVars == <<row, skipped, libs, day, rows, upsets, watched, run, task, sender, check, grouped, api>>

Senders == {"scan", "deletion"}
Idle    == [at |-> "idle"]
Pending(i) == row[i] # Absent /\ row[i].status = "pending"
Watches(cond, w) == cond = "any" \/ ~w
Untold == [t \in Thresholds |-> 0]

(* The history of a row: told counts, up to 3, the messages on a threshold
   delivered since the row has its date; lost has the thresholds whose message
   or mark was lost, so that it may be repeated; crossed those that both senders
   had in hand at once; covered those that a message on its detection stood for.
   slack says why a mark may be false: the date has "moved" and the marks are
   still there, it moved while a message was under way that will be marked
   "late", or the marks of its detection are there and its message "unheard". *)
NewRow(lib, date, seen) ==
    [id |-> rows + 1, lib |-> lib, detected |-> day, delete |-> date,
     status |-> "pending", seen |-> seen, marks |-> {},
     told |-> Untold, lost |-> {}, crossed |-> {}, covered |-> {}, slack |-> {}]

Upset == upsets < MaxUpsets /\ upsets' = upsets + 1

(* The libraries are alike: it does not matter which of them is there first. *)
ScanInit ==
    /\ row = [i \in Items |-> Absent]
    /\ skipped = [i \in Items |-> Absent]
    /\ \E c \in Configs :
          libs = [l \in Libraries |-> IF l = CHOOSE m \in Libraries : TRUE THEN c ELSE Absent]
    /\ day = 0 /\ rows = 0 /\ upsets = 0
    /\ watched = {}
    /\ run = Idle
    /\ task = [l \in Libraries |-> Idle]
    /\ sender = [s \in Senders |-> Idle]
    /\ check = {}
    /\ grouped \in SUBSET Items
    /\ api \in BOOLEAN

-----------------------------------------------------------------------------
(* The scan. *)

MayScan == run.at = "idle"

(* run_scan: `if _scan_lock.locked(): return`. *)
RunScan ==
    /\ MayScan
    /\ run' = [at |-> "server", full |-> TRUE, todo |-> {}, libs |-> {}, queued |-> {}, ignored |-> {}]
    /\ UNCHANGED <<row, skipped, libs, day, rows, upsets, watched, task, sender, check, grouped, api>>

(* run_scan_library and run_scan_libraries. *)
RunScanLibraries(ls) ==
    /\ MayScan
    /\ run' = [at |-> "libs", full |-> FALSE, todo |-> ls, libs |-> {}, queued |-> {}, ignored |-> {}]
    /\ UNCHANGED <<row, skipped, libs, day, rows, upsets, watched, task, sender, check, grouped, api>>

(* _build_shared_caches: a Seerr that does not answer costs its cache only; a
   Radarr or Sonarr that does not answer ends a full scan in error, while
   run_scan_libraries goes on with what follows a scan. *)
CachesFail ==
    /\ \/ run.at = "server" /\ run' = Idle
       \/ /\ run.at = "libs" /\ ~run.full /\ \A l \in Libraries : task[l].at = "idle"
          /\ run' = [run EXCEPT !.todo = {}]
    /\ UNCHANGED <<row, skipped, libs, day, rows, upsets, watched, task, sender, check, grouped, api>>

Queued  == {i \in Items : row[i] # Absent}
Ignored == {i \in Items : skipped[i] # Absent}

(* Mutation: rows that are not pending are left out of the snapshot. *)
SnapshotPending == [run EXCEPT !.queued = {i \in Items : Pending(i)}, !.ignored = Ignored]

(* get_queued_and_ignored_ids *)
Snapshot == [run EXCEPT !.queued = Queued, !.ignored = Ignored]

Started(l) == [at |-> "data", lib |-> libs[l], left |-> Items, eligible |-> {}]

(* _scan_single_server: no user means no scan, and the run goes on. *)
ScanServer(users) ==
    /\ run.at = "server"
    /\ LET enabled == {l \in Libraries : libs[l] # Absent /\ libs[l].on}
       IN IF users /\ enabled # {}
          THEN /\ run' = [Snapshot EXCEPT !.at = "libs", !.todo = enabled, !.libs = enabled]
               /\ task' = [l \in Libraries |-> IF l \in enabled THEN Started(l) ELSE Idle]
          ELSE run' = [run EXCEPT !.at = "purge"] /\ UNCHANGED task
    /\ UNCHANGED <<row, skipped, libs, day, rows, upsets, watched, sender, check, grouped, api>>

(* _do_scan_one_library, one library after the other. *)
ScanOne(l, users) ==
    /\ run.at = "libs" /\ ~run.full
    /\ l \in run.todo /\ \A m \in Libraries : task[m].at = "idle"
    /\ IF libs[l] # Absent /\ libs[l].on /\ users
       THEN run' = Snapshot /\ task' = [task EXCEPT ![l] = Started(l)]
       ELSE run' = [run EXCEPT !.todo = @ \ {l}] /\ UNCHANGED task
    /\ UNCHANGED <<row, skipped, libs, day, rows, upsets, watched, sender, check, grouped, api>>

(* _load_scan_caches, then the direct update of last_played from the activity
   log, which may be empty because it could not be read. *)
LoadData(l, log) ==
    /\ task[l].at = "data"
    /\ task' = [task EXCEPT ![l] = [at |-> "collect", lib |-> @.lib, left |-> @.left,
                                    eligible |-> {}, seen |-> watched]]
    /\ row' = [i \in Items |-> IF Pending(i) /\ i \in log \ grouped
                               THEN [row[i] EXCEPT !.seen = TRUE] ELSE row[i]]
    /\ UNCHANGED <<skipped, libs, day, rows, upsets, watched, run, sender, check, grouped, api>>

(* MediaServerUnreachable: the library is not scanned. *)
LoadFails(l) ==
    /\ task[l].at = "data"
    /\ task' = [task EXCEPT ![l] = Idle]
    /\ run' = [run EXCEPT !.todo = @ \ {l}]
    /\ UNCHANGED <<row, skipped, libs, day, rows, upsets, watched, sender, check, grouped, api>>

(* _evaluate_item: the condition, then the queue, the ignored list and the
   filter on requesters.  A media that is queued has its row read, to have its
   date computed anew.  A season or a series is made of episodes: neither the
   queue nor the ignored list has them. *)
Passes(l, i) ==
    /\ i \notin grouped => i \notin run.queued \cup run.ignored
    /\ task[l].lib.seerr => i \in Requested

Rereads(i) == i \notin grouped /\ i \in run.queued /\ Pending(i)

Collect(l, i) ==
    /\ task[l].at = "collect" /\ i \in task[l].left
    /\ LET t       == [task[l] EXCEPT !.left = @ \ {i}]
           matches == Watches(t.lib.cond, i \in t.seen)
           date    == row[i].detected + t.lib.grace
       IN task' = [task EXCEPT ![l] =
            IF matches /\ Rereads(i)
            THEN [at |-> "move", lib |-> t.lib, left |-> t.left, eligible |-> t.eligible,
                  seen |-> t.seen, item |-> i, id |-> row[i].id, date |-> date,
                  changed |-> date # row[i].delete]
            ELSE IF matches /\ Passes(l, i)
            THEN [t EXCEPT !.eligible = @ \cup {[item |-> i, delete |-> day + t.lib.grace]}]
            ELSE t]
    /\ UNCHANGED <<row, skipped, libs, day, rows, upsets, watched, run, sender, check, grouped, api>>

GoOn(l, at) ==
    task' = [task EXCEPT ![l] = [at |-> at, lib |-> @.lib, left |-> @.left,
                                 eligible |-> @.eligible, seen |-> @.seen]]

(* The message of s is about the row of i. *)
InHand(s, i) ==
    sender[s].at \in {"send", "mark"} /\ row[i] # Absent /\ <<i, row[i].id>> \in sender[s].rows

Late(i) == IF \E s \in Senders : InHand(s, i) THEN {"late"} ELSE {}

Moved(i, date) ==
    [row[i] EXCEPT !.delete = date, !.told = Untold, !.lost = {}, !.covered = {},
                   !.slack = @ \cup {"moved"} \cup Late(i)]

(* _update_delete_at_if_pending: update_queue_item_dates, by the id of the row
   that was read. *)
MoveDate(l) ==
    /\ task[l].at = "move"
    /\ LET t == task[l]
           i == t.item
           m == IF t.date = row[i].delete THEN row[i] ELSE Moved(i, t.date)
       IN /\ row' = IF row[i] # Absent /\ row[i].id = t.id
                    THEN [row EXCEPT ![i] = [m EXCEPT !.seen = i \in t.seen]] ELSE row
          /\ IF t.changed THEN task' = [task EXCEPT ![l].at = "reset"] ELSE GoOn(l, "collect")
    /\ UNCHANGED <<skipped, libs, day, rows, upsets, watched, run, sender, check, grouped, api>>

(* Mutation: the marks stay when the date moves. *)
ClearedKeepsMarks(i) == [row[i] EXCEPT !.slack = @ \cap Late(i)]

(* The thresholds fire again, those announced for this very date included. *)
Cleared(i) ==
    [row[i] EXCEPT !.marks = {},
                   !.lost  = @ \cup {t \in row[i].marks : row[i].told[t] > 0},
                   !.slack = @ \cap Late(i)]

(* Then, where the date had moved by more than an hour, DELETE FROM
   notifications. *)
ResetMarks(l) ==
    /\ task[l].at = "reset"
    /\ LET i == task[l].item
       IN row' = IF row[i] # Absent /\ row[i].id = task[l].id
                 THEN [row EXCEPT ![i] = Cleared(i)] ELSE row
    /\ GoOn(l, "collect")
    /\ UNCHANGED <<skipped, libs, day, rows, upsets, watched, run, sender, check, grouped, api>>

(* Either statement fails: the error is logged, and the scan goes on. *)
RescheduleFails(l) ==
    /\ task[l].at \in {"move", "reset"}
    /\ GoOn(l, "collect")
    /\ UNCHANGED <<row, skipped, libs, day, rows, upsets, watched, run, sender, check, grouped, api>>

(* _apply_consolidated_watch_updates: the rows of seasons and series learn what
   was played, unless that fails. *)
RefreshGroups(l, ok) ==
    /\ task[l].at = "collect" /\ task[l].left = {}
    /\ GoOn(l, "insert")
    /\ row' = [i \in Items |-> IF ok /\ Pending(i) /\ i \in grouped \cap task[l].seen
                               THEN [row[i] EXCEPT !.seen = TRUE] ELSE row[i]]
    /\ UNCHANGED <<skipped, libs, day, rows, upsets, watched, run, sender, check, grouped, api>>

(* _consolidate_and_insert: a season or a series that is queued is passed over. *)
PassOver(l, e) ==
    /\ task[l].at = "insert" /\ e \in task[l].eligible
    /\ e.item \in grouped \cap run.queued
    /\ task' = [task EXCEPT ![l].eligible = @ \ {e}]
    /\ UNCHANGED <<row, skipped, libs, day, rows, upsets, watched, run, sender, check, grouped, api>>

(* _insert_queue_entry: INSERT OR IGNORE, and the id joins queued_ids. *)
InsertEntry(l, e) ==
    /\ task[l].at = "insert" /\ e \in task[l].eligible
    /\ e.item \notin grouped \cap run.queued
    /\ run' = [run EXCEPT !.queued = @ \cup {e.item}]
    /\ task' = [task EXCEPT ![l] = [at |-> "premark", lib |-> @.lib, left |-> {}, seen |-> @.seen,
                                    eligible |-> @.eligible \ {e}, entry |-> e, id |-> 0]]
    /\ IF row[e.item] = Absent
       THEN /\ rows < MaxRows
            /\ row' = [row EXCEPT ![e.item] = NewRow(l, e.delete, e.item \in task[l].seen)]
            /\ rows' = rows + 1
       ELSE UNCHANGED <<row, rows>>
    /\ UNCHANGED <<skipped, libs, day, upsets, watched, sender, check, grouped, api>>

(* _pre_mark_applicable_thresholds, by the id of the media; an error is only
   logged.  The marks are there before the message that they stand for. *)
PreMark(l, ok) ==
    /\ task[l].at = "premark"
    /\ LET e   == task[l].entry
           i   == e.item
           met == {t \in Thresholds : e.delete <= day + t}
       IN /\ row' = IF ~ok \/ row[i] = Absent \/ met \subseteq row[i].marks THEN row
                    ELSE [row EXCEPT ![i].marks = @ \cup met, ![i].slack = @ \cup {"unheard"}]
          /\ task' = [task EXCEPT ![l].at = "detect",
                                  ![l].id = IF row[i] = Absent THEN 0 ELSE row[i].id]
    /\ UNCHANGED <<skipped, libs, day, rows, upsets, watched, run, sender, check, grouped, api>>

(* The "detected" message, sent or not; its own mark is not among the thresholds.
   It says the date of the entry. *)
Detect(l, sent) ==
    /\ task[l].at = "detect"
    /\ LET e == task[l].entry
           i == e.item
       IN row' = IF sent /\ row[i] # Absent /\ row[i].id = task[l].id /\ row[i].delete = e.delete
                 THEN [row EXCEPT ![i].covered = @ \cup row[i].marks, ![i].slack = @ \ {"unheard"}]
                 ELSE row
    /\ GoOn(l, "insert")
    /\ UNCHANGED <<skipped, libs, day, rows, upsets, watched, run, sender, check, grouped, api>>

LibraryDone(l) ==
    /\ task[l].at = "insert" /\ task[l].eligible = {}
    /\ task' = [task EXCEPT ![l] = Idle]
    /\ run' = [run EXCEPT !.todo = @ \ {l}]
    /\ UNCHANGED <<row, skipped, libs, day, rows, upsets, watched, sender, check, grouped, api>>

(* The libraries are done with: the scan notifies. *)
Notify ==
    /\ run' = [run EXCEPT !.at = "notify", !.libs = {}, !.queued = {}, !.ignored = {}]
    /\ sender' = [sender EXCEPT !["scan"] = [at |-> "read", left |-> Thresholds]]

(* After the libraries of run_scan: _purge_stale_seerr_items.  The collection
   is synchronised (module LeavingSoon), then the scan notifies. *)
Purge ==
    /\ \/ run.at = "purge"
       \/ run.at = "libs" /\ run.full /\ run.todo = {}
    /\ row' = [i \in Items |->
                 IF /\ Pending(i) /\ i \notin Requested
                    /\ row[i].lib # Absent /\ libs[row[i].lib] # Absent /\ libs[row[i].lib].on
                    /\ libs[row[i].lib].seerr
                 THEN Absent ELSE row[i]]
    /\ Notify
    /\ UNCHANGED <<skipped, libs, day, rows, upsets, watched, task, check, grouped, api>>

LibrariesDone ==
    /\ run.at = "libs" /\ ~run.full /\ run.todo = {}
    /\ Notify
    /\ UNCHANGED <<row, skipped, libs, day, rows, upsets, watched, task, check, grouped, api>>

(* A call of _send_pending_notifications ends here, and what it has sent may not
   be marked. *)
CutShort(s) ==
    /\ IF sender[s].at = "mark" THEN Upset ELSE upsets' = upsets
    /\ row' = [i \in Items |-> IF sender[s].at = "mark" /\ InHand(s, i)
                               THEN [row[i] EXCEPT !.lost = @ \cup {sender[s].t}] ELSE row[i]]

(* asyncio.wait_for of run_scan: two hours have gone by. *)
ScanTimesOut ==
    /\ run.at # "idle" /\ run.full
    /\ CutShort("scan")
    /\ run' = Idle
    /\ task' = [l \in Libraries |-> Idle]
    /\ sender' = [sender EXCEPT !["scan"] = Idle]
    /\ UNCHANGED <<skipped, libs, day, rows, watched, check, grouped, api>>

-----------------------------------------------------------------------------
(* _send_pending_notifications *)

(* The job has a lock of its own (module JobLock): it notifies whether a scan
   runs or not. *)
DeletionNotifies ==
    /\ sender["deletion"].at = "idle"
    /\ sender' = [sender EXCEPT !["deletion"] = [at |-> "read", left |-> Thresholds]]
    /\ UNCHANGED <<row, skipped, libs, day, rows, upsets, watched, run, task, check, grouped, api>>

(* _process_queue runs under a cap of one hour. *)
JobTimesOut ==
    /\ sender["deletion"].at # "idle"
    /\ CutShort("deletion")
    /\ sender' = [sender EXCEPT !["deletion"] = Idle]
    /\ UNCHANGED <<skipped, libs, day, rows, watched, run, task, check, grouped, api>>

(* Mutation: what was announced before is not looked up. *)
UnmarkedNoLookup(t) == {i \in Items : Pending(i) /\ row[i].delete <= day + t}

Unmarked(t) == {i \in Items : Pending(i) /\ row[i].delete <= day + t /\ t \notin row[i].marks}

Crosses(s, t, i) ==
    i \in Unmarked(t) /\ \E z \in Senders \ {s} : InHand(z, i) /\ sender[z].t = t

ReadThreshold(s, t) ==
    /\ sender[s].at = "read" /\ t \in sender[s].left
    /\ sender' = [sender EXCEPT ![s] =
                    IF Unmarked(t) = {} THEN [at |-> "read", left |-> @.left \ {t}]
                    ELSE [at |-> "send", left |-> @.left \ {t}, t |-> t,
                          rows |-> {<<i, row[i].id>> : i \in Unmarked(t)}]]
    /\ row' = [i \in Items |-> IF Crosses(s, t, i)
                               THEN [row[i] EXCEPT !.crossed = @ \cup {t}] ELSE row[i]]
    /\ UNCHANGED <<skipped, libs, day, rows, upsets, watched, run, task, check, grouped, api>>

Told(i, t) == [row[i] EXCEPT !.told[t] = IF @ < 3 THEN @ + 1 ELSE 3]

SendThreshold(s) ==
    /\ sender[s].at = "send"
    /\ sender' = [sender EXCEPT ![s].at = "mark"]
    /\ row' = [i \in Items |-> IF InHand(s, i) THEN Told(i, sender[s].t) ELSE row[i]]
    /\ UNCHANGED <<skipped, libs, day, rows, upsets, watched, run, task, check, grouped, api>>

(* http_retry posts again a message whose answer did not come, and that was
   delivered all the same. *)
Unanswered(s) ==
    /\ Upset
    /\ sender[s].at = "send"
    /\ row' = [i \in Items |-> IF InHand(s, i)
                               THEN [Told(i, sender[s].t) EXCEPT !.lost = @ \cup {sender[s].t}]
                               ELSE row[i]]
    /\ UNCHANGED <<skipped, libs, day, rows, watched, run, task, sender, check, grouped, api>>

(* Nothing was delivered, or no answer came to the last attempt: the message is
   tried again by the next call. *)
SendFails(s) ==
    /\ sender[s].at = "send"
    /\ sender' = [sender EXCEPT ![s] = [at |-> "read", left |-> @.left]]
    /\ UNCHANGED <<row, skipped, libs, day, rows, upsets, watched, run, task, check, grouped, api>>

(* The rows of a message are marked in one transaction. *)
MarkThreshold(s) ==
    /\ sender[s].at = "mark"
    /\ row' = [i \in Items |-> IF InHand(s, i)
                               THEN [row[i] EXCEPT !.marks = @ \cup {sender[s].t}] ELSE row[i]]
    /\ sender' = [sender EXCEPT ![s] = [at |-> "read", left |-> @.left]]
    /\ UNCHANGED <<skipped, libs, day, rows, upsets, watched, run, task, check, grouped, api>>

(* The transaction fails, as it does on SQLite when one of the rows is gone (the
   foreign key of notifications), and the call ends. *)
MarkFails(s) ==
    /\ sender[s].at = "mark"
    /\ CutShort(s)
    /\ sender' = [sender EXCEPT ![s] = [at |-> "read", left |-> {}]]
    /\ UNCHANGED <<skipped, libs, day, rows, watched, run, task, check, grouped, api>>

NotifyEnds(s) ==
    /\ sender[s].at = "read" /\ sender[s].left = {}
    /\ sender' = [sender EXCEPT ![s] = Idle]
    /\ run' = IF s = "scan" THEN Idle ELSE run
    /\ UNCHANGED <<row, skipped, libs, day, rows, upsets, watched, task, check, grouped, api>>

-----------------------------------------------------------------------------
(* Requests. *)

(* ignore_one and the "ignore" of bulk: the whole row moves over. *)
IgnoreQueued(i) ==
    /\ row[i] # Absent
    /\ skipped' = [skipped EXCEPT ![i] = [lib |-> row[i].lib, expire |-> day + 1]]
    /\ row' = [row EXCEPT ![i] = Absent]
    /\ UNCHANGED <<libs, day, rows, upsets, watched, run, task, sender, check, grouped, api>>

(* POST /api/ignored with the id of a media; what it stores besides is what
   the request brings. *)
AddIgnored(i) ==
    /\ Upset /\ (row[i] # Absent \/ api)
    /\ skipped' = [skipped EXCEPT ![i] = [lib |-> Absent, expire |-> day + 1]]
    /\ row' = [row EXCEPT ![i] = Absent]
    /\ UNCHANGED <<libs, day, rows, watched, run, task, sender, check, grouped, api>>

RemoveIgnored(i) ==
    /\ Upset /\ skipped[i] # Absent
    /\ skipped' = [skipped EXCEPT ![i] = Absent]
    /\ UNCHANGED <<row, libs, day, rows, watched, run, task, sender, check, grouped, api>>

RequeueIgnored(i) ==
    /\ Upset /\ skipped[i] # Absent
    /\ skipped' = [skipped EXCEPT ![i] = Absent]
    /\ IF row[i] # Absent THEN UNCHANGED <<row, rows>>
       ELSE /\ rows < MaxRows
            /\ LET lib   == skipped[i].lib
                   grace == IF lib # Absent /\ libs[lib] # Absent THEN libs[lib].grace ELSE DefaultGrace
               IN row' = [row EXCEPT ![i] = NewRow(lib, day + grace, FALSE)]
            /\ rows' = rows + 1
    /\ UNCHANGED <<libs, day, watched, run, task, sender, check, grouped, api>>

(* run_ignored_cleanup, the ignored list and the rows already deleted. *)
Cleanup ==
    /\ \E i \in Items : \/ skipped[i] # Absent /\ skipped[i].expire <= day
                        \/ row[i] # Absent /\ row[i].status = "deleted" /\ row[i].detected < day
    /\ skipped' = [i \in Items |-> IF skipped[i] # Absent /\ skipped[i].expire <= day
                                   THEN Absent ELSE skipped[i]]
    /\ row' = [i \in Items |-> IF row[i] # Absent /\ row[i].status = "deleted" /\ row[i].detected < day
                               THEN Absent ELSE row[i]]
    /\ UNCHANGED <<libs, day, rows, upsets, watched, run, task, sender, check, grouped, api>>

(* create_library, update_library, clone_library and delete_library (Absent). *)
SaveLibrary(l, c) ==
    /\ Upset /\ c # libs[l]
    /\ libs' = [libs EXCEPT ![l] = c]
    /\ UNCHANGED <<row, skipped, day, rows, watched, run, task, sender, check, grouped, api>>

(* reevaluate_library_queue, asked for by a request or by the update of the
   conditions: the library, its pending rows, and the users and their data, which
   know nothing of seasons and series.  Without users or data it ends there. *)
CheckReads(l) ==
    /\ check = {} /\ libs[l] # Absent
    /\ check' = {<<i, row[i].id>> : i \in
                   {j \in Items : /\ Pending(j) /\ row[j].lib = l
                                  /\ ~Watches(libs[l].cond, row[j].seen \/ j \in watched \ grouped)}}
    /\ check' # {}
    /\ UNCHANGED <<row, skipped, libs, day, rows, upsets, watched, run, task, sender, grouped, api>>

(* _delete_queue_item, by the id of the row, whatever has become of it. *)
CheckRow(p) ==
    /\ p \in check
    /\ row' = [i \in Items |-> IF row[i] # Absent /\ p = <<i, row[i].id>> THEN Absent ELSE row[i]]
    /\ check' = check \ {p}
    /\ UNCHANGED <<skipped, libs, day, rows, upsets, watched, run, task, sender, grouped, api>>

(* The deletion job (modules DeletionQueue and DeletionPipeline). *)
TakeAway(i) ==
    /\ Pending(i) /\ row[i].delete <= day
    /\ row' = [row EXCEPT ![i].status = "deleted"]
    /\ UNCHANGED <<skipped, libs, day, rows, upsets, watched, run, task, sender, check, grouped, api>>

Play(i) ==
    /\ Upset /\ i \notin watched
    /\ watched' = watched \cup {i}
    /\ UNCHANGED <<row, skipped, libs, day, rows, run, task, sender, check, grouped, api>>

Tick ==
    /\ day < LastDay
    /\ day' = day + 1
    /\ UNCHANGED <<row, skipped, libs, rows, upsets, watched, run, task, sender, check, grouped, api>>

Steps ==
    \/ \E u \in BOOLEAN : ScanServer(u)
    \/ \E l \in Libraries, u \in BOOLEAN : ScanOne(l, u)
    \/ \E l \in Libraries, log \in {{}, watched} : LoadData(l, log)
    \/ \E l \in Libraries, i \in Items : Collect(l, i)
    \/ \E l \in Libraries : MoveDate(l) \/ ResetMarks(l) \/ RescheduleFails(l)
    \/ \E l \in Libraries, ok \in BOOLEAN : RefreshGroups(l, ok) \/ PreMark(l, ok) \/ Detect(l, ok)
    \/ \E l \in Libraries : /\ task[l].at = "insert"
                            /\ \E e \in task[l].eligible : PassOver(l, e) \/ InsertEntry(l, e)
    \/ \E l \in Libraries : LibraryDone(l)
    \/ LibrariesDone \/ Purge

Sends ==
    \E s \in Senders : \/ \E t \in Thresholds : ReadThreshold(s, t)
                       \/ SendThreshold(s) \/ Unanswered(s) \/ SendFails(s)
                       \/ MarkThreshold(s) \/ MarkFails(s) \/ NotifyEnds(s)

Requests ==
    \/ \E i \in Items : IgnoreQueued(i) \/ AddIgnored(i)
    \/ \E i \in Items : RemoveIgnored(i) \/ RequeueIgnored(i) \/ TakeAway(i) \/ Play(i)
    \/ \E l \in Libraries, c \in Configs \cup {Absent} : SaveLibrary(l, c)
    \/ Cleanup \/ Tick

ScanNext ==
    \/ RunScan \/ \E ls \in SUBSET Libraries \ {{}} : RunScanLibraries(ls)
    \/ CachesFail \/ (\E l \in Libraries : LoadFails(l)) \/ ScanTimesOut
    \/ Steps
    \/ DeletionNotifies \/ JobTimesOut \/ Sends
    \/ Requests
    \/ \E l \in Libraries : CheckReads(l)
    \/ \E p \in check : CheckRow(p)

ScanSpec == ScanInit /\ [][ScanNext]_scanVars

-----------------------------------------------------------------------------
(* What a user takes out of the queue and ignores is not put back by a scan,
   not even by one that had looked at the queue before (ignore_one against
   get_queued_and_ignored_ids).  There are three exceptions: seasons and series,
   which the next scan queues again (_consolidate_and_insert looks at the queued
   ids only); two libraries that list the same media and are scanned side by
   side; and media ignored through the API while they are not queued. *)
NotPutBack ==
    \A i \in Items :
        /\ row[i] = Absent /\ row'[i] # Absent
        /\ skipped[i] # Absent /\ skipped'[i] = skipped[i]
        => \/ i \in grouped \/ api
           \/ run.full /\ Cardinality(run.libs) > 1

StaysIgnored == [][NotPutBack]_scanVars

(* A threshold is announced once for a row and the date it has
   (_send_pending_notifications): twice where the scan and the job, each under
   its own lock, have the row in hand at once, and as often as may be where an
   answer of Discord or a mark was lost, to a failure or to a reset of the marks
   that came late. *)
WarnedOnce ==
    \A i \in Items, t \in Thresholds :
        row[i] # Absent /\ t \notin row[i].lost
            => row[i].told[t] <= IF t \in row[i].crossed THEN 2 ELSE 1

(* A threshold marked as announced (notifications) was announced for the date the
   row has now, or the message on the detection of the row stood for it.  Three
   things may go wrong (slack): the date moves and the marks are not, or not yet,
   reset; it moves while a message about the row is under way; the message on its
   detection, which follows its marks, is not delivered.  A message that dry_run
   holds back counts as sent: send_notification says so. *)
MarkIsTrue ==
    \A i \in Items : row[i] # Absent /\ row[i].slack = {} =>
        \A t \in row[i].marks : row[i].told[t] > 0 \/ t \in row[i].covered
=============================================================================
