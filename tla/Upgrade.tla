------------------------------- MODULE Upgrade -------------------------------
(***************************************************************************)
(* Starting the program on the database of an earlier version: the lock,   *)
(* the safety backup, init_db and the seventeen migrations (main.py,       *)
(* backup.py, db/schema.py, db/migrations.py), in several workers that may *)
(* be killed at any step, and the copy of the database to the other        *)
(* engine (tools/).  The data is reduced to what the migrations move:      *)
(* columns that are missing, the connection to the media server, the       *)
(* interval of the scans, one library and the rules made from it.          *)
(***************************************************************************)
EXTENDS Integers, Sequences, SequencesExt

CONSTANTS Engines,     \* which engines the program may have started on
          Boots,       \* the worker processes; one of them on SQLite
          NoBoot,
          Retention,   \* backup_retention_count
          MaxKills,    \* bound: processes killed
          MaxBackups   \* bound: backups that the running program makes

UpgradeConstants == Retention \in Nat \ {0} /\ NoBoot \notin Boots

VARIABLES
    engine,    \* DIALECT
    journal,     \* the table schema_migrations exists
    applied,   \* its rows
    missing,   \* columns that the migration of that number adds
    conf,      \* settings: servers, legacy (emby_url), hours, minutes, done
    library,   \* "none", "old" with conditions of v2, or "own": made in v3
    rules,     \* expert rules made from the library
    backupsOn, \* backup_enabled
    backups,   \* the files, oldest first: what was in the database
    boot,      \* where each process is
    latch,     \* who holds the migration lock
    original,  \* history: what the database was at first
    kills, later, mishap, copied   \* history

upVars == <<engine, journal, applied, missing, conf, library, rules, backupsOn, backups,
            boot, latch, original, kills, later, mishap, copied>>
data == <<engine, journal, applied, missing, conf, library, rules, backupsOn>>
history == <<original, kills, later, mishap, copied>>

LastId == 17    \* m001 .. m017
ColumnMigrations == {2, 3, 6, 8, 14, 15, 16}
Down == [at |-> "down", i |-> 0]

(* A new install, a database from before the migrations, a database of v3. *)
Databases ==
    { [journal |-> FALSE, applied |-> {}, missing |-> {}, library |-> "none",
       conf |-> [servers |-> "absent", legacy |-> FALSE, hours |-> FALSE,
                 minutes |-> "absent", done |-> FALSE]],
      [journal |-> FALSE, applied |-> {}, missing |-> ColumnMigrations, library |-> "old",
       conf |-> [servers |-> "absent", legacy |-> TRUE, hours |-> TRUE,
                 minutes |-> "absent", done |-> FALSE]],
      [journal |-> TRUE, applied |-> 1..8, missing |-> {14, 15, 16}, library |-> "old",
       conf |-> [servers |-> "empty", legacy |-> TRUE, hours |-> FALSE,
                 minutes |-> "own", done |-> FALSE]] }

UpInit ==
    /\ engine \in Engines
    /\ \E d \in Databases :
          /\ journal = d.journal /\ applied = d.applied /\ missing = d.missing
          /\ conf = d.conf /\ library = d.library /\ original = d
    /\ rules = 0 /\ backups = <<>> /\ backupsOn \in BOOLEAN
    /\ boot = [w \in Boots |-> Down]
    /\ latch = NoBoot
    /\ kills = 0 /\ later = 0 /\ mishap = FALSE /\ copied = FALSE

Stands(w, where) == boot[w].at = where
To(w, where) == boot' = [boot EXCEPT ![w].at = where]
Dies(w) == boot' = [boot EXCEPT ![w] = Down]
FreeLatch(w) == latch' = IF latch = w THEN NoBoot ELSE latch

Launch(w) ==
    /\ Stands(w, "down")
    /\ engine = "sqlite" => \A v \in Boots : Stands(v, "down")
    /\ To(w, "lock")
    /\ UNCHANGED <<data, backups, latch, history>>

(* Mutation: the lock is not waited for. *)
LockIgnored(w) ==
    /\ Stands(w, "lock") /\ To(w, "backup")
    /\ UNCHANGED <<data, backups, latch, history>>

(* migration_lock: GET_LOCK waits, and after MIGRATION_LOCK_TIMEOUT_S raises. *)
Lock(w) ==
    /\ Stands(w, "lock")
    /\ \/ engine = "sqlite" /\ To(w, "backup") /\ UNCHANGED latch
       \/ engine = "mariadb" /\ latch = NoBoot /\ latch' = w /\ To(w, "backup")
       \/ engine = "mariadb" /\ latch # NoBoot /\ UNCHANGED latch /\ Dies(w)
    /\ UNCHANGED <<data, backups, history>>

-----------------------------------------------------------------------------
Unapplied == (1..LastId) \ applied
Content == [applied |-> applied, missing |-> missing]

(* The files that are left: the newest ones. *)
Pruned(files) == IF Len(files) > Retention THEN Tail(files) ELSE files

(* Mutation: the backup is made by the process that has migrated. *)
BackupAfter(w) ==
    /\ Stands(w, "backup") /\ To(w, "init")
    /\ backups' = IF applied = 1..LastId THEN Pruned(Append(backups, Content)) ELSE backups
    /\ UNCHANGED <<data, latch, history>>

(* backup_before_migrations, run_backup: nothing when backups are turned off
   or no migration is pending; a dump that fails is removed, nothing is
   pruned, and the start goes on. *)
Backup(w) ==
    /\ Stands(w, "backup") /\ To(w, "init")
    /\ IF journal /\ backupsOn /\ Unapplied # {}
         THEN \/ backups' = Pruned(Append(backups, Content)) /\ UNCHANGED mishap
              \/ UNCHANGED backups /\ mishap' = TRUE
         ELSE UNCHANGED <<backups, mishap>>
    /\ UNCHANGED <<data, latch, original, kills, later, copied>>

(* run_backup in the running program: the job, when backups are on, or the
   request of a user, whether they are or not. *)
RunBackup(w) ==
    /\ Stands(w, "up")
    /\ later < MaxBackups /\ later' = later + 1
    /\ backups' = Pruned(Append(backups, Content))
    /\ UNCHANGED <<data, boot, latch, original, kills, mishap, copied>>

(* DEFAULT_SETTINGS where there is no value yet, and on SQLite the encryption
   of media_servers, the "[]" of the defaults included. *)
Seeded(value, default) == IF value = "absent" THEN default ELSE value
Sealed(value) == IF value = "empty" THEN "sealed" ELSE value

(* _init_db_sqlite also adds the columns that are missing. *)
InitSqlite ==
    /\ missing' = {}
    /\ conf' = [conf EXCEPT !.servers = Sealed(Seeded(@, "empty")),
                            !.minutes = Seeded(@, "default")]

InitMariadb ==
    /\ UNCHANGED missing
    /\ conf' = [conf EXCEPT !.servers = Seeded(@, "empty"),
                            !.minutes = Seeded(@, "default")]

(* init_db, then _ensure_migrations_table. *)
InitDb(w) ==
    /\ Stands(w, "init")
    /\ \/ engine = "sqlite" /\ InitSqlite
       \/ engine = "mariadb" /\ InitMariadb
    /\ journal' = TRUE
    /\ boot' = [boot EXCEPT ![w] = [at |-> "next", i |-> 1]]
    /\ UNCHANGED <<engine, applied, library, rules, backupsOn, backups, latch, history>>

-----------------------------------------------------------------------------

(* run_migrations: _is_applied, the function, _mark_applied. *)
Next17(w) ==
    /\ Stands(w, "next") /\ boot[w].i <= LastId
    /\ \/ boot[w].i \in applied /\ boot' = [boot EXCEPT ![w].i = @ + 1]
       \/ boot[w].i \notin applied /\ To(w, "run")
    /\ UNCHANGED <<data, backups, latch, history>>

Executing(w, i) == Stands(w, "run") /\ boot[w].i = i
Ran(w) == To(w, "mark")

(* Columns: table_columns, then ALTER TABLE if it is not there. *)
LookUpColumn(w) ==
    /\ Stands(w, "run") /\ boot[w].i \in ColumnMigrations
    /\ To(w, IF boot[w].i \in missing THEN "alter" ELSE "mark")
    /\ UNCHANGED <<data, backups, latch, history>>

(* A column that has appeared in between is a duplicate: the migration
   raises and the process does not start. *)
AddColumn(w) ==
    /\ Stands(w, "alter")
    /\ IF boot[w].i \in missing
         THEN missing' = missing \ {boot[w].i} /\ Ran(w) /\ UNCHANGED latch
         ELSE UNCHANGED missing /\ Dies(w) /\ FreeLatch(w)
    /\ UNCHANGED <<engine, journal, applied, conf, library, rules, backupsOn, backups,
                   history>>

(* m009: the standalone connection becomes the first server. *)
PromoteLegacy(w) ==
    /\ Executing(w, 9) /\ Ran(w)
    /\ conf' = IF conf.servers \in {"absent", "empty", "sealed"} /\ conf.legacy
                 THEN [conf EXCEPT !.servers = "legacy"] ELSE conf
    /\ UNCHANGED <<engine, journal, applied, missing, library, rules, backupsOn, backups,
                   latch, history>>

(* m010: the old keys go once media_servers has a value; the value is not
   decrypted, so an encrypted "[]" is one. *)
RemoveLegacy(w) ==
    /\ Executing(w, 10) /\ Ran(w)
    /\ conf' = IF conf.servers \notin {"absent", "empty"}
                 THEN [conf EXCEPT !.legacy = FALSE] ELSE conf
    /\ UNCHANGED <<engine, journal, applied, missing, library, rules, backupsOn, backups,
                   latch, history>>

(* Mutation: a rule of that name is not looked for. *)
RuleUnsought == TRUE

(* SELECT id FROM expert_rules WHERE name=? *)
RuleToMake == rules = 0

(* m011, the guard and the look for a rule of that name: nothing on a database
   marked as v3, and without libraries it returns before the mark is set. *)
LookUpRule(w) ==
    /\ Executing(w, 11)
    /\ IF conf.done \/ library = "none" THEN Ran(w)
       ELSE To(w, IF RuleToMake THEN "rule" ELSE "seal")
    /\ UNCHANGED <<data, backups, latch, history>>

(* m011, INSERT INTO expert_rules and its commit. *)
InsertRule(w) ==
    /\ Stands(w, "rule") /\ To(w, "seal")
    /\ rules' = rules + 1
    /\ UNCHANGED <<engine, journal, applied, missing, conf, library, backupsOn, backups,
                   latch, history>>

(* m011, the last transaction: v3_migration_done. *)
MarkV3(w) ==
    /\ Stands(w, "seal") /\ Ran(w)
    /\ conf' = [conf EXCEPT !.done = TRUE]
    /\ UNCHANGED <<engine, journal, applied, missing, library, rules, backupsOn, backups,
                   latch, history>>

(* m012: a value in minutes wins, and the hours are removed. *)
HoursToMinutes(w) ==
    /\ Executing(w, 12) /\ Ran(w)
    /\ conf' = IF conf.hours
                 THEN [conf EXCEPT !.hours = FALSE,
                                   !.minutes = IF @ = "absent" THEN "converted" ELSE @]
                 ELSE conf
    /\ UNCHANGED <<engine, journal, applied, missing, library, rules, backupsOn, backups,
                   latch, history>>

(* m001, m004, m005, m007, m013 and m017: tables if missing, backfills, copies
   with INSERT OR IGNORE and a purge, which may be run twice. *)
OtherMigration(w) ==
    /\ Stands(w, "run") /\ boot[w].i \notin ColumnMigrations \cup {9, 10, 11, 12}
    /\ Ran(w)
    /\ UNCHANGED <<data, backups, latch, history>>

Mark(w) ==
    /\ Stands(w, "mark")
    /\ applied' = applied \cup {boot[w].i}
    /\ boot' = [boot EXCEPT ![w] = [at |-> "next", i |-> @.i + 1]]
    /\ UNCHANGED <<engine, journal, missing, conf, library, rules, backupsOn, backups,
                   latch, history>>

ComesUp(w) ==
    /\ Stands(w, "next") /\ boot[w].i > LastId
    /\ boot' = [boot EXCEPT ![w] = [at |-> "up", i |-> 0]]
    /\ FreeLatch(w)
    /\ UNCHANGED <<data, backups, history>>

-----------------------------------------------------------------------------
(* Killed, or stopped by an operator; MariaDB frees the lock of a connection
   that is gone. *)
Kill(w) ==
    /\ ~Stands(w, "down") /\ kills < MaxKills /\ kills' = kills + 1
    /\ Dies(w) /\ FreeLatch(w)
    /\ UNCHANGED <<data, backups, original, later, mishap, copied>>

(* The user adds a library with conditions, in the running program. *)
AddLibrary ==
    /\ \E w \in Boots : Stands(w, "up")
    /\ library = "none" /\ library' = "own"
    /\ UNCHANGED <<engine, journal, applied, missing, conf, rules, backupsOn, backups, boot,
                   latch, history>>

(* tools/migrate_to_mariadb.py and migrate_to_sqlite.py, with the program
   stopped and the database up to date: a new schema and the rows of
   ORDERED_TABLES, which does not name schema_migrations. *)
CopyDatabase ==
    /\ ~copied /\ copied' = TRUE
    /\ \A w \in Boots : Stands(w, "down")
    /\ applied = 1..LastId
    /\ engine' = IF engine = "sqlite" THEN "mariadb" ELSE "sqlite"
    /\ applied' = {} /\ missing' = {} /\ journal' = FALSE
    /\ UNCHANGED <<conf, library, rules, backupsOn, backups, boot, latch, original, kills,
                   later, mishap>>

UpNext ==
    \/ \E w \in Boots :
          \/ Launch(w) \/ Lock(w) \/ Backup(w) \/ InitDb(w)
          \/ Next17(w) \/ LookUpColumn(w) \/ AddColumn(w)
          \/ PromoteLegacy(w) \/ RemoveLegacy(w) \/ LookUpRule(w) \/ InsertRule(w)
          \/ MarkV3(w) \/ HoursToMinutes(w) \/ OtherMigration(w) \/ Mark(w)
          \/ ComesUp(w) \/ RunBackup(w) \/ Kill(w)
    \/ AddLibrary \/ CopyDatabase

UpSpec == UpInit /\ [][UpNext]_upVars

-----------------------------------------------------------------------------
(* migration_lock: no two processes migrate at once, so none finds that a
   column it is about to add is there already ("the second died on
   `Duplicate column name`"). *)
NoDuplicateColumn == \A w \in Boots : Stands(w, "alter") => boot[w].i \in missing

(* However often a start is interrupted, however many processes start, and
   even when the copy of the database makes every migration run again, starts
   turn a library into at most one expert rule: m011 inserts what it did not
   find, in two statements, which nothing but the lock keeps together.  The
   rules a user has made by POST /migrate-from-libraries are not counted. *)
RulesMadeOnce == rules <= 1

(* The connection of an old database is never dropped before it has become an
   entry of media_servers, whatever is interrupted. *)
ConnectionKept ==
    original.conf.legacy => conf.legacy \/ conf.servers = "legacy"

(* backup_before_migrations: once anything of an existing database has
   changed, what it was is in a backup.  It is pruned like any other: by the
   backups of interrupted starts and by those the running program makes, its
   job's included, once they fill the retention; and a user may delete it by
   hand (DELETE /api/backup), which is left out.  There is none if its dump
   failed or backups are turned off. *)
SnapshotKept ==
    /\ original.journal /\ backupsOn /\ ~mishap /\ kills + later < Retention
    /\ applied # original.applied \/ missing # original.missing
    => [applied |-> original.applied, missing |-> original.missing] \in ToSet(backups)

(* What an interrupted, repeated or concurrent start may not do to the data. *)
UpgradeIsSafe == RulesMadeOnce /\ ConnectionKept /\ SnapshotKept
=============================================================================
