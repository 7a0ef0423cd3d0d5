----------------------------- MODULE ConfigCache -----------------------------
(***************************************************************************)
(* The cache of the settings (db/settings_store.py: get_setting,           *)
(* set_setting) in one worker, with the other workers writing to the same  *)
(* table.  Every decision of a job goes through it, dry_run first.         *)
(* The values of a setting are numbered in the order in which they are     *)
(* committed.                                                              *)
(***************************************************************************)
EXTENDS Integers

CONSTANTS Readers,    \* coroutines that call get_setting
          NoReader,
          Ttl,        \* _SETTINGS_CACHE_TTL
          LastTick,   \* bound: the monotonic clock
          MaxWrites   \* bound: values ever committed

ASSUME ConfigConstants ==
    Ttl \in Nat \ {0} /\ MaxWrites \in Nat /\ NoReader \notin Readers

VARIABLES
    clock,
    stored,      \* the table: the number of the present value
    replaced,    \* history: when value n was replaced, or -1
    cached,      \* _settings_cache and _settings_cache_ts: [val, ts]
    holder,      \* who has _settings_cache_lock
    asks,        \* where each reader is: [at, now, val]
    writing      \* a set_setting of this worker between commit and invalidation

configVars == <<clock, stored, replaced, cached, holder, asks, writing>>

Calm == [at |-> "idle"]

ConfigInit ==
    /\ clock = 0 /\ stored = 0 /\ replaced = [n \in 0..MaxWrites |-> -1]
    /\ cached = [val |-> -1, ts |-> -Ttl]
    /\ holder = NoReader
    /\ asks = [r \in Readers |-> Calm]
    /\ writing = FALSE

Fresh == cached.val # -1 /\ clock - cached.ts < Ttl

(* get_setting on a cache that is not fresh: the lock, the second look and
   the time stamp.  A fresh cache is read without a step of its own. *)
AskMisses(r) ==
    /\ asks[r].at = "idle" /\ ~Fresh /\ holder = NoReader
    /\ holder' = r
    /\ asks' = [asks EXCEPT ![r] = [at |-> "select", now |-> clock]]
    /\ UNCHANGED <<clock, stored, replaced, cached, writing>>

AskSelects(r) ==
    /\ asks[r].at = "select"
    /\ asks' = [asks EXCEPT ![r] = [at |-> "store", now |-> @.now, val |-> stored]]
    /\ UNCHANGED <<clock, stored, replaced, cached, holder, writing>>

(* Mutation: the stamp is taken when the rows have come. *)
EntryStampedLate(r) == [val |-> asks[r].val, ts |-> clock]

Entry(r) == [val |-> asks[r].val, ts |-> asks[r].now]

AskStores(r) ==
    /\ asks[r].at = "store"
    /\ cached' = Entry(r)
    /\ holder' = NoReader
    /\ asks' = [asks EXCEPT ![r] = Calm]
    /\ UNCHANGED <<clock, stored, replaced, writing>>

(* The database raises: so does get_setting, the lock is given back. *)
AskFails(r) ==
    /\ asks[r].at = "select"
    /\ holder' = NoReader
    /\ asks' = [asks EXCEPT ![r] = Calm]
    /\ UNCHANGED <<clock, stored, replaced, cached, writing>>

Commit ==
    /\ stored < MaxWrites
    /\ stored' = stored + 1
    /\ replaced' = [replaced EXCEPT ![stored] = clock]

(* set_setting: the commit, then the invalidation. *)
SetCommits ==
    /\ ~writing /\ Commit
    /\ writing' = TRUE
    /\ UNCHANGED <<clock, cached, holder, asks>>

SetInvalidates ==
    /\ writing
    /\ cached' = [cached EXCEPT !.ts = -Ttl]
    /\ writing' = FALSE
    /\ UNCHANGED <<clock, stored, replaced, holder, asks>>

(* Another worker saves a setting: nobody tells this one. *)
OtherWorkerSets ==
    /\ ~writing /\ Commit
    /\ UNCHANGED <<clock, cached, holder, asks, writing>>

ClockTicks ==
    /\ clock < LastTick
    /\ clock' = clock + 1
    /\ UNCHANGED <<stored, replaced, cached, holder, asks, writing>>

ConfigNext ==
    \/ \E r \in Readers : AskMisses(r) \/ AskSelects(r) \/ AskStores(r) \/ AskFails(r)
    \/ SetCommits \/ SetInvalidates \/ OtherWorkerSets \/ ClockTicks

ConfigSpec == ConfigInit /\ [][ConfigNext]_configVars

-----------------------------------------------------------------------------
(* An answer out of the cache was the value of the setting less than Ttl ago:
   a read that takes long, a write that overtakes it and a write of another
   worker do not make it older than that. *)
StaleAtMostTtl ==
    Fresh /\ replaced[cached.val] # -1 => clock - replaced[cached.val] < Ttl

=============================================================================
