------------------------------- MODULE DbPool -------------------------------
(***************************************************************************)
(* get_db on MariaDB (db/engine.py): pooled connections with autocommit    *)
(* off, so that the first statement of a block, even a SELECT, opens a     *)
(* REPEATABLE READ transaction and freezes what the connection reads.      *)
(* Blocks end normally, by an exception or by a cancellation (the timeout  *)
(* of a job), which may also hit the rollback.                             *)
(***************************************************************************)
EXTENDS Integers

CONSTANTS Coros,     \* coroutines that use the database
          Links,     \* connections of the pool
          NoLink,
          MaxWork    \* bound: transactions committed

ASSUME PoolConstants == NoLink \notin Links

VARIABLES
    commits,  \* the database: how many transactions have been committed
    link,     \* connections: [use, snapshot (-1 for none), dirty]
    block,    \* the block of each coroutine: [on, since, unwinding]
    lastRead  \* what each coroutine last read, and when its block began

dbVars == <<commits, link, block, lastRead>>

NewLink == [use |-> "free", snapshot |-> -1, dirty |-> FALSE]
Outside == [on |-> NoLink, since |-> 0, unwinding |-> FALSE]

DbInit ==
    /\ commits = 0
    /\ link = [c \in Links |-> NewLink]
    /\ block = [k \in Coros |-> Outside]
    /\ lastRead = [k \in Coros |-> [saw |-> 0, since |-> 0]]

Working(k) == block[k].on # NoLink /\ ~block[k].unwinding
Mine(k) == block[k].on

(* _pool.acquire() *)
BlockBegins(k, c) ==
    /\ Mine(k) = NoLink /\ link[c].use = "free"
    /\ link' = [link EXCEPT ![c].use = "taken"]
    /\ block' = [block EXCEPT ![k] = [on |-> c, since |-> commits, unwinding |-> FALSE]]
    /\ UNCHANGED <<commits, lastRead>>

Snapshot(c) == IF link[c].snapshot = -1 THEN commits ELSE link[c].snapshot

(* fetch_all, fetch_one *)
Fetch(k) ==
    /\ Working(k)
    /\ link' = [link EXCEPT ![Mine(k)].snapshot = Snapshot(Mine(k))]
    /\ lastRead' = [lastRead EXCEPT ![k] = [saw |-> Snapshot(Mine(k)), since |-> block[k].since]]
    /\ UNCHANGED <<commits, block>>

(* execute, execute_write, executemany *)
Execute(k) ==
    /\ Working(k)
    /\ link' = [link EXCEPT ![Mine(k)] = [use |-> "taken", snapshot |-> Snapshot(Mine(k)),
                                          dirty |-> TRUE]]
    /\ UNCHANGED <<commits, block, lastRead>>

CommitWork(k) ==
    /\ Working(k) /\ commits < MaxWork
    /\ commits' = IF link[Mine(k)].dirty THEN commits + 1 ELSE commits
    /\ link' = [link EXCEPT ![Mine(k)] = [use |-> "taken", snapshot |-> -1, dirty |-> FALSE]]
    /\ UNCHANGED <<block, lastRead>>

(* aiomysql gives a connection back as it is, except that it closes one that
   is in a transaction that has written. *)
Returned(c) == IF c.dirty THEN NewLink ELSE [c EXCEPT !.use = "free"]

(* Mutation: the block ends without a rollback. *)
Kept(c) == Returned(c)

RolledBack(c) == Returned([use |-> c.use, snapshot |-> -1, dirty |-> FALSE])

(* The end of the block: a rollback, or a connection the driver has closed. *)
BlockEnds(k) ==
    /\ Working(k)
    /\ \E after \in {RolledBack(link[Mine(k)]), NewLink} :
          link' = [link EXCEPT ![Mine(k)] = after]
    /\ block' = [block EXCEPT ![k] = Outside]
    /\ UNCHANGED <<commits, lastRead>>

(* An exception or a CancelledError inside the block. *)
Raises(k) ==
    /\ Working(k)
    /\ block' = [block EXCEPT ![k].unwinding = TRUE]
    /\ UNCHANGED <<commits, link, lastRead>>

(* except BaseException: the rollback works, or the connection is closed and
   the pool opens another one. *)
Unwind(k) ==
    /\ block[k].unwinding
    /\ \E after \in {RolledBack(link[Mine(k)]), NewLink} :
          link' = [link EXCEPT ![Mine(k)] = after]
    /\ block' = [block EXCEPT ![k] = Outside]
    /\ UNCHANGED <<commits, lastRead>>

DbNext ==
    \E k \in Coros :
        \/ \E c \in Links : BlockBegins(k, c)
        \/ Fetch(k) \/ Execute(k) \/ CommitWork(k)
        \/ BlockEnds(k) \/ Raises(k) \/ Unwind(k)

DbSpec == DbInit /\ [][DbNext]_dbVars

-----------------------------------------------------------------------------
(* A block never reads the database as it was before the block began: no
   snapshot of an earlier block, finished, failed or cancelled, is left on the
   connection it is given. *)
ReadsAreFresh == \A k \in Coros : lastRead[k].saw >= lastRead[k].since
=============================================================================
