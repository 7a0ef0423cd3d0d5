-------------------------------- MODULE JobLock --------------------------------
(***************************************************************************)
(* The lock around the scan and the deletion job when Hygie runs as several *)
(* workers (_lock_backend.py, MariaDBAdvisoryLockBackend).  MariaDB grants  *)
(* a named lock to the connection that asked for it, so a lock is only as   *)
(* good as the bookkeeping of connections: each worker has a pool of them,  *)
(* and one lock object per name that remembers the connection it uses.      *)
(*                                                                         *)
(* The asyncio backend of a single worker is left out: is-locked and        *)
(* acquire have no await between them and nothing can come in between.      *)
(***************************************************************************)
EXTENDS Naturals, FiniteSets

CONSTANTS
    Workers,   \* processes that share the database
    Conns,     \* connections
    NoConn,    \* no connection
    PoolOf,    \* Conns -> Workers
    Names,     \* lock names, "hygie_scan_lock" and "hygie_deletion_lock"
    Objects,   \* the lock objects of the workers
    NameOf,    \* Objects -> Names
    WorkerOf,  \* Objects -> Workers
    Tasks,     \* runs of a job: scheduled ones and manual triggers
    LockOf,    \* Tasks -> Objects
    Faults,    \* which failures may happen
    MaxLost    \* bound: connections that are lost

ASSUME LockConstants ==
    /\ NoConn \notin Conns
    /\ PoolOf \in [Conns -> Workers]
    /\ NameOf \in [Objects -> Names]
    /\ WorkerOf \in [Objects -> Workers]
    /\ LockOf \in [Tasks -> Objects]
    /\ Faults \subseteq {"crash", "connloss"}
    /\ MaxLost \in Nat

VARIABLES
    owner,    \* per name, the connection MariaDB has granted it to
    idle,     \* connections lying in their pool
    broken,   \* connections whose session is gone
    held,     \* per object, self._held
    kept,     \* per object, self._conn
    pc,       \* where each task is
    conn,     \* the connection a task has in a local variable
    severed   \* history: names that lost their owner with its session

vars == <<owner, idle, broken, held, kept, pc, conn, severed>>

Name(t) == NameOf[LockOf[t]]
Home(t) == WorkerOf[LockOf[t]]
Pool(w) == {c \in Conns : PoolOf[c] = w}

Go(t, from, to) == pc[t] = from /\ pc' = [pc EXCEPT ![t] = to]

Init ==
    /\ owner = [n \in Names |-> NoConn]
    /\ idle = Conns
    /\ broken = {}
    /\ held = [l \in Objects |-> FALSE]
    /\ kept = [l \in Objects |-> NoConn]
    /\ pc = [t \in Tasks |-> "idle"]
    /\ conn = [t \in Tasks |-> NoConn]
    /\ severed = {}

-----------------------------------------------------------------------------
(* run_scan, run_deletion: the job is skipped while its lock is locked. *)
Start(t) ==
    /\ ~held[LockOf[t]]
    /\ Go(t, "idle", "waiting")
    /\ UNCHANGED <<owner, idle, broken, held, kept, conn, severed>>

(* acquire: a connection from the pool, which may be empty for a while. *)
Borrow(t) ==
    /\ Go(t, "waiting", "asking")
    /\ \E c \in idle \cap Pool(Home(t)) :
         /\ idle' = idle \ {c}
         /\ conn' = [conn EXCEPT ![t] = c]
    /\ UNCHANGED <<owner, broken, held, kept, severed>>

(* Mutation: any row in the answer counts as a grant. *)
AskUnchecked(t) ==
    /\ conn[t] \notin broken
    /\ owner' = [owner EXCEPT ![Name(t)] = IF @ = NoConn THEN conn[t] ELSE @]
    /\ Go(t, "asking", "granted")
    /\ UNCHANGED <<idle, broken, held, kept, conn, severed>>

(* GET_LOCK(name, 0), as MariaDB executes it. *)
Ask(t) ==
    /\ \/ /\ conn[t] \notin broken
          /\ owner[Name(t)] \in {NoConn, conn[t]}
          /\ owner' = [owner EXCEPT ![Name(t)] = conn[t]]
          /\ Go(t, "asking", "granted")
       \/ /\ conn[t] \in broken \/ owner[Name(t)] \notin {NoConn, conn[t]}
          /\ owner' = owner
          /\ Go(t, "asking", "refused")
    /\ UNCHANGED <<idle, broken, held, kept, conn, severed>>

(* The connection goes back to the pool, which replaces a broken one. *)
GiveBack(c) ==
    /\ idle' = idle \cup ({c} \ {NoConn})
    /\ broken' = broken \ {c}

(* Mutation: LockNotAvailable is raised with the connection still borrowed. *)
RefusedKeepsConn(t) ==
    /\ Go(t, "refused", "idle")
    /\ conn' = [conn EXCEPT ![t] = NoConn]
    /\ UNCHANGED <<owner, idle, broken, held, kept, severed>>

(* LockNotAvailable, or the exception of a lost connection. *)
Refused(t) ==
    /\ Go(t, "refused", "idle")
    /\ GiveBack(conn[t])
    /\ conn' = [conn EXCEPT ![t] = NoConn]
    /\ UNCHANGED <<owner, held, kept, severed>>

(* The answer has arrived: the object keeps the connection. *)
Enter(t) ==
    /\ Go(t, "granted", "running")
    /\ kept' = [kept EXCEPT ![LockOf[t]] = conn[t]]
    /\ held' = [held EXCEPT ![LockOf[t]] = TRUE]
    /\ conn' = [conn EXCEPT ![t] = NoConn]
    /\ UNCHANGED <<owner, idle, broken, severed>>

(* The job ends, with its last writes through the pool, fails or reaches its
   timeout; _release_async takes the connection from the object. *)
Exit(t) ==
    /\ idle \cap Pool(Home(t)) # {}
    /\ IF kept[LockOf[t]] = NoConn
         THEN Go(t, "running", "idle")
         ELSE Go(t, "running", "releasing")
    /\ conn' = [conn EXCEPT ![t] = kept[LockOf[t]]]
    /\ kept' = [kept EXCEPT ![LockOf[t]] = NoConn]
    /\ held' = [held EXCEPT ![LockOf[t]] = FALSE]
    /\ UNCHANGED <<owner, idle, broken, severed>>

(* RELEASE_LOCK frees a lock only on the connection that has it. *)
ReleaseOn(t, c) ==
    /\ owner' = [owner EXCEPT ![Name(t)] = IF @ = c /\ c \notin broken THEN NoConn ELSE @]
    /\ Go(t, "releasing", "returning")
    /\ UNCHANGED <<idle, broken, held, kept, conn, severed>>

(* Mutation: RELEASE_LOCK on whatever connection the pool lends. *)
ReleaseElsewhere(t) == \E c \in idle \cap Pool(Home(t)) : ReleaseOn(t, c)

Release(t) == ReleaseOn(t, conn[t])

Return(t) ==
    /\ Go(t, "returning", "idle")
    /\ GiveBack(conn[t])
    /\ conn' = [conn EXCEPT ![t] = NoConn]
    /\ UNCHANGED <<owner, held, kept, severed>>

-----------------------------------------------------------------------------
(* MariaDB drops a session, and with it the locks the session has. *)
ConnLost ==
    /\ "connloss" \in Faults
    /\ Cardinality(broken) < MaxLost
    /\ \E c \in Conns \ broken :
         /\ broken' = broken \cup {c}
         /\ severed' = severed \cup {n \in Names : owner[n] = c}
         /\ owner' = [n \in Names |-> IF owner[n] = c THEN NoConn ELSE owner[n]]
    /\ UNCHANGED <<idle, held, kept, pc, conn>>

(* A worker dies and is started again; its sessions end. *)
WorkerCrash(w) ==
    /\ "crash" \in Faults
    /\ \E t \in Tasks : Home(t) = w /\ pc[t] # "idle"
    /\ pc' = [t \in Tasks |-> IF Home(t) = w THEN "idle" ELSE pc[t]]
    /\ conn' = [t \in Tasks |-> IF Home(t) = w THEN NoConn ELSE conn[t]]
    /\ held' = [l \in Objects |-> held[l] /\ WorkerOf[l] # w]
    /\ kept' = [l \in Objects |-> IF WorkerOf[l] = w THEN NoConn ELSE kept[l]]
    /\ idle' = idle \cup Pool(w)
    /\ broken' = broken \ Pool(w)
    /\ owner' = [n \in Names |-> IF owner[n] \in Pool(w) THEN NoConn ELSE owner[n]]
    /\ UNCHANGED severed

Step(t) ==
    Borrow(t) \/ Ask(t) \/ Refused(t) \/ Enter(t) \/ Exit(t) \/ Release(t) \/ Return(t)

Next ==
    \/ \E t \in Tasks : Start(t) \/ Step(t)
    \/ ConnLost
    \/ \E w \in Workers : WorkerCrash(w)

Spec == Init /\ [][Next]_vars

(* Every coroutine that can go on does; the pool serves in order, so nobody
   waits for a connection for ever while others are served.  That a job is
   started again is not assumed. *)
Fairness == \A t \in Tasks : SF_vars(Borrow(t)) /\ SF_vars(Exit(t)) /\ WF_vars(Step(t))

FairSpec == Spec /\ Fairness

-----------------------------------------------------------------------------
Places == {"idle", "waiting", "asking", "granted", "refused", "running",
           "releasing", "returning"}

(* Every variable keeps its shape. *)
TypeOK ==
    /\ owner \in [Names -> Conns \cup {NoConn}]
    /\ idle \subseteq Conns
    /\ broken \subseteq Conns
    /\ held \in [Objects -> BOOLEAN]
    /\ kept \in [Objects -> Conns \cup {NoConn}]
    /\ pc \in [Tasks -> Places]
    /\ conn \in [Tasks -> Conns \cup {NoConn}]
    /\ severed \subseteq Names

(* One run of a job at a time in all workers, scheduled or triggered, unless
   MariaDB has dropped the session of its lock (run_scan, run_deletion under
   scan_lock and deletion_lock). *)
OneRunner ==
    \A t, u \in Tasks :
      /\ Name(t) = Name(u) /\ Name(t) \notin severed
      /\ pc[t] = "running" /\ pc[u] = "running"
      => t = u

(* The stranded lock of the incident told in MariaDBAdvisoryLockBackend: the
   connection that has a lock is never left in the pool or forgotten, also
   when workers die; some run is using or releasing it.  After a lost session
   two runs of one worker may get in, and the object remembers only one of
   their connections. *)
NoStrandedLock ==
    \A n \in Names \ severed : owner[n] # NoConn =>
      /\ owner[n] \notin idle
      /\ \E t \in Tasks :
           /\ Name(t) = n
           /\ \/ pc[t] \in {"granted", "releasing"} /\ conn[t] = owner[n]
              \/ pc[t] = "running" /\ kept[LockOf[t]] = owner[n]

(* A connection is back in the pool once no run needs it: however often runs
   are refused, the pool does not drain (acquire, _release_async). *)
PoolRefills ==
    severed = {} =>
      \A c \in Conns \ idle :
        \/ \E t \in Tasks : conn[t] = c /\ pc[t] # "idle"
        \/ \E t \in Tasks : kept[LockOf[t]] = c /\ pc[t] = "running"

(* A lock that was granted is free again later, whatever its run meets, so
   that a later run gets its turn (_release_async).  A lost session can drain
   the pool, one forgotten connection after the other. *)
LockComesBack ==
    \A n \in Names : []<>(owner[n] = NoConn \/ severed # {})
=============================================================================
