----------------------------- MODULE JobLockProofs -----------------------------
(***************************************************************************)
(* Theorems about JobLock, for any number of workers, tasks, names and      *)
(* connections, and any number of crashes and lost sessions.               *)
(***************************************************************************)
EXTENDS JobLock, TLAPS

(* A connection is in one place: in the pool, in one task's local variable or
   in one lock object. *)
OnePlace ==
    /\ \A t \in Tasks : conn[t] # NoConn =>
         /\ conn[t] \notin idle
         /\ \A u \in Tasks : conn[u] = conn[t] => u = t
         /\ \A l \in Objects : kept[l] # conn[t]
    /\ \A l \in Objects : kept[l] # NoConn =>
         /\ kept[l] \notin idle
         /\ \A m \in Objects : kept[m] = kept[l] => m = l

(* A task uses connections of its own worker; it has one while it asks, and
   none before and while it runs. *)
Placed ==
    /\ \A t \in Tasks : conn[t] # NoConn => PoolOf[conn[t]] = Home(t)
    /\ \A l \in Objects : kept[l] # NoConn => PoolOf[kept[l]] = WorkerOf[l]
    /\ \A t \in Tasks : (pc[t] \in {"idle", "waiting", "running"}) <=> conn[t] = NoConn

(* Whoever entered has the lock, as long as no session was lost. *)
Owned ==
    \A t \in Tasks : Name(t) \notin severed =>
      /\ pc[t] = "granted" => owner[Name(t)] = conn[t]
      /\ pc[t] = "running" =>
           kept[LockOf[t]] # NoConn /\ owner[Name(t)] = kept[LockOf[t]]

(* A session that ended owns nothing. *)
Live == \A n \in Names : owner[n] \notin broken

LockInv == TypeOK /\ OnePlace /\ Placed /\ Owned /\ OneRunner /\ Live

LEMMA LockInit == Init => LockInv
  BY LockConstants DEF Init, LockInv, TypeOK, OnePlace, Placed, Owned, OneRunner, Live, Places, Name

(* The job is not skipped: nothing is acquired yet. *)
LEMMA StartKeeps ==
  ASSUME NEW t \in Tasks, LockInv, Start(t)
  PROVE  LockInv'
<1> USE LockConstants DEF Start, Go, Name, Home
<1>1. TypeOK'
  BY DEF LockInv, TypeOK, Places
<1>2. OnePlace'
  BY <1>1 DEF LockInv, TypeOK, OnePlace, Placed
<1>3. Placed'
  BY <1>1 DEF LockInv, TypeOK, OnePlace, Placed
<1>4. Owned'
  BY <1>1 DEF LockInv, TypeOK, OnePlace, Placed, Owned, OneRunner
<1>5. OneRunner'
  BY <1>1 DEF LockInv, TypeOK, OnePlace, Placed, Owned, OneRunner
<1>6. Live'
  BY DEF LockInv, TypeOK, Live
<1>7. QED
  BY <1>1, <1>2, <1>3, <1>4, <1>5, <1>6 DEF LockInv

(* The connection leaves the pool for one task only. *)
LEMMA BorrowKeeps ==
  ASSUME NEW t \in Tasks, LockInv, Borrow(t)
  PROVE  LockInv'
<1> USE LockConstants DEF Borrow, Go, Name, Home, Pool
<1>1. TypeOK'
  BY DEF LockInv, TypeOK, Places
<1>2. OnePlace'
  BY <1>1 DEF LockInv, TypeOK, OnePlace, Placed
<1>3. Placed'
  BY <1>1 DEF LockInv, TypeOK, OnePlace, Placed
<1>4. Owned'
  BY <1>1 DEF LockInv, TypeOK, OnePlace, Placed, Owned, OneRunner
<1>5. OneRunner'
  BY <1>1 DEF LockInv, TypeOK, OnePlace, Placed, Owned, OneRunner
<1>6. Live'
  BY DEF LockInv, TypeOK, Live
<1>7. QED
  BY <1>1, <1>2, <1>3, <1>4, <1>5, <1>6 DEF LockInv

(* A grant finds the lock free, or on the task's own connection. *)
LEMMA AskKeeps ==
  ASSUME NEW t \in Tasks, LockInv, Ask(t)
  PROVE  LockInv'
<1> USE LockConstants DEF Ask, Go, Name, Home
<1>1. TypeOK'
  BY DEF LockInv, TypeOK, Places
<1>2. OnePlace'
  BY <1>1 DEF LockInv, TypeOK, OnePlace, Placed
<1>3. Placed'
  BY <1>1 DEF LockInv, TypeOK, OnePlace, Placed
<1>4. Owned'
  BY <1>1 DEF LockInv, TypeOK, OnePlace, Placed, Owned, OneRunner
<1>5. OneRunner'
  BY <1>1 DEF LockInv, TypeOK, OnePlace, Placed, Owned, OneRunner
<1>6. Live'
  BY DEF LockInv, TypeOK, Live
<1>7. QED
  BY <1>1, <1>2, <1>3, <1>4, <1>5, <1>6 DEF LockInv

(* The connection goes back to the pool. *)
LEMMA RefusedKeeps ==
  ASSUME NEW t \in Tasks, LockInv, Refused(t)
  PROVE  LockInv'
<1> USE LockConstants DEF Refused, Go, Name, Home, GiveBack
<1>1. TypeOK'
  BY DEF LockInv, TypeOK, Places
<1>2. OnePlace'
  BY <1>1 DEF LockInv, TypeOK, OnePlace, Placed
<1>3. Placed'
  BY <1>1 DEF LockInv, TypeOK, OnePlace, Placed
<1>4. Owned'
  BY <1>1 DEF LockInv, TypeOK, OnePlace, Placed, Owned, OneRunner
<1>5. OneRunner'
  BY <1>1 DEF LockInv, TypeOK, OnePlace, Placed, Owned, OneRunner
<1>6. Live'
  BY DEF LockInv, TypeOK, Live
<1>7. QED
  BY <1>1, <1>2, <1>3, <1>4, <1>5, <1>6 DEF LockInv

(* The lock object takes over the connection; whoever else ran under this
   name would own the lock as well. *)
LEMMA EnterKeeps ==
  ASSUME NEW t \in Tasks, LockInv, Enter(t)
  PROVE  LockInv'
<1> USE LockConstants DEF Enter, Go, Name, Home
<1>1. TypeOK'
  BY DEF LockInv, TypeOK, Places
<1>2. OnePlace'
  BY <1>1 DEF LockInv, TypeOK, OnePlace, Placed
<1>3. Placed'
  BY <1>1 DEF LockInv, TypeOK, OnePlace, Placed
<1>4. Owned'
  BY <1>1 DEF LockInv, TypeOK, OnePlace, Placed, Owned, OneRunner
<1>5. OneRunner'
  BY <1>1 DEF LockInv, TypeOK, OnePlace, Placed, Owned, OneRunner
<1>6. Live'
  BY DEF LockInv, TypeOK, Live
<1>7. QED
  BY <1>1, <1>2, <1>3, <1>4, <1>5, <1>6 DEF LockInv

(* Nobody else relies on the lock object. *)
LEMMA ExitKeeps ==
  ASSUME NEW t \in Tasks, LockInv, Exit(t)
  PROVE  LockInv'
<1> USE LockConstants DEF Exit, Go, Name, Home
<1>1. TypeOK'
  BY DEF LockInv, TypeOK, Places
<1>2. OnePlace'
  BY <1>1 DEF LockInv, TypeOK, OnePlace, Placed
<1>3. Placed'
  BY <1>1 DEF LockInv, TypeOK, OnePlace, Placed
<1>4. Owned'
  BY <1>1 DEF LockInv, TypeOK, OnePlace, Placed, Owned, OneRunner
<1>5. OneRunner'
  BY <1>1 DEF LockInv, TypeOK, OnePlace, Placed, Owned, OneRunner
<1>6. Live'
  BY DEF LockInv, TypeOK, Live
<1>7. QED
  BY <1>1, <1>2, <1>3, <1>4, <1>5, <1>6 DEF LockInv

(* Nobody else relies on the lock. *)
LEMMA ReleaseKeeps ==
  ASSUME NEW t \in Tasks, LockInv, Release(t)
  PROVE  LockInv'
<1> USE LockConstants DEF Release, Go, Name, Home, ReleaseOn
<1>1. TypeOK'
  BY DEF LockInv, TypeOK, Places
<1>2. OnePlace'
  BY <1>1 DEF LockInv, TypeOK, OnePlace, Placed
<1>3. Placed'
  BY <1>1 DEF LockInv, TypeOK, OnePlace, Placed
<1>4. Owned'
  BY <1>1 DEF LockInv, TypeOK, OnePlace, Placed, Owned, OneRunner
<1>5. OneRunner'
  BY <1>1 DEF LockInv, TypeOK, OnePlace, Placed, Owned, OneRunner
<1>6. Live'
  BY DEF LockInv, TypeOK, Live
<1>7. QED
  BY <1>1, <1>2, <1>3, <1>4, <1>5, <1>6 DEF LockInv

(* The connection goes back to the pool. *)
LEMMA ReturnKeeps ==
  ASSUME NEW t \in Tasks, LockInv, Return(t)
  PROVE  LockInv'
<1> USE LockConstants DEF Return, Go, Name, Home, GiveBack
<1>1. TypeOK'
  BY DEF LockInv, TypeOK, Places
<1>2. OnePlace'
  BY <1>1 DEF LockInv, TypeOK, OnePlace, Placed
<1>3. Placed'
  BY <1>1 DEF LockInv, TypeOK, OnePlace, Placed
<1>4. Owned'
  BY <1>1 DEF LockInv, TypeOK, OnePlace, Placed, Owned, OneRunner
<1>5. OneRunner'
  BY <1>1 DEF LockInv, TypeOK, OnePlace, Placed, Owned, OneRunner
<1>6. Live'
  BY DEF LockInv, TypeOK, Live
<1>7. QED
  BY <1>1, <1>2, <1>3, <1>4, <1>5, <1>6 DEF LockInv

(* A lost session takes its locks with it, and their names are severed. *)
LEMMA ConnLostKeeps ==
  ASSUME LockInv, ConnLost
  PROVE  LockInv'
<1> USE LockConstants DEF ConnLost, Name, Home
<1>1. TypeOK'
  BY DEF LockInv, TypeOK, Places
<1>2. OnePlace'
  BY <1>1 DEF LockInv, TypeOK, OnePlace, Placed
<1>3. Placed'
  BY <1>1 DEF LockInv, TypeOK, OnePlace, Placed
<1>4. Owned'
  BY <1>1 DEF LockInv, TypeOK, OnePlace, Placed, Owned
<1>5. OneRunner'
  BY <1>1 DEF LockInv, TypeOK, OneRunner
<1>6. Live'
  BY DEF LockInv, TypeOK, Live
<1>7. QED
  BY <1>1, <1>2, <1>3, <1>4, <1>5, <1>6 DEF LockInv

(* A dead worker takes its own locks and connections with it only. *)
LEMMA WorkerCrashKeeps ==
  ASSUME NEW w \in Workers, LockInv, WorkerCrash(w)
  PROVE  LockInv'
<1> USE LockConstants DEF WorkerCrash, Pool, Name, Home
<1>1. TypeOK'
  BY DEF LockInv, TypeOK, Places
<1>2. OnePlace'
  BY <1>1 DEF LockInv, TypeOK, OnePlace, Placed
<1>3. Placed'
  BY <1>1 DEF LockInv, TypeOK, OnePlace, Placed
<1>4. Owned'
  BY <1>1 DEF LockInv, TypeOK, OnePlace, Placed, Owned
<1>5. OneRunner'
  BY <1>1 DEF LockInv, TypeOK, OneRunner
<1>6. Live'
  BY DEF LockInv, TypeOK, Live
<1>7. QED
  BY <1>1, <1>2, <1>3, <1>4, <1>5, <1>6 DEF LockInv

(* LockInv is inductive. *)
LEMMA LockStep == LockInv /\ [Next]_vars => LockInv'
<1> SUFFICES ASSUME LockInv, [Next]_vars PROVE LockInv'
  OBVIOUS
<1>1. CASE \E t \in Tasks : Start(t) \/ Step(t)
  BY <1>1, StartKeeps, BorrowKeeps, AskKeeps, RefusedKeeps, EnterKeeps,
     ExitKeeps, ReleaseKeeps, ReturnKeeps DEF Step
<1>2. CASE ConnLost
  BY <1>2, ConnLostKeeps
<1>3. CASE \E w \in Workers : WorkerCrash(w)
  BY <1>3, WorkerCrashKeeps
<1>4. CASE UNCHANGED vars
  BY <1>4 DEF vars, LockInv, TypeOK, OnePlace, Placed, Owned, OneRunner, Live
<1>5. QED
  BY <1>1, <1>2, <1>3, <1>4 DEF Next

(* OneRunner: one run of a job at a time in any number of workers, as long as
   the session of its lock lives (the connection of GET_LOCK is kept for the
   whole run by acquire and released by _release_async). *)
THEOREM OneRunAtATime == Spec => []OneRunner
<1>1. LockInv => OneRunner
  BY DEF LockInv
<1>2. QED
  BY LockInit, LockStep, <1>1, PTL DEF Spec

(* The run that uses or is about to release the lock called n. *)
Uses(t, n) ==
    /\ Name(t) = n
    /\ \/ pc[t] \in {"granted", "releasing"} /\ conn[t] = owner[n]
       \/ pc[t] = "running" /\ kept[LockOf[t]] = owner[n]

(* No step of a task strands a lock: its own goes on being used until it is
   released, the others are not touched. *)
LEMMA TaskStrandsNothing ==
  ASSUME NEW t \in Tasks, LockInv, LockInv', NoStrandedLock, Start(t) \/ Step(t)
  PROVE  NoStrandedLock'
<1> SUFFICES ASSUME NEW n \in Names \ severed', owner'[n] # NoConn
             PROVE  owner'[n] \notin idle' /\ \E u \in Tasks : Uses(u, n)'
  BY DEF NoStrandedLock, Uses, Name
<1>1. severed' = severed
  BY DEF Step, Start, Borrow, Ask, Refused, Enter, Exit, Release, ReleaseOn, Return
<1>2. CASE owner'[n] = owner[n]
  <2>1. PICK u \in Tasks : Uses(u, n)
    BY <1>1, <1>2 DEF NoStrandedLock, Uses
  <2>2. owner[n] \in Conns /\ owner[n] \notin idle
    BY <1>1, <1>2, LockConstants DEF NoStrandedLock, LockInv, TypeOK
  <2>3. CASE u # t
    BY <2>1, <2>2, <2>3, <1>1, <1>2, LockConstants
       DEF Uses, Step, Start, Borrow, Ask, Refused, Enter, Exit, Release, ReleaseOn, Return,
           Go, GiveBack, LockInv, TypeOK, OnePlace, Placed, Owned, OneRunner, Name
  <2>4. CASE u = t /\ pc[t] = "releasing"
    BY <2>1, <2>2, <2>4, <1>1, <1>2, LockConstants
       DEF Uses, Step, Start, Borrow, Ask, Refused, Enter, Exit, Release, ReleaseOn, Return,
           Go, LockInv, TypeOK, Live, Name
  <2>5. CASE u = t /\ pc[t] \in {"granted", "running"}
    BY <2>1, <2>2, <2>5, <1>1, <1>2, LockConstants
       DEF Uses, Step, Start, Borrow, Ask, Refused, Enter, Exit, Release, ReleaseOn, Return,
           Go, LockInv, TypeOK, OnePlace, Name
  <2>6. QED
    BY <2>1, <2>3, <2>4, <2>5 DEF Uses
<1>3. CASE owner'[n] # owner[n]
  BY <1>3, LockConstants
     DEF Uses, Step, Start, Borrow, Ask, Refused, Enter, Exit, Release, ReleaseOn, Return,
         Go, GiveBack, LockInv, TypeOK, OnePlace, Placed, Name
<1>4. QED
  BY <1>2, <1>3

(* Sessions that end free their locks. *)
LEMMA LossStrandsNothing ==
  ASSUME LockInv, LockInv', NoStrandedLock, ConnLost \/ \E w \in Workers : WorkerCrash(w)
  PROVE  NoStrandedLock'
<1> SUFFICES ASSUME NEW n \in Names \ severed', owner'[n] # NoConn
             PROVE  owner'[n] \notin idle' /\ \E u \in Tasks : Uses(u, n)'
  BY DEF NoStrandedLock, Uses, Name
<1>1. owner'[n] = owner[n] /\ n \notin severed
  BY DEF ConnLost, WorkerCrash, LockInv, TypeOK
<1>2. PICK u \in Tasks : Uses(u, n)
  BY <1>1 DEF NoStrandedLock, Uses
<1>3. owner[n] \in Conns /\ owner[n] \notin idle
  BY <1>1, LockConstants DEF NoStrandedLock, LockInv, TypeOK
<1>4. CASE ConnLost
  BY <1>1, <1>2, <1>3, <1>4 DEF ConnLost, Uses, Name
<1>5. CASE \E w \in Workers : WorkerCrash(w)
  <2>1. PICK w \in Workers : WorkerCrash(w)
    BY <1>5
  <2>2. owner[n] \notin Pool(w)
    BY <1>1, <2>1, <1>3, LockConstants DEF WorkerCrash
  <2>3. Home(u) # w
    BY <1>2, <1>3, <2>2, LockConstants DEF Uses, LockInv, Placed, Home, Pool
  <2>4. QED
    BY <1>1, <1>2, <1>3, <2>1, <2>2, <2>3, LockConstants DEF WorkerCrash, Uses, Name, Home, LockInv, TypeOK
<1>6. QED
  BY <1>4, <1>5

(* NoStrandedLock: the lock of MariaDB is never left on a pooled connection,
   which is what stopped the scans in the incident the class documents. *)
THEOREM NothingStranded == Spec => []NoStrandedLock
<1>1. Init => NoStrandedLock
  BY DEF Init, NoStrandedLock
<1>2. LockInv /\ LockInv' /\ NoStrandedLock /\ [Next]_vars => NoStrandedLock'
  <2>1. ASSUME NoStrandedLock, UNCHANGED vars PROVE NoStrandedLock'
    BY <2>1 DEF vars, NoStrandedLock
  <2>2. QED
    BY <2>1, TaskStrandsNothing, LossStrandsNothing DEF Next
<1>3. QED
  BY LockInit, LockStep, <1>1, <1>2, PTL DEF Spec

(* What keeps a connection out of the pool: a task that has it in a local
   variable, or a run whose lock object has it. *)
Needs(t, c) ==
    \/ conn[t] = c /\ pc[t] # "idle"
    \/ kept[LockOf[t]] = c /\ pc[t] = "running"

(* A task that enters finds its lock object empty: whoever had left a
   connection there would be running and own the lock. *)
LEMMA ObjectEmpty ==
  ASSUME NEW t \in Tasks, LockInv, PoolRefills, severed = {}, pc[t] = "granted"
  PROVE  kept[LockOf[t]] = NoConn
<1> SUFFICES ASSUME kept[LockOf[t]] # NoConn PROVE FALSE
  OBVIOUS
<1>1. kept[LockOf[t]] \in Conns \ idle
  BY LockConstants DEF LockInv, TypeOK, OnePlace
<1>2. PICK u \in Tasks : Needs(u, kept[LockOf[t]])
  BY <1>1 DEF PoolRefills, Needs
<1>3. kept[LockOf[u]] = kept[LockOf[t]] /\ pc[u] = "running"
  BY <1>1, <1>2, LockConstants DEF Needs, LockInv, OnePlace
<1>4. LockOf[u] = LockOf[t]
  BY <1>1, <1>3, LockConstants DEF LockInv, OnePlace
<1>5. owner[Name(t)] = conn[t] /\ owner[Name(t)] = kept[LockOf[t]]
  BY <1>3, <1>4 DEF LockInv, Owned, Name
<1>6. QED
  BY <1>1, <1>5, LockConstants DEF LockInv, OnePlace

(* No step of a task forgets a connection. *)
LEMMA TaskForgetsNothing ==
  ASSUME NEW t \in Tasks, LockInv, PoolRefills, Start(t) \/ Step(t)
  PROVE  PoolRefills'
<1> USE LockConstants
<1>1. severed' = severed
  BY DEF Step, Start, Borrow, Ask, Refused, Enter, Exit, Release, ReleaseOn, Return
<1> SUFFICES ASSUME severed = {}, NEW c \in Conns \ idle'
             PROVE  \E u \in Tasks : Needs(u, c)'
  BY <1>1 DEF PoolRefills, Needs
<1>2. CASE c \in idle
  BY <1>2 DEF Step, Start, Borrow, Ask, Refused, Enter, Exit, Release, ReleaseOn, Return,
              Go, GiveBack, Needs, LockInv, TypeOK
<1>3. CASE c \notin idle
  <2>1. PICK u \in Tasks : Needs(u, c)
    BY <1>3 DEF PoolRefills, Needs
  <2>2. CASE Start(t) \/ Borrow(t) \/ Ask(t) \/ Release(t)
    BY <2>1, <2>2 DEF Start, Borrow, Ask, Release, ReleaseOn, Go, Needs, LockInv, TypeOK, Placed
  <2>3. CASE Refused(t) \/ Return(t)
    BY <2>1, <2>3 DEF Refused, Return, Go, GiveBack, Needs, LockInv, TypeOK, Placed
  <2>4. CASE Enter(t)
    <3>1. kept[LockOf[t]] = NoConn
      BY <2>4, ObjectEmpty DEF Enter, Go
    <3>2. QED
      BY <2>1, <2>4, <3>1 DEF Enter, Go, Needs, LockInv, TypeOK
  <2>5. CASE Exit(t)
    <3>1. CASE kept[LockOf[u]] = c /\ pc[u] = "running"
      <4>1. u = t \/ LockOf[u] # LockOf[t]
        BY <3>1, <2>5 DEF Exit, Go, LockInv, OneRunner, Name
      <4>2. QED
        BY <2>5, <3>1, <4>1 DEF Exit, Go, Needs, LockInv, TypeOK
    <3>2. CASE conn[u] = c /\ pc[u] # "idle"
      <4>1. u # t
        BY <2>5, <3>2 DEF Exit, Go, LockInv, Placed
      <4>2. QED
        BY <2>5, <3>2, <4>1 DEF Exit, Go, Needs, LockInv, TypeOK
    <3>3. QED
      BY <2>1, <3>1, <3>2 DEF Needs
  <2>6. QED
    BY <2>2, <2>3, <2>4, <2>5 DEF Step
<1>4. QED
  BY <1>2, <1>3

(* A dead worker gives all its connections back, and only its own. *)
LEMMA LossForgetsNothing ==
  ASSUME LockInv, PoolRefills, ConnLost \/ \E w \in Workers : WorkerCrash(w)
  PROVE  PoolRefills'
<1> USE LockConstants
<1>1. severed \subseteq severed' /\ idle \subseteq idle'
  BY DEF ConnLost, WorkerCrash
<1> SUFFICES ASSUME severed = {}, NEW c \in Conns \ idle'
             PROVE  \E u \in Tasks : Needs(u, c)'
  BY <1>1 DEF PoolRefills, Needs
<1>2. PICK u \in Tasks : Needs(u, c)
  BY <1>1 DEF PoolRefills, Needs
<1>3. CASE ConnLost
  BY <1>2, <1>3 DEF ConnLost, Needs
<1>4. CASE \E w \in Workers : WorkerCrash(w)
  <2>1. PICK w \in Workers : WorkerCrash(w)
    BY <1>4
  <2>2. c \notin Pool(w)
    BY <2>1 DEF WorkerCrash
  <2>3. Home(u) # w
    BY <1>2, <2>2 DEF Needs, LockInv, Placed, Home, Pool
  <2>4. QED
    BY <1>2, <2>1, <2>3 DEF WorkerCrash, Needs, Home, LockInv, TypeOK
<1>5. QED
  BY <1>3, <1>4

(* PoolRefills: every connection is in the pool or with a run that is not
   over, so that refusals, crashes and releases never drain the pool (acquire
   and _release_async give back what they borrowed on every path). *)
THEOREM PoolNeverDrains == Spec => []PoolRefills
<1>1. Init => PoolRefills
  BY DEF Init, PoolRefills
<1>2. LockInv /\ PoolRefills /\ [Next]_vars => PoolRefills'
  <2>1. ASSUME PoolRefills, UNCHANGED vars PROVE PoolRefills'
    BY <2>1 DEF vars, PoolRefills
  <2>2. QED
    BY <2>1, TaskForgetsNothing, LossForgetsNothing DEF Next
<1>3. QED
  BY LockInit, LockStep, <1>1, <1>2, PTL DEF Spec
=============================================================================
