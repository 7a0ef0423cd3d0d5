---------------------------- MODULE RecoveryProofs ----------------------------
(***************************************************************************)
(* Theorems about what has to come right by itself: CircuitBreaker, for any *)
(* number of callers, threshold, recovery time and number of attempts;     *)
(* ConfigCache, for any number of readers, time to live and writes; DbPool, *)
(* for any number of coroutines and connections; Upgrade, for any number   *)
(* of processes that start at once and may be killed at any step, on       *)
(* either engine, and any number of backups that are kept.                 *)
(***************************************************************************)
EXTENDS CircuitBreaker, ConfigCache, DbPool, Upgrade, TLAPS

-----------------------------------------------------------------------------
(* CircuitBreaker. *)

(* A probing caller has the lock. *)
ProbeLocked == \A t \in Callers : where[t] = "probing" => lock = t

BreakerInv == BreakerTypeOK /\ ProbeLocked /\ ClosedIsBelow

LEMMA BreakerStarts == BreakerInit => BreakerInv
  BY BreakerConstants DEF BreakerInit, BreakerInv, BreakerTypeOK, ProbeLocked, ClosedIsBelow

(* The three outcomes a call may record keep the count in step with the
   state. *)
LEMMA Recorded ==
  ASSUME BreakerTypeOK, ClosedIsBelow,
         OnSuccess \/ OnFailure \/ Decay \/ UNCHANGED breaker
  PROVE  /\ status' \in {"closed", "open"}
         /\ failures' \in 0 .. MaxCount
         /\ cooling' \in 0 .. Recovery
         /\ ClosedIsBelow'
<1> USE BreakerConstants
<1>1. CASE OnSuccess
  BY <1>1 DEF OnSuccess, BreakerTypeOK, ClosedIsBelow
<1>2. CASE OnFailure
  BY <1>2 DEF OnFailure, BreakerTypeOK, ClosedIsBelow
<1>3. CASE Decay
  BY <1>3 DEF Decay, BreakerTypeOK, ClosedIsBelow
<1>4. CASE UNCHANGED breaker
  BY <1>4 DEF breaker, BreakerTypeOK, ClosedIsBelow
<1>5. QED
  BY <1>1, <1>2, <1>3, <1>4

(* A caller that leaves gives the lock back if it has it. *)
LEMMA Left ==
  ASSUME NEW t \in Callers, BreakerTypeOK, ProbeLocked, Leave(t)
  PROVE  /\ lock' \in Callers \cup {Nobody}
         /\ where' \in [Callers -> {"idle", "calling", "waiting", "probing"}]
         /\ tries' \in [Callers -> 0 .. Retries - 1]
         /\ reachable' \in BOOLEAN
         /\ ProbeLocked'
  BY BreakerConstants DEF Leave, Enters, BreakerTypeOK, ProbeLocked

(* One step of one caller. *)
LEMMA CallerKeeps ==
  ASSUME NEW t \in Callers, BreakerInv, Call(t) \/ Answer(t) \/ Cancel(t)
  PROVE  BreakerInv'
<1> USE BreakerConstants DEF BreakerInv
<1>1. CASE CallClosed(t)
  BY <1>1 DEF CallClosed, Enters, breaker, BreakerTypeOK, ProbeLocked, ClosedIsBelow
<1>2. CASE CallHalfOpen(t)
  BY <1>2 DEF CallHalfOpen, Enters, breaker, BreakerTypeOK, ProbeLocked, ClosedIsBelow
<1>3. CASE Locked(t)
  BY <1>3 DEF Locked, Enters, breaker, BreakerTypeOK, ProbeLocked, ClosedIsBelow
<1>4. CASE Succeed(t)
  BY <1>4, Left, Recorded DEF Succeed, BreakerTypeOK
<1>5. CASE Retry(t)
  BY <1>5 DEF Retry, breaker, BreakerTypeOK, ProbeLocked, ClosedIsBelow
<1>6. CASE Fail(t)
  BY <1>6, Left, Recorded DEF Fail, BreakerTypeOK
<1>7. CASE Cancel(t)
  BY <1>7, Left, Recorded DEF Cancel, BreakerTypeOK
<1>8. QED
  BY <1>1, <1>2, <1>3, <1>4, <1>5, <1>6, <1>7 DEF Call, Answer

LEMMA BreakerStep == BreakerInv /\ [BreakerNext]_breakerVars => BreakerInv'
<1> SUFFICES ASSUME BreakerInv, [BreakerNext]_breakerVars PROVE BreakerInv'
  OBVIOUS
<1>1. CASE \E t \in Callers : Call(t) \/ Answer(t) \/ Cancel(t)
  BY <1>1, CallerKeeps
<1>2. CASE Tick
  BY <1>2, BreakerConstants DEF Tick, BreakerInv, BreakerTypeOK, ProbeLocked, ClosedIsBelow
<1>3. CASE Toggle
  BY <1>3 DEF Toggle, breaker, BreakerInv, BreakerTypeOK, ProbeLocked, ClosedIsBelow
<1>4. CASE UNCHANGED breakerVars
  BY <1>4 DEF breakerVars, breaker, BreakerInv, BreakerTypeOK, ProbeLocked, ClosedIsBelow
<1>5. QED
  BY <1>1, <1>2, <1>3, <1>4 DEF BreakerNext

(* OneProbe: one probe at a time, for any number of waiting callers, late
   answers and cancellations (CircuitBreaker.call under _probe_lock). *)
THEOREM ProbesAreSingle == BreakerSpec => []OneProbe
<1>1. BreakerInv => OneProbe
  BY DEF BreakerInv, ProbeLocked, OneProbe
<1>2. QED
  BY BreakerStarts, BreakerStep, <1>1, PTL DEF BreakerSpec

(* ClosedIsBelow: a closed breaker always counts fewer failures than its
   threshold (_on_success, _on_failure and the decay in call). *)
THEOREM ClosedCountsBelow == BreakerSpec => []ClosedIsBelow
<1>1. BreakerInv => ClosedIsBelow
  BY DEF BreakerInv
<1>2. QED
  BY BreakerStarts, BreakerStep, <1>1, PTL DEF BreakerSpec

(* FastFail: no call reaches the service while the breaker is open (the state
   is read on entry and again under the lock). *)
THEOREM OpenFailsFast == BreakerSpec => FastFail
<1>1. BreakerInv /\ [BreakerNext]_breakerVars => [\A t \in Callers : ~InCall(t) /\ InCall(t)' => ~Open]_breakerVars
  <2> SUFFICES ASSUME BreakerInv, BreakerNext, NEW t \in Callers, ~InCall(t), InCall(t)'
               PROVE  ~Open
    OBVIOUS
  <2>1. CASE \E u \in Callers : Call(u) \/ Answer(u) \/ Cancel(u)
    <3>1. PICK u \in Callers : Call(u) \/ Answer(u) \/ Cancel(u)
      BY <2>1
    <3>2. CASE Call(u)
      BY <3>2 DEF Call, CallClosed, CallHalfOpen
    <3>3. CASE Locked(u)
      BY <3>3 DEF Locked, Enters, InCall, BreakerInv, BreakerTypeOK
    <3>4. CASE Succeed(u) \/ Fail(u) \/ Cancel(u)
      BY <3>4 DEF Succeed, Fail, Cancel, Leave, Enters, InCall, BreakerInv, BreakerTypeOK
    <3>5. CASE Retry(u)
      BY <3>5 DEF Retry, InCall
    <3>6. QED
      BY <3>1, <3>2, <3>3, <3>4, <3>5 DEF Answer
  <2>2. CASE Tick \/ Toggle
    BY <2>2 DEF Tick, Toggle, InCall
  <2>3. QED
    BY <2>1, <2>2 DEF BreakerNext
<1>2. QED
  BY BreakerStarts, BreakerStep, <1>1, PTL DEF BreakerSpec, FastFail

(* OnlyProbeCloses: an open breaker closes by a probe that ends, never by the
   late success of a call that was let in before (OnSuccess against Decay). *)
THEOREM ProbeCloses == BreakerSpec => OnlyProbeCloses
<1>1. BreakerInv /\ [BreakerNext]_breakerVars
        => [status = "open" /\ status' = "closed" =>
              \E t \in Callers : where[t] = "probing" /\ where'[t] = "idle"]_breakerVars
  <2> SUFFICES ASSUME BreakerInv, BreakerNext, status = "open", status' = "closed"
               PROVE  \E t \in Callers : where[t] = "probing" /\ where'[t] = "idle"
    OBVIOUS
  <2>1. \A u \in Callers : ~Call(u) /\ ~Locked(u) /\ ~Retry(u) /\ ~Cancel(u)
    BY DEF Call, CallClosed, CallHalfOpen, Locked, Retry, Cancel, breaker
  <2>2. \A u \in Callers : ~Fail(u)
    BY DEF Fail, OnFailure
  <2>3. ~Tick /\ ~Toggle
    BY DEF Tick, Toggle, breaker
  <2>4. PICK u \in Callers : Succeed(u)
    BY <2>1, <2>2, <2>3 DEF BreakerNext, Answer
  <2>5. where[u] = "probing"
    BY <2>4 DEF Succeed, Decay
  <2>6. QED
    BY <2>4, <2>5 DEF Succeed, Leave, Enters, BreakerInv, BreakerTypeOK
<1>2. QED
  BY BreakerStarts, BreakerStep, <1>1, PTL DEF BreakerSpec, OnlyProbeCloses

-----------------------------------------------------------------------------
(* ConfigCache. *)

Values == 0..MaxWrites

Asking ==
    {Calm} \cup [at : {"select"}, now : Nat] \cup [at : {"store"}, now : Nat, val : Values]

ConfigTypes ==
    /\ clock \in Nat
    /\ stored \in Values
    /\ replaced \in [Values -> Nat \cup {-1}]
    /\ cached \in [val : Values \cup {-1}, ts : Int]
    /\ asks \in [Readers -> Asking]

(* A value that has not been replaced has no date of replacement. *)
DatesKnown == \A n \in Values : n >= stored => replaced[n] = -1

(* A value v read at or after time t was not replaced before t. *)
GoodFrom(v, t) == v <= stored /\ t <= clock /\ (replaced[v] # -1 => t <= replaced[v])

CacheIsGood == cached.val # -1 => GoodFrom(cached.val, cached.ts)

ReadsAreGood ==
    \A r \in Readers :
        /\ asks[r].at = "select" => asks[r].now <= clock
        /\ asks[r].at = "store" => GoodFrom(asks[r].val, asks[r].now)

CacheInv == ConfigTypes /\ DatesKnown /\ CacheIsGood /\ ReadsAreGood

LEMMA CacheStarts == ConfigInit => CacheInv
<1> SUFFICES ASSUME ConfigInit PROVE CacheInv
  OBVIOUS
<1>1. ConfigTypes /\ DatesKnown /\ CacheIsGood
  BY ConfigConstants, SMT
  DEF ConfigInit, ConfigTypes, Values, Asking, DatesKnown, CacheIsGood
<1>2. \A r \in Readers : asks[r].at = "idle"
  BY DEF ConfigInit, Calm
<1> QED BY <1>1, <1>2 DEF CacheInv, ReadsAreGood

(* What a reader holds, by where it is. *)
LEMMA AskingTypes ==
    ASSUME NEW a \in Asking
    PROVE  /\ a.at = "select" => a.now \in Nat
           /\ a.at = "store" => a.now \in Nat /\ a.val \in Values
BY DEF Asking, Calm

(* Whatever happens to clock and table, what was good stays good as long as
   replacements are dated with the clock. *)
Ages ==
    /\ clock' \in Nat /\ clock <= clock'
    /\ stored' \in Values /\ stored <= stored'
    /\ \A n \in Values : replaced'[n] = replaced[n] \/ replaced'[n] = clock

LEMMA StaysGood ==
    ASSUME CacheInv, Ages, NEW v \in Values, NEW t \in Int, GoodFrom(v, t)
    PROVE  GoodFrom(v, t)'
BY ConfigConstants, SMT DEF CacheInv, ConfigTypes, Values, Ages, GoodFrom

LEMMA AgesKeeps ==
    ASSUME CacheInv, Ages, UNCHANGED <<cached, asks>>
    PROVE  CacheIsGood' /\ ReadsAreGood'
<1>1. CacheIsGood'
  <2> SUFFICES ASSUME cached.val # -1 PROVE GoodFrom(cached.val, cached.ts)'
    BY DEF CacheIsGood, GoodFrom
  <2>1. cached.val \in Values /\ cached.ts \in Int
    BY DEF CacheInv, ConfigTypes
  <2> QED BY <2>1, StaysGood DEF CacheInv, CacheIsGood
<1>2. ASSUME NEW r \in Readers, asks[r].at = "select" PROVE asks[r].now <= clock'
  <2>1. asks[r].now \in Nat /\ asks[r].now <= clock
    BY <1>2, AskingTypes DEF CacheInv, ConfigTypes, ReadsAreGood
  <2> QED BY <2>1, SMT DEF CacheInv, ConfigTypes, Ages
<1>3. ASSUME NEW r \in Readers, asks[r].at = "store"
      PROVE  GoodFrom(asks[r].val, asks[r].now)'
  <2>1. asks[r].now \in Int /\ asks[r].val \in Values
    BY <1>3, AskingTypes DEF CacheInv, ConfigTypes
  <2>2. GoodFrom(asks[r].val, asks[r].now)
    BY <1>3 DEF CacheInv, ReadsAreGood
  <2> QED BY <2>1, <2>2, StaysGood
<1> QED BY <1>1, <1>2, <1>3 DEF ReadsAreGood, GoodFrom

(* A commit dates the value it replaces. *)
LEMMA CommitDates ==
    ASSUME CacheInv, Commit, UNCHANGED <<clock, asks>>,
           UNCHANGED cached
    PROVE  CacheInv'
<1>1. Ages /\ DatesKnown'
  BY ConfigConstants, SMT
  DEF CacheInv, ConfigTypes, Values, Commit, Ages, DatesKnown
<1>2. ConfigTypes'
  BY ConfigConstants, SMT DEF CacheInv, ConfigTypes, Values, Commit
<1> QED BY <1>1, <1>2, AgesKeeps DEF CacheInv

LEMMA CacheSteps == CacheInv /\ [ConfigNext]_configVars => CacheInv'
<1> SUFFICES ASSUME CacheInv, [ConfigNext]_configVars PROVE CacheInv'
  OBVIOUS
<1>1. CASE UNCHANGED configVars
  BY <1>1 DEF configVars, CacheInv, ConfigTypes, DatesKnown, CacheIsGood, ReadsAreGood, GoodFrom
<1>2. ASSUME NEW r \in Readers, AskMisses(r) PROVE CacheInv'
  <2>1. asks' = [asks EXCEPT ![r] = [at |-> "select", now |-> clock]]
        /\ UNCHANGED <<clock, stored, replaced, cached>>
    BY <1>2 DEF AskMisses
  <2>2. ConfigTypes'
    BY <2>1 DEF CacheInv, ConfigTypes, Asking
  <2>3. \A s \in Readers : asks'[s] = asks[s] \/ asks'[s] = [at |-> "select", now |-> clock]
    BY <2>1 DEF CacheInv, ConfigTypes
  <2>4. clock <= clock BY DEF CacheInv, ConfigTypes
  <2>5. ReadsAreGood'
    BY <2>1, <2>3, <2>4 DEF CacheInv, ReadsAreGood, GoodFrom
  <2> QED BY <2>1, <2>2, <2>5 DEF CacheInv, DatesKnown, CacheIsGood, GoodFrom
<1>3. ASSUME NEW r \in Readers, AskSelects(r) PROVE CacheInv'
  <2> DEFINE answer == [at |-> "store", now |-> asks[r].now, val |-> stored]
  <2>1. asks' = [asks EXCEPT ![r] = answer] /\ UNCHANGED <<clock, stored, replaced, cached>>
    BY <1>3 DEF AskSelects
  <2>2. asks[r].now \in Nat /\ asks[r].now <= clock
    BY <1>3, AskingTypes DEF AskSelects, CacheInv, ConfigTypes, ReadsAreGood
  <2>3. answer \in Asking
    BY <2>2 DEF CacheInv, ConfigTypes, Asking
  <2>4. ConfigTypes'
    BY <2>1, <2>3 DEF CacheInv, ConfigTypes
  <2>5. GoodFrom(stored, asks[r].now)
    <3>1. replaced[stored] = -1 /\ stored <= stored
      BY ConfigConstants, SMT DEF CacheInv, ConfigTypes, DatesKnown, Values
    <3> QED BY <3>1, <2>2 DEF GoodFrom
  <2>6. \A s \in Readers : asks'[s] = asks[s] \/ asks'[s] = answer
    BY <2>1 DEF CacheInv, ConfigTypes
  <2>7. ReadsAreGood'
    BY <2>1, <2>5, <2>6 DEF CacheInv, ReadsAreGood, GoodFrom
  <2> QED BY <2>1, <2>4, <2>7 DEF CacheInv, DatesKnown, CacheIsGood, GoodFrom
<1>4. ASSUME NEW r \in Readers, asks' = [asks EXCEPT ![r] = Calm],
             UNCHANGED <<clock, stored, replaced>>
      PROVE  /\ asks' \in [Readers -> Asking]
             /\ DatesKnown' /\ ReadsAreGood'
  <2>1. asks' \in [Readers -> Asking]
    BY <1>4 DEF CacheInv, ConfigTypes, Asking
  <2>2. \A s \in Readers : asks'[s] = asks[s] \/ asks'[s].at = "idle"
    BY <1>4 DEF CacheInv, ConfigTypes, Calm
  <2>3. ReadsAreGood'
    BY <1>4, <2>2 DEF CacheInv, ReadsAreGood, GoodFrom
  <2> QED BY <1>4, <2>1, <2>3 DEF CacheInv, DatesKnown
<1>5. ASSUME NEW r \in Readers, AskStores(r) PROVE CacheInv'
  <2>1. /\ asks[r].val \in Values /\ asks[r].now \in Nat
        /\ GoodFrom(asks[r].val, asks[r].now)
    BY <1>5, AskingTypes DEF AskStores, CacheInv, ConfigTypes, ReadsAreGood
  <2>2. cached' = [val |-> asks[r].val, ts |-> asks[r].now]
        /\ UNCHANGED <<clock, stored, replaced>>
    BY <1>5 DEF AskStores, Entry
  <2>3. cached' \in [val : Values \cup {-1}, ts : Int]
    BY <2>1, <2>2
  <2>4. CacheIsGood'
    BY <2>1, <2>2 DEF CacheIsGood, GoodFrom
  <2>5. asks' \in [Readers -> Asking] /\ DatesKnown' /\ ReadsAreGood'
    BY <1>4, <1>5, <2>2 DEF AskStores
  <2> QED BY <2>2, <2>3, <2>4, <2>5 DEF CacheInv, ConfigTypes
<1>6. ASSUME NEW r \in Readers, AskFails(r) PROVE CacheInv'
  <2>1. UNCHANGED <<clock, stored, replaced, cached>>
    BY <1>6 DEF AskFails
  <2>2. asks' \in [Readers -> Asking] /\ DatesKnown' /\ ReadsAreGood'
    BY <1>4, <1>6, <2>1 DEF AskFails
  <2> QED BY <2>1, <2>2 DEF CacheInv, ConfigTypes, CacheIsGood, GoodFrom
<1>7. CASE SetCommits
  BY <1>7, CommitDates DEF SetCommits
<1>8. CASE OtherWorkerSets
  BY <1>8, CommitDates DEF OtherWorkerSets
<1>9. CASE SetInvalidates
  <2>1. cached' = [cached EXCEPT !.ts = -Ttl] /\ UNCHANGED <<clock, stored, replaced, asks>>
    BY <1>9 DEF SetInvalidates
  <2>2. cached'.val = cached.val /\ cached'.ts = -Ttl /\ -Ttl \in Int
        /\ cached' \in [val : Values \cup {-1}, ts : Int]
    BY <2>1, ConfigConstants DEF CacheInv, ConfigTypes
  <2>3. CacheIsGood'
    BY <2>1, <2>2, ConfigConstants, SMT
    DEF CacheInv, ConfigTypes, Values, CacheIsGood, GoodFrom
  <2>4. ReadsAreGood' /\ DatesKnown'
    BY <2>1 DEF CacheInv, ReadsAreGood, DatesKnown, GoodFrom
  <2> QED BY <2>1, <2>2, <2>3, <2>4 DEF CacheInv, ConfigTypes
<1>10. CASE ClockTicks
  <2>1. Ages /\ ConfigTypes' /\ DatesKnown'
    BY <1>10, SMT DEF ClockTicks, CacheInv, ConfigTypes, Values, Ages, DatesKnown
  <2> QED BY <1>10, <2>1, AgesKeeps DEF ClockTicks, CacheInv
<1> QED BY <1>1, <1>2, <1>3, <1>5, <1>6, <1>7, <1>8, <1>9, <1>10 DEF ConfigNext

(* An entry of the settings cache that get_setting takes for fresh was the
   value in the table less than a time to live ago (settings_store.py): the
   entry is stamped before its rows are read. *)
THEOREM StaleAtMostOneTtl == ConfigSpec => []StaleAtMostTtl
<1>1. CacheInv => StaleAtMostTtl
  BY ConfigConstants, SMT
  DEF CacheInv, ConfigTypes, Values, CacheIsGood, GoodFrom, StaleAtMostTtl, Fresh
<1> QED BY <1>1, CacheStarts, CacheSteps, PTL DEF ConfigSpec

-----------------------------------------------------------------------------
(* DbPool. *)

LinkTypes == [use : {"free", "taken"}, snapshot : Nat \cup {-1}, dirty : BOOLEAN]

DbTypes ==
    /\ commits \in Nat
    /\ link \in [Links -> LinkTypes]
    /\ block \in [Coros -> [on : Links \cup {NoLink}, since : Nat, unwinding : BOOLEAN]]
    /\ lastRead \in [Coros -> [saw : Nat, since : Nat]]

(* What the pool holds carries no snapshot. *)
FreeIsClean == \A c \in Links : link[c].use = "free" => link[c].snapshot = -1

(* A connection is given to one block at a time, and only a block unwinds. *)
OneBlock ==
    /\ \A k \in Coros : block[k].unwinding => Mine(k) # NoLink
    /\ \A k \in Coros : Mine(k) # NoLink => link[Mine(k)].use = "taken"
    /\ \A j, k \in Coros : j # k /\ Mine(j) # NoLink => Mine(j) # Mine(k)

(* A snapshot on the connection of a block was taken by that block. *)
OwnSnapshot ==
    \A k \in Coros : Mine(k) # NoLink =>
        /\ block[k].since <= commits
        /\ link[Mine(k)].snapshot # -1 => block[k].since <= link[Mine(k)].snapshot

PoolInv == DbTypes /\ FreeIsClean /\ OneBlock /\ OwnSnapshot /\ ReadsAreFresh

LEMMA PoolStarts == DbInit => PoolInv
BY PoolConstants, SMT
DEF DbInit, PoolInv, DbTypes, LinkTypes, FreeIsClean, OneBlock, OwnSnapshot, ReadsAreFresh,
    NewLink, Outside, Mine

(* What a connection looks like when its block is over. *)
LEMMA RolledBackIsClean ==
    ASSUME NEW c \in LinkTypes, NEW after \in {RolledBack(c), NewLink}
    PROVE  after \in LinkTypes /\ after.use = "free" /\ after.snapshot = -1
<1>1. RolledBack(c) = [[use |-> c.use, snapshot |-> -1, dirty |-> FALSE] EXCEPT !.use = "free"]
  BY DEF RolledBack, Returned
<1>2. RolledBack(c) = NewLink
  BY <1>1 DEF NewLink
<1>3. after = NewLink
  BY <1>2
<1> QED BY <1>3, SMT DEF LinkTypes, NewLink

(* A block ends, normally or not, and its connection goes back. *)
LEMMA GivingBack ==
    ASSUME PoolInv, NEW k \in Coros, Mine(k) # NoLink,
           NEW after \in {RolledBack(link[Mine(k)]), NewLink},
           link' = [link EXCEPT ![Mine(k)] = after],
           block' = [block EXCEPT ![k] = Outside],
           UNCHANGED <<commits, lastRead>>
    PROVE  PoolInv'
<1>1. Mine(k) \in Links /\ link[Mine(k)] \in LinkTypes
  BY DEF PoolInv, DbTypes, Mine
<1>2. after \in LinkTypes /\ after.use = "free" /\ after.snapshot = -1
  BY <1>1, RolledBackIsClean
<1>3. DbTypes'
  BY <1>1, <1>2 DEF PoolInv, DbTypes, Outside
<1>4. FreeIsClean'
  BY <1>1, <1>2 DEF PoolInv, DbTypes, FreeIsClean
<1>5. /\ Mine(k)' = NoLink
      /\ \A j \in Coros \ {k} : block[j]' = block[j] /\ Mine(j)' = Mine(j)
      /\ \A j \in Coros \ {k} : Mine(j) # NoLink =>
            Mine(j) \in Links /\ link'[Mine(j)] = link[Mine(j)]
  BY <1>1 DEF PoolInv, DbTypes, OneBlock, Mine, Outside
<1>6. OneBlock'
  <2>1. \A j \in Coros : Mine(j)' # NoLink => link'[Mine(j)'].use = "taken"
    BY <1>5 DEF PoolInv, OneBlock
  <2>2. \A i, j \in Coros : i # j /\ Mine(i)' # NoLink => Mine(i)' # Mine(j)'
    BY <1>5 DEF PoolInv, OneBlock
  <2>3. \A j \in Coros : block'[j].unwinding => Mine(j)' # NoLink
    <3>1. ~block'[k].unwinding BY DEF PoolInv, DbTypes, Outside
    <3> QED BY <3>1, <1>5 DEF PoolInv, OneBlock
  <2> QED BY <2>1, <2>2, <2>3 DEF OneBlock
<1>7. OwnSnapshot'
  <2> SUFFICES ASSUME NEW j \in Coros, Mine(j)' # NoLink
               PROVE  /\ block'[j].since <= commits'
                      /\ link'[Mine(j)'].snapshot # -1 =>
                            block'[j].since <= link'[Mine(j)'].snapshot
    BY DEF OwnSnapshot
  <2>1. j # k BY <1>5
  <2>2. block'[j] = block[j] /\ Mine(j)' = Mine(j) /\ link'[Mine(j)] = link[Mine(j)]
    BY <2>1, <1>5
  <2> QED BY <2>1, <2>2, <1>5 DEF PoolInv, OwnSnapshot
<1>8. ReadsAreFresh'
  BY DEF PoolInv, ReadsAreFresh
<1> QED BY <1>3, <1>4, <1>6, <1>7, <1>8 DEF PoolInv

(* The coroutine's own connection is the only one a step of its block touches. *)
LEMMA Inside ==
    ASSUME PoolInv, NEW k \in Coros, Mine(k) # NoLink
    PROVE  /\ Mine(k) \in Links /\ link[Mine(k)].use = "taken"
           /\ Snapshot(Mine(k)) \in Nat /\ block[k].since \in Nat
           /\ block[k].since <= Snapshot(Mine(k))
           /\ \A j \in Coros \ {k} : Mine(j) # Mine(k) \/ Mine(j) = NoLink
BY SMT DEF PoolInv, DbTypes, LinkTypes, OneBlock, OwnSnapshot, Mine, Snapshot

LEMMA PoolSteps == PoolInv /\ [DbNext]_dbVars => PoolInv'
<1> SUFFICES ASSUME PoolInv, [DbNext]_dbVars PROVE PoolInv'
  OBVIOUS
<1>1. CASE UNCHANGED dbVars
  BY <1>1 DEF dbVars, PoolInv, DbTypes, FreeIsClean, OneBlock, OwnSnapshot, ReadsAreFresh, Mine
<1>2. ASSUME NEW k \in Coros, NEW c \in Links, BlockBegins(k, c) PROVE PoolInv'
  <2>1. DbTypes'
    <3>1. link \in [Links -> LinkTypes] /\ commits \in Nat
      BY DEF PoolInv, DbTypes
    <3>2. [link[c] EXCEPT !.use = "taken"] \in LinkTypes
      BY <3>1 DEF LinkTypes
    <3>3. link' \in [Links -> LinkTypes]
      BY <1>2, <3>1, <3>2 DEF BlockBegins
    <3>4. [on |-> c, since |-> commits, unwinding |-> FALSE]
            \in [on : Links \cup {NoLink}, since : Nat, unwinding : BOOLEAN]
      BY <3>1
    <3>5. block' \in [Coros -> [on : Links \cup {NoLink}, since : Nat, unwinding : BOOLEAN]]
      BY <1>2, <3>4 DEF BlockBegins, PoolInv, DbTypes
    <3> QED BY <1>2, <3>3, <3>5 DEF PoolInv, DbTypes, BlockBegins
  <2>2. FreeIsClean'
    BY <1>2, SMT DEF PoolInv, DbTypes, LinkTypes, FreeIsClean, BlockBegins
  <2>3. OneBlock' /\ OwnSnapshot'
    BY <1>2, PoolConstants, SMT
    DEF PoolInv, DbTypes, LinkTypes, FreeIsClean, OneBlock, OwnSnapshot, BlockBegins, Mine
  <2> QED BY <1>2, <2>1, <2>2, <2>3 DEF PoolInv, ReadsAreFresh, BlockBegins
<1>3. ASSUME NEW k \in Coros, Fetch(k) PROVE PoolInv'
  <2>1. Mine(k) # NoLink BY <1>3 DEF Fetch, Working, Mine
  <2>2. DbTypes'
    <3>1. link[Mine(k)] \in LinkTypes /\ Snapshot(Mine(k)) \in Nat /\ block[k].since \in Nat
      BY <2>1, Inside DEF PoolInv, DbTypes
    <3>2. [link[Mine(k)] EXCEPT !.snapshot = Snapshot(Mine(k))] \in LinkTypes
      BY <3>1 DEF LinkTypes
    <3>3. link' = [link EXCEPT ![Mine(k)] = [link[Mine(k)] EXCEPT !.snapshot = Snapshot(Mine(k))]]
      BY <1>3 DEF Fetch
    <3>4. link' \in [Links -> LinkTypes]
      BY <3>2, <3>3 DEF PoolInv, DbTypes
    <3>5. lastRead' \in [Coros -> [saw : Nat, since : Nat]]
      BY <1>3, <3>1 DEF PoolInv, DbTypes, Fetch
    <3> QED BY <1>3, <3>4, <3>5 DEF PoolInv, DbTypes, Fetch
  <2>3. FreeIsClean' /\ OneBlock'
    BY <1>3, <2>1, Inside, SMT
    DEF PoolInv, DbTypes, LinkTypes, FreeIsClean, OneBlock, Fetch, Mine
  <2>4. OwnSnapshot'
    BY <1>3, <2>1, Inside, SMT
    DEF PoolInv, DbTypes, LinkTypes, OneBlock, OwnSnapshot, Fetch, Mine
  <2>5. ReadsAreFresh'
    BY <1>3, <2>1, Inside, SMT DEF PoolInv, DbTypes, ReadsAreFresh, Fetch
  <2> QED BY <2>2, <2>3, <2>4, <2>5 DEF PoolInv
<1>4. ASSUME NEW k \in Coros, Execute(k) PROVE PoolInv'
  <2>1. Mine(k) # NoLink BY <1>4 DEF Execute, Working, Mine
  <2>2. DbTypes'
    <3>1. [use |-> "taken", snapshot |-> Snapshot(Mine(k)), dirty |-> TRUE] \in LinkTypes
      BY <2>1, Inside DEF LinkTypes
    <3>2. link' \in [Links -> LinkTypes]
      BY <1>4, <3>1 DEF PoolInv, DbTypes, Execute
    <3> QED BY <1>4, <3>2 DEF PoolInv, DbTypes, Execute
  <2>3. FreeIsClean' /\ OneBlock'
    BY <1>4, <2>1, Inside, SMT
    DEF PoolInv, DbTypes, LinkTypes, FreeIsClean, OneBlock, Execute, Mine
  <2>4. OwnSnapshot'
    BY <1>4, <2>1, Inside, SMT
    DEF PoolInv, DbTypes, LinkTypes, OneBlock, OwnSnapshot, Execute, Mine
  <2> QED BY <1>4, <2>2, <2>3, <2>4 DEF PoolInv, ReadsAreFresh, Execute
<1>5. ASSUME NEW k \in Coros, CommitWork(k) PROVE PoolInv'
  <2>1. Mine(k) # NoLink BY <1>5 DEF CommitWork, Working, Mine
  <2>2. DbTypes'
    <3>1. [use |-> "taken", snapshot |-> -1, dirty |-> FALSE] \in LinkTypes
      BY SMT DEF LinkTypes
    <3>2. link' \in [Links -> LinkTypes]
      BY <1>5, <3>1 DEF PoolInv, DbTypes, CommitWork
    <3>3. commits' \in Nat
      BY <1>5, SMT DEF PoolInv, DbTypes, CommitWork
    <3> QED BY <1>5, <3>2, <3>3 DEF PoolInv, DbTypes, CommitWork
  <2>3. FreeIsClean' /\ OneBlock'
    BY <1>5, <2>1, Inside, SMT
    DEF PoolInv, DbTypes, LinkTypes, FreeIsClean, OneBlock, CommitWork, Mine
  <2>4. OwnSnapshot'
    BY <1>5, <2>1, Inside, SMT
    DEF PoolInv, DbTypes, LinkTypes, OneBlock, OwnSnapshot, CommitWork, Mine
  <2> QED BY <1>5, <2>2, <2>3, <2>4 DEF PoolInv, ReadsAreFresh, CommitWork
<1>6. ASSUME NEW k \in Coros, BlockEnds(k) PROVE PoolInv'
  BY <1>6, GivingBack DEF BlockEnds, Working, Mine
<1>7. ASSUME NEW k \in Coros, Raises(k) PROVE PoolInv'
  <2>1. DbTypes' /\ FreeIsClean'
    BY <1>7 DEF PoolInv, DbTypes, FreeIsClean, Raises
  <2>2. \A j \in Coros : Mine(j)' = Mine(j) /\ block'[j].since = block[j].since
    BY <1>7 DEF PoolInv, DbTypes, Raises, Mine
  <2>3. link' = link /\ commits' = commits /\ lastRead' = lastRead
    BY <1>7 DEF Raises
  <2>4. OneBlock'
    <3>1. \A j \in Coros : Mine(j)' # NoLink => link'[Mine(j)'].use = "taken"
      BY <2>2, <2>3 DEF PoolInv, OneBlock
    <3>2. \A i, j \in Coros : i # j /\ Mine(i)' # NoLink => Mine(i)' # Mine(j)'
      BY <2>2 DEF PoolInv, OneBlock
    <3>3. \A j \in Coros : block'[j].unwinding => Mine(j)' # NoLink
      BY <1>7, <2>2 DEF PoolInv, OneBlock, DbTypes, Raises, Working, Mine
    <3> QED BY <3>1, <3>2, <3>3 DEF OneBlock
  <2>5. OwnSnapshot'
    <3>1. \A j \in Coros : Mine(j)' # NoLink =>
              /\ block'[j].since <= commits'
              /\ link'[Mine(j)'].snapshot # -1 => block'[j].since <= link'[Mine(j)'].snapshot
      BY <2>2, <2>3 DEF PoolInv, OwnSnapshot
    <3> QED BY <3>1 DEF OwnSnapshot
  <2> QED BY <2>1, <2>3, <2>4, <2>5 DEF PoolInv, ReadsAreFresh
<1>8. ASSUME NEW k \in Coros, Unwind(k) PROVE PoolInv'
  <2>1. Mine(k) # NoLink
    BY <1>8 DEF Unwind, PoolInv, OneBlock
  <2> QED BY <1>8, <2>1, GivingBack DEF Unwind
<1> QED BY <1>1, <1>2, <1>3, <1>4, <1>5, <1>6, <1>7, <1>8 DEF DbNext

(* A block never reads the database as it was before the block began
   (get_db, engine.py): whatever ends the blocks before it. *)
THEOREM BlocksReadFresh == DbSpec => []ReadsAreFresh
<1>1. PoolInv => ReadsAreFresh BY DEF PoolInv
<1> QED BY <1>1, PoolStarts, PoolSteps, PTL DEF DbSpec

-----------------------------------------------------------------------------
(* Upgrade. *)


(* A process between the lock and the end of its migrations, and one that has
   made its backup or has decided not to. *)
Beyond(w) == boot[w].at \in {"init", "next", "run", "alter", "rule", "seal", "mark"}
AtWork(w) == Stands(w, "backup") \/ Beyond(w)
Migrating(w) == boot[w].at \in {"next", "run", "alter", "rule", "seal", "mark"}

Places == {"down", "lock", "backup", "init", "next", "run", "alter", "rule", "seal", "mark",
           "up"}
Contents == [applied : SUBSET (1..LastId), missing : SUBSET ColumnMigrations]
Settings == [servers : {"absent", "empty", "sealed", "legacy"}, legacy : BOOLEAN,
             hours : BOOLEAN, minutes : {"absent", "own", "default", "converted"},
             done : BOOLEAN]

UpTypes ==
    /\ applied \subseteq 1..LastId
    /\ missing \subseteq ColumnMigrations
    /\ conf \in Settings
    /\ backups \in Seq(Contents)
    /\ boot \in [Boots -> [at : Places, i : Nat]]
    /\ \A w \in Boots : Migrating(w) =>
         boot[w].i \in 1..LastId \/ (Stands(w, "next") /\ boot[w].i = LastId + 1)
    /\ \A w \in Boots : boot[w].at \in {"rule", "seal"} => boot[w].i = 11
    /\ original \in Databases
    /\ kills \in Nat /\ later \in Nat

(* One process on SQLite; on MariaDB whoever works has the lock. *)
OneProcess ==
    engine = "sqlite" =>
      \A v, w \in Boots : ~Stands(v, "down") /\ ~Stands(w, "down") => v = w
LockedWork ==
    \A w \in Boots : AtWork(w) =>
      engine = "sqlite" \/ (engine = "mariadb" /\ latch = w)

(* The migrations are run in order. *)
InOrder == \A w \in Boots : Migrating(w) => 1..(boot[w].i - 1) \subseteq applied

(* Once migration 9 has run, the old connection is an entry of media_servers. *)
PastNine(w) == Migrating(w) /\ (boot[w].i > 9 \/ (boot[w].i = 9 /\ Stands(w, "mark")))
Promoted ==
    original.conf.legacy /\ (9 \in applied \/ \E w \in Boots : PastNine(w))
      => conf.servers = "legacy"

(* A copy has all columns, and only a copy forgets that it was migrated. *)
CopyIsNew ==
    /\ copied => missing = {}
    /\ original.journal => journal \/ copied

(* Every interrupted start makes one backup at most, the current one another;
   the rest were made by the running program. *)
FewBackups ==
    /\ Len(backups) <= kills + later + 1
    /\ journal /\ Unapplied # {} /\ (\A w \in Boots : ~Beyond(w)) =>
         Len(backups) <= kills + later

(* No rule appears between a process's look for one and its insert. *)
RulesAwaited ==
    /\ rules \in {0, 1}
    /\ \A w \in Boots : Stands(w, "rule") => rules = 0

Original == [applied |-> original.applied, missing |-> original.missing]

(* What an existing database was is in a backup before anything can change. *)
SnapshotFirst ==
    /\ original.journal /\ backupsOn /\ ~mishap /\ kills + later < Retention
    /\ Content # Original \/ \E w \in Boots : Beyond(w)
    => Original \in ToSet(backups)

ExclusionInv == UpTypes /\ OneProcess /\ LockedWork /\ NoDuplicateColumn
SafeInv ==
    /\ RulesAwaited /\ ConnectionKept /\ Promoted
    /\ InOrder /\ CopyIsNew /\ FewBackups /\ SnapshotFirst

(* The steps of one process on its way up or down. *)
ProcessStep(w) ==
    \/ Launch(w) \/ Lock(w) \/ Backup(w) \/ InitDb(w)
    \/ Next17(w) \/ LookUpColumn(w) \/ AddColumn(w)
    \/ PromoteLegacy(w) \/ RemoveLegacy(w) \/ LookUpRule(w) \/ InsertRule(w)
    \/ MarkV3(w) \/ HoursToMinutes(w) \/ OtherMigration(w) \/ Mark(w)
    \/ ComesUp(w) \/ Kill(w)

-----------------------------------------------------------------------------
(* Where a process goes. *)

LEMMA Going ==
  ASSUME UpTypes, NEW w \in Boots, NEW s \in Places, To(w, s)
  PROVE  /\ boot' \in [Boots -> [at : Places, i : Nat]]
         /\ boot'[w].at = s /\ boot'[w].i = boot[w].i
         /\ \A v \in Boots : v # w => boot'[v] = boot[v]
  BY DEF UpTypes, To

LEMMA Dying ==
  ASSUME UpTypes, NEW w \in Boots, Dies(w)
  PROVE  /\ boot' \in [Boots -> [at : Places, i : Nat]]
         /\ boot'[w].at = "down"
         /\ \A v \in Boots : v # w => boot'[v] = boot[v]
  BY DEF UpTypes, Dies, Down, Places

(* The process itself, and what is left alone. *)
LEMMA Motion ==
  ASSUME UpTypes, NEW w \in Boots, ProcessStep(w)
  PROVE  /\ boot' \in [Boots -> [at : Places, i : Nat]]
         /\ \A v \in Boots : v # w => boot'[v] = boot[v]
         /\ UNCHANGED <<engine, backupsOn, original, later, copied>>
         /\ \/ Launch(w) /\ boot'[w].at = "lock"
            \/ Lock(w) /\ boot'[w].at \in {"backup", "down"}
            \/ Backup(w) /\ boot'[w].at = "init"
            \/ InitDb(w) /\ boot'[w].at = "next" /\ boot'[w].i = 1
            \/ /\ Next17(w) /\ Stands(w, "next") /\ boot[w].i <= LastId
               /\ \/ /\ boot'[w].at = "next" /\ boot'[w].i = boot[w].i + 1
                     /\ boot[w].i \in applied
                  \/ boot'[w].at = "run" /\ boot'[w].i = boot[w].i
            \/ /\ Migrating(w) /\ boot'[w].at \in {"mark", "alter", "rule", "seal"}
               /\ boot'[w].i = boot[w].i
               /\ ~Stands(w, "mark") /\ ~Stands(w, "next")
               /\ boot'[w].at = "alter" =>
                    boot[w].i \in missing /\ missing' = missing
               /\ boot'[w].at \in {"rule", "seal"} => boot[w].i = 11
            \/ AddColumn(w) /\ boot'[w].at = "down" /\ boot[w].i \notin missing
            \/ Mark(w) /\ Stands(w, "mark") /\ boot'[w].at = "next" /\ boot'[w].i = boot[w].i + 1
            \/ ComesUp(w) /\ boot'[w].at = "up"
            \/ Kill(w) /\ boot'[w].at = "down"
<1>1. CASE Launch(w) \/ Lock(w) \/ Backup(w)
  BY <1>1, Going, Dying DEF Launch, Lock, Backup, Places, data, history
<1>2. CASE InitDb(w)
  BY <1>2 DEF InitDb, UpTypes, Places, history
<1>3. CASE Next17(w)
  <2>1. CASE boot[w].i \in applied /\ boot' = [boot EXCEPT ![w].i = @ + 1]
    BY <1>3, <2>1 DEF Next17, UpTypes, Migrating, Stands, data, history
  <2>2. CASE boot[w].i \notin applied /\ To(w, "run")
    BY <1>3, <2>2, Going DEF Next17, Places, Migrating, Stands, data, history
  <2>3. QED
    BY <1>3, <2>1, <2>2 DEF Next17
<1>4. CASE LookUpColumn(w)
  BY <1>4, Going DEF LookUpColumn, Places, Migrating, Stands, data, history
<1>5. CASE AddColumn(w)
  BY <1>5, Going, Dying DEF AddColumn, Ran, Places, Migrating, Stands, history
<1>6. CASE PromoteLegacy(w) \/ RemoveLegacy(w) \/ LookUpRule(w) \/ HoursToMinutes(w)
  <2>1. /\ Stands(w, "run") /\ UNCHANGED <<engine, backupsOn, original, later, copied>>
        /\ To(w, "mark") \/ ((To(w, "seal") \/ To(w, "rule")) /\ boot[w].i = 11)
    BY <1>6 DEF PromoteLegacy, RemoveLegacy, LookUpRule, HoursToMinutes, Executing, Ran,
       data, history
  <2>2. QED
    BY <2>1, Going DEF Places, Migrating, Stands
<1>7. CASE InsertRule(w) \/ MarkV3(w) \/ OtherMigration(w)
  <2>1. boot[w].at \in {"rule", "seal"} => boot[w].i = 11
    BY DEF UpTypes
  <2>2. QED
    BY <1>7, <2>1, Going DEF InsertRule, MarkV3, OtherMigration, Ran, Places, Migrating,
       Stands, data, history
<1>8. CASE Mark(w)
  BY <1>8 DEF Mark, UpTypes, Places, Stands, history
<1>9. CASE ComesUp(w)
  BY <1>9 DEF ComesUp, UpTypes, Places, data, history
<1>10. CASE Kill(w)
  BY <1>10, Dying DEF Kill, data
<1>11. QED
  BY <1>1, <1>2, <1>3, <1>4, <1>5, <1>6, <1>7, <1>8, <1>9, <1>10 DEF ProcessStep

(* What a process does to the database and to the files. *)
LEMMA DataMotion ==
  ASSUME NEW w \in Boots, ProcessStep(w)
  PROVE  /\ applied' = applied \/ (Mark(w) /\ applied' = applied \cup {boot[w].i})
         /\ \/ missing' = missing
            \/ InitDb(w) /\ missing' = {}
            \/ AddColumn(w) /\ missing' = missing \ {boot[w].i}
         /\ journal' = journal \/ (InitDb(w) /\ journal' = TRUE)
         /\ rules' = rules \/ (InsertRule(w) /\ rules' = rules + 1)
         /\ UNCHANGED <<backups, mishap>> \/ Backup(w)
         /\ kills' = kills \/ (Kill(w) /\ kills' = kills + 1)
         /\ UNCHANGED conf \/ InitDb(w) \/ PromoteLegacy(w) \/ RemoveLegacy(w)
              \/ MarkV3(w) \/ HoursToMinutes(w)
         /\ \/ UNCHANGED latch
            \/ Lock(w) /\ engine = "mariadb" /\ latch = NoBoot /\ latch' = w
            \/ FreeLatch(w) /\ (AddColumn(w) \/ ComesUp(w) \/ Kill(w))
<1>1. CASE Launch(w) \/ Lock(w) \/ Backup(w)
  BY <1>1 DEF Launch, Lock, Backup, data, history
<1>2. CASE InitDb(w)
  BY <1>2 DEF InitDb, InitSqlite, InitMariadb, history
<1>3. CASE Next17(w) \/ LookUpColumn(w) \/ LookUpRule(w) \/ OtherMigration(w)
  BY <1>3 DEF Next17, LookUpColumn, LookUpRule, OtherMigration, data, history
<1>4. CASE AddColumn(w)
  BY <1>4 DEF AddColumn, history
<1>5. CASE PromoteLegacy(w) \/ RemoveLegacy(w) \/ MarkV3(w) \/ HoursToMinutes(w)
  BY <1>5 DEF PromoteLegacy, RemoveLegacy, MarkV3, HoursToMinutes, history
<1>6. CASE InsertRule(w)
  BY <1>6 DEF InsertRule, history
<1>7. CASE Mark(w)
  BY <1>7 DEF Mark, history
<1>8. CASE ComesUp(w) \/ Kill(w)
  BY <1>8 DEF ComesUp, Kill, data, history
<1>9. QED
  BY <1>1, <1>2, <1>3, <1>4, <1>5, <1>6, <1>7, <1>8 DEF ProcessStep

(* The settings: what each writer makes of the connection. *)
LEMMA ConfMotion ==
  ASSUME UpTypes, NEW w \in Boots, ProcessStep(w)
  PROVE  /\ conf' \in Settings
         /\ conf.servers = "legacy" => conf'.servers = "legacy"
         /\ conf'.legacy = conf.legacy \/ (Executing(w, 10) /\ conf'.servers = conf.servers)
         /\ PromoteLegacy(w) /\ conf.legacy => conf'.servers = "legacy"
<1>0. conf \in Settings
  BY DEF UpTypes
<1>1. CASE UNCHANGED conf
  BY <1>0, <1>1 DEF PromoteLegacy, Settings
<1>2. CASE InitDb(w)
  <2>1. /\ conf'.servers \in {"absent", "empty", "sealed", "legacy"}
        /\ conf.servers = "legacy" => conf'.servers = "legacy"
        /\ conf'.legacy = conf.legacy
        /\ conf' \in Settings
    BY <1>0, <1>2 DEF InitDb, InitSqlite, InitMariadb, Seeded, Sealed, Settings
  <2>2. ~PromoteLegacy(w)
    BY <1>2 DEF InitDb, PromoteLegacy, Executing, Stands
  <2>3. QED
    BY <2>1, <2>2
<1>3. CASE PromoteLegacy(w)
  BY <1>0, <1>3 DEF PromoteLegacy, Settings
<1>4. CASE RemoveLegacy(w) \/ MarkV3(w) \/ HoursToMinutes(w)
  <2>1. ~PromoteLegacy(w)
    BY <1>4 DEF RemoveLegacy, MarkV3, HoursToMinutes, PromoteLegacy, Executing, Stands
  <2>2. QED
    BY <1>0, <1>4, <2>1 DEF RemoveLegacy, MarkV3, HoursToMinutes, Settings
<1>5. QED
  BY <1>1, <1>2, <1>3, <1>4, DataMotion

(* The files: at most one more, and none is lost below the limit. *)
LEMMA Saved ==
  ASSUME UpTypes, UpgradeConstants, NEW c \in Contents, backups' = Pruned(Append(backups, c))
  PROVE  /\ backups' \in Seq(Contents)
         /\ Len(backups') <= Len(backups) + 1
         /\ Len(backups) < Retention => ToSet(backups') = ToSet(backups) \cup {c}
<1> DEFINE files == Append(backups, c)
<1>1. /\ files \in Seq(Contents) /\ Len(files) = Len(backups) + 1
      /\ Len(backups) \in Nat /\ Retention \in Nat
      /\ \A k \in 1..Len(backups) : files[k] = backups[k]
      /\ files[Len(backups) + 1] = c
  BY DEF UpTypes, UpgradeConstants
<1>2. CASE Len(files) > Retention
  <2>1. backups' = Tail(files) /\ files # <<>>
    BY <1>1, <1>2 DEF Pruned
  <2>2. backups' \in Seq(Contents) /\ Len(backups') = Len(files) - 1
    BY <1>1, <2>1
  <2>3. QED
    BY <1>1, <1>2, <2>2
<1>3. CASE ~(Len(files) > Retention)
  <2>1. backups' = files
    BY <1>3 DEF Pruned
  <2>2. /\ DOMAIN files = 1..(Len(backups) + 1)
        /\ DOMAIN backups = 1..Len(backups)
    BY <1>1 DEF UpTypes
  <2>3. 1..(Len(backups) + 1) = 1..Len(backups) \cup {Len(backups) + 1}
    BY <1>1
  <2> HIDE DEF files
  <2>4. ToSet(files) = ToSet(backups) \cup {c}
    BY <1>1, <2>2, <2>3 DEF ToSet
  <2>5. QED
    BY <1>1, <2>1, <2>4
<1>4. QED
  BY <1>2, <1>3

LEMMA TypesStep ==
  ASSUME UpTypes, UpgradeConstants, NEW w \in Boots, ProcessStep(w)
  PROVE  UpTypes'
<1>1. boot' \in [Boots -> [at : Places, i : Nat]] /\ original' \in Databases
  BY Motion DEF UpTypes
<1>2. \A v \in Boots : Migrating(v)' =>
        boot'[v].i \in 1..LastId \/ (Stands(v, "next")' /\ boot'[v].i = LastId + 1)
  <2>1. ASSUME NEW v \in Boots, v # w, Migrating(v)'
        PROVE  boot'[v].i \in 1..LastId \/ (Stands(v, "next")' /\ boot'[v].i = LastId + 1)
    BY <2>1, Motion DEF UpTypes, Migrating, Stands
  <2>2. ASSUME Migrating(w)'
        PROVE  boot'[w].i \in 1..LastId \/ (Stands(w, "next")' /\ boot'[w].i = LastId + 1)
    <3>1. boot'[w].at \in {"next", "run", "alter", "rule", "seal", "mark"}
      BY <2>2 DEF Migrating
    <3>2. Migrating(w) => boot[w].i \in 1..LastId \/ (Stands(w, "next") /\ boot[w].i = LastId + 1)
      BY DEF UpTypes
    <3>3. QED
      BY <3>1, <3>2, Motion DEF Migrating, Stands, LastId
  <2>3. QED
    BY <2>1, <2>2
<1>3. \A v \in Boots : boot'[v].at \in {"rule", "seal"} => boot'[v].i = 11
  BY Motion DEF UpTypes
<1>4. conf' \in Settings
  BY ConfMotion
<1>5. missing' \subseteq ColumnMigrations /\ kills' \in Nat /\ later' \in Nat
  <2>1. missing' \subseteq missing /\ kills' \in {kills, kills + 1} /\ later' = later
    BY DataMotion, Motion
  <2>2. QED
    BY <2>1 DEF UpTypes
<1>6. applied' \subseteq 1..LastId
  <2>1. CASE Mark(w)
    BY <2>1, DataMotion DEF UpTypes, Mark, Migrating, Stands
  <2>2. QED
    BY <2>1, DataMotion DEF UpTypes
<1>7. backups' \in Seq(Contents)
  <2>1. Content \in Contents
    BY DEF UpTypes, Content, Contents
  <2>2. CASE Backup(w)
    BY <2>1, <2>2, Saved DEF Backup, UpTypes
  <2>3. QED
    BY <2>2, DataMotion DEF UpTypes
<1>8. QED
  BY <1>1, <1>2, <1>3, <1>4, <1>5, <1>6, <1>7 DEF UpTypes

-----------------------------------------------------------------------------
(* One migration at a time. *)

(* No two processes are between the lock and the end of their migrations. *)
LEMMA OneWorks ==
  ASSUME OneProcess, LockedWork, NEW v \in Boots, NEW w \in Boots, AtWork(v), AtWork(w)
  PROVE  v = w
  BY DEF OneProcess, LockedWork, AtWork, Beyond, Stands

LEMMA OneProcessStep ==
  ASSUME UpTypes, OneProcess, NEW w \in Boots, ProcessStep(w)
  PROVE  OneProcess'
<1>1. engine' = engine /\ \A v \in Boots : v # w => boot'[v] = boot[v]
  BY Motion
<1>2. CASE Launch(w)
  BY <1>1, <1>2 DEF Launch, OneProcess, Stands
<1>3. CASE ~Launch(w)
  <2>1. ~Stands(w, "down")
    BY <1>3 DEF ProcessStep, Lock, Backup, InitDb, Next17, LookUpColumn, AddColumn,
       PromoteLegacy, RemoveLegacy, LookUpRule, InsertRule, MarkV3, HoursToMinutes,
       OtherMigration, Mark, ComesUp, Kill, Executing, Stands
  <2>2. QED
    BY <1>1, <2>1 DEF OneProcess, Stands
<1>4. QED
  BY <1>2, <1>3

(* Who is working was working before, except for the one that gets the lock. *)
LEMMA WorkContinues ==
  ASSUME UpTypes, NEW w \in Boots, ProcessStep(w), ~Lock(w)
  PROVE  /\ AtWork(w)' => AtWork(w)
         /\ ~AtWork(w) => boot'[w].at # "alter"
  BY Motion DEF AtWork, Beyond, Migrating, Stands, Backup, InitDb, AddColumn, Mark

LEMMA LockedWorkStep ==
  ASSUME UpTypes, UpgradeConstants, OneProcess, LockedWork, NEW w \in Boots, ProcessStep(w)
  PROVE  LockedWork'
<1>1. engine' = engine /\ \A v \in Boots : v # w => boot'[v] = boot[v]
  BY Motion
<1> SUFFICES ASSUME NEW v \in Boots, AtWork(v)', engine # "sqlite"
             PROVE  engine = "mariadb" /\ latch' = v
  BY <1>1 DEF LockedWork
<1>2. CASE v # w
  <2>1. AtWork(v)
    BY <1>1, <1>2 DEF AtWork, Beyond, Stands
  <2>2. engine = "mariadb" /\ latch = v
    BY <2>1 DEF LockedWork
  <2>3. latch' = latch
    BY <1>2, <2>2, DataMotion DEF UpgradeConstants, FreeLatch
  <2>4. QED
    BY <2>2, <2>3
<1>3. CASE v = w /\ Lock(w)
  <2>1. boot'[w].at # "down"
    BY <1>3 DEF AtWork, Beyond, Stands
  <2>2. ~Dies(w)
    BY <2>1, Dying
  <2>3. QED
    BY <1>3, <2>2 DEF Lock
<1>4. CASE v = w /\ ~Lock(w)
  <2>1. AtWork(w)
    BY <1>4, WorkContinues
  <2>2. engine = "mariadb" /\ latch = w
    BY <2>1 DEF LockedWork
  <2>3. boot'[w].at \notin {"down", "up"}
    BY <1>4 DEF AtWork, Beyond, Stands
  <2>4. ~ComesUp(w) /\ ~Kill(w) /\ (AddColumn(w) => UNCHANGED latch)
    <3>1. ~ComesUp(w)
      BY <2>3 DEF ComesUp, UpTypes
    <3>2. ~Kill(w)
      BY <2>3, Dying DEF Kill
    <3>3. AddColumn(w) => UNCHANGED latch
      BY <2>3, Dying DEF AddColumn
    <3>4. QED
      BY <3>1, <3>2, <3>3
  <2>5. QED
    BY <1>4, <2>2, <2>4, DataMotion
<1>5. QED
  BY <1>2, <1>3, <1>4

(* The columns that a process has seen missing stay missing until it adds
   them: nobody else is migrating. *)
LEMMA NoDuplicateStep ==
  ASSUME UpTypes, OneProcess, LockedWork, NoDuplicateColumn, NEW w \in Boots, ProcessStep(w)
  PROVE  NoDuplicateColumn'
<1> SUFFICES ASSUME NEW v \in Boots, boot'[v].at = "alter" PROVE boot'[v].i \in missing'
  BY DEF NoDuplicateColumn, Stands
<1>1. CASE v = w
  BY <1>1, Motion
<1>2. CASE v # w
  <2>1. boot'[v] = boot[v]
    BY <1>2, Motion
  <2>2. AtWork(v) /\ boot[v].i \in missing
    BY <2>1 DEF AtWork, Beyond, NoDuplicateColumn, Stands
  <2>3. ~AtWork(w)
    BY <1>2, <2>2, OneWorks
  <2>4. missing' = missing
    BY <2>3, DataMotion DEF AtWork, Beyond, InitDb, AddColumn, Stands
  <2>5. QED
    BY <2>1, <2>2, <2>4
<1>3. QED
  BY <1>1, <1>2

(* The three kinds of database a start may find. *)
LEMMA Found ==
  ASSUME NEW d \in Databases
  PROVE  /\ d.applied \subseteq 1..LastId /\ d.missing \subseteq ColumnMigrations
         /\ d.conf \in Settings
         /\ d.journal \in BOOLEAN
         /\ 9 \notin d.applied
         /\ d.journal => d.applied = 1..8 /\ d.missing # {}
<1>1. 1..8 \subseteq 1..LastId /\ 9 \notin 1..8
  BY DEF LastId
<1>2. {14, 15, 16} \subseteq ColumnMigrations /\ {14, 15, 16} # {}
  BY DEF ColumnMigrations
<1>3. 1..8 \in SUBSET (1..LastId) /\ {} \in SUBSET (1..LastId)
  BY <1>1
<1>4. \/ d.applied = {} /\ d.missing = {} /\ d.journal = FALSE
      \/ d.applied = {} /\ d.missing = ColumnMigrations /\ d.journal = FALSE
      \/ d.applied = 1..8 /\ d.missing = {14, 15, 16} /\ d.journal = TRUE
  BY DEF Databases
<1>5. /\ [servers |-> "absent", legacy |-> FALSE, hours |-> FALSE,
          minutes |-> "absent", done |-> FALSE] \in Settings
      /\ [servers |-> "absent", legacy |-> TRUE, hours |-> TRUE,
          minutes |-> "absent", done |-> FALSE] \in Settings
      /\ [servers |-> "empty", legacy |-> TRUE, hours |-> FALSE,
          minutes |-> "own", done |-> FALSE] \in Settings
  BY DEF Settings
<1>6. \E c \in Settings : \E k, p, m, l :
        d = [journal |-> k, applied |-> p, missing |-> m, library |-> l, conf |-> c]
  BY <1>5, Zenon DEF Databases
<1>7. d.conf \in Settings
  BY <1>6
<1>8. QED
  BY <1>1, <1>2, <1>3, <1>4, <1>7

LEMMA ExclusionStarts == UpInit => ExclusionInv
<1> SUFFICES ASSUME UpInit PROVE ExclusionInv
  OBVIOUS
<1>1. PICK d \in Databases :
        /\ journal = d.journal /\ applied = d.applied /\ missing = d.missing
        /\ conf = d.conf /\ library = d.library /\ original = d
  BY DEF UpInit
<1>2. boot = [w \in Boots |-> Down] /\ backups = <<>> /\ kills = 0 /\ later = 0
  BY DEF UpInit
<1>3. UpTypes
  <2>1. backups \in Seq(Contents) /\ kills \in Nat /\ later \in Nat
    BY <1>2
  <2>2. boot \in [Boots -> [at : Places, i : Nat]]
    BY <1>2 DEF Down, Places
  <2>3. \A w \in Boots : ~Migrating(w) /\ boot[w].at \notin {"rule", "seal"}
    BY <1>2 DEF Down, Migrating
  <2>4. QED
    BY <1>1, <2>1, <2>2, <2>3, Found DEF UpTypes
<1>4. OneProcess /\ LockedWork /\ NoDuplicateColumn
  BY <1>2 DEF OneProcess, LockedWork, NoDuplicateColumn, AtWork, Beyond, Stands, Down
<1>5. QED
  BY <1>3, <1>4 DEF ExclusionInv

LEMMA ExclusionStep == UpgradeConstants /\ ExclusionInv /\ [UpNext]_upVars => ExclusionInv'
<1> SUFFICES ASSUME UpgradeConstants, ExclusionInv, [UpNext]_upVars PROVE ExclusionInv'
  OBVIOUS
<1> USE DEF ExclusionInv
<1>1. CASE \E w \in Boots : ProcessStep(w)
  BY <1>1, TypesStep, OneProcessStep, LockedWorkStep, NoDuplicateStep
<1>2. CASE AddLibrary
  BY <1>2 DEF AddLibrary, history, UpTypes, OneProcess, LockedWork, NoDuplicateColumn, AtWork,
     Beyond, Migrating, Stands
<1>3. CASE CopyDatabase
  BY <1>3 DEF CopyDatabase, UpTypes, OneProcess, LockedWork, NoDuplicateColumn, AtWork,
     Beyond, Migrating, Stands
<1>4. CASE UNCHANGED upVars
  BY <1>4 DEF upVars, history, UpTypes, OneProcess, LockedWork, NoDuplicateColumn, AtWork,
     Beyond, Migrating, Stands
<1>5. CASE \E w \in Boots : RunBackup(w)
  <2>1. Content \in Contents
    BY DEF UpTypes, Content, Contents
  <2>2. backups' \in Seq(Contents) /\ later' \in Nat
    BY <1>5, <2>1, Saved DEF RunBackup, UpTypes
  <2>3. UNCHANGED <<data, boot, latch, original, kills>>
    BY <1>5 DEF RunBackup
  <2>4. QED
    BY <2>2, <2>3 DEF data, UpTypes, OneProcess, LockedWork, NoDuplicateColumn, AtWork,
       Beyond, Migrating, Stands
<1>6. QED
  BY <1>1, <1>2, <1>3, <1>4, <1>5 DEF UpNext, ProcessStep

(* NoDuplicateColumn: on either engine and with any number of processes, a
   process that is about to add a column still finds it missing, because the
   migrations of two processes never overlap (migration_lock). *)
THEOREM ColumnsAddedOnce == UpgradeConstants /\ UpSpec => []NoDuplicateColumn
<1>1. ExclusionInv => NoDuplicateColumn
  BY DEF ExclusionInv
<1>2. ASSUME UpgradeConstants PROVE UpSpec => []NoDuplicateColumn
  <2>1. ExclusionInv /\ [UpNext]_upVars => ExclusionInv'
    BY <1>2, ExclusionStep
  <2>2. QED
    BY <1>1, <2>1, ExclusionStarts, PTL DEF UpSpec
<1>3. QED
  BY <1>2

-----------------------------------------------------------------------------
(* The data of an interrupted start. *)

(* The migrations are run in order: marked before the next one, up to the
   last. *)
LEMMA InOrderStep ==
  ASSUME UpTypes, InOrder, NEW w \in Boots, ProcessStep(w)
  PROVE  InOrder'
<1>1. applied \subseteq applied'
  BY DataMotion
<1> SUFFICES ASSUME NEW v \in Boots, Migrating(v)' PROVE 1..(boot'[v].i - 1) \subseteq applied'
  BY DEF InOrder
<1>2. CASE v # w
  BY <1>1, <1>2, Motion DEF InOrder, Migrating
<1>3. CASE v = w
  <2>1. boot'[w].at \in {"next", "run", "alter", "rule", "seal", "mark"}
    BY <1>3 DEF Migrating
  <2>2. boot[w].i \in Nat
    BY DEF UpTypes
  <2>3. CASE InitDb(w) /\ boot'[w].i = 1
    BY <1>3, <2>3
  <2>4. CASE Migrating(w) /\ boot'[w].i = boot[w].i
    BY <1>1, <1>3, <2>4 DEF InOrder
  <2>5. CASE Migrating(w) /\ boot'[w].i = boot[w].i + 1 /\ boot[w].i \in applied'
    <3>1. 1..(boot'[w].i - 1) \subseteq 1..(boot[w].i - 1) \cup {boot[w].i}
      BY <2>2, <2>5
    <3>2. QED
      BY <1>1, <1>3, <2>5, <3>1 DEF InOrder
  <2>6. Mark(w) => boot[w].i \in applied'
    BY DEF Mark
  <2>7. QED
    BY <1>1, <2>1, <2>3, <2>4, <2>5, <2>6, Motion DEF Migrating, Stands
<1>4. QED
  BY <1>2, <1>3

(* A start that has come to its end has applied all of them. *)
LEMMA StartedIsDone ==
  ASSUME UpTypes, InOrder, NEW w \in Boots, ComesUp(w)
  PROVE  Unapplied = {}
<1>1. boot[w].i = LastId + 1 /\ Migrating(w)
  <2>1. boot[w].at = "next" /\ boot[w].i > LastId /\ Migrating(w)
    BY DEF ComesUp, Migrating, Stands
  <2>2. boot[w].i \in 1..LastId \/ boot[w].i = LastId + 1
    BY <2>1 DEF UpTypes
  <2>3. QED
    BY <2>1, <2>2 DEF LastId
<1>2. 1..LastId \subseteq applied
  BY <1>1 DEF InOrder, LastId
<1>3. QED
  BY <1>2 DEF Unapplied

(* The connection: every writer keeps what migration 9 has made of it, and
   migration 10 removes the old keys only after it. *)
LEMMA ConnectionStep ==
  ASSUME UpTypes, NoDuplicateColumn, ConnectionKept, Promoted, NEW w \in Boots, ProcessStep(w)
  PROVE  ConnectionKept' /\ Promoted'
<1>1. original' = original /\ \A v \in Boots : v # w => boot'[v] = boot[v]
  BY Motion
<1> SUFFICES ASSUME original.conf.legacy
             PROVE  /\ conf'.legacy \/ conf'.servers = "legacy"
                    /\ 9 \in applied' \/ (\E v \in Boots : PastNine(v)') => conf'.servers = "legacy"
  BY <1>1 DEF ConnectionKept, Promoted
<1>2. conf'.legacy \/ conf'.servers = "legacy"
  <2>1. CASE conf'.legacy = conf.legacy
    BY <2>1, ConfMotion DEF ConnectionKept
  <2>2. CASE Executing(w, 10) /\ conf'.servers = conf.servers
    <3>1. PastNine(w)
      BY <2>2 DEF Executing, PastNine, Migrating, Stands
    <3>2. QED
      BY <2>2, <3>1 DEF Promoted
  <2>3. QED
    BY <2>1, <2>2, ConfMotion
<1>3. ASSUME 9 \in applied' PROVE conf'.servers = "legacy"
  <2>1. CASE 9 \in applied
    BY <2>1, ConfMotion DEF Promoted
  <2>2. CASE 9 \notin applied
    <3>1. Mark(w) /\ boot[w].i = 9
      BY <1>3, <2>2, DataMotion
    <3>2. PastNine(w)
      BY <3>1 DEF Mark, PastNine, Migrating, Stands
    <3>3. QED
      BY <3>2, ConfMotion DEF Promoted
  <2>3. QED
    BY <2>1, <2>2
<1>4. ASSUME NEW v \in Boots, PastNine(v)' PROVE conf'.servers = "legacy"
  <2>1. CASE v # w
    <3>1. PastNine(v)
      BY <1>1, <1>4, <2>1 DEF PastNine, Migrating, Stands
    <3>2. QED
      BY <3>1, ConfMotion DEF Promoted
  <2>2. CASE v = w /\ (PastNine(w) \/ 9 \in applied)
    BY <2>2, ConfMotion DEF Promoted
  <2>3. CASE v = w /\ ~PastNine(w) /\ 9 \notin applied
    <3>1. /\ boot'[w].at \in {"next", "run", "alter", "rule", "seal", "mark"}
          /\ boot'[w].i > 9 \/ (boot'[w].i = 9 /\ boot'[w].at = "mark")
      BY <1>4, <2>3 DEF PastNine, Migrating, Stands
    <3>2. boot[w].i \in Nat
      BY DEF UpTypes
    <3>3. Migrating(w) /\ boot[w].i = 9 /\ ~Stands(w, "mark") /\ ~Stands(w, "next")
      BY <2>3, <3>1, <3>2, Motion DEF PastNine, Migrating, Stands
    <3>4. PromoteLegacy(w)
      <4>1. Stands(w, "run")
        BY <3>3 DEF Migrating, Stands, NoDuplicateColumn, UpTypes, ColumnMigrations
      <4>2. /\ boot'[w].at \notin {"lock", "backup", "down", "init", "up"}
            /\ boot'[w].at # "next" \/ boot'[w].i > 9
        BY <3>1
      <4>3. ~InitDb(w) /\ ~Next17(w) /\ ~Mark(w) /\ ~Backup(w) /\ ~Launch(w) /\ ~Lock(w)
        BY <4>1 DEF InitDb, Next17, Mark, Backup, Launch, Lock, Stands
      <4>4. ~LookUpColumn(w) /\ ~AddColumn(w) /\ ~OtherMigration(w) /\ ~MarkV3(w)
            /\ ~InsertRule(w)
        BY <3>3, <4>1 DEF LookUpColumn, AddColumn, OtherMigration, MarkV3, InsertRule,
           ColumnMigrations, Stands
      <4>5. ~RemoveLegacy(w) /\ ~LookUpRule(w) /\ ~HoursToMinutes(w)
        BY <3>3 DEF RemoveLegacy, LookUpRule, HoursToMinutes, Executing
      <4>6. ~ComesUp(w) /\ ~Kill(w)
        BY <4>2, <4>1, Dying DEF ComesUp, Kill, Stands
      <4>7. QED
        BY <4>3, <4>4, <4>5, <4>6 DEF ProcessStep
    <3>5. conf.legacy \/ conf.servers = "legacy"
      BY DEF ConnectionKept
    <3>6. QED
      BY <3>4, <3>5, ConfMotion
  <2>4. QED
    BY <2>1, <2>2, <2>3
<1>5. QED
  BY <1>2, <1>3, <1>4

-----------------------------------------------------------------------------
(* The backup before the migrations. *)

(* A process gets beyond the backup by its own turn at it, and leaves by
   finishing or by being killed. *)
LEMMA BeyondMotion ==
  ASSUME UpTypes, NoDuplicateColumn, NEW w \in Boots, ProcessStep(w)
  PROVE  /\ Beyond(w)' => Beyond(w) \/ Backup(w)
         /\ Beyond(w) => Beyond(w)' \/ ComesUp(w) \/ Kill(w)
         /\ Backup(w) => AtWork(w) /\ ~Beyond(w) /\ Beyond(w)'
         /\ InitDb(w) => Beyond(w)'
         /\ (applied' = applied /\ missing' = missing) \/ Beyond(w)
<1>1. Beyond(w)' => Beyond(w) \/ Backup(w)
  <2> SUFFICES ASSUME Beyond(w)', ~Beyond(w), ~Backup(w) PROVE FALSE
    OBVIOUS
  <2>1. boot'[w].at \notin {"lock", "backup", "down", "up"}
    BY DEF Beyond
  <2>2. ~Migrating(w) /\ ~Stands(w, "init") /\ ~Stands(w, "next") /\ ~Stands(w, "mark")
    BY DEF Beyond, Migrating, Stands
  <2>3. ~InitDb(w)
    BY <2>2 DEF InitDb
  <2>4. QED
    BY <2>1, <2>2, <2>3, Motion
<1>2. Beyond(w) => Beyond(w)' \/ ComesUp(w) \/ Kill(w)
  <2> SUFFICES ASSUME Beyond(w), ~ComesUp(w), ~Kill(w)
               PROVE  boot'[w].at \in {"init", "next", "run", "alter", "rule", "seal", "mark"}
    BY DEF Beyond
  <2>1. ~Launch(w) /\ ~Lock(w)
    BY DEF Beyond, Launch, Lock, Stands
  <2>2. ~(AddColumn(w) /\ boot[w].i \notin missing)
    BY DEF AddColumn, NoDuplicateColumn
  <2>3. QED
    BY <2>1, <2>2, Motion
<1>3. Backup(w) => AtWork(w) /\ ~Beyond(w) /\ Beyond(w)'
  <2>1. Backup(w) => Stands(w, "backup") /\ To(w, "init")
    BY DEF Backup
  <2>2. QED
    BY <2>1, Going DEF AtWork, Beyond, Stands, Places
<1>4. InitDb(w) => Beyond(w)'
  BY DEF InitDb, Beyond, UpTypes
<1>5. (applied' = applied /\ missing' = missing) \/ Beyond(w)
  BY DataMotion DEF Mark, InitDb, AddColumn, Beyond, Stands
<1>6. QED
  BY <1>1, <1>2, <1>3, <1>4, <1>5

(* Nobody is beyond the backup while another is at it. *)
LEMMA BackupAlone ==
  ASSUME UpTypes, OneProcess, LockedWork, NoDuplicateColumn, NEW w \in Boots, Backup(w)
  PROVE  \A v \in Boots : ~Beyond(v)
<1>1. AtWork(w) /\ ~Beyond(w)
  BY BeyondMotion DEF ProcessStep
<1>2. QED
  BY <1>1, OneWorks DEF AtWork

(* A process comes to the insert of a rule by the look for one only. *)
LEMMA OnlyLooking ==
  ASSUME UpTypes, NEW w \in Boots, ProcessStep(w), ~LookUpRule(w)
  PROVE  boot'[w].at # "rule"
<1>1. CASE Launch(w) \/ Lock(w) \/ Backup(w) \/ InitDb(w) \/ Mark(w) \/ ComesUp(w) \/ Kill(w)
  BY <1>1, Going, Dying DEF Launch, Lock, Backup, InitDb, Mark, ComesUp, Kill, UpTypes, Places
<1>2. CASE Next17(w)
  BY <1>2, Going DEF Next17, Stands, UpTypes, Places
<1>3. CASE LookUpColumn(w) \/ AddColumn(w)
  BY <1>3, Going, Dying DEF LookUpColumn, AddColumn, Ran, Places
<1>4. CASE PromoteLegacy(w) \/ RemoveLegacy(w) \/ InsertRule(w) \/ MarkV3(w)
           \/ HoursToMinutes(w) \/ OtherMigration(w)
  BY <1>4, Going DEF PromoteLegacy, RemoveLegacy, InsertRule, MarkV3, HoursToMinutes,
     OtherMigration, Ran, Places
<1>5. QED
  BY <1>1, <1>2, <1>3, <1>4 DEF ProcessStep

(* The insert of a rule: who has found none is alone. *)
LEMMA RulesStep ==
  ASSUME UpTypes, OneProcess, LockedWork, RulesAwaited, NEW w \in Boots, ProcessStep(w)
  PROVE  RulesAwaited'
<1>1. \A v \in Boots : v # w => boot'[v] = boot[v]
  BY Motion
<1>2. CASE InsertRule(w)
  <2>1. rules = 0 /\ rules' = 1 /\ boot'[w].at = "seal" /\ AtWork(w)
    BY <1>2, Going DEF InsertRule, RulesAwaited, Places, AtWork, Beyond, Stands
  <2>2. ASSUME NEW v \in Boots, boot'[v].at = "rule" PROVE FALSE
    <3>1. v # w /\ AtWork(v)
      BY <1>1, <2>1, <2>2 DEF AtWork, Beyond
    <3>2. QED
      BY <2>1, <3>1, OneWorks
  <2>3. QED
    BY <2>1, <2>2 DEF RulesAwaited, Stands
<1>3. CASE ~InsertRule(w)
  <2>1. rules' = rules
    BY <1>3, DataMotion
  <2>2. boot'[w].at = "rule" => rules = 0
    <3> SUFFICES ASSUME boot'[w].at = "rule" PROVE rules = 0
      OBVIOUS
    <3>1. CASE LookUpRule(w)
      <4>1. ~Ran(w) /\ ~To(w, "seal")
        BY Going DEF Ran, Places
      <4>2. QED
        BY <3>1, <4>1 DEF LookUpRule, RuleToMake
    <3>2. CASE ~LookUpRule(w)
      BY <1>3, <3>2, OnlyLooking
    <3>3. QED
      BY <3>1, <3>2
  <2>3. QED
    BY <1>1, <2>1, <2>2 DEF RulesAwaited, Stands
<1>4. QED
  BY <1>2, <1>3

LEMMA FewBackupsStep ==
  ASSUME UpgradeConstants, ExclusionInv, InOrder, FewBackups, NEW w \in Boots, ProcessStep(w)
  PROVE  FewBackups'
<1> USE DEF ExclusionInv
<1>1. /\ kills \in Nat /\ later \in Nat /\ Len(backups) \in Nat
      /\ Content \in Contents /\ later' = later
  BY Motion DEF UpTypes, Content, Contents
<1>2. CASE Backup(w)
  <2>1. Beyond(w)' /\ kills' = kills
    BY <1>2, BeyondMotion DEF Backup
  <2>2. CASE journal /\ Unapplied # {} /\ backups' = Pruned(Append(backups, Content))
    <3>1. Len(backups) <= kills + later
      BY <1>2, <2>2, BackupAlone DEF FewBackups
    <3>2. Len(backups') <= Len(backups) + 1 /\ Len(backups') \in Nat
      <4>1. backups' \in Seq(Contents) /\ Len(backups') <= Len(backups) + 1
        BY <1>1, <2>2, Saved
      <4>2. QED
        BY <4>1
    <3>3. Len(backups') <= kills' + later' + 1
      BY <1>1, <2>1, <3>1, <3>2
    <3>4. QED
      BY <2>1, <3>3 DEF FewBackups
  <2>3. CASE backups' = backups
    BY <1>1, <2>1, <2>3 DEF FewBackups
  <2>4. QED
    BY <1>2, <2>2, <2>3 DEF Backup
<1>3. CASE Kill(w)
  <2>1. kills' = kills + 1 /\ backups' = backups
    BY <1>3 DEF Kill
  <2>2. Len(backups') <= kills' + later'
    BY <1>1, <2>1 DEF FewBackups
  <2>3. QED
    BY <1>1, <2>1, <2>2 DEF FewBackups
<1>4. CASE ~Backup(w) /\ ~Kill(w)
  <2>1. backups' = backups /\ kills' = kills
    BY <1>4, DataMotion
  <2>2. ASSUME journal', Unapplied' # {}, \A v \in Boots : ~Beyond(v)'
        PROVE  journal /\ Unapplied # {} /\ \A v \in Boots : ~Beyond(v)
    <3>1. journal' = journal
      BY <2>2, BeyondMotion, DataMotion
    <3>2. Unapplied # {}
      <4>1. applied \subseteq applied'
        BY DataMotion
      <4>2. QED
        BY <2>2, <4>1 DEF Unapplied
    <3>3. ~ComesUp(w)
      BY <3>2, StartedIsDone
    <3>4. ~Beyond(w)
      BY <1>4, <2>2, <3>3, BeyondMotion
    <3>5. \A v \in Boots : v # w => boot'[v] = boot[v]
      BY Motion
    <3>6. QED
      BY <2>2, <3>1, <3>2, <3>4, <3>5 DEF Beyond
  <2>3. QED
    BY <1>1, <2>1, <2>2 DEF FewBackups
<1>5. QED
  BY <1>2, <1>3, <1>4

LEMMA SnapshotStep ==
  ASSUME UpgradeConstants, ExclusionInv, CopyIsNew, FewBackups, SnapshotFirst,
         NEW w \in Boots, ProcessStep(w)
  PROVE  SnapshotFirst'
<1> USE DEF ExclusionInv
<1>1. original' = original /\ \A v \in Boots : v # w => boot'[v] = boot[v]
  BY Motion
<1>2. Original' = Original
  BY <1>1 DEF Original
<1> SUFFICES ASSUME original.journal, backupsOn, ~mishap', kills' + later' < Retention,
                    Content' # Original \/ \E v \in Boots : Beyond(v)'
             PROVE  Original \in ToSet(backups')
  BY <1>1, <1>2, Motion DEF SnapshotFirst
<1>3. /\ kills \in Nat /\ later \in Nat /\ Retention \in Nat
      /\ Content \in Contents /\ Len(backups) \in Nat
  BY DEF UpTypes, UpgradeConstants, Content, Contents
<1>4. kills + later < Retention
  <2>1. later' = later /\ (kills' = kills \/ kills' = kills + 1)
    BY DataMotion, Motion
  <2>2. QED
    BY <1>3, <2>1
<1>5. ~mishap
  <2>1. mishap' = mishap \/ mishap' = TRUE
    BY DataMotion DEF Backup
  <2>2. QED
    BY <2>1
<1>6. CASE Backup(w)
  <2>1. \A v \in Boots : ~Beyond(v)
    BY <1>6, BackupAlone
  <2>2. CASE journal /\ Unapplied # {}
    <3>1. backups' = Pruned(Append(backups, Content))
      BY <1>6, <2>2 DEF Backup
    <3>2. Len(backups) < Retention
      BY <1>3, <1>4, <2>1, <2>2 DEF FewBackups
    <3>3. ToSet(backups') = ToSet(backups) \cup {Content}
      BY <1>3, <3>1, <3>2, Saved
    <3>4. QED
      BY <1>4, <1>5, <3>3 DEF SnapshotFirst
  <2>3. CASE ~(journal /\ Unapplied # {})
    <3>1. backups' = backups
      BY <1>6, <2>3 DEF Backup
    <3>2. Content # Original
      <4> SUFFICES ASSUME Content = Original PROVE FALSE
        OBVIOUS
      <4>1. applied = original.applied /\ missing = original.missing
        BY DEF Content, Original
      <4>2. original.applied = 1..8 /\ original.missing # {}
        BY Found DEF UpTypes
      <4>3. journal
        BY <4>1, <4>2 DEF CopyIsNew
      <4>4. 9 \in Unapplied
        BY <4>1, <4>2 DEF Unapplied, LastId
      <4>5. QED
        BY <2>3, <4>3, <4>4
    <3>3. QED
      BY <1>4, <1>5, <3>1, <3>2 DEF SnapshotFirst
  <2>4. QED
    BY <2>2, <2>3
<1>7. CASE ~Backup(w)
  <2>1. backups' = backups
    BY <1>7, DataMotion
  <2>2. Content # Original \/ \E v \in Boots : Beyond(v)
    <3>1. CASE \E v \in Boots : Beyond(v)'
      <4>1. PICK v \in Boots : Beyond(v)'
        BY <3>1
      <4>2. Beyond(v)
        BY <1>1, <1>7, <4>1, BeyondMotion DEF Beyond
      <4>3. QED
        BY <4>2
    <3>2. CASE Content' # Original
      BY <3>2, BeyondMotion DEF Content
    <3>3. QED
      BY <3>1, <3>2
  <2>3. QED
    BY <1>4, <1>5, <2>1, <2>2 DEF SnapshotFirst
<1>8. QED
  BY <1>6, <1>7

(* The copy is made from a database that is up to date, with nobody running. *)
LEMMA CopyKeeps ==
  ASSUME UpgradeConstants, ExclusionInv, SafeInv, CopyDatabase
  PROVE  SafeInv'
<1> USE DEF ExclusionInv, SafeInv
<1>1. /\ boot' = boot /\ conf' = conf /\ original' = original /\ backups' = backups
      /\ rules' = rules /\ kills' = kills /\ later' = later /\ mishap' = mishap
      /\ backupsOn' = backupsOn
      /\ applied = 1..LastId /\ applied' = {} /\ missing' = {} /\ journal' = FALSE
      /\ copied' = TRUE
      /\ \A w \in Boots : boot[w].at = "down"
  BY DEF CopyDatabase, Stands
<1>2. InOrder' /\ CopyIsNew' /\ FewBackups'
  BY <1>1 DEF InOrder, Migrating, CopyIsNew, FewBackups
<1>3. RulesAwaited' /\ ConnectionKept' /\ Promoted'
  BY <1>1 DEF RulesAwaited, Stands, ConnectionKept, Promoted, PastNine, Migrating
<1>4. original.journal => Content # Original
  <2> SUFFICES ASSUME original.journal, Content = Original PROVE FALSE
    OBVIOUS
  <2>1. applied = original.applied
    BY DEF Content, Original
  <2>2. 9 \notin original.applied
    BY Found DEF UpTypes
  <2>3. QED
    BY <1>1, <2>1, <2>2 DEF LastId
<1>5. SnapshotFirst'
  BY <1>1, <1>4 DEF SnapshotFirst, Original, Beyond
<1>6. QED
  BY <1>2, <1>3, <1>5

(* Each backup of the running program is counted, so that none is pruned
   before the count reaches the retention. *)
LEMMA RunningKeeps ==
  ASSUME UpgradeConstants, ExclusionInv, SafeInv, NEW w \in Boots, RunBackup(w)
  PROVE  SafeInv'
<1> USE DEF ExclusionInv, SafeInv
<1>1. /\ UNCHANGED <<data, boot, latch, original, kills, mishap, copied>>
      /\ later' = later + 1 /\ backups' = Pruned(Append(backups, Content))
  BY DEF RunBackup
<1>2. /\ kills \in Nat /\ later \in Nat /\ Retention \in Nat
      /\ Content \in Contents /\ Len(backups) \in Nat
  BY DEF UpTypes, UpgradeConstants, Content, Contents
<1>3. /\ backups' \in Seq(Contents)
      /\ Len(backups') <= Len(backups) + 1
      /\ Len(backups) < Retention => ToSet(backups') = ToSet(backups) \cup {Content}
  BY <1>1, <1>2, Saved
<1>4. RulesAwaited' /\ ConnectionKept' /\ Promoted' /\ InOrder' /\ CopyIsNew'
  BY <1>1 DEF data, RulesAwaited, ConnectionKept, Promoted, PastNine, InOrder, CopyIsNew,
     Migrating, Stands
<1>5. FewBackups'
  <2>1. Len(backups') \in Nat
    BY <1>3
  <2>2. Unapplied' = Unapplied /\ journal' = journal /\ \A v \in Boots : Beyond(v)' = Beyond(v)
    BY <1>1 DEF data, Unapplied, Beyond
  <2>3. QED
    BY <1>1, <1>2, <1>3, <2>1, <2>2 DEF FewBackups
<1>6. SnapshotFirst'
  <2> SUFFICES ASSUME original.journal, backupsOn, ~mishap, kills + later + 1 < Retention,
                      Content # Original \/ \E v \in Boots : Beyond(v)
               PROVE  Original \in ToSet(backups')
    BY <1>1, <1>2 DEF SnapshotFirst, data, Content, Original, Beyond
  <2>1. Original \in ToSet(backups)
    BY <1>2 DEF SnapshotFirst
  <2>2. Len(backups) < Retention
    BY <1>2 DEF FewBackups
  <2>3. QED
    BY <1>3, <2>1, <2>2
<1>7. QED
  BY <1>4, <1>5, <1>6

LEMMA SafeStarts == UpInit => SafeInv
<1> SUFFICES ASSUME UpInit PROVE SafeInv
  OBVIOUS
<1>1. PICK d \in Databases :
        /\ journal = d.journal /\ applied = d.applied /\ missing = d.missing
        /\ conf = d.conf /\ library = d.library /\ original = d
  BY DEF UpInit
<1>2. /\ boot = [w \in Boots |-> Down] /\ backups = <<>> /\ kills = 0 /\ later = 0
      /\ rules = 0 /\ copied = FALSE
  BY DEF UpInit
<1>3. \A w \in Boots : ~Migrating(w) /\ ~Beyond(w)
  BY <1>2 DEF Down, Migrating, Beyond
<1>4. RulesAwaited /\ ConnectionKept /\ InOrder /\ CopyIsNew
  BY <1>1, <1>2, <1>3 DEF RulesAwaited, Stands, Down, ConnectionKept, InOrder, CopyIsNew, Databases
<1>5. Promoted
  BY <1>1, <1>3, Found DEF Promoted, PastNine
<1>6. FewBackups
  BY <1>2 DEF FewBackups
<1>7. SnapshotFirst
  BY <1>1, <1>3 DEF SnapshotFirst, Content, Original
<1>8. QED
  BY <1>4, <1>5, <1>6, <1>7 DEF SafeInv

LEMMA SafeStep ==
  ASSUME UpgradeConstants, ExclusionInv, SafeInv, [UpNext]_upVars
  PROVE  SafeInv'
<1>1. CASE \E w \in Boots : ProcessStep(w)
  <2>1. PICK w \in Boots : ProcessStep(w)
    BY <1>1
  <2>2. RulesAwaited'
    BY <2>1, RulesStep DEF SafeInv, ExclusionInv
  <2>3. CopyIsNew'
    BY <2>1, Motion, DataMotion DEF SafeInv, CopyIsNew, ExclusionInv
  <2>4. InOrder' /\ FewBackups'
    BY <2>1, InOrderStep, FewBackupsStep DEF SafeInv, ExclusionInv
  <2>5. ConnectionKept' /\ Promoted'
    BY <2>1, ConnectionStep DEF SafeInv, ExclusionInv
  <2>6. SnapshotFirst'
    BY <2>1, SnapshotStep DEF SafeInv
  <2>7. QED
    BY <2>2, <2>3, <2>4, <2>5, <2>6 DEF SafeInv
<1>2. CASE AddLibrary \/ UNCHANGED upVars
  BY <1>2 DEF AddLibrary, upVars, history, SafeInv, RulesAwaited, ConnectionKept, Promoted, PastNine,
     InOrder, Migrating, CopyIsNew, FewBackups, Unapplied, Beyond, SnapshotFirst, Content,
     Original, Stands
<1>3. CASE CopyDatabase
  BY <1>3, CopyKeeps
<1>4. CASE \E w \in Boots : RunBackup(w)
  BY <1>4, RunningKeeps
<1>5. QED
  BY <1>1, <1>2, <1>3, <1>4 DEF UpNext, ProcessStep

(* UpgradeIsSafe: starts that are killed, repeated or run beside each other,
   and a copy to the other engine, make at most one rule of a library, never
   drop the connection of an old database, and change nothing of an existing
   database before a backup of it is made, which is still there as long as the
   interrupted starts and the backups of the running program are fewer than
   the files that are kept (run_migrations, backup_before_migrations,
   run_backup). *)
THEOREM StartsAreSafe == UpgradeConstants /\ UpSpec => []UpgradeIsSafe
<1>1. ExclusionInv /\ SafeInv => UpgradeIsSafe
  <2> SUFFICES ASSUME SafeInv, original.journal, backupsOn, ~mishap,
                      kills + later < Retention,
                      applied # original.applied \/ missing # original.missing
               PROVE  Original \in ToSet(backups)
    BY DEF SafeInv, UpgradeIsSafe, RulesAwaited, RulesMadeOnce, SnapshotKept, Original
  <2>1. Content # Original
    BY DEF Content, Original
  <2>2. QED
    BY <2>1 DEF SafeInv, SnapshotFirst
<1>2. ASSUME UpgradeConstants PROVE UpSpec => []UpgradeIsSafe
  <2>1. ExclusionInv /\ SafeInv /\ [UpNext]_upVars => ExclusionInv' /\ SafeInv'
    BY <1>2, ExclusionStep, SafeStep
  <2>2. QED
    BY <1>1, <2>1, ExclusionStarts, SafeStarts, PTL DEF UpSpec
<1>3. QED
  BY <1>2
=============================================================================
