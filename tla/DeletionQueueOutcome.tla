------------------------- MODULE DeletionQueueOutcome -------------------------
(* What becomes of a row: the rescue guard's way from the play on the media
   server to the decision to delete, what the status 'deleted' means, and the
   life cycle of a status. *)
EXTENDS DeletionQueueProofs

-----------------------------------------------------------------------------
(* The parts of RescueInv. *)

PlaysArePast == \A i \in Items : served[i] <= now
SeenIsServed == job.pc # "idle" => \A i \in Items : job.seen[i] <= served[i]
OnlyExecuting == job.pc # "execute" \/ job.dry => JobPipes = {}

BatchKnows(b) ==
    /\ job.pc = "refresh" /\ b.item \in Direct /\ ServerOf[b.item] \notin job.servers
         => job.seen[b.item] <= b.played
    /\ job.pc \in {"rescue", "execute"} /\ b.item \in Direct
         => job.seen[b.item] <= b.played
    /\ job.pc = "execute" => b.played <= b.detected

LEMMA RescueParts ==
    RescueInv <=> PlaysArePast /\ SeenIsServed /\ OnlyExecuting
                    /\ \A b \in job.batch : BatchKnows(b)
BY DEF RescueInv, PlaysArePast, SeenIsServed, OnlyExecuting, BatchKnows

-----------------------------------------------------------------------------
(* Who moves what. *)

(* Play dates only move forward, and never past the clock. *)
LEMMA PlaysMoveForward ==
    ASSUME TypeOK, PlaysArePast, [Next]_vars
    PROVE  PlaysArePast' /\ \A i \in Items : served[i] <= served'[i]
<1> DEFINE Goal == PlaysArePast' /\ \A i \in Items : served[i] <= served'[i]
<1> SUFFICES Goal
  OBVIOUS
<1>0. /\ served \in [Items -> Time] /\ now \in Int /\ queue \subseteq Row
      /\ \A i \in Items : served[i] \in Int /\ served[i] <= now
  BY ConstantsOK, SMT DEF TypeOK, Time, PlaysArePast
<1>1. CASE served' = served /\ now' = now
  BY <1>0, <1>1, SMT DEF PlaysArePast
<1>2. CASE Tick
  <2>1. served' = served /\ now' = now + 1
    BY <1>2 DEF Tick
  <2>2. QED BY <1>0, <2>1, SMT DEF PlaysArePast
<1>3. ASSUME NEW i \in Items, served' = [served EXCEPT ![i] = now], now' = now
      PROVE  Goal
  <2>1. \A j \in Items : served'[j] = served[j] \/ served'[j] = now
    BY <1>0, <1>3
  <2>2. QED BY <1>0, <1>3, <2>1, SMT DEF PlaysArePast
<1>4. ASSUME NEW r \in queue, Scrobble(r) PROVE Goal
  <2>1. r.item \in Items
    BY <1>0 DEF Row
  <2>2. QED BY <1>3, <1>4, <2>1 DEF Scrobble
<1>5. ASSUME NEW i \in Items, Watch(i) PROVE Goal
  BY <1>3, <1>5 DEF Watch
<1> HIDE DEF Goal
<1>6. CASE World
  BY <1>1, <1>2, <1>4, <1>5, <1>6 DEF World, SetDryRun, Enqueue, ScanAdvance, RefreshDates,
     RemoveRow, DropPending, PurgeDeleted, CleanupRetention, OtherWorkerStarts
<1>7. CASE JobStep
  BY <1>1, <1>7 DEF JobStep, JobStart, JobSelect, JobRefresh, JobWriteWatchState, JobRefreshed,
     JobRescue, JobBeginExecute, JobClaim, JobSkip, JobEnd
<1>8. ASSUME NEW p \in pipes, PipeStep(p) \/ DeleteNowLoad(p) \/ PipeWriteFails(p) PROVE Goal
  BY <1>1, <1>8 DEF PipeStep, PipeMedia, PipeRest, PipeFinish, DeleteNowLoad, PipeWriteFails
<1>9. ASSUME NEW h \in Requests, Start(h) \/ ReqStep(h) PROVE Goal
  BY <1>1, <1>8, <1>9 DEF Start, DeleteNow, BulkDelete, ReqStep, DeleteNowClaim, BulkNext,
     BulkEnd, PipesOf
<1>10. CASE Fault
  BY <1>1, <1>8, <1>10 DEF Fault, JobAbort, JobTimeout, Crash
<1>11. CASE Restart \/ UNCHANGED vars
  BY <1>1, <1>11 DEF Restart, vars
<1>12. QED
  BY <1>6, <1>7, <1>8, <1>9, <1>10, <1>11 DEF Next, JobPipeStep, JobPipes

(* Only its own steps move the job; a fault, or the end, sends it home. *)
LEMMA JobMoves ==
    ASSUME [Next]_vars
    PROVE  \/ job' = job
           \/ JobStep /\ UNCHANGED <<served, now>>
           \/ job' = IdleJob /\ (JobAbort \/ JobTimeout \/ Crash)
<1> DEFINE Goal == \/ job' = job
                   \/ JobStep /\ UNCHANGED <<served, now>>
                   \/ job' = IdleJob /\ (JobAbort \/ JobTimeout \/ Crash)
<1> SUFFICES Goal
  OBVIOUS
<1>1. CASE World
  BY <1>1 DEF World, Tick, SetDryRun, Watch, Enqueue, ScanAdvance, RefreshDates,
     RemoveRow, Scrobble, DropPending, PurgeDeleted, CleanupRetention, OtherWorkerStarts
<1>2. CASE JobStep
  <2>1. UNCHANGED <<served, now>>
    BY <1>2 DEF JobStep, JobStart, JobSelect, JobRefresh, JobWriteWatchState, JobRefreshed,
       JobRescue, JobBeginExecute, JobClaim, JobSkip, JobEnd
  <2>2. QED BY <1>2, <2>1
<1>3. ASSUME NEW p \in pipes, PipeStep(p) \/ DeleteNowLoad(p) \/ PipeWriteFails(p)
      PROVE  job' = job
  BY <1>3 DEF PipeStep, PipeMedia, PipeRest, PipeFinish, DeleteNowLoad, PipeWriteFails
<1>4. ASSUME NEW h \in Requests, Start(h) \/ ReqStep(h) PROVE job' = job
  BY <1>3, <1>4 DEF Start, DeleteNow, BulkDelete, ReqStep, DeleteNowClaim, BulkNext,
     BulkEnd, PipesOf
<1>5. CASE Fault
  BY <1>3, <1>5 DEF Fault, JobAbort, JobTimeout, Crash
<1>6. CASE Restart \/ UNCHANGED vars
  BY <1>6 DEF Restart, vars
<1>7. QED
  BY <1>1, <1>2, <1>3, <1>4, <1>5, <1>6 DEF Next, JobPipeStep, JobPipes

(* The job's pipelines are old ones or start with a claim. *)
LEMMA JobPipeOrigin ==
    ASSUME TypeOK, [Next]_vars, NEW p \in JobPipes'
    PROVE  \/ \E q \in JobPipes : p.item = q.item /\ p.detected = q.detected
           \/ \E b \in job.batch : /\ JobClaim(b)
                                   /\ p.item = b.item /\ p.detected = b.detected
<1>1. p \in pipes' /\ p.by = "job"
  BY DEF JobPipes
<1>2. \A who, by, b, st : /\ PipeFor(who, by, b, st).by = by
                          /\ PipeFor(who, by, b, st).item = b.item
                          /\ PipeFor(who, by, b, st).detected = b.detected
  BY DEF PipeFor
<1>3. ASSUME NEW h \in Requests, NEW b \in req[h].todo,
             p = PipeFor(h, "now", b, "load") \/ p = PipeFor(h, "bulk", b, "media")
      PROVE  FALSE
  BY <1>1, <1>2, <1>3
<1>4. QED BY <1>1, <1>2, <1>3, PipeOrigin DEF JobPipes

-----------------------------------------------------------------------------
(* Each part of the invariant is kept. *)

LEMMA JobShape ==
    ASSUME TypeOK
    PROVE  /\ job \in Job /\ IdleJob.pc = "idle" /\ IdleJob.batch = {}
           /\ \A i \in Items : job.seen[i] \in Int /\ served[i] \in Int
           /\ \A b \in job.batch : /\ b \in Snapshot /\ b.item \in Items
                                   /\ b.played \in Int /\ b.detected \in Int
<1>1. job \in Job /\ served \in [Items -> Time] /\ Time \subseteq Int
  BY ConstantsOK, SMT DEF TypeOK, Time
<1>2. job.seen \in [Items -> Time] /\ job.batch \subseteq Snapshot
  BY <1>1 DEF Job
<1>3. QED BY <1>1, <1>2 DEF Snapshot, IdleJob

LEMMA SeenStep ==
    ASSUME TypeOK, RescueInv, [Next]_vars PROVE SeenIsServed'
<1>0. /\ PlaysArePast /\ SeenIsServed
      /\ \A i \in Items : served[i] <= served'[i] /\ served[i] \in Int /\ job.seen[i] \in Int
                          /\ served'[i] \in Int
  <2>1. TypeOK' BY TypeStep
  <2>2. \A i \in Items : served'[i] \in Int
    BY <2>1, ConstantsOK, SMT DEF TypeOK, Time
  <2>3. QED BY <2>2, RescueParts, PlaysMoveForward, JobShape
<1>1. CASE job' = job
  BY <1>0, <1>1, SMT DEF SeenIsServed
<1>2. CASE job' = IdleJob
  BY <1>2, JobShape DEF SeenIsServed
<1>3. ASSUME JobStep, UNCHANGED <<served, now>> PROVE SeenIsServed'
  <2>0. job \in Job
    BY JobShape
  <2>1. CASE JobStart
    <3>1. job'.seen = served
      BY <2>1 DEF JobStart, IdleJob
    <3>2. QED BY <1>0, <1>3, <3>1, SMT DEF SeenIsServed
  <2>2. CASE JobEnd
    BY <1>2, <2>2 DEF JobEnd
  <2>3. ASSUME ~JobStart, ~JobEnd PROVE job'.seen = job.seen /\ job.pc # "idle"
    <3>1. ASSUME NEW s \in Servers, JobRefresh(s) PROVE job'.seen = job.seen /\ job.pc # "idle"
      <4>1. job.pc = "refresh" BY <3>1 DEF JobRefresh
      <4>2. \A lost : RefreshedBy(s, ActivityLog(s, lost)).seen = job.seen
        BY <2>0 DEF RefreshedBy, Job
      <4>3. CASE job' = [job EXCEPT !.servers = @ \ {s}]
        BY <2>0, <4>1, <4>3 DEF Job
      <4>4. CASE job' = [job EXCEPT !.servers = @ \ {s},
                                    !.batch = {b \in @ : ServerOf[b.item] # s}]
        BY <2>0, <4>1, <4>4 DEF Job
      <4>5. QED BY <3>1, <4>1, <4>2, <4>3, <4>4 DEF JobRefresh
    <3>2. CASE JobSelect \/ JobWriteWatchState \/ JobRefreshed \/ JobBeginExecute
      BY <2>0, <3>2 DEF JobSelect, JobWriteWatchState, JobRefreshed, JobBeginExecute, Job
    <3>3. ASSUME NEW b \in job.batch, JobRescue(b) \/ JobClaim(b) \/ JobSkip(b)
          PROVE  job'.seen = job.seen /\ job.pc # "idle"
      BY <2>0, <3>3 DEF JobRescue, JobClaim, JobSkip, Job
    <3>4. QED BY <1>3, <2>3, <3>1, <3>2, <3>3 DEF JobStep
  <2>4. CASE job'.seen = job.seen /\ job.pc # "idle"
    BY <1>0, <1>3, <2>4 DEF SeenIsServed
  <2>5. QED BY <2>1, <2>2, <2>3, <2>4
<1>4. QED BY <1>1, <1>2, <1>3, JobMoves

(* JobPipes is empty unless the job executes. *)
LEMMA ExecutingStep ==
    ASSUME TypeOK, RescueInv, [Next]_vars PROVE OnlyExecuting'
<1> SUFFICES ASSUME NEW p \in JobPipes', job'.pc # "execute" \/ job'.dry PROVE FALSE
  BY DEF OnlyExecuting
<1>0. job \in Job /\ OnlyExecuting
  BY JobShape, RescueParts
<1>1. JobPipes # {} \/ \E b \in job.batch : JobClaim(b)
  BY JobPipeOrigin
<1>2. job.pc = "execute" /\ ~job.dry
  BY <1>0, <1>1 DEF OnlyExecuting, JobClaim
<1>3. job' # job
  BY <1>2
<1>4. CASE JobStep
  <2>1. ASSUME NEW b \in job.batch, JobRescue(b) \/ JobClaim(b) \/ JobSkip(b) PROVE FALSE
    BY <1>0, <1>2, <2>1 DEF JobRescue, JobClaim, JobSkip, Job
  <2>2. CASE JobEnd
    <3>1. JobPipes = {} /\ pipes' = pipes
      BY <1>2, <2>2 DEF JobEnd
    <3>2. QED BY <3>1 DEF JobPipes
  <2>3. QED BY <1>2, <1>4, <2>1, <2>2 DEF JobStep, JobStart, JobSelect, JobRefresh,
               JobWriteWatchState, JobRefreshed, JobBeginExecute
<1>5. ASSUME JobAbort \/ JobTimeout \/ Crash PROVE FALSE
  <2>1. CASE JobAbort
    BY <1>2, <2>1 DEF JobAbort
  <2>2. CASE JobTimeout
    BY <2>2 DEF JobTimeout, JobPipes
  <2>3. CASE Crash
    BY <2>3 DEF Crash, JobPipes
  <2>4. QED BY <1>5, <2>1, <2>2, <2>3
<1>6. QED BY <1>3, <1>4, <1>5, JobMoves

(* One server's activity log brings its rows up to date and leaves the others
   at least as they were. *)
LEMMA RefreshKnows ==
    ASSUME TypeOK, RescueInv, NEW s \in Servers, JobRefresh(s), NEW b \in job'.batch,
           b.item \in Direct, ServerOf[b.item] \notin job'.servers
    PROVE  job'.seen[b.item] <= b.played
<1>0. /\ job \in Job /\ SeenIsServed /\ job.pc = "refresh"
      /\ \A c \in job.batch : BatchKnows(c)
      /\ served \in [Items -> Time] /\ Time \subseteq Int
  BY JobShape, RescueParts, ConstantsOK, SMT DEF JobRefresh, TypeOK, Time
<1>1. ASSUME NEW lost \in SUBSET {i \in Consolidated : ServerOf[i] = s},
             job' = RefreshedBy(s, ActivityLog(s, lost))
      PROVE  job'.seen[b.item] <= b.played
  <2> DEFINE log == ActivityLog(s, lost)
  <2>1. /\ job'.seen = job.seen /\ job'.servers = job.servers \ {s}
        /\ job'.batch = {Fresher(c, log) : c \in job.batch}
    BY <1>0, <1>1 DEF RefreshedBy, Job
  <2>2. PICK c \in job.batch : b = Fresher(c, log)
    BY <2>1
  <2>3. /\ c \in Snapshot /\ c.item \in Items /\ c.played \in Int
        /\ job.seen[c.item] \in Int /\ served[c.item] \in Int
    BY JobShape
  <2>4. b.item = c.item /\ b.played = IF log[c.item] > c.played THEN log[c.item] ELSE c.played
    BY <2>2, <2>3 DEF Fresher, Snapshot
  <2>5. log[c.item] = IF ServerOf[c.item] = s THEN served[c.item] ELSE 0
    BY <2>3, <2>4 DEF ActivityLog, Direct
  <2>6. CASE ServerOf[c.item] = s
    <3>1. job.seen[c.item] <= served[c.item]
      BY <1>0, <2>3 DEF SeenIsServed
    <3> HIDE DEF log
    <3>2. QED BY <2>1, <2>3, <2>4, <2>5, <2>6, <3>1, SMT
  <2>7. CASE ServerOf[c.item] # s
    <3>1. ServerOf[c.item] \notin job.servers
      BY <2>1, <2>4, <2>7
    <3>2. job.seen[c.item] <= c.played
      BY <1>0, <2>4, <3>1 DEF BatchKnows
    <3> HIDE DEF log
    <3>3. QED BY <2>1, <2>3, <2>4, <2>5, <2>7, <3>2, SMT
  <2>8. QED BY <2>6, <2>7
<1>2. ASSUME s \notin Tracked, job' = [job EXCEPT !.servers = @ \ {s}]
      PROVE  job'.seen[b.item] <= b.played
  <2>1. b \in job.batch /\ job'.seen = job.seen /\ job'.servers = job.servers \ {s}
    BY <1>0, <1>2 DEF Job
  <2>2. ServerOf[b.item] \notin job.servers
    BY <1>2, <2>1 DEF Direct
  <2>3. QED BY <1>0, <2>1, <2>2 DEF BatchKnows
<1>3. CASE job' = [job EXCEPT !.servers = @ \ {s},
                              !.batch = {c \in @ : ServerOf[c.item] # s}]
  <2>1. /\ b \in job.batch /\ ServerOf[b.item] # s
        /\ job'.seen = job.seen /\ job'.servers = job.servers \ {s}
    BY <1>0, <1>3 DEF Job
  <2>2. QED BY <1>0, <2>1 DEF BatchKnows
<1>4. QED BY <1>1, <1>2, <1>3 DEF JobRefresh

LEMMA BatchStep ==
    ASSUME TypeOK, RescueInv, [Next]_vars, NEW b \in job'.batch PROVE BatchKnows(b)'
<1>0. job \in Job /\ \A c \in job.batch : BatchKnows(c)
  BY JobShape, RescueParts
<1>1. CASE job' = job
  BY <1>0, <1>1 DEF BatchKnows
<1>2. ASSUME job' = IdleJob PROVE FALSE
  BY <1>2, JobShape
<1>3. CASE JobStep
  <2>1. ASSUME JobStart PROVE FALSE
    BY <2>1 DEF JobStart, IdleJob
  <2>2. CASE JobSelect
    <3>1. /\ job'.pc = "refresh" /\ job'.batch = {SnapshotOf(r) : r \in DueRows}
          /\ job'.servers = {ServerOf[r.item] : r \in DueRows}
      BY <1>0, <2>2 DEF JobSelect, Job
    <3>2. ServerOf[b.item] \in job'.servers
      BY <3>1 DEF SnapshotOf
    <3>3. QED BY <3>1, <3>2 DEF BatchKnows
  <2>3. ASSUME NEW s \in Servers, JobRefresh(s) PROVE BatchKnows(b)'
    <3>1. job'.pc = "refresh"
      BY <1>0, <2>3 DEF JobRefresh, RefreshedBy, Job
    <3>2. b.item \in Direct /\ ServerOf[b.item] \notin job'.servers
            => job'.seen[b.item] <= b.played
      BY <2>3, RefreshKnows
    <3>3. QED BY <3>1, <3>2 DEF BatchKnows
  <2>4. CASE JobWriteWatchState
    BY <1>0, <2>4 DEF JobWriteWatchState, BatchKnows, Job
  <2>5. CASE JobRefreshed
    <3>1. /\ job.pc = "refresh" /\ job.servers = {} /\ job'.pc = "rescue"
          /\ job'.batch = job.batch /\ job'.seen = job.seen
      BY <1>0, <2>5 DEF JobRefreshed, Job
    <3>2. QED BY <1>0, <3>1 DEF BatchKnows
  <2>6. CASE JobBeginExecute
    <3>1. /\ job.pc = "rescue" /\ job'.pc = "execute"
          /\ job'.batch = job.batch /\ job'.seen = job.seen /\ ~Rescued(b)
      BY <1>0, <2>6 DEF JobBeginExecute, Job
    <3>2. b.played <= b.detected
      BY <3>1, JobShape, SMT DEF Rescued
    <3>3. QED BY <1>0, <3>1, <3>2 DEF BatchKnows
  <2>7. ASSUME NEW c \in job.batch, JobRescue(c) \/ JobClaim(c) \/ JobSkip(c)
        PROVE  BatchKnows(b)'
    <3>1. /\ b \in job.batch /\ job'.pc = job.pc /\ job'.seen = job.seen
          /\ job'.servers = job.servers
      BY <1>0, <2>7 DEF JobRescue, JobClaim, JobSkip, Job
    <3>2. QED BY <1>0, <3>1 DEF BatchKnows
  <2>8. CASE JobEnd
    BY <1>2, <2>8 DEF JobEnd
  <2>9. QED
    BY <1>3, <2>1, <2>2, <2>3, <2>4, <2>5, <2>6, <2>7, <2>8 DEF JobStep
<1>4. QED BY <1>1, <1>2, <1>3, JobMoves

(* A pipeline of the job has passed the rescue guard. *)
LEMMA GuaranteeStep ==
    ASSUME TypeOK, RescueInv, RescueGuarantee, [Next]_vars PROVE RescueGuarantee'
<1> SUFFICES ASSUME NEW p \in JobPipes', p.item \in Direct
             PROVE  job'.seen[p.item] <= p.detected
  BY DEF RescueGuarantee
<1>0. job \in Job /\ OnlyExecuting /\ \A b \in job.batch : BatchKnows(b)
  BY JobShape, RescueParts
<1>1. job.pc = "execute" /\ ~job.dry
  BY <1>0, JobPipeOrigin DEF OnlyExecuting, JobClaim
<1>2. job'.pc = "execute" /\ ~job'.dry
  BY ExecutingStep DEF OnlyExecuting
<1>3. job'.seen = job.seen
  <2>1. ASSUME NEW b \in job.batch, JobRescue(b) \/ JobClaim(b) \/ JobSkip(b)
        PROVE  job'.seen = job.seen
    BY <1>0, <2>1 DEF JobRescue, JobClaim, JobSkip, Job
  <2>2. CASE job' = job
    BY <2>2
  <2>3. ASSUME job' = IdleJob PROVE FALSE
    BY <1>2, <2>3, JobShape
  <2>4. CASE JobStep
    BY <1>1, <2>1, <2>3, <2>4 DEF JobStep, JobStart, JobSelect, JobRefresh,
       JobWriteWatchState, JobRefreshed, JobBeginExecute, JobEnd
  <2>5. QED BY <2>2, <2>3, <2>4, JobMoves
<1>4. ASSUME NEW q \in JobPipes, p.item = q.item, p.detected = q.detected
      PROVE  job'.seen[p.item] <= p.detected
  BY <1>3, <1>4 DEF RescueGuarantee
<1>5. ASSUME NEW b \in job.batch, JobClaim(b), p.item = b.item, p.detected = b.detected
      PROVE  job'.seen[p.item] <= p.detected
  <2>1. job.seen[b.item] <= b.played /\ b.played <= b.detected
    BY <1>0, <1>1, <1>5 DEF BatchKnows
  <2>2. job.seen[b.item] \in Int /\ b.played \in Int /\ b.detected \in Int
    BY JobShape
  <2>3. QED BY <1>3, <1>5, <2>1, <2>2, SMT
<1>6. QED BY <1>4, <1>5, JobPipeOrigin

(* The rescue guard (_refresh_watch_state_before_deletion,
   _rescue_watched_since_queued): for any items, servers, faults and
   interference by scans, webhooks and other workers, the job starts no
   pipeline for a plain item of a tracked server whose play since it was
   queued was on record when the run started. *)
THEOREM RescueHolds == Spec => []RescueGuarantee
<1>1. Init => RescueInv /\ RescueGuarantee
  <2>1. Init => /\ job = IdleJob /\ pipes = {} /\ now = 1
                /\ \A i \in Items : served[i] = 0
    BY DEF Init, Neglected
  <2>2. QED BY <2>1, SMT DEF RescueInv, RescueGuarantee, JobPipes, IdleJob
<1>2. TypeOK /\ RescueInv /\ RescueGuarantee /\ [Next]_vars => RescueInv' /\ RescueGuarantee'
  <2> SUFFICES ASSUME TypeOK, RescueInv, RescueGuarantee, [Next]_vars
               PROVE  RescueInv' /\ RescueGuarantee'
    OBVIOUS
  <2>1. PlaysArePast'
    BY RescueParts, PlaysMoveForward
  <2>2. \A b \in job'.batch : BatchKnows(b)'
    BY BatchStep
  <2>3. RescueInv'
    BY <2>1, <2>2, SeenStep, ExecutingStep
    DEF RescueInv, PlaysArePast, SeenIsServed, OnlyExecuting, BatchKnows
  <2>4. QED BY <2>3, GuaranteeStep
<1>3. QED BY <1>1, <1>2, InitTyped, TypeStep, PTL DEF Spec

-----------------------------------------------------------------------------
(* 'deleted' means gone. *)

(* Where a row marked 'deleted' comes from. *)
LEMMA DeletedOrigin ==
    ASSUME TypeOK, ClaimInv, [Next]_vars, "bulk" \notin Features,
           NEW t \in queue', t.status = "deleted"
    PROVE  \/ \E r \in queue : r.id = t.id /\ r.item = t.item /\ r.status = "deleted"
           \/ \E p \in pipes : /\ PipeFinish(p) /\ p.stage = "passed"
                               /\ p.item = t.item
<1> DEFINE Old == \E r \in queue : r.id = t.id /\ r.item = t.item /\ r.status = "deleted"
<1> DEFINE New == \E p \in pipes : PipeFinish(p) /\ p.stage = "passed" /\ p.item = t.item
<1> SUFFICES Old \/ New
  OBVIOUS
<1>0. /\ Table(queue, nextId) /\ nextId \in Nat /\ pipes \subseteq Pipe /\ Grounded
      /\ \A p \in pipes : Agrees(p)
  BY TypeSplit, ConstantsOK DEF QueueTyped, RestTyped, ClaimInv, RefsAgree
<1>1. CASE t \in queue
  BY <1>1
<1>2. ASSUME NEW i \in Items, Enqueue(i) PROVE t \in queue
  BY <1>2 DEF Enqueue
<1>3. ASSUME NEW id, NEW s \in Status, queue' = WithStatus(queue, id, s)
      PROVE  t \in queue \/ (t.id = id /\ s = "deleted")
  BY <1>0, <1>3, WithStatusTable
<1>4. CASE Kept /\ \E r \in queue : r.id = t.id /\ r.status = t.status
  <2>1. PICK r \in queue : r.id = t.id /\ r.status = t.status
    BY <1>4
  <2>2. PICK u \in queue : u.id = t.id /\ u.item = t.item
    BY <1>4 DEF Kept, Updated
  <2>3. QED BY <1>0, <2>1, <2>2 DEF Table
<1>5. ASSUME NEW r \in queue, Scrobble(r) PROVE t \in queue
  <2>1. r \in Row
    BY <1>0 DEF Table
  <2>2. PICK p : t \in (queue \ {r}) \cup {[r EXCEPT !.status = "pending", !.played = p]}
    BY <1>5 DEF Scrobble
  <2>3. [r EXCEPT !.status = "pending", !.played = p].status = "pending"
    BY <2>1 DEF Row
  <2>4. QED BY <2>2, <2>3
<1>6. ASSUME queue' = ResetDeleting(queue) PROVE t \in queue
  <2>1. PICK r \in queue : t = IF r.status = "deleting" THEN [r EXCEPT !.status = "pending"] ELSE r
    BY <1>6 DEF ResetDeleting
  <2>2. r \in Row
    BY <1>0 DEF Table
  <2>3. QED BY <2>1, <2>2 DEF Row
<1>7. ASSUME NEW b \in job.batch, JobClaim(b) PROVE t \in queue
  BY <1>3, <1>7 DEF JobClaim, Status
<1>8. ASSUME NEW h \in Requests, DeleteNowClaim(h) PROVE t \in queue
  BY <1>3, <1>8 DEF DeleteNowClaim, Status
<1>9. ASSUME NEW h \in Requests, NEW b \in req[h].todo, BulkNext(h, b) PROVE FALSE
  BY <1>0, <1>9 DEF BulkNext, Grounded
<1>10. ASSUME NEW p \in pipes, PipeFinish(p) PROVE Old \/ New
  <2>1. p.by # "bulk" /\ p \in Pipe
    BY <1>0 DEF Grounded
  <2>2. \/ p.stage = "passed" /\ queue' = WithStatus(queue, p.id, "deleted")
        \/ \E s \in Status \ {"deleted"} : queue' = WithStatus(queue, p.id, s)
    BY <1>10, <2>1 DEF PipeFinish, Outcome, Pipe, Status
  <2>3. CASE t.id = p.id /\ p.stage = "passed" /\ queue' = WithStatus(queue, p.id, "deleted")
    <3>1. \E r \in queue : r.id = t.id /\ r.item = t.item
      BY <1>0, <2>3, WithStatusTable DEF Updated, Status
    <3>2. t.item = p.item
      BY <1>0, <2>3, <3>1 DEF Agrees
    <3>3. QED BY <1>10, <2>3, <3>2
  <2>4. QED BY <1>1, <1>3, <2>2, <2>3 DEF Status
<1>11. QED
  <2>1. Kept \/ \E i \in Items : Enqueue(i)
    BY QueueStep
  <2>2. StatusKept => \E r \in queue : r.id = t.id /\ r.status = t.status
    BY DEF StatusKept
  <2> HIDE DEF Old, New
  <2>3. t \in queue => Old
    BY DEF Old
  <2>4. OtherWorkerStarts \/ Restart => t \in queue
    BY <1>6 DEF OtherWorkerStarts, Restart
  <2>5. QED BY <1>0, <1>2, <1>4, <1>5, <1>7, <1>8, <1>9, <1>10, <2>1, <2>2, <2>3, <2>4, StatusStep

(* Media only leaves the server. *)
LEMMA MediaLeaves ==
    ASSUME [Next]_vars PROVE media' \subseteq media
<1>1. ASSUME NEW p \in pipes, PipeStep(p) \/ DeleteNowLoad(p) \/ PipeWriteFails(p)
      PROVE  media' \subseteq media
  BY <1>1 DEF PipeStep, PipeMedia, PipeRest, PipeFinish, DeleteNowLoad, PipeWriteFails
<1>2. CASE World
  BY <1>2 DEF World, Tick, SetDryRun, Watch, Enqueue, ScanAdvance, RefreshDates,
     RemoveRow, Scrobble, DropPending, PurgeDeleted, CleanupRetention, OtherWorkerStarts
<1>3. CASE JobStep
  BY <1>3 DEF JobStep, JobStart, JobSelect, JobRefresh, JobWriteWatchState, JobRefreshed,
     JobRescue, JobBeginExecute, JobClaim, JobSkip, JobEnd
<1>4. ASSUME NEW h \in Requests, Start(h) \/ ReqStep(h) PROVE media' \subseteq media
  BY <1>1, <1>4 DEF Start, DeleteNow, BulkDelete, ReqStep, DeleteNowClaim, BulkNext,
     BulkEnd, PipesOf
<1>5. CASE Fault
  BY <1>1, <1>5 DEF Fault, JobAbort, JobTimeout, Crash
<1>6. CASE Restart \/ UNCHANGED vars
  BY <1>6 DEF Restart, vars
<1>7. QED
  BY <1>1, <1>2, <1>3, <1>4, <1>5, <1>6 DEF Next, JobPipeStep, JobPipes

Removed(p) == p.item \notin Consolidated /\ Reaches(p) => p.item \notin media'

(* A pipeline past the media server step was there before, or its item was
   just removed, or it was past that step already. *)
LEMMA PastOrigin ==
    ASSUME TypeOK, [Next]_vars, NEW p \in pipes', p.stage \in {"rest", "passed"}
    PROVE  \/ p \in pipes
           \/ \E q \in pipes : /\ p.item = q.item /\ p.by = q.by
                               /\ Removed(q) \/ q.stage = "rest"
<1> DEFINE Moved == \E q \in pipes : /\ p.item = q.item /\ p.by = q.by
                                     /\ Removed(q) \/ q.stage = "rest"
<1> DEFINE Goal == p \in pipes \/ Moved
<1> SUFFICES Goal
  OBVIOUS
<1>0. pipes \subseteq Pipe
  BY DEF TypeOK
<1>1. \A who, by, b, st : PipeFor(who, by, b, st).stage = st
  BY DEF PipeFor
<1>2. ASSUME NEW q \in pipes, NEW s, AtStage(q, s)
      PROVE  p \in pipes \/ (p.item = q.item /\ p.by = q.by /\ p.stage = s)
  BY <1>0, <1>2 DEF AtStage, Pipe
<1>3. ASSUME NEW q \in pipes, PipeMedia(q) PROVE Goal
  <2>1. CASE media' = media \ {q.item} /\ \E s \in {"rest", "failed"} : AtStage(q, s)
    BY <1>2, <2>1 DEF Removed
  <2>2. CASE (q.item \in Consolidated \/ ~Reaches(q)) /\ AtStage(q, "rest")
    BY <1>2, <2>2 DEF Removed
  <2>3. CASE AtStage(q, "failed")
    BY <1>2, <2>3
  <2>4. QED BY <1>3, <2>1, <2>2, <2>3 DEF PipeMedia
<1>4. ASSUME NEW q \in pipes, PipeRest(q) PROVE Goal
  <2>1. q.stage = "rest" /\ \E s \in {"passed", "failed"} : AtStage(q, s)
    BY <1>4 DEF PipeRest
  <2>2. QED BY <1>2, <2>1
<1>5. ASSUME NEW q \in pipes, PipeFinish(q) \/ PipeWriteFails(q) PROVE Goal
  BY <1>5 DEF PipeFinish, PipeWriteFails
<1>6. ASSUME NEW q \in pipes, DeleteNowLoad(q) PROVE Goal
  <2>1. AtStage(q, "media") \/ pipes' = pipes \ {q}
    BY <1>6 DEF DeleteNowLoad, AtStage
  <2>2. QED BY <1>2, <2>1
<1>7. CASE JobStep
  <2>1. ASSUME NEW b \in job.batch, JobClaim(b) PROVE Goal
    <3>1. p \in pipes \/ p = PipeFor("job", "job", b, "media")
      BY <2>1 DEF JobClaim
    <3>2. QED BY <1>1, <3>1
  <2>2. CASE pipes' = pipes
    BY <2>2
  <2>3. JobStep => pipes' = pipes \/ \E b \in job.batch : JobClaim(b)
    BY DEF JobStep, JobStart, JobSelect, JobRefresh, JobWriteWatchState, JobRefreshed,
       JobRescue, JobBeginExecute, JobSkip, JobEnd
  <2> HIDE DEF Goal
  <2>4. QED BY <1>7, <2>1, <2>2, <2>3
<1>8. ASSUME NEW h \in Requests, Start(h) \/ ReqStep(h) PROVE Goal
  <2>1. CASE Start(h) \/ DeleteNowClaim(h) \/ BulkEnd(h) \/ \E b \in req[h].todo : BulkNext(h, b)
    BY <1>1, <2>1 DEF Start, DeleteNow, BulkDelete, DeleteNowClaim, BulkNext, BulkEnd
  <2>2. CASE \E q \in PipesOf(h) : DeleteNowLoad(q) \/ PipeStep(q)
    BY <1>3, <1>4, <1>5, <1>6, <2>2 DEF PipesOf, PipeStep
  <2>3. QED BY <1>8, <2>1, <2>2 DEF ReqStep
<1>9. CASE World \/ Restart \/ UNCHANGED vars
  BY <1>9 DEF World, Tick, SetDryRun, Watch, Enqueue, ScanAdvance, RefreshDates,
     RemoveRow, Scrobble, DropPending, PurgeDeleted, CleanupRetention, OtherWorkerStarts,
     Restart, vars
<1>10. CASE Fault
  BY <1>5, <1>10 DEF Fault, JobAbort, JobTimeout, Crash
<1>11. CASE JobPipeStep
  BY <1>3, <1>4, <1>5, <1>11 DEF JobPipeStep, JobPipes, PipeStep
<1> HIDE DEF Goal
<1>12. QED BY <1>7, <1>8, <1>9, <1>10, <1>11 DEF Next

(* A pipeline gets past the media server step of the server it reaches only
   by removing the media. *)
LEMMA GoneStep == ASSUME TypeOK, GoneInv, [Next]_vars PROVE GoneInv'
<1> SUFFICES ASSUME NEW p \in pipes', p.stage \in {"rest", "passed"},
                    p.item \notin Consolidated, Reaches(p)
             PROVE  p.item \notin media'
  BY DEF GoneInv, Reaches
<1>1. CASE p \in pipes
  BY <1>1, MediaLeaves DEF GoneInv
<1>2. ASSUME NEW q \in pipes, p.item = q.item, p.by = q.by, Removed(q) \/ q.stage = "rest"
      PROVE  p.item \notin media'
  BY <1>2, MediaLeaves DEF GoneInv, Removed, Reaches
<1>3. QED BY <1>1, <1>2, PastOrigin

(* 'deleted' means gone (MediaServerStep before update_queue_status): with one
   media server and without the bulk endpoint, for any items, handlers and
   faults, the media behind a row marked 'deleted' has left the server, unless
   it is a consolidated row. *)
THEOREM DeletedMeansGone == Spec => []DeletedIsGone
<1>1. Init => GoneInv /\ DeletedIsGone
  BY DEF Init, GoneInv, DeletedIsGone, DeletedRowsAreGone
<1>2. TypeOK /\ ClaimInv /\ GoneInv /\ DeletedIsGone /\ [Next]_vars => GoneInv' /\ DeletedIsGone'
  <2> SUFFICES ASSUME TypeOK, ClaimInv, GoneInv, DeletedIsGone, [Next]_vars,
                      "bulk" \notin Features, Servers = {DefaultServer},
                      NEW t \in queue', t.status = "deleted", t.item \notin Consolidated
               PROVE  t.item \notin media'
    BY GoneStep DEF DeletedIsGone, DeletedRowsAreGone
  <2>1. ASSUME NEW r \in queue, r.item = t.item, r.status = "deleted" PROVE t.item \notin media'
    BY <2>1, MediaLeaves DEF DeletedIsGone, DeletedRowsAreGone
  <2>2. ASSUME NEW p \in pipes, p.stage = "passed", p.item = t.item PROVE t.item \notin media'
    <3>1. ServerOf[p.item] = DefaultServer
      BY ConstantsOK DEF TypeOK, Pipe
    <3>2. QED BY <2>2, <3>1, MediaLeaves DEF GoneInv, Reaches
  <2>3. QED BY <2>1, <2>2, DeletedOrigin
<1>3. QED BY <1>1, <1>2, InitTyped, TypeStep, ClaimInit, ClaimStep, PTL DEF Spec

-----------------------------------------------------------------------------
(* The life cycle of a status. *)

LEMMA EdgeStep ==
    ASSUME TypeOK, ClaimInv, [Next]_vars, Features = {},
           NEW r \in queue, NEW q \in queue', r.id = q.id, r.status # q.status
    PROVE  <<r.status, q.status>> \in Edges
<1>0. /\ Table(queue, nextId) /\ nextId \in Nat /\ pipes \subseteq Pipe /\ Grounded /\ ClaimHolds
      /\ \A t \in queue : t.id = r.id => t = r
  BY TypeSplit, ConstantsOK DEF QueueTyped, RestTyped, ClaimInv, Table
<1>1. ASSUME StatusKept PROVE FALSE
  BY <1>0, <1>1 DEF StatusKept
<1>2. ASSUME q \in queue PROVE FALSE
  BY <1>0, <1>2
<1>3. ASSUME NEW i \in Items, Enqueue(i) PROVE FALSE
  <2>1. q.id = nextId
    BY <1>2, <1>3 DEF Enqueue
  <2>2. r.id < nextId
    BY <1>0 DEF Table
  <2>3. QED BY <1>0, <2>1, <2>2
<1>4. CASE Restart
  <2>1. PICK t \in queue : q = IF t.status = "deleting" THEN [t EXCEPT !.status = "pending"] ELSE t
    BY <1>4 DEF Restart, ResetDeleting
  <2>2. t \in Row
    BY <1>0 DEF Table
  <2>3. q.id = t.id /\ t = r
    BY <1>0, <2>1, <2>2 DEF Row
  <2>4. r.status = "deleting" /\ q.status = "pending"
    BY <1>2, <2>1, <2>2, <2>3 DEF Row
  <2>5. QED BY <2>4 DEF Edges
<1>5. ASSUME NEW id, NEW s \in Status, queue' = WithStatus(queue, id, s)
      PROVE  r.id = id /\ q.status = s
  BY <1>0, <1>2, <1>5, WithStatusTable
<1>6. ASSUME NEW id, Claimable(id), queue' = WithStatus(queue, id, "deleting")
      PROVE  <<r.status, q.status>> \in Edges
  <2>1. r.id = id /\ q.status = "deleting"
    BY <1>5, <1>6 DEF Status
  <2>2. r.status = "pending"
    BY <1>0, <1>6, <2>1 DEF Claimable
  <2>3. QED BY <2>1, <2>2 DEF Edges
<1>7. ASSUME NEW b \in job.batch, JobClaim(b) PROVE <<r.status, q.status>> \in Edges
  BY <1>6, <1>7 DEF JobClaim
<1>8. ASSUME NEW h \in Requests, DeleteNowClaim(h) PROVE <<r.status, q.status>> \in Edges
  BY <1>2, <1>6, <1>8 DEF DeleteNowClaim
<1>9. ASSUME NEW h \in Requests, NEW b \in req[h].todo, BulkNext(h, b) PROVE FALSE
  BY <1>0, <1>9 DEF BulkNext, Grounded
<1>10. ASSUME NEW p \in pipes, PipeFinish(p) PROVE <<r.status, q.status>> \in Edges
  <2>1. p.by \in {"job", "now"} /\ p.stage \in {"passed", "failed"}
    BY <1>0, <1>10 DEF Grounded, Pipe, PipeFinish
  <2>2. PICK s \in {"deleted", "error", "pending"} : queue' = WithStatus(queue, p.id, s)
    BY <1>10, <2>1 DEF PipeFinish, Outcome
  <2>3. r.id = p.id /\ q.status = s
    BY <1>5, <2>2 DEF Status
  <2>4. r.status = "deleting"
    BY <1>0, <2>1, <2>3 DEF ClaimHolds
  <2>5. QED BY <2>2, <2>3, <2>4 DEF Edges
<1>11. QED
  BY <1>0, <1>1, <1>3, <1>4, <1>7, <1>8, <1>9, <1>10, StatusStep DEF Scrobble, OtherWorkerStarts

(* With neither bulk endpoint, webhook nor second worker, 'deleted' and 'error'
   are final and a claim precedes them (claim_for_deletion,
   update_queue_status, reset_stale_deleting), though no status write after a
   claim looks at the status it replaces. *)
THEOREM StatusMovesOnEdges == Spec => LifeCycle
<1> DEFINE A == Features = {} => \A r \in queue : \A q \in queue' :
                  r.id = q.id /\ r.status # q.status => <<r.status, q.status>> \in Edges
<1>1. TypeOK /\ ClaimInv /\ [Next]_vars => [A]_vars
  BY EdgeStep
<1>2. LifeCycle <=> [][A]_vars
  BY PTL DEF LifeCycle
<1> HIDE DEF A
<1>3. QED BY <1>1, <1>2, InitTyped, TypeStep, ClaimInit, ClaimStep, PTL DEF Spec
=============================================================================
