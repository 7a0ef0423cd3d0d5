------------------------- MODULE DeletionQueueProofs -------------------------
(* Theorems about DeletionQueue, for every value of its constants. *)
EXTENDS DeletionQueue, TLAPS

-----------------------------------------------------------------------------
(* The table.  Every statement of db/repositories.py keeps the two UNIQUE
   keys and never hands out an id twice. *)

Table(q, n) ==
    /\ q \subseteq Row
    /\ \A r \in q : r.id < n
    /\ \A r, t \in q : r.id = t.id \/ r.item = t.item => r = t

(* q2 is q after an UPDATE or a DELETE: its rows are rows of q with another
   status, due date or play date. *)
Updated(q, q2) ==
    \A t \in q2 : t \in Row /\ \E r \in q : /\ r.id = t.id
                                            /\ r.item = t.item
                                            /\ r.detected = t.detected

(* WithStatus (update_queue_status, claim_for_deletion) keeps the table sound
   and touches the status of one id only. *)
LEMMA WithStatusTable ==
    ASSUME NEW q, NEW n \in Nat, Table(q, n), NEW id, NEW s \in Status
    PROVE  /\ Table(WithStatus(q, id, s), n)
           /\ Updated(q, WithStatus(q, id, s))
           /\ \A t \in WithStatus(q, id, s) :
                IF t.id = id THEN t.status = s ELSE t \in q
<1> DEFINE f(r) == IF r.id = id THEN [r EXCEPT !.status = s] ELSE r
<1>1. \A r \in q : /\ f(r) \in Row
                   /\ f(r).id = r.id
                   /\ f(r).item = r.item
                   /\ f(r).detected = r.detected
                   /\ (r.id = id => f(r).status = s)
                   /\ (r.id # id => f(r) = r)
  BY DEF Table, Row
<1>2. \A t \in WithStatus(q, id, s) : \E r \in q : t = f(r)
  BY DEF WithStatus
<1> HIDE DEF f
<1>3. QED BY <1>1, <1>2 DEF Table, Updated

(* Deleting rows keeps the table sound. *)
LEMMA SubTable ==
    ASSUME NEW q, NEW n \in Nat, Table(q, n), NEW q2 \in SUBSET q
    PROVE  Table(q2, n) /\ Updated(q, q2)
BY DEF Table, Updated

(* Advanced (update_activity_log_batch) changes play dates of pending rows. *)
LEMMA AdvancedTable ==
    ASSUME NEW q, NEW n \in Nat, Table(q, n), NEW w \in [Items -> Time]
    PROVE  /\ Table(Advanced(q, w), n)
           /\ Updated(q, Advanced(q, w))
           /\ \A t \in Advanced(q, w) : \E r \in q : r.id = t.id /\ r.status = t.status
<1> DEFINE f(r) == IF r.status = "pending" /\ r.played < w[r.item]
                   THEN [r EXCEPT !.played = w[r.item]] ELSE r
<1>1. \A r \in q : /\ f(r) \in Row
                   /\ f(r).id = r.id
                   /\ f(r).item = r.item
                   /\ f(r).detected = r.detected
                   /\ f(r).status = r.status
  BY DEF Table, Row
<1>2. \A t \in Advanced(q, w) : \E r \in q : t = f(r)
  BY DEF Advanced
<1> HIDE DEF f
<1>3. QED BY <1>1, <1>2 DEF Table, Updated

(* ResetDeleting (reset_deleting_to_pending) leaves no row 'deleting' and
   changes no other status. *)
LEMMA ResetTable ==
    ASSUME NEW q, NEW n \in Nat, Table(q, n)
    PROVE  /\ Table(ResetDeleting(q), n)
           /\ Updated(q, ResetDeleting(q))
           /\ \A t \in ResetDeleting(q) :
                /\ t.status # "deleting"
                /\ t \in q \/ \E r \in q : r.id = t.id /\ r.status = "deleting" /\ t.status = "pending"
<1> DEFINE f(r) == IF r.status = "deleting" THEN [r EXCEPT !.status = "pending"] ELSE r
<1>1. \A r \in q : /\ f(r) \in Row
                   /\ f(r).id = r.id
                   /\ f(r).item = r.item
                   /\ f(r).detected = r.detected
                   /\ (r.status = "deleting" => f(r).status = "pending")
                   /\ (r.status # "deleting" => f(r) = r)
  BY DEF Table, Row, Status
<1>2. \A t \in ResetDeleting(q) : \E r \in q : t = f(r)
  BY DEF ResetDeleting
<1> HIDE DEF f
<1>3. QED BY <1>1, <1>2 DEF Table, Updated

(* Replacing one row by one with the same keys. *)
LEMMA ReplaceTable ==
    ASSUME NEW q, NEW n \in Nat, Table(q, n), NEW r \in q, NEW t \in Row,
           t.id = r.id, t.item = r.item, t.detected = r.detected
    PROVE  Table((q \ {r}) \cup {t}, n) /\ Updated(q, (q \ {r}) \cup {t})
BY DEF Table, Updated

(* INSERT OR IGNORE of a row with a fresh id and an emby_id not in use. *)
LEMMA InsertTable ==
    ASSUME NEW q, NEW n \in Nat, Table(q, n), NEW t \in Row, t.id = n,
           \A r \in q : r.item # t.item
    PROVE  Table(q \cup {t}, n + 1)
BY DEF Table, Row, RowIds

(* Copies of rows, and the pipelines started on them, are well formed. *)
LEMMA Copies ==
    /\ \A r \in Row : SnapshotOf(r) \in Snapshot
    /\ \A b \in Snapshot, log \in [Items -> Time] : Fresher(b, log) \in Snapshot
    /\ \A b \in Snapshot, who \in Requests \cup {"job"}, by \in {"job", "now", "bulk"},
         st \in {"load", "media", "rest", "passed", "failed"} :
            PipeFor(who, by, b, st) \in Pipe
    /\ \A p \in Pipe, st \in {"load", "media", "rest", "passed", "failed"} :
            [p EXCEPT !.stage = st] \in Pipe
BY DEF SnapshotOf, Snapshot, Row, Fresher, PipeFor, Pipe

-----------------------------------------------------------------------------
(* Type correctness. *)

QueueTyped == Table(queue, nextId) /\ nextId \in 1 .. MaxRowId + 1

RestTyped ==
    /\ now \in Time
    /\ served \in [Items -> Time]
    /\ media \subseteq Items
    /\ dryRun \in BOOLEAN
    /\ up \in BOOLEAN
    /\ job \in Job
    /\ pipes \subseteq Pipe
    /\ req \in [Requests -> Req]

LEMMA TypeSplit == TypeOK <=> QueueTyped /\ RestTyped
BY DEF TypeOK, QueueTyped, RestTyped, Table

LEMMA InitTyped == Init => TypeOK
BY ConstantsOK DEF Init, TypeOK, IdleJob, Job, IdleReq, Req, Neglected, JobPc, ReqPc, Time

(* Every step keeps the table sound, and either inserts one row or keeps the
   keys and the detection date of the rows that remain. *)
Kept == nextId' = nextId /\ Updated(queue, queue')

LEMMA QueueStep ==
    TypeOK /\ [Next]_vars => QueueTyped' /\ (Kept \/ \E i \in Items : Enqueue(i))
<1> SUFFICES ASSUME TypeOK, [Next]_vars
             PROVE  QueueTyped' /\ (Kept \/ \E i \in Items : Enqueue(i))
  OBVIOUS
<1> DEFINE Goal == QueueTyped' /\ (Kept \/ \E i \in Items : Enqueue(i))
<1> USE TypeSplit
<1>n. nextId \in Nat /\ Table(queue, nextId)
  BY ConstantsOK DEF QueueTyped
<1> DEFINE Same == nextId' = nextId
<1>1. ASSUME Same, queue' = queue PROVE Goal
  BY <1>1, <1>n DEF QueueTyped, Table, Kept, Updated
<1>2. ASSUME Same, queue' \in SUBSET queue PROVE Goal
  BY <1>2, <1>n, SubTable DEF QueueTyped, Kept
<1>3. ASSUME Same, NEW id, NEW s \in Status, queue' = WithStatus(queue, id, s) PROVE Goal
  BY <1>3, <1>n, WithStatusTable DEF QueueTyped, Kept
<1>4. ASSUME Same, queue' = ResetDeleting(queue) PROVE Goal
  BY <1>4, <1>n, ResetTable DEF QueueTyped, Kept
<1>5. ASSUME Same, NEW w \in [Items -> Time], queue' = Advanced(queue, w) PROVE Goal
  BY <1>5, <1>n, AdvancedTable DEF QueueTyped, Kept
<1>6. ASSUME Same, NEW r \in queue, NEW t \in Row, t.id = r.id, t.item = r.item,
             t.detected = r.detected, queue' = (queue \ {r}) \cup {t}
      PROVE Goal
  BY <1>6, <1>n, ReplaceTable DEF QueueTyped, Kept
<1>7. CASE UNCHANGED vars
  BY <1>7, <1>1 DEF vars
<1>8. ASSUME NEW i \in Items, Enqueue(i) PROVE Goal
  <2>1. PICK g \in Graces, p \in 0 .. served[i] :
          queue' = queue \cup {[id |-> nextId, item |-> i, status |-> "pending",
                                detected |-> now, due |-> now + g, played |-> p]}
    BY <1>8 DEF Enqueue
  <2> DEFINE t == [id |-> nextId, item |-> i, status |-> "pending",
                   detected |-> now, due |-> now + g, played |-> p]
  <2>2. t \in Row
    BY <1>8, ConstantsOK DEF Enqueue, RestTyped, Row, Status, Time
  <2>3. t.id = nextId /\ \A r \in queue : r.item # t.item
    BY <1>8 DEF Enqueue
  <2>4. nextId' = nextId + 1 /\ nextId' \in 1 .. MaxRowId + 1
    BY <1>8, ConstantsOK DEF Enqueue, RowIds
  <2> HIDE DEF t
  <2>5. QED BY <1>8, <2>1, <2>2, <2>3, <2>4, <1>n, InsertTable DEF QueueTyped, t
<1>9. ASSUME NEW i \in Items, ScanAdvance(i) PROVE Goal
  <2>1. [Neglected EXCEPT ![i] = served[i]] \in [Items -> Time]
    BY <1>9, ConstantsOK DEF Neglected, RestTyped, Time
  <2>2. QED BY <1>9, <2>1, <1>5 DEF ScanAdvance
<1>10. ASSUME NEW r \in queue, RefreshDates(r) \/ Scrobble(r) PROVE Goal
  <2>0. r \in Row
    BY <1>n DEF Table
  <2>1. CASE RefreshDates(r)
    <3>1. PICK g \in Graces, p \in 0 .. served[r.item] :
            queue' = (queue \ {r}) \cup {[r EXCEPT !.due = r.detected + g, !.played = p]}
      BY <2>1 DEF RefreshDates
    <3>2. [r EXCEPT !.due = r.detected + g, !.played = p] \in Row
      <4>1. r.detected + g \in Nat
        BY <2>0, ConstantsOK DEF Row, Time
      <4>2. p \in Time
        <5>1. served[r.item] \in Time
          BY <2>0 DEF Row, RestTyped
        <5>2. QED BY <5>1, ConstantsOK DEF Time
      <4>3. QED BY <2>0, <4>1, <4>2 DEF Row
    <3>3. QED BY <2>0, <2>1, <3>1, <3>2, <1>6 DEF RefreshDates, Row
  <2>2. CASE Scrobble(r)
    <3>1. PICK p \in Time :
            queue' = (queue \ {r}) \cup {[r EXCEPT !.status = "pending", !.played = p]}
      BY <2>2, <2>0 DEF Scrobble, RestTyped, Row
    <3>2. [r EXCEPT !.status = "pending", !.played = p] \in Row
      BY <2>0 DEF Row, Status
    <3>3. QED BY <2>0, <2>2, <3>1, <3>2, <1>6 DEF Scrobble, Row
  <2>3. QED BY <1>10, <2>1, <2>2
<1>11. CASE World
  <2>1. CASE Tick \/ SetDryRun \/ \E i \in Items : Watch(i)
    BY <2>1, <1>1 DEF Tick, SetDryRun, Watch
  <2>2. ASSUME NEW r \in queue, RemoveRow(r) PROVE Goal
    BY <2>2, <1>2 DEF RemoveRow, Without
  <2>3. ASSUME NEW s \in Servers, DropPending(s) PROVE Goal
    BY <2>3, <1>2 DEF DropPending
  <2>4. CASE PurgeDeleted \/ CleanupRetention
    BY <2>4, <1>2 DEF PurgeDeleted, CleanupRetention
  <2>5. CASE OtherWorkerStarts
    BY <2>5, <1>4 DEF OtherWorkerStarts
  <2>6. QED BY <1>11, <1>8, <1>9, <1>10, <2>1, <2>2, <2>3, <2>4, <2>5 DEF World
<1>12. CASE JobStep
  <2>1. CASE JobStart \/ JobSelect \/ JobRefreshed \/ JobBeginExecute \/ JobEnd
    BY <2>1, <1>1 DEF JobStart, JobSelect, JobRefreshed, JobBeginExecute, JobEnd
  <2>2. ASSUME NEW s \in Servers, JobRefresh(s) PROVE Goal
    BY <2>2, <1>1 DEF JobRefresh
  <2>3. CASE JobWriteWatchState
    BY <2>3, <1>1, <1>5 DEF JobWriteWatchState, RestTyped, Job
  <2>4. ASSUME NEW b \in job.batch, JobRescue(b) \/ JobClaim(b) \/ JobSkip(b) PROVE Goal
    BY <2>4, <1>1, <1>2, <1>3 DEF JobRescue, JobClaim, JobSkip, Without, Status
  <2>5. QED BY <1>12, <2>1, <2>2, <2>3, <2>4 DEF JobStep
<1>13. ASSUME NEW p \in pipes, PipeStep(p) \/ DeleteNowLoad(p) \/ PipeWriteFails(p)
       PROVE Goal
  <2>1. p.by \in {"job", "now", "bulk"}
    BY DEF RestTyped, Pipe
  <2>2. CASE PipeFinish(p)
    BY <2>1, <2>2, <1>1, <1>3 DEF PipeFinish, Outcome, Status
  <2>3. QED BY <1>13, <1>1, <2>2 DEF PipeStep, PipeMedia, PipeRest, DeleteNowLoad, PipeWriteFails
<1>14. ASSUME NEW h \in Requests, Start(h) \/ ReqStep(h) PROVE Goal
  <2>1. CASE Start(h)
    BY <2>1, <1>1 DEF Start, DeleteNow, BulkDelete
  <2>2. CASE DeleteNowClaim(h)
    BY <2>2, <1>1, <1>3 DEF DeleteNowClaim, Status
  <2>3. ASSUME NEW b \in req[h].todo, BulkNext(h, b) PROVE Goal
    BY <2>3, <1>1, <1>3 DEF BulkNext, Status
  <2>4. CASE BulkEnd(h)
    BY <2>4, <1>1 DEF BulkEnd
  <2>5. QED BY <1>13, <1>14, <2>1, <2>2, <2>3, <2>4 DEF ReqStep, PipesOf
<1>15. CASE Fault
  BY <1>15, <1>1, <1>13 DEF Fault, JobAbort, JobTimeout, Crash
<1>16. CASE Restart
  BY <1>16, <1>4 DEF Restart
<1>17. QED
  BY <1>7, <1>11, <1>12, <1>13, <1>14, <1>15, <1>16 DEF Next, JobPipeStep, JobPipes

LEMMA JobTyped == TypeOK /\ [Next]_vars => job' \in Job
<1> SUFFICES ASSUME TypeOK, [Next]_vars PROVE job' \in Job
  OBVIOUS
<1> USE TypeSplit
<1>0. job \in Job /\ served \in [Items -> Time] /\ queue \subseteq Row
  BY DEF RestTyped, QueueTyped, Table
<1>i. IdleJob \in Job /\ Neglected \in [Items -> Time]
  BY ConstantsOK DEF IdleJob, Job, JobPc, Neglected, Time
<1>1. CASE job' = job
  BY <1>0, <1>1
<1>2. CASE job' = IdleJob
  BY <1>i, <1>2
<1>3. CASE JobStep
  <2>1. CASE JobStart
    BY <2>1, <1>0, <1>i DEF JobStart, Job, JobPc, RestTyped, IdleJob
  <2>2. CASE JobSelect
    <3>1. \A r \in queue : SnapshotOf(r) \in Snapshot /\ ServerOf[r.item] \in Servers
      BY <1>0, Copies, ConstantsOK DEF Row
    <3>2. /\ {SnapshotOf(r) : r \in DueRows} \in SUBSET Snapshot
          /\ {ServerOf[r.item] : r \in DueRows} \in SUBSET Servers
      BY <3>1 DEF DueRows
    <3>3. QED BY <2>2, <3>2, <1>0 DEF JobSelect, Job, JobPc
  <2>3. ASSUME NEW s \in Servers, JobRefresh(s) PROVE job' \in Job
    <3>1. ASSUME NEW lost, job' = RefreshedBy(s, ActivityLog(s, lost))
          PROVE  job' \in Job
      <4> DEFINE log == ActivityLog(s, lost)
      <4>1. log \in [Items -> Time]
        BY <1>0, ConstantsOK DEF Time, ActivityLog
      <4> HIDE DEF log
      <4>2. {Fresher(b, log) : b \in job.batch} \in SUBSET Snapshot
        BY <4>1, <1>0, Copies DEF Job
      <4>3. [i \in Items |-> IF \E b \in job.batch : b.item = i THEN log[i] ELSE 0]
              \in [Items -> Time]
        BY <4>1, ConstantsOK DEF Time
      <4>4. RefreshedBy(s, log) \in Job
        BY <4>2, <4>3, <1>0 DEF Job, RefreshedBy
      <4>5. QED BY <3>1, <4>4 DEF log
    <3>2. CASE job' = [job EXCEPT !.servers = @ \ {s}]
      BY <3>2, <1>0 DEF Job
    <3>3. CASE job' = [job EXCEPT !.servers = @ \ {s},
                                  !.batch = {b \in @ : ServerOf[b.item] # s}]
      BY <3>3, <1>0 DEF Job
    <3>4. QED BY <2>3, <3>1, <3>2, <3>3 DEF JobRefresh
  <2>4. CASE JobWriteWatchState \/ JobRefreshed \/ JobBeginExecute
    BY <2>4, <1>0, <1>i DEF JobWriteWatchState, JobRefreshed, JobBeginExecute, Job, JobPc
  <2>5. ASSUME NEW b \in job.batch, JobRescue(b) \/ JobClaim(b) \/ JobSkip(b)
        PROVE  job' \in Job
    BY <2>5, <1>0 DEF JobRescue, JobClaim, JobSkip, Job
  <2>6. CASE JobEnd
    BY <2>6, <1>2 DEF JobEnd
  <2>7. QED BY <1>3, <2>1, <2>2, <2>3, <2>4, <2>5, <2>6 DEF JobStep
<1>4. CASE World
  BY <1>4, <1>1 DEF World, Tick, SetDryRun, Watch, Enqueue, ScanAdvance, RefreshDates,
       RemoveRow, Scrobble, DropPending, PurgeDeleted, CleanupRetention, OtherWorkerStarts
<1>5. ASSUME NEW p \in pipes, PipeStep(p) \/ DeleteNowLoad(p) \/ PipeWriteFails(p)
      PROVE  job' \in Job
  BY <1>5, <1>1 DEF PipeStep, PipeMedia, PipeRest, PipeFinish, DeleteNowLoad, PipeWriteFails
<1>6. ASSUME NEW h \in Requests, Start(h) \/ ReqStep(h) PROVE job' \in Job
  BY <1>5, <1>6, <1>1 DEF Start, DeleteNow, BulkDelete, ReqStep, DeleteNowClaim, BulkNext,
       BulkEnd, PipesOf
<1>7. CASE Fault
  BY <1>7, <1>2, <1>5 DEF Fault, JobAbort, JobTimeout, Crash
<1>8. CASE Restart \/ UNCHANGED vars
  BY <1>8, <1>1 DEF Restart, vars
<1>9. QED
  BY <1>3, <1>4, <1>5, <1>6, <1>7, <1>8 DEF Next, JobPipeStep, JobPipes

LEMMA WorldTyped ==
    TypeOK /\ [Next]_vars =>
      /\ now' \in Time /\ served' \in [Items -> Time] /\ media' \subseteq Items
      /\ dryRun' \in BOOLEAN /\ up' \in BOOLEAN
<1> SUFFICES ASSUME TypeOK, [Next]_vars
             PROVE  /\ now' \in Time /\ served' \in [Items -> Time] /\ media' \subseteq Items
                    /\ dryRun' \in BOOLEAN /\ up' \in BOOLEAN
  OBVIOUS
<1> DEFINE Goal == /\ now' \in Time /\ served' \in [Items -> Time] /\ media' \subseteq Items
                   /\ dryRun' \in BOOLEAN /\ up' \in BOOLEAN
<1> USE DEF TypeOK
<1>1. CASE UNCHANGED <<now, served, media, dryRun, up>>
  BY <1>1
<1>2. CASE World
  <2>1. CASE Tick
    BY <2>1, ConstantsOK DEF Tick, Time
  <2>2. CASE SetDryRun
    BY <2>2 DEF SetDryRun
  <2>3. CASE \E i \in Items : Watch(i)
    BY <2>3 DEF Watch
  <2>4. CASE \E r \in queue : Scrobble(r)
    BY <2>4 DEF Scrobble
  <2>5. QED
    BY <1>1, <1>2, <2>1, <2>2, <2>3, <2>4 DEF World, Enqueue, ScanAdvance, RefreshDates,
       RemoveRow, DropPending, PurgeDeleted, CleanupRetention, OtherWorkerStarts
<1>3. CASE JobStep
  BY <1>3, <1>1 DEF JobStep, JobStart, JobSelect, JobRefresh, JobWriteWatchState, JobRefreshed,
     JobRescue, JobBeginExecute, JobClaim, JobSkip, JobEnd
<1>4. ASSUME NEW p \in pipes, PipeStep(p) \/ DeleteNowLoad(p) \/ PipeWriteFails(p) PROVE Goal
  <2>1. CASE PipeMedia(p)
    BY <2>1 DEF PipeMedia
  <2>2. QED BY <1>1, <1>4, <2>1 DEF PipeStep, PipeRest, PipeFinish, DeleteNowLoad, PipeWriteFails
<1>5. ASSUME NEW h \in Requests, Start(h) \/ ReqStep(h) PROVE Goal
  BY <1>1, <1>4, <1>5 DEF Start, DeleteNow, BulkDelete, ReqStep, DeleteNowClaim, BulkNext,
     BulkEnd, PipesOf
<1>6. CASE Fault
  BY <1>1, <1>4, <1>6 DEF Fault, JobAbort, JobTimeout, Crash
<1>7. CASE Restart \/ UNCHANGED vars
  BY <1>1, <1>7 DEF Restart, vars
<1>8. QED BY <1>2, <1>3, <1>4, <1>5, <1>6, <1>7 DEF Next, JobPipeStep, JobPipes

LEMMA PipesTyped == TypeOK /\ [Next]_vars => pipes' \subseteq Pipe
<1> SUFFICES ASSUME TypeOK, [Next]_vars PROVE pipes' \subseteq Pipe
  OBVIOUS
<1>0. pipes \subseteq Pipe /\ job \in Job /\ req \in [Requests -> Req]
  BY DEF TypeOK
<1>1. CASE pipes' \subseteq pipes
  BY <1>0, <1>1
<1>2. ASSUME NEW p \in pipes, NEW st \in {"load", "media", "rest", "passed", "failed"},
             pipes' = (pipes \ {p}) \cup {[p EXCEPT !.stage = st]}
      PROVE  pipes' \subseteq Pipe
  BY <1>0, <1>2, Copies
<1>3. ASSUME NEW b \in Snapshot, NEW who \in Requests \cup {"job"},
             NEW by \in {"job", "now", "bulk"},
             NEW st \in {"load", "media", "rest", "passed", "failed"},
             pipes' = pipes \cup {PipeFor(who, by, b, st)}
      PROVE  pipes' \subseteq Pipe
  BY <1>0, <1>3, Copies
<1>4. CASE World
  BY <1>4, <1>1 DEF World, Tick, SetDryRun, Watch, Enqueue, ScanAdvance, RefreshDates,
       RemoveRow, Scrobble, DropPending, PurgeDeleted, CleanupRetention, OtherWorkerStarts
<1>5. CASE JobStep
  <2>1. ASSUME NEW b \in job.batch, JobClaim(b) PROVE pipes' \subseteq Pipe
    <3>1. b \in Snapshot
      BY <1>0 DEF Job
    <3>2. QED BY <2>1, <3>1, <1>3 DEF JobClaim
  <2>2. QED
    BY <1>1, <1>5, <2>1 DEF JobStep, JobStart, JobSelect, JobRefresh, JobWriteWatchState,
       JobRefreshed, JobRescue, JobBeginExecute, JobSkip, JobEnd
<1>6. ASSUME NEW p \in pipes, PipeStep(p) \/ DeleteNowLoad(p) \/ PipeWriteFails(p)
      PROVE  pipes' \subseteq Pipe
  <2>1. CASE PipeMedia(p) \/ PipeRest(p)
    BY <2>1, <1>2 DEF PipeMedia, PipeRest, AtStage
  <2>2. CASE DeleteNowLoad(p)
    BY <2>2, <1>1, <1>2 DEF DeleteNowLoad
  <2>3. QED BY <1>1, <1>6, <2>1, <2>2 DEF PipeStep, PipeFinish, PipeWriteFails
<1>7. ASSUME NEW h \in Requests, Start(h) \/ ReqStep(h) PROVE pipes' \subseteq Pipe
  <2>0. req[h].todo \subseteq Snapshot
    BY <1>0 DEF Req
  <2>1. CASE DeleteNowClaim(h)
    BY <2>0, <2>1, <1>1, <1>3 DEF DeleteNowClaim
  <2>2. ASSUME NEW b \in req[h].todo, BulkNext(h, b) PROVE pipes' \subseteq Pipe
    BY <2>0, <2>2, <1>1, <1>3 DEF BulkNext
  <2>3. QED
    BY <1>1, <1>6, <1>7, <2>1, <2>2 DEF Start, DeleteNow, BulkDelete, ReqStep, BulkEnd, PipesOf
<1>8. CASE Fault
  BY <1>1, <1>6, <1>8 DEF Fault, JobAbort, JobTimeout, Crash
<1>9. CASE Restart \/ UNCHANGED vars
  BY <1>1, <1>9 DEF Restart, vars
<1>10. QED BY <1>4, <1>5, <1>6, <1>7, <1>8, <1>9 DEF Next, JobPipeStep, JobPipes

LEMMA ReqTyped == TypeOK /\ [Next]_vars => req' \in [Requests -> Req]
<1> SUFFICES ASSUME TypeOK, [Next]_vars PROVE req' \in [Requests -> Req]
  OBVIOUS
<1>0. queue \subseteq Row /\ dryRun \in BOOLEAN /\ req \in [Requests -> Req]
  BY DEF TypeOK
<1>i. IdleReq \in Req
  BY DEF IdleReq, Req, ReqPc
<1>1. CASE req' = req
  BY <1>0, <1>1
<1>2. ASSUME NEW h, req' = [req EXCEPT ![h] = IdleReq] PROVE req' \in [Requests -> Req]
  BY <1>0, <1>i, <1>2
<1>3. CASE World
  BY <1>3, <1>1 DEF World, Tick, SetDryRun, Watch, Enqueue, ScanAdvance, RefreshDates,
       RemoveRow, Scrobble, DropPending, PurgeDeleted, CleanupRetention, OtherWorkerStarts
<1>4. CASE JobStep
  BY <1>4, <1>1 DEF JobStep, JobStart, JobSelect, JobRefresh, JobWriteWatchState, JobRefreshed,
     JobRescue, JobBeginExecute, JobClaim, JobSkip, JobEnd
<1>5. ASSUME NEW p \in pipes, PipeStep(p) \/ DeleteNowLoad(p) \/ PipeWriteFails(p)
      PROVE  req' \in [Requests -> Req]
  BY <1>1, <1>2, <1>5 DEF PipeStep, PipeMedia, PipeRest, PipeFinish, Returned, DeleteNowLoad,
     PipeWriteFails
<1>6. ASSUME NEW h \in Requests, Start(h) PROVE req' \in [Requests -> Req]
  <2>1. \A r \in queue : SnapshotOf(r) \in Snapshot
    BY <1>0, Copies
  <2>2. ASSUME NEW r \in queue, DeleteNow(h, r) PROVE req' \in [Requests -> Req]
    BY <1>0, <2>1, <2>2 DEF DeleteNow, Req, ReqPc
  <2>3. ASSUME NEW rows \in SUBSET queue, BulkDelete(h, rows) PROVE req' \in [Requests -> Req]
    <3>1. {SnapshotOf(r) : r \in rows} \in SUBSET Snapshot
      BY <2>1
    <3>2. [pc |-> "bulk", dry |-> dryRun, todo |-> {SnapshotOf(r) : r \in rows}] \in Req
      BY <1>0, <3>1 DEF Req, ReqPc
    <3>3. QED BY <1>0, <2>3, <3>2 DEF BulkDelete
  <2>4. QED BY <1>6, <2>2, <2>3 DEF Start
<1>7. ASSUME NEW h \in Requests, ReqStep(h) PROVE req' \in [Requests -> Req]
  <2>1. CASE DeleteNowClaim(h)
    <3>1. [req[h] EXCEPT !.pc = "now", !.todo = {}] \in Req
      BY <1>0 DEF Req, ReqPc
    <3>2. QED BY <1>0, <1>2, <2>1, <3>1 DEF DeleteNowClaim
  <2>2. ASSUME NEW b \in req[h].todo, BulkNext(h, b) PROVE req' \in [Requests -> Req]
    BY <1>0, <2>2 DEF BulkNext, Req
  <2>3. QED BY <1>2, <1>5, <1>7, <2>1, <2>2 DEF ReqStep, BulkEnd, PipesOf
<1>8. CASE Fault
  BY <1>i, <1>1, <1>5, <1>8 DEF Fault, JobAbort, JobTimeout, Crash
<1>9. CASE Restart \/ UNCHANGED vars
  BY <1>1, <1>9 DEF Restart, vars
<1>10. QED BY <1>3, <1>4, <1>5, <1>6, <1>7, <1>8, <1>9 DEF Next, JobPipeStep, JobPipes

LEMMA TypeStep == TypeOK /\ [Next]_vars => TypeOK'
BY QueueStep, JobTyped, WorldTyped, PipesTyped, ReqTyped DEF TypeOK, QueueTyped, Table

(* Type correctness of the deletion queue, including the UNIQUE keys of
   media_queue and the freshness of its ids. *)
THEOREM TypeCorrect == Spec => []TypeOK
BY InitTyped, TypeStep, PTL DEF Spec

-----------------------------------------------------------------------------
(* The safety theorems: who may delete, what a claim means, what the rescue
   guard guarantees. *)

(* Copies keep describing their rows. *)

LEMMA AgreesKept ==
    ASSUME NEW b, Agrees(b), Kept PROVE Agrees(b)'
BY DEF Agrees, Kept, Updated

LEMMA AgreesInsert ==
    ASSUME TypeOK, NEW b, b.id \in Int, Agrees(b), NEW i \in Items, Enqueue(i) PROVE Agrees(b)'
<1>1. nextId \in Int /\ nextId' = nextId + 1
  BY ConstantsOK DEF TypeOK, Enqueue
<1>2. \A r \in queue' : r \in queue \/ r.id = nextId
  BY DEF Enqueue
<1>3. QED BY <1>1, <1>2 DEF Agrees

(* An id held by a copy stays valid through any step. *)
LEMMA AgreesStep ==
    ASSUME TypeOK, [Next]_vars, NEW b, b.id \in Int, Agrees(b) PROVE Agrees(b)'
BY QueueStep, AgreesKept, AgreesInsert

(* A copy taken now describes its row. *)
LEMMA SnapshotAgrees ==
    ASSUME TypeOK, NEW r \in queue PROVE Agrees(SnapshotOf(r))
<1>1. SnapshotOf(r).id = r.id /\ SnapshotOf(r).item = r.item
      /\ SnapshotOf(r).detected = r.detected
  BY DEF SnapshotOf
<1>2. QED BY <1>1 DEF Agrees, TypeOK

(* Only the fields named by Agrees matter. *)
LEMMA AgreesCong ==
    ASSUME NEW b, NEW c, Agrees(b), c.id = b.id, c.item = b.item, c.detected = b.detected
    PROVE  Agrees(c)
BY DEF Agrees

(* Where the elements of pipes', job.batch' and todo' come from. *)
LEMMA PipeOrigin ==
    ASSUME TypeOK, [Next]_vars, NEW p \in pipes'
    PROVE  \/ p \in pipes
           \/ \E q \in pipes : /\ p.id = q.id /\ p.item = q.item /\ p.detected = q.detected
                               /\ p.by = q.by /\ p.who = q.who
           \/ \E b \in job.batch : /\ JobClaim(b)
                                   /\ p = PipeFor("job", "job", b, "media")
           \/ \E h \in Requests : \E b \in req[h].todo :
                 /\ \/ DeleteNowClaim(h) /\ Claimable(b.id) /\ p = PipeFor(h, "now", b, "load")
                                         /\ queue' = WithStatus(queue, b.id, "deleting")
                    \/ BulkNext(h, b) /\ ~req[h].dry /\ p = PipeFor(h, "bulk", b, "media")
<1> DEFINE Moved == \E q \in pipes : /\ p.id = q.id /\ p.item = q.item /\ p.detected = q.detected
                                     /\ p.by = q.by /\ p.who = q.who
<1> DEFINE ByJob == \E b \in job.batch : JobClaim(b) /\ p = PipeFor("job", "job", b, "media")
<1> DEFINE ByReq(h) ==
       \E b \in req[h].todo :
         \/ DeleteNowClaim(h) /\ Claimable(b.id) /\ p = PipeFor(h, "now", b, "load")
                              /\ queue' = WithStatus(queue, b.id, "deleting")
         \/ BulkNext(h, b) /\ ~req[h].dry /\ p = PipeFor(h, "bulk", b, "media")
<1> SUFFICES p \in pipes \/ Moved \/ ByJob \/ \E h \in Requests : ByReq(h)
  OBVIOUS
<1>0. pipes \subseteq Pipe
  BY DEF TypeOK
<1>1. ASSUME NEW q \in pipes, NEW st, p = [q EXCEPT !.stage = st] PROVE Moved
  BY <1>0, <1>1 DEF Pipe
<1>2. ASSUME NEW q \in pipes, PipeStep(q) \/ DeleteNowLoad(q) \/ PipeWriteFails(q)
      PROVE  p \in pipes \/ Moved
  BY <1>1, <1>2 DEF PipeStep, PipeMedia, PipeRest, PipeFinish, AtStage, DeleteNowLoad,
     PipeWriteFails
<1> HIDE DEF Moved
<1>3. CASE World
  BY <1>3 DEF World, Tick, SetDryRun, Watch, Enqueue, ScanAdvance, RefreshDates,
       RemoveRow, Scrobble, DropPending, PurgeDeleted, CleanupRetention, OtherWorkerStarts
<1>4. ASSUME JobStep PROVE p \in pipes \/ ByJob
  <2>1. ASSUME NEW b \in job.batch, JobClaim(b) PROVE p \in pipes \/ ByJob
    BY <2>1 DEF JobClaim
  <2>2. QED
    BY <1>4, <2>1 DEF JobStep, JobStart, JobSelect, JobRefresh, JobWriteWatchState,
       JobRefreshed, JobRescue, JobBeginExecute, JobSkip, JobEnd
<1>5. ASSUME NEW h \in Requests, Start(h) PROVE p \in pipes
  BY <1>5 DEF Start, DeleteNow, BulkDelete
<1>6. ASSUME NEW h \in Requests, ReqStep(h) PROVE p \in pipes \/ Moved \/ ByReq(h)
  <2>1. CASE DeleteNowClaim(h)
    BY <2>1 DEF DeleteNowClaim
  <2>2. ASSUME NEW b \in req[h].todo, BulkNext(h, b)
        PROVE  p \in pipes \/ ByReq(h)
    BY <2>2 DEF BulkNext
  <2>3. CASE BulkEnd(h)
    BY <2>3 DEF BulkEnd
  <2>4. QED BY <1>2, <1>6, <2>1, <2>2, <2>3 DEF ReqStep, PipesOf
<1>7. CASE Fault
  BY <1>2, <1>7 DEF Fault, JobAbort, JobTimeout, Crash
<1>8. CASE Restart \/ UNCHANGED vars
  BY <1>8 DEF Restart, vars
<1> HIDE DEF ByJob, ByReq
<1>9. QED
  BY <1>2, <1>3, <1>4, <1>5, <1>6, <1>7, <1>8 DEF Next, JobPipeStep, JobPipes

LEMMA BatchOrigin ==
    ASSUME TypeOK, [Next]_vars, NEW b \in job'.batch
    PROVE  \/ \E c \in job.batch : b.id = c.id /\ b.item = c.item /\ b.detected = c.detected
           \/ queue' = queue /\ nextId' = nextId /\ \E r \in queue : b = SnapshotOf(r)
<1> DEFINE Old == \E c \in job.batch : b.id = c.id /\ b.item = c.item /\ b.detected = c.detected
<1> DEFINE New == queue' = queue /\ nextId' = nextId /\ \E r \in queue : b = SnapshotOf(r)
<1> SUFFICES Old \/ New
  OBVIOUS
<1>0. job \in Job
  BY DEF TypeOK
<1>1. CASE b \in job.batch
  BY <1>1
<1>2. ASSUME job' = IdleJob PROVE FALSE
  BY <1>2 DEF IdleJob
<1>3. CASE JobStep
  <2>1. ASSUME JobStart PROVE FALSE
    BY <2>1 DEF JobStart, IdleJob
  <2>2. CASE JobSelect
    <3>1. job'.batch = {SnapshotOf(r) : r \in DueRows}
      BY <2>2, <1>0 DEF JobSelect, Job
    <3>2. QED BY <2>2, <3>1 DEF JobSelect, DueRows
  <2>3. ASSUME NEW s \in Servers, JobRefresh(s) PROVE Old
    <3>1. ASSUME NEW lost, job' = RefreshedBy(s, ActivityLog(s, lost)) PROVE Old
      <4>1. PICK c \in job.batch : b = Fresher(c, ActivityLog(s, lost))
        BY <3>1, <1>0 DEF RefreshedBy, Job
      <4>2. b.id = c.id /\ b.item = c.item /\ b.detected = c.detected
        BY <4>1, <1>0 DEF Fresher, Job, Snapshot
      <4>3. QED BY <4>2
    <3>2. CASE job' = [job EXCEPT !.servers = @ \ {s}]
      BY <3>2, <1>0, <1>1 DEF Job
    <3>3. CASE job' = [job EXCEPT !.servers = @ \ {s},
                                  !.batch = {c \in @ : ServerOf[c.item] # s}]
      BY <3>3, <1>0, <1>1 DEF Job
    <3>4. QED BY <2>3, <3>1, <3>2, <3>3 DEF JobRefresh
  <2>4. CASE JobWriteWatchState \/ JobRefreshed \/ JobBeginExecute
    BY <2>4, <1>0, <1>1 DEF JobWriteWatchState, JobRefreshed, JobBeginExecute, Job
  <2>5. ASSUME NEW c \in job.batch, JobRescue(c) \/ JobClaim(c) \/ JobSkip(c)
        PROVE  Old
    BY <2>5, <1>0, <1>1 DEF JobRescue, JobClaim, JobSkip, Job
  <2>6. CASE JobEnd
    BY <2>6, <1>2 DEF JobEnd
  <2> HIDE DEF Old, New
  <2>7. QED BY <1>3, <2>1, <2>2, <2>3, <2>4, <2>5, <2>6 DEF JobStep
<1> HIDE DEF Old, New
<1>4. CASE World
  BY <1>4, <1>1 DEF World, Tick, SetDryRun, Watch, Enqueue, ScanAdvance, RefreshDates,
       RemoveRow, Scrobble, DropPending, PurgeDeleted, CleanupRetention, OtherWorkerStarts
<1>5. ASSUME NEW p \in pipes, PipeStep(p) \/ DeleteNowLoad(p) \/ PipeWriteFails(p)
      PROVE  Old \/ New
  BY <1>5, <1>1 DEF PipeStep, PipeMedia, PipeRest, PipeFinish, DeleteNowLoad, PipeWriteFails
<1>6. ASSUME NEW h \in Requests, Start(h) \/ ReqStep(h) PROVE Old \/ New
  BY <1>5, <1>6, <1>1 DEF Start, DeleteNow, BulkDelete, ReqStep, DeleteNowClaim, BulkNext,
       BulkEnd, PipesOf
<1>7. CASE Fault
  BY <1>7, <1>2, <1>5 DEF Fault, JobAbort, JobTimeout, Crash
<1>8. CASE Restart \/ UNCHANGED vars
  BY <1>8, <1>1 DEF Restart, vars
<1>9. QED
  BY <1>3, <1>4, <1>5, <1>6, <1>7, <1>8 DEF Next, JobPipeStep, JobPipes

LEMMA TodoOrigin ==
    ASSUME TypeOK, [Next]_vars, NEW h \in Requests, NEW b \in req'[h].todo
    PROVE  \/ b \in req[h].todo
           \/ queue' = queue /\ nextId' = nextId /\ \E r \in queue : b = SnapshotOf(r)
<1> DEFINE New == queue' = queue /\ nextId' = nextId /\ \E r \in queue : b = SnapshotOf(r)
<1> SUFFICES b \in req[h].todo \/ New
  OBVIOUS
<1>0. req \in [Requests -> Req]
  BY DEF TypeOK
<1>1. CASE req' = req
  BY <1>1
<1>2. ASSUME NEW g, req' = [req EXCEPT ![g] = IdleReq] PROVE b \in req[h].todo
  BY <1>0, <1>2 DEF IdleReq
<1>3. ASSUME NEW g \in Requests, Start(g) PROVE b \in req[h].todo \/ New
  BY <1>0, <1>3 DEF Start, DeleteNow, BulkDelete
<1> HIDE DEF New
<1>4. CASE World
  BY <1>4, <1>1 DEF World, Tick, SetDryRun, Watch, Enqueue, ScanAdvance, RefreshDates,
       RemoveRow, Scrobble, DropPending, PurgeDeleted, CleanupRetention, OtherWorkerStarts
<1>5. CASE JobStep
  BY <1>5, <1>1 DEF JobStep, JobStart, JobSelect, JobRefresh, JobWriteWatchState, JobRefreshed,
     JobRescue, JobBeginExecute, JobClaim, JobSkip, JobEnd
<1>6. ASSUME NEW p \in pipes, PipeStep(p) \/ DeleteNowLoad(p) \/ PipeWriteFails(p)
      PROVE  b \in req[h].todo
  BY <1>1, <1>2, <1>6 DEF PipeStep, PipeMedia, PipeRest, PipeFinish, Returned, DeleteNowLoad,
     PipeWriteFails
<1>7. ASSUME NEW g \in Requests, ReqStep(g) PROVE b \in req[h].todo
  <2>1. CASE DeleteNowClaim(g)
    BY <1>0, <1>2, <2>1 DEF DeleteNowClaim, Req
  <2>2. ASSUME NEW c \in req[g].todo, BulkNext(g, c) PROVE b \in req[h].todo
    BY <1>0, <2>2 DEF BulkNext, Req
  <2>3. QED BY <1>2, <1>6, <1>7, <2>1, <2>2 DEF ReqStep, BulkEnd, PipesOf
<1>8. CASE Fault
  <2>1. ASSUME Crash PROVE FALSE
    BY <2>1 DEF Crash, IdleReq
  <2>2. QED BY <1>1, <1>6, <1>8, <2>1 DEF Fault, JobAbort, JobTimeout
<1>9. CASE Restart \/ UNCHANGED vars
  BY <1>1, <1>9 DEF Restart, vars
<1>10. QED BY <1>3, <1>4, <1>5, <1>6, <1>7, <1>8, <1>9 DEF Next, JobPipeStep, JobPipes

LEMMA RefsStep == TypeOK /\ RefsAgree /\ [Next]_vars => RefsAgree'
<1> SUFFICES ASSUME TypeOK, RefsAgree, [Next]_vars PROVE RefsAgree'
  OBVIOUS
<1>0. /\ \A p \in pipes : p.id \in Int /\ Agrees(p)
      /\ \A b \in job.batch : b.id \in Int /\ Agrees(b)
      /\ \A h \in Requests : \A b \in req[h].todo : b.id \in Int /\ Agrees(b)
  BY ConstantsOK DEF RefsAgree, TypeOK, Pipe, Job, Req, Snapshot, RowIds
<1>1. ASSUME NEW c, c.id \in Int, Agrees(c), NEW b, b.id = c.id, b.item = c.item,
             b.detected = c.detected
      PROVE  Agrees(b)'
  BY <1>1, AgreesStep, AgreesCong
<1>2. ASSUME NEW r \in queue, queue' = queue, nextId' = nextId PROVE Agrees(SnapshotOf(r))'
  BY <1>2, SnapshotAgrees DEF Agrees
<1>3. ASSUME NEW p \in pipes' PROVE Agrees(p)'
  <2>1. \A who, by, b, st : /\ PipeFor(who, by, b, st).id = b.id
                            /\ PipeFor(who, by, b, st).item = b.item
                            /\ PipeFor(who, by, b, st).detected = b.detected
    BY DEF PipeFor
  <2>2. QED BY <1>0, <1>1, <2>1, PipeOrigin
<1>4. ASSUME NEW b \in job'.batch PROVE Agrees(b)'
  BY <1>0, <1>1, <1>2, BatchOrigin
<1>5. ASSUME NEW h \in Requests, NEW b \in req'[h].todo PROVE Agrees(b)'
  BY <1>0, <1>1, <1>2, TodoOrigin
<1>6. QED BY <1>3, <1>4, <1>5 DEF RefsAgree

-----------------------------------------------------------------------------
(* The claim. *)

LEMMA GroundedStep == TypeOK /\ Grounded /\ [Next]_vars => Grounded'
<1> SUFFICES ASSUME TypeOK, Grounded, [Next]_vars PROVE Grounded'
  OBVIOUS
<1>0. pipes \subseteq Pipe /\ job \in Job /\ req \in [Requests -> Req]
  BY DEF TypeOK
<1>1. CASE up' = up /\ pipes' = pipes /\ job'.pc = job.pc /\ req' = req
  BY <1>1 DEF Grounded
<1>2. CASE World
  BY <1>1, <1>2 DEF World, Tick, SetDryRun, Watch, Enqueue, ScanAdvance, RefreshDates,
       RemoveRow, Scrobble, DropPending, PurgeDeleted, CleanupRetention, OtherWorkerStarts
<1>3. CASE JobStep
  <2>1. up
    BY <1>3 DEF Grounded, JobStep, JobStart, JobSelect, JobRefresh, JobWriteWatchState,
       JobRefreshed, JobRescue, JobBeginExecute, JobClaim, JobSkip, JobEnd
  <2>2. up' /\ req' = req /\ \A p \in pipes' : p \in pipes \/ p.by = "job"
    <3>1. ASSUME NEW b \in job.batch, JobClaim(b)
          PROVE  up' /\ req' = req /\ \A p \in pipes' : p \in pipes \/ p.by = "job"
      BY <2>1, <3>1 DEF JobClaim, PipeFor
    <3>2. QED
      BY <1>3, <2>1, <3>1 DEF JobStep, JobStart, JobSelect, JobRefresh, JobWriteWatchState,
         JobRefreshed, JobRescue, JobBeginExecute, JobSkip, JobEnd
  <2>3. QED BY <2>2 DEF Grounded
<1>4. ASSUME NEW p \in pipes, PipeStep(p) \/ DeleteNowLoad(p) \/ PipeWriteFails(p)
      PROVE  Grounded'
  <2>1. up /\ up' = up
    BY <1>4 DEF Grounded, PipeStep, PipeMedia, PipeRest, PipeFinish, DeleteNowLoad, PipeWriteFails
  <2>2. \A h \in Requests : req'[h] = req[h] \/ req'[h] = IdleReq
    BY <1>0, <1>4 DEF PipeStep, PipeMedia, PipeRest, PipeFinish, Returned, DeleteNowLoad,
       PipeWriteFails
  <2>3. \A q \in pipes' : q \in pipes \/ q.by = p.by
    <3>1. ASSUME NEW st, NEW q, q = [p EXCEPT !.stage = st] PROVE q.by = p.by
      BY <1>0, <3>1 DEF Pipe
    <3>2. QED
      BY <1>4, <3>1 DEF PipeStep, PipeMedia, PipeRest, PipeFinish, AtStage, DeleteNowLoad,
         PipeWriteFails
  <2>4. QED BY <2>1, <2>2, <2>3 DEF Grounded, IdleReq
<1>5. ASSUME NEW h \in Requests, Start(h) PROVE Grounded'
  <2>1. ASSUME NEW r \in queue, DeleteNow(h, r) PROVE Grounded'
    BY <1>0, <2>1 DEF DeleteNow, Grounded
  <2>2. ASSUME NEW rows \in SUBSET queue, BulkDelete(h, rows) PROVE Grounded'
    BY <1>0, <2>2 DEF BulkDelete, Grounded
  <2>3. QED BY <1>5, <2>1, <2>2 DEF Start
<1>6. ASSUME NEW h \in Requests, ReqStep(h) PROVE Grounded'
  <2>1. CASE DeleteNowClaim(h)
    <3>1. up /\ up' = up
      BY <2>1 DEF DeleteNowClaim, Grounded
    <3>2. \A g \in Requests : req'[g] = req[g] \/ req'[g].pc \in {"now", "idle"}
      BY <1>0, <2>1 DEF DeleteNowClaim, IdleReq, Req
    <3>3. \A q \in pipes' : q \in pipes \/ q.by = "now"
      BY <2>1 DEF DeleteNowClaim, PipeFor
    <3>4. QED BY <3>1, <3>2, <3>3 DEF Grounded
  <2>2. ASSUME NEW b \in req[h].todo, BulkNext(h, b) PROVE Grounded'
    <3>1. up /\ up' = up /\ "bulk" \in Features
      BY <2>2 DEF BulkNext, Grounded
    <3>2. QED BY <3>1 DEF Grounded
  <2>3. CASE BulkEnd(h)
    BY <1>0, <2>3 DEF BulkEnd, Grounded, IdleReq
  <2>4. QED BY <1>4, <1>6, <2>1, <2>2, <2>3 DEF ReqStep, PipesOf
<1>7. CASE Fault
  <2>1. CASE JobAbort \/ JobTimeout
    BY <2>1 DEF JobAbort, JobTimeout, Grounded, IdleJob
  <2>2. CASE Crash
    BY <2>2 DEF Crash, Grounded, IdleJob, IdleReq
  <2>3. QED BY <1>4, <1>7, <2>1, <2>2 DEF Fault
<1>8. CASE Restart \/ UNCHANGED vars
  BY <1>8 DEF Restart, vars, Grounded
<1>9. QED BY <1>2, <1>3, <1>4, <1>5, <1>6, <1>7, <1>8 DEF Next, JobPipeStep, JobPipes

(* Rows that a step other than a claim or a status write leaves alone. *)
StatusKept == \A t \in queue' : \E r \in queue : r.id = t.id /\ r.status = t.status

(* Which steps write the status column, and of which row. *)
LEMMA StatusStep ==
    ASSUME TypeOK, Grounded, [Next]_vars
    PROVE  \/ StatusKept
           \/ \E i \in Items : Enqueue(i)
           \/ \E r \in queue : Scrobble(r)
           \/ OtherWorkerStarts
           \/ Restart
           \/ \E b \in job.batch : JobClaim(b)
           \/ \E h \in Requests : DeleteNowClaim(h)
           \/ \E h \in Requests : \E b \in req[h].todo : BulkNext(h, b)
           \/ \E p \in pipes : PipeFinish(p)
<1>0. Table(queue, nextId) /\ nextId \in Nat /\ job \in Job /\ served \in [Items -> Time]
      /\ pipes \subseteq Pipe
  BY TypeSplit, ConstantsOK DEF QueueTyped, RestTyped
<1>1. ASSUME queue' \subseteq queue PROVE StatusKept
  BY <1>1 DEF StatusKept
<1>2. ASSUME NEW w \in [Items -> Time], queue' = Advanced(queue, w) PROVE StatusKept
  BY <1>0, <1>2, AdvancedTable DEF StatusKept
<1>3. ASSUME NEW i \in Items, ScanAdvance(i) PROVE StatusKept
  <2>1. [Neglected EXCEPT ![i] = served[i]] \in [Items -> Time]
    BY <1>0, ConstantsOK DEF Neglected, Time
  <2>2. QED BY <1>2, <1>3, <2>1 DEF ScanAdvance
<1>4. ASSUME NEW r \in queue, RefreshDates(r) PROVE StatusKept
  <2>1. r \in Row
    BY <1>0 DEF Table
  <2>2. QED BY <1>4, <2>1 DEF RefreshDates, StatusKept, Row
<1>5. CASE World
  BY <1>1, <1>3, <1>4, <1>5 DEF World, Tick, SetDryRun, Watch, RemoveRow, Without,
       DropPending, PurgeDeleted, CleanupRetention
<1>6. CASE JobStep
  <2>1. ASSUME JobWriteWatchState PROVE StatusKept
    BY <1>0, <1>1, <1>2, <2>1 DEF JobWriteWatchState, Job
  <2>2. ASSUME NEW b \in job.batch, JobRescue(b) \/ JobSkip(b) PROVE StatusKept
    BY <1>1, <2>2 DEF JobRescue, JobSkip, Without
  <2>3. QED
    BY <1>1, <1>6, <2>1, <2>2 DEF JobStep, JobStart, JobSelect, JobRefresh,
       JobRefreshed, JobBeginExecute, JobEnd
<1>7. ASSUME NEW p \in pipes, PipeStep(p) \/ DeleteNowLoad(p) \/ PipeWriteFails(p)
      PROVE  StatusKept \/ PipeFinish(p)
  BY <1>1, <1>7 DEF PipeStep, PipeMedia, PipeRest, DeleteNowLoad, PipeWriteFails
<1>8. ASSUME NEW h \in Requests, Start(h) PROVE StatusKept
  BY <1>1, <1>8 DEF Start, DeleteNow, BulkDelete
<1>9. ASSUME NEW h \in Requests, ReqStep(h)
      PROVE  \/ StatusKept
             \/ DeleteNowClaim(h)
             \/ \E b \in req[h].todo : BulkNext(h, b)
             \/ \E p \in pipes : PipeFinish(p)
  BY <1>1, <1>7, <1>9 DEF ReqStep, BulkEnd, PipesOf
<1>10. CASE Fault
  BY <1>1, <1>7, <1>10 DEF Fault, JobAbort, JobTimeout, Crash
<1>11. CASE UNCHANGED vars
  BY <1>1, <1>11 DEF vars
<1> HIDE DEF StatusKept
<1>12. QED
  BY <1>5, <1>6, <1>7, <1>8, <1>9, <1>10, <1>11 DEF Next, JobPipeStep, JobPipes

(* What a step does to the set of pipelines. *)
StartedBy(who, by, b, st) == pipes' = pipes \cup {PipeFor(who, by, b, st)}

LEMMA PipesStep ==
    ASSUME TypeOK, [Next]_vars
    PROVE  \/ pipes' \subseteq pipes
           \/ \E x \in pipes : \E st : AtStage(x, st)
           \/ \E b \in job.batch : JobClaim(b)
           \/ \E h \in Requests : \E b \in req[h].todo :
                 Claimable(b.id) /\ StartedBy(h, "now", b, "load")
           \/ \E h \in Requests : \E b \in req[h].todo : StartedBy(h, "bulk", b, "media")
<1> DEFINE Gone == pipes' \subseteq pipes
<1> DEFINE Move == \E x \in pipes : \E st : AtStage(x, st)
<1> DEFINE Now(h) == \E b \in req[h].todo : Claimable(b.id) /\ StartedBy(h, "now", b, "load")
<1> DEFINE Bulk(h) == \E b \in req[h].todo : StartedBy(h, "bulk", b, "media")
<1> SUFFICES \/ Gone \/ Move
             \/ \E b \in job.batch : JobClaim(b)
             \/ \E h \in Requests : Now(h) \/ Bulk(h)
  OBVIOUS
<1>1. ASSUME NEW x \in pipes, PipeStep(x) \/ DeleteNowLoad(x) \/ PipeWriteFails(x)
      PROVE  Gone \/ Move
  BY <1>1 DEF PipeStep, PipeMedia, PipeRest, PipeFinish, AtStage, DeleteNowLoad, PipeWriteFails
<1>2. ASSUME NEW h \in Requests, DeleteNowClaim(h) PROVE Gone \/ Now(h)
  BY <1>2 DEF DeleteNowClaim, StartedBy
<1>3. ASSUME NEW h \in Requests, NEW b \in req[h].todo, BulkNext(h, b) PROVE Gone \/ Bulk(h)
  BY <1>3 DEF BulkNext, StartedBy
<1> HIDE DEF Move, Now, Bulk
<1>4. CASE World
  BY <1>4 DEF World, Tick, SetDryRun, Watch, Enqueue, ScanAdvance, RefreshDates,
       RemoveRow, Scrobble, DropPending, PurgeDeleted, CleanupRetention, OtherWorkerStarts
<1>5. CASE JobStep
  BY <1>5 DEF JobStep, JobStart, JobSelect, JobRefresh, JobWriteWatchState,
       JobRefreshed, JobRescue, JobBeginExecute, JobSkip, JobEnd
<1>6. ASSUME NEW h \in Requests, Start(h) \/ ReqStep(h) PROVE Gone \/ Move \/ Now(h) \/ Bulk(h)
  BY <1>1, <1>2, <1>3, <1>6 DEF Start, DeleteNow, BulkDelete, ReqStep, BulkEnd, PipesOf
<1>7. CASE Fault
  BY <1>1, <1>7 DEF Fault, JobAbort, JobTimeout, Crash
<1>8. CASE Restart \/ UNCHANGED vars
  BY <1>8 DEF Restart, vars
<1> HIDE DEF Gone
<1>9. QED BY <1>1, <1>4, <1>5, <1>6, <1>7, <1>8 DEF Next, JobPipeStep, JobPipes

Claiming(p) == p.by # "bulk"
Held(r) == r.status = "deleting" \/ (r.status = "deleted" /\ "bulk" \in Features)

(* A claimed row keeps the status its claim gave it. *)
LEMMA ClaimHoldsStep ==
    ASSUME TypeOK, ClaimInv, [Next]_vars PROVE ClaimHolds'
<1> SUFFICES ASSUME Features \cap {"scrobble", "workers"} = {},
                    NEW p \in pipes', Claiming(p), NEW r \in queue', r.id = p.id
             PROVE  Held(r)
  BY DEF ClaimHolds, Claiming, Held
<1>0. /\ Table(queue, nextId) /\ nextId \in Nat /\ pipes \subseteq Pipe
      /\ Grounded /\ "scrobble" \notin Features /\ "workers" \notin Features
  BY TypeSplit, ConstantsOK DEF QueueTyped, RestTyped, ClaimInv
<1>1. ASSUME NEW q \in pipes, Claiming(q), NEW t \in queue, t.id = q.id PROVE Held(t)
  BY <1>1 DEF ClaimInv, ClaimHolds, Claiming, Held
<1>2. ASSUME NEW id, NEW s \in Status, queue' = WithStatus(queue, id, s)
      PROVE  IF r.id = id THEN r.status = s ELSE r \in queue
  BY <1>0, <1>2, WithStatusTable
<1>3. ASSUME NEW q \in pipes, q.id = p.id, Claiming(q) PROVE Held(r)
  <2>1. CASE r \in queue
    BY <1>1, <1>3, <2>1
  <2>2. CASE StatusKept
    <3>1. PICK t \in queue : t.id = r.id /\ t.status = r.status
      BY <2>2 DEF StatusKept
    <3>2. QED BY <1>1, <1>3, <3>1 DEF Held
  <2>3. ASSUME NEW i \in Items, Enqueue(i) PROVE Held(r)
    <3>1. q.id < nextId /\ q.id \in Nat
      BY <1>0, ConstantsOK DEF ClaimInv, RefsAgree, Agrees, Pipe, RowIds
    <3>2. r \in queue \/ r.id = nextId
      BY <2>3 DEF Enqueue
    <3>3. QED BY <1>0, <1>3, <2>1, <3>1, <3>2
  <2>4. ASSUME (\E t \in queue : Scrobble(t)) \/ OtherWorkerStarts PROVE FALSE
    BY <1>0, <2>4 DEF Scrobble, OtherWorkerStarts
  <2>5. ASSUME Restart PROVE FALSE
    BY <1>0, <1>3, <2>5 DEF Restart, Grounded
  <2>6. ASSUME NEW b \in job.batch, JobClaim(b) PROVE Held(r)
    BY <1>2, <2>1, <2>6 DEF JobClaim, Status, Held
  <2>7. ASSUME NEW h \in Requests, DeleteNowClaim(h) PROVE Held(r)
    BY <1>2, <2>1, <2>7 DEF DeleteNowClaim, Status, Held
  <2>8. ASSUME NEW h \in Requests, NEW b \in req[h].todo, BulkNext(h, b) PROVE Held(r)
    <3>1. "bulk" \in Features
      BY <1>0, <2>8 DEF BulkNext, Grounded
    <3>2. QED BY <1>2, <2>1, <2>8, <3>1 DEF BulkNext, Status, Held
  <2>9. ASSUME NEW x \in pipes, PipeFinish(x) PROVE Held(r)
    <3>1. p \in pipes /\ p # x
      BY <2>9 DEF PipeFinish
    <3>2. x.by \in {"job", "now", "bulk"} /\ x.stage \in {"passed", "failed"}
      BY <1>0, <2>9 DEF PipeFinish, Pipe
    <3>3. CASE x.by = "bulk"
      <4>1. "bulk" \in Features
        BY <1>0, <3>3 DEF Grounded
      <4>2. queue' = queue \/ queue' = WithStatus(queue, x.id, "deleted")
        BY <2>9, <3>2, <3>3 DEF PipeFinish, Outcome
      <4>3. QED BY <1>2, <2>1, <4>1, <4>2 DEF Status, Held
    <3>4. CASE x.by # "bulk"
      <4>1. r.id # x.id
        BY <1>0, <3>1, <3>4 DEF ClaimInv, ClaimExclusive, ClaimsExclusive, Claiming
      <4>2. \E s \in Status : queue' = WithStatus(queue, x.id, s)
        BY <2>9, <3>2, <3>4 DEF PipeFinish, Outcome, Status
      <4>3. QED BY <1>2, <2>1, <4>1, <4>2
    <3>5. QED BY <3>3, <3>4
  <2>10. QED
    BY <1>0, <2>2, <2>3, <2>4, <2>5, <2>6, <2>7, <2>8, <2>9, StatusStep
<1>4. ASSUME NEW b \in job.batch, JobClaim(b), p = PipeFor("job", "job", b, "media")
      PROVE  Held(r)
  BY <1>2, <1>4 DEF JobClaim, PipeFor, Status, Held
<1>5. ASSUME NEW h, NEW b, p = PipeFor(h, "now", b, "load"),
             queue' = WithStatus(queue, b.id, "deleting")
      PROVE  Held(r)
  BY <1>2, <1>5 DEF PipeFor, Status, Held
<1>6. ASSUME NEW h, NEW b, p = PipeFor(h, "bulk", b, "media") PROVE FALSE
  BY <1>6 DEF PipeFor, Claiming
<1>7. QED BY <1>3, <1>4, <1>5, <1>6, PipeOrigin DEF Claiming

(* No second pipeline starts on a claimed row. *)
LEMMA ExclusiveStep ==
    ASSUME TypeOK, ClaimInv, [Next]_vars PROVE ClaimExclusive'
<1> SUFFICES ASSUME Features \cap {"scrobble", "workers"} = {},
                    NEW p \in pipes', NEW q \in pipes', p.id = q.id, Claiming(p), Claiming(q)
             PROVE  p = q
  BY DEF ClaimExclusive, ClaimsExclusive, Claiming
<1>0. pipes \subseteq Pipe
  BY DEF TypeOK
<1>1. ASSUME NEW x \in pipes, NEW y \in pipes, x.id = y.id, Claiming(x), Claiming(y)
      PROVE  x = y
  BY <1>1 DEF ClaimInv, ClaimExclusive, ClaimsExclusive, Claiming
<1>2. CASE pipes' \subseteq pipes
  BY <1>1, <1>2
<1>3. ASSUME NEW x \in pipes, NEW st, AtStage(x, st) PROVE p = q
  <2> DEFINE y == [x EXCEPT !.stage = st]
  <2>1. y.id = x.id /\ y.by = x.by
    BY <1>0 DEF Pipe
  <2>2. pipes' = (pipes \ {x}) \cup {y}
    BY <1>3 DEF AtStage
  <2> HIDE DEF y
  <2>3. QED BY <1>1, <2>1, <2>2 DEF Claiming
<1>4. ASSUME NEW who, NEW by, NEW b, NEW st, Claimable(b.id), StartedBy(who, by, b, st)
      PROVE  p = q
  <2> DEFINE y == PipeFor(who, by, b, st)
  <2>1. y.id = b.id
    BY DEF PipeFor
  <2>2. pipes' = pipes \cup {y}
    BY <1>4 DEF StartedBy
  <2>3. ASSUME NEW x \in pipes, Claiming(x), x.id = b.id PROVE FALSE
    BY <1>4, <2>3 DEF Claimable, ClaimInv, ClaimHolds, Claiming
  <2> HIDE DEF y
  <2>4. QED BY <1>1, <2>1, <2>2, <2>3
<1>5. ASSUME NEW who, NEW b, StartedBy(who, "bulk", b, "media") PROVE p = q
  <2>1. p \in pipes /\ q \in pipes
    BY <1>5 DEF StartedBy, PipeFor, Claiming
  <2>2. QED BY <1>1, <2>1
<1>6. ASSUME NEW b \in job.batch, JobClaim(b) PROVE p = q
  BY <1>4, <1>6 DEF JobClaim, StartedBy
<1>7. QED BY <1>2, <1>3, <1>4, <1>5, <1>6, PipesStep

LEMMA ClaimInit == Init => ClaimInv
BY DEF Init, ClaimInv, RefsAgree, Grounded, ClaimHolds, ClaimExclusive, ClaimsExclusive,
   IdleJob, IdleReq

LEMMA ClaimStep == TypeOK /\ ClaimInv /\ [Next]_vars => ClaimInv'
BY RefsStep, GroundedStep, ClaimHoldsStep, ExclusiveStep DEF ClaimInv

(* The claim of claim_for_deletion is exclusive: in every deployment without
   the Plex webhook and without a second worker, at most one of the deletion
   job and the delete-now handlers runs the pipeline for a row, for any number
   of items, handlers, servers and faults, bulk requests included. *)
THEOREM ClaimIsExclusive == Spec => []ClaimExclusive
<1>1. Spec => [](TypeOK /\ ClaimInv)
  BY InitTyped, TypeStep, ClaimInit, ClaimStep, PTL DEF Spec
<1>2. ClaimInv => ClaimExclusive
  BY DEF ClaimInv
<1>3. QED BY <1>1, <1>2, PTL

-----------------------------------------------------------------------------
(* Nobody is left behind in 'deleting'. *)

(* How a pipeline may leave the set of pipelines. *)
LEMMA PipeFate ==
    ASSUME TypeOK, [Next]_vars, NEW q \in pipes,
           "timeout" \notin Faults, "dbwrite" \notin Faults, up'
    PROVE  \/ \E p \in pipes' : p.id = q.id /\ p.by = q.by
           \/ PipeFinish(q)
           \/ queue' = queue /\ \A r \in queue : r.id # q.id
<1> DEFINE Lives == \E p \in pipes' : p.id = q.id /\ p.by = q.by
<1> DEFINE Dropped == queue' = queue /\ \A r \in queue : r.id # q.id
<1> SUFFICES Lives \/ PipeFinish(q) \/ Dropped
  OBVIOUS
<1>0. pipes \subseteq Pipe
  BY DEF TypeOK
<1>1. CASE q \in pipes'
  BY <1>1
<1>2. ASSUME NEW x \in pipes, NEW st, AtStage(x, st) PROVE Lives
  <2> DEFINE y == [x EXCEPT !.stage = st]
  <2>1. y.id = x.id /\ y.by = x.by
    BY <1>0 DEF Pipe
  <2>2. pipes' = (pipes \ {x}) \cup {y}
    BY <1>2 DEF AtStage
  <2> HIDE DEF y
  <2>3. QED BY <2>1, <2>2
<1>3. ASSUME NEW x \in pipes, PipeStep(x) \/ DeleteNowLoad(x)
      PROVE  Lives \/ PipeFinish(q) \/ Dropped
  <2>1. CASE PipeMedia(x) \/ PipeRest(x)
    BY <1>2, <2>1 DEF PipeMedia, PipeRest
  <2>2. CASE PipeFinish(x)
    BY <1>1, <2>2 DEF PipeFinish
  <2>3. CASE DeleteNowLoad(x)
    BY <1>1, <1>2, <2>3 DEF DeleteNowLoad, AtStage
  <2>4. QED BY <1>3, <2>1, <2>2, <2>3 DEF PipeStep
<1> HIDE DEF Lives, Dropped
<1>4. CASE World
  BY <1>1, <1>4 DEF World, Tick, SetDryRun, Watch, Enqueue, ScanAdvance, RefreshDates,
       RemoveRow, Scrobble, DropPending, PurgeDeleted, CleanupRetention, OtherWorkerStarts
<1>5. CASE JobStep
  BY <1>1, <1>5 DEF JobStep, JobStart, JobSelect, JobRefresh, JobWriteWatchState,
       JobRefreshed, JobRescue, JobBeginExecute, JobClaim, JobSkip, JobEnd
<1>6. ASSUME NEW h \in Requests, Start(h) \/ ReqStep(h)
      PROVE  Lives \/ PipeFinish(q) \/ Dropped
  BY <1>1, <1>3, <1>6 DEF Start, DeleteNow, BulkDelete, ReqStep, DeleteNowClaim, BulkNext,
     BulkEnd, PipesOf
<1>7. CASE Fault
  BY <1>1, <1>7 DEF Fault, JobAbort, JobTimeout, Crash, PipeWriteFails
<1>8. CASE Restart \/ UNCHANGED vars
  BY <1>1, <1>8 DEF Restart, vars
<1>9. QED BY <1>3, <1>4, <1>5, <1>6, <1>7, <1>8 DEF Next, JobPipeStep, JobPipes

LEMMA OwnerStep ==
    ASSUME TypeOK, ClaimInv, DeletingHasOwner, [Next]_vars PROVE DeletingHasOwner'
<1> DEFINE Owned(r) == \E p \in pipes' : p.id = r.id /\ Claiming(p)
<1> SUFFICES ASSUME "timeout" \notin Faults, "dbwrite" \notin Faults, up',
                    NEW r \in queue', r.status = "deleting"
             PROVE  Owned(r)
  BY DEF DeletingHasOwner, Claiming
<1>0. /\ Table(queue, nextId) /\ nextId \in Nat /\ pipes \subseteq Pipe /\ Grounded
  BY TypeSplit, ConstantsOK DEF QueueTyped, RestTyped, ClaimInv
<1>1. ASSUME NEW id, NEW s \in Status, queue' = WithStatus(queue, id, s)
      PROVE  IF r.id = id THEN r.status = s ELSE r \in queue
  BY <1>0, <1>1, WithStatusTable
<1>2. ASSUME NEW t \in queue, t.id = r.id, t.status = "deleting", up PROVE Owned(r)
  <2>1. PICK q \in pipes : q.id = r.id /\ Claiming(q)
    BY <1>2 DEF DeletingHasOwner, Claiming
  <2>2. ASSUME PipeFinish(q) PROVE FALSE
    <3>1. q.by \in {"job", "now"} /\ q.stage \in {"passed", "failed"}
      BY <1>0, <2>1, <2>2 DEF PipeFinish, Pipe, Claiming
    <3>2. \E s \in Status \ {"deleting"} : queue' = WithStatus(queue, q.id, s)
      BY <2>2, <3>1 DEF PipeFinish, Outcome, Status
    <3>3. QED BY <1>1, <2>1, <3>2
  <2>3. ASSUME NEW p \in pipes', p.id = q.id, p.by = q.by PROVE Owned(r)
    BY <2>1, <2>3 DEF Claiming
  <2>4. QED BY <1>2, <2>1, <2>2, <2>3, PipeFate
<1> HIDE DEF Owned
<1>3. CASE Restart
  BY <1>0, <1>3, ResetTable DEF Restart
<1>4. CASE up
  <2>1. CASE r \in queue
    BY <1>2, <1>4, <2>1
  <2>2. CASE StatusKept
    BY <1>2, <1>4, <2>2 DEF StatusKept
  <2>3. CASE \E i \in Items : Enqueue(i)
    BY <2>1, <2>3 DEF Enqueue
  <2>4. ASSUME NEW t \in queue, Scrobble(t) PROVE Owned(r)
    <3>1. t \in Row
      BY <1>0 DEF Table
    <3>2. r \in queue
      BY <2>4, <3>1 DEF Scrobble, Row
    <3>3. QED BY <2>1, <3>2
  <2>5. CASE OtherWorkerStarts
    BY <1>0, <2>5, ResetTable DEF OtherWorkerStarts
  <2>6. ASSUME NEW b \in job.batch, JobClaim(b) PROVE Owned(r)
    <3>1. CASE r.id = b.id
      <4> DEFINE y == PipeFor("job", "job", b, "media")
      <4>1. y \in pipes' /\ y.id = b.id /\ y.by = "job"
        BY <2>6 DEF JobClaim, PipeFor
      <4> HIDE DEF y
      <4>2. QED BY <3>1, <4>1 DEF Owned, Claiming
    <3>2. CASE r.id # b.id
      BY <1>1, <2>1, <2>6, <3>2 DEF JobClaim, Status
    <3>3. QED BY <3>1, <3>2
  <2>7. ASSUME NEW h \in Requests, DeleteNowClaim(h) PROVE Owned(r)
    <3>1. CASE queue' = queue
      BY <2>1, <3>1
    <3>2. ASSUME NEW b \in req[h].todo, queue' = WithStatus(queue, b.id, "deleting"),
                 pipes' = pipes \cup {PipeFor(h, "now", b, "load")}
          PROVE  Owned(r)
      <4>1. CASE r.id = b.id
        <5> DEFINE y == PipeFor(h, "now", b, "load")
        <5>1. y \in pipes' /\ y.id = b.id /\ y.by = "now"
          BY <3>2 DEF PipeFor
        <5> HIDE DEF y
        <5>2. QED BY <4>1, <5>1 DEF Owned, Claiming
      <4>2. CASE r.id # b.id
        BY <1>1, <2>1, <3>2, <4>2 DEF Status
      <4>3. QED BY <4>1, <4>2
    <3>3. QED BY <2>7, <3>1, <3>2 DEF DeleteNowClaim
  <2>8. ASSUME NEW h \in Requests, NEW b \in req[h].todo, BulkNext(h, b) PROVE Owned(r)
    BY <1>1, <2>1, <2>8 DEF BulkNext, Status
  <2>9. ASSUME NEW x \in pipes, PipeFinish(x) PROVE Owned(r)
    <3>1. x.by \in {"job", "now", "bulk"} /\ x.stage \in {"passed", "failed"}
      BY <1>0, <2>9 DEF PipeFinish, Pipe
    <3>2. queue' = queue \/ \E s \in Status \ {"deleting"} : queue' = WithStatus(queue, x.id, s)
      BY <2>9, <3>1 DEF PipeFinish, Outcome, Status
    <3>3. QED BY <1>1, <2>1, <3>2
  <2>10. QED
    BY <1>0, <1>3, <2>2, <2>3, <2>4, <2>5, <2>6, <2>7, <2>8, <2>9, StatusStep
<1>5. CASE ~up
  <2>1. Restart \/ up' = up
    BY <1>0, <1>5 DEF Grounded, Next, World, Tick, SetDryRun, Watch, Enqueue, ScanAdvance,
       RefreshDates, RemoveRow, Scrobble, DropPending, PurgeDeleted, CleanupRetention,
       OtherWorkerStarts, JobStep, JobStart, JobSelect, JobRefresh, JobWriteWatchState,
       JobRefreshed, JobRescue, JobBeginExecute, JobClaim, JobSkip, JobEnd, JobPipeStep, JobPipes,
       Start, DeleteNow, BulkDelete, ReqStep, DeleteNowClaim, BulkNext, BulkEnd, PipesOf,
       Fault, JobAbort, JobTimeout, Crash, vars
  <2>2. QED BY <1>3, <1>5, <2>1
<1>6. QED BY <1>4, <1>5

(* In every deployment where the one-hour timeout does not fire and status
   writes do not fail, a row is 'deleting' only while a pipeline works on it:
   crashes, failed pipelines, removed rows, Plex scrobbles and other workers
   never orphan one (_delete_one, delete_now, reset_stale_deleting). *)
THEOREM DeletingIsOwned == Spec => []DeletingHasOwner
<1>1. Init => DeletingHasOwner
  BY DEF Init, DeletingHasOwner
<1>2. TypeOK /\ ClaimInv /\ DeletingHasOwner /\ [Next]_vars => DeletingHasOwner'
  BY OwnerStep
<1>3. QED BY <1>1, <1>2, InitTyped, TypeStep, ClaimInit, ClaimStep, PTL DEF Spec
=============================================================================
