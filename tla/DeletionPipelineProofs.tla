------------------------ MODULE DeletionPipelineProofs ------------------------
(***************************************************************************)
(* Proofs about DeletionPipeline, for any rows, workers, callers, faults   *)
(* and number of attempts: types, the order between the media server and   *)
(* arr, the single count, and the contract DeletionQueue relies on.        *)
(***************************************************************************)
EXTENDS DeletionPipeline, TLAPS

(* A torrent lookup returns torrents (_find_torrent_hash and its group form). *)
LEMMA HashesType ==
  ASSUME NEW r \in Rows, NEW hs \in HashesOf(r)
  PROVE  hs \in SUBSET Torrents
<1>1. Backing[r] \subseteq Torrents /\ History[r] \subseteq Torrents
  BY PipelineConstants
<1>2. QED
  BY <1>1 DEF HashesOf

(* Moving an execution to another step keeps it an execution of its row. *)
LEMMA MoveType ==
  ASSUME TypeOK, NEW w \in Workers, Busy(w), NEW s \in Steps, Move(w, s)
  PROVE  /\ pipe[w] \in Pipe
         /\ pipe' \in [Workers -> Pipe \cup {Idle}]
<1>1. pipe[w] \in Pipe
  BY DEF TypeOK, Busy, Idle
<1>2. [pipe[w] EXCEPT !.step = s] \in Pipe
  BY <1>1 DEF Pipe
<1>3. QED
  BY <1>1, <1>2 DEF TypeOK, Move

(* What every step of an execution finds: a row that exists. *)
LEMMA BusyType ==
  ASSUME TypeOK, NEW w \in Workers, Busy(w)
  PROVE  /\ pipe[w] \in Pipe
         /\ pipe[w].row \in Rows
         /\ pipe[w].by \in Origins
         /\ pipe[w].hashes \subseteq Torrents
BY DEF TypeOK, Busy, Idle, Pipe

(* The steps that only move on leave the shape of every variable. *)
LEMMA StepType ==
  ASSUME TypeOK, NEW w \in Workers, PipeStep(w)
  PROVE  TypeOK'
<1>0. Busy(w)
  BY DEF PipeStep, SizeLookup, TorrentHash, Notify, NotifyMark, ServerResolve,
         MediaServer, Arr, Seerr, Qbit, Stats, Return, At, Busy
<1>1. /\ pipe[w] \in Pipe /\ pipe[w].row \in Rows /\ pipe[w].by \in Origins
      /\ pipe[w].hashes \subseteq Torrents
  BY <1>0, BusyType
<1>2. CASE SizeLookup(w)
  BY <1>0, <1>2, MoveType DEF SizeLookup, TypeOK, services, Steps
<1>3. CASE TorrentHash(w)
  <2>1. PICK hs \in HashesOf(pipe[w].row) \cup (IF "lookup" \in Faults THEN {{}} ELSE {}) :
          pipe' = [pipe EXCEPT ![w].hashes = hs, ![w].step = "notify"]
    BY <1>3 DEF TorrentHash
  <2>2. hs \in SUBSET Torrents
    BY <1>1, <2>1, HashesType
  <2>3. [[pipe[w] EXCEPT !.hashes = hs] EXCEPT !.step = "notify"] \in Pipe
    BY <1>1, <2>2 DEF Pipe, Steps
  <2>4. pipe' \in [Workers -> Pipe \cup {Idle}]
    BY <2>1, <2>3 DEF TypeOK
  <2>5. QED
    BY <1>3, <2>4 DEF TorrentHash, TypeOK, services
<1>4. CASE Notify(w)
  <2>1. pipe' \in [Workers -> Pipe \cup {Idle}]
    BY <1>0, <1>4, MoveType DEF Notify, Steps
  <2>2. messages' \in [Rows -> Nat]
    BY <1>1, <1>4 DEF Notify, TypeOK
  <2>3. QED
    BY <1>4, <2>1, <2>2 DEF Notify, TypeOK, services
<1>5. CASE NotifyMark(w)
  <2>1. pipe' \in [Workers -> Pipe \cup {Idle}]
    BY <1>0, <1>5, MoveType DEF NotifyMark, Steps
  <2>2. QED
    BY <1>1, <1>5, <2>1 DEF NotifyMark, TypeOK, services
<1>6. CASE ServerResolve(w)
  <2>1. pipe' = [pipe EXCEPT
          ![w].routed = (pipe[w].by = "job" \/ pipe[w].row \notin Elsewhere),
          ![w].step = "server"]
    BY <1>6 DEF ServerResolve
  <2>2. [[pipe[w] EXCEPT !.routed = (pipe[w].by = "job" \/ pipe[w].row \notin Elsewhere)]
            EXCEPT !.step = "server"] \in Pipe
    BY <1>1 DEF Pipe, Steps
  <2>3. pipe' \in [Workers -> Pipe \cup {Idle}]
    BY <2>1, <2>2 DEF TypeOK
  <2>4. QED
    BY <1>6, <2>3 DEF ServerResolve, TypeOK, services
<1>7. CASE MediaServer(w)
  <2>1. pipe' \in [Workers -> Pipe \cup {Idle}]
    BY <1>0, <1>7, MoveType DEF MediaServer, ServerSingle, ServerGroup, Steps
  <2>2. onServer' \subseteq Rows /\ strangers' \subseteq Rows
    BY <1>7 DEF MediaServer, ServerSingle, ServerGroup, TypeOK
  <2>3. QED
    BY <1>7, <2>1, <2>2 DEF MediaServer, TypeOK
<1>8. CASE Arr(w)
  <2>1. pipe' \in [Workers -> Pipe \cup {Idle}]
    BY <1>0, <1>8, MoveType DEF Arr, Steps
  <2>2. inArr' \subseteq Rows
    BY <1>8 DEF Arr, TypeOK
  <2>3. QED
    BY <1>8, <2>1, <2>2 DEF Arr, TypeOK
<1>9. CASE Seerr(w)
  <2>1. pipe' \in [Workers -> Pipe \cup {Idle}]
    BY <1>0, <1>9, MoveType DEF Seerr, Steps
  <2>2. QED
    BY <1>9, <2>1 DEF Seerr, TypeOK
<1>10. CASE Qbit(w)
  <2>1. CASE pipe[w].hashes = {} /\ Move(w, "stats") /\ handled' = handled
    <3>1. pipe' \in [Workers -> Pipe \cup {Idle}]
      BY <1>0, <2>1, MoveType DEF Steps
    <3>2. QED
      BY <1>10, <2>1, <3>1 DEF Qbit, TypeOK
  <2>2. CASE \E t \in pipe[w].hashes :
               /\ pipe' = [pipe EXCEPT ![w].hashes = @ \ {t}]
               /\ handled' = handled \cup {t} \/ handled' = handled
    <3>1. PICK t \in pipe[w].hashes :
            /\ pipe' = [pipe EXCEPT ![w].hashes = @ \ {t}]
            /\ handled' = handled \cup {t} \/ handled' = handled
      BY <2>2
    <3>2. [pipe[w] EXCEPT !.hashes = @ \ {t}] \in Pipe
      BY <1>1 DEF Pipe
    <3>3. pipe' \in [Workers -> Pipe \cup {Idle}]
      BY <3>1, <3>2 DEF TypeOK
    <3>4. handled' \subseteq Torrents
      BY <1>1, <3>1 DEF TypeOK
    <3>5. QED
      BY <1>10, <3>3, <3>4 DEF Qbit, TypeOK
  <2>3. QED
    BY <1>10, <2>1, <2>2 DEF Qbit
<1>11. CASE Stats(w)
  <2>1. pipe' \in [Workers -> Pipe \cup {Idle}]
    BY <1>0, <1>11, MoveType DEF Stats, Steps
  <2>2. recorded' \in [Rows -> Nat]
    BY <1>1, <1>11 DEF Stats, TypeOK
  <2>3. QED
    BY <1>11, <2>1, <2>2 DEF Stats, TypeOK, services
<1>12. CASE Return(w)
  <2>1. pipe' \in [Workers -> Pipe \cup {Idle}]
    BY <1>12 DEF Return, TypeOK
  <2>2. status' \in [Rows -> {"pending", "deleting", "deleted", "error"}]
    <3>1. pipe[w].by \in {"job", "now", "bulk"}
      BY <1>1, PipelineConstants
    <3>2. QED
      BY <1>1, <1>12, <3>1 DEF Return, TypeOK
  <2>3. marker' \subseteq Rows
    BY <1>1, <1>12 DEF Return, TypeOK
  <2>4. QED
    BY <1>12, <2>1, <2>2, <2>3 DEF Return, TypeOK, services
<1>13. QED
  BY <1>2, <1>3, <1>4, <1>5, <1>6, <1>7, <1>8, <1>9, <1>10, <1>11, <1>12 DEF PipeStep

(* TypeOK is inductive: no step, crash or new execution leaves the shapes of
   the variables of the pipeline and of the services it talks to. *)
THEOREM PipelineTypes == Spec => []TypeOK
<1>1. Init => TypeOK
  BY PipelineConstants DEF Init, TypeOK
<1>2. TypeOK /\ [Next]_vars => TypeOK'
  <2> SUFFICES ASSUME TypeOK, [Next]_vars PROVE TypeOK'
    OBVIOUS
  <2>1. CASE \E w \in Workers, r \in Rows, by \in Origins : Start(w, r, by)
    <3>1. PICK w \in Workers, r \in Rows, by \in Origins : Start(w, r, by)
      BY <2>1
    <3>2. [row |-> r, by |-> by, step |-> "size", hashes |-> {}, routed |-> FALSE] \in Pipe
      BY DEF Pipe, Steps
    <3>3. pipe' \in [Workers -> Pipe \cup {Idle}]
      BY <3>1, <3>2 DEF Start, TypeOK
    <3>4. attempts' \in [Rows -> Nat]
      BY <3>1, PipelineConstants DEF Start, TypeOK
    <3>5. status' \in [Rows -> {"pending", "deleting", "deleted", "error"}]
      BY <3>1 DEF Start, TypeOK
    <3>6. QED
      BY <3>1, <3>3, <3>4, <3>5 DEF Start, TypeOK, services
  <2>2. CASE \E w \in Workers : PipeStep(w)
    BY <2>2, StepType
  <2>3. CASE Crash
    BY <2>3 DEF Crash, TypeOK, services
  <2>4. CASE UNCHANGED vars
    BY <2>4 DEF vars, TypeOK
  <2>5. QED
    BY <2>1, <2>2, <2>3, <2>4 DEF Next
<1>3. QED
  BY <1>1, <1>2, PTL DEF Spec

-----------------------------------------------------------------------------
(* A step of one execution leaves the others alone, and stays on its row
   until it returns. *)
LEMMA Frame ==
  ASSUME TypeOK, NEW w \in Workers, PipeStep(w)
  PROVE  /\ Busy(w)
         /\ \A v \in Workers : v # w => pipe'[v] = pipe[v]
         /\ \/ pipe'[w] = Idle
            \/ /\ pipe'[w].row = pipe[w].row
               /\ pipe'[w].by = pipe[w].by
               /\ ServerResolve(w) \/ pipe'[w].routed = pipe[w].routed
<1>0. Busy(w)
  BY DEF PipeStep, SizeLookup, TorrentHash, Notify, NotifyMark, ServerResolve,
         MediaServer, Arr, Seerr, Qbit, Stats, Return, At, Busy
<1>1. pipe[w] \in Pipe
  BY <1>0, BusyType
<1>2. ASSUME NEW s, Move(w, s)
      PROVE  /\ \A v \in Workers : v # w => pipe'[v] = pipe[v]
             /\ pipe'[w].row = pipe[w].row
             /\ pipe'[w].by = pipe[w].by
             /\ pipe'[w].routed = pipe[w].routed
             /\ pipe'[w].step = s
  BY <1>1, <1>2 DEF Move, TypeOK, Pipe
<1>3. CASE SizeLookup(w) \/ Notify(w) \/ NotifyMark(w) \/ MediaServer(w) \/ Arr(w)
             \/ Seerr(w) \/ Stats(w)
  BY <1>0, <1>2, <1>3 DEF SizeLookup, Notify, NotifyMark, MediaServer, ServerSingle,
     ServerGroup, Arr, Seerr, Stats
<1>4. CASE TorrentHash(w)
  BY <1>0, <1>1, <1>4 DEF TorrentHash, TypeOK, Pipe
<1>5. CASE ServerResolve(w)
  BY <1>0, <1>1, <1>5 DEF ServerResolve, TypeOK, Pipe
<1>6. CASE Qbit(w)
  <2>1. CASE Move(w, "stats")
    BY <1>0, <1>2, <2>1
  <2>2. CASE \E t \in pipe[w].hashes : pipe' = [pipe EXCEPT ![w].hashes = @ \ {t}]
    BY <1>0, <1>1, <2>2 DEF TypeOK, Pipe
  <2>3. QED
    BY <1>6, <2>1, <2>2 DEF Qbit
<1>7. CASE Return(w)
  BY <1>0, <1>7 DEF Return, TypeOK
<1>8. QED
  BY <1>3, <1>4, <1>5, <1>6, <1>7 DEF PipeStep

(* Which step of the pipeline takes an execution past the media server, and
   what it does on the way. *)
LEMMA Passing ==
  ASSUME TypeOK, NEW w \in Workers, PipeStep(w), pipe'[w].step \in Past
  PROVE  \/ /\ pipe[w].step \in Past
            /\ onServer' = onServer
            /\ recorded' = recorded
         \/ /\ MediaServer(w)
            /\ recorded' = recorded
<1>0. Busy(w)
  BY Frame
<1>1. pipe[w] \in Pipe
  BY <1>0, BusyType
<1>2. ASSUME NEW s, Move(w, s) PROVE pipe'[w].step = s
  BY <1>1, <1>2 DEF Move, TypeOK, Pipe
<1>3. CASE SizeLookup(w) \/ Notify(w) \/ NotifyMark(w) \/ Stats(w)
  BY <1>2, <1>3 DEF SizeLookup, Notify, NotifyMark, Stats, Past
<1>4. CASE TorrentHash(w)
  BY <1>1, <1>4 DEF TorrentHash, TypeOK, Pipe, Past
<1>5. CASE ServerResolve(w)
  BY <1>1, <1>5 DEF ServerResolve, TypeOK, Pipe, Past
<1>6. CASE MediaServer(w)
  BY <1>6 DEF MediaServer
<1>7. CASE Arr(w) \/ Seerr(w) \/ Qbit(w)
  BY <1>7 DEF Arr, Seerr, Qbit, At, Past
<1>8. CASE Return(w)
  BY <1>8 DEF Return, TypeOK, Idle, Past
<1>9. QED
  BY <1>3, <1>4, <1>5, <1>6, <1>7, <1>8 DEF PipeStep

(* A routed execution that goes on after the media server's turn for a film
   or an episode has removed the media that was there (MediaServerStep). *)
LEMMA ServerRemoves ==
  ASSUME TypeOK, Routed, NEW w \in Workers, MediaServer(w),
         Plain(pipe[w].row), pipe'[w].step \in Past
  PROVE  /\ pipe[w].row \in onServer
         /\ onServer' = onServer \ {pipe[w].row}
<1>0. Busy(w) /\ At(w, "server")
  BY DEF MediaServer, At, Busy
<1>1. pipe[w] \in Pipe /\ pipe[w].row \in Rows
  BY <1>0, BusyType
<1>2. pipe[w].routed
  BY <1>0, <1>1, PipelineConstants DEF Routed, Reaches, Plain
<1>3. ASSUME NEW s, Move(w, s) PROVE pipe'[w].step = s
  BY <1>1, <1>3 DEF Move, TypeOK, Pipe
<1>4. ServerSingle(w)
  BY DEF MediaServer, Plain
<1>5. QED
  BY <1>2, <1>3, <1>4 DEF ServerSingle, Past

(* The media server's record and the count change in one step each. *)
LEMMA Effects ==
  ASSUME TypeOK, NEW w \in Workers, PipeStep(w)
  PROVE  /\ onServer' = onServer \/ MediaServer(w)
         /\ onServer' \subseteq onServer
         /\ recorded' = recorded \/ (Stats(w) /\ recorded' =
                                       [recorded EXCEPT ![pipe[w].row] = @ + 1])
         /\ inArr' = inArr \/ (Arr(w) /\ inArr' = inArr \ {pipe[w].row})
<1>1. CASE SizeLookup(w) \/ TorrentHash(w) \/ Notify(w) \/ NotifyMark(w)
             \/ ServerResolve(w) \/ Return(w)
  BY <1>1 DEF SizeLookup, TorrentHash, Notify, NotifyMark, ServerResolve, Return, services
<1>2. CASE MediaServer(w)
  BY <1>2 DEF MediaServer, ServerSingle, ServerGroup
<1>3. CASE Arr(w) \/ Seerr(w) \/ Qbit(w)
  BY <1>3 DEF Arr, Seerr, Qbit
<1>4. CASE Stats(w)
  BY <1>4 DEF Stats, services
<1>5. QED
  BY <1>1, <1>2, <1>3, <1>4 DEF PipeStep

-----------------------------------------------------------------------------
(* Routed is preserved by a step: only ServerResolveStep leads to the media
   server's turn. *)
LEMMA RoutedStep ==
  ASSUME TypeOK, Routed, NEW w \in Workers, PipeStep(w)
  PROVE  Routed'
<1>0. Busy(w) /\ \A v \in Workers : v # w => pipe'[v] = pipe[v]
  BY Frame
<1>1. pipe[w] \in Pipe
  BY <1>0, BusyType
<1>2. ASSUME NEW s, Move(w, s) PROVE pipe'[w].step = s
  BY <1>1, <1>2 DEF Move, TypeOK, Pipe
<1>3. ASSUME pipe'[w].step = "server"
      PROVE  pipe'[w].routed <=> Reaches(pipe'[w])
  <2>1. CASE SizeLookup(w) \/ Notify(w) \/ NotifyMark(w) \/ MediaServer(w) \/ Arr(w)
               \/ Seerr(w) \/ Stats(w)
    BY <1>2, <1>3, <2>1 DEF SizeLookup, Notify, NotifyMark, MediaServer, ServerSingle,
       ServerGroup, Arr, Seerr, Stats
  <2>2. CASE TorrentHash(w)
    BY <1>1, <1>3, <2>2 DEF TorrentHash, TypeOK, Pipe
  <2>3. CASE Qbit(w)
    <3>1. CASE Move(w, "stats")
      BY <1>2, <1>3, <3>1
    <3>2. CASE \E t \in pipe[w].hashes : pipe' = [pipe EXCEPT ![w].hashes = @ \ {t}]
      BY <1>1, <1>3, <2>3, <3>2 DEF Qbit, At, TypeOK, Pipe
    <3>3. QED
      BY <2>3, <3>1, <3>2 DEF Qbit
  <2>4. CASE Return(w)
    BY <1>3, <2>4 DEF Return, TypeOK, Idle
  <2>5. CASE ServerResolve(w)
    <3>1. /\ pipe'[w].routed = (pipe[w].by = "job" \/ pipe[w].row \notin Elsewhere)
          /\ pipe'[w].row = pipe[w].row
          /\ pipe'[w].by = pipe[w].by
      BY <1>1, <2>5 DEF ServerResolve, TypeOK, Pipe
    <3>2. pipe[w].row # NoRow
      BY <1>1, PipelineConstants DEF Pipe
    <3>3. QED
      BY <3>1, <3>2 DEF Reaches
  <2>6. QED
    BY <2>1, <2>2, <2>3, <2>4, <2>5 DEF PipeStep
<1>4. QED
  BY <1>0, <1>3 DEF Routed, At, Reaches

(* OnePasses is preserved by a step of an execution. *)
LEMMA OnePassesStep ==
  ASSUME TypeOK, Routed, OnePasses, NEW w \in Workers, PipeStep(w)
  PROVE  OnePasses'
<1>0. /\ Busy(w)
      /\ \A v \in Workers : v # w => pipe'[v] = pipe[v]
      /\ pipe'[w] = Idle \/ pipe'[w].row = pipe[w].row
  BY Frame
<1>1. pipe[w] \in Pipe /\ pipe[w].row \in Rows
  BY <1>0, BusyType
<1>2. pipe'[w].step \in Past => pipe'[w].row = pipe[w].row
  BY <1>0 DEF Idle, Past
<1>3. CASE pipe'[w].step \in Past /\ pipe[w].step \in Past
             /\ onServer' = onServer /\ recorded' = recorded
  BY <1>0, <1>2, <1>3 DEF OnePasses, WorksOn, Plain, Group
<1>4. CASE pipe'[w].step \in Past /\ MediaServer(w) /\ recorded' = recorded
  <2>1. onServer' \subseteq onServer
    BY Effects
  <2>2. Plain(pipe[w].row) => /\ pipe[w].row \in onServer
                              /\ onServer' = onServer \ {pipe[w].row}
    BY <1>4, ServerRemoves
  <2>3. QED
    BY <1>0, <1>1, <1>2, <1>4, <2>1, <2>2 DEF OnePasses, WorksOn, Plain, Group
<1>5. CASE pipe'[w].step \notin Past
  <2>1. onServer' \subseteq onServer
    BY Effects
  <2>2. CASE recorded' = recorded
    BY <1>0, <1>5, <2>1, <2>2 DEF OnePasses, WorksOn, Plain, Group
  <2>3. CASE Stats(w) /\ recorded' = [recorded EXCEPT ![pipe[w].row] = @ + 1]
    <3>1. pipe[w].step \in Past
      BY <2>3 DEF Stats, At, Past
    <3>2. onServer' = onServer
      BY <2>3 DEF Stats, services
    <3>3. QED
      BY <1>0, <1>1, <1>5, <2>3, <3>1, <3>2 DEF OnePasses, WorksOn, Plain, Group, TypeOK
  <2>4. QED
    BY <2>2, <2>3, Effects
<1>6. QED
  BY <1>3, <1>4, <1>5, Passing

(* ArrAfterServer is preserved: who removes the arr entry has been past the
   media server. *)
LEMMA ArrStep ==
  ASSUME TypeOK, OnePasses, ArrAfterServer, NEW w \in Workers, PipeStep(w)
  PROVE  ArrAfterServer'
<1>1. onServer' \subseteq onServer
  BY Effects
<1>2. CASE inArr' = inArr
  BY <1>1, <1>2 DEF ArrAfterServer, Plain, Group
<1>3. CASE Arr(w) /\ inArr' = inArr \ {pipe[w].row}
  <2>1. Busy(w) /\ pipe[w].step \in Past
    BY <1>3 DEF Arr, At, Busy, Past
  <2>2. pipe[w].row \in Rows
    BY <2>1, BusyType
  <2>3. Plain(pipe[w].row) => pipe[w].row \notin onServer
    BY <2>1, <2>2 DEF OnePasses, WorksOn
  <2>4. QED
    BY <1>1, <1>3, <2>3 DEF ArrAfterServer, Plain, Group
<1>4. QED
  BY <1>2, <1>3, Effects

(* PipelineInv is inductive relative to the types. *)
LEMMA InvStep ==
  ASSUME TypeOK, PipelineInv, [Next]_vars
  PROVE  PipelineInv'
<1>1. CASE \E w \in Workers, r \in Rows, by \in Origins : Start(w, r, by)
  <2>1. PICK w \in Workers, r \in Rows, by \in Origins : Start(w, r, by)
    BY <1>1
  <2>2. /\ pipe'[w].step = "size"
        /\ \A v \in Workers : v # w => pipe'[v] = pipe[v]
        /\ UNCHANGED <<recorded, onServer, inArr>>
    BY <2>1 DEF Start, TypeOK, services
  <2>3. Routed'
    BY <2>2 DEF PipelineInv, Routed, At, Reaches
  <2>4. OnePasses'
    BY <2>2 DEF PipelineInv, OnePasses, WorksOn, Plain, Group, Past
  <2>5. ArrAfterServer'
    BY <2>2 DEF PipelineInv, ArrAfterServer, Plain, Group
  <2>6. QED
    BY <2>3, <2>4, <2>5 DEF PipelineInv
<1>2. CASE \E w \in Workers : PipeStep(w)
  BY <1>2, RoutedStep, OnePassesStep, ArrStep DEF PipelineInv
<1>3. CASE Crash
  <2>1. /\ \A w \in Workers : pipe'[w] = Idle
        /\ UNCHANGED <<recorded, onServer, inArr>>
    BY <1>3 DEF Crash, services
  <2>2. QED
    BY <2>1 DEF PipelineInv, Routed, At, OnePasses, ArrAfterServer, WorksOn, Plain,
       Group, Past, Idle
<1>4. CASE UNCHANGED vars
  BY <1>4 DEF vars, PipelineInv, Routed, At, Reaches, OnePasses, ArrAfterServer,
     WorksOn, Plain, Group
<1>5. QED
  BY <1>1, <1>2, <1>3, <1>4 DEF Next

LEMMA InvInit == Init => PipelineInv
BY PipelineConstants DEF Init, PipelineInv, Routed, At, OnePasses, ArrAfterServer, WorksOn,
   Plain, Group, Past, Idle

LEMMA PipelineInvariant == Spec => []PipelineInv
<1>1. TypeOK /\ PipelineInv /\ [Next]_vars => PipelineInv'
  BY InvStep
<1>2. QED
  BY <1>1, InvInit, PipelineTypes, PTL DEF Spec

(* Whatever fails, and with any number of claimed and unclaimed executions on
   a row, arr gives up a film or an episode only after the media server has
   dropped it (MediaServerStep raising before ArrStep). *)
THEOREM ServerBeforeArr == Spec => []ArrAfterServer
<1>1. PipelineInv => ArrAfterServer
  BY DEF PipelineInv
<1>2. QED
  BY <1>1, PipelineInvariant, PTL

(* The media server's refusal to delete the same item twice is what makes the
   statistics count it once, through any retries, crashes and concurrent bulk
   deletions (StatsStep). *)
THEOREM StatsCountOnce == Spec => []CountedOnce
<1>1. PipelineInv => CountedOnce
  BY DEF PipelineInv, OnePasses, CountedOnce
<1>2. QED
  BY <1>1, PipelineInvariant, PTL

-----------------------------------------------------------------------------
(* The contract. *)

LEMMA StageValues ==
  /\ StageOf("idle") = "idle"
  /\ \A s \in {"size", "hash", "notify", "mark", "resolve", "server"} : StageOf(s) = "media"
  /\ \A s \in Past : StageOf(s) = "rest"
  /\ StageOf("passed") = "passed"
  /\ StageOf("failed") = "failed"
BY DEF StageOf, Past

(* What a step changes of an execution, as its caller sees it. *)
LEMMA SeenStep ==
  ASSUME TypeOK, NEW w \in Workers, PipeStep(w)
  PROVE  LET exec == [v \in Workers |-> Seen(pipe[v])]
             exec1 == [v \in Workers |-> Seen(pipe'[v])] IN
         \/ /\ pipe'[w] = Idle
            /\ exec1 = [exec EXCEPT ![w] = Seen(Idle)]
         \/ /\ pipe'[w] # Idle
            /\ exec1 = [exec EXCEPT ![w].stage = StageOf(pipe'[w].step)]
<1>0. /\ Busy(w)
      /\ \A v \in Workers : v # w => pipe'[v] = pipe[v]
      /\ pipe'[w] = Idle \/ (pipe'[w].row = pipe[w].row /\ pipe'[w].by = pipe[w].by)
  BY Frame
<1> DEFINE exec == [v \in Workers |-> Seen(pipe[v])]
           exec1 == [v \in Workers |-> Seen(pipe'[v])]
<1>1. CASE pipe'[w] = Idle
  BY <1>0, <1>1
<1>2. CASE pipe'[w] # Idle
  <2>1. Seen(pipe'[w]) = [Seen(pipe[w]) EXCEPT !.stage = StageOf(pipe'[w].step)]
    BY <1>0, <1>2 DEF Seen, Reaches
  <2>2. QED
    BY <1>0, <1>2, <2>1
<1>3. QED
  BY <1>1, <1>2

(* A step that does not touch the media and stays in its stage is invisible. *)
LEMMA Invisible ==
  ASSUME TypeOK, NEW w \in Workers, PipeStep(w), onServer' = onServer,
         pipe'[w] # Idle, StageOf(pipe'[w].step) = StageOf(pipe[w].step)
  PROVE  UNCHANGED Contract!cvars
<1> DEFINE exec == [v \in Workers |-> Seen(pipe[v])]
           exec1 == [v \in Workers |-> Seen(pipe'[v])]
<1>1. exec1 = [exec EXCEPT ![w].stage = StageOf(pipe'[w].step)]
  BY SeenStep
<1>2. exec[w].stage = StageOf(pipe'[w].step)
  BY DEF Seen
<1>3. Seen(pipe[w]) = [Seen(pipe[w]) EXCEPT !.stage = StageOf(pipe'[w].step)]
  BY <1>2 DEF Seen
<1>4. exec1 = exec
  BY <1>1, <1>3
<1>5. QED
  BY <1>4 DEF Contract!cvars

(* Each step of an execution is a step of the contract, or invisible. *)
LEMMA ContractStep ==
  ASSUME TypeOK, Routed, NEW w \in Workers, PipeStep(w)
  PROVE  [Contract!CNext]_(Contract!cvars)
<1> DEFINE exec == [v \in Workers |-> Seen(pipe[v])]
           exec1 == [v \in Workers |-> Seen(pipe'[v])]
<1>0. /\ Busy(w)
      /\ pipe'[w] # Idle => exec1 = [exec EXCEPT ![w].stage = StageOf(pipe'[w].step)]
      /\ pipe'[w] = Idle => exec1 = [exec EXCEPT ![w] = Seen(Idle)]
  BY Frame, SeenStep
<1>1. pipe[w] \in Pipe /\ pipe[w].row \in Rows
  BY <1>0, BusyType
<1>2. exec[w].stage = StageOf(pipe[w].step) /\ exec[w].row = pipe[w].row
        /\ exec[w].reaches = Reaches(pipe[w])
  BY DEF Seen
<1>3. ASSUME NEW s \in Steps, Move(w, s)
      PROVE  pipe'[w].step = s /\ pipe'[w] # Idle
             /\ exec1 = [exec EXCEPT ![w].stage = StageOf(s)]
  <2>1. pipe'[w].step = s
    BY <1>1, <1>3 DEF Move, TypeOK, Pipe
  <2>2. pipe'[w] # Idle
    BY <2>1 DEF Idle, Steps
  <2>3. QED
    BY <1>0, <2>1, <2>2
<1>4. CASE SizeLookup(w) \/ Notify(w) \/ NotifyMark(w)
  <2>1. \E s \in {"hash", "mark", "resolve"} : Move(w, s)
    BY <1>4 DEF SizeLookup, Notify, NotifyMark
  <2>2. /\ pipe'[w].step \in {"hash", "mark", "resolve"} /\ pipe'[w] # Idle
        /\ pipe[w].step \in {"size", "notify", "mark"}
        /\ onServer' = onServer
    BY <1>3, <1>4, <2>1 DEF Steps, SizeLookup, Notify, NotifyMark, At, services
  <2>3. QED
    BY <2>2, StageValues, Invisible
<1>5. CASE TorrentHash(w) \/ ServerResolve(w)
  <2>1. pipe'[w].step \in {"notify", "server"}
    <3>1. CASE TorrentHash(w)
      BY <1>1, <3>1 DEF TorrentHash, TypeOK, Pipe
    <3>2. CASE ServerResolve(w)
      BY <1>1, <3>2 DEF ServerResolve, TypeOK, Pipe
    <3>3. QED
      BY <1>5, <3>1, <3>2
  <2>2. pipe'[w] # Idle
    BY <2>1 DEF Idle
  <2>3. onServer' = onServer /\ pipe[w].step \in {"hash", "resolve"}
    BY <1>5 DEF TorrentHash, ServerResolve, At, services
  <2>4. QED
    BY <2>1, <2>2, <2>3, StageValues, Invisible
<1>6. CASE MediaServer(w)
  <2>1. exec[w].stage = "media" /\ (pipe[w].routed <=> exec[w].reaches)
    BY <1>2, <1>6, StageValues DEF MediaServer, At, Routed
  <2>2. /\ Move(w, "arr") => exec1 = [exec EXCEPT ![w].stage = "rest"]
        /\ Move(w, "failed") => exec1 = [exec EXCEPT ![w].stage = "failed"]
    BY <1>3, StageValues DEF Steps, Past
  <2>3. \/ /\ exec[w].reaches
           /\ onServer' = onServer \ {exec[w].row}
           /\ \E s \in {"rest", "failed"} : exec1 = [exec EXCEPT ![w].stage = s]
        \/ /\ exec[w].row \in {r \in Rows : Group(r)} \/ ~exec[w].reaches
           /\ onServer' = onServer
           /\ exec1 = [exec EXCEPT ![w].stage = "rest"]
        \/ onServer' = onServer /\ exec1 = [exec EXCEPT ![w].stage = "failed"]
    <3>1. CASE Group(pipe[w].row)
      BY <1>1, <1>2, <1>6, <2>1, <2>2, <3>1 DEF MediaServer, ServerGroup
    <3>2. CASE ~Group(pipe[w].row)
      BY <1>1, <1>2, <1>6, <2>1, <2>2, <3>2 DEF MediaServer, ServerSingle
    <3>3. QED
      BY <3>1, <3>2
  <2>4. Contract!Server(w)
    BY <2>1, <2>3 DEF Contract!Server, Contract!ToStage
  <2>5. QED
    BY <2>4 DEF Contract!CNext
<1>7. CASE Arr(w)
  <2>1. onServer' = onServer /\ pipe[w].step = "arr"
    BY <1>7 DEF Arr, At
  <2>2. CASE Move(w, "seerr")
    <3>1. pipe'[w].step = "seerr" /\ pipe'[w] # Idle
      BY <1>3, <2>2 DEF Steps
    <3>2. QED
      BY <2>1, <3>1, StageValues, Invisible DEF Past
  <2>3. CASE Move(w, "failed")
    <3>1. exec1 = [exec EXCEPT ![w].stage = "failed"] /\ exec[w].stage = "rest"
      BY <1>2, <1>3, <2>1, <2>3, StageValues DEF Steps, Past
    <3>2. Contract!Rest(w)
      BY <2>1, <3>1 DEF Contract!Rest, Contract!ToStage
    <3>3. QED
      BY <3>2 DEF Contract!CNext
  <2>4. QED
    BY <1>7, <2>2, <2>3 DEF Arr
<1>8. CASE Seerr(w) \/ Qbit(w)
  <2>1. onServer' = onServer /\ pipe[w].step \in {"seerr", "qbit"}
    BY <1>8 DEF Seerr, Qbit, At
  <2>2. CASE \E s \in {"qbit", "stats"} : Move(w, s)
    <3>1. pipe'[w].step \in {"qbit", "stats"} /\ pipe'[w] # Idle
      BY <1>3, <2>2 DEF Steps
    <3>2. QED
      BY <2>1, <3>1, StageValues, Invisible DEF Past
  <2>3. CASE \E t \in pipe[w].hashes : pipe' = [pipe EXCEPT ![w].hashes = @ \ {t}]
    <3>1. pipe'[w].step = pipe[w].step
      BY <1>1, <2>3 DEF TypeOK, Pipe
    <3>2. pipe'[w] # Idle
      BY <2>1, <3>1 DEF Idle
    <3>3. QED
      BY <2>1, <3>1, <3>2, Invisible
  <2>4. QED
    BY <1>8, <2>2, <2>3 DEF Seerr, Qbit
<1>9. CASE Stats(w)
  <2>1. exec1 = [exec EXCEPT ![w].stage = "passed"] /\ exec[w].stage = "rest"
          /\ onServer' = onServer
    BY <1>2, <1>3, <1>9, StageValues DEF Steps, Past, Stats, At, services
  <2>2. Contract!Rest(w)
    BY <2>1 DEF Contract!Rest, Contract!ToStage
  <2>3. QED
    BY <2>2 DEF Contract!CNext
<1>10. CASE Return(w)
  <2>1. pipe'[w] = Idle /\ onServer' = onServer /\ pipe[w].step \in {"passed", "failed"}
    BY <1>10 DEF Return, At, TypeOK, services
  <2>2. Seen(Idle) = Contract!None
    BY StageValues DEF Seen, Reaches, Idle, Contract!None
  <2>3. exec1 = [exec EXCEPT ![w] = Contract!None] /\ exec[w].stage \in {"passed", "failed"}
    BY <1>0, <1>2, <2>1, <2>2, StageValues
  <2>4. Contract!Report(w)
    BY <2>1, <2>3 DEF Contract!Report
  <2>5. QED
    BY <2>4 DEF Contract!CNext
<1>11. QED
  BY <1>4, <1>5, <1>6, <1>7, <1>8, <1>9, <1>10 DEF PipeStep

(* The nine steps of deletion_pipeline.py, run by any number of callers and
   interrupted at any point, implement the four-stage pipeline that
   DeletionQueue assumes: the media leaves the server only at the media
   server's turn, and success means that turn went well. *)
THEOREM PipelineMeetsContract == Spec => MeetsContract
<1> DEFINE exec == [v \in Workers |-> Seen(pipe[v])]
           exec1 == [v \in Workers |-> Seen(pipe'[v])]
<1>0. Seen(Idle) = Contract!None
  BY StageValues DEF Seen, Reaches, Idle, Contract!None
<1>1. Init => Contract!CInit
  BY <1>0 DEF Init, Contract!CInit
<1>2. TypeOK /\ PipelineInv /\ [Next]_vars => [Contract!CNext]_(Contract!cvars)
  <2> SUFFICES ASSUME TypeOK, PipelineInv, [Next]_vars
               PROVE  [Contract!CNext]_(Contract!cvars)
    OBVIOUS
  <2>1. CASE \E w \in Workers, r \in Rows, by \in Origins : Start(w, r, by)
    <3>1. PICK w \in Workers, r \in Rows, by \in Origins : Start(w, r, by)
      BY <2>1
    <3>2. exec[w].stage = "idle"
      BY <3>1, StageValues DEF Start, Busy, Seen
    <3>3. /\ pipe'[w] = [row |-> r, by |-> by, step |-> "size", hashes |-> {}, routed |-> FALSE]
          /\ \A v \in Workers : v # w => pipe'[v] = pipe[v]
          /\ onServer' = onServer
      BY <3>1 DEF Start, TypeOK, services
    <3>4. Seen(pipe'[w]) = [row |-> r, reaches |-> Reaches(pipe'[w]), stage |-> "media"]
      BY <3>3, StageValues DEF Seen
    <3>5. Reaches(pipe'[w]) \in BOOLEAN
      BY DEF Reaches
    <3>6. exec1 = [exec EXCEPT ![w] =
                     [row |-> r, reaches |-> Reaches(pipe'[w]), stage |-> "media"]]
      BY <3>3, <3>4
    <3>7. Contract!Begin(w)
      BY <3>2, <3>3, <3>5, <3>6 DEF Contract!Begin
    <3>8. QED
      BY <3>7 DEF Contract!CNext
  <2>2. CASE \E w \in Workers : PipeStep(w)
    BY <2>2, ContractStep DEF PipelineInv
  <2>3. CASE Crash
    <3>1. exec1 = [v \in Workers |-> Contract!None] /\ onServer' = onServer
      BY <1>0, <2>3 DEF Crash, services
    <3>2. Contract!Die
      BY <3>1 DEF Contract!Die
    <3>3. QED
      BY <3>2 DEF Contract!CNext
  <2>4. CASE UNCHANGED vars
    <3>1. pipe' = pipe /\ onServer' = onServer
      BY <2>4 DEF vars
    <3>2. QED
      BY <3>1 DEF Contract!cvars
  <2>5. QED
    BY <2>1, <2>2, <2>3, <2>4 DEF Next
<1>3. QED
  BY <1>1, <1>2, PipelineTypes, PipelineInvariant, PTL DEF Spec, MeetsContract, Contract!CSpec

-----------------------------------------------------------------------------
(* Announcements. *)

(* Nothing comes between a message and its marker. *)
Undisturbed == Faults \cap {"crash", "lost", "dbwrite"} = {} /\ "bulk" \notin Origins

(* Without unclaimed executions a row has one execution at most, which keeps
   it 'deleting'. *)
Claimed ==
    \A w \in Workers : Busy(w) =>
      /\ status[pipe[w].row] = "deleting"
      /\ \A v \in Workers : Busy(v) /\ pipe[v].row = pipe[w].row => v = w

(* A message that was sent has its marker, or its execution is about to write
   it. *)
Announced ==
    \A r \in Rows :
      \/ messages[r] = 0
      \/ /\ messages[r] = 1
         /\ \/ r \in marker
            \/ \E w \in Workers : WorksOn(w, r) /\ At(w, "mark")

PeaceInv == Undisturbed => Claimed /\ Announced

(* A move to another step changes nothing else of an execution. *)
LEMMA Moved ==
  ASSUME TypeOK, NEW w \in Workers, Busy(w), NEW s, Move(w, s)
  PROVE  /\ pipe'[w].step = s
         /\ pipe'[w].row = pipe[w].row
         /\ pipe'[w].hashes = pipe[w].hashes
         /\ \A v \in Workers : v # w => pipe'[v] = pipe[v]
<1>1. pipe[w] \in Pipe
  BY BusyType
<1>2. QED
  BY <1>1 DEF Move, TypeOK, Pipe

LEMMA ClaimedStep ==
  ASSUME TypeOK, Claimed, NEW w \in Workers, PipeStep(w)
  PROVE  Claimed'
<1>1. /\ Busy(w)
      /\ \A v \in Workers : v # w => pipe'[v] = pipe[v]
      /\ pipe'[w] = Idle \/ pipe'[w].row = pipe[w].row
  BY Frame
<1>2. pipe[w].row \in Rows /\ \A v \in Workers : Busy(v) => pipe[v].row \in Rows
  BY <1>1, BusyType
<1>3. CASE Return(w)
  <2>1. pipe'[w] = Idle
    BY <1>3 DEF Return, TypeOK
  <2>2. \A r \in Rows : r # pipe[w].row => status'[r] = status[r]
    BY <1>3 DEF Return, TypeOK
  <2>3. \A v \in Workers : v # w /\ Busy(v) => pipe[v].row # pipe[w].row
    BY <1>1 DEF Claimed
  <2>4. QED
    BY <1>1, <1>2, <2>1, <2>2, <2>3 DEF Claimed, Busy, Idle
<1>4. CASE ~Return(w)
  <2>1. status' = status
    BY <1>4 DEF PipeStep, SizeLookup, TorrentHash, Notify, NotifyMark, ServerResolve,
       MediaServer, Arr, Seerr, Qbit, Stats
  <2>2. QED
    BY <1>1, <2>1 DEF Claimed, Busy, Idle
<1>5. QED
  BY <1>3, <1>4

LEMMA AnnouncedStep ==
  ASSUME TypeOK, Undisturbed, Claimed, Announced, NEW w \in Workers, PipeStep(w)
  PROVE  Announced'
<1>1. /\ Busy(w)
      /\ \A v \in Workers : v # w => pipe'[v] = pipe[v]
  BY Frame
<1>2. pipe[w].row \in Rows
  BY <1>1, BusyType
<1>3. CASE Notify(w)
  <2>1. At(w, "notify") /\ marker' = marker
    BY <1>3 DEF Notify
  <2>2. CASE messages' = messages
    BY <1>1, <2>1, <2>2 DEF Announced, WorksOn, At
  <2>3. CASE messages' # messages
    <3>1. PICK n \in {0, 1} : messages' = [messages EXCEPT ![pipe[w].row] = @ + n]
      BY <1>3, <2>3 DEF Notify, Undisturbed
    <3>2. pipe[w].row \notin marker /\ Move(w, "mark")
      BY <1>3, <2>3 DEF Notify
    <3>3. messages[pipe[w].row] = 0
      <4>1. \A v \in Workers : WorksOn(v, pipe[w].row) /\ At(v, "mark") => v = w
        BY <1>1 DEF Claimed, WorksOn, At, Busy
      <4>2. QED
        BY <1>2, <2>1, <3>2, <4>1 DEF Announced, At
    <3>4. pipe'[w].row = pipe[w].row /\ pipe'[w].step = "mark"
      BY <1>1, <3>2, Moved
    <3>5. messages'[pipe[w].row] \in {0, 1}
      BY <1>2, <3>1, <3>3 DEF TypeOK
    <3>6. ASSUME NEW r \in Rows, r # pipe[w].row
          PROVE  \/ messages'[r] = 0
                 \/ /\ messages'[r] = 1
                    /\ \/ r \in marker'
                       \/ \E v \in Workers : WorksOn(v, r)' /\ At(v, "mark")'
      <4>1. messages'[r] = messages[r]
        BY <1>2, <3>1, <3>6 DEF TypeOK
      <4>2. QED
        BY <1>1, <2>1, <3>6, <4>1 DEF Announced, WorksOn, At
    <3>7. QED
      BY <3>4, <3>5, <3>6, <1>2 DEF Announced, WorksOn, At
  <2>4. QED
    BY <2>2, <2>3
<1>4. CASE NotifyMark(w)
  <2>1. marker' = marker \cup {pipe[w].row} /\ messages' = messages
    BY <1>4 DEF NotifyMark, Undisturbed
  <2>2. QED
    BY <1>1, <2>1 DEF Announced, WorksOn, At
<1>5. CASE ~Notify(w) /\ ~NotifyMark(w)
  <2>1. ~At(w, "mark")
    BY <1>5 DEF PipeStep, SizeLookup, TorrentHash, ServerResolve, MediaServer, Arr, Seerr,
       Qbit, Stats, Return, At
  <2>2. messages' = messages /\ marker \subseteq marker'
    BY <1>5 DEF PipeStep, SizeLookup, TorrentHash, ServerResolve, MediaServer, Arr, Seerr,
       Qbit, Stats, Return
  <2>3. QED
    BY <1>1, <2>1, <2>2 DEF Announced, WorksOn, At
<1>6. QED
  BY <1>3, <1>4, <1>5

(* A claim finds the row pending, so nobody works on it. *)
LEMMA PeaceStarts ==
  ASSUME TypeOK, Undisturbed, Claimed, Announced,
         NEW w \in Workers, NEW r \in Rows, NEW by \in Origins, Start(w, r, by)
  PROVE  Claimed' /\ Announced'
<1>1. /\ ~Busy(w) /\ status[r] = "pending"
      /\ status' = [status EXCEPT ![r] = "deleting"]
      /\ UNCHANGED <<messages, marker>>
  BY DEF Start, Undisturbed
<1>2. /\ pipe'[w].row = r /\ pipe'[w].step = "size"
      /\ \A v \in Workers : v # w => pipe'[v] = pipe[v]
  BY DEF Start, TypeOK
<1>3. \A v \in Workers : Busy(v) => pipe[v].row # r /\ pipe[v].row \in Rows
  BY <1>1, BusyType DEF Claimed
<1>4. Claimed'
  BY <1>1, <1>2, <1>3 DEF Claimed, Busy, TypeOK
<1>5. Announced'
  BY <1>1, <1>2 DEF Announced, WorksOn, At, Busy
<1>6. QED
  BY <1>4, <1>5

(* AnnouncedOnceInPeace: a deletion that fails and is tried again is announced
   once, since the marker is written before anything of it can fail
   (DiscordNotifyStep) and the claim keeps other executions away. *)
THEOREM OneAnnouncement == Spec => []AnnouncedOnceInPeace
<1>1. Init => PeaceInv
  BY DEF Init, PeaceInv, Claimed, Announced, Busy, Idle
<1>2. TypeOK /\ PeaceInv /\ [Next]_vars => PeaceInv'
  <2> SUFFICES ASSUME TypeOK, Undisturbed, Claimed, Announced, [Next]_vars
               PROVE  Claimed' /\ Announced'
    BY DEF PeaceInv, Undisturbed
  <2>1. CASE \E w \in Workers, r \in Rows, by \in Origins : Start(w, r, by)
    BY <2>1, PeaceStarts
  <2>2. CASE \E w \in Workers : PipeStep(w)
    BY <2>2, ClaimedStep, AnnouncedStep
  <2>3. CASE Crash
    BY <2>3 DEF Crash, Undisturbed
  <2>4. CASE UNCHANGED vars
    BY <2>4 DEF vars, Claimed, Announced, Busy, WorksOn, At
  <2>5. QED
    BY <2>1, <2>2, <2>3, <2>4 DEF Next
<1>3. PeaceInv => AnnouncedOnceInPeace
  BY DEF PeaceInv, Announced, Undisturbed, AnnouncedOnceInPeace, AnnouncedOnce
<1>4. QED
  BY <1>1, <1>2, <1>3, PipelineTypes, PTL DEF Spec

-----------------------------------------------------------------------------
(* Downloads. *)

(* No failure that costs a download. *)
Careful == Faults \cap {"crash", "lost", "lookup", "qbit"} = {}

(* The torrents ts are all that the row's deletion has to take care of. *)
Enough(r, ts) ==
    IF Group(r) THEN Backing[r] \subseteq ts
    ELSE History[r] # {} => History[r] \cap ts # {}

(* As long as the arr entry is there an execution that has looked for the
   torrents has found them. *)
Looked ==
    \A w \in Workers :
      /\ pipe[w].row \in Stored \cap inArr
      /\ pipe[w].step \in {"notify", "mark", "resolve", "server", "arr"}
      => Enough(pipe[w].row, pipe[w].hashes)

(* Nothing that arr still has was deleted, or is about to be reported so. *)
Kept ==
    \A r \in Stored \cap inArr :
      /\ status[r] # "deleted"
      /\ \A w \in Workers :
           WorksOn(w, r) => pipe[w].step \notin {"seerr", "qbit", "stats", "passed"}

(* Once the arr entry is gone, the torrents are handled or in the hands of the
   execution that removed it. *)
Followed ==
    \A r \in Stored \ inArr :
      \/ Enough(r, handled)
      \/ \E w \in Workers :
           /\ WorksOn(w, r)
           /\ pipe[w].step \in {"seerr", "qbit"}
           /\ Enough(r, handled \cup pipe[w].hashes)

TorrentInv == Careful => Looked /\ Kept /\ Followed

LEMMA EnoughGrows ==
  ASSUME NEW r, NEW S, NEW T, S \subseteq T, Enough(r, S)
  PROVE  Enough(r, T)
  BY DEF Enough

(* A lookup that does not fail, while arr has the row, finds what is needed. *)
LEMMA LookupFinds ==
  ASSUME NEW r \in Rows, r \in inArr, NEW hs \in HashesOf(r)
  PROVE  Enough(r, hs)
<1>1. CASE Group(r)
  BY <1>1 DEF HashesOf, Enough
<1>2. CASE ~Group(r) /\ History[r] # {}
  <2>1. HashesOf(r) = {{t} : t \in History[r]}
    BY <1>2 DEF HashesOf
  <2>2. QED
    BY <1>2, <2>1 DEF Enough
<1>3. CASE ~Group(r) /\ History[r] = {}
  BY <1>3 DEF Enough
<1>4. QED
  BY <1>1, <1>2, <1>3

(* What a step does to the step and the torrents of its execution. *)
LEMMA Hashes ==
  ASSUME TypeOK, Careful, NEW w \in Workers, PipeStep(w)
  PROVE  /\ pipe'[w].step \in {"notify", "mark", "resolve", "server", "arr"} =>
              \/ TorrentHash(w) /\ pipe'[w].hashes \in HashesOf(pipe[w].row)
              \/ /\ pipe[w].step \in {"notify", "mark", "resolve", "server"}
                 /\ pipe'[w].hashes = pipe[w].hashes
         /\ pipe'[w].step \in {"seerr", "qbit", "stats", "passed"} =>
              \/ Arr(w) /\ pipe[w].step = "arr" /\ pipe[w].row \notin inArr'
              \/ pipe[w].step \in {"seerr", "qbit", "stats"}
         /\ pipe[w].step \in {"seerr", "qbit"} =>
              \/ /\ pipe'[w].step \in {"seerr", "qbit"}
                 /\ handled \cup pipe[w].hashes \subseteq handled' \cup pipe'[w].hashes
              \/ pipe[w].hashes = {}
         /\ handled \subseteq handled'
<1>0. Busy(w)
  BY Frame
<1>1. pipe[w] \in Pipe
  BY <1>0, BusyType
<1>2. ASSUME NEW s, Move(w, s)
      PROVE  pipe'[w].step = s /\ pipe'[w].hashes = pipe[w].hashes
  BY <1>0, <1>2, Moved
<1>3. CASE SizeLookup(w) \/ Notify(w) \/ NotifyMark(w)
  BY <1>2, <1>3 DEF SizeLookup, Notify, NotifyMark, At, services
<1>4. CASE TorrentHash(w)
  <2>1. PICK hs \in HashesOf(pipe[w].row) :
          pipe' = [pipe EXCEPT ![w].hashes = hs, ![w].step = "notify"]
    BY <1>4 DEF TorrentHash, Careful
  <2>2. pipe'[w].step = "notify" /\ pipe'[w].hashes = hs
    BY <1>1, <2>1 DEF TypeOK, Pipe
  <2>3. QED
    BY <1>4, <2>1, <2>2 DEF TorrentHash, At, services
<1>5. CASE ServerResolve(w)
  <2>1. pipe'[w].step = "server" /\ pipe'[w].hashes = pipe[w].hashes
    BY <1>1, <1>5 DEF ServerResolve, TypeOK, Pipe
  <2>2. QED
    BY <1>5, <2>1 DEF ServerResolve, At, services
<1>6. CASE MediaServer(w)
  <2>1. At(w, "server") /\ handled' = handled
    BY <1>6 DEF MediaServer
  <2>2. Move(w, "arr") \/ Move(w, "failed")
    BY <1>6 DEF MediaServer, ServerSingle, ServerGroup
  <2>3. QED
    BY <1>2, <2>1, <2>2 DEF At
<1>7. CASE Arr(w)
  <2>1. At(w, "arr") /\ handled' = handled
    BY <1>7 DEF Arr
  <2>2. Move(w, "failed") \/ (Move(w, "seerr") /\ pipe[w].row \notin inArr')
    BY <1>7 DEF Arr
  <2>3. QED
    BY <1>2, <1>7, <2>1, <2>2 DEF At
<1>8. CASE Seerr(w)
  BY <1>2, <1>8 DEF Seerr, At
<1>9. CASE Qbit(w)
  <2>1. CASE pipe[w].hashes = {} /\ Move(w, "stats") /\ handled' = handled
    BY <1>2, <1>9, <2>1 DEF Qbit, At
  <2>2. CASE \E t \in pipe[w].hashes :
               /\ pipe' = [pipe EXCEPT ![w].hashes = @ \ {t}]
               /\ handled' = handled \cup {t}
    <3>1. PICK t \in pipe[w].hashes :
            /\ pipe' = [pipe EXCEPT ![w].hashes = @ \ {t}]
            /\ handled' = handled \cup {t}
      BY <2>2
    <3>2. pipe'[w].step = pipe[w].step /\ pipe'[w].hashes = pipe[w].hashes \ {t}
      BY <1>1, <3>1 DEF TypeOK, Pipe
    <3>3. QED
      BY <1>9, <3>1, <3>2 DEF Qbit, At
  <2>3. QED
    BY <1>9, <2>1, <2>2 DEF Qbit, Careful
<1>10. CASE Stats(w)
  BY <1>2, <1>10 DEF Stats, At, services
<1>11. CASE Return(w)
  BY <1>11 DEF Return, At, TypeOK, Idle, services
<1>12. QED
  BY <1>3, <1>4, <1>5, <1>6, <1>7, <1>8, <1>9, <1>10, <1>11 DEF PipeStep

(* TorrentInv is preserved by a step of an execution. *)
LEMMA TorrentStep ==
  ASSUME TypeOK, Careful, Looked, Kept, Followed, NEW w \in Workers, PipeStep(w)
  PROVE  Looked' /\ Kept' /\ Followed'
<1>0. /\ Busy(w)
      /\ \A v \in Workers : v # w => pipe'[v] = pipe[v]
      /\ pipe'[w] = Idle \/ pipe'[w].row = pipe[w].row
  BY Frame
<1>1. pipe[w] \in Pipe /\ pipe[w].row \in Rows
  BY <1>0, BusyType
<1>2. inArr' = inArr \/ (Arr(w) /\ inArr' = inArr \ {pipe[w].row})
  BY Effects
<1>3. pipe'[w].step \in Steps => pipe'[w].row = pipe[w].row
  BY <1>0 DEF Idle, Steps
<1>4. Looked'
  <2> SUFFICES ASSUME NEW v \in Workers, pipe'[v].row \in Stored \cap inArr',
                      pipe'[v].step \in {"notify", "mark", "resolve", "server", "arr"}
               PROVE  Enough(pipe'[v].row, pipe'[v].hashes)
    BY DEF Looked, Enough, Group
  <2>1. CASE v # w
    BY <1>0, <1>2, <2>1 DEF Looked
  <2>2. CASE v = w /\ TorrentHash(w) /\ pipe'[w].hashes \in HashesOf(pipe[w].row)
    BY <1>1, <1>2, <1>3, <2>2, LookupFinds DEF Steps
  <2>3. CASE v = w /\ pipe[w].step \in {"notify", "mark", "resolve", "server"}
               /\ pipe'[w].hashes = pipe[w].hashes
    BY <1>2, <1>3, <2>3 DEF Looked, Steps
  <2>4. QED
    BY <2>1, <2>2, <2>3, Hashes
<1>5. Kept'
  <2> SUFFICES ASSUME NEW r \in Stored \cap inArr'
               PROVE  /\ status'[r] # "deleted"
                      /\ \A v \in Workers : pipe'[v].row = r =>
                           pipe'[v].step \notin {"seerr", "qbit", "stats", "passed"}
    BY DEF Kept, WorksOn
  <2>1. r \in Stored \cap inArr /\ r \in Rows
    BY <1>2, PipelineConstants
  <2>2. status'[r] # "deleted"
    <3>1. CASE Return(w)
      <4>1. At(w, "passed") => pipe[w].row # r
        BY <2>1 DEF Kept, WorksOn, At
      <4>2. pipe[w].by \in {"job", "now", "bulk"}
        BY <1>1, PipelineConstants DEF Pipe
      <4>3. QED
        BY <1>1, <2>1, <3>1, <4>1, <4>2 DEF Return, Kept, TypeOK
    <3>2. CASE ~Return(w)
      <4>1. status' = status
        BY <3>2 DEF PipeStep, SizeLookup, TorrentHash, Notify, NotifyMark, ServerResolve,
           MediaServer, Arr, Seerr, Qbit, Stats
      <4>2. QED
        BY <2>1, <4>1 DEF Kept
    <3>3. QED
      BY <3>1, <3>2
  <2>3. ASSUME NEW v \in Workers, pipe'[v].row = r
        PROVE  pipe'[v].step \notin {"seerr", "qbit", "stats", "passed"}
    <3>1. CASE v # w
      BY <1>0, <2>1, <2>3, <3>1 DEF Kept, WorksOn
    <3>2. CASE v = w /\ pipe'[w].step \in {"seerr", "qbit", "stats", "passed"}
      <4>1. pipe[w].row = r
        BY <1>3, <2>3, <3>2 DEF Steps
      <4>2. QED
        BY <2>1, <3>2, <4>1, Hashes DEF Kept, WorksOn
    <3>3. QED
      BY <3>1, <3>2
  <2>4. QED
    BY <2>2, <2>3
<1>6. Followed'
  <2> SUFFICES ASSUME NEW r \in Stored \ inArr'
               PROVE  \/ Enough(r, handled')
                      \/ \E v \in Workers :
                           /\ pipe'[v].row = r
                           /\ pipe'[v].step \in {"seerr", "qbit"}
                           /\ Enough(r, handled' \cup pipe'[v].hashes)
    BY DEF Followed, WorksOn, Enough, Group
  <2>1. handled \subseteq handled'
    BY Hashes
  <2>2. CASE r \in inArr
    <3>1. Arr(w) /\ r = pipe[w].row
      BY <1>2, <2>2
    <3>2. Move(w, "seerr") /\ At(w, "arr")
      BY <2>2, <3>1 DEF Arr, Careful
    <3>3. pipe'[w].row = r /\ pipe'[w].step = "seerr" /\ pipe'[w].hashes = pipe[w].hashes
      BY <1>0, <3>1, <3>2, Moved
    <3>4. Enough(r, pipe[w].hashes)
      BY <2>2, <3>1, <3>2 DEF Looked, At
    <3>5. Enough(r, handled' \cup pipe'[w].hashes)
      BY <3>3, <3>4, EnoughGrows
    <3>6. QED
      BY <3>3, <3>5
  <2>3. CASE r \notin inArr /\ Enough(r, handled)
    BY <2>1, <2>3, EnoughGrows
  <2>4. CASE r \notin inArr /\ ~Enough(r, handled)
    <3>1. PICK v \in Workers : /\ pipe[v].row = r
                               /\ pipe[v].step \in {"seerr", "qbit"}
                               /\ Enough(r, handled \cup pipe[v].hashes)
      BY <2>4 DEF Followed, WorksOn
    <3>2. CASE v # w
      <4>1. Enough(r, handled' \cup pipe[v].hashes)
        <5>1. handled \cup pipe[v].hashes \subseteq handled' \cup pipe[v].hashes
          BY <2>1
        <5>2. QED
          BY <3>1, <5>1, EnoughGrows
      <4>2. QED
        BY <1>0, <3>1, <3>2, <4>1
    <3>3. CASE v = w
      <4>1. pipe[w].hashes # {}
        <5>1. ASSUME pipe[w].hashes = {} PROVE handled \cup pipe[w].hashes = handled
          BY <5>1
        <5>2. QED
          BY <2>4, <3>1, <3>3, <5>1
      <4>2. /\ pipe'[w].step \in {"seerr", "qbit"}
            /\ handled \cup pipe[w].hashes \subseteq handled' \cup pipe'[w].hashes
        BY <3>1, <3>3, <4>1, Hashes
      <4>3. Enough(r, handled' \cup pipe'[w].hashes)
        BY <3>1, <3>3, <4>2, EnoughGrows
      <4>4. pipe'[w].row = r
        BY <1>3, <3>1, <3>3, <4>2 DEF Steps
      <4>5. QED
        BY <4>2, <4>3, <4>4
    <3>4. QED
      BY <3>2, <3>3
  <2>5. QED
    BY <2>2, <2>3, <2>4
<1>7. QED
  BY <1>4, <1>5, <1>6

(* TorrentsFollow: every download of a deleted row that arr knew was handled,
   whichever of several attempts had found it, while the lookup comes long
   before the entry disappears (TorrentHashStep, ArrStep, QbitStep). *)
THEOREM NoTorrentLeft == Spec => []TorrentsFollow
<1>1. Init => TorrentInv
  BY PipelineConstants DEF Init, TorrentInv, Looked, Kept, Followed, WorksOn, Idle
<1>2. TypeOK /\ TorrentInv /\ [Next]_vars => TorrentInv'
  <2> SUFFICES ASSUME TypeOK, Careful, Looked, Kept, Followed, [Next]_vars
               PROVE  Looked' /\ Kept' /\ Followed'
    BY DEF TorrentInv, Careful
  <2>1. CASE \E w \in Workers, r \in Rows, by \in Origins : Start(w, r, by)
    <3>1. PICK w \in Workers, r \in Rows, by \in Origins : Start(w, r, by)
      BY <2>1
    <3>2. /\ pipe'[w].step = "size"
          /\ pipe[w].step = "idle"
          /\ \A v \in Workers : v # w => pipe'[v] = pipe[v]
          /\ UNCHANGED <<inArr, handled>>
      BY <3>1 DEF Start, TypeOK, services, Busy
    <3>3. \A q \in Rows : status[q] # "deleted" => status'[q] # "deleted"
      BY <3>1 DEF Start, TypeOK
    <3>4. Looked'
      BY <3>2 DEF Looked, Enough, Group
    <3>5. Kept'
      BY <3>2, <3>3, PipelineConstants DEF Kept, WorksOn
    <3>6. Followed'
      BY <3>2 DEF Followed, WorksOn, Enough, Group
    <3>7. QED
      BY <3>4, <3>5, <3>6
  <2>2. CASE \E w \in Workers : PipeStep(w)
    BY <2>2, TorrentStep
  <2>3. CASE Crash
    BY <2>3 DEF Crash, Careful
  <2>4. CASE UNCHANGED vars
    BY <2>4 DEF vars, Looked, Kept, Followed, WorksOn, Enough, Group
  <2>5. QED
    BY <2>1, <2>2, <2>3, <2>4 DEF Next
<1>3. TorrentInv => TorrentsFollow
  <2> SUFFICES ASSUME Careful, Kept, Followed, NEW r \in Stored, status[r] = "deleted",
                      \A w \in Workers : ~WorksOn(w, r)
               PROVE  Enough(r, handled)
    BY DEF TorrentInv, Careful, TorrentsFollow, Enough
  <2>1. r \notin inArr
    BY DEF Kept
  <2>2. QED
    BY <2>1 DEF Followed
<1>4. QED
  BY <1>1, <1>2, <1>3, PipelineTypes, PTL DEF Spec
=============================================================================
