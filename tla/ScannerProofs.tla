---------------------------- MODULE ScannerProofs ----------------------------
(***************************************************************************)
(* What scans, the deletion job and the requests of users do to the queue  *)
(* between them: how often a threshold is announced, when a mark tells the *)
(* truth, and that what a user ignores is not queued again.  For every     *)
(* number of media, libraries and thresholds.                              *)
(*                                                                         *)
(* And what the program asks of other servers: PagedScan, for any media,   *)
(* users, page size and changes of the server under the scan; ArrDelete,   *)
(* for any files, kinds of deletion, number of retries, losses and         *)
(* imports.                                                                *)
(***************************************************************************)
EXTENDS Scanner, PagedScan, ArrDelete, FiniteSetTheorems, TLAPS

Row == [id : Nat, lib : Libraries \cup {Absent}, detected : Nat, delete : Nat,
        status : {"pending", "deleted"}, seen : BOOLEAN,
        marks : SUBSET Thresholds, told : [Thresholds -> 0..3], lost : SUBSET Thresholds,
        crossed : SUBSET Thresholds, covered : SUBSET Thresholds,
        slack : SUBSET {"late", "moved", "unheard"}]
Skip == [lib : Libraries \cup {Absent}, expire : Nat]
Scan == [at : {"server", "libs", "purge", "notify"}, full : BOOLEAN,
         todo : SUBSET Libraries, libs : SUBSET Libraries,
         queued : SUBSET Items, ignored : SUBSET Items]
Entry == [item : Items, delete : Nat]
Loading == [at : {"data"}, lib : Configs, left : SUBSET Items, eligible : {{}}]
Working == [at : {"collect", "insert"}, lib : Configs, left : SUBSET Items,
            eligible : SUBSET Entry, seen : SUBSET Items]
Moving == [at : {"move", "reset"}, lib : Configs, left : SUBSET Items,
           eligible : SUBSET Entry, seen : SUBSET Items,
           item : Items, id : Nat, date : Nat, changed : BOOLEAN]
Marking == [at : {"premark", "detect"}, lib : Configs, left : SUBSET Items,
            eligible : SUBSET Entry, seen : SUBSET Items, entry : Entry, id : Nat]
Task == Loading \cup Working \cup Moving \cup Marking
Reading == [at : {"read"}, left : SUBSET Thresholds]
Message == [at : {"send", "mark"}, left : SUBSET Thresholds, t : Thresholds,
            rows : SUBSET (Items \X Nat)]

QueueTypes ==
    /\ row \in [Items -> Row \cup {Absent}]
    /\ skipped \in [Items -> Skip \cup {Absent}]
    /\ rows \in Nat /\ day \in Nat

ScanTypes ==
    /\ libs \in [Libraries -> Configs \cup {Absent}]
    /\ watched \in SUBSET Items
    /\ run \in Scan \cup {Idle}
    /\ task \in [Libraries -> Task \cup {Idle}]
    /\ sender \in [Senders -> Reading \cup Message \cup {Idle}]

-----------------------------------------------------------------------------
(* Libraries are scanned before the scan notifies. *)
Turns ==
    /\ \A l \in Libraries : task[l].at # "idle" => run.at = "libs" /\ l \in run.todo
    /\ sender["scan"].at # "idle" => run.at = "notify"

(* A row that is queued again is another row. *)
RowIds ==
    /\ \A i \in Items : row[i] # Absent => row[i].id <= rows
    /\ \A s \in Senders : sender[s].at \in {"send", "mark"} =>
          \A p \in sender[s].rows : p[2] <= rows

ScanInv == QueueTypes /\ ScanTypes /\ Turns /\ RowIds

(* The messages on t about the row of i that s has at p: none or one. *)
Held(s, i, t) == InHand(s, i) /\ sender[s].t = t
Count(s, p, i, t) == IF Held(s, i, t) /\ sender[s].at = p THEN 1 ELSE 0
Limit(i, t) == IF t \in row[i].crossed THEN 2 ELSE 1

(* What was announced is marked, or about to be; and a message under way is one
   of those that there may be. *)
Warned(s, z, i, t) ==
    row[i] # Absent =>
        /\ Held(s, i, t) /\ Held(z, i, t) => t \in row[i].crossed
        /\ t \notin row[i].lost =>
              /\ row[i].told[t] + Count(s, "send", i, t) + Count(z, "send", i, t) <= Limit(i, t)
              /\ t \notin row[i].marks =>
                    row[i].told[t] <= Count(s, "mark", i, t) + Count(z, "mark", i, t)

(* What is about to be marked was announced. *)
Honest(i, t) ==
    row[i] # Absent =>
        /\ \A s \in Senders : Held(s, i, t) /\ sender[s].at = "mark" =>
              row[i].told[t] > 0 \/ "late" \in row[i].slack
        /\ row[i].slack = {} /\ t \in row[i].marks =>
              row[i].told[t] > 0 \/ t \in row[i].covered

WarnInv == \A i \in Items, t \in Thresholds : Warned("scan", "deletion", i, t)
TruthInv == \A i \in Items, t \in Thresholds : Honest(i, t)

(* One library is scanned at a time: what it found neither queued nor ignored
   is still neither, but for seasons and series. *)
Alone == ~(run.full /\ Cardinality(run.libs) > 1)
OneTask == \A l, m \in Libraries : task[l].at # "idle" /\ task[m].at # "idle" => l = m
Neither(i) == row[i] = Absent /\ skipped[i] = Absent
Seen == run.queued \cup run.ignored
Fresh(l) ==
    /\ \A i \in Items : i \notin Seen /\ i \notin grouped => Neither(i)
    /\ \A e \in task[l].eligible :
          e.item \notin grouped => e.item \notin Seen \cup task[l].left
    /\ \A e, f \in task[l].eligible : e.item = f.item /\ e.item \notin grouped => e = f
AloneInv ==
    /\ run.at = "server" => run.full
    /\ ~api /\ run.at = "libs" /\ Alone =>
          OneTask /\ \A l \in Libraries : task[l].at # "idle" => Fresh(l)

-----------------------------------------------------------------------------
(* What a step does to one row. *)

LEMMA RowThere ==
    ASSUME QueueTypes, NEW i \in Items, row[i] # Absent
    PROVE  row[i] \in Row
BY DEF QueueTypes

(* The row disappears, or keeps what the thresholds need. *)
Like(r, p) ==
    /\ r.id = p.id /\ r.marks = p.marks /\ r.told = p.told /\ r.lost = p.lost
    /\ r.crossed = p.crossed /\ r.covered = p.covered /\ r.slack = p.slack
Thins ==
    /\ row' \in [Items -> Row \cup {Absent}]
    /\ \A i \in Items : row'[i] = Absent \/ (row[i] # Absent /\ Like(row'[i], row[i]))
    /\ rows' = rows

Born(i, r) ==
    /\ r \in Row /\ row[i] = Absent /\ row' = [row EXCEPT ![i] = r]
    /\ r.id = rows + 1 /\ r.marks = {} /\ r.told = Untold
    /\ rows' = rows + 1

(* One row changes. *)
Turned(i, r) ==
    /\ r \in Row /\ row[i] # Absent /\ row' = [row EXCEPT ![i] = r] /\ r.id = row[i].id
    /\ r.crossed = row[i].crossed /\ rows' = rows
Moves(i, r) ==
    /\ Turned(i, r) /\ r.marks = row[i].marks /\ r.told = Untold
    /\ r.slack = row[i].slack \cup {"moved"} \cup Late(i)
Clears(i, r) ==
    /\ Turned(i, r) /\ r.marks = {} /\ r.told = row[i].told
    /\ r.lost = row[i].lost \cup {t \in row[i].marks : row[i].told[t] > 0}
    /\ r.slack = row[i].slack \cap Late(i)
Premarks(i, r) ==
    /\ Turned(i, r) /\ row[i].marks \subseteq r.marks
    /\ r.told = row[i].told /\ r.lost = row[i].lost
    /\ r.slack = row[i].slack \cup {"unheard"}
Hears(i, r) ==
    /\ Turned(i, r) /\ r.marks = row[i].marks
    /\ r.told = row[i].told /\ r.lost = row[i].lost
    /\ r.marks \subseteq r.covered /\ r.slack = row[i].slack \ {"unheard"}
Rewrites(i, r) == Moves(i, r) \/ Clears(i, r) \/ Premarks(i, r) \/ Hears(i, r)

LEMMA ThinNothing ==
    ASSUME QueueTypes, UNCHANGED <<row, rows>> PROVE Thins
BY DEF QueueTypes, Thins, Like

LEMMA ThinOne ==
    ASSUME QueueTypes, NEW i \in Items, rows' = rows, row' = [row EXCEPT ![i] = Absent]
    PROVE  Thins
BY DEF Thins, Like, QueueTypes

LEMMA RowSeen ==
    ASSUME NEW r \in Row, NEW b \in BOOLEAN
    PROVE  [r EXCEPT !.seen = b] \in Row /\ Like([r EXCEPT !.seen = b], r)
BY DEF Row, Like

LEMMA RowTaken ==
    ASSUME NEW r \in Row
    PROVE  [r EXCEPT !.status = "deleted"] \in Row /\ Like([r EXCEPT !.status = "deleted"], r)
BY DEF Row, Like

LEMMA ThinRefresh ==
    ASSUME QueueTypes, rows' = rows, NEW S,
           row' = [i \in Items |-> IF Pending(i) /\ i \in S
                                   THEN [row[i] EXCEPT !.seen = TRUE] ELSE row[i]]
    PROVE  Thins
<1> DEFINE f(i) == IF Pending(i) /\ i \in S THEN [row[i] EXCEPT !.seen = TRUE] ELSE row[i]
<1>1. row' = [i \in Items |-> f(i)]
  OBVIOUS
<1>2. ASSUME NEW i \in Items
      PROVE  /\ f(i) \in Row \cup {Absent}
             /\ f(i) = Absent \/ (row[i] # Absent /\ Like(f(i), row[i]))
  <2>1. CASE Pending(i) /\ i \in S
    <3>1. row[i] # Absent /\ row[i] \in Row
      BY <2>1, RowThere DEF Pending
    <3>2. [row[i] EXCEPT !.seen = TRUE] \in Row /\ Like([row[i] EXCEPT !.seen = TRUE], row[i])
      BY <3>1, RowSeen
    <3> QED
      BY <2>1, <3>1, <3>2
  <2>2. CASE ~(Pending(i) /\ i \in S)
    BY <2>2 DEF QueueTypes, Like
  <2> QED
    BY <2>1, <2>2
<1> HIDE DEF f
<1> QED
  BY <1>1, <1>2 DEF Thins

LEMMA ThinGone ==
    ASSUME QueueTypes, rows' = rows, NEW S,
           row' = [i \in Items |-> IF i \in S THEN Absent ELSE row[i]]
    PROVE  Thins
BY DEF Thins, Like, QueueTypes

LEMMA ThinRequests ==
    ASSUME QueueTypes,
           \/ \E i \in Items : IgnoreQueued(i) \/ AddIgnored(i) \/ TakeAway(i)
           \/ Cleanup \/ Purge \/ \E p \in check : CheckRow(p)
    PROVE  Thins
<1>1. ASSUME NEW i \in Items, IgnoreQueued(i) \/ AddIgnored(i) PROVE Thins
  BY <1>1, ThinOne DEF IgnoreQueued, AddIgnored
<1>2. ASSUME NEW i \in Items, TakeAway(i) PROVE Thins
  <2>1. row[i] \in Row /\ row[i] # Absent
    BY <1>2, RowThere DEF TakeAway, Pending
  <2>2. row' = [row EXCEPT ![i] = [row[i] EXCEPT !.status = "deleted"]] /\ rows' = rows
    BY <1>2 DEF TakeAway
  <2> QED
    BY <2>1, <2>2, RowTaken DEF Thins, Like, QueueTypes
<1>3. CASE Cleanup
  <2> DEFINE S == {i \in Items : row[i] # Absent /\ row[i].status = "deleted" /\ row[i].detected < day}
  <2>1. row' = [i \in Items |-> IF i \in S THEN Absent ELSE row[i]] /\ rows' = rows
    BY <1>3 DEF Cleanup
  <2> HIDE DEF S
  <2> QED
    BY <2>1, ThinGone
<1>4. ASSUME NEW p, CheckRow(p) PROVE Thins
  <2> DEFINE S == {i \in Items : row[i] # Absent /\ p = <<i, row[i].id>>}
  <2>1. row' = [i \in Items |-> IF i \in S THEN Absent ELSE row[i]] /\ rows' = rows
    BY <1>4 DEF CheckRow
  <2> HIDE DEF S
  <2> QED
    BY <2>1, ThinGone
<1>5. CASE Purge
  <2> DEFINE S == {i \in Items : /\ Pending(i) /\ i \notin Requested
                   /\ row[i].lib # Absent /\ libs[row[i].lib] # Absent /\ libs[row[i].lib].on
                   /\ libs[row[i].lib].seerr}
  <2>1. row' = [i \in Items |-> IF i \in S THEN Absent ELSE row[i]] /\ rows' = rows
    BY <1>5 DEF Purge
  <2> HIDE DEF S
  <2> QED
    BY <2>1, ThinGone
<1> QED
  BY <1>1, <1>2, <1>3, <1>4, <1>5

LEMMA NewRowThere ==
    ASSUME QueueTypes, NEW lib \in Libraries \cup {Absent}, NEW date \in Nat, NEW seen \in BOOLEAN
    PROVE  LET r == NewRow(lib, date, seen)
           IN r \in Row /\ r.id = rows + 1 /\ r.marks = {} /\ r.told = Untold
<1>1. Untold \in [Thresholds -> 0..3]
  BY DEF Untold
<1> QED
  BY <1>1 DEF NewRow, Row, QueueTypes

LEMMA TaskThere ==
    ASSUME ScanTypes, NEW l \in Libraries
    PROVE  /\ task[l].at = "data" => task[l] \in Loading
           /\ task[l].at \in {"collect", "insert"} => task[l] \in Working
           /\ task[l].at \in {"move", "reset"} => task[l] \in Moving
           /\ task[l].at \in {"premark", "detect"} => task[l] \in Marking
BY DEF ScanTypes, Task, Idle, Loading, Working, Moving, Marking

LEMMA InsertBirth ==
    ASSUME QueueTypes, ScanTypes, NEW l \in Libraries, NEW e \in task[l].eligible,
           InsertEntry(l, e)
    PROVE  e \in Entry /\ ((\E r : Born(e.item, r)) \/ UNCHANGED <<row, rows>>)
<1>1. task[l] \in Working
  BY TaskThere DEF InsertEntry
<1>2. e \in Entry /\ e.item \in Items /\ e.delete \in Nat
  BY <1>1 DEF Working, Entry
<1>3. CASE row[e.item] = Absent
  <2> DEFINE seen == e.item \in task[l].seen
             r == NewRow(l, e.delete, seen)
  <2>1. row' = [row EXCEPT ![e.item] = r] /\ rows' = rows + 1
    BY <1>3 DEF InsertEntry
  <2>2. r \in Row /\ r.id = rows + 1 /\ r.marks = {} /\ r.told = Untold
    <3>1. seen \in BOOLEAN
      OBVIOUS
    <3> HIDE DEF seen
    <3> QED
      BY <1>2, <3>1, NewRowThere
  <2> HIDE DEF r
  <2> QED
    BY <1>2, <1>3, <2>1, <2>2 DEF Born
<1>4. CASE row[e.item] # Absent
  BY <1>2, <1>4 DEF InsertEntry
<1> QED
  BY <1>3, <1>4

LEMMA RequeueBirth ==
    ASSUME ScannerConstants, QueueTypes, ScanTypes, NEW i \in Items, RequeueIgnored(i)
    PROVE  (\E r : Born(i, r)) \/ UNCHANGED <<row, rows>>
<1>1. CASE row[i] = Absent
  <2> DEFINE lib == skipped[i].lib
             grace == IF lib # Absent /\ libs[lib] # Absent THEN libs[lib].grace ELSE DefaultGrace
             r == NewRow(lib, day + grace, FALSE)
  <2>1. row' = [row EXCEPT ![i] = r] /\ rows' = rows + 1 /\ skipped[i] # Absent
    BY <1>1 DEF RequeueIgnored
  <2>2. lib \in Libraries \cup {Absent}
    BY <2>1 DEF QueueTypes, Skip
  <2>3. day + grace \in Nat
    <3>1. grace \in Nat
      BY <2>2 DEF ScanTypes, ScannerConstants
    <3> QED
      BY <3>1 DEF QueueTypes
  <2>4. r \in Row /\ r.id = rows + 1 /\ r.marks = {} /\ r.told = Untold
    BY <2>2, <2>3, NewRowThere
  <2> HIDE DEF r
  <2> QED
    BY <1>1, <2>1, <2>4 DEF Born
<1>2. CASE row[i] # Absent
  BY <1>2 DEF RequeueIgnored
<1> QED
  BY <1>1, <1>2

LEMMA LateIsSlack == \A i : Late(i) \subseteq {"late"}
BY DEF Late

LEMMA MoveRewrites ==
    ASSUME QueueTypes, ScanTypes, NEW l \in Libraries, MoveDate(l)
    PROVE  (\E i \in Items : \E r : Moves(i, r)) \/ Thins
<1> DEFINE t == task[l]
           i == t.item
           seen == i \in t.seen
<1>1. t \in Moving /\ rows' = rows
  BY TaskThere DEF MoveDate
<1>2. i \in Items /\ t.date \in Nat
  BY <1>1 DEF Moving
<1>3. CASE row[i] # Absent /\ row[i].id = t.id /\ t.date = row[i].delete
  <2>1. row' = [row EXCEPT ![i] = [row[i] EXCEPT !.seen = seen]]
    BY <1>3 DEF MoveDate
  <2>2. row[i] \in Row /\ seen \in BOOLEAN
    BY <1>2, <1>3, RowThere
  <2> HIDE DEF seen, i
  <2>3. [row[i] EXCEPT !.seen = seen] \in Row /\ Like([row[i] EXCEPT !.seen = seen], row[i])
    BY <2>2, RowSeen
  <2> QED
    BY <1>1, <1>2, <1>3, <2>1, <2>3 DEF Thins, QueueTypes, Like
<1>4. CASE row[i] # Absent /\ row[i].id = t.id /\ t.date # row[i].delete
  <2> DEFINE slack == row[i].slack \cup {"moved"} \cup Late(i)
             r == [row[i] EXCEPT !.delete = t.date, !.told = Untold, !.lost = {},
                                 !.covered = {}, !.slack = slack, !.seen = seen]
  <2>1. row' = [row EXCEPT ![i] = [Moved(i, t.date) EXCEPT !.seen = seen]]
    BY <1>4 DEF MoveDate
  <2>2. row[i] \in Row /\ seen \in BOOLEAN /\ Untold \in [Thresholds -> 0..3]
    BY <1>2, <1>4, RowThere DEF Untold
  <2>3. [Moved(i, t.date) EXCEPT !.seen = seen] = r
    BY <2>2 DEF Moved, Row
  <2>4. slack \subseteq {"late", "moved", "unheard"}
    BY <2>2, LateIsSlack DEF Row
  <2>5. row' = [row EXCEPT ![i] = r]
    BY <2>1, <2>3
  <2> HIDE DEF seen, i, slack
  <2>6. /\ r \in Row /\ r.id = row[i].id /\ r.crossed = row[i].crossed /\ r.marks = row[i].marks
        /\ r.told = Untold /\ r.slack = slack
    BY <1>2, <2>2, <2>4 DEF Row
  <2> HIDE DEF r
  <2> QED
    BY <1>1, <1>2, <1>4, <2>5, <2>6 DEF Moves, Turned, slack
<1>5. CASE ~(row[i] # Absent /\ row[i].id = t.id)
  <2>1. row' = row
    BY <1>5 DEF MoveDate
  <2> QED
    BY <1>1, <2>1, ThinNothing
<1> QED
  BY <1>3, <1>4, <1>5

LEMMA ResetRewrites ==
    ASSUME QueueTypes, ScanTypes, NEW l \in Libraries, ResetMarks(l)
    PROVE  (\E i \in Items : \E r : Clears(i, r)) \/ Thins
<1> DEFINE i == task[l].item
<1>1. task[l] \in Moving /\ rows' = rows
  BY TaskThere DEF ResetMarks
<1>2. i \in Items
  BY <1>1 DEF Moving
<1>3. CASE row[i] # Absent /\ row[i].id = task[l].id
  <2> DEFINE lost == row[i].lost \cup {t \in row[i].marks : row[i].told[t] > 0}
             slack == row[i].slack \cap Late(i)
             r == [row[i] EXCEPT !.marks = {}, !.lost = lost, !.slack = slack]
  <2>1. row' = [row EXCEPT ![i] = r]
    BY <1>3 DEF ResetMarks, Cleared
  <2>2. row[i] \in Row
    BY <1>2, <1>3, RowThere
  <2>3. lost \subseteq Thresholds /\ slack \subseteq {"late", "moved", "unheard"}
    BY <2>2 DEF Row
  <2> HIDE DEF i, lost, slack
  <2>4. /\ r \in Row /\ r.id = row[i].id /\ r.crossed = row[i].crossed /\ r.marks = {}
        /\ r.told = row[i].told /\ r.lost = lost /\ r.slack = slack
    BY <2>2, <2>3 DEF Row
  <2> HIDE DEF r
  <2> QED
    BY <1>1, <1>2, <1>3, <2>1, <2>4 DEF Clears, Turned, lost, slack
<1>4. CASE ~(row[i] # Absent /\ row[i].id = task[l].id)
  <2>1. row' = row
    BY <1>4 DEF ResetMarks
  <2> QED
    BY <1>1, <2>1, ThinNothing
<1> QED
  BY <1>3, <1>4

LEMMA PreMarkRewrites ==
    ASSUME QueueTypes, ScanTypes, NEW l \in Libraries, NEW ok \in BOOLEAN, PreMark(l, ok)
    PROVE  (\E i \in Items : \E r : Premarks(i, r)) \/ Thins
<1> DEFINE i == task[l].entry.item
           met == {t \in Thresholds : task[l].entry.delete <= day + t}
<1>1. task[l] \in Marking /\ rows' = rows
  BY TaskThere DEF PreMark
<1>2. i \in Items /\ met \subseteq Thresholds
  BY <1>1 DEF Marking, Entry
<1>3. CASE row' = row
  BY <1>1, <1>3, ThinNothing
<1>4. CASE /\ row[i] # Absent
           /\ row' = [row EXCEPT ![i].marks = @ \cup met, ![i].slack = @ \cup {"unheard"}]
  <2> DEFINE marks == row[i].marks \cup met
             slack == row[i].slack \cup {"unheard"}
             r == [row[i] EXCEPT !.marks = marks, !.slack = slack]
  <2> HIDE DEF met, i
  <2>1. row[i] \in Row
    BY <1>2, <1>4, RowThere
  <2>2. row' = [row EXCEPT ![i] = r]
    <3>1. [row EXCEPT ![i].marks = @ \cup met] = [row EXCEPT ![i] = [row[i] EXCEPT !.marks = marks]]
      OBVIOUS
    <3> QED
      BY <1>2, <1>4, <2>1, <3>1 DEF QueueTypes
  <2>3. marks \subseteq Thresholds /\ slack \subseteq {"late", "moved", "unheard"}
        /\ row[i].marks \subseteq marks
    BY <1>2, <2>1 DEF Row
  <2> HIDE DEF marks, slack
  <2>4. /\ r \in Row /\ r.id = row[i].id /\ r.crossed = row[i].crossed /\ r.marks = marks
        /\ r.told = row[i].told /\ r.lost = row[i].lost /\ r.slack = slack
    BY <2>1, <2>3 DEF Row
  <2> HIDE DEF r
  <2> QED
    BY <1>1, <1>2, <1>4, <2>2, <2>3, <2>4 DEF Premarks, Turned, slack
<1> QED
  BY <1>3, <1>4 DEF PreMark

LEMMA DetectRewrites ==
    ASSUME QueueTypes, ScanTypes, NEW l \in Libraries, NEW sent \in BOOLEAN, Detect(l, sent)
    PROVE  (\E i \in Items : \E r : Hears(i, r)) \/ Thins
<1> DEFINE i == task[l].entry.item
<1>1. task[l] \in Marking /\ rows' = rows
  BY TaskThere DEF Detect
<1>2. i \in Items
  BY <1>1 DEF Marking, Entry
<1>3. CASE row' = row
  BY <1>1, <1>3, ThinNothing
<1>4. CASE /\ row[i] # Absent
           /\ row' = [row EXCEPT ![i].covered = @ \cup row[i].marks, ![i].slack = @ \ {"unheard"}]
  <2> DEFINE covered == row[i].covered \cup row[i].marks
             slack == row[i].slack \ {"unheard"}
             r == [row[i] EXCEPT !.covered = covered, !.slack = slack]
  <2> HIDE DEF i
  <2>1. row[i] \in Row
    BY <1>2, <1>4, RowThere
  <2>2. row' = [row EXCEPT ![i] = r]
    BY <1>2, <1>4, <2>1 DEF QueueTypes
  <2>3. covered \subseteq Thresholds /\ slack \subseteq {"late", "moved", "unheard"}
        /\ row[i].marks \subseteq covered
    BY <2>1 DEF Row
  <2> HIDE DEF covered, slack
  <2>4. /\ r \in Row /\ r.id = row[i].id /\ r.crossed = row[i].crossed /\ r.marks = row[i].marks
        /\ r.told = row[i].told /\ r.lost = row[i].lost /\ r.covered = covered /\ r.slack = slack
    BY <2>1, <2>3 DEF Row
  <2> HIDE DEF r
  <2> QED
    BY <1>1, <1>2, <1>4, <2>2, <2>3, <2>4 DEF Hears, Turned, slack
<1> QED
  BY <1>3, <1>4 DEF Detect

-----------------------------------------------------------------------------
(* What the calls of _send_pending_notifications do. *)

SenderTypes == [Senders -> Reading \cup Message \cup {Idle}]

LEMMA MessageThere ==
    ASSUME ScanTypes, NEW s \in Senders
    PROVE  /\ sender[s].at \in {"send", "mark"} => sender[s] \in Message
           /\ sender[s].at = "read" => sender[s] \in Reading
           /\ sender[s].at \in {"idle", "read", "send", "mark"}
BY DEF ScanTypes, Reading, Message, Idle

Keeps(i) ==
    /\ row[i] # Absent /\ row'[i] \in Row /\ row'[i].id = row[i].id
    /\ row'[i].covered = row[i].covered /\ row'[i].slack = row[i].slack

(* s goes on, the other sender does not, and no row comes or goes. *)
Talks(s) ==
    /\ sender' \in SenderTypes
    /\ \A z \in Senders : z # s => sender'[z] = sender[z]
    /\ row' \in [Items -> Row \cup {Absent}] /\ rows' = rows
    /\ \A i \in Items : (row[i] = Absent /\ row'[i] = Absent) \/ Keeps(i)

Up(n) == IF n < 3 THEN n + 1 ELSE 3
Add(S, b, t) == IF b THEN S \cup {t} ELSE S

Reads(s, t) ==
    /\ Talks(s) /\ sender[s].at = "read" /\ sender'[s].at = "send" /\ sender'[s].t = t
    /\ sender'[s].rows = {<<i, row[i].id>> : i \in Unmarked(t)}
    /\ \A i \in Items : row[i] # Absent =>
          /\ row'[i].told = row[i].told /\ row'[i].lost = row[i].lost
          /\ row'[i].marks = row[i].marks
          /\ row'[i].crossed = Add(row[i].crossed, Crosses(s, t, i), t)

Says(s) ==
    /\ Talks(s) /\ sender[s].at = "send" /\ sender[s].t \in Thresholds
    /\ \/ /\ sender'[s].at = "mark" /\ sender'[s].t = sender[s].t
          /\ sender'[s].rows = sender[s].rows
          /\ \A i \in Items : row[i] # Absent => row'[i].lost = row[i].lost
       \/ /\ sender'[s] = sender[s]
          /\ \A i \in Items : row[i] # Absent =>
                row'[i].lost = Add(row[i].lost, InHand(s, i), sender[s].t)
    /\ \A i \in Items : row[i] # Absent =>
          /\ row'[i].marks = row[i].marks /\ row'[i].crossed = row[i].crossed
          /\ \A t \in Thresholds :
                row'[i].told[t] = IF InHand(s, i) /\ t = sender[s].t
                                  THEN Up(row[i].told[t]) ELSE row[i].told[t]

Notes(s) ==
    /\ Talks(s) /\ sender[s].at = "mark" /\ sender'[s].at = "read"
    /\ \A i \in Items : row[i] # Absent =>
          /\ row'[i].told = row[i].told /\ row'[i].lost = row[i].lost
          /\ row'[i].crossed = row[i].crossed
          /\ row'[i].marks = Add(row[i].marks, InHand(s, i), sender[s].t)

Stops(s) ==
    /\ Talks(s) /\ sender'[s].at \in {"read", "idle"}
    /\ \A i \in Items : row[i] # Absent =>
          /\ row'[i].told = row[i].told /\ row'[i].marks = row[i].marks
          /\ row'[i].crossed = row[i].crossed
          /\ row'[i].lost = Add(row[i].lost, sender[s].at = "mark" /\ InHand(s, i), sender[s].t)

LEMMA RowTold ==
    ASSUME NEW r \in Row, NEW t \in Thresholds
    PROVE  LET q == [r EXCEPT !.told[t] = IF @ < 3 THEN @ + 1 ELSE 3]
           IN /\ q \in Row /\ q.id = r.id /\ q.covered = r.covered /\ q.slack = r.slack
              /\ q.marks = r.marks /\ q.lost = r.lost /\ q.crossed = r.crossed
              /\ \A u \in Thresholds : q.told[u] = IF u = t THEN Up(r.told[u]) ELSE r.told[u]
<1> DEFINE n == IF r.told[t] < 3 THEN r.told[t] + 1 ELSE 3
           f == [r.told EXCEPT ![t] = n]
           q == [r EXCEPT !.told = f]
<1>1. r.told \in [Thresholds -> 0..3]
  BY DEF Row
<1>2. n \in 0..3 /\ n = Up(r.told[t])
  BY <1>1 DEF Up
<1> HIDE DEF n
<1>3. f \in [Thresholds -> 0..3] /\ \A u \in Thresholds : f[u] = IF u = t THEN Up(r.told[u]) ELSE r.told[u]
  BY <1>1, <1>2
<1>4. q = [r EXCEPT !.told[t] = IF @ < 3 THEN @ + 1 ELSE 3]
  BY DEF Row, n
<1> HIDE DEF f
<1>5. /\ q \in Row /\ q.id = r.id /\ q.covered = r.covered /\ q.slack = r.slack
      /\ q.marks = r.marks /\ q.lost = r.lost /\ q.crossed = r.crossed /\ q.told = f
  BY <1>3 DEF Row
<1> HIDE DEF q
<1> QED
  BY <1>3, <1>4, <1>5

LEMMA RowLost ==
    ASSUME NEW r \in Row, NEW t \in Thresholds
    PROVE  LET q == [r EXCEPT !.lost = @ \cup {t}]
           IN /\ q \in Row /\ q.id = r.id /\ q.covered = r.covered /\ q.slack = r.slack
              /\ q.told = r.told /\ q.marks = r.marks /\ q.crossed = r.crossed
              /\ q.lost = r.lost \cup {t}
BY DEF Row

LEMMA RowCrossed ==
    ASSUME NEW r \in Row, NEW t \in Thresholds
    PROVE  LET q == [r EXCEPT !.crossed = @ \cup {t}]
           IN /\ q \in Row /\ q.id = r.id /\ q.covered = r.covered /\ q.slack = r.slack
              /\ q.told = r.told /\ q.marks = r.marks /\ q.lost = r.lost
              /\ q.crossed = r.crossed \cup {t}
BY DEF Row

LEMMA RowMarked ==
    ASSUME NEW r \in Row, NEW t \in Thresholds
    PROVE  LET q == [r EXCEPT !.marks = @ \cup {t}]
           IN /\ q \in Row /\ q.id = r.id /\ q.covered = r.covered /\ q.slack = r.slack
              /\ q.told = r.told /\ q.lost = r.lost /\ q.crossed = r.crossed
              /\ q.marks = r.marks \cup {t}
BY DEF Row

LEMMA HandThere ==
    ASSUME QueueTypes, ScanTypes, NEW s \in Senders, NEW i \in Items, InHand(s, i)
    PROVE  row[i] # Absent /\ row[i] \in Row /\ sender[s] \in Message /\ sender[s].t \in Thresholds
<1>1. row[i] # Absent /\ sender[s].at \in {"send", "mark"}
  BY DEF InHand
<1> QED
  BY <1>1, RowThere, MessageThere DEF Message

LEMMA CutRows ==
    ASSUME QueueTypes, ScanTypes, NEW s \in Senders, CutShort(s), rows' = rows,
           NEW m \in Reading \cup {Idle}, sender' = [sender EXCEPT ![s] = m]
    PROVE  Stops(s)
<1> DEFINE c(i) == sender[s].at = "mark" /\ InHand(s, i)
           f(i) == IF c(i) THEN [row[i] EXCEPT !.lost = @ \cup {sender[s].t}] ELSE row[i]
<1>1. row' = [i \in Items |-> f(i)]
  BY DEF CutShort
<1>2. ASSUME NEW i \in Items, c(i)
      PROVE  /\ row[i] # Absent /\ f(i) \in Row /\ f(i).id = row[i].id
             /\ f(i).covered = row[i].covered /\ f(i).slack = row[i].slack
             /\ f(i).told = row[i].told /\ f(i).marks = row[i].marks
             /\ f(i).crossed = row[i].crossed /\ f(i).lost = row[i].lost \cup {sender[s].t}
  <2>1. row[i] # Absent /\ row[i] \in Row /\ sender[s].t \in Thresholds
    BY <1>2, HandThere
  <2>2. f(i) = [row[i] EXCEPT !.lost = @ \cup {sender[s].t}]
    BY <1>2
  <2> HIDE DEF f
  <2> QED
    BY <2>1, <2>2, RowLost
<1>3. ASSUME NEW i \in Items, ~c(i) PROVE f(i) = row[i]
  BY <1>3
<1>4. \A i \in Items : row'[i] = f(i)
  BY <1>1
<1>5. \A i \in Items : c(i) <=> (sender[s].at = "mark" /\ InHand(s, i))
  OBVIOUS
<1> HIDE DEF c, f
<1>6. row' \in [Items -> Row \cup {Absent}]
  BY <1>1, <1>2, <1>3 DEF QueueTypes
<1>7. \A i \in Items : (row[i] = Absent /\ row'[i] = Absent) \/ Keeps(i)
  BY <1>2, <1>3, <1>4, RowThere DEF Keeps
<1>8. /\ sender' \in SenderTypes /\ sender'[s] = m /\ m.at \in {"read", "idle"}
      /\ \A z \in Senders : z # s => sender'[z] = sender[z]
  BY DEF ScanTypes, SenderTypes, Reading, Idle
<1>9. Talks(s)
  BY <1>6, <1>7, <1>8 DEF Talks
<1>10. ASSUME NEW i \in Items, row[i] # Absent
       PROVE  /\ row'[i].told = row[i].told /\ row'[i].marks = row[i].marks
              /\ row'[i].crossed = row[i].crossed
              /\ row'[i].lost = Add(row[i].lost, c(i), sender[s].t)
  <2>1. CASE c(i)
    BY <1>2, <1>4, <2>1 DEF Add
  <2>2. CASE ~c(i)
    BY <1>3, <1>4, <2>2 DEF Add
  <2>3. QED
    BY <2>1, <2>2
<1>11. \A i \in Items : row[i] # Absent =>
          row'[i].lost = Add(row[i].lost, sender[s].at = "mark" /\ InHand(s, i), sender[s].t)
  BY <1>10 DEF c
<1> QED
  BY <1>8, <1>9, <1>10, <1>11 DEF Stops

LEMMA StillRows ==
    ASSUME QueueTypes, ScanTypes, NEW s \in Senders, UNCHANGED <<row, rows>>,
           sender[s].at # "mark",
           NEW m \in Reading \cup {Idle}, sender' = [sender EXCEPT ![s] = m]
    PROVE  Stops(s)
<1>1. /\ sender' \in SenderTypes /\ sender'[s] = m /\ m.at \in {"read", "idle"}
      /\ \A z \in Senders : z # s => sender'[z] = sender[z]
  BY DEF ScanTypes, SenderTypes, Reading, Idle
<1>2. \A i \in Items : (row[i] = Absent /\ row'[i] = Absent) \/ Keeps(i)
  BY RowThere DEF Keeps
<1> QED
  BY <1>1, <1>2 DEF Stops, Talks, Add, QueueTypes

LEMMA ReadTalks ==
    ASSUME QueueTypes, ScanTypes, NEW s \in Senders, NEW t \in Thresholds, ReadThreshold(s, t)
    PROVE  Reads(s, t) \/ Stops(s)
<1> DEFINE c(i) == Crosses(s, t, i)
           f(i) == IF c(i) THEN [row[i] EXCEPT !.crossed = @ \cup {t}] ELSE row[i]
           ps == {<<i, row[i].id>> : i \in Unmarked(t)}
           m == [at |-> "send", left |-> sender[s].left \ {t}, t |-> t, rows |-> ps]
           n == [at |-> "read", left |-> sender[s].left \ {t}]
<1>1. /\ row' = [i \in Items |-> f(i)] /\ rows' = rows /\ sender[s].at = "read"
      /\ sender' = [sender EXCEPT ![s] = IF Unmarked(t) = {} THEN n ELSE m]
  BY DEF ReadThreshold
<1>2. ASSUME NEW i \in Items, c(i)
      PROVE  /\ row[i] # Absent /\ f(i) \in Row /\ f(i).id = row[i].id
             /\ f(i).covered = row[i].covered /\ f(i).slack = row[i].slack
             /\ f(i).told = row[i].told /\ f(i).marks = row[i].marks
             /\ f(i).lost = row[i].lost /\ f(i).crossed = row[i].crossed \cup {t}
  <2>1. row[i] # Absent /\ row[i] \in Row
    BY <1>2, RowThere DEF Crosses, Unmarked, Pending
  <2>2. f(i) = [row[i] EXCEPT !.crossed = @ \cup {t}]
    BY <1>2
  <2> HIDE DEF f
  <2> QED
    BY <2>1, <2>2, RowCrossed
<1>3. ASSUME NEW i \in Items, ~c(i) PROVE f(i) = row[i]
  BY <1>3
<1>4. \A i \in Items : row'[i] = f(i)
  BY <1>1
<1>5. \A i \in Items : c(i) <=> Crosses(s, t, i)
  OBVIOUS
<1>6. \A i \in Items : c(i) => i \in Unmarked(t)
  BY DEF Crosses
<1> HIDE DEF c, f
<1>7. row' \in [Items -> Row \cup {Absent}]
  BY <1>1, <1>2, <1>3 DEF QueueTypes
<1>8. \A i \in Items : (row[i] = Absent /\ row'[i] = Absent) \/ Keeps(i)
  BY <1>2, <1>3, <1>4, RowThere DEF Keeps
<1>9. sender[s].left \subseteq Thresholds
  BY <1>1, MessageThere DEF Reading
<1>10. CASE Unmarked(t) = {}
  <2>1. row' = row
    BY <1>1, <1>3, <1>6, <1>10 DEF QueueTypes
  <2>2. n \in Reading /\ sender' = [sender EXCEPT ![s] = n]
    BY <1>1, <1>9, <1>10 DEF Reading
  <2> QED
    BY <1>1, <2>1, <2>2, StillRows
<1>11. CASE Unmarked(t) # {}
  <2>1. ps \subseteq Items \X Nat
    <3>1. \A i \in Unmarked(t) : i \in Items /\ row[i].id \in Nat
      BY RowThere DEF Unmarked, Pending, Row
    <3> QED
      BY <3>1
  <2>2. m.at = "send" /\ m.t = t /\ m.rows = ps
    OBVIOUS
  <2>3. m \in Message
    <3> HIDE DEF ps
    <3> QED
      BY <1>9, <2>1 DEF Message
  <2> HIDE DEF m, ps
  <2>4. /\ sender' \in SenderTypes /\ sender'[s] = m
        /\ \A z \in Senders : z # s => sender'[z] = sender[z]
    BY <1>1, <1>11, <2>3 DEF ScanTypes, SenderTypes
  <2>5. Talks(s)
    BY <1>1, <1>7, <1>8, <2>4 DEF Talks
  <2>6. \A i \in Items : row[i] # Absent =>
          /\ row'[i].told = row[i].told /\ row'[i].lost = row[i].lost
          /\ row'[i].marks = row[i].marks
          /\ row'[i].crossed = Add(row[i].crossed, Crosses(s, t, i), t)
    BY <1>2, <1>3, <1>4, <1>5 DEF Add
  <2> QED
    BY <1>1, <2>2, <2>4, <2>5, <2>6 DEF Reads, ps
<1> QED
  BY <1>10, <1>11

LEMMA SendTalks ==
    ASSUME QueueTypes, ScanTypes, NEW s \in Senders, SendThreshold(s) PROVE Says(s)
<1> DEFINE c(i) == InHand(s, i)
           f(i) == IF c(i) THEN Told(i, sender[s].t) ELSE row[i]
           m == [sender[s] EXCEPT !.at = "mark"]
<1>1. /\ row' = [i \in Items |-> f(i)] /\ rows' = rows /\ sender[s].at = "send"
      /\ sender' = [sender EXCEPT ![s] = m]
  BY DEF SendThreshold
<1>2. ASSUME NEW i \in Items, c(i)
      PROVE  /\ row[i] # Absent /\ f(i) \in Row /\ f(i).id = row[i].id
             /\ f(i).covered = row[i].covered /\ f(i).slack = row[i].slack
             /\ f(i).marks = row[i].marks /\ f(i).lost = row[i].lost
             /\ f(i).crossed = row[i].crossed
             /\ \A t \in Thresholds : f(i).told[t] = IF t = sender[s].t THEN Up(row[i].told[t])
                                                     ELSE row[i].told[t]
  <2>1. row[i] # Absent /\ row[i] \in Row /\ sender[s].t \in Thresholds
    BY <1>2, HandThere
  <2>2. f(i) = [row[i] EXCEPT !.told[sender[s].t] = IF @ < 3 THEN @ + 1 ELSE 3]
    BY <1>2 DEF Told
  <2> HIDE DEF f
  <2> QED
    BY <2>1, <2>2, RowTold
<1>3. ASSUME NEW i \in Items, ~c(i) PROVE f(i) = row[i]
  BY <1>3
<1>4. \A i \in Items : row'[i] = f(i)
  BY <1>1
<1>5. \A i \in Items : c(i) <=> InHand(s, i)
  OBVIOUS
<1> HIDE DEF c, f
<1>6. row' \in [Items -> Row \cup {Absent}]
  BY <1>1, <1>2, <1>3 DEF QueueTypes
<1>7. \A i \in Items : (row[i] = Absent /\ row'[i] = Absent) \/ Keeps(i)
  BY <1>2, <1>3, <1>4, RowThere DEF Keeps
<1>8. sender[s] \in Message /\ sender[s].t \in Thresholds
  BY <1>1, MessageThere DEF Message
<1>9. m \in Message /\ m.at = "mark" /\ m.t = sender[s].t /\ m.rows = sender[s].rows
  BY <1>8 DEF Message
<1> HIDE DEF m
<1>10. /\ sender' \in SenderTypes /\ sender'[s] = m
       /\ \A z \in Senders : z # s => sender'[z] = sender[z]
  BY <1>1, <1>9 DEF ScanTypes, SenderTypes
<1>11. Talks(s)
  BY <1>1, <1>6, <1>7, <1>10 DEF Talks
<1>12. \A i \in Items : row[i] # Absent =>
          /\ row'[i].marks = row[i].marks /\ row'[i].crossed = row[i].crossed
          /\ row'[i].lost = row[i].lost
          /\ \A t \in Thresholds :
                row'[i].told[t] = IF InHand(s, i) /\ t = sender[s].t
                                  THEN Up(row[i].told[t]) ELSE row[i].told[t]
  BY <1>2, <1>3, <1>4, <1>5
<1> QED
  BY <1>1, <1>8, <1>9, <1>10, <1>11, <1>12 DEF Says

LEMMA RepeatTalks ==
    ASSUME QueueTypes, ScanTypes, NEW s \in Senders, Unanswered(s) PROVE Says(s)
<1> DEFINE c(i) == InHand(s, i)
           f(i) == IF c(i) THEN [Told(i, sender[s].t) EXCEPT !.lost = @ \cup {sender[s].t}]
                   ELSE row[i]
<1>1. /\ row' = [i \in Items |-> f(i)] /\ rows' = rows /\ sender[s].at = "send"
      /\ sender' = sender
  BY DEF Unanswered
<1>2. ASSUME NEW i \in Items, c(i)
      PROVE  /\ row[i] # Absent /\ f(i) \in Row /\ f(i).id = row[i].id
             /\ f(i).covered = row[i].covered /\ f(i).slack = row[i].slack
             /\ f(i).marks = row[i].marks /\ f(i).lost = row[i].lost \cup {sender[s].t}
             /\ f(i).crossed = row[i].crossed
             /\ \A t \in Thresholds : f(i).told[t] = IF t = sender[s].t THEN Up(row[i].told[t])
                                                     ELSE row[i].told[t]
  <2>1. row[i] # Absent /\ row[i] \in Row /\ sender[s].t \in Thresholds
    BY <1>2, HandThere
  <2> DEFINE q == [row[i] EXCEPT !.told[sender[s].t] = IF @ < 3 THEN @ + 1 ELSE 3]
  <2>2. /\ q \in Row /\ q.id = row[i].id /\ q.covered = row[i].covered /\ q.slack = row[i].slack
        /\ q.marks = row[i].marks /\ q.lost = row[i].lost /\ q.crossed = row[i].crossed
        /\ \A t \in Thresholds : q.told[t] = IF t = sender[s].t THEN Up(row[i].told[t])
                                             ELSE row[i].told[t]
    BY <2>1, RowTold
  <2>3. f(i) = [q EXCEPT !.lost = @ \cup {sender[s].t}]
    BY <1>2 DEF Told
  <2> HIDE DEF f, q
  <2>4. /\ f(i) \in Row /\ f(i).id = q.id /\ f(i).covered = q.covered /\ f(i).slack = q.slack
        /\ f(i).marks = q.marks /\ f(i).lost = q.lost \cup {sender[s].t}
        /\ f(i).crossed = q.crossed /\ f(i).told = q.told
    BY <2>1, <2>2, <2>3, RowLost
  <2> QED
    BY <2>1, <2>2, <2>4
<1>3. ASSUME NEW i \in Items, ~c(i) PROVE f(i) = row[i]
  BY <1>3
<1>4. \A i \in Items : row'[i] = f(i)
  BY <1>1
<1>5. \A i \in Items : c(i) <=> InHand(s, i)
  OBVIOUS
<1> HIDE DEF c, f
<1>6. row' \in [Items -> Row \cup {Absent}]
  BY <1>1, <1>2, <1>3 DEF QueueTypes
<1>7. \A i \in Items : (row[i] = Absent /\ row'[i] = Absent) \/ Keeps(i)
  BY <1>2, <1>3, <1>4, RowThere DEF Keeps
<1>8. sender[s].t \in Thresholds
  BY <1>1, MessageThere DEF Message
<1>9. Talks(s)
  BY <1>1, <1>6, <1>7 DEF Talks, ScanTypes, SenderTypes
<1>10. \A i \in Items : row[i] # Absent =>
          /\ row'[i].marks = row[i].marks /\ row'[i].crossed = row[i].crossed
          /\ row'[i].lost = Add(row[i].lost, InHand(s, i), sender[s].t)
          /\ \A t \in Thresholds :
                row'[i].told[t] = IF InHand(s, i) /\ t = sender[s].t
                                  THEN Up(row[i].told[t]) ELSE row[i].told[t]
  BY <1>2, <1>3, <1>4, <1>5 DEF Add
<1> QED
  BY <1>1, <1>8, <1>9, <1>10 DEF Says

LEMMA MarkTalks ==
    ASSUME QueueTypes, ScanTypes, NEW s \in Senders, MarkThreshold(s) PROVE Notes(s)
<1> DEFINE c(i) == InHand(s, i)
           f(i) == IF c(i) THEN [row[i] EXCEPT !.marks = @ \cup {sender[s].t}] ELSE row[i]
           m == [at |-> "read", left |-> sender[s].left]
<1>1. /\ row' = [i \in Items |-> f(i)] /\ rows' = rows /\ sender[s].at = "mark"
      /\ sender' = [sender EXCEPT ![s] = m]
  BY DEF MarkThreshold
<1>2. ASSUME NEW i \in Items, c(i)
      PROVE  /\ row[i] # Absent /\ f(i) \in Row /\ f(i).id = row[i].id
             /\ f(i).covered = row[i].covered /\ f(i).slack = row[i].slack
             /\ f(i).told = row[i].told /\ f(i).lost = row[i].lost
             /\ f(i).crossed = row[i].crossed /\ f(i).marks = row[i].marks \cup {sender[s].t}
  <2>1. row[i] # Absent /\ row[i] \in Row /\ sender[s].t \in Thresholds
    BY <1>2, HandThere
  <2>2. f(i) = [row[i] EXCEPT !.marks = @ \cup {sender[s].t}]
    BY <1>2
  <2> HIDE DEF f
  <2> QED
    BY <2>1, <2>2, RowMarked
<1>3. ASSUME NEW i \in Items, ~c(i) PROVE f(i) = row[i]
  BY <1>3
<1>4. \A i \in Items : row'[i] = f(i)
  BY <1>1
<1>5. \A i \in Items : c(i) <=> InHand(s, i)
  OBVIOUS
<1> HIDE DEF c, f
<1>6. row' \in [Items -> Row \cup {Absent}]
  BY <1>1, <1>2, <1>3 DEF QueueTypes
<1>7. \A i \in Items : (row[i] = Absent /\ row'[i] = Absent) \/ Keeps(i)
  BY <1>2, <1>3, <1>4, RowThere DEF Keeps
<1>8. m \in Reading /\ m.at = "read"
  BY <1>1, MessageThere DEF Message, Reading
<1> HIDE DEF m
<1>9. /\ sender' \in SenderTypes /\ sender'[s] = m
      /\ \A z \in Senders : z # s => sender'[z] = sender[z]
  BY <1>1, <1>8 DEF ScanTypes, SenderTypes
<1>10. Talks(s)
  BY <1>1, <1>6, <1>7, <1>9 DEF Talks
<1> QED
  BY <1>1, <1>2, <1>3, <1>4, <1>5, <1>8, <1>9, <1>10 DEF Notes, Add

LEMMA StopTalks ==
    ASSUME QueueTypes, ScanTypes, NEW s \in Senders,
           \/ SendFails(s) \/ MarkFails(s) \/ NotifyEnds(s)
           \/ s = "deletion" /\ (DeletionNotifies \/ JobTimesOut)
           \/ s = "scan" /\ ScanTimesOut
    PROVE  Stops(s)
<1>1. CASE SendFails(s)
  <2> DEFINE m == [at |-> "read", left |-> sender[s].left]
  <2>1. /\ sender' = [sender EXCEPT ![s] = m] /\ UNCHANGED <<row, rows>>
        /\ sender[s].at = "send"
    BY <1>1 DEF SendFails
  <2>2. m \in Reading
    BY <2>1, MessageThere DEF Message, Reading
  <2> QED
    BY <2>1, <2>2, StillRows
<1>2. CASE MarkFails(s)
  <2> DEFINE m == [at |-> "read", left |-> {}]
  <2>1. sender' = [sender EXCEPT ![s] = m] /\ CutShort(s) /\ rows' = rows
    BY <1>2 DEF MarkFails
  <2>2. m \in Reading
    BY DEF Reading
  <2> QED
    BY <2>1, <2>2, CutRows
<1>3. CASE NotifyEnds(s)
  <2>1. /\ sender' = [sender EXCEPT ![s] = Idle] /\ UNCHANGED <<row, rows>>
        /\ sender[s].at = "read"
    BY <1>3 DEF NotifyEnds
  <2> QED
    BY <2>1, StillRows
<1>4. CASE s = "deletion" /\ DeletionNotifies
  <2> DEFINE m == [at |-> "read", left |-> Thresholds]
  <2>1. /\ sender' = [sender EXCEPT ![s] = m] /\ UNCHANGED <<row, rows>>
        /\ sender[s].at = "idle"
    BY <1>4 DEF DeletionNotifies
  <2>2. m \in Reading
    BY DEF Reading
  <2> QED
    BY <2>1, <2>2, StillRows
<1>5. CASE s = "deletion" /\ JobTimesOut
  <2>1. sender' = [sender EXCEPT ![s] = Idle] /\ CutShort(s) /\ rows' = rows
    BY <1>5 DEF JobTimesOut
  <2> QED
    BY <2>1, CutRows
<1>6. CASE s = "scan" /\ ScanTimesOut
  <2>1. sender' = [sender EXCEPT ![s] = Idle] /\ CutShort(s) /\ rows' = rows
    BY <1>6 DEF ScanTimesOut
  <2> QED
    BY <2>1, CutRows
<1> QED
  BY <1>1, <1>2, <1>3, <1>4, <1>5, <1>6

-----------------------------------------------------------------------------
(* What a step does to the queue and to the messages together. *)

(* A row appears where a scan inserts what it found, or where a media comes
   off the ignored list. *)
Enters(i) ==
    \/ RequeueIgnored(i)
    \/ \E l \in Libraries : \E e \in task[l].eligible :
          task[l].at = "insert" /\ InsertEntry(l, e) /\ e.item = i

Thinning ==
    /\ Thins
    /\ \/ UNCHANGED sender
       \/ /\ sender["scan"].at = "idle"
          /\ sender' = [sender EXCEPT !["scan"] = [at |-> "read", left |-> Thresholds]]
Birth == UNCHANGED sender /\ \E i \in Items : Enters(i) /\ \E r : Born(i, r)
Rewriting == UNCHANGED sender /\ \E i \in Items : \E r : Rewrites(i, r)
Talking == \E s \in Senders : \/ \E t \in Thresholds : Reads(s, t)
                              \/ Says(s) \/ Notes(s) \/ Stops(s)

Effect == Thinning \/ Birth \/ Rewriting \/ Talking

LEMMA TaskEffects ==
    ASSUME QueueTypes, ScanTypes, NEW l \in Libraries,
           \/ \E plays \in {{}, watched} : LoadData(l, plays)
           \/ \E i \in Items : Collect(l, i)
           \/ MoveDate(l) \/ ResetMarks(l) \/ RescheduleFails(l)
           \/ \E ok \in BOOLEAN : RefreshGroups(l, ok) \/ PreMark(l, ok) \/ Detect(l, ok)
           \/ \E e \in task[l].eligible : PassOver(l, e)
           \/ task[l].at = "insert" /\ \E e \in task[l].eligible : InsertEntry(l, e)
    PROVE  Effect
<1>1. ASSUME Thins \/ UNCHANGED <<row, rows>>, UNCHANGED sender PROVE Effect
  BY <1>1, ThinNothing DEF Effect, Thinning
<1>2. ASSUME NEW plays, LoadData(l, plays) PROVE Effect
  <2> DEFINE S == plays \ grouped
  <2>1. /\ row' = [i \in Items |-> IF Pending(i) /\ i \in S
                                   THEN [row[i] EXCEPT !.seen = TRUE] ELSE row[i]]
        /\ rows' = rows /\ UNCHANGED sender
    BY <1>2 DEF LoadData
  <2> HIDE DEF S
  <2>2. Thins
    BY <2>1, ThinRefresh
  <2> QED
    BY <1>1, <2>1, <2>2
<1>3. ASSUME NEW ok \in BOOLEAN, RefreshGroups(l, ok) PROVE Effect
  <2> DEFINE S == IF ok THEN grouped \cap task[l].seen ELSE {}
  <2>1. /\ row' = [i \in Items |-> IF Pending(i) /\ i \in S
                                   THEN [row[i] EXCEPT !.seen = TRUE] ELSE row[i]]
        /\ rows' = rows /\ UNCHANGED sender
    BY <1>3 DEF RefreshGroups
  <2> HIDE DEF S
  <2>2. Thins
    BY <2>1, ThinRefresh
  <2> QED
    BY <1>1, <2>1, <2>2
<1>4. ASSUME \E i \in Items : \E r : Rewrites(i, r), UNCHANGED sender PROVE Effect
  BY <1>4 DEF Effect, Rewriting
<1>5. CASE MoveDate(l)
  BY <1>1, <1>4, <1>5, MoveRewrites DEF MoveDate, Rewrites
<1>6. CASE ResetMarks(l)
  BY <1>1, <1>4, <1>6, ResetRewrites DEF ResetMarks, Rewrites
<1>7. ASSUME NEW ok \in BOOLEAN, PreMark(l, ok) PROVE Effect
  BY <1>1, <1>4, <1>7, PreMarkRewrites DEF PreMark, Rewrites
<1>8. ASSUME NEW ok \in BOOLEAN, Detect(l, ok) PROVE Effect
  BY <1>1, <1>4, <1>8, DetectRewrites DEF Detect, Rewrites
<1>9. ASSUME NEW e \in task[l].eligible, task[l].at = "insert", InsertEntry(l, e) PROVE Effect
  <2>1. e.item \in Items /\ ((\E r : Born(e.item, r)) \/ UNCHANGED <<row, rows>>)
    BY <1>9, InsertBirth DEF Entry
  <2>2. UNCHANGED sender /\ Enters(e.item)
    BY <1>9 DEF InsertEntry, Enters
  <2> QED
    BY <1>1, <2>1, <2>2 DEF Effect, Birth
<1>10. CASE \/ \E i \in Items : Collect(l, i)
            \/ RescheduleFails(l)
            \/ \E e \in task[l].eligible : PassOver(l, e)
  <2>1. UNCHANGED <<row, rows, sender>>
    BY <1>10 DEF Collect, RescheduleFails, PassOver
  <2> QED
    BY <1>1, <2>1
<1> QED
  BY <1>2, <1>3, <1>5, <1>6, <1>7, <1>8, <1>9, <1>10

(* A step of the scan of library l. *)
TaskStep(l) ==
    \/ \E plays \in {{}, watched} : LoadData(l, plays)
    \/ \E i \in Items : Collect(l, i)
    \/ MoveDate(l) \/ ResetMarks(l) \/ RescheduleFails(l)
    \/ \E ok \in BOOLEAN : RefreshGroups(l, ok) \/ PreMark(l, ok) \/ Detect(l, ok)
    \/ \E e \in task[l].eligible : PassOver(l, e)
    \/ task[l].at = "insert" /\ \E e \in task[l].eligible : InsertEntry(l, e)

(* A step of a call of _send_pending_notifications, but for its beginning. *)
Talk(s) ==
    \/ \E t \in Thresholds : ReadThreshold(s, t)
    \/ SendThreshold(s) \/ Unanswered(s) \/ SendFails(s)
    \/ MarkThreshold(s) \/ MarkFails(s) \/ NotifyEnds(s)

LEMMA ScanActions ==
    ASSUME ScanNext
    PROVE  \/ RunScan \/ (\E ls \in SUBSET Libraries \ {{}} : RunScanLibraries(ls))
           \/ CachesFail \/ (\E l \in Libraries : LoadFails(l)) \/ ScanTimesOut
           \/ (\E u \in BOOLEAN : ScanServer(u))
           \/ (\E l \in Libraries, u \in BOOLEAN : ScanOne(l, u))
           \/ (\E l \in Libraries : TaskStep(l) \/ LibraryDone(l))
           \/ LibrariesDone \/ Purge
           \/ DeletionNotifies \/ JobTimesOut \/ (\E s \in Senders : Talk(s)) \/ Requests
           \/ (\E l \in Libraries : CheckReads(l))
           \/ (\E p \in check : CheckRow(p))
<1>1. CASE Steps
  BY <1>1 DEF Steps, TaskStep
<1>2. CASE Sends
  BY <1>2 DEF Sends, Talk
<1> QED
  BY <1>1, <1>2 DEF ScanNext

LEMMA Effects ==
    ASSUME ScannerConstants, QueueTypes, ScanTypes, Turns, [ScanNext]_scanVars
    PROVE  Effect
<1>1. CASE \/ UNCHANGED scanVars
           \/ RunScan \/ \E ls \in SUBSET Libraries \ {{}} : RunScanLibraries(ls)
           \/ CachesFail \/ (\E l \in Libraries : LoadFails(l))
           \/ \E u \in BOOLEAN : ScanServer(u)
           \/ \E l \in Libraries, u \in BOOLEAN : ScanOne(l, u)
           \/ \E l \in Libraries : LibraryDone(l)
           \/ \E i \in Items : RemoveIgnored(i) \/ Play(i)
           \/ \E l \in Libraries, c \in Configs \cup {Absent} : SaveLibrary(l, c)
           \/ Tick \/ \E l \in Libraries : CheckReads(l)
  <2>1. UNCHANGED <<row, rows, sender>>
    BY <1>1 DEF scanVars, RunScan, RunScanLibraries, CachesFail, LoadFails, ScanServer, ScanOne,
                LibraryDone, RemoveIgnored, Play, SaveLibrary, Tick, CheckReads
  <2> QED
    BY <2>1, ThinNothing DEF Effect, Thinning
<1>2. ASSUME NEW l \in Libraries, TaskStep(l) PROVE Effect
  BY <1>2, TaskEffects DEF TaskStep
<1>3. CASE Purge \/ LibrariesDone
  <2>1. Thins
    BY <1>3, ThinRequests, ThinNothing DEF LibrariesDone
  <2>2. sender["scan"].at = "idle"
    BY <1>3 DEF Turns, Purge, LibrariesDone
  <2> QED
    BY <1>3, <2>1, <2>2 DEF Effect, Thinning, Purge, LibrariesDone, Notify
<1>4. CASE \/ \E i \in Items : IgnoreQueued(i) \/ AddIgnored(i) \/ TakeAway(i)
           \/ Cleanup
           \/ \E p \in check : CheckRow(p)
  <2>1. Thins
    BY <1>4, ThinRequests
  <2>2. UNCHANGED sender
    BY <1>4 DEF IgnoreQueued, AddIgnored, TakeAway, Cleanup, CheckRow
  <2> QED
    BY <2>1, <2>2 DEF Effect, Thinning
<1>5. ASSUME NEW i \in Items, RequeueIgnored(i) PROVE Effect
  <2>1. (\E r : Born(i, r)) \/ UNCHANGED <<row, rows>>
    BY <1>5, RequeueBirth
  <2>2. UNCHANGED sender /\ Enters(i)
    BY <1>5 DEF RequeueIgnored, Enters
  <2> QED
    BY <2>1, <2>2, ThinNothing DEF Effect, Birth, Thinning
<1>6. ASSUME NEW s \in Senders, Talk(s) PROVE Effect
  BY <1>6, ReadTalks, SendTalks, RepeatTalks, MarkTalks, StopTalks DEF Effect, Talking, Talk
<1>7. CASE DeletionNotifies \/ JobTimesOut \/ ScanTimesOut
  BY <1>7, StopTalks DEF Effect, Talking, Senders
<1>8. CASE Requests
  <2>1. CASE \E i \in Items : IgnoreQueued(i) \/ AddIgnored(i) \/ TakeAway(i)
    BY <1>4, <2>1
  <2>2. CASE \E i \in Items : RemoveIgnored(i) \/ Play(i)
    BY <1>1, <2>2
  <2>3. CASE \E i \in Items : RequeueIgnored(i)
    BY <1>5, <2>3
  <2>4. CASE Tick \/ \E l \in Libraries, c \in Configs \cup {Absent} : SaveLibrary(l, c)
    BY <1>1, <2>4
  <2>5. CASE Cleanup
    BY <1>4, <2>5
  <2> QED
    BY <1>8, <2>1, <2>2, <2>3, <2>4, <2>5 DEF Requests
<1> QED
  BY <1>1, <1>2, <1>3, <1>4, <1>6, <1>7, <1>8, ScanActions

-----------------------------------------------------------------------------
(* Types. *)

LEMMA EffectTypes ==
    ASSUME QueueTypes, ScanTypes, Effect
    PROVE  row' \in [Items -> Row \cup {Absent}] /\ rows' \in Nat /\ sender' \in SenderTypes
<1>1. CASE Thinning
  BY <1>1 DEF Thinning, Thins, QueueTypes, ScanTypes, SenderTypes, Reading
<1>2. CASE Birth
  BY <1>2 DEF Birth, Born, QueueTypes, ScanTypes, SenderTypes
<1>3. CASE Rewriting
  BY <1>3 DEF Rewriting, Rewrites, Moves, Clears, Premarks, Hears, Turned, QueueTypes, ScanTypes,
              SenderTypes
<1>4. ASSUME NEW s \in Senders, Talks(s)
      PROVE  row' \in [Items -> Row \cup {Absent}] /\ rows' \in Nat /\ sender' \in SenderTypes
  BY <1>4 DEF Talks, QueueTypes
<1> QED
  BY <1>1, <1>2, <1>3, <1>4 DEF Effect, Talking, Reads, Says, Notes, Stops

(* Requests and the deletion job are no part of a scan. *)
LEMMA Outside ==
    ASSUME \/ UNCHANGED scanVars \/ Requests \/ (\E l \in Libraries : CheckReads(l))
           \/ (\E p \in check : CheckRow(p)) \/ DeletionNotifies \/ JobTimesOut
    PROVE  UNCHANGED <<run, task>>
BY DEF scanVars, Requests, IgnoreQueued, AddIgnored, RemoveIgnored, RequeueIgnored, TakeAway,
       Play, SaveLibrary, Cleanup, Tick, CheckReads, CheckRow, DeletionNotifies, JobTimesOut

(* Only requests change the ignored list, the libraries and the clock, and what
   kind of media there is stays. *)
LEMMA Inside ==
    ASSUME [ScanNext]_scanVars
    PROVE  /\ UNCHANGED <<grouped, api>>
           /\ Requests \/ UNCHANGED <<skipped, libs, day, watched>>
<1>1. CASE Requests
  BY <1>1 DEF Requests, IgnoreQueued, AddIgnored, RemoveIgnored, RequeueIgnored, TakeAway,
       Play, SaveLibrary, Cleanup, Tick
<1>2. ASSUME NEW l \in Libraries, TaskStep(l)
      PROVE  UNCHANGED <<grouped, api, skipped, libs, day, watched>>
  BY <1>2 DEF TaskStep, LoadData, Collect, MoveDate, ResetMarks, RescheduleFails, RefreshGroups,
              PreMark, Detect, PassOver, InsertEntry
<1>3. ASSUME NEW s \in Senders, Talk(s)
      PROVE  UNCHANGED <<grouped, api, skipped, libs, day, watched>>
  BY <1>3 DEF Talk, ReadThreshold, SendThreshold, Unanswered, SendFails, MarkThreshold, MarkFails,
              NotifyEnds
<1> QED
  BY <1>1, <1>2, <1>3, ScanActions DEF scanVars, RunScan, RunScanLibraries, CachesFail, LoadFails,
     ScanTimesOut, ScanServer, ScanOne, LibraryDone, LibrariesDone, Purge, DeletionNotifies,
     JobTimesOut, CheckReads, CheckRow

LEMMA SkippedTypes ==
    ASSUME ScannerConstants, QueueTypes, ScanTypes, [ScanNext]_scanVars
    PROVE  /\ skipped' \in [Items -> Skip \cup {Absent}] /\ day' \in Nat
           /\ libs' \in [Libraries -> Configs \cup {Absent}] /\ watched' \in SUBSET Items
<1>1. ASSUME NEW i \in Items, IgnoreQueued(i) \/ AddIgnored(i)
      PROVE  skipped' \in [Items -> Skip \cup {Absent}]
  <2>1. row[i] # Absent => row[i].lib \in Libraries \cup {Absent}
    BY RowThere DEF Row
  <2>2. \A lib \in Libraries \cup {Absent} : [lib |-> lib, expire |-> day + 1] \in Skip
    BY DEF Skip, QueueTypes
  <2> QED
    BY <1>1, <2>1, <2>2 DEF IgnoreQueued, AddIgnored, QueueTypes
<1>2. ASSUME Cleanup PROVE skipped' \in [Items -> Skip \cup {Absent}]
  <2> DEFINE c(i) == skipped[i] # Absent /\ skipped[i].expire <= day
  <2>1. skipped' = [i \in Items |-> IF c(i) THEN Absent ELSE skipped[i]]
    BY <1>2 DEF Cleanup
  <2> HIDE DEF c
  <2> QED
    BY <2>1 DEF QueueTypes
<1>3. CASE Requests
  <2>1. skipped' \in [Items -> Skip \cup {Absent}]
    BY <1>1, <1>2, <1>3 DEF Requests, RemoveIgnored, RequeueIgnored, TakeAway, Play, SaveLibrary,
                            Tick, QueueTypes
  <2>2. day' = day \/ day' = day + 1
    BY <1>3 DEF Requests, IgnoreQueued, AddIgnored, RemoveIgnored, RequeueIgnored, TakeAway,
                Play, SaveLibrary, Cleanup, Tick
  <2>3. \/ UNCHANGED <<libs, watched>>
        \/ \E i \in Items : Play(i)
        \/ \E l \in Libraries, c \in Configs \cup {Absent} : SaveLibrary(l, c)
    BY <1>3 DEF Requests, IgnoreQueued, AddIgnored, RemoveIgnored, RequeueIgnored, TakeAway,
                Cleanup, Tick
  <2> QED
    BY <2>1, <2>2, <2>3 DEF Play, SaveLibrary, ScanTypes, QueueTypes
<1> QED
  BY <1>3, Inside DEF QueueTypes, ScanTypes

TaskTypes == [Libraries -> Task \cup {Idle}]

(* What a step makes of the scan: its state, and that of its libraries. *)
ScanGoesOn ==
    /\ run' \in Scan \cup {Idle} /\ task' \in TaskTypes
    /\ \A l \in Libraries : task'[l].at # "idle" => run'.at = "libs" /\ l \in run'.todo

LEMMA AtLibs ==
    ASSUME ScanTypes, Turns, NEW l \in Libraries, task[l].at # "idle"
    PROVE  run \in Scan /\ run.at = "libs" /\ l \in run.todo
BY DEF ScanTypes, Turns, Idle

LEMMA NoTasks ==
    ASSUME ScanTypes, Turns, run.at # "libs"
    PROVE  \A l \in Libraries : task[l].at = "idle"
BY DEF Turns

(* What a step of the scan of library l does to it and to the scan. *)
TaskGoes(l) ==
    /\ \E t \in Task : task' = [task EXCEPT ![l] = t]
    /\ run' = run \/ \E q \in SUBSET Items : run' = [run EXCEPT !.queued = q]

LEMMA TaskGoesOn ==
    ASSUME ScanTypes, Turns, NEW l \in Libraries, task[l].at # "idle", TaskGoes(l)
    PROVE  ScanGoesOn
<1>1. run \in Scan /\ run.at = "libs" /\ l \in run.todo
  BY AtLibs
<1>2. run' \in Scan /\ run'.at = "libs" /\ run'.todo = run.todo
  BY <1>1 DEF Scan, TaskGoes
<1>3. task' \in TaskTypes /\ \A m \in Libraries : m # l => task'[m] = task[m]
  BY DEF ScanTypes, TaskTypes, TaskGoes
<1> QED
  BY <1>1, <1>2, <1>3 DEF ScanGoesOn, ScanTypes, Turns

LEMMA TaskEnds ==
    ASSUME ScanTypes, Turns, NEW l \in Libraries, LoadFails(l) \/ LibraryDone(l)
    PROVE  ScanGoesOn
<1>1. /\ task[l].at # "idle" /\ task' = [task EXCEPT ![l] = Idle]
      /\ run' = [run EXCEPT !.todo = @ \ {l}]
  BY DEF LoadFails, LibraryDone
<1>2. run \in Scan /\ run.at = "libs" /\ l \in run.todo
  BY <1>1, AtLibs
<1>3. run' \in Scan /\ run'.at = "libs" /\ run'.todo = run.todo \ {l}
  BY <1>1, <1>2 DEF Scan
<1>4. task' \in TaskTypes /\ task'[l].at = "idle"
  BY <1>1 DEF ScanTypes, TaskTypes, Idle
<1>5. \A m \in Libraries : m # l => task'[m] = task[m]
  BY <1>1 DEF ScanTypes
<1> QED
  BY <1>1, <1>3, <1>4, <1>5 DEF ScanGoesOn, Turns

LEMMA TaskStarts ==
    ASSUME ScanTypes, NEW l \in Libraries, libs[l] # Absent
    PROVE  Started(l) \in Loading
BY DEF Started, ScanTypes, Loading

(* Back to a record without the item or the entry in hand. *)
Rest(l, at) == [at |-> at, lib |-> task[l].lib, left |-> task[l].left,
                eligible |-> task[l].eligible, seen |-> task[l].seen]

LEMMA RestThere ==
    ASSUME ScanTypes, NEW l \in Libraries, task[l].at \notin {"idle", "data"},
           NEW at \in {"collect", "insert"}, GoOn(l, at), run' = run
    PROVE  /\ TaskGoes(l) /\ task'[l] = Rest(l, at)
           /\ \A m \in Libraries : m # l => task'[m] = task[m]
<1>1. task' = [task EXCEPT ![l] = Rest(l, at)]
  BY DEF GoOn, Rest
<1>2. task[l] \in Working \cup Moving \cup Marking
  BY DEF ScanTypes, Task, Idle, Loading
<1>3. Rest(l, at) \in Working
  BY <1>2 DEF Rest, Working, Moving, Marking
<1> QED
  BY <1>1, <1>3 DEF TaskGoes, ScanTypes, Task

LEMMA CollectGoes ==
    ASSUME ScannerConstants, QueueTypes, ScanTypes, NEW l \in Libraries, NEW i \in Items,
           Collect(l, i)
    PROVE  /\ TaskGoes(l) /\ run' = run /\ task'[l].left = task[l].left \ {i}
           /\ i \in task[l].left
           /\ \/ task'[l].eligible = task[l].eligible
              \/ /\ Passes(l, i)
                 /\ task'[l].eligible =
                       task[l].eligible \cup {[item |-> i, delete |-> day + task[l].lib.grace]}
<1> DEFINE old == task[l]
           t == [old EXCEPT !.left = @ \ {i}]
           date == row[i].detected + old.lib.grace
           n == [item |-> i, delete |-> day + old.lib.grace]
           m == [at |-> "move", lib |-> t.lib, left |-> t.left, eligible |-> t.eligible,
                 seen |-> t.seen, item |-> i, id |-> row[i].id, date |-> date,
                 changed |-> date # row[i].delete]
           w == [t EXCEPT !.eligible = @ \cup {n}]
<1>1. old \in Working /\ old.at = "collect" /\ i \in old.left /\ run' = run
  BY TaskThere DEF Collect
<1>2. old.lib.grace \in Nat /\ n \in Entry
  BY <1>1 DEF Working, ScannerConstants, Entry, QueueTypes
<1>3. t \in Working /\ t.lib = old.lib /\ t.left = old.left \ {i} /\ t.eligible = old.eligible
      /\ t.seen = old.seen
  BY <1>1 DEF Working
<1>4. \/ Rereads(i) /\ task' = [task EXCEPT ![l] = m]
      \/ Passes(l, i) /\ task' = [task EXCEPT ![l] = w]
      \/ task' = [task EXCEPT ![l] = t]
  BY <1>3 DEF Collect
<1>5. CASE Rereads(i) /\ task' = [task EXCEPT ![l] = m]
  <2>1. row[i] \in Row
    BY <1>5, RowThere DEF Rereads, Pending
  <2>2. date \in Nat /\ row[i].id \in Nat
    BY <1>2, <2>1 DEF Row
  <2>3. (date # row[i].delete) \in BOOLEAN
    OBVIOUS
  <2> HIDE DEF date, t
  <2>4. m \in Moving
    BY <1>1, <1>3, <2>2, <2>3 DEF Working, Moving
  <2>5. m.left = t.left /\ m.eligible = t.eligible
    OBVIOUS
  <2> HIDE DEF m
  <2> QED
    BY <1>1, <1>3, <1>5, <2>4, <2>5 DEF TaskGoes, ScanTypes, Task
<1>6. CASE Passes(l, i) /\ task' = [task EXCEPT ![l] = w]
  <2> HIDE DEF t, n
  <2>1. w \in Working /\ w.left = t.left /\ w.eligible = t.eligible \cup {n}
    BY <1>2, <1>3 DEF Working
  <2> HIDE DEF w
  <2> QED
    BY <1>1, <1>3, <1>6, <2>1 DEF TaskGoes, ScanTypes, Task, n
<1>7. CASE task' = [task EXCEPT ![l] = t]
  <2> HIDE DEF t
  <2> QED
    BY <1>1, <1>3, <1>7 DEF TaskGoes, ScanTypes, Task
<1> QED
  BY <1>4, <1>5, <1>6, <1>7

LEMMA InsertGoes ==
    ASSUME QueueTypes, ScanTypes, Turns, NEW l \in Libraries, NEW e \in task[l].eligible,
           InsertEntry(l, e)
    PROVE  /\ TaskGoes(l) /\ run' = [run EXCEPT !.queued = run.queued \cup {e.item}]
           /\ task'[l].at = "premark" /\ task'[l].entry = e
           /\ task'[l].left = {} /\ task'[l].eligible = task[l].eligible \ {e}
<1>1. task[l] \in Working /\ task[l].at = "insert"
  BY TaskThere DEF InsertEntry
<1>2. e \in Entry /\ e.item \in Items
  BY <1>1 DEF Working, Entry
<1> DEFINE t == [at |-> "premark", lib |-> task[l].lib, left |-> {}, seen |-> task[l].seen,
                 eligible |-> task[l].eligible \ {e}, entry |-> e, id |-> 0]
<1>3. task' = [task EXCEPT ![l] = t] /\ run' = [run EXCEPT !.queued = run.queued \cup {e.item}]
  BY DEF InsertEntry
<1>4. t \in Marking
  BY <1>1, <1>2 DEF Working, Marking
<1>5. run.queued \cup {e.item} \in SUBSET Items
  BY <1>1, <1>2, AtLibs DEF Scan
<1>6. t.at = "premark" /\ t.entry = e /\ t.left = {} /\ t.eligible = task[l].eligible \ {e}
  OBVIOUS
<1> HIDE DEF t
<1> QED
  BY <1>3, <1>4, <1>5, <1>6 DEF TaskGoes, ScanTypes, Task

(* The other steps leave the scan alone, and what a library is to insert. *)
LEMMA OtherGoes ==
    ASSUME ScannerConstants, QueueTypes, ScanTypes, NEW l \in Libraries,
           \/ \E plays \in {{}, watched} : LoadData(l, plays)
           \/ MoveDate(l) \/ ResetMarks(l) \/ RescheduleFails(l)
           \/ \E ok \in BOOLEAN : RefreshGroups(l, ok) \/ PreMark(l, ok) \/ Detect(l, ok)
           \/ \E e \in task[l].eligible : PassOver(l, e)
    PROVE  /\ TaskGoes(l) /\ run' = run /\ task[l].at # "idle"
           /\ task'[l].left = task[l].left /\ task'[l].eligible \subseteq task[l].eligible
<1>1. ASSUME NEW plays, LoadData(l, plays)
      PROVE  /\ TaskGoes(l) /\ run' = run /\ task[l].at # "idle"
             /\ task'[l].left = task[l].left /\ task'[l].eligible \subseteq task[l].eligible
  <2> DEFINE t == [at |-> "collect", lib |-> task[l].lib, left |-> task[l].left,
                   eligible |-> {}, seen |-> watched]
  <2>1. task' = [task EXCEPT ![l] = t] /\ task[l].at = "data" /\ run' = run
    BY <1>1 DEF LoadData
  <2>2. t \in Working /\ t.left = task[l].left /\ t.eligible = {}
    BY <2>1, TaskThere DEF Loading, Working, ScanTypes
  <2> HIDE DEF t
  <2> QED
    BY <2>1, <2>2 DEF TaskGoes, ScanTypes, Task
<1>2. ASSUME NEW at \in {"collect", "insert"}, GoOn(l, at), run' = run,
             task[l].at \notin {"idle", "data"}
      PROVE  /\ TaskGoes(l) /\ run' = run /\ task[l].at # "idle"
             /\ task'[l].left = task[l].left /\ task'[l].eligible \subseteq task[l].eligible
  <2>1. TaskGoes(l) /\ task'[l] = Rest(l, at)
    BY <1>2, RestThere
  <2>2. Rest(l, at).left = task[l].left /\ Rest(l, at).eligible = task[l].eligible
    BY DEF Rest
  <2> QED
    BY <1>2, <2>1, <2>2
<1>3. CASE MoveDate(l)
  <2>1. task[l] \in Moving /\ task[l].at = "move" /\ run' = run
    BY <1>3, TaskThere DEF MoveDate
  <2>2. CASE GoOn(l, "collect")
    BY <1>2, <2>1, <2>2
  <2>3. CASE task' = [task EXCEPT ![l].at = "reset"]
    <3> DEFINE t == [task[l] EXCEPT !.at = "reset"]
    <3>1. t \in Moving /\ t.left = task[l].left /\ t.eligible = task[l].eligible
      BY <2>1 DEF Moving
    <3>2. task' = [task EXCEPT ![l] = t]
      BY <2>3
    <3> HIDE DEF t
    <3> QED
      BY <2>1, <3>1, <3>2 DEF TaskGoes, ScanTypes, Task
  <2> QED
    BY <1>3, <2>2, <2>3 DEF MoveDate
<1>4. CASE ResetMarks(l) \/ RescheduleFails(l)
  BY <1>2, <1>4 DEF ResetMarks, RescheduleFails
<1>5. ASSUME NEW ok, RefreshGroups(l, ok) \/ Detect(l, ok)
      PROVE  /\ TaskGoes(l) /\ run' = run /\ task[l].at # "idle"
             /\ task'[l].left = task[l].left /\ task'[l].eligible \subseteq task[l].eligible
  BY <1>2, <1>5 DEF RefreshGroups, Detect
<1>6. ASSUME NEW ok, PreMark(l, ok)
      PROVE  /\ TaskGoes(l) /\ run' = run /\ task[l].at # "idle"
             /\ task'[l].left = task[l].left /\ task'[l].eligible \subseteq task[l].eligible
  <2>1. task[l] \in Marking /\ task[l].at = "premark" /\ run' = run
    BY <1>6, TaskThere DEF PreMark
  <2> DEFINE i == task[l].entry.item
             id == IF row[i] = Absent THEN 0 ELSE row[i].id
             t == [task[l] EXCEPT !.at = "detect", !.id = id]
  <2>2. task' = [task EXCEPT ![l] = t]
    <3>1. task' = [task EXCEPT ![l].at = "detect", ![l].id = id]
      BY <1>6 DEF PreMark
    <3> HIDE DEF id
    <3> QED
      BY <2>1, <3>1 DEF ScanTypes
  <2>3. id \in Nat
    <3>1. i \in Items
      BY <2>1 DEF Marking, Entry
    <3> HIDE DEF i
    <3> QED
      BY <3>1, RowThere DEF Row
  <2> HIDE DEF id
  <2>4. t \in Marking /\ t.left = task[l].left /\ t.eligible = task[l].eligible
    BY <2>1, <2>3 DEF Marking
  <2> HIDE DEF t
  <2> QED
    BY <2>1, <2>2, <2>4 DEF TaskGoes, ScanTypes, Task
<1>7. ASSUME NEW e \in task[l].eligible, PassOver(l, e)
      PROVE  /\ TaskGoes(l) /\ run' = run /\ task[l].at # "idle"
             /\ task'[l].left = task[l].left /\ task'[l].eligible \subseteq task[l].eligible
  <2>1. task[l] \in Working /\ task[l].at = "insert" /\ run' = run
    BY <1>7, TaskThere DEF PassOver
  <2> DEFINE x == task[l].eligible \ {e}
             t == [task[l] EXCEPT !.eligible = x]
  <2>2. task' = [task EXCEPT ![l] = t]
    BY <1>7 DEF PassOver
  <2>3. x \subseteq Entry /\ x \subseteq task[l].eligible
    BY <2>1 DEF Working
  <2> HIDE DEF x
  <2>4. t \in Working /\ t.left = task[l].left /\ t.eligible = x
    BY <2>1, <2>3 DEF Working
  <2> HIDE DEF t
  <2> QED
    BY <2>1, <2>2, <2>3, <2>4 DEF TaskGoes, ScanTypes, Task
<1> QED
  BY <1>1, <1>3, <1>4, <1>5, <1>6, <1>7

LEMMA TaskSteps ==
    ASSUME ScannerConstants, QueueTypes, ScanTypes, Turns, NEW l \in Libraries, TaskStep(l)
    PROVE  ScanGoesOn /\ task[l].at # "idle" /\ TaskGoes(l)
<1>1. TaskGoes(l) /\ task[l].at # "idle"
  <2>1. ASSUME NEW i \in Items, Collect(l, i) PROVE TaskGoes(l) /\ task[l].at # "idle"
    BY <2>1, CollectGoes DEF Collect
  <2>2. ASSUME NEW e \in task[l].eligible, InsertEntry(l, e)
        PROVE  TaskGoes(l) /\ task[l].at # "idle"
    BY <2>2, InsertGoes DEF InsertEntry
  <2> QED
    BY <2>1, <2>2, OtherGoes DEF TaskStep
<1> QED
  BY <1>1, TaskGoesOn

LEMMA ScanStarts ==
    ASSUME ScanTypes, Turns,
           RunScan \/ (\E ls \in SUBSET Libraries \ {{}} : RunScanLibraries(ls)) \/ CachesFail
    PROVE  ScanGoesOn
<1>0. \A ls \in SUBSET Libraries : \A w \in {"server", "libs"} : \A f \in BOOLEAN :
         [at |-> w, full |-> f, todo |-> ls, libs |-> {}, queued |-> {}, ignored |-> {}] \in Scan
  BY DEF Scan
<1>1. CASE RunScan
  <2>1. run' \in Scan /\ task' = task /\ run.at = "idle"
    BY <1>0, <1>1 DEF RunScan, MayScan
  <2> QED
    BY <2>1, NoTasks DEF ScanGoesOn, ScanTypes, TaskTypes
<1>2. ASSUME NEW ls \in SUBSET Libraries, RunScanLibraries(ls) PROVE ScanGoesOn
  <2>1. run' \in Scan /\ task' = task /\ run.at = "idle"
    BY <1>0, <1>2 DEF RunScanLibraries, MayScan
  <2> QED
    BY <2>1, NoTasks DEF ScanGoesOn, ScanTypes, TaskTypes
<1>3. CASE CachesFail
  <2>1. task' = task /\ \A l \in Libraries : task[l].at = "idle"
    BY <1>3, NoTasks DEF CachesFail
  <2>2. run' \in Scan \cup {Idle}
    <3>1. CASE run.at = "server" /\ run' = Idle
      BY <3>1
    <3>2. CASE run.at = "libs" /\ run' = [run EXCEPT !.todo = {}]
      <4>1. run \in Scan
        BY <3>2 DEF ScanTypes, Idle
      <4> QED
        BY <3>2, <4>1 DEF Scan
    <3> QED
      BY <1>3, <3>1, <3>2 DEF CachesFail
  <2> QED
    BY <2>1, <2>2 DEF ScanGoesOn, ScanTypes, TaskTypes
<1> QED
  BY <1>1, <1>2, <1>3

LEMMA ServerScanned ==
    ASSUME ScanTypes, Turns, NEW u \in BOOLEAN, ScanServer(u)
    PROVE  ScanGoesOn
<1> DEFINE enabled == {l \in Libraries : libs[l] # Absent /\ libs[l].on}
<1>1. run \in Scan /\ run.at = "server" /\ \A l \in Libraries : task[l].at = "idle"
  BY NoTasks DEF ScanServer, ScanTypes, Idle
<1>2. CASE /\ run' = [Snapshot EXCEPT !.at = "libs", !.todo = enabled, !.libs = enabled]
           /\ task' = [l \in Libraries |-> IF l \in enabled THEN Started(l) ELSE Idle]
  <2>1. run' \in Scan /\ run'.at = "libs" /\ run'.todo = enabled
    BY <1>1, <1>2 DEF Snapshot, Scan, Queued, Ignored
  <2>2. \A l \in enabled : Started(l) \in Loading
    BY TaskStarts
  <2>3. task' \in TaskTypes /\ \A l \in Libraries : task'[l].at # "idle" => l \in enabled
    BY <1>2, <2>2 DEF TaskTypes, Task, Idle
  <2> QED
    BY <2>1, <2>3 DEF ScanGoesOn
<1>3. CASE run' = [run EXCEPT !.at = "purge"] /\ task' = task
  <2>1. run' \in Scan
    BY <1>1, <1>3 DEF Scan
  <2> QED
    BY <1>1, <1>3, <2>1 DEF ScanGoesOn, ScanTypes, TaskTypes
<1> QED
  BY <1>2, <1>3 DEF ScanServer

LEMMA OneScanned ==
    ASSUME ScanTypes, Turns, NEW l \in Libraries, NEW u \in BOOLEAN, ScanOne(l, u)
    PROVE  ScanGoesOn
<1>1. /\ run \in Scan /\ run.at = "libs" /\ l \in run.todo
      /\ \A m \in Libraries : task[m].at = "idle"
  BY DEF ScanOne, ScanTypes, Idle
<1>2. CASE libs[l] # Absent /\ run' = Snapshot /\ task' = [task EXCEPT ![l] = Started(l)]
  <2>1. run' \in Scan /\ run'.at = "libs" /\ run'.todo = run.todo
    BY <1>1, <1>2 DEF Snapshot, Scan, Queued, Ignored
  <2>2. task' \in TaskTypes /\ \A m \in Libraries : task'[m].at # "idle" => m = l
    BY <1>1, <1>2, TaskStarts DEF TaskTypes, Task, ScanTypes
  <2> QED
    BY <1>1, <2>1, <2>2 DEF ScanGoesOn
<1>3. CASE run' = [run EXCEPT !.todo = @ \ {l}] /\ task' = task
  <2>1. run' \in Scan
    BY <1>1, <1>3 DEF Scan
  <2> QED
    BY <1>1, <1>3, <2>1 DEF ScanGoesOn, ScanTypes, TaskTypes
<1> QED
  BY <1>2, <1>3 DEF ScanOne

LEMMA ScanNotifies ==
    ASSUME ScanTypes, Turns, Purge \/ LibrariesDone
    PROVE  /\ ScanGoesOn /\ run'.at = "notify" /\ run.at \in {"purge", "libs"}
           /\ \A l \in Libraries : task[l].at = "idle"
<1>1. run.at \in {"purge", "libs"} /\ (run.at = "libs" => run.todo = {}) /\ task' = task
  BY DEF Purge, LibrariesDone
<1>2. run \in Scan /\ \A l \in Libraries : task[l].at = "idle"
  BY <1>1 DEF Turns, ScanTypes, Idle
<1>3. run' = [run EXCEPT !.at = "notify", !.libs = {}, !.queued = {}, !.ignored = {}]
  BY DEF Purge, LibrariesDone, Notify
<1>4. run' \in Scan /\ run'.at = "notify"
  BY <1>2, <1>3 DEF Scan
<1> QED
  BY <1>1, <1>2, <1>4 DEF ScanGoesOn, ScanTypes, TaskTypes

LEMMA ScanStops ==
    ASSUME ScanTypes, Turns, ScanTimesOut \/ \E s \in Senders : Talk(s)
    PROVE  ScanGoesOn
<1>1. CASE ScanTimesOut
  <2>1. run' = Idle /\ task' = [l \in Libraries |-> Idle]
    BY <1>1 DEF ScanTimesOut
  <2> QED
    BY <2>1 DEF ScanGoesOn, TaskTypes, Idle
<1>2. ASSUME NEW s \in Senders, Talk(s) PROVE ScanGoesOn
  <2>1. CASE UNCHANGED <<run, task>>
    BY <2>1 DEF ScanGoesOn, ScanTypes, TaskTypes, Turns
  <2>2. CASE s = "scan" /\ NotifyEnds(s)
    <3>1. run' = Idle /\ task' = task /\ sender["scan"].at = "read"
      BY <2>2 DEF NotifyEnds
    <3>2. run.at = "notify"
      BY <3>1 DEF Turns
    <3> QED
      BY <3>1, <3>2, NoTasks DEF ScanGoesOn, ScanTypes, TaskTypes
  <2> QED
    BY <1>2, <2>1, <2>2
       DEF Talk, ReadThreshold, SendThreshold, Unanswered, SendFails, MarkThreshold, MarkFails,
           NotifyEnds, Senders
<1> QED
  BY <1>1, <1>2

LEMMA ScanKeepsOn ==
    ASSUME ScannerConstants, QueueTypes, ScanTypes, Turns, [ScanNext]_scanVars
    PROVE  ScanGoesOn
<1>1. CASE UNCHANGED <<run, task>>
  BY <1>1 DEF ScanGoesOn, ScanTypes, TaskTypes, Turns
<1> QED
  BY <1>1, ScanActions, Outside, TaskEnds, TaskSteps, ScanStarts, ServerScanned, OneScanned,
     ScanNotifies, ScanStops

LEMMA TurnKept ==
    ASSUME ScannerConstants, QueueTypes, ScanTypes, Turns, [ScanNext]_scanVars,
           sender'["scan"].at # "idle"
    PROVE  run'.at = "notify"
<1>0. "scan" \in Senders /\ "deletion" \in Senders /\ "scan" # "deletion"
  BY DEF Senders
<1>1. CASE UNCHANGED <<run, sender>>
  BY <1>1 DEF Turns
<1>2. CASE UNCHANGED sender /\ run.at \in {"server", "libs", "purge", "idle"}
  BY <1>2 DEF Turns
<1>3. CASE RunScan \/ \E ls \in SUBSET Libraries \ {{}} : RunScanLibraries(ls)
  BY <1>2, <1>3 DEF RunScan, RunScanLibraries, MayScan
<1>4. CASE CachesFail \/ (\E u \in BOOLEAN : ScanServer(u))
           \/ (\E l \in Libraries, u \in BOOLEAN : ScanOne(l, u))
  BY <1>2, <1>4 DEF CachesFail, ScanServer, ScanOne
<1>5. ASSUME NEW l \in Libraries, TaskStep(l) \/ LoadFails(l) \/ LibraryDone(l)
      PROVE  run'.at = "notify"
  <2>1. UNCHANGED sender
    BY <1>5 DEF TaskStep, LoadFails, LibraryDone, LoadData, Collect, MoveDate, ResetMarks,
       RescheduleFails, RefreshGroups, PreMark, Detect, PassOver, InsertEntry
  <2>2. task[l].at # "idle"
    BY <1>5, TaskSteps DEF LoadFails, LibraryDone
  <2> QED
    BY <1>2, <2>1, <2>2 DEF Turns
<1>6. CASE Purge \/ LibrariesDone
  BY <1>6, ScanNotifies
<1>7. CASE ScanTimesOut
  <2>1. sender'["scan"] = Idle
    BY <1>0, <1>7 DEF ScanTimesOut, ScanTypes
  <2> QED
    BY <2>1 DEF Idle
<1>8. ASSUME NEW s \in Senders, Talk(s) PROVE run'.at = "notify"
  <2>1. CASE s = "scan" /\ NotifyEnds(s)
    <3>1. sender'["scan"] = Idle
      BY <1>0, <2>1 DEF NotifyEnds, ScanTypes
    <3> QED
      BY <3>1 DEF Idle
  <2>2. CASE ~(s = "scan" /\ NotifyEnds(s))
    <3>1. /\ run' = run /\ sender[s].at # "idle"
          /\ sender' = sender \/ \E m : sender' = [sender EXCEPT ![s] = m]
      BY <1>8, <2>2 DEF Talk, ReadThreshold, SendThreshold, Unanswered, SendFails,
                        MarkThreshold, MarkFails, NotifyEnds
    <3>2. s # "scan" => sender'["scan"] = sender["scan"]
      BY <1>0, <3>1 DEF ScanTypes
    <3> QED
      BY <3>1, <3>2 DEF Turns
  <2> QED
    BY <2>1, <2>2
<1>9. CASE DeletionNotifies \/ JobTimesOut
  <2>1. run' = run /\ \E m : sender' = [sender EXCEPT !["deletion"] = m]
    BY <1>9 DEF DeletionNotifies, JobTimesOut
  <2>2. sender'["scan"] = sender["scan"]
    BY <1>0, <2>1 DEF ScanTypes
  <2> QED
    BY <2>1, <2>2 DEF Turns
<1>10. CASE \/ UNCHANGED scanVars \/ Requests \/ (\E l \in Libraries : CheckReads(l))
            \/ (\E p \in check : CheckRow(p))
  <2>1. UNCHANGED sender
    BY <1>10 DEF scanVars, Requests, IgnoreQueued, AddIgnored, RemoveIgnored, RequeueIgnored,
                 TakeAway, Play, SaveLibrary, Cleanup, Tick, CheckReads, CheckRow
  <2> QED
    BY <1>1, <1>10, <2>1, Outside
<1> QED
  BY <1>3, <1>4, <1>5, <1>6, <1>7, <1>8, <1>9, <1>10, ScanActions

(* The rows a sender has in hand are those it had, or those it reads. *)
LEMMA HandKept ==
    ASSUME ScanTypes, Effect, NEW s \in Senders, sender'[s].at \in {"send", "mark"}
    PROVE  \/ /\ sender[s].at \in {"send", "mark"} /\ sender'[s].t = sender[s].t
              /\ sender'[s].rows = sender[s].rows
           \/ \E t \in Thresholds : sender'[s].rows = {<<i, row[i].id>> : i \in Unmarked(t)}
<1>0. \A z \in Senders : sender[z].at = "send" =>
         sender[z].t = sender[z].t /\ sender[z].rows = sender[z].rows
  OBVIOUS
<1>1. CASE Thinning
  BY <1>1 DEF Thinning, ScanTypes
<1>2. CASE Birth \/ Rewriting
  BY <1>2 DEF Birth, Rewriting
<1>3. ASSUME NEW z \in Senders, NEW t \in Thresholds, Reads(z, t)
      PROVE  \/ sender'[s] = sender[s]
             \/ sender'[s].rows = {<<i, row[i].id>> : i \in Unmarked(t)}
  BY <1>3 DEF Reads, Talks
<1>4. ASSUME NEW z \in Senders, Says(z)
      PROVE  sender'[s] = sender[s] \/ (sender[s].at = "send" /\ sender'[s].t = sender[s].t
                                        /\ sender'[s].rows = sender[s].rows)
  BY <1>4 DEF Says, Talks
<1>5. ASSUME NEW z \in Senders, Notes(z) \/ Stops(z)
      PROVE  sender'[s] = sender[s]
  BY <1>5 DEF Notes, Stops, Talks
<1> QED
  BY <1>1, <1>2, <1>3, <1>4, <1>5 DEF Effect, Talking

LEMMA IdsKept ==
    ASSUME QueueTypes, ScanTypes, RowIds, Effect
    PROVE  RowIds'
<1>1. rows' \in Nat /\ rows' >= rows
  <2>1. rows' = rows \/ rows' = rows + 1
    BY DEF Effect, Thinning, Thins, Birth, Born, Rewriting, Rewrites, Moves, Clears, Premarks,
           Hears, Turned, Talking, Talks, Reads, Says, Notes, Stops
  <2> QED
    BY <2>1 DEF QueueTypes
<1>2. ASSUME NEW i \in Items, row'[i] # Absent PROVE row'[i].id <= rows'
  <2>0. row[i] # Absent => row[i].id \in Nat /\ row[i].id <= rows
    BY RowThere DEF Row, RowIds
  <2>1. CASE row[i] # Absent /\ row'[i].id = row[i].id
    BY <1>1, <2>0, <2>1 DEF QueueTypes
  <2>2. CASE Thinning
    BY <1>2, <2>1, <2>2 DEF Thinning, Thins, Like
  <2>3. CASE Birth
    <3>1. PICK j, r : j \in Items /\ Born(j, r)
      BY <2>3 DEF Birth
    <3>2. row' = [row EXCEPT ![j] = r] /\ r.id = rows'
      BY <3>1 DEF Born
    <3>3. CASE i = j
      BY <1>1, <3>2, <3>3 DEF QueueTypes
    <3>4. CASE i # j
      BY <1>2, <2>1, <3>2, <3>4 DEF QueueTypes
    <3> QED
      BY <3>3, <3>4
  <2>4. CASE Rewriting
    <3>1. PICK j, r : j \in Items /\ Turned(j, r)
      BY <2>4 DEF Rewriting, Rewrites, Moves, Clears, Premarks, Hears
    <3> QED
      BY <1>2, <2>1, <3>1 DEF Turned, QueueTypes
  <2>5. ASSUME NEW s \in Senders, Talks(s) PROVE row[i] # Absent /\ row'[i].id = row[i].id
    BY <1>2, <2>5 DEF Talks, Keeps
  <2> QED
    BY <2>1, <2>2, <2>3, <2>4, <2>5 DEF Effect, Talking, Reads, Says, Notes, Stops
<1>3. ASSUME NEW s \in Senders, sender'[s].at \in {"send", "mark"}, NEW p \in sender'[s].rows
      PROVE  p[2] <= rows'
  <2>1. CASE sender[s].at \in {"send", "mark"} /\ sender'[s].rows = sender[s].rows
    <3>1. sender[s] \in Message /\ p[2] \in Nat /\ p[2] <= rows
      BY <1>3, <2>1, MessageThere DEF Message, RowIds
    <3> QED
      BY <1>1, <3>1 DEF QueueTypes
  <2>2. ASSUME NEW t \in Thresholds, sender'[s].rows = {<<i, row[i].id>> : i \in Unmarked(t)}
        PROVE  p[2] <= rows'
    <3>1. PICK i \in Unmarked(t) : p = <<i, row[i].id>>
      BY <1>3, <2>2
    <3>2. i \in Items /\ row[i] # Absent /\ p[2] = row[i].id
      BY <3>1 DEF Unmarked, Pending
    <3>3. p[2] \in Nat /\ p[2] <= rows
      BY <3>2, RowThere DEF RowIds, Row
    <3> QED
      BY <1>1, <3>3 DEF QueueTypes
  <2> QED
    BY <1>3, <2>1, <2>2, HandKept
<1> QED
  BY <1>2, <1>3 DEF RowIds

LEMMA ScanInvStep ==
    ASSUME ScannerConstants, ScanInv, [ScanNext]_scanVars
    PROVE  ScanInv'
<1>1. QueueTypes /\ ScanTypes /\ Turns /\ RowIds /\ Effect
  BY Effects DEF ScanInv
<1>2. QueueTypes'
  BY <1>1, EffectTypes, SkippedTypes DEF QueueTypes
<1>3. ScanTypes' /\ Turns'
  BY <1>1, EffectTypes, SkippedTypes, ScanKeepsOn, TurnKept
     DEF ScanTypes, Turns, ScanGoesOn, TaskTypes, SenderTypes
<1>4. RowIds'
  BY <1>1, IdsKept
<1> QED
  BY <1>2, <1>3, <1>4 DEF ScanInv

LEMMA ScanInvStarts ==
    ASSUME ScannerConstants, ScanInit
    PROVE  ScanInv /\ WarnInv /\ TruthInv /\ AloneInv
<1>1. PICK c \in Configs : libs = [l \in Libraries |-> IF l = CHOOSE m \in Libraries : TRUE
                                                       THEN c ELSE Absent]
  BY DEF ScanInit
<1>2. QueueTypes
  BY DEF ScanInit, QueueTypes
<1>3. ScanTypes
  BY <1>1 DEF ScanInit, ScanTypes
<1>4. /\ \A i \in Items : row[i] = Absent
      /\ \A s \in Senders : sender[s].at = "idle"
      /\ \A l \in Libraries : task[l].at = "idle"
      /\ run.at = "idle"
  BY DEF ScanInit, Idle
<1>5. Turns /\ RowIds
  BY <1>4 DEF Turns, RowIds, Senders
<1>6. WarnInv /\ TruthInv /\ AloneInv
  BY <1>4 DEF WarnInv, Warned, TruthInv, Honest, AloneInv
<1> QED
  BY <1>2, <1>3, <1>5, <1>6 DEF ScanInv

-----------------------------------------------------------------------------
(* A threshold is announced once, or twice where both senders have the row in
   hand at once; and a mark tells the truth. *)

LEMMA Numbers ==
    ASSUME ScanInv, NEW i \in Items, row[i] # Absent, NEW t \in Thresholds
    PROVE  /\ row[i].told[t] \in 0..3 /\ Limit(i, t) \in {1, 2} /\ Untold[t] = 0
           /\ \A s, p : Count(s, p, i, t) \in {0, 1}
<1>1. row[i].told \in [Thresholds -> 0..3]
  BY RowThere DEF ScanInv, Row
<1> QED
  BY <1>1 DEF Limit, Untold, Count

LEMMA Swap ==
    ASSUME ScanInv, NEW i \in Items, NEW t \in Thresholds,
           NEW s \in Senders, NEW z \in Senders, Warned(s, z, i, t)
    PROVE  Warned(z, s, i, t)
<1>1. row[i] # Absent => /\ row[i].told[t] \in 0..3 /\ Limit(i, t) \in {1, 2}
                         /\ \A y, p : Count(y, p, i, t) \in {0, 1}
  BY Numbers
<1> QED
  BY <1>1 DEF Warned

(* A sender that does not move has the rows in hand that it had. *)
LEMMA StillHeld ==
    ASSUME NEW i, NEW t, NEW s, sender'[s] = sender[s],
           row[i] # Absent, row'[i] # Absent, row'[i].id = row[i].id
    PROVE  /\ (InHand(s, i)' <=> InHand(s, i)) /\ (Held(s, i, t)' <=> Held(s, i, t))
           /\ \A p : Count(s, p, i, t)' = Count(s, p, i, t)
BY DEF Held, InHand, Count

(* One that reads, or is idle, has none. *)
LEMMA NotHeld ==
    ASSUME NEW i, NEW t, NEW s, sender[s].at \notin {"send", "mark"}
    PROVE  ~InHand(s, i) /\ ~Held(s, i, t) /\ \A p : Count(s, p, i, t) = 0
BY DEF Held, InHand, Count

LEMMA NotHeldAfter ==
    ASSUME NEW i, NEW t, NEW s, sender'[s].at \notin {"send", "mark"}
    PROVE  ~InHand(s, i)' /\ ~Held(s, i, t)' /\ \A p : Count(s, p, i, t)' = 0
BY DEF Held, InHand, Count

LEMMA ThinningKeeps ==
    ASSUME ScanInv, Thinning, NEW i \in Items, NEW t \in Thresholds
    PROVE  /\ Warned("scan", "deletion", i, t) => Warned("scan", "deletion", i, t)'
           /\ Honest(i, t) => Honest(i, t)'
<1> SUFFICES ASSUME row'[i] # Absent
             PROVE  /\ Warned("scan", "deletion", i, t) => Warned("scan", "deletion", i, t)'
                    /\ Honest(i, t) => Honest(i, t)'
  BY DEF Warned, Honest
<1>1. row[i] # Absent /\ Like(row'[i], row[i])
  BY DEF Thinning, Thins
<1>2. ASSUME NEW s \in Senders
      PROVE  /\ (Held(s, i, t)' <=> Held(s, i, t))
             /\ \A p : Count(s, p, i, t)' = Count(s, p, i, t)
             /\ Held(s, i, t)' => sender'[s].at = sender[s].at
  <2>1. \/ sender'[s] = sender[s]
        \/ sender[s].at = "idle" /\ sender'[s].at = "read"
    BY DEF Thinning, ScanInv, ScanTypes
  <2>2. CASE sender'[s] = sender[s]
    BY <1>1, <2>2, StillHeld DEF Like
  <2>3. CASE sender[s].at = "idle" /\ sender'[s].at = "read"
    BY <2>3, NotHeld, NotHeldAfter
  <2> QED
    BY <2>1, <2>2, <2>3
<1>3. "scan" \in Senders /\ "deletion" \in Senders
  BY DEF Senders
<1>4. Limit(i, t)' = Limit(i, t)
  BY <1>1 DEF Like, Limit
<1> QED
  BY <1>1, <1>2, <1>3, <1>4 DEF Warned, Honest, Like

LEMMA BirthKeeps ==
    ASSUME ScanInv, Birth, NEW i \in Items, NEW t \in Thresholds
    PROVE  /\ Warned("scan", "deletion", i, t) => Warned("scan", "deletion", i, t)'
           /\ Honest(i, t) => Honest(i, t)'
<1>1. PICK j, r : j \in Items /\ Born(j, r)
  BY DEF Birth
<1>2. sender' = sender
  BY DEF Birth
<1>3. CASE i = j
  <2>1. /\ row[i] = Absent /\ row'[i].id = rows + 1 /\ row'[i].marks = {}
        /\ row'[i].told[t] = 0
    BY <1>1, <1>3 DEF Born, ScanInv, QueueTypes, Untold
  <2>2. ASSUME NEW s \in Senders
        PROVE  ~Held(s, i, t)' /\ \A p : Count(s, p, i, t)' = 0
    <3>1. ASSUME InHand(s, i)' PROVE FALSE
      <4>1. sender[s].at \in {"send", "mark"} /\ <<i, rows + 1>> \in sender[s].rows
        BY <1>2, <2>1, <3>1 DEF InHand
      <4>2. rows + 1 <= rows
        BY <4>1 DEF ScanInv, RowIds
      <4> QED
        BY <4>2 DEF ScanInv, QueueTypes
    <3> QED
      BY <3>1 DEF Held, Count
  <2>3. "scan" \in Senders /\ "deletion" \in Senders
    BY DEF Senders
  <2>4. Limit(i, t)' \in {1, 2}
    BY DEF Limit
  <2> QED
    BY <2>1, <2>2, <2>3, <2>4 DEF Warned, Honest
<1>4. CASE i # j
  <2>1. row'[i] = row[i]
    BY <1>1, <1>4 DEF Born, ScanInv, QueueTypes
  <2>2. ASSUME NEW s PROVE (InHand(s, i)' <=> InHand(s, i))
    BY <1>2, <2>1 DEF InHand
  <2> QED
    BY <1>2, <2>1, <2>2 DEF Warned, Honest, Held, Count, Limit
<1> QED
  BY <1>3, <1>4

LEMMA RewritingKeeps ==
    ASSUME ScanInv, Rewriting, NEW i \in Items, NEW t \in Thresholds
    PROVE  /\ Warned("scan", "deletion", i, t) => Warned("scan", "deletion", i, t)'
           /\ Honest(i, t) => Honest(i, t)'
<1>1. PICK j, r : j \in Items /\ Rewrites(j, r)
  BY DEF Rewriting
<1>2. sender' = sender
  BY DEF Rewriting
<1>3. Turned(j, r)
  BY <1>1 DEF Rewrites, Moves, Clears, Premarks, Hears
<1>4. CASE i # j
  <2>1. row'[i] = row[i]
    BY <1>3, <1>4 DEF Turned, ScanInv, QueueTypes
  <2>2. ASSUME NEW s PROVE (InHand(s, i)' <=> InHand(s, i))
    BY <1>2, <2>1 DEF InHand
  <2> QED
    BY <1>2, <2>1, <2>2 DEF Warned, Honest, Held, Count, Limit
<1>5. CASE i = j
  <2>1. /\ row[i] # Absent /\ row'[i] = r /\ r \in Row /\ r.id = row[i].id
        /\ r.crossed = row[i].crossed
    BY <1>3, <1>5 DEF Turned, ScanInv, QueueTypes
  <2>2. CASE row'[i] = Absent
    BY <2>2 DEF Warned, Honest
  <2>3. CASE row'[i] # Absent
    <3>1. ASSUME NEW s
          PROVE  /\ (Held(s, i, t)' <=> Held(s, i, t))
                 /\ \A p : Count(s, p, i, t)' = Count(s, p, i, t)
      BY <1>2, <2>1, <2>3, StillHeld
    <3>2. Limit(i, t)' = Limit(i, t)
      BY <2>1 DEF Limit
    <3>3. /\ row[i].told[t] \in 0..3 /\ Limit(i, t) \in {1, 2} /\ Untold[t] = 0
          /\ \A s, p : Count(s, p, i, t) \in {0, 1}
      BY <2>1, Numbers
    <3>4. /\ Limit(i, t) = 2 <=> t \in row[i].crossed
          /\ \A s, p : Count(s, p, i, t) = 1 => Held(s, i, t)
      BY DEF Limit, Count
    <3>5. Warned("scan", "deletion", i, t) => Warned("scan", "deletion", i, t)'
      <4>1. CASE r.told = Untold
        BY <2>1, <3>1, <3>2, <3>3, <3>4, <4>1 DEF Warned
      <4>2. CASE Clears(i, r)
        BY <2>1, <3>1, <3>2, <3>3, <4>2 DEF Warned, Clears
      <4>3. CASE r.told = row[i].told /\ row[i].marks \subseteq r.marks /\ r.lost = row[i].lost
        BY <2>1, <3>1, <3>2, <3>3, <4>3 DEF Warned
      <4> QED
        BY <1>1, <1>5, <4>1, <4>2, <4>3 DEF Rewrites, Moves, Premarks, Hears
    <3>6. Honest(i, t) => Honest(i, t)'
      <4>1. ASSUME NEW s \in Senders, Held(s, i, t) PROVE Late(i) = {"late"}
        BY <4>1 DEF Late, Held
      <4>2. CASE Moves(i, r)
        <5>1. "moved" \in r.slack /\ Late(i) \subseteq r.slack
          BY <4>2 DEF Moves
        <5> QED
          BY <1>2, <2>1, <3>1, <4>1, <5>1 DEF Honest
      <4>3. CASE Clears(i, r)
        <5>1. r.marks = {} /\ r.told = row[i].told /\ r.slack = row[i].slack \cap Late(i)
          BY <4>3 DEF Clears
        <5> QED
          BY <1>2, <2>1, <3>1, <4>1, <5>1 DEF Honest
      <4>4. CASE Premarks(i, r)
        <5>1. r.told = row[i].told /\ "unheard" \in r.slack /\ row[i].slack \subseteq r.slack
          BY <4>4 DEF Premarks
        <5> QED
          BY <1>2, <2>1, <3>1, <5>1 DEF Honest
      <4>5. CASE Hears(i, r)
        <5>1. /\ r.told = row[i].told /\ r.marks \subseteq r.covered
              /\ "late" \in row[i].slack => "late" \in r.slack
          BY <4>5 DEF Hears
        <5> QED
          BY <1>2, <2>1, <3>1, <5>1 DEF Honest
      <4> QED
        BY <1>1, <1>5, <4>2, <4>3, <4>4, <4>5 DEF Rewrites
    <3> QED
      BY <3>5, <3>6
  <2> QED
    BY <2>2, <2>3
<1> QED
  BY <1>4, <1>5

LEMMA TalkKeepsRow ==
    ASSUME ScanInv, NEW s \in Senders, Talks(s), NEW z \in Senders, z # s,
           NEW i \in Items, row'[i] # Absent, NEW t \in Thresholds
    PROVE  /\ row[i] # Absent /\ row'[i].id = row[i].id
           /\ row'[i].covered = row[i].covered /\ row'[i].slack = row[i].slack
           /\ Held(z, i, t)' <=> Held(z, i, t)
           /\ \A p : Count(z, p, i, t)' = Count(z, p, i, t)
           /\ sender'[z] = sender[z]
           /\ row[i].told[t] \in 0..3 /\ Limit(i, t) \in {1, 2}
           /\ Limit(i, t) = 2 <=> t \in row[i].crossed
           /\ \A y, p : Count(y, p, i, t) \in {0, 1} /\ (Count(y, p, i, t) = 1 => Held(y, i, t))
           /\ \A y : Count(y, "send", i, t) + Count(y, "mark", i, t) <= 1
<1>1. row[i] # Absent /\ row'[i].id = row[i].id /\ sender'[z] = sender[z]
      /\ row'[i].covered = row[i].covered /\ row'[i].slack = row[i].slack
  BY DEF Talks, Keeps
<1>2. row[i].told[t] \in 0..3 /\ Limit(i, t) \in {1, 2}
  BY <1>1, Numbers
<1>3. /\ Held(z, i, t)' <=> Held(z, i, t)
      /\ \A p : Count(z, p, i, t)' = Count(z, p, i, t)
  BY <1>1, StillHeld
<1>4. /\ Limit(i, t) = 2 <=> t \in row[i].crossed
      /\ \A y, p : Count(y, p, i, t) \in {0, 1} /\ (Count(y, p, i, t) = 1 => Held(y, i, t))
      /\ \A y : Count(y, "send", i, t) + Count(y, "mark", i, t) <= 1
  BY DEF Limit, Count
<1> QED
  BY <1>1, <1>2, <1>3, <1>4

LEMMA ReadsKeep ==
    ASSUME ScanInv, NEW s \in Senders, NEW u \in Thresholds, Reads(s, u),
           NEW z \in Senders, z # s, \A y \in Senders : y = s \/ y = z,
           NEW i \in Items, NEW t \in Thresholds
    PROVE  /\ Warned(s, z, i, t) => Warned(s, z, i, t)'
           /\ Honest(i, t) => Honest(i, t)'
<1> SUFFICES ASSUME row'[i] # Absent
             PROVE  /\ Warned(s, z, i, t) => Warned(s, z, i, t)'
                    /\ Honest(i, t) => Honest(i, t)'
  BY DEF Warned, Honest
<1>1. Talks(s)
  BY DEF Reads
<1>2. /\ row[i] # Absent /\ row'[i].id = row[i].id
      /\ row'[i].covered = row[i].covered /\ row'[i].slack = row[i].slack
      /\ Held(z, i, t)' <=> Held(z, i, t)
      /\ \A p : Count(z, p, i, t)' = Count(z, p, i, t)
      /\ sender'[z] = sender[z]
      /\ row[i].told[t] \in 0..3 /\ Limit(i, t) \in {1, 2}
      /\ Limit(i, t) = 2 <=> t \in row[i].crossed
      /\ \A y, p : Count(y, p, i, t) \in {0, 1} /\ (Count(y, p, i, t) = 1 => Held(y, i, t))
      /\ \A y : Count(y, "send", i, t) + Count(y, "mark", i, t) <= 1
  BY <1>1, TalkKeepsRow
<1>3. /\ row'[i].told = row[i].told /\ row'[i].lost = row[i].lost
      /\ row'[i].marks = row[i].marks
      /\ row'[i].crossed = Add(row[i].crossed, Crosses(s, u, i), u)
  BY <1>2 DEF Reads
<1>4. ~Held(s, i, t) /\ \A p : Count(s, p, i, t) = 0
  BY NotHeld DEF Reads
<1>5. Held(s, i, t)' <=> t = u /\ i \in Unmarked(u)
  <2>1. InHand(s, i)' <=> <<i, row[i].id>> \in {<<j, row[j].id>> : j \in Unmarked(u)}
    BY <1>2 DEF InHand, Reads
  <2>2. <<i, row[i].id>> \in {<<j, row[j].id>> : j \in Unmarked(u)} <=> i \in Unmarked(u)
    OBVIOUS
  <2> QED
    BY <2>1, <2>2 DEF Held, Reads
<1>6. sender'[s].at = "send"
  BY DEF Reads
<1>7. Count(s, "mark", i, t)' = 0 /\ (Count(s, "send", i, t)' = IF Held(s, i, t)' THEN 1 ELSE 0)
  BY <1>6 DEF Count
<1>8. Limit(i, t)' = IF t \in row'[i].crossed THEN 2 ELSE 1
  BY DEF Limit
<1>9. Crosses(s, u, i) <=> i \in Unmarked(u) /\ InHand(z, i) /\ sender[z].t = u
  BY DEF Crosses
<1>10. row[i].crossed \subseteq row'[i].crossed
  BY <1>3 DEF Add
<1>11. CASE t = u /\ i \in Unmarked(u)
  <2>1. t \notin row[i].marks /\ Held(s, i, t)'
    BY <1>5, <1>11 DEF Unmarked
  <2>5. Honest(i, t) => Honest(i, t)'
    BY <1>2, <1>3, <1>6 DEF Honest
  <2>2. CASE Held(z, i, t)
    <3>1. t \in row'[i].crossed
      BY <1>3, <1>9, <1>11, <2>2 DEF Held, Add
    <3> QED
      BY <1>2, <1>3, <1>4, <1>7, <1>8, <2>1, <2>5, <3>1 DEF Warned
  <2>3. CASE ~Held(z, i, t)
    <3>1. \A p : Count(z, p, i, t) = 0
      BY <1>2, <2>3
    <3> QED
      BY <1>2, <1>3, <1>4, <1>7, <1>8, <2>1, <2>3, <2>5, <3>1 DEF Warned
  <2> QED
    BY <2>2, <2>3
<1>12. CASE ~(t = u /\ i \in Unmarked(u))
  <2>1. ~Held(s, i, t)' /\ Count(s, "send", i, t)' = 0
    BY <1>5, <1>7, <1>12
  <2>2. t \in row'[i].crossed <=> t \in row[i].crossed
    BY <1>3, <1>9, <1>12 DEF Add
  <2>3. Warned(s, z, i, t) => Warned(s, z, i, t)'
    BY <1>2, <1>3, <1>4, <1>7, <1>8, <2>1, <2>2 DEF Warned
  <2> QED
    BY <1>2, <1>3, <2>1, <2>3 DEF Honest
<1> QED
  BY <1>11, <1>12

LEMMA SaysKeep ==
    ASSUME ScanInv, NEW s \in Senders, Says(s),
           NEW z \in Senders, z # s, \A y \in Senders : y = s \/ y = z,
           NEW i \in Items, NEW t \in Thresholds
    PROVE  /\ Warned(s, z, i, t) => Warned(s, z, i, t)'
           /\ Honest(i, t) => Honest(i, t)'
<1> SUFFICES ASSUME row'[i] # Absent
             PROVE  /\ Warned(s, z, i, t) => Warned(s, z, i, t)'
                    /\ Honest(i, t) => Honest(i, t)'
  BY DEF Warned, Honest
<1>1. Talks(s)
  BY DEF Says
<1>2. /\ row[i] # Absent /\ row'[i].id = row[i].id
      /\ row'[i].covered = row[i].covered /\ row'[i].slack = row[i].slack
      /\ Held(z, i, t)' <=> Held(z, i, t)
      /\ \A p : Count(z, p, i, t)' = Count(z, p, i, t)
      /\ sender'[z] = sender[z]
      /\ row[i].told[t] \in 0..3 /\ Limit(i, t) \in {1, 2}
      /\ Limit(i, t) = 2 <=> t \in row[i].crossed
      /\ \A y, p : Count(y, p, i, t) \in {0, 1} /\ (Count(y, p, i, t) = 1 => Held(y, i, t))
      /\ \A y : Count(y, "send", i, t) + Count(y, "mark", i, t) <= 1
  BY <1>1, TalkKeepsRow
<1>3. /\ row'[i].marks = row[i].marks /\ row'[i].crossed = row[i].crossed
      /\ row'[i].told[t] = IF Held(s, i, t) THEN Up(row[i].told[t]) ELSE row[i].told[t]
  BY <1>2 DEF Says, Held
<1>4. Limit(i, t)' = Limit(i, t)
  BY <1>3 DEF Limit
<1>5. Held(s, i, t)' <=> Held(s, i, t)
  BY <1>2 DEF Says, Held, InHand
<1>6. /\ Count(s, "mark", i, t) = 0
      /\ Count(s, "send", i, t) = IF Held(s, i, t) THEN 1 ELSE 0
  BY DEF Says, Count
<1>7. Up(row[i].told[t]) > 0 /\ (row[i].told[t] < 3 => Up(row[i].told[t]) = row[i].told[t] + 1)
  BY <1>2 DEF Up
<1>8. Honest(i, t) => Honest(i, t)'
  <2>1. Held(s, i, t) => row'[i].told[t] > 0
    BY <1>3, <1>7
  <2>2. row[i].told[t] > 0 => row'[i].told[t] > 0
    BY <1>3, <1>7
  <2> QED
    BY <1>2, <1>3, <1>5, <2>1, <2>2 DEF Honest
<1>9. CASE sender'[s].at = "mark" /\ row'[i].lost = row[i].lost
  <2>1. /\ Count(s, "send", i, t)' = 0
        /\ Count(s, "mark", i, t)' = IF Held(s, i, t)' THEN 1 ELSE 0
    BY <1>9 DEF Count
  <2>2. CASE Held(s, i, t)
    BY <1>2, <1>3, <1>4, <1>5, <1>6, <1>7, <1>8, <1>9, <2>1, <2>2 DEF Warned
  <2>3. CASE ~Held(s, i, t)
    BY <1>2, <1>3, <1>4, <1>5, <1>6, <1>8, <1>9, <2>1, <2>3 DEF Warned
  <2> QED
    BY <2>2, <2>3
<1>10. CASE /\ sender'[s] = sender[s]
            /\ row'[i].lost = Add(row[i].lost, InHand(s, i), sender[s].t)
  <2>1. \A p : Count(s, p, i, t)' = Count(s, p, i, t)
    BY <1>2, <1>10, StillHeld
  <2>2. t \notin row'[i].lost => t \notin row[i].lost /\ ~Held(s, i, t)
    BY <1>10 DEF Add, Held
  <2> QED
    BY <1>2, <1>3, <1>4, <1>5, <1>8, <2>1, <2>2 DEF Warned
<1> QED
  BY <1>2, <1>9, <1>10 DEF Says

LEMMA NotesKeep ==
    ASSUME ScanInv, NEW s \in Senders, Notes(s) \/ Stops(s),
           NEW z \in Senders, z # s, \A y \in Senders : y = s \/ y = z,
           NEW i \in Items, NEW t \in Thresholds
    PROVE  /\ Warned(s, z, i, t) => Warned(s, z, i, t)'
           /\ Honest(i, t) => Honest(i, t)'
<1> SUFFICES ASSUME row'[i] # Absent
             PROVE  /\ Warned(s, z, i, t) => Warned(s, z, i, t)'
                    /\ Honest(i, t) => Honest(i, t)'
  BY DEF Warned, Honest
<1>1. Talks(s)
  BY DEF Notes, Stops
<1>2. /\ row[i] # Absent /\ row'[i].id = row[i].id
      /\ row'[i].covered = row[i].covered /\ row'[i].slack = row[i].slack
      /\ Held(z, i, t)' <=> Held(z, i, t)
      /\ \A p : Count(z, p, i, t)' = Count(z, p, i, t)
      /\ sender'[z] = sender[z]
      /\ row[i].told[t] \in 0..3 /\ Limit(i, t) \in {1, 2}
      /\ Limit(i, t) = 2 <=> t \in row[i].crossed
      /\ \A y, p : Count(y, p, i, t) \in {0, 1} /\ (Count(y, p, i, t) = 1 => Held(y, i, t))
      /\ \A y : Count(y, "send", i, t) + Count(y, "mark", i, t) <= 1
  BY <1>1, TalkKeepsRow
<1>3. ~Held(s, i, t)' /\ \A p : Count(s, p, i, t)' = 0
  BY NotHeldAfter DEF Notes, Stops
<1>4. /\ row'[i].told = row[i].told /\ row'[i].crossed = row[i].crossed
      /\ row[i].marks \subseteq row'[i].marks /\ row[i].lost \subseteq row'[i].lost
  BY <1>2 DEF Notes, Stops, Add
<1>5. Limit(i, t)' = Limit(i, t)
  BY <1>4 DEF Limit
<1>6. t \notin row'[i].lost /\ t \notin row'[i].marks => Count(s, "mark", i, t) = 0
  BY <1>2 DEF Notes, Stops, Add, Count, Held
<1>7. t \in row'[i].marks => t \in row[i].marks \/ (Held(s, i, t) /\ sender[s].at = "mark")
  BY <1>2 DEF Notes, Stops, Add, Held
<1>8. Warned(s, z, i, t) => Warned(s, z, i, t)'
  BY <1>2, <1>3, <1>4, <1>5, <1>6 DEF Warned
<1>9. Honest(i, t) => Honest(i, t)'
  BY <1>2, <1>3, <1>4, <1>7 DEF Honest
<1> QED
  BY <1>8, <1>9

LEMMA TalkingKeeps ==
    ASSUME ScanInv, ScanInv', NEW s \in Senders, NEW i \in Items, NEW t \in Thresholds,
           (\E u \in Thresholds : Reads(s, u)) \/ Says(s) \/ Notes(s) \/ Stops(s)
    PROVE  /\ Warned("scan", "deletion", i, t) => Warned("scan", "deletion", i, t)'
           /\ Honest(i, t) => Honest(i, t)'
<1>1. PICK z \in Senders : z # s /\ \A y \in Senders : y = s \/ y = z
  BY DEF Senders
<1>2. /\ Warned(s, z, i, t) => Warned(s, z, i, t)'
      /\ Honest(i, t) => Honest(i, t)'
  BY <1>1, ReadsKeep, SaysKeep, NotesKeep
<1>3. (s = "scan" /\ z = "deletion") \/ (s = "deletion" /\ z = "scan")
  BY <1>1 DEF Senders
<1>4. Warned(z, s, i, t)' <=> Warned(s, z, i, t)'
  <2>1. row'[i] # Absent => /\ row'[i].told[t] \in 0..3 /\ Limit(i, t)' \in {1, 2}
                            /\ \A y, p : Count(y, p, i, t)' \in {0, 1}
    <3>1. row'[i] # Absent => row'[i] \in Row
      BY DEF ScanInv, QueueTypes
    <3> QED
      BY <3>1 DEF Row, Limit, Count
  <2> QED
    BY <2>1 DEF Warned
<1>5. Warned(z, s, i, t) => Warned(s, z, i, t)
  BY Swap
<1> QED
  BY <1>2, <1>3, <1>4, <1>5

LEMMA MessagesStep ==
    ASSUME ScannerConstants, ScanInv, [ScanNext]_scanVars
    PROVE  (WarnInv => WarnInv') /\ (TruthInv => TruthInv')
<1>1. Effect /\ ScanInv'
  BY Effects, ScanInvStep DEF ScanInv
<1>2. ASSUME NEW i \in Items, NEW t \in Thresholds
      PROVE  /\ Warned("scan", "deletion", i, t) => Warned("scan", "deletion", i, t)'
             /\ Honest(i, t) => Honest(i, t)'
  BY <1>1, ThinningKeeps, BirthKeeps, RewritingKeeps, TalkingKeeps DEF Effect, Talking
<1> QED
  BY <1>2 DEF WarnInv, TruthInv

-----------------------------------------------------------------------------
(* What is ignored stays so. *)

(* A media appears in the queue by no other way than those of Enters. *)
LEMMA Appears ==
    ASSUME ScanInv, Effect, NEW i \in Items, row[i] = Absent, row'[i] # Absent
    PROVE  Enters(i)
<1>1. CASE Birth
  BY <1>1 DEF Birth, Born, ScanInv, QueueTypes
<1>2. CASE Thinning
  BY <1>2 DEF Thinning, Thins
<1>3. CASE Rewriting
  BY <1>3 DEF Rewriting, Rewrites, Moves, Clears, Premarks, Hears, Turned, ScanInv, QueueTypes
<1>4. ASSUME NEW s \in Senders, Talks(s) PROVE FALSE
  BY <1>4 DEF Talks, Keeps
<1> QED
  BY <1>1, <1>2, <1>3, <1>4 DEF Effect, Talking, Reads, Says, Notes, Stops

(* Without a client of the API, a media that is neither queued nor ignored
   stays so until a scan inserts it. *)
LEMMA NeitherStays ==
    ASSUME ScannerConstants, ScanInv, ~api, [ScanNext]_scanVars, NEW i \in Items, Neither(i),
           \A l \in Libraries : \A e \in task[l].eligible : InsertEntry(l, e) => e.item # i
    PROVE  Neither(i)'
<1>0. row[i] = Absent /\ skipped[i] = Absent /\ skipped \in [Items -> Skip \cup {Absent}]
  BY DEF Neither, ScanInv, QueueTypes
<1>1. row'[i] = Absent
  <2>1. ~RequeueIgnored(i)
    BY <1>0 DEF RequeueIgnored
  <2>2. Effect
    BY Effects DEF ScanInv
  <2> QED
    BY <1>0, <2>1, <2>2, Appears DEF Enters
<1>2. CASE Requests
  <2>1. ASSUME NEW j \in Items,
               IgnoreQueued(j) \/ AddIgnored(j) \/ RemoveIgnored(j) \/ RequeueIgnored(j)
        PROVE  skipped'[i] = Absent
    <3>1. j # i
      BY <1>0, <2>1 DEF IgnoreQueued, AddIgnored, RemoveIgnored, RequeueIgnored
    <3> QED
      BY <1>0, <2>1, <3>1 DEF IgnoreQueued, AddIgnored, RemoveIgnored, RequeueIgnored
  <2>2. ASSUME Cleanup PROVE skipped'[i] = Absent
    BY <1>0, <2>2 DEF Cleanup
  <2>3. ASSUME \/ \E j \in Items : TakeAway(j) \/ Play(j)
               \/ \E l \in Libraries, c \in Configs \cup {Absent} : SaveLibrary(l, c)
               \/ Tick
        PROVE  skipped'[i] = Absent
    BY <1>0, <2>3 DEF TakeAway, Play, SaveLibrary, Tick
  <2> QED
    BY <1>1, <1>2, <2>1, <2>2, <2>3 DEF Requests, Neither
<1> QED
  BY <1>0, <1>1, <1>2, Inside DEF Neither

LEMMA FewLibraries ==
    ASSUME ScannerConstants, NEW S \in SUBSET Libraries, Cardinality(S) <= 1,
           NEW l \in S, NEW m \in S
    PROVE  l = m
<1>1. IsFiniteSet(S) /\ Cardinality(S) \in Nat
  BY FS_Subset, FS_CardinalityType DEF ScannerConstants
<1>2. Cardinality(S) # 0
  BY <1>1, FS_EmptySet
<1>3. Cardinality(S) = 1
  BY <1>1, <1>2
<1> QED
  BY <1>1, <1>3, FS_Singleton

(* The libraries one of which a step scans: all of them at once by a whole
   scan, else one. *)
LEMMA AloneStarts ==
    ASSUME ScannerConstants, ScanInv, AloneInv,
           \/ \E u \in BOOLEAN : ScanServer(u)
           \/ \E l \in Libraries, u \in BOOLEAN : ScanOne(l, u),
           Alone'
    PROVE  OneTask' /\ \A l \in Libraries : task'[l].at # "idle" => Fresh(l)'
<1>0. \A l \in Libraries : task[l].at = "idle"
  BY NoTasks DEF ScanServer, ScanOne, ScanInv
<1>1. ASSUME NEW l \in Libraries,
             task'[l] = Started(l), run'.queued = Queued, run'.ignored = Ignored,
             UNCHANGED <<row, skipped>>
      PROVE  Fresh(l)'
  <2>1. task'[l].eligible = {}
    BY <1>1 DEF Started
  <2>2. \A i \in Items : i \notin Seen' => row[i] = Absent /\ skipped[i] = Absent
    BY <1>1 DEF Queued, Ignored, Seen
  <2> QED
    BY <1>1, <2>1, <2>2 DEF Fresh, Neither
<1>2. ASSUME NEW u \in BOOLEAN, ScanServer(u)
      PROVE  OneTask' /\ \A l \in Libraries : task'[l].at # "idle" => Fresh(l)'
  <2> DEFINE enabled == {l \in Libraries : libs[l] # Absent /\ libs[l].on}
  <2>1. run \in Scan /\ run.at = "server" /\ run.full /\ UNCHANGED <<row, skipped>>
    <3>1. run.at = "server" /\ UNCHANGED <<row, skipped>>
      BY <1>2 DEF ScanServer
    <3>2. run \in Scan
      BY <3>1 DEF ScanInv, ScanTypes, Idle
    <3>3. run.full
      BY <3>1, Zenon DEF AloneInv
    <3> QED
      BY <3>1, <3>2, <3>3
  <2>2. CASE /\ run' = [Snapshot EXCEPT !.at = "libs", !.todo = enabled, !.libs = enabled]
             /\ task' = [l \in Libraries |-> IF l \in enabled THEN Started(l) ELSE Idle]
    <3>1. run'.full = run.full /\ run'.libs = enabled
          /\ run'.queued = Queued /\ run'.ignored = Ignored
      BY <2>1, <2>2 DEF Snapshot, Scan
    <3>2. Cardinality(enabled) <= 1
      <4>1. IsFiniteSet(enabled) /\ Cardinality(enabled) \in Nat
        BY FS_Subset, FS_CardinalityType DEF ScannerConstants
      <4> QED
        BY <2>1, <3>1, <4>1 DEF Alone
    <3>3. \A l \in Libraries : task'[l].at # "idle" => l \in enabled /\ task'[l] = Started(l)
      BY <2>2 DEF Idle
    <3>4. OneTask'
      BY <3>2, <3>3, FewLibraries DEF OneTask
    <3> QED
      BY <1>1, <2>1, <3>1, <3>3, <3>4
  <2>3. CASE UNCHANGED task
    BY <1>0, <2>3 DEF OneTask
  <2> QED
    BY <1>2, <2>2, <2>3 DEF ScanServer
<1>3. ASSUME NEW l \in Libraries, NEW u \in BOOLEAN, ScanOne(l, u)
      PROVE  OneTask' /\ \A m \in Libraries : task'[m].at # "idle" => Fresh(m)'
  <2>1. run \in Scan /\ UNCHANGED <<row, skipped>>
    BY <1>3 DEF ScanOne, ScanInv, ScanTypes, Idle
  <2>2. CASE run' = Snapshot /\ task' = [task EXCEPT ![l] = Started(l)]
    <3>1. run'.queued = Queued /\ run'.ignored = Ignored
      BY <2>1, <2>2 DEF Snapshot, Scan
    <3>2. task'[l] = Started(l) /\ \A m \in Libraries : task'[m].at # "idle" => m = l
      BY <1>0, <2>2 DEF ScanInv, ScanTypes
    <3> QED
      BY <1>1, <2>1, <3>1, <3>2 DEF OneTask
  <2>3. CASE UNCHANGED task
    BY <1>0, <2>3 DEF OneTask
  <2> QED
    BY <1>3, <2>2, <2>3 DEF ScanOne
<1> QED
  BY <1>2, <1>3

LEMMA FreshStays ==
    ASSUME ScannerConstants, ScanInv, ~api, [ScanNext]_scanVars, NEW l \in Libraries, Fresh(l),
           \A m \in Libraries : \A e \in task[m].eligible : ~InsertEntry(m, e),
           run'.queued = run.queued, run'.ignored = run.ignored,
           task'[l].left \subseteq task[l].left,
           \/ task'[l].eligible \subseteq task[l].eligible
           \/ \E n : /\ task'[l].eligible = task[l].eligible \cup {n}
                     /\ n.item \notin grouped => n.item \notin Seen \cup task'[l].left
                     /\ n.item \in task[l].left
    PROVE  Fresh(l)'
<1>0. grouped' = grouped /\ Seen' = Seen
  BY Inside DEF Seen
<1>1. \A i \in Items : i \notin Seen' /\ i \notin grouped' => Neither(i)'
  BY <1>0, NeitherStays DEF Fresh
<1>2. CASE task'[l].eligible \subseteq task[l].eligible
  BY <1>0, <1>1, <1>2 DEF Fresh
<1>3. ASSUME NEW n, task'[l].eligible = task[l].eligible \cup {n},
             n.item \notin grouped => n.item \notin Seen \cup task'[l].left,
             n.item \in task[l].left
      PROVE  Fresh(l)'
  <2>1. \A e \in task[l].eligible : e.item \notin grouped => e.item # n.item
    BY <1>3 DEF Fresh
  <2>2. \A e \in task'[l].eligible :
           e.item \notin grouped' => e.item \notin Seen' \cup task'[l].left
    BY <1>0, <1>3 DEF Fresh
  <2>3. \A e, f \in task'[l].eligible : e.item = f.item /\ e.item \notin grouped' => e = f
    BY <1>0, <1>3, <2>1 DEF Fresh
  <2> QED
    BY <1>1, <2>2, <2>3 DEF Fresh
<1> QED
  BY <1>2, <1>3

LEMMA NotInserted ==
    ASSUME ScanTypes, NEW l \in Libraries, NEW e, InsertEntry(l, e)
    PROVE  /\ task[l].at = "insert" /\ task'[l].at = "premark" /\ task'[l].entry = e
           /\ \A m \in Libraries : m # l => task'[m] = task[m]
BY DEF InsertEntry, ScanTypes

(* No other step of a library takes an entry to insert. *)
LEMMA OtherStep ==
    ASSUME ScannerConstants, QueueTypes, ScanTypes, NEW l \in Libraries,
           \/ \E plays \in {{}, watched} : LoadData(l, plays)
           \/ \E i \in Items : Collect(l, i)
           \/ MoveDate(l) \/ ResetMarks(l) \/ RescheduleFails(l)
           \/ \E ok \in BOOLEAN : RefreshGroups(l, ok) \/ PreMark(l, ok) \/ Detect(l, ok)
           \/ \E e \in task[l].eligible : PassOver(l, e)
    PROVE  \A m \in Libraries : \A e : ~InsertEntry(m, e)
<1> SUFFICES ASSUME NEW m \in Libraries, NEW e, InsertEntry(m, e) PROVE FALSE
  OBVIOUS
<1>1. task[m].at = "insert" /\ task'[m].at = "premark"
  BY NotInserted
<1>2. TaskGoes(l)
  BY CollectGoes, OtherGoes
<1>3. m = l
  BY <1>1, <1>2 DEF TaskGoes, ScanTypes
<1>4. CASE \/ \E plays \in {{}, watched} : LoadData(l, plays)
           \/ \E i \in Items : Collect(l, i)
           \/ MoveDate(l) \/ ResetMarks(l) \/ RescheduleFails(l)
           \/ \E ok \in BOOLEAN : RefreshGroups(l, ok) \/ PreMark(l, ok) \/ Detect(l, ok)
  <2>1. task[l].at # "insert"
    BY <1>4 DEF LoadData, Collect, MoveDate, ResetMarks, RescheduleFails, RefreshGroups, PreMark,
                Detect
  <2> QED
    BY <1>1, <1>3, <2>1
<1>5. ASSUME NEW f \in task[l].eligible, PassOver(l, f) PROVE FALSE
  <2>1. task[l] \in Working /\ task[l].at = "insert"
    BY <1>5, TaskThere DEF PassOver
  <2> DEFINE t == [task[l] EXCEPT !.eligible = task[l].eligible \ {f}]
  <2>2. task' = [task EXCEPT ![l] = t]
    BY <1>5 DEF PassOver
  <2>3. t.at = "insert"
    BY <2>1 DEF Working
  <2> HIDE DEF t
  <2> QED
    BY <1>1, <1>3, <2>2, <2>3 DEF ScanTypes
<1> QED
  BY <1>4, <1>5


LEMMA FreshTask ==
    ASSUME ScannerConstants, ScanInv, ~api, [ScanNext]_scanVars, NEW l \in Libraries, Fresh(l),
           TaskStep(l)
    PROVE  Fresh(l)'
<1>0. QueueTypes /\ ScanTypes /\ Turns
  BY DEF ScanInv
<1>1. CASE \/ \E plays \in {{}, watched} : LoadData(l, plays)
           \/ MoveDate(l) \/ ResetMarks(l) \/ RescheduleFails(l)
           \/ \E ok \in BOOLEAN : RefreshGroups(l, ok) \/ PreMark(l, ok) \/ Detect(l, ok)
           \/ \E e \in task[l].eligible : PassOver(l, e)
  <2>1. /\ run' = run /\ task'[l].left = task[l].left
        /\ task'[l].eligible \subseteq task[l].eligible
    BY <1>0, <1>1, OtherGoes
  <2>2. \A m \in Libraries : \A e : ~InsertEntry(m, e)
    BY <1>0, <1>1, OtherStep
  <2> QED
    BY <2>1, <2>2, FreshStays
<1>2. ASSUME NEW i \in Items, Collect(l, i) PROVE Fresh(l)'
  <2> DEFINE n == [item |-> i, delete |-> day + task[l].lib.grace]
  <2>1. /\ run' = run /\ task'[l].left = task[l].left \ {i} /\ i \in task[l].left
        /\ \/ task'[l].eligible = task[l].eligible
           \/ Passes(l, i) /\ task'[l].eligible = task[l].eligible \cup {n}
    BY <1>0, <1>2, CollectGoes
  <2>2. \A m \in Libraries : \A e : ~InsertEntry(m, e)
    BY <1>0, <1>2, OtherStep
  <2>3. n.item = i
    OBVIOUS
  <2>4. Passes(l, i) => (i \notin grouped => i \notin Seen)
    BY DEF Passes, Seen
  <2> HIDE DEF n
  <2>5. CASE task'[l].eligible = task[l].eligible
    BY <2>1, <2>2, <2>5, FreshStays
  <2>6. CASE Passes(l, i) /\ task'[l].eligible = task[l].eligible \cup {n}
    <3>1. n.item \notin grouped => n.item \notin Seen \cup task'[l].left
      BY <2>1, <2>3, <2>4, <2>6
    <3> QED
      BY <2>1, <2>2, <2>3, <2>6, <3>1, FreshStays
  <2> QED
    BY <2>1, <2>5, <2>6
<1>3. ASSUME NEW e \in task[l].eligible, InsertEntry(l, e) PROVE Fresh(l)'
  <2>1. /\ run' = [run EXCEPT !.queued = run.queued \cup {e.item}]
        /\ task'[l].left = {} /\ task'[l].eligible = task[l].eligible \ {e}
        /\ task'[l].entry = e
    BY <1>0, <1>3, InsertGoes
  <2>2. run \in Scan
    BY <1>0, <1>3, AtLibs, NotInserted
  <2>3. run'.queued = run.queued \cup {e.item} /\ run'.ignored = run.ignored
    BY <2>1, <2>2 DEF Scan
  <2>4. Seen' = Seen \cup {e.item} /\ grouped' = grouped
    BY <2>3, Inside DEF Seen
  <2>5. ASSUME NEW m \in Libraries, NEW f \in task[m].eligible, InsertEntry(m, f)
        PROVE  f = e
    <3>1. m = l
      BY <1>0, <1>3, <2>5, NotInserted
    <3> QED
      BY <1>0, <2>1, <2>5, <3>1, NotInserted
  <2>6. \A i \in Items : i \notin Seen' /\ i \notin grouped' => Neither(i)'
    BY <2>4, <2>5, NeitherStays DEF Fresh
  <2>7. \A f \in task'[l].eligible :
           f.item \notin grouped' => f.item \notin Seen' \cup task'[l].left
    BY <2>1, <2>4 DEF Fresh
  <2>8. \A f, g \in task'[l].eligible : f.item = g.item /\ f.item \notin grouped' => f = g
    BY <2>1, <2>4 DEF Fresh
  <2> QED
    BY <2>6, <2>7, <2>8 DEF Fresh
<1> QED
  BY <1>1, <1>2, <1>3 DEF TaskStep

(* Only run_scan begins with the server. *)
LEMMA ServerFirst ==
    ASSUME ScannerConstants, ScanInv, [ScanNext]_scanVars
    PROVE  run' = run \/ RunScan \/ run'.at # "server"
<1>0. QueueTypes /\ ScanTypes /\ Turns
  BY DEF ScanInv
<1>1. CASE \E ls \in SUBSET Libraries \ {{}} : RunScanLibraries(ls)
  BY <1>1 DEF RunScanLibraries
<1>2. CASE CachesFail
  <2>1. CASE run' = Idle
    BY <2>1 DEF Idle
  <2>2. CASE run.at = "libs" /\ run' = [run EXCEPT !.todo = {}]
    BY <1>0, <2>2 DEF ScanTypes, Idle, Scan
  <2> QED
    BY <1>2, <2>1, <2>2 DEF CachesFail
<1>3. CASE \/ \E u \in BOOLEAN : ScanServer(u)
           \/ \E l \in Libraries, u \in BOOLEAN : ScanOne(l, u)
  <2>1. run \in Scan /\ run.at \in {"server", "libs"}
    <3>1. run.at \in {"server", "libs"}
      BY <1>3 DEF ScanServer, ScanOne
    <3> QED
      BY <1>0, <3>1 DEF ScanTypes, Idle
  <2>2. \/ \E x \in SUBSET Libraries :
              run' = [Snapshot EXCEPT !.at = "libs", !.todo = x, !.libs = x]
        \/ run' = [run EXCEPT !.at = "purge"]
        \/ run.at = "libs" /\ run' = Snapshot
        \/ run.at = "libs" /\ \E l \in Libraries : run' = [run EXCEPT !.todo = @ \ {l}]
    BY <1>3 DEF ScanServer, ScanOne
  <2> QED
    BY <2>1, <2>2 DEF Snapshot, Scan
<1>4. ASSUME NEW l \in Libraries, LoadFails(l) \/ LibraryDone(l)
      PROVE  run'.at # "server"
  <2>1. task[l].at # "idle" /\ run' = [run EXCEPT !.todo = @ \ {l}]
    BY <1>4 DEF LoadFails, LibraryDone
  <2>2. run \in Scan /\ run.at = "libs"
    BY <1>0, <2>1, AtLibs
  <2> QED
    BY <2>1, <2>2 DEF Scan
<1>5. ASSUME NEW l \in Libraries, TaskStep(l) PROVE run'.at # "server"
  <2>1. task[l].at # "idle" /\ TaskGoes(l)
    BY <1>0, <1>5, TaskSteps
  <2>2. run \in Scan /\ run.at = "libs"
    BY <1>0, <2>1, AtLibs
  <2> QED
    BY <2>1, <2>2 DEF TaskGoes, Scan
<1>6. CASE Purge \/ LibrariesDone
  BY <1>0, <1>6, ScanNotifies
<1>7. CASE ScanTimesOut
  BY <1>7 DEF ScanTimesOut, Idle
<1>8. ASSUME NEW s \in Senders, Talk(s) PROVE run' = run \/ run'.at # "server"
  BY <1>8 DEF Talk, ReadThreshold, SendThreshold, Unanswered, SendFails, MarkThreshold, MarkFails,
              NotifyEnds, Idle
<1> QED
  BY <1>1, <1>2, <1>3, <1>4, <1>5, <1>6, <1>7, <1>8, Outside, ScanActions


LEMMA AloneStep ==
    ASSUME ScannerConstants, ScanInv, AloneInv, [ScanNext]_scanVars
    PROVE  AloneInv'
<1>0. QueueTypes /\ ScanTypes /\ Turns /\ api' = api
  BY Inside DEF ScanInv
<1>1. run'.at = "server" => run'.full
  <2>1. CASE RunScan
    BY <2>1 DEF RunScan
  <2>2. CASE run' = run
    BY <2>2, Zenon DEF AloneInv
  <2> QED
    BY <2>1, <2>2, ServerFirst
<1>2. SUFFICES ASSUME ~api, run'.at = "libs", Alone'
               PROVE  OneTask' /\ \A l \in Libraries : task'[l].at # "idle" => Fresh(l)'
  BY <1>0, <1>1, Zenon DEF AloneInv
<1>3. ASSUME run.at = "libs", Alone
      PROVE  OneTask /\ \A l \in Libraries : task[l].at # "idle" => Fresh(l)
  BY <1>2, <1>3 DEF AloneInv
<1>4. CASE UNCHANGED <<run, task>>
  <2>1. run.at = "libs" /\ Alone
    BY <1>2, <1>4 DEF Alone
  <2>2. \A m \in Libraries : \A e \in task[m].eligible : ~InsertEntry(m, e)
    BY <1>0, <1>4, NotInserted
  <2>3. ASSUME NEW l \in Libraries, task[l].at # "idle" PROVE Fresh(l)'
    BY <1>2, <1>3, <1>4, <2>1, <2>2, <2>3, FreshStays
  <2> QED
    BY <1>3, <1>4, <2>1, <2>3 DEF OneTask
<1>5. CASE \A l \in Libraries : task'[l].at = "idle"
  BY <1>5 DEF OneTask
<1>6. CASE \/ \E u \in BOOLEAN : ScanServer(u)
           \/ \E l \in Libraries, u \in BOOLEAN : ScanOne(l, u)
  BY <1>2, <1>6, AloneStarts
<1>7. ASSUME NEW l \in Libraries, TaskStep(l)
      PROVE  OneTask' /\ \A m \in Libraries : task'[m].at # "idle" => Fresh(m)'
  <2>1. task[l].at # "idle" /\ TaskGoes(l)
    BY <1>0, <1>7, TaskSteps
  <2>2. run \in Scan /\ run.at = "libs" /\ \A m \in Libraries : m # l => task'[m] = task[m]
    BY <1>0, <2>1, AtLibs DEF TaskGoes, ScanTypes
  <2>3. run'.full = run.full /\ run'.libs = run.libs
    BY <2>1, <2>2 DEF TaskGoes, Scan
  <2>4. Alone
    BY <1>2, <2>3 DEF Alone
  <2>5. OneTask /\ Fresh(l)
    BY <1>3, <2>1, <2>2, <2>4
  <2>6. Fresh(l)'
    BY <1>2, <1>7, <2>5, FreshTask
  <2>7. \A m \in Libraries : task'[m].at # "idle" => m = l
    BY <2>1, <2>2, <2>5 DEF OneTask
  <2> QED
    BY <2>6, <2>7 DEF OneTask
<1>8. ASSUME NEW l \in Libraries, LoadFails(l) \/ LibraryDone(l)
      PROVE  \A m \in Libraries : task'[m].at = "idle"
  <2>1. /\ task[l].at # "idle" /\ task' = [task EXCEPT ![l] = Idle]
        /\ run' = [run EXCEPT !.todo = @ \ {l}]
    BY <1>8 DEF LoadFails, LibraryDone
  <2>2. run \in Scan /\ run.at = "libs"
    BY <1>0, <2>1, AtLibs
  <2>3. run'.full = run.full /\ run'.libs = run.libs
    BY <2>1, <2>2 DEF Scan
  <2>4. OneTask
    BY <1>2, <1>3, <2>2, <2>3 DEF Alone
  <2> QED
    BY <1>0, <2>1, <2>4 DEF OneTask, ScanTypes, Idle
<1>9. CASE \/ RunScan \/ (\E ls \in SUBSET Libraries \ {{}} : RunScanLibraries(ls))
           \/ CachesFail \/ ScanTimesOut
  <2>1. \A l \in Libraries : task'[l].at = "idle"
    BY <1>0, <1>9, NoTasks DEF RunScan, RunScanLibraries, MayScan, CachesFail, ScanTimesOut, Idle
  <2> QED
    BY <1>5, <2>1
<1>10. CASE Purge \/ LibrariesDone
  BY <1>0, <1>2, <1>10, ScanNotifies
<1>11. ASSUME NEW s \in Senders, Talk(s) PROVE UNCHANGED <<run, task>> \/ run'.at = "idle"
  BY <1>11 DEF Talk, ReadThreshold, SendThreshold, Unanswered, SendFails, MarkThreshold, MarkFails,
               NotifyEnds, Idle
<1> QED
  BY <1>2, <1>4, <1>5, <1>6, <1>7, <1>8, <1>9, <1>10, <1>11, Outside, ScanActions

LEMMA IgnoredStays ==
    ASSUME ScannerConstants, ScanInv, AloneInv, [ScanNext]_scanVars
    PROVE  NotPutBack
<1> SUFFICES ASSUME NEW i \in Items, ~api, i \notin grouped, row[i] = Absent, row'[i] # Absent,
                    skipped[i] # Absent, skipped'[i] = skipped[i], Alone
             PROVE  FALSE
  <2>1. NotPutBack <=>
          \A i \in Items :
             ~(/\ ~api /\ i \notin grouped /\ row[i] = Absent /\ row'[i] # Absent
               /\ skipped[i] # Absent /\ skipped'[i] = skipped[i] /\ Alone)
    BY DEF NotPutBack, Alone
  <2> QED
    BY <2>1
<1>1. Enters(i)
  BY Effects, Appears DEF ScanInv
<1>2. CASE RequeueIgnored(i)
  BY <1>2 DEF RequeueIgnored, ScanInv, QueueTypes
<1>3. ASSUME NEW l \in Libraries, NEW e \in task[l].eligible, task[l].at = "insert", e.item = i
      PROVE  FALSE
  <2>1. run.at = "libs"
    BY <1>3 DEF ScanInv, Turns
  <2>2. Fresh(l)
    BY <1>3, <2>1 DEF AloneInv
  <2>3. i \notin Seen
    BY <1>3, <2>2 DEF Fresh
  <2>4. Neither(i)
    BY <2>2, <2>3 DEF Fresh
  <2> QED
    BY <2>4 DEF Neither
<1> QED
  BY <1>1, <1>2, <1>3 DEF Enters

-----------------------------------------------------------------------------
(* _send_pending_notifications: a threshold is announced once for a row and the
   date it has, however the scan and the job interleave; twice only when both
   have the row in hand, and more often only when an answer or a mark is lost.
   Every message under way is told from one that is marked (WarnInv). *)
THEOREM WarnedOnlyOnce == ScannerConstants /\ ScanSpec => []WarnedOnce
<1>1. ASSUME ScannerConstants PROVE ScanSpec => []WarnedOnce
  <2>1. ScanInit => ScanInv /\ WarnInv
    BY <1>1, ScanInvStarts
  <2>2. ScanInv /\ WarnInv /\ [ScanNext]_scanVars => ScanInv' /\ WarnInv'
    BY <1>1, ScanInvStep, MessagesStep
  <2>3. ScanInv /\ WarnInv => WarnedOnce
    <3> SUFFICES ASSUME ScanInv, WarnInv, NEW i \in Items, NEW t \in Thresholds,
                        row[i] # Absent, t \notin row[i].lost
                 PROVE  row[i].told[t] <= Limit(i, t)
      BY DEF WarnedOnce, Limit
    <3>1. row[i].told[t] \in Nat
      BY RowThere DEF ScanInv, Row
    <3>2. Count("scan", "send", i, t) \in {0, 1} /\ Count("deletion", "send", i, t) \in {0, 1}
          /\ Limit(i, t) \in {1, 2}
      BY DEF Count, Limit
    <3>3. row[i].told[t] + Count("scan", "send", i, t) + Count("deletion", "send", i, t)
             <= Limit(i, t)
      BY DEF WarnInv, Warned
    <3> QED
      BY <3>1, <3>2, <3>3
  <2> QED
    BY <2>1, <2>2, <2>3, PTL DEF ScanSpec
<1> QED
  BY <1>1

(* _pre_mark_applicable_thresholds, _update_delete_at_if_pending: a mark stands
   for a message about the date the row has now, unless the reset of the marks,
   or the message on the detection, has not followed, or the date moved under a
   message on its way. *)
THEOREM MarksAreTrue == ScannerConstants /\ ScanSpec => []MarkIsTrue
<1>1. ASSUME ScannerConstants PROVE ScanSpec => []MarkIsTrue
  <2>1. ScanInit => ScanInv /\ TruthInv
    BY <1>1, ScanInvStarts
  <2>2. ScanInv /\ TruthInv /\ [ScanNext]_scanVars => ScanInv' /\ TruthInv'
    BY <1>1, ScanInvStep, MessagesStep
  <2>3. ScanInv /\ TruthInv => MarkIsTrue
    <3> SUFFICES ASSUME ScanInv, TruthInv, NEW i \in Items, row[i] # Absent, row[i].slack = {},
                        NEW t \in row[i].marks
                 PROVE  row[i].told[t] > 0 \/ t \in row[i].covered
      BY DEF MarkIsTrue
    <3>1. t \in Thresholds
      BY RowThere DEF ScanInv, Row
    <3> QED
      BY <3>1 DEF TruthInv, Honest
  <2> QED
    BY <2>1, <2>2, <2>3, PTL DEF ScanSpec
<1> QED
  BY <1>1

(* get_queued_and_ignored_ids against ignore_one: a scan of one library at a
   time puts nothing back that a user has taken out of the queue meanwhile, but
   for seasons and series, whose ignored ids no scan looks at. *)
THEOREM IgnoredIsKept == ScannerConstants /\ ScanSpec => StaysIgnored
<1>1. ASSUME ScannerConstants PROVE ScanSpec => StaysIgnored
  <2>1. ScanInit => ScanInv /\ AloneInv
    BY <1>1, ScanInvStarts
  <2>2. ScanInv /\ AloneInv /\ [ScanNext]_scanVars => ScanInv' /\ AloneInv'
    BY <1>1, ScanInvStep, AloneStep
  <2>3. ScanInv /\ AloneInv /\ [ScanNext]_scanVars => [NotPutBack]_scanVars
    BY <1>1, IgnoredStays
  <2> QED
    BY <2>1, <2>2, <2>3, PTL DEF ScanSpec, StaysIgnored
<1> QED
  BY <1>1

-----------------------------------------------------------------------------
(* ArrDelete. *)

ByList == {"season", "series"}
Jobs == [step : {"list", "delete", "find", "stop"}, kind : Kinds, attempt : Nat,
         ids : SUBSET Files]

(* A call under way has returned nothing. *)
JobTypes ==
    /\ losses \in Nat
    /\ present \subseteq Files
    /\ job \in Jobs \cup {Resting}
    /\ job \in Jobs => outcome = "none" /\ (job.step # "delete" => job.kind \in ByList)

(* The call reaches no further than asked. *)
Within == job \in Jobs => wiped \subseteq Wanted(job.kind) /\ job.ids \subseteq Wanted(job.kind)

(* What it was asked for is in its list or has come since; after the deletion
   it is gone or has come since. *)
Left == present \cap Wanted(job.kind)
Accounted ==
    /\ job \in Jobs /\ job.step = "delete" /\ job.kind \in ByList
         => Left \subseteq job.ids \cup imported
    /\ job \in Jobs /\ job.step \in {"find", "stop"} => Left \subseteq imported

(* Nothing is deleted before the deletion, unless it is a second attempt. *)
FirstTry ==
    job \in Jobs /\ job.kind = "series" /\ losses = 0 /\ job.step \in {"list", "delete"}
        => wiped = {}

ArrInv == JobTypes /\ Within /\ Accounted /\ FirstTry

LEMMA ArrStarts ==
    ASSUME ArrInit
    PROVE  ArrInv
<1>1. Resting \notin Jobs
  BY DEF Resting, Jobs
<1> QED
  BY <1>1 DEF ArrInit, ArrInv, JobTypes, Within, Accounted, FirstTry

(* A call is at rest or has the fields of one. *)
LEMMA AtRest ==
    ASSUME JobTypes
    PROVE  /\ Resting \notin Jobs
           /\ job.step # "idle" => job \in Jobs
           /\ job.step = "idle" => job = Resting
  BY DEF JobTypes, Jobs, Resting

(* Another attempt begins like the first, with nothing listed. *)
LEMMA Retrying ==
    ASSUME ArrDeleteConstants, ArrInv, job \in Jobs, Breaks, Loses,
           wiped' \subseteq Wanted(job.kind), present' \subseteq Files,
           present' \cap Wanted(job.kind) \subseteq imported' \cup present'
    PROVE  ArrInv' /\ outcome' # "yes"
<1>1. losses' \in Nat /\ losses' # 0
  BY DEF Loses, ArrInv, JobTypes
<1>2. CASE job' = Resting /\ outcome' = "no"
  BY <1>1, <1>2 DEF ArrInv, JobTypes, Within, Accounted, FirstTry, Resting, Jobs
<1>3. CASE /\ job' = [step |-> FirstStep(job.kind), kind |-> job.kind,
                      attempt |-> job.attempt + 1, ids |-> {}]
           /\ outcome' = outcome
  <2>1. job'.kind = job.kind /\ job'.step = FirstStep(job.kind) /\ job'.ids = {} /\ job' \in Jobs
    BY <1>3 DEF Jobs, FirstStep
  <2>2. outcome' = "none"
    BY <1>3 DEF ArrInv, JobTypes
  <2>3. JobTypes'
    BY <1>1, <2>1, <2>2 DEF JobTypes, FirstStep, ByList
  <2>4. Within'
    BY <2>1 DEF Within
  <2>5. Accounted'
    BY <2>1 DEF Accounted, FirstStep, ByList
  <2>6. FirstTry'
    BY <1>1 DEF FirstTry
  <2> QED
    BY <2>2, <2>3, <2>4, <2>5, <2>6 DEF ArrInv
<1> QED
  BY <1>2, <1>3 DEF Breaks, Retry, Returns

(* What the answer "done" says. *)
Truth == SuccessIsReal /\ StopsInPeace

LEMMA NoNewAnswer ==
    ASSUME outcome' = "yes" => outcome = "yes" /\ job.step = "idle"
    PROVE  Truth
  BY DEF Truth, SuccessIsReal, StopsInPeace

LEMMA ListStep ==
    ASSUME ArrDeleteConstants, ArrInv, List
    PROVE  ArrInv' /\ Truth
<1>1. job \in Jobs /\ job.kind \in ByList /\ outcome = "none"
  BY AtRest DEF List, ArrInv, JobTypes
<1>2. UNCHANGED <<present, wiped, imported, watching>>
  BY DEF List, arrState
<1>3. CASE ListedIds = {} /\ Returns("yes") /\ UNCHANGED losses
  <2>1. ArrInv'
    BY <1>2, <1>3 DEF Returns, ArrInv, JobTypes, Within, Accounted, FirstTry, Resting, Jobs
  <2>2. SuccessIsReal
    BY <1>1, <1>2, <1>3 DEF SuccessIsReal, ListedIds, ArrInv, Within
  <2>3. StopsInPeace
    BY <1>1, <1>2, <1>3 DEF StopsInPeace, ArrInv, FirstTry, List
  <2> QED
    BY <2>1, <2>2, <2>3 DEF Truth
<1>4. CASE /\ ListedIds # {} /\ job' = [job EXCEPT !.step = "delete", !.ids = ListedIds]
           /\ UNCHANGED <<losses, outcome>>
  <2>1. ListedIds \subseteq Files /\ ListedIds \subseteq Wanted(job.kind)
    BY DEF ListedIds, ArrInv, JobTypes
  <2>2. job' \in Jobs /\ job'.kind = job.kind /\ job'.step = "delete" /\ job'.ids = ListedIds
    BY <1>1, <1>4, <2>1 DEF Jobs
  <2>3. JobTypes' /\ Within'
    BY <1>1, <1>2, <1>4, <2>1, <2>2 DEF ArrInv, JobTypes, Within
  <2>4. Accounted'
    BY <1>2, <2>2 DEF Accounted, ListedIds, Left
  <2>5. FirstTry'
    BY <1>1, <1>2, <1>4, <2>2 DEF ArrInv, FirstTry, List
  <2> QED
    BY <1>1, <1>4, <2>3, <2>4, <2>5, NoNewAnswer DEF ArrInv
<1>5. CASE Loses /\ Breaks
  <2>1. ArrInv' /\ outcome' # "yes"
    BY <1>1, <1>2, <1>5, Retrying DEF ArrInv, JobTypes, Within
  <2> QED
    BY <2>1, NoNewAnswer
<1> QED
  BY <1>3, <1>4, <1>5 DEF List

(* The deletion leaves of what was asked for what has come since. *)
LEMMA Wiping ==
    ASSUME ArrDeleteConstants, ArrInv, job \in Jobs, job.step = "delete",
           Wipe \/ (Ids \cap present = {} /\ job.kind \in ByList /\ UNCHANGED <<arrState, imported>>)
    PROVE  /\ present' \subseteq Files
           /\ wiped' \subseteq Wanted(job.kind)
           /\ present' \cap Wanted(job.kind) \subseteq imported'
<1>1. Ids \subseteq Wanted(job.kind)
  BY DEF Ids, ArrInv, Within
<1>2. present \cap Wanted(job.kind) \subseteq Ids \cup imported
  BY DEF Ids, ArrInv, Accounted, Left, ByList
<1>3. CASE Wipe
  BY <1>1, <1>2, <1>3 DEF Wipe, ArrInv, JobTypes, Within
<1>4. CASE Ids \cap present = {} /\ UNCHANGED <<arrState, imported>>
  BY <1>1, <1>2, <1>4 DEF arrState, ArrInv, JobTypes, Within
<1> QED
  BY <1>3, <1>4

LEMMA DeleteStep ==
    ASSUME ArrDeleteConstants, ArrInv, Delete
    PROVE  ArrInv' /\ Truth
<1>1. job \in Jobs /\ job.step = "delete" /\ outcome = "none" /\ losses \in Nat
  BY AtRest DEF Delete, ArrInv, JobTypes
<1>2. ASSUME job.kind \in ByList, Step("find"), UNCHANGED <<outcome, losses>>,
             Wipe \/ (Ids \cap present = {} /\ UNCHANGED <<arrState, imported>>)
      PROVE  ArrInv' /\ Truth
  <2>1. job' \in Jobs /\ job'.step = "find" /\ job'.kind = job.kind /\ job'.ids = job.ids
    BY <1>1, <1>2 DEF Step, Jobs
  <2>2. /\ present' \subseteq Files /\ wiped' \subseteq Wanted(job.kind)
        /\ present' \cap Wanted(job.kind) \subseteq imported'
    BY <1>1, <1>2, Wiping
  <2>3. JobTypes' /\ Within'
    BY <1>1, <1>2, <2>1, <2>2 DEF ArrInv, JobTypes, Within
  <2>4. Accounted' /\ FirstTry'
    BY <2>1, <2>2 DEF Accounted, FirstTry, Left
  <2> QED
    BY <1>1, <1>2, <2>3, <2>4, NoNewAnswer DEF ArrInv
<1>3. CASE Wipe /\ FirstStep(job.kind) # "list" /\ Returns("yes") /\ UNCHANGED losses
  <2>1. /\ present' \subseteq Files /\ wiped' \subseteq Wanted(job.kind)
        /\ present' \cap Wanted(job.kind) \subseteq imported'
    BY <1>1, <1>3, Wiping
  <2>2. job.kind # "series"
    BY <1>3 DEF FirstStep
  <2>3. ArrInv'
    BY <1>1, <1>3, <2>1 DEF Returns, ArrInv, JobTypes, Within, Accounted, FirstTry, Resting, Jobs
  <2> QED
    BY <2>1, <2>2, <2>3 DEF Truth, SuccessIsReal, StopsInPeace
<1>4. CASE FirstStep(job.kind) # "list" /\ Returns("no") /\ UNCHANGED <<arrState, imported, losses>>
  <2>1. ArrInv'
    BY <1>1, <1>4 DEF Returns, arrState, ArrInv, JobTypes, Within, Accounted, FirstTry, Resting, Jobs
  <2> QED
    BY <1>4, <2>1, NoNewAnswer DEF Returns
<1>5. CASE Wipe /\ Loses /\ Breaks
  <2>1. present' \subseteq Files /\ wiped' \subseteq Wanted(job.kind)
    BY <1>1, <1>5, Wiping
  <2>2. ArrInv' /\ outcome' # "yes"
    BY <1>1, <1>5, <2>1, Retrying
  <2> QED
    BY <2>2, NoNewAnswer
<1>6. CASE Loses /\ Breaks /\ UNCHANGED <<arrState, imported>>
  <2>1. present' \subseteq Files /\ wiped' \subseteq Wanted(job.kind)
    BY <1>1, <1>6 DEF arrState, ArrInv, JobTypes, Within
  <2>2. ArrInv' /\ outcome' # "yes"
    BY <1>1, <1>6, <2>1, Retrying
  <2> QED
    BY <2>2, NoNewAnswer
<1>7. FirstStep(job.kind) = "list" <=> job.kind \in ByList
  BY DEF FirstStep, ByList
<1> QED
  BY <1>2, <1>3, <1>4, <1>5, <1>6, <1>7 DEF Delete

LEMMA FindStep ==
    ASSUME ArrDeleteConstants, ArrInv, Find
    PROVE  ArrInv' /\ Truth
<1>1. job \in Jobs /\ job.step = "find" /\ outcome = "none" /\ losses \in Nat
  BY AtRest DEF Find, ArrInv, JobTypes
<1>2. UNCHANGED <<present, wiped, imported, watching>>
  BY DEF Find, arrState
<1>3. CASE job' = [job EXCEPT !.step = "stop", !.ids = @ \cap linked] /\ UNCHANGED <<losses, outcome>>
  <2>1. /\ job' \in Jobs /\ job'.step = "stop" /\ job'.kind = job.kind
        /\ job'.ids \subseteq job.ids
    BY <1>1, <1>3 DEF Jobs
  <2>2. JobTypes' /\ Within'
    BY <1>1, <1>2, <1>3, <2>1 DEF ArrInv, JobTypes, Within
  <2>3. Accounted' /\ FirstTry'
    BY <1>1, <1>2, <2>1 DEF ArrInv, Accounted, FirstTry, Left
  <2> QED
    BY <1>1, <1>3, <2>2, <2>3, NoNewAnswer DEF ArrInv
<1>4. CASE Loses /\ Breaks
  <2>1. ArrInv' /\ outcome' # "yes"
    BY <1>1, <1>2, <1>4, Retrying DEF ArrInv, JobTypes, Within
  <2> QED
    BY <2>1, NoNewAnswer
<1>5. CASE Loses /\ Returns("yes")
  <2>1. losses' \in Nat /\ losses' # 0
    BY <1>1, <1>5 DEF Loses
  <2>2. ArrInv'
    BY <1>2, <1>5, <2>1 DEF Returns, ArrInv, JobTypes, Within, Accounted, FirstTry, Resting, Jobs
  <2>3. SuccessIsReal /\ StopsInPeace
    BY <1>1, <1>2, <2>1 DEF SuccessIsReal, StopsInPeace, ArrInv, Within, Accounted, Left
  <2> QED
    BY <2>2, <2>3 DEF Truth
<1> QED
  BY <1>3, <1>4, <1>5 DEF Find

LEMMA StopStep ==
    ASSUME ArrDeleteConstants, ArrInv, Stop
    PROVE  ArrInv' /\ Truth
<1>1. job \in Jobs /\ job.step = "stop" /\ outcome = "none" /\ losses \in Nat
  BY AtRest DEF Stop, ArrInv, JobTypes
<1>2. UNCHANGED <<present, wiped, imported>>
  BY DEF Stop
<1>3. ASSUME Returns("yes"), losses' \in Nat,
             losses' = 0 => StopMonitoring
      PROVE  ArrInv' /\ Truth
  <2>1. ArrInv'
    BY <1>2, <1>3 DEF Returns, ArrInv, JobTypes, Within, Accounted, FirstTry, Resting, Jobs
  <2>2. SuccessIsReal
    BY <1>1, <1>2 DEF SuccessIsReal, ArrInv, Within, Accounted, Left
  <2>3. StopsInPeace
    BY <1>3 DEF StopsInPeace, StopMonitoring
  <2> QED
    BY <2>1, <2>2, <2>3 DEF Truth
<1>4. CASE StopMonitoring /\ Returns("yes") /\ UNCHANGED losses
  BY <1>1, <1>3, <1>4
<1>5. CASE Loses /\ Returns("yes")
  BY <1>1, <1>3, <1>5 DEF Loses
<1>6. CASE Loses /\ Breaks
  <2>1. ArrInv' /\ outcome' # "yes"
    BY <1>1, <1>2, <1>6, Retrying DEF ArrInv, JobTypes, Within
  <2> QED
    BY <2>1, NoNewAnswer
<1> QED
  BY <1>4, <1>5, <1>6 DEF Stop

LEMMA OthersStep ==
    ASSUME ArrDeleteConstants, ArrInv,
           \/ \E kind \in Kinds : Call(kind)
           \/ Unlink
           \/ \E f \in Files : Import(f)
           \/ UNCHANGED arrVars
    PROVE  ArrInv' /\ Truth
<1>1. ASSUME NEW kind \in Kinds, Call(kind)
      PROVE  ArrInv' /\ Truth
  <2>1. /\ job' \in Jobs /\ job'.kind = kind /\ job'.step = FirstStep(kind) /\ job'.ids = {}
        /\ outcome' = "none" /\ wiped' = {} /\ UNCHANGED <<present, losses>>
    BY <1>1 DEF Call, Jobs, FirstStep
  <2>2. JobTypes' /\ Within' /\ FirstTry'
    BY <2>1 DEF ArrInv, JobTypes, Within, FirstTry, FirstStep, ByList
  <2>3. Accounted'
    BY <2>1 DEF Accounted, FirstStep, ByList
  <2> QED
    BY <2>1, <2>2, <2>3, NoNewAnswer DEF ArrInv
<1>2. CASE Unlink \/ UNCHANGED arrVars
  <2>1. UNCHANGED <<present, job, outcome, imported, wiped, losses>>
    BY <1>2 DEF Unlink, arrVars
  <2>2. ArrInv'
    BY <2>1 DEF ArrInv, JobTypes, Within, Accounted, FirstTry, Left
  <2> QED
    BY <2>1, <2>2, NoNewAnswer, AtRest DEF ArrInv, JobTypes
<1>3. ASSUME NEW f \in Files, Import(f)
      PROVE  ArrInv' /\ Truth
  <2>1. /\ UNCHANGED <<job, outcome, wiped, losses>>
        /\ present' = present \cup {f} /\ imported' = imported \cup {f}
    BY <1>3 DEF Import
  <2>2. JobTypes' /\ Within' /\ FirstTry'
    BY <2>1 DEF ArrInv, JobTypes, Within, FirstTry
  <2>3. Accounted'
    BY <2>1 DEF ArrInv, Accounted, Left
  <2> QED
    BY <2>1, <2>2, <2>3, NoNewAnswer, AtRest DEF ArrInv, JobTypes
<1> QED
  BY <1>1, <1>2, <1>3

(* delete_movie, sonarr_delete_episode_file, sonarr_delete_season and
   sonarr_delete_series around with_retry: whatever is lost and retried, True
   means that what was asked for is gone, and nothing else is; and a series
   whose files went without a loss is no longer monitored. *)
THEOREM SuccessIsTrue == ArrDeleteConstants /\ ArrSpec => DeletionIsReal
<1>1. ASSUME ArrDeleteConstants PROVE ArrSpec => DeletionIsReal
  <2>1. ArrInit => ArrInv
    BY ArrStarts
  <2>2. ArrInv /\ [ArrNext]_arrVars => ArrInv' /\ Truth
    BY <1>1, ListStep, DeleteStep, FindStep, StopStep, OthersStep DEF ArrNext
  <2>3. Truth => [SuccessIsReal /\ StopsInPeace]_arrVars
    BY DEF Truth
  <2> QED
    BY <2>1, <2>2, <2>3, PTL DEF ArrSpec, DeletionIsReal
<1> QED
  BY <1>1

-----------------------------------------------------------------------------
(* PagedScan. *)

(* m stands behind the first n entries of the list s. *)
Ahead(s, n, m) == \E i \in 1..Len(s) : i > n /\ s[i] = m

PagedTypes ==
    /\ shelf \in Seq(Media) /\ stops \in Seq(Media) /\ list \in Seq(Media)
    /\ played \in [Users -> SUBSET Media]
    /\ known \in [Users -> SUBSET (Media \X BOOLEAN)]
    /\ userFrom \in [Users -> Nat] /\ ready \subseteq Users
    /\ logFrom \in Nat /\ itemFrom \in Nat /\ left \in Nat
    /\ step \in {"items", "done"} => ready = Users

(* What was there at the start has been read, or stands behind what has been
   read: new entries push it down, never up. *)
StopsAhead ==
    ~cut => \A m \in before.stops : m \in log \/ (step = "log" /\ Ahead(stops, logFrom, m))

PlaysAhead ==
    Steady => \A m \in before.played : \E u \in Users :
        /\ m \in played[u]
        /\ <<m, TRUE>> \in known[u] \/ (u \notin ready /\ Ahead(shelf, userFrom[u], m))

ItemsAhead ==
    Steady /\ ~cut => \A m \in before.shelf :
        m \in In(list) \/ (step # "done" /\ Ahead(shelf, itemFrom, m))

PagedInv == PagedTypes /\ StopsAhead /\ PlaysAhead /\ ItemsAhead

(* SetToSeq lists every element of a finite set. *)
LEMMA Listing ==
    ASSUME NEW S, IsFiniteSet(S)
    PROVE  SetToSeq(S) \in Seq(S) /\ In(SetToSeq(S)) = S
<1> DEFINE n == Cardinality(S)
           f == SetToSeq(S)
<1>1. n \in Nat /\ ExistsBijection(1..n, S)
  BY FS_CardinalityType
<1>2. \E g \in [1..n -> S] : IsInjective(g)
  BY <1>1 DEF ExistsBijection, Bijection, Injection
<1>3. f \in [1..n -> S] /\ IsInjective(f)
  BY <1>2 DEF SetToSeq
<1>4. f \in Injection(1..n, S)
  BY <1>3 DEF Injection
<1>5. Cardinality(1..n) = n
  BY <1>1, FS_Interval
<1>6. f \in Surjection(1..n, S)
  BY <1>4, <1>5, FS_Injection
<1>7. f \in Seq(S) /\ DOMAIN f = 1..n
  BY <1>1, <1>3
<1>8. \A s \in S : \E i \in 1..n : f[i] = s
  BY <1>6 DEF Surjection
<1> QED
  BY <1>3, <1>7, <1>8 DEF In, ToSet

(* A page holds the next PageSize entries; what it does not hold stands
   behind it, and behind the last page stands nothing. *)
LEMMA PageHolds ==
    ASSUME PagedConstants, NEW s \in Seq(Media), NEW n \in Nat
    PROVE  /\ Page(s, n) \in Seq(Media) /\ Len(Page(s, n)) \in Nat
           /\ In(Page(s, n)) \subseteq Media
           /\ \A m : Ahead(s, n, m) => m \in In(Page(s, n)) \/ Ahead(s, n + Len(Page(s, n)), m)
           /\ \A m : Ahead(s, n, m) => m \in In(Page(s, n)) \/ Ahead(s, n + PageSize, m)
           /\ Page(s, n) = <<>> => \A m : ~Ahead(s, n, m)
           /\ \A k \in Nat : \A m : k >= Len(s) => ~Ahead(s, k, m)
<1> DEFINE last == IF n + PageSize < Len(s) THEN n + PageSize ELSE Len(s)
           page == Page(s, n)
<1>1. last \in Nat /\ PageSize \in Nat \ {0} /\ Len(s) \in Nat
  BY DEF PagedConstants
<1>2. page = SubSeq(s, n + 1, last)
  BY DEF Page
<1>3. page \in Seq(Media) /\ Len(page) = IF n + 1 <= last THEN last - n ELSE 0
  BY <1>1, <1>2
<1>4. \A i \in 1..Len(page) : page[i] = s[n + i]
  BY <1>1, <1>2, <1>3
<1>5. In(page) \subseteq Media
  BY <1>3 DEF In, ToSet
<1>6. ASSUME NEW m, NEW i \in 1..Len(s), i > n, s[i] = m, i <= last
      PROVE  m \in In(page)
  <2>1. i - n \in 1..Len(page) /\ page[i - n] = m
    BY <1>1, <1>3, <1>4, <1>6
  <2> QED
    BY <1>3, <2>1 DEF In, ToSet
<1>7. \A i \in 1..Len(s) : i > last => i > n + PageSize /\ i > n + Len(page)
  BY <1>1, <1>3
<1>8. page = <<>> => last <= n
  BY <1>1, <1>3
<1>9. page = <<>> => Len(s) <= n
  BY <1>1, <1>8
<1> QED
  BY <1>1, <1>3, <1>5, <1>6, <1>7, <1>9 DEF Ahead

(* What is inserted moves what follows down by one place. *)
LEMMA InsertedAhead ==
    ASSUME NEW s \in Seq(Media), NEW x \in Media, NEW i \in 1..Len(s) + 1
    PROVE  /\ InsertAt(s, i, x) \in Seq(Media)
           /\ \A n \in Nat : \A m : Ahead(s, n, m) => Ahead(InsertAt(s, i, x), n, m)
<1> DEFINE t == InsertAt(s, i, x)
           head == SubSeq(s, 1, i - 1)
           rest == SubSeq(s, i, Len(s))
<1>1. head \in Seq(Media) /\ Len(head) = i - 1 /\ \A j \in 1..i - 1 : head[j] = s[j]
  OBVIOUS
<1>2. rest \in Seq(Media) /\ Len(rest) = Len(s) - i + 1 /\ \A j \in 1..Len(s) - i + 1 : rest[j] = s[i + j - 1]
  OBVIOUS
<1>3. t = (head \o <<x>>) \o rest
  BY DEF InsertAt
<1> HIDE DEF head, rest
<1>4. t \in Seq(Media) /\ Len(t) = Len(s) + 1
  <2>1. head \o <<x>> \in Seq(Media) /\ Len(head \o <<x>>) = i
    BY <1>1
  <2>2. i \in Nat /\ Len(s) \in Nat
    OBVIOUS
  <2> QED
    BY <1>2, <1>3, <2>1, <2>2
<1>5. \A j \in 1..Len(s) : j < i => t[j] = s[j]
  BY <1>1, <1>2, <1>3
<1>6. \A j \in 1..Len(s) : j >= i => t[j + 1] = s[j]
  <2> TAKE j \in 1..Len(s)
  <2> HAVE j >= i
  <2>1. Len(head \o <<x>>) = i /\ head \o <<x>> \in Seq(Media)
    BY <1>1
  <2>2. t[j + 1] = rest[j + 1 - i]
    BY <1>2, <1>3, <2>1
  <2> QED
    BY <1>2, <2>2
<1> HIDE DEF t
<1>7. ASSUME NEW n \in Nat, NEW m, Ahead(s, n, m)
      PROVE  Ahead(t, n, m)
  <2>1. PICK j \in 1..Len(s) : j > n /\ s[j] = m
    BY <1>7 DEF Ahead
  <2>2. CASE j < i
    BY <1>4, <1>5, <2>1, <2>2 DEF Ahead
  <2>3. CASE j >= i
    <3>1. j + 1 \in 1..Len(t) /\ j + 1 > n /\ t[j + 1] = m
      BY <1>4, <1>6, <2>1, <2>3
    <3> QED
      BY <3>1 DEF Ahead
  <2> QED
    BY <2>2, <2>3
<1> QED
  BY <1>4, <1>7 DEF t

LEMMA Listed ==
    ASSUME NEW s \in Seq(Media), NEW i \in 1..Len(s)
    PROVE  s[i] \in In(s)
  BY DEF In, ToSet

(* The entries of two lists, one after the other. *)
LEMMA Joined ==
    ASSUME NEW s \in Seq(Media), NEW t \in Seq(Media)
    PROVE  s \o t \in Seq(Media) /\ In(s \o t) = In(s) \cup In(t)
<1>1. s \o t \in Seq(Media) /\ Len(s \o t) = Len(s) + Len(t)
  OBVIOUS
<1>2. \A i \in 1..Len(s) : (s \o t)[i] = s[i]
  OBVIOUS
<1>3. \A i \in 1..Len(t) : (s \o t)[Len(s) + i] = t[i]
  OBVIOUS
<1>4. \A i \in 1..Len(s) + Len(t) : i \in 1..Len(s) \/ i - Len(s) \in 1..Len(t)
  OBVIOUS
<1>5. In(s \o t) \subseteq In(s) \cup In(t)
  <2> SUFFICES ASSUME NEW i \in 1..Len(s) + Len(t)
               PROVE  (s \o t)[i] \in In(s) \cup In(t)
    BY <1>1 DEF In, ToSet
  <2>1. CASE i \in 1..Len(s)
    BY <1>2, <2>1 DEF In, ToSet
  <2>2. CASE i - Len(s) \in 1..Len(t)
    <3>1. (s \o t)[i] = t[i - Len(s)]
      BY <1>3, <2>2
    <3> QED
      BY <2>2, <3>1 DEF In, ToSet
  <2> QED
    BY <1>4, <2>1, <2>2
<1>6. In(s) \subseteq In(s \o t)
  BY <1>1, <1>2 DEF In, ToSet
<1>7. In(t) \subseteq In(s \o t)
  <2> SUFFICES ASSUME NEW i \in 1..Len(t)
               PROVE  t[i] \in In(s \o t)
    BY DEF In, ToSet
  <2>1. Len(s) + i \in 1..Len(s \o t) /\ (s \o t)[Len(s) + i] = t[i]
    BY <1>1, <1>3
  <2>2. (s \o t)[Len(s) + i] \in In(s \o t)
    BY <1>1, <2>1, Listed
  <2> QED
    BY <2>1, <2>2
<1> QED
  BY <1>1, <1>5, <1>6, <1>7

LEMMA PagedStarts ==
    ASSUME PagedConstants, PagedInit
    PROVE  PagedInv
<1>1. PICK S \in {Media, Media \ {CHOOSE m \in Media : TRUE}} :
        shelf = SetToSeq(S) /\ played \in [Users -> SUBSET S]
  BY DEF PagedInit
<1>2. IsFiniteSet(S) /\ S \subseteq Media
  BY FS_Subset DEF PagedConstants
<1>3. shelf \in Seq(S) /\ In(shelf) = S
  BY <1>1, <1>2, Listing
<1>4. shelf \in Seq(Media)
  BY <1>2, <1>3
<1>5. played \in [Users -> SUBSET Media]
  BY <1>1, <1>2
<1>6. stops \in Seq(Media)
  <2>1. \A m \in UNION {played[u] : u \in Users} : m \in Media
    BY <1>5
  <2>2. stops = <<>> \/ \E m \in Media : stops = <<m>>
    BY <2>1 DEF PagedInit
  <2>3. ASSUME NEW m \in Media, stops = <<m>> PROVE stops \in Seq(Media)
    BY <2>3
  <2>4. CASE stops = <<>>
    BY <2>4
  <2> QED
    BY <2>2, <2>3, <2>4
<1>7. /\ logFrom = 0 /\ itemFrom = 0 /\ list = <<>> /\ left = 0 /\ step = "log" /\ ready = {}
      /\ userFrom = [u \in Users |-> 0] /\ known = [u \in Users |-> {}]
      /\ before.shelf = In(shelf) /\ before.stops = In(stops)
      /\ before.played = UNION {played[u] : u \in Users}
  BY DEF PagedInit
<1>8. PagedTypes
  BY <1>4, <1>5, <1>6, <1>7 DEF PagedTypes
<1>9. /\ \A m \in In(shelf) : Ahead(shelf, 0, m)
      /\ \A m \in In(stops) : Ahead(stops, 0, m)
  BY <1>4, <1>6 DEF In, ToSet, Ahead
<1>10. PlaysAhead
  <2> SUFFICES ASSUME NEW u \in Users, NEW m \in played[u]
               PROVE  Ahead(shelf, userFrom[u], m)
    BY <1>7 DEF PlaysAhead
  <2>1. m \in In(shelf)
    BY <1>1, <1>3
  <2> QED
    BY <1>7, <1>9, <2>1
<1> QED
  BY <1>7, <1>8, <1>9, <1>10 DEF PagedInv, StopsAhead, ItemsAhead

(* The server goes on living. *)
LEMMA AppearStep ==
    ASSUME PagedInv, NEW m \in Media, NEW i \in 1..Len(shelf) + 1, Appear(m, i)
    PROVE  PagedInv'
<1>1. /\ UNCHANGED <<played, stops, left, scan>>
      /\ shelf' = InsertAt(shelf, i, m) /\ shelf \in Seq(Media)
  BY DEF Appear, PagedInv, PagedTypes
<1>2. /\ shelf' \in Seq(Media)
      /\ \A n \in Nat : \A x : Ahead(shelf, n, x) => Ahead(shelf', n, x)
  BY <1>1, InsertedAhead
<1>3. PagedTypes' /\ StopsAhead'
  BY <1>1, <1>2 DEF PagedInv, PagedTypes, StopsAhead, scan
<1>4. PlaysAhead'
  BY <1>1, <1>2 DEF PagedInv, PagedTypes, PlaysAhead, Steady, scan
<1>5. ItemsAhead'
  BY <1>1, <1>2 DEF PagedInv, PagedTypes, ItemsAhead, Steady, scan
<1> QED
  BY <1>3, <1>4, <1>5 DEF PagedInv

LEMMA VanishStep ==
    ASSUME PagedInv, NEW i \in 1..Len(shelf), Vanish(i)
    PROVE  PagedInv'
<1>1. /\ left' # 0 /\ left' \in Nat /\ shelf \in Seq(Media)
      /\ UNCHANGED <<played, stops, scan>> /\ shelf' = RemoveAt(shelf, i)
  BY DEF Vanish, PagedInv, PagedTypes
<1>2. shelf' \in Seq(Media)
  BY <1>1 DEF RemoveAt
<1> QED
  BY <1>1, <1>2 DEF PagedInv, PagedTypes, StopsAhead, PlaysAhead, ItemsAhead, Steady, scan

LEMMA PlayStep ==
    ASSUME PagedInv, NEW u \in Users, NEW m \in Media, StopPlaying(u, m)
    PROVE  PagedInv'
<1>1. /\ UNCHANGED <<shelf, left, scan>> /\ stops' = <<m>> \o stops
      /\ played' = [played EXCEPT ![u] = @ \cup {m}]
      /\ stops \in Seq(Media) /\ played \in [Users -> SUBSET Media]
  BY DEF StopPlaying, PagedInv, PagedTypes
<1>2. /\ stops' \in Seq(Media) /\ Len(stops') = Len(stops) + 1
      /\ \A i \in 1..Len(stops) : stops'[i + 1] = stops[i]
  BY <1>1
<1>3. \A n \in Nat : \A x : Ahead(stops, n, x) => Ahead(stops', n, x)
  <2> SUFFICES ASSUME NEW n \in Nat, NEW i \in 1..Len(stops), i > n
               PROVE  Ahead(stops', n, stops[i])
    BY DEF Ahead
  <2>1. i + 1 \in 1..Len(stops') /\ i + 1 > n /\ stops'[i + 1] = stops[i]
    BY <1>1, <1>2
  <2> QED
    BY <2>1 DEF Ahead
<1>4. played' \in [Users -> SUBSET Media] /\ \A v \in Users : played[v] \subseteq played'[v]
  BY <1>1
<1>5. PagedTypes'
  BY <1>1, <1>2, <1>4 DEF PagedInv, PagedTypes, scan
<1>6. StopsAhead'
  BY <1>1, <1>3 DEF PagedInv, PagedTypes, StopsAhead, scan
<1>7. PlaysAhead' /\ ItemsAhead'
  BY <1>1, <1>4 DEF PagedInv, PlaysAhead, ItemsAhead, Steady, scan
<1> QED
  BY <1>5, <1>6, <1>7 DEF PagedInv

(* The scan reads on. *)
LEMMA LogStep ==
    ASSUME PagedConstants, PagedInv, LogPage \/ LogFails
    PROVE  PagedInv'
<1>1. CASE LogPage
  <2> DEFINE page == Page(stops, logFrom)
  <2>1. /\ step = "log" /\ log' = log \cup In(page) /\ logFrom' = logFrom + Len(page)
        /\ step' = IF page = <<>> \/ logFrom' >= Len(stops) THEN "users" ELSE "log"
        /\ UNCHANGED <<server, userFrom, known, ready, itemFrom, list, cut, before>>
    BY <1>1 DEF LogPage
  <2>2. /\ page \in Seq(Media) /\ Len(page) \in Nat
        /\ \A m : Ahead(stops, logFrom, m) => m \in In(page) \/ Ahead(stops, logFrom', m)
        /\ page = <<>> => \A m : ~Ahead(stops, logFrom, m)
        /\ logFrom' >= Len(stops) => \A m : ~Ahead(stops, logFrom', m)
    <3>1. stops \in Seq(Media) /\ logFrom \in Nat
      BY DEF PagedInv, PagedTypes
    <3>2. page \in Seq(Media) /\ Len(page) \in Nat /\ logFrom' \in Nat
      BY <2>1, <3>1, PageHolds
    <3> QED
      BY <2>1, <3>1, <3>2, PageHolds
  <2> HIDE DEF page
  <2>3. PagedTypes'
    BY <2>1, <2>2 DEF PagedInv, PagedTypes, server
  <2>4. StopsAhead'
    BY <2>1, <2>2 DEF PagedInv, StopsAhead, server
  <2>5. PlaysAhead' /\ ItemsAhead'
    BY <2>1 DEF PagedInv, PlaysAhead, ItemsAhead, Steady, server
  <2> QED
    BY <2>3, <2>4, <2>5 DEF PagedInv
<1>2. CASE LogFails
  BY <1>2 DEF LogFails, server, PagedInv, PagedTypes, StopsAhead, PlaysAhead, ItemsAhead, Steady
<1> QED
  BY <1>1, <1>2

LEMMA UserStep ==
    ASSUME PagedConstants, PagedInv, NEW u \in Users, UserPage(u)
    PROVE  PagedInv'
<1> DEFINE page == Page(shelf, userFrom[u])
           last == page = <<>> \/ userFrom[u] + Len(page) >= Len(shelf)
           read == {<<m, m \in played[u]>> : m \in In(page)}
<1>1. /\ step = "users" /\ u \notin ready
      /\ known' = [known EXCEPT ![u] = @ \cup read]
      /\ userFrom' = [userFrom EXCEPT ![u] = @ + Len(page)]
      /\ ready' = IF last THEN ready \cup {u} ELSE ready
      /\ step' = IF ready' = Users THEN "items" ELSE "users"
      /\ UNCHANGED <<server, logFrom, log, itemFrom, list, cut, before>>
  BY DEF UserPage
<1>2. /\ shelf \in Seq(Media) /\ userFrom[u] \in Nat /\ userFrom \in [Users -> Nat]
      /\ known \in [Users -> SUBSET (Media \X BOOLEAN)] /\ played \in [Users -> SUBSET Media]
  BY DEF PagedInv, PagedTypes
<1>3. /\ page \in Seq(Media) /\ Len(page) \in Nat /\ In(page) \subseteq Media
      /\ \A m : Ahead(shelf, userFrom[u], m) =>
             m \in In(page) \/ Ahead(shelf, userFrom[u] + Len(page), m)
      /\ page = <<>> => \A m : ~Ahead(shelf, userFrom[u], m)
      /\ userFrom[u] + Len(page) >= Len(shelf) =>
             \A m : ~Ahead(shelf, userFrom[u] + Len(page), m)
  <2>1. shelf \in Seq(Media) /\ userFrom[u] \in Nat
    BY <1>2
  <2>2. page \in Seq(Media) /\ Len(page) \in Nat
    BY <2>1, PageHolds
  <2>3. userFrom[u] + Len(page) \in Nat
    BY <2>1, <2>2
  <2> QED
    BY <2>1, <2>3, PageHolds
<1>4. read \subseteq Media \X BOOLEAN
  <2> SUFFICES ASSUME NEW m \in In(page) PROVE <<m, m \in played[u]>> \in Media \X BOOLEAN
    OBVIOUS
  <2>1. m \in Media /\ (m \in played[u]) \in BOOLEAN
    BY <1>3
  <2> QED
    BY <2>1
<1>5. \A m \in In(page) : m \in played[u] => <<m, TRUE>> \in read
  <2> SUFFICES ASSUME NEW m \in In(page), m \in played[u] PROVE <<m, TRUE>> \in read
    OBVIOUS
  <2>1. (m \in played[u]) = TRUE
    OBVIOUS
  <2> QED
    BY <2>1
<1> HIDE DEF page, read
<1>6. PagedTypes'
  BY <1>1, <1>2, <1>3, <1>4 DEF PagedInv, PagedTypes, server
<1>7. StopsAhead' /\ ItemsAhead'
  BY <1>1 DEF PagedInv, StopsAhead, ItemsAhead, Steady, server
<1>8. PlaysAhead'
  <2> SUFFICES ASSUME Steady, NEW m \in before.played
               PROVE  \E v \in Users : /\ m \in played[v]
                                       /\ \/ <<m, TRUE>> \in known'[v]
                                          \/ v \notin ready' /\ Ahead(shelf, userFrom'[v], m)
    BY <1>1 DEF PlaysAhead, Steady, server
  <2>1. PICK v \in Users : /\ m \in played[v]
                           /\ <<m, TRUE>> \in known[v] \/ (v \notin ready /\ Ahead(shelf, userFrom[v], m))
    BY DEF PagedInv, PlaysAhead
  <2>2. known[v] \subseteq known'[v]
    BY <1>1, <1>2
  <2>3. CASE <<m, TRUE>> \in known[v]
    BY <2>1, <2>2, <2>3
  <2>4. CASE v # u /\ v \notin ready /\ Ahead(shelf, userFrom[v], m)
    <3>1. v \notin ready' /\ userFrom'[v] = userFrom[v]
      BY <1>1, <1>2, <2>4
    <3> QED
      BY <2>1, <2>4, <3>1
  <2>5. CASE v = u /\ Ahead(shelf, userFrom[u], m)
    <3>1. userFrom'[u] = userFrom[u] + Len(page) /\ known'[u] = known[u] \cup read
      BY <1>1, <1>2
    <3>2. CASE m \in In(page)
      BY <1>5, <2>1, <2>5, <3>1, <3>2
    <3>3. CASE m \notin In(page)
      <4>1. Ahead(shelf, userFrom'[u], m)
        BY <1>3, <2>5, <3>1, <3>3
      <4>2. ~last
        BY <1>3, <2>5, <3>1, <4>1
      <4> QED
        BY <1>1, <2>1, <2>5, <4>1, <4>2
    <3> QED
      BY <3>2, <3>3
  <2> QED
    BY <2>1, <2>3, <2>4, <2>5
<1> QED
  BY <1>6, <1>7, <1>8 DEF PagedInv

LEMMA ItemStep ==
    ASSUME PagedConstants, PagedInv, ItemPage \/ ItemPageFails
    PROVE  PagedInv'
<1>1. CASE ItemPage
  <2> DEFINE page == Page(shelf, itemFrom)
  <2>1. /\ step = "items" /\ list' = list \o page /\ itemFrom' = itemFrom + PageSize
        /\ step' = IF page = <<>> \/ itemFrom' >= Len(shelf) THEN "done" ELSE "items"
        /\ UNCHANGED <<server, logFrom, log, userFrom, known, ready, cut, before>>
    BY <1>1 DEF ItemPage
  <2>2. itemFrom' \in Nat /\ list \in Seq(Media)
    BY <2>1 DEF PagedInv, PagedTypes, PagedConstants
  <2>3. /\ page \in Seq(Media)
        /\ \A m : Ahead(shelf, itemFrom, m) => m \in In(page) \/ Ahead(shelf, itemFrom', m)
        /\ page = <<>> => \A m : ~Ahead(shelf, itemFrom, m)
        /\ itemFrom' >= Len(shelf) => \A m : ~Ahead(shelf, itemFrom', m)
    BY <2>1, <2>2, PageHolds DEF PagedInv, PagedTypes
  <2> HIDE DEF page
  <2>4. list' \in Seq(Media) /\ In(list') = In(list) \cup In(page)
    BY <2>1, <2>2, <2>3, Joined
  <2>5. PagedTypes' /\ StopsAhead' /\ PlaysAhead'
    BY <2>1, <2>2, <2>4 DEF PagedInv, PagedTypes, StopsAhead, PlaysAhead, Steady, server
  <2>6. ItemsAhead'
    BY <2>1, <2>3, <2>4 DEF PagedInv, ItemsAhead, Steady, server
  <2> QED
    BY <2>5, <2>6 DEF PagedInv
<1>2. CASE ItemPageFails
  BY <1>2 DEF ItemPageFails, server, PagedInv, PagedTypes, StopsAhead, PlaysAhead, ItemsAhead, Steady
<1> QED
  BY <1>1, <1>2

LEMMA AbortStep ==
    ASSUME PagedInv, (\E u \in Users : UserPageFails(u)) \/ UNCHANGED pagedVars
    PROVE  PagedInv'
<1>1. CASE \E u \in Users : UserPageFails(u)
  <2>1. /\ step = "users" /\ step' = "aborted"
        /\ UNCHANGED <<server, logFrom, log, userFrom, known, ready, itemFrom, list, cut, before>>
    BY <1>1 DEF UserPageFails
  <2>2. PagedTypes' /\ StopsAhead'
    BY <2>1 DEF server, PagedInv, PagedTypes, StopsAhead
  <2>3. PlaysAhead' /\ ItemsAhead'
    BY <2>1 DEF server, PagedInv, PlaysAhead, ItemsAhead, Steady
  <2> QED
    BY <2>2, <2>3 DEF PagedInv
<1>2. CASE UNCHANGED pagedVars
  BY <1>2 DEF pagedVars, PagedInv, PagedTypes, StopsAhead, PlaysAhead, ItemsAhead, Steady
<1> QED
  BY <1>1, <1>2

LEMMA PagedSees ==
    ASSUME PagedInv
    PROVE  ScanSeesAll
<1>1. StopsAreSeen
  BY DEF PagedInv, StopsAhead, StopsAreSeen
<1>2. ListedAll
  BY DEF PagedInv, ItemsAhead, ListedAll
<1>3. WatchedIsKept
  <2> SUFFICES ASSUME step = "done", Steady, NEW m \in before.played
               PROVE  ~Unwatched(m)
    BY DEF WatchedIsKept, Eligible
  <2>1. ready = Users
    BY DEF PagedInv, PagedTypes
  <2> QED
    BY <2>1 DEF PagedInv, PlaysAhead, Unwatched
<1> QED
  BY <1>1, <1>2, <1>3 DEF ScanSeesAll

(* get_play_activity, get_library_user_data and get_items_in_library: whatever
   joins a listing of any length between two pages of any size, what was there
   at the start is read, and nobody's play is taken for "never watched". *)
THEOREM PagesMissNothing == PagedConstants /\ PagedSpec => []ScanSeesAll
<1>1. ASSUME PagedConstants PROVE PagedSpec => []ScanSeesAll
  <2>1. PagedInit => PagedInv
    BY <1>1, PagedStarts
  <2>2. PagedInv /\ [PagedNext]_pagedVars => PagedInv'
    BY <1>1, AppearStep, VanishStep, PlayStep, LogStep, UserStep, ItemStep, AbortStep DEF PagedNext
  <2>3. PagedInv => ScanSeesAll
    BY PagedSees
  <2> QED
    BY <2>1, <2>2, <2>3, PTL DEF PagedSpec
<1> QED
  BY <1>1
=============================================================================
