------------------------------- MODULE MCJobLock -------------------------------
(* The scan lock and two workers: a scheduled and a triggered scan in the
   first, a scheduled scan in the second, two connections each. *)
EXTENDS JobLock

CONSTANTS w1, w2, a1, a2, b1, b2, scan1, scan2, timer, trigger, other

Pools == [c \in Conns |-> IF c \in {a1, a2} THEN w1 ELSE w2]
ObjectNames == [l \in Objects |-> "scan"]
ObjectHomes == [l \in Objects |-> IF l = scan2 THEN w2 ELSE w1]
TaskLocks == [t \in Tasks |-> IF t = other THEN scan2 ELSE scan1]
=============================================================================
