-------------------------- MODULE MCDeletionPipeline --------------------------
(* A film, an episode and a consolidated series, and their downloads. *)
EXTENDS DeletionPipeline, TLC

CONSTANTS film, episode, series, t1, t2, t3

Kinds == [r \in Rows |-> CASE r = film -> "movie"
                           [] r = episode -> "episode"
                           [] r = series -> "group"]

(* The episode came with t2; the history of its series also lists t3. *)
Downloads == [r \in Rows |-> CASE r = film -> {t1}
                               [] r = episode -> {t2}
                               [] r = series -> {t2, t3}]
Histories == [r \in Rows |-> IF r = film THEN {t1} ELSE {t2, t3}]

WorkersAlike == Permutations(Workers)
=============================================================================
