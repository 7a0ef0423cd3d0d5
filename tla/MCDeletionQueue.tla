--------------------------- MODULE MCDeletionQueue ---------------------------
(* Instances of DeletionQueue for TLC. *)
EXTENDS DeletionQueue, TLC

CONSTANTS film, serie, emby, plex

OneServer == [i \in Items |-> emby]
TwoServers == [i \in Items |-> IF i = film THEN emby ELSE plex]

HandlersAlike == Permutations(Requests)
=============================================================================
