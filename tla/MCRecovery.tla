------------------------------ MODULE MCRecovery ------------------------------
(***************************************************************************)
(* What has to come right by itself: a circuit breaker, the "leaving soon" *)
(* collection, the cache of the settings and the pool of connections.      *)
(* They share no state, so a behaviour looks at one of them, its focus,    *)
(* and the others stay as they were.                                       *)
(***************************************************************************)
EXTENDS CircuitBreaker, LeavingSoon, ConfigCache, DbPool

CONSTANTS p1, p2, p3, c1, c2, film

VARIABLE focus

RecoveryInit ==
    /\ focus \in {"breaker", "collection", "cache", "pool"}
    /\ BreakerInit /\ (focus # "breaker" => reachable)
    /\ SoonInit /\ (focus # "collection" => due = [f \in Films |-> Nil])
    /\ ConfigInit
    /\ DbInit

RecoveryNext ==
    \/ focus = "breaker" /\ BreakerNext /\ UNCHANGED <<focus, soonVars, configVars, dbVars>>
    \/ focus = "collection" /\ SoonNext /\ UNCHANGED <<focus, breakerVars, configVars, dbVars>>
    \/ focus = "cache" /\ ConfigNext /\ UNCHANGED <<focus, breakerVars, soonVars, dbVars>>
    \/ focus = "pool" /\ DbNext /\ UNCHANGED <<focus, breakerVars, soonVars, configVars>>

(* Each component is as fair as it is on its own; the safety of the cache and
   of the pool needs no fairness. *)
RecoverySpec ==
    /\ RecoveryInit
    /\ [][RecoveryNext]_<<focus, breakerVars, soonVars, configVars, dbVars>>
    /\ focus = "breaker" => BreakerFairness
    /\ focus = "collection" => SoonFairness
=============================================================================
