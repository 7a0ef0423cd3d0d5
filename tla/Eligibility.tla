----------------------------- MODULE Eligibility -----------------------------
(***************************************************************************)
(* Which media enter the queue: the gates of the Emby and Jellyfin scan    *)
(* (legacy_conditions.py, scanner/_emby_scanner.py), of the Plex scan      *)
(* (scanner/_plex_scanner.py) and the consolidation of episodes into       *)
(* seasons and series (scanner/_consolidation.py).  Pure operators.        *)
(*                                                                         *)
(* A media is [id, type, path, tmdb, added]; what a scan knows is a record *)
(* c of the library (conds, logic, filter, grace, unit), the users, their  *)
(* data ud[user][id] = [plays, played, last], the activity log, the ids    *)
(* that are queued or ignored, the Seerr requesters by TMDB id, the        *)
(* overrides of the grace period, the expert rules, the two caches of arr  *)
(* paths and the Sonarr servers.  Ages and periods are in days.            *)
(***************************************************************************)
EXTENDS Integers, Sequences, FiniteSets

CONSTANT None

INSTANCE RuleEngine
INSTANCE ArrLookup

(* None is neither a number nor what a rule does. *)
RuleConstants == None \notin Int \cup {"queue", "notify_only"}

Lookup(f, x) == IF x \in DOMAIN f THEN f[x] ELSE None

(* Mutation: Played without a play count is taken for "not watched". *)
WatchByCount(item, c) ==
    LET data(u) == IF item.id \in DOMAIN c.ud[u] THEN c.ud[u][item.id]
                   ELSE [plays |-> 0, played |-> FALSE, last |-> None]
        seen    == {u \in c.users : data(u).plays > 0}
        dates   == {data(u).last : u \in seen} \ {None}
    IN [added |-> item.added, never |-> seen = {},
        plays |-> Max({0} \cup {data(u).plays : u \in c.users}),
        last  |-> IF dates = {} THEN None ELSE Min(dates)]

(* _aggregate_user_data.  A media missing from the data of a user is one the
   user has not played; a play without a date takes the date of the activity
   log, whoever played. *)
WatchOf(item, c) ==
    LET data(u) == IF item.id \in DOMAIN c.ud[u] THEN c.ud[u][item.id]
                   ELSE [plays |-> 0, played |-> FALSE, last |-> None]
        seen    == {u \in c.users : data(u).played \/ data(u).plays > 0}
        dates   == {IF data(u).last # None THEN data(u).last ELSE Lookup(c.log, item.id)
                      : u \in seen} \ {None}
    IN [added |-> item.added, never |-> seen = {},
        plays |-> Max({0} \cup {IF data(u).played /\ data(u).plays = 0
                                THEN 1 ELSE data(u).plays : u \in c.users}),
        last  |-> IF dates = {} THEN None ELSE Min(dates)]

(* resolve_item_tmdb gives an episode the id of its series: item.tmdb is
   that id.  A media without an id has no request. *)
Requester(item, c) == IF item.tmdb = None THEN None ELSE Lookup(c.seerr, item.tmdb)

(* lib.get("grace_days") or 7 *)
Grace(c) == IF c.grace = 0 THEN 7 ELSE c.grace

QueueEntry(item, w, user, grace, arr) ==
    [id |-> item.id, path |-> item.path, type |-> item.type, tmdb |-> item.tmdb,
     user |-> user, grace |-> grace, arr |-> arr.id, url |-> arr.url,
     series |-> arr.series, season |-> arr.season, last |-> w.last, plays |-> w.plays]

(* _evaluate_item: the entries it may return, none when a gate closes. *)
EvaluateItem(item, c) ==
    LET w    == WatchOf(item, c)
        user == Requester(item, c)
    IN IF /\ item.path # None /\ item.added # None
          /\ EvaluateConditions(c.conds, c.logic, w)
          /\ item.id \notin c.queued /\ item.id \notin c.ignored
          /\ SeerrFilterPasses(user, c.filter)
       THEN {QueueEntry(item, w, user, g,
                        ResolveArrIds(item.path, item.type, c.radarr, c.sonarr, c.servers))
               : g \in SeerrGrace(c.overrides, user, c.lib, Grace(c))}
       ELSE {}

(* _evaluate_expert_rules_fallback: the ids come from the caches only. *)
ExpertFallback(item, c) ==
    LET w    == WatchOf(item, c)
        user == Requester(item, c)
        act  == ExpertAction(c.rules, ExpertItem(w, user), c.lib)
    IN IF act.action # "queue" THEN {}
       ELSE {QueueEntry(item, w, user, act.grace,
                        ResolveArrIds(item.path, item.type, c.radarr, c.sonarr, <<>>))}

(* The loop of _collect_eligible_items: the conditions of the library, then
   the expert rules. *)
ScanItem(item, c) ==
    IF EvaluateItem(item, c) # {} THEN EvaluateItem(item, c)
    ELSE IF item.path = None \/ item.id \in c.queued \cup c.ignored THEN {}
    ELSE ExpertFallback(item, c)

-----------------------------------------------------------------------------
(* Seasons and series. *)

GroupKey(e, unit) ==
    IF e.series = None \/ (unit = "season" /\ e.season = None) THEN None
    ELSE IF unit = "season" THEN <<e.series, e.season>> ELSE <<e.series>>

(* The files Sonarr has in a group, by path; a file without a season number
   is not counted. *)
GroupFiles(sonarr, key, unit) ==
    {p \in {sonarr[i].path : i \in DOMAIN sonarr} :
        /\ Get(sonarr, p).season # None
        /\ GroupKey(Get(sonarr, p), unit) = key}

(* Mutation: a group with at least one eligible episode is complete. *)
AnyEpisode(eps, files) == files # {} /\ eps # {}

(* Strict equality of the numbers, not of the episodes; eps are places in the
   list, which may name a file twice. *)
Complete(eps, files) == files # {} /\ Cardinality(eps) = Cardinality(files)

(* _group_watch_state *)
GroupState(eps) ==
    LET dates == {e.last : e \in eps} \ {None}
    IN [last  |-> IF dates = {} THEN None ELSE Min(dates),
        plays |-> Max({e.plays : e \in eps})]

(* _consolidate_and_insert.  The anchor is the first of the episodes whose
   deletion comes last.  The ids of the rows are checked against the queue
   only: an ignored season is not found again under this name. *)
Consolidate(eligible, sonarr, unit, queued) ==
    LET keys   == {GroupKey(eligible[i], unit) : i \in DOMAIN eligible} \ {None}
        eps(k) == {i \in DOMAIN eligible : GroupKey(eligible[i], unit) = k}
        last(k) == {i \in eps(k) : \A j \in eps(k) : eligible[j].grace <= eligible[i].grace}
        row(k) == LET anchor == eligible[Min(last(k))]
                      state  == GroupState({eligible[i] : i \in eps(k)})
                  IN [id |-> <<unit, k>>, path |-> anchor.path, url |-> anchor.url,
                      series |-> k[1], grace |-> anchor.grace,
                      last |-> state.last, plays |-> state.plays]
    IN {row(k) : k \in {k \in keys : Complete(eps(k), GroupFiles(sonarr, k, unit))
                                     /\ <<unit, k>> \notin queued}}

-----------------------------------------------------------------------------
(* Plex. *)

TmdbKey(tmdb, type) ==
    <<IF type \in {"series", "episode", "season"} THEN "tv" ELSE type, tmdb>>

TmdbKeys(rows) == {TmdbKey(r.tmdb, r.type) : r \in {s \in rows : s.tmdb # None}}

(* _build_plex_item_data: the views of one account, no requester. *)
PlexItem(item) ==
    ExpertItem([added |-> item.added, last |-> item.last, plays |-> item.plays], None)

(* _plex_item_to_entry and _grace_for_item.  pending are the pending rows of
   every server, ignoredRows the ignored ones of every server; the ids are
   those of this server only. *)
ScanPlexItem(item, c) ==
    LET key  == TmdbKey(item.tmdb, item.type)
        act  == ExpertAction(c.rules, PlexItem(item), c.lib)
        keep == item.tmdb # None /\ key \in TmdbKeys(c.pending)
    IN IF \/ item.id \in c.queued \cup c.ignored
          \/ item.tmdb # None /\ key \in TmdbKeys(c.ignoredRows)
          \/ ~keep /\ act.action # "queue"
       THEN {}
       ELSE {[id |-> item.id, type |-> item.type, tmdb |-> item.tmdb,
              user |-> Requester(item, c), mirror |-> keep,
              grace |-> IF keep THEN Grace(c) ELSE act.grace]}
=============================================================================
