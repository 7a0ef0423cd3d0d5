------------------------------- MODULE MCRules -------------------------------
(***************************************************************************)
(* The pure algorithms of a scan, asked over bounded inputs: a step picks  *)
(* one question and its inputs x and stores the answer y of the code; the  *)
(* invariants compare x and y.                                             *)
(***************************************************************************)
EXTENDS Eligibility

CONSTANTS u1, u2, m1, l1, l2

VARIABLES q, x, y

SeqsUpTo(S, n) == UNION {[1..k -> S] : k \in 0..n}

Cond(f, op, v) == [field |-> f, op |-> op, value |-> v]
Rule(lib, libs, op, groups, action, grace) ==
    [enabled |-> TRUE, groups |-> groups, op |-> op, library |-> lib, libraries |-> libs,
     action |-> action, grace |-> grace]
Group(op, conds) == [op |-> op, conds |-> conds]

-----------------------------------------------------------------------------
(* The conditions of a library, and their copy into an expert rule. *)

LegacyConds == {Cond("days_not_watched", "gt", 30), Cond("days_since_added", "gte", 10),
                Cond("play_count", "lt", 2), Cond("never_watched", "eq", 1),
                Cond("never_watched", "eq", 0), Cond("days_not_watched", "like", 30)}

(* The states WatchOf can return: a media is never watched when its play
   count is 0. *)
WatchStates ==
    {w \in [added : {None, 5, 40}, last : {None, 5, 40}, plays : {0, 1, 2}, never : BOOLEAN] :
        w.never = (w.plays = 0) /\ (w.never => w.last = None)}

Filters == {<<>>, <<[type |-> "user_include", user |-> 1]>>,
            <<[type |-> "user_exclude", user |-> 1]>>,
            <<[type |-> "user_include", user |-> 1], [type |-> "user_exclude", user |-> 2]>>}

AskLibrary ==
    \E conds \in SeqsUpTo(LegacyConds, 2), logic \in {"AND", "OR"}, w \in WatchStates,
       filter \in Filters, user \in {None, 1, 2} :
        /\ q' = "library"
        /\ x' = [conds |-> conds, logic |-> logic, w |-> w, filter |-> filter, user |-> user]
        /\ y' = [library |-> EvaluateConditions(conds, logic, w),
                 filter  |-> SeerrFilterPasses(user, filter),
                 copy    |-> RuleHolds(CopiedRule([id |-> l1, enabled |-> TRUE, conds |-> conds,
                                                   logic |-> logic, filter |-> filter]),
                                       ExpertItem(w, user))]

-----------------------------------------------------------------------------
(* One media of an Emby library. *)

(* Servers a and b have a film and a series of the same number. *)
Films(url, folder) == <<[id |-> 1, file |-> <<"media", folder, "film">>,
                         folder |-> <<"media", folder>>]>>
Shows(folder) ==
    <<[id |-> 5, folder |-> <<"media", folder>>,
       files |-> <<[id |-> 51, path |-> <<"media", folder, "e1">>, season |-> 1],
                   [id |-> 52, path |-> <<"media", folder, "e2">>, season |-> 1],
                   [id |-> 53, path |-> <<"media", folder, "e3">>, season |-> 2]>>]>>
Server(url, up, folder) ==
    [url |-> url, key |-> "k", enabled |-> TRUE, up |-> up,
     movies |-> Films(url, folder), series |-> Shows(folder)]
Installations ==
    {<<>>, <<Server("a", TRUE, "fa")>>, <<Server("b", TRUE, "fb")>>,
      <<Server("a", TRUE, "fa"), Server("b", TRUE, "fb")>>,
      <<Server("b", TRUE, "fb"), Server("a", TRUE, "fa")>>,
      <<Server("a", FALSE, "fa"), Server("b", TRUE, "fb")>>}

Plays == {[plays |-> 0, played |-> FALSE, last |-> None],
          [plays |-> 0, played |-> TRUE, last |-> 5],
          [plays |-> 0, played |-> TRUE, last |-> None],
          [plays |-> 2, played |-> FALSE, last |-> 40]}
UserData == [{m1} -> Plays] \cup {<<>>}
OtherData == {<<>>} \cup {d \in UserData : d # <<>> /\ d[m1].last # None}

NotWatched30 == Cond("days_not_watched", "gt", 30)
Rules30 == {<<>>,
            <<Rule(None, None, "AND", <<Group("AND", <<NotWatched30>>)>>, "queue", 3)>>,
            <<Rule(None, {l1}, "AND", <<Group("AND", <<NotWatched30>>)>>, "notify_only", 3),
              Rule(None, None, "AND", <<Group("AND", <<NotWatched30>>)>>, "queue", 9)>>}

Paths == {None, <<"media", "fa", "film">>, <<"media", "fa", "e1">>, <<"media", "fb", "cut">>}

AskScan ==
    \E servers \in {<<Server("a", TRUE, "fa"), Server("b", TRUE, "fb")>>,
                    <<Server("a", FALSE, "fa"), Server("b", TRUE, "fb")>>} :
    LET radarr == RadarrCache(servers)
        sonarr == SonarrCache(servers)
    IN
    \E mine \in UserData, hers \in OtherData, log \in {<<>>, [m \in {m1} |-> 5]},
       type \in {"movie", "episode"}, path \in Paths, added \in {None, 40},
       queued \in {{}, {m1}}, ignored \in {{}, {m1}},
       conds \in {<<>>, <<NotWatched30>>}, rules \in Rules30 :
        LET ud == [u \in {u1, u2} |-> IF u = u1 THEN mine ELSE hers]
            c == [lib |-> l1, conds |-> conds, logic |-> "AND", grace |-> 0,
                  filter |-> <<>>, users |-> {u1, u2}, ud |-> ud, log |-> log,
                  queued |-> queued, ignored |-> ignored, seerr |-> <<>>,
                  overrides |-> {}, rules |-> rules, radarr |-> radarr,
                  sonarr |-> sonarr, servers |-> servers]
            item == [id |-> m1, type |-> type, path |-> path, tmdb |-> None, added |-> added]
        IN /\ q' = "scan"
           /\ (path = None \/ conds = <<>>) => queued \cup ignored = {}
           /\ added = None => path = None
           /\ x' = [c |-> [c EXCEPT !.radarr = <<>>, !.sonarr = <<>>], item |-> item]
           /\ y' = ScanItem(item, c)

-----------------------------------------------------------------------------
(* The server of a deletion, the purge, the groups, Plex. *)

AskTarget ==
    \E multi \in Installations, off \in BOOLEAN, url \in {None, "a", "b"}, path \in Paths :
        LET servers == ArrServers(IF off THEN [i \in DOMAIN multi |->
                                                [multi[i] EXCEPT !.enabled = (i # 1)]]
                                  ELSE multi, Server("c", TRUE, "fa"))
        IN /\ q' = "target"
           /\ x' = [servers |-> servers, url |-> url, path |-> path]
           /\ y' = DeleteTarget(servers, url, path)

SeerrIn   == Cond("seerr_user_id", "in", {1})
PurgeRules ==
    {Rule(lib, libs, "AND", <<Group("AND", conds)>>, action, 7) :
        lib \in {None, l1}, libs \in {None, {}, {l2}, {l1, l2}}, action \in {"queue", "notify_only"},
        conds \in {<<SeerrIn>>, <<NotWatched30>>, <<NotWatched30, SeerrIn>>}}

AskPurge ==
    \E rules \in SeqsUpTo(PurgeRules, 2), last \in {None, 5, 40} :
        /\ q' = "purge"
        /\ x' = [rules |-> rules,
                 item |-> ExpertItem([added |-> 40, last |-> last, plays |-> 0], None)]
        /\ y' = RequiringSeerr(rules)

(* The scan lists no file twice and finds all of them in the cache. *)
AskGroups ==
    /\ q' = "groups"
    /\ \E servers \in Installations, unit \in {"season", "series"} :
         LET cache == SonarrCache(servers)
             files == {cache[i].path : i \in DOMAIN cache}
         IN \E kept \in SUBSET files, lates \in SUBSET files, queued \in BOOLEAN :
           LET entry(p) == [path |-> p, series |-> Get(cache, p).series,
                            season |-> Get(cache, p).season, url |-> Get(cache, p).url,
                            grace |-> IF p \in lates THEN 9 ELSE 7,
                            last |-> IF p \in lates THEN None ELSE 40,
                            plays |-> IF p \in lates THEN 0 ELSE 1]
               list == SetToSeq(kept)
               eligible == [i \in DOMAIN list |-> entry(list[i])]
           IN /\ lates \subseteq kept
              /\ x' = [eligible |-> eligible, cache |-> cache, unit |-> unit]
              /\ y' = Consolidate(eligible, cache, unit,
                                  IF queued THEN {<<"series", <<5>>>>} ELSE {})

Known == [type : {"movie", "episode", "series"}, tmdb : {None, 1402, 1403}]
AskPlex ==
    \E type \in {"movie", "series"}, tmdb \in {None, 1402}, pending \in SUBSET Known,
       ignoredRow \in Known, ignored \in BOOLEAN, rules \in Rules30 :
        LET item == [id |-> m1, type |-> type, tmdb |-> tmdb, added |-> 40, last |-> None,
                     plays |-> 0]
            c == [lib |-> l1, grace |-> 4, queued |-> {}, ignored |-> {}, seerr |-> <<>>,
                  rules |-> rules, pending |-> pending,
                  ignoredRows |-> IF ignored THEN {ignoredRow} ELSE {}]
        IN /\ Cardinality(pending) <= 2
           /\ q' = "plex"
           /\ x' = [item |-> item, c |-> c]
           /\ y' = ScanPlexItem(item, c)

RulesInit == q = "none" /\ x = None /\ y = None

Forget == q # "none" /\ q' = "none" /\ x' = None /\ y' = None

RulesNext ==
    \/ q = "none" /\ (AskLibrary \/ AskScan \/ AskTarget \/ AskPurge \/ AskGroups \/ AskPlex)
    \/ Forget

RulesSpec == RulesInit /\ [][RulesNext]_<<q, x, y>>

-----------------------------------------------------------------------------
(* What a condition of a library says, read off the settings page. *)
Says(c, w) ==
    \/ c.field = "play_count" /\ Compare(c.op, w.plays, c.value)
    \/ c.field = "never_watched" /\ (w.never <=> c.value # 0)
    \/ c.field = "days_since_added" /\ w.added # None /\ Compare(c.op, w.added, c.value)
    \/ c.field = "days_not_watched" /\ c.op \in NumericOps
       /\ (w.never \/ (w.last # None /\ Compare(c.op, w.last, c.value)))

(* The detour through the rule engine (legacy_conditions.py, _evaluate_conditions)
   keeps the meaning of the conditions of a library: an invalid one never
   holds, and unknown dates never count. *)
LegacyMeaning ==
    q = "library" =>
        (y.library <=> IF x.logic = "OR" THEN \E i \in DOMAIN x.conds : Says(x.conds[i], x.w)
                       ELSE x.conds # <<>> /\ \A i \in DOMAIN x.conds : Says(x.conds[i], x.w))

(* Copying the conditions of a library into an expert rule (db/schema.py,
   _build_expert_conditions) never widens them, as long as they are joined by
   AND, name fields that the library knows, and the dates are known: what the
   copy queues, the library with its Seerr filter would have queued.  (The copy
   drops a condition on any other field, except that it takes "added_days_ago",
   which never holds in the library.) *)
MigratedNarrows ==
    q = "library" /\ x.logic = "AND" /\ x.w.added # None /\ (x.w.never \/ x.w.last # None)
        => (y.copy => y.library /\ y.filter)

(* The last dated play of a media, by a user or in the activity log. *)
PlayDates ==
    LET seen(u) == x.c.ud[u] # <<>> /\ (x.c.ud[u][m1].played \/ x.c.ud[u][m1].plays > 0)
    IN {IF x.c.ud[u][m1].last # None THEN x.c.ud[u][m1].last ELSE Lookup(x.c.log, m1)
          : u \in {v \in {u1, u2} : seen(v)}} \ {None}

(* A media that anybody has played within the period is not queued, whichever
   of the two paths of _collect_eligible_items looks at it and whatever the
   other users did: every rule of the run asks for 30 days without a play. *)
RecentPlayIsKept == q = "scan" /\ y # {} => \A d \in PlayDates : d > 30

(* The second chance of the expert rules (_evaluate_expert_rules_fallback)
   does not bring back what the user ignored, nor what is queued already. *)
IgnoredStaysOut == q = "scan" => \A e \in y : e.id \notin x.c.queued \cup x.c.ignored

(* The file or the folder of a film is the path or holds it. *)
FilmAt(m, path) == \E k \in {m.file, m.folder} : k = path \/ Inside(path, k)

(* A file of an episode of the server. *)
FileAt(s, path, id) ==
    \E j \in DOMAIN s.series : \E k \in DOMAIN s.series[j].files :
        s.series[j].files[k].id = id /\ s.series[j].files[k].path = path

HasEntry(s, type, path, id) ==
    IF type = "movie"
    THEN \E j \in DOMAIN s.movies : s.movies[j].id = id /\ FilmAt(s.movies[j], path)
    ELSE FileAt(s, path, id)

(* A server that answers has what the row e of a media names. *)
EntryIsReal(servers, type, e) ==
    \E i \in DOMAIN servers :
        servers[i].up /\ servers[i].url = e.url /\ HasEntry(servers[i], type, e.path, e.arr)

(* The number and the server of a queued row belong together: that server has
   the film, or the file of the episode, of this number at the path of the
   row.  A film is found by its folder too. *)
ArrPairIsReal ==
    q = "scan" => \A e \in y : e.arr # None => EntryIsReal(x.c.servers, x.item.type, e)

(* A deletion (radarr_delete_by_id) goes to a usable server, and to another
   one than the row names only when that one holds the file, or when the row
   names none and there is no choice. *)
NeverGuess ==
    q = "target" /\ y # None =>
        \E i \in DOMAIN x.servers : LET s == x.servers[i] IN
            /\ s.url = y /\ Usable(s)
            /\ \/ y = x.url
               \/ x.url = None /\ Len(x.servers) = 1
               \/ x.path # None /\ s.up
                  /\ \E j \in DOMAIN s.movies : HasFilm(s.movies[j], x.path)

(* The purge (_purge_stale_seerr_items) removes rows without a requester only
   from libraries where no rule could queue them: with groups joined by AND,
   the rules it looked at cannot fire there. *)
PurgeMatchesRules ==
    q = "purge" => \A lib \in y : ExpertAction(x.rules, x.item, lib).action = None

(* A season or a series enters the queue only when every file Sonarr has in
   it is eligible (_consolidate_and_insert), provided that the scan lists no
   file twice. *)
GroupIsComplete ==
    q = "groups" => \A r \in y :
        {p \in {x.cache[i].path : i \in DOMAIN x.cache} :
            <<x.unit, GroupKey(Get(x.cache, p), x.unit)>> = r.id}
          \subseteq {x.eligible[i].path : i \in DOMAIN x.eligible}

(* A row of a season or a series is not deleted before any of its episodes
   would be, and it shows a play when one of them was played, the last play
   of all. *)
GroupSpeaksForAll ==
    q = "groups" => \A r \in y : \A i \in DOMAIN x.eligible :
        LET e == x.eligible[i] IN
        <<x.unit, GroupKey(e, x.unit)>> = r.id =>
            /\ r.grace >= e.grace /\ r.plays >= e.plays
            /\ e.last # None => r.last # None /\ r.last <= e.last

(* Plex queues without a rule only what is pending elsewhere under the same
   TMDB id and kind, films and series apart, and never a content that is
   ignored on any server (_tmdb_key, _grace_for_item). *)
MirrorsPendingOnly ==
    q = "plex" /\ y # {} =>
        /\ x.item.tmdb # None => \A r \in x.c.ignoredRows :
               ~(r.tmdb = x.item.tmdb /\ (r.type = "movie" <=> x.item.type = "movie"))
        /\ \/ x.c.rules # <<>>
           \/ \E r \in x.c.pending :
                 r.tmdb = x.item.tmdb /\ (r.type = "movie" <=> x.item.type = "movie")

(* The conditions of a library mean the same to every evaluator. *)
RuleMeaning == LegacyMeaning /\ MigratedNarrows

(* What enters the queue does so for a reason the user has given. *)
QueuedWithReason == RecentPlayIsKept /\ IgnoredStaysOut /\ MirrorsPendingOnly

(* Radarr and Sonarr are asked for the entry of the very file. *)
RightArrEntry == ArrPairIsReal /\ NeverGuess

(* A season or a series goes as a whole, as late as its last episode. *)
GroupsAreWhole == GroupIsComplete /\ GroupSpeaksForAll
=============================================================================
