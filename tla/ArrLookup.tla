------------------------------ MODULE ArrLookup ------------------------------
(***************************************************************************)
(* How Hygie finds the Radarr movie or the Sonarr episode file behind a    *)
(* path, and later the server a row of the queue belongs to                *)
(* (arr_clients/shared.py, radarr.py, sonarr.py, legacy_conditions.py).    *)
(*                                                                         *)
(* A path is a sequence of folder names, so "starts with folder + '/'" is  *)
(* "has the folder as a strict prefix".  A server is a record              *)
(*     [url, key, enabled, up, movies, series]                             *)
(* where up says whether it answers, movies is a sequence of               *)
(* [id, file, folder] and series one of [id, folder, files], files a       *)
(* sequence of [id, path, season].  None is Python's None or "".           *)
(***************************************************************************)
EXTENDS Integers, Sequences, SequencesExt, FiniteSetsExt

CONSTANT None

Usable(s) == s.enabled /\ s.url # None /\ s.key # None

(* _get_arr_servers *)
ArrServers(multi, legacy) ==
    LET on == FlattenSeq([i \in DOMAIN multi |->
                            IF Usable(multi[i]) THEN <<multi[i]>> ELSE <<>>])
    IN IF on # <<>> THEN on ELSE IF Usable(legacy) THEN <<legacy>> ELSE <<>>

Inside(path, folder) == folder # None /\ IsStrictPrefix(folder, path)

First(s, P(_)) ==
    LET hits == {i \in DOMAIN s : P(s[i])}
    IN IF hits = {} THEN None ELSE s[Min(hits)]

-----------------------------------------------------------------------------
(* The caches a scan builds: the entries in the order they are written; a
   server that does not answer adds none. *)

MovieKeys(srv, m) ==
    LET entry == [id |-> m.id, url |-> srv.url]
        key(p) == IF p = None THEN <<>> ELSE <<[path |-> p, entry |-> entry]>>
    IN key(m.file) \o key(m.folder)

RadarrCache(servers) ==
    FlattenSeq([i \in DOMAIN servers |->
            IF servers[i].up
            THEN FlattenSeq([j \in DOMAIN servers[i].movies |->
                         MovieKeys(servers[i], servers[i].movies[j])])
            ELSE <<>>])

SeriesKeys(srv, s) ==
    IF s.folder = None THEN <<>>
    ELSE [i \in DOMAIN s.files |->
            [path |-> s.files[i].path,
             entry |-> [id |-> s.files[i].id, url |-> srv.url,
                        series |-> s.id, season |-> s.files[i].season]]]

SonarrCache(servers) ==
    FlattenSeq([i \in DOMAIN servers |->
            IF servers[i].up
            THEN FlattenSeq([j \in DOMAIN servers[i].series |->
                         SeriesKeys(servers[i], servers[i].series[j])])
            ELSE <<>>])

(* dict[path]: the last write wins. *)
Get(cache, path) ==
    LET hits == {i \in DOMAIN cache : cache[i].path = path}
    IN IF hits = {} THEN None ELSE cache[Max(hits)].entry

(* radarr_find_by_path_cached: an exact key, or else the first key, in the
   order of first insertion, that is a folder of the path. *)
RadarrCached(path, cache) ==
    IF Get(cache, path) # None THEN Get(cache, path)
    ELSE LET k == First(cache, LAMBDA e : Inside(path, e.path))
         IN IF k = None THEN None ELSE Get(cache, k.path)

SonarrCached(path, cache) == Get(cache, path)

(* _path_matches *)
HasFilm(m, path) == m.file = path \/ Inside(path, m.folder)

(* radarr_find_by_path: the servers are asked again, in order. *)
RadarrFind(path, servers) ==
    LET fits(m) == HasFilm(m, path)
        srv == First(servers, LAMBDA s : s.up /\ \E i \in DOMAIN s.movies : fits(s.movies[i]))
    IN IF srv = None THEN None
       ELSE [id |-> First(srv.movies, fits).id, url |-> srv.url]

(* A series is opened only when its folder holds the path. *)
HasFile(s, path) ==
    Inside(path, s.folder) /\ \E i \in DOMAIN s.files : s.files[i].path = path

(* sonarr_find_by_path_full *)
SonarrFind(path, servers) ==
    LET fits(s) == HasFile(s, path)
        srv == First(servers, LAMBDA s : s.up /\ \E i \in DOMAIN s.series : fits(s.series[i]))
    IN IF srv = None THEN None
       ELSE [id |-> First(First(srv.series, fits).files, LAMBDA f : f.path = path).id,
             url |-> srv.url]

(* _resolve_arr_ids.  A movie is looked up in the cache only; an episode that
   is not in the cache is asked for, and then its series stays unknown. *)
ResolveArrIds(path, type, radarr, sonarr, servers) ==
    LET found == IF type = "movie" THEN RadarrCached(path, radarr)
                 ELSE IF SonarrCached(path, sonarr) # None THEN SonarrCached(path, sonarr)
                 ELSE SonarrFind(path, servers)
        known == found # None /\ "series" \in DOMAIN found
    IN [id     |-> IF found = None THEN None ELSE found.id,
        url    |-> IF found = None THEN None ELSE found.url,
        series |-> IF known THEN found.series ELSE None,
        season |-> IF known THEN found.season ELSE None]

-----------------------------------------------------------------------------
(* The server a row is deleted on. *)

(* Mutation: a recorded url nobody has any more falls back to the only
   server. *)
ResolveOrOnly(servers, url) ==
    LET s == First(servers, LAMBDA t : t.url = url)
    IN IF s # None THEN s ELSE IF Len(servers) = 1 THEN servers[1] ELSE None

(* _resolve_arr_server.  The urls of the model are normalised. *)
ResolveArrServer(servers, url) ==
    IF url # None THEN First(servers, LAMBDA t : t.url = url)
    ELSE IF Len(servers) = 1 THEN servers[1] ELSE None

(* radarr_delete_by_id: the recorded server, else the one that holds the file,
   else none.  The three Sonarr deletions do the same with SonarrFind. *)
DeleteTarget(servers, url, path) ==
    LET srv == ResolveArrServer(servers, url)
        hit == IF path = None THEN None ELSE RadarrFind(path, servers)
    IN IF srv # None THEN srv.url ELSE IF hit # None THEN hit.url ELSE None

=============================================================================
