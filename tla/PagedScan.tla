------------------------------ MODULE PagedScan ------------------------------
(***************************************************************************)
(* How the scan of an Emby or Jellyfin library reads the server page by    *)
(* page (emby_client.py: get_play_activity, get_library_user_data,         *)
(* get_items_in_library; scanner/_emby_scanner.py: _collect_eligible_items)*)
(* while the server goes on living: media appear in and disappear from the *)
(* listing between two pages, users go on playing, and any page may fail.  *)
(*                                                                         *)
(* The condition of the library is "never watched".                        *)
(***************************************************************************)
EXTENDS Integers, Sequences, FiniteSets, SequencesExt

CONSTANTS Media,
          Users,
          PageSize,     \* 500 in the code
          MaxInserts,   \* media that join the listing during the scan
          MaxRemovals,  \* media that leave it
          MaxPlays      \* plays that stop during the scan

PagedConstants == PageSize \in Nat \ {0} /\ IsFiniteSet(Media)

VARIABLES shelf,    \* the server: its listing, in its order
          played,   \* the server: played[u], what u has played
          stops,    \* the server: the activity log, newest first
          left,     \* history: how many media have left the listing
          step,     \* the scan: "log", "users", "items", "done" or "aborted"
          logFrom, log,    \* get_play_activity: startIndex, the media found
          userFrom, known, \* get_library_user_data, per user
          ready,           \* the users whose data is complete
          itemFrom, list,  \* the pages of items: startIndex, the media seen
          cut,             \* a page of items or of the log failed
          before           \* history: what the server had at the start

pagedVars == <<shelf, played, stops, left, step, logFrom, log, userFrom, known, ready,
               itemFrom, list, cut, before>>

server == <<shelf, played, stops, left>>

Page(s, from) ==
    SubSeq(s, from + 1, IF from + PageSize < Len(s) THEN from + PageSize ELSE Len(s))
In(s) == ToSet(s)

(* The media are interchangeable: one order of the listing stands for all. *)
PagedInit ==
    /\ \E S \in {Media, Media \ {CHOOSE m \in Media : TRUE}} :
          /\ shelf = SetToSeq(S)
          /\ played \in [Users -> SUBSET S]
    /\ stops \in {<<>>} \cup {<<m>> : m \in UNION {played[u] : u \in Users}}
    /\ left = 0
    /\ step = "log"
    /\ logFrom = 0 /\ log = {}
    /\ userFrom = [u \in Users |-> 0] /\ known = [u \in Users |-> {}] /\ ready = {}
    /\ itemFrom = 0 /\ list = <<>> /\ cut = FALSE
    /\ before = [shelf |-> In(shelf), stops |-> In(stops),
                 played |-> UNION {played[u] : u \in Users}]

-----------------------------------------------------------------------------
(* The server. *)

scan == <<step, logFrom, log, userFrom, known, ready, itemFrom, list, cut, before>>

Running == step \notin {"done", "aborted"}

Appear(m, i) ==
    /\ Running
    /\ m \notin In(shelf) /\ m \notin before.shelf
    /\ Cardinality(In(shelf) \ before.shelf) < MaxInserts
    /\ shelf' = InsertAt(shelf, i, m)
    /\ UNCHANGED <<played, stops, left, scan>>

Vanish(i) ==
    /\ Running
    /\ left < MaxRemovals
    /\ left' = left + 1
    /\ shelf' = RemoveAt(shelf, i)
    /\ UNCHANGED <<played, stops, scan>>

StopPlaying(u, m) ==
    /\ Running
    /\ Len(stops) < MaxPlays + Cardinality(before.stops)
    /\ played' = [played EXCEPT ![u] = @ \cup {m}]
    /\ stops' = <<m>> \o stops
    /\ UNCHANGED <<shelf, left, scan>>

-----------------------------------------------------------------------------
(* The scan. *)

LogPage ==
    /\ step = "log"
    /\ LET page == Page(stops, logFrom)
       IN /\ log' = log \cup In(page)
          /\ logFrom' = logFrom + Len(page)
          /\ step' = IF page = <<>> \/ logFrom' >= Len(stops) THEN "users" ELSE "log"
    /\ UNCHANGED <<server, userFrom, known, ready, itemFrom, list, cut, before>>

(* The orchestrator goes on with an empty log. *)
LogFails ==
    /\ step = "log"
    /\ log' = {} /\ step' = "users" /\ cut' = TRUE
    /\ UNCHANGED <<server, logFrom, userFrom, known, ready, itemFrom, list, before>>

(* The users are read side by side (asyncio.gather). *)
UserPage(u) ==
    /\ step = "users" /\ u \notin ready
    /\ LET page == Page(shelf, userFrom[u])
           last == page = <<>> \/ userFrom[u] + Len(page) >= Len(shelf)
       IN /\ known' = [known EXCEPT ![u] = @ \cup {<<m, m \in played[u]>> : m \in In(page)}]
          /\ userFrom' = [userFrom EXCEPT ![u] = @ + Len(page)]
          /\ ready' = IF last THEN ready \cup {u} ELSE ready
          /\ step' = IF ready' = Users THEN "items" ELSE "users"
    /\ UNCHANGED <<server, logFrom, log, itemFrom, list, cut, before>>

(* Mutation: a user whose page fails counts with the pages read so far. *)
UserPageSwallowed(u) ==
    /\ step = "users" /\ u \notin ready
    /\ ready' = ready \cup {u}
    /\ step' = IF ready' = Users THEN "items" ELSE "users"
    /\ UNCHANGED <<server, logFrom, log, userFrom, known, itemFrom, list, cut, before>>

(* MediaServerUnreachable: the library is not scanned. *)
UserPageFails(u) ==
    /\ step = "users" /\ u \notin ready
    /\ step' = "aborted"
    /\ UNCHANGED <<server, logFrom, log, userFrom, known, ready, itemFrom, list, cut, before>>

(* The index advances by a whole page whatever came back. *)
ItemPage ==
    /\ step = "items"
    /\ LET page == Page(shelf, itemFrom)
       IN /\ list' = list \o page
          /\ itemFrom' = itemFrom + PageSize
          /\ step' = IF page = <<>> \/ itemFrom' >= Len(shelf) THEN "done" ELSE "items"
    /\ UNCHANGED <<server, logFrom, log, userFrom, known, ready, cut, before>>

(* get_items_in_library answers ([], 0): the loop ends as if the library
   were exhausted. *)
ItemPageFails ==
    /\ step = "items"
    /\ step' = "done" /\ cut' = TRUE
    /\ UNCHANGED <<server, logFrom, log, userFrom, known, ready, itemFrom, list, before>>

PagedNext ==
    \/ \E m \in Media, i \in 1..Len(shelf) + 1 : Appear(m, i)
    \/ \E i \in 1..Len(shelf) : Vanish(i)
    \/ \E u \in Users, m \in Media : StopPlaying(u, m)
    \/ LogPage \/ LogFails
    \/ \E u \in Users : UserPage(u) \/ UserPageFails(u)
    \/ ItemPage \/ ItemPageFails

PagedSpec == PagedInit /\ [][PagedNext]_pagedVars

-----------------------------------------------------------------------------
(* What the scan makes of it: a media is watched when the data of a user says
   so, and its absence from the data says it is not. *)
Unwatched(m) == \A u \in Users : <<m, TRUE>> \notin known[u]

Eligible == {m \in In(list) : Unwatched(m)}

(* No media has left the listing under the scan.  When one does, the pages
   that follow move up, and what was at their edge is read by nobody. *)
Steady == left = 0

(* A media that somebody had played when the scan began is not queued: neither
   a page that fails nor a listing that grows under the scan turns "no data"
   into "never watched". *)
WatchedIsKept ==
    step = "done" /\ Steady => Eligible \cap before.played = {}

(* A scan none of whose pages failed has seen every media that was there from
   the beginning to the end. *)
ListedAll ==
    step = "done" /\ ~cut /\ Steady => before.shelf \subseteq In(list)

(* New plays push the activity log down under the reader without hiding an
   entry from it. *)
StopsAreSeen ==
    step \in {"users", "items", "done"} /\ ~cut => before.stops \subseteq log

(* What the queue rests on, page by page. *)
ScanSeesAll == WatchedIsKept /\ ListedAll /\ StopsAreSeen
=============================================================================
