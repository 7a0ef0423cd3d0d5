----------------------------- MODULE LeavingSoon -----------------------------
(***************************************************************************)
(* The "leaving soon" collection of Emby and Jellyfin and the banners on   *)
(* the posters (collection.py; reevaluate_library_queue in                 *)
(* scanner/_emby_scanner.py restores posters too).  sync_emby_collection   *)
(* runs after a scan, after a deletion, after a request that ignores media *)
(* and from a timer, without a lock: several may be under way at once.     *)
(* The overlay is enabled; a poster is clean (Nil) or bears the days left. *)
(*                                                                         *)
(* The server may come to hold several collections of the name: two syncs  *)
(* that both found none create one each, and so does a refused search.     *)
(***************************************************************************)
EXTENDS Integers, Sequences

CONSTANTS Films, Syncs, Nil,
          Window,     \* emby_leaving_soon_days
          Dates,      \* days a film may be away from its deletion
          MaxMoves,   \* bound: changes of the queue
          MaxFaults,  \* bound: requests of a sync that fail
          Restarts    \* bound: restarts of the process

ASSUME LeavingSoonConstants == Window \in Nat /\ Dates \subseteq Nat /\ Nil \notin Nat

VARIABLES
    due,        \* media_queue: days to the deletion of a pending film, or Nil
    boxes,      \* the server: what the collections of that name hold
    first,      \* the server: which of them a search lists first, 0 for none
    poster,     \* the server: the days on the banner, or Nil
    overlays,   \* _overlay_cache
    sync,       \* the calls of sync_emby_collection
    moves, flops, restarts

soonVars == <<due, boxes, first, poster, overlays, sync, moves, flops, restarts>>

Resting == [at |-> "idle"]

SoonInit ==
    /\ due \in [Films -> Dates \cup {Nil}]
    /\ boxes = <<>> /\ first = 0
    /\ poster = [f \in Films |-> Nil]
    /\ overlays = [f \in Films |-> Nil]
    /\ sync = [s \in Syncs |-> Resting]
    /\ moves = 0 /\ flops = 0 /\ restarts = 0

(* get_pending_before_for_server *)
Wanted == {f \in Films : due[f] # Nil /\ due[f] <= Window}

SyncReads(s) ==
    /\ sync[s].at = "idle"
    /\ sync' = [sync EXCEPT ![s] = [at |-> "find", wanted |-> Wanted,
                                       due |-> [f \in Wanted |-> due[f]]]]
    /\ UNCHANGED <<due, boxes, first, poster, overlays, moves, flops, restarts>>

(* _get_or_create_collection, the search.  A search that is refused is taken
   for one that found nothing; nothing is created for nothing. *)
Search(s, ok) ==
    /\ sync[s].at = "find" /\ (ok \/ flops < MaxFaults)
    /\ flops' = IF ok THEN flops ELSE flops + 1
    /\ LET found == IF ok THEN first ELSE 0
       IN sync' = [sync EXCEPT ![s] =
                     IF found = 0 /\ @.wanted = {} THEN Resting
                     ELSE [at |-> IF found = 0 THEN "create" ELSE "list",
                           box |-> found, wanted |-> @.wanted, due |-> @.due]]
    /\ UNCHANGED <<due, boxes, first, poster, overlays, moves, restarts>>

(* _get_or_create_collection, the users and the creation: whatever was made
   since the search, the server makes one more, with the films in it, and may
   list it before or after the others. *)
Create(s) ==
    /\ sync[s].at = "create"
    /\ boxes' = Append(boxes, sync[s].wanted)
    /\ first' \in (IF first = 0 THEN {} ELSE {first}) \cup {Len(boxes) + 1}
    /\ sync' = [sync EXCEPT ![s].at = "list", ![s].box = Len(boxes) + 1]
    /\ UNCHANGED <<due, poster, overlays, moves, flops, restarts>>

(* _sync_collection_membership: what the collection holds, then two requests
   whose answers nobody looks at.  A listing that fails counts as empty. *)
ListMembers(s, ok) ==
    /\ sync[s].at = "list" /\ (ok \/ flops < MaxFaults)
    /\ flops' = IF ok THEN flops ELSE flops + 1
    /\ LET now == IF ok THEN boxes[sync[s].box] ELSE {}
       IN sync' = [sync EXCEPT ![s] = [at |-> "add", box |-> @.box, wanted |-> @.wanted, due |-> @.due,
                                       add |-> @.wanted \ now, remove |-> now \ @.wanted]]
    /\ UNCHANGED <<due, boxes, first, poster, overlays, moves, restarts>>

AddMembers(s, ok) ==
    /\ sync[s].at = "add" /\ (ok \/ (sync[s].add # {} /\ flops < MaxFaults))
    /\ flops' = IF ok THEN flops ELSE flops + 1
    /\ boxes' = IF ok THEN [boxes EXCEPT ![sync[s].box] = @ \cup sync[s].add] ELSE boxes
    /\ sync' = [sync EXCEPT ![s] = [at |-> "remove", box |-> @.box, wanted |-> @.wanted,
                                    due |-> @.due, remove |-> @.remove]]
    /\ UNCHANGED <<due, first, poster, overlays, moves, restarts>>

(* Mutation: the films that left are not taken out. *)
KeptMembers(s) == boxes[sync[s].box]

Remaining(s) == boxes[sync[s].box] \ sync[s].remove

RemoveMembers(s, ok) ==
    /\ sync[s].at = "remove" /\ (ok \/ (sync[s].remove # {} /\ flops < MaxFaults))
    /\ flops' = IF ok THEN flops ELSE flops + 1
    /\ boxes' = IF ok THEN [boxes EXCEPT ![sync[s].box] = Remaining(s)] ELSE boxes
    /\ sync' = [sync EXCEPT ![s] = [at |-> "posters", due |-> @.due,
                                    restore |-> @.remove, apply |-> @.wanted]]
    /\ UNCHANGED <<due, first, poster, overlays, moves, restarts>>

(* _restore_posters_for_removed: the poster comes from the row of the film;
   without a row, or when the image cannot be had, the banner stays. *)
Restore(s, f, ok) ==
    /\ sync[s].at = "posters" /\ f \in sync[s].restore
    /\ LET got == ok /\ due[f] # Nil
       IN /\ poster' = IF got THEN [poster EXCEPT ![f] = Nil] ELSE poster
          /\ overlays' = IF got THEN [overlays EXCEPT ![f] = Nil] ELSE overlays
    /\ ok \/ flops < MaxFaults
    /\ flops' = IF ok THEN flops ELSE flops + 1
    /\ sync' = [sync EXCEPT ![s].restore = @ \ {f}]
    /\ UNCHANGED <<due, boxes, first, moves, restarts>>

(* _apply_overlays, once the posters are restored: a film whose banner of
   that day was uploaded before is passed over. *)
Apply(s, f, ok) ==
    /\ sync[s].at = "posters" /\ sync[s].restore = {} /\ f \in sync[s].apply
    /\ LET days == sync[s].due[f]
           todo == overlays[f] # days
       IN /\ poster' = IF todo /\ ok THEN [poster EXCEPT ![f] = days] ELSE poster
          /\ overlays' = IF todo /\ ok THEN [overlays EXCEPT ![f] = days] ELSE overlays
          /\ ok \/ (todo /\ flops < MaxFaults)
    /\ flops' = IF ok THEN flops ELSE flops + 1
    /\ sync' = [sync EXCEPT ![s].apply = @ \ {f}]
    /\ UNCHANGED <<due, boxes, first, moves, restarts>>

(* The mosaic of the collection is rebuilt; the sync is over. *)
SyncEnds(s) ==
    /\ sync[s].at = "posters" /\ sync[s].restore = {} /\ sync[s].apply = {}
    /\ sync' = [sync EXCEPT ![s] = Resting]
    /\ UNCHANGED <<due, boxes, first, poster, overlays, moves, flops, restarts>>

(* An exception of the client, its answer lost, ends the sync where it is, and
   so does a creation that is refused. *)
SyncFails(s) ==
    /\ sync[s].at # "idle" /\ flops < MaxFaults
    /\ flops' = flops + 1
    /\ sync' = [sync EXCEPT ![s] = Resting]
    /\ UNCHANGED <<due, boxes, first, poster, overlays, moves, restarts>>

-----------------------------------------------------------------------------
(* The queue: a film is detected, rescheduled, ignored or removed. *)
QueueMoves(f, d) ==
    /\ moves < MaxMoves /\ d # due[f]
    /\ moves' = moves + 1
    /\ due' = [due EXCEPT ![f] = d]
    /\ UNCHANGED <<boxes, first, poster, overlays, sync, flops, restarts>>

(* reevaluate_library_queue: the poster is uploaded, the row removed. *)
Reevaluated(f) ==
    /\ moves < MaxMoves /\ due[f] # Nil
    /\ moves' = moves + 1
    /\ poster' = [poster EXCEPT ![f] = Nil]
    /\ due' = [due EXCEPT ![f] = Nil]
    /\ UNCHANGED <<boxes, first, overlays, sync, flops, restarts>>

(* The cache is lost, the syncs die. *)
Restart ==
    /\ restarts < Restarts
    /\ restarts' = restarts + 1
    /\ overlays' = [f \in Films |-> Nil]
    /\ sync' = [s \in Syncs |-> Resting]
    /\ UNCHANGED <<due, boxes, first, poster, moves, flops>>

SyncStep(s) ==
    \/ Search(s, TRUE) \/ Create(s) \/ ListMembers(s, TRUE)
    \/ AddMembers(s, TRUE) \/ RemoveMembers(s, TRUE) \/ SyncEnds(s)
    \/ \E f \in Films : Restore(s, f, TRUE) \/ Apply(s, f, TRUE)

SoonNext ==
    \/ \E s \in Syncs : \/ SyncReads(s) \/ SyncStep(s) \/ SyncFails(s)
                        \/ Search(s, FALSE) \/ ListMembers(s, FALSE)
                        \/ AddMembers(s, FALSE) \/ RemoveMembers(s, FALSE)
                        \/ \E f \in Films : Restore(s, f, FALSE) \/ Apply(s, f, FALSE)
    \/ \E f \in Films : Reevaluated(f) \/ \E d \in Dates \cup {Nil} : QueueMoves(f, d)
    \/ Restart

(* A sync goes on to its end, and the timer starts the next. *)
SoonFairness == \A s \in Syncs : WF_soonVars(SyncStep(s)) /\ WF_soonVars(SyncReads(s))

SoonSpec == SoonInit /\ [][SoonNext]_soonVars /\ SoonFairness

-----------------------------------------------------------------------------
(* Once the queue rests, the collection that a search finds comes to hold the
   films that are about to leave and no other, whatever syncs with an older
   view of the queue still do to it, and whichever of several collections of
   the name the server lists first.  The others keep what they hold: no sync
   looks at them again. *)
MembershipConverges ==
    <>[](Wanted = IF first = 0 THEN {} ELSE boxes[first])

=============================================================================
