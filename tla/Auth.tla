-------------------------------- MODULE Auth --------------------------------
(***************************************************************************)
(* Sessions and attempt limiting (auth.py, routers/auth.py,                *)
(* _rate_limit_backend.py): one browser, its tabs sharing one refresh      *)
(* cookie, and one client address.  Every await of the endpoints is a      *)
(* step.  The limiter is modelled at the grain of MariaDB, where the       *)
(* insertion and the count are two statements; SQLite runs them in one     *)
(* transaction.  Attempt time stamps are distinct (time.time()), so a      *)
(* release finds its own row; tokens are numbered as they are created.     *)
(***************************************************************************)
EXTENDS Integers, Sequences, FiniteSets

CONSTANTS Tabs,         \* requests in flight at one time
          AttemptMax,   \* RATE_LIMIT_MAX
          AttemptWindow,\* RATE_LIMIT_WINDOW
          RetireGrace,        \* grace_seconds of retire_refresh_token
          Lifetime,     \* REFRESH_TOKEN_EXPIRE_DAYS
          LastSecond,   \* bound: the clock
          MaxTokens,    \* bound: tokens ever created
          MaxSends,     \* bound: requests ever sent
          MaxErrors     \* bound: database errors and lost answers

AuthConstants ==
    /\ AttemptMax \in Nat \ {0} /\ AttemptWindow \in Nat \ {0}
    /\ RetireGrace \in Nat /\ LastSecond \in Nat
    /\ Lifetime \in Nat /\ Lifetime > LastSecond + RetireGrace
    /\ IsFiniteSet(Tabs)

VARIABLES
    second,    \* the clock
    attempts,  \* rate_limit: [endpoint -> [store -> [stamp -> rows]]]
    tokens,    \* refresh_tokens: <<[expires, revoked], ...>>
    cookie,    \* the token the browser holds, 0 for none
    request,   \* where each request is
    sends,     \* history: requests sent so far
    admitted,  \* history: as attempts, those let in that did not succeed (yet)
    errors,    \* history: database errors so far
    ended      \* history: an answer was lost, or sessions were ended on purpose

authVars == <<second, attempts, tokens, cookie, request, sends, admitted, errors, ended>>

Endpoints == {"login", "refresh"}
Stores == {"table", "memory"}
NoRequest == [at |-> "idle"]
NoAttempts == [e \in Endpoints |-> [s \in Stores |-> [t \in 0..LastSecond |-> 0]]]

AuthInit ==
    /\ second = 0 /\ attempts = NoAttempts /\ admitted = NoAttempts
    /\ tokens = <<[expires |-> Lifetime, revoked |-> FALSE]>> /\ cookie = 1
    /\ request = [q \in Tabs |-> NoRequest]
    /\ sends = 0 /\ errors = 0 /\ ended = FALSE

At(q, where) == request[q].at = where
Goes(q, where) == request' = [request EXCEPT ![q].at = where]
Leaves(q) == request' = [request EXCEPT ![q] = NoRequest]

-----------------------------------------------------------------------------
(* login and refresh: the stamp of the attempt and the cookie sent along. *)
Send(q, e, right) ==
    /\ sends < MaxSends /\ sends' = sends + 1
    /\ ~ended                      \* bound: the requests under way then are the last
    /\ At(q, "idle") /\ q = CHOOSE p \in Tabs : At(p, "idle")  \* tabs are alike
    /\ request' = [request EXCEPT ![q] =
          [at |-> "record", to |-> e, stamp |-> second,
           sent |-> IF e = "refresh" THEN cookie ELSE 0,
           right |-> right, recorded |-> {}, by |-> "table", new |-> 0]]
    /\ UNCHANGED <<second, attempts, tokens, cookie, admitted, errors, ended>>

(* The rows of a store after the purge of what is before the attempt's
   window, with the attempt added. *)
WithAttempt(rows, stamp) ==
    [t \in 0..LastSecond |->
        (IF t < stamp - AttemptWindow THEN 0 ELSE rows[t])
        + (IF t = stamp THEN 1 ELSE 0)]

RowsAfter(rows, cutoff) ==
    Cardinality(UNION {{t} \X (1..rows[t]) : t \in {u \in 0..LastSecond : u > cutoff}})

Record(q) ==
    LET r == request[q] IN
    /\ At(q, "record")
    /\ attempts' = [attempts EXCEPT ![r.to]["table"] = WithAttempt(@, r.stamp)]
    /\ request' = [request EXCEPT ![q].at = "count", ![q].recorded = {"table"}]
    /\ UNCHANGED <<second, tokens, cookie, admitted, errors, ended, sends>>

(* Let in to the verification, or refused with a 429. *)
Decide(q, rows, store) ==
    LET r == request[q]
        blocked == RowsAfter(rows, r.stamp - AttemptWindow) > AttemptMax
    IN  IF blocked
          THEN Leaves(q) /\ UNCHANGED admitted
          ELSE /\ request' = [request EXCEPT ![q].at = "verify", ![q].by = store,
                                             ![q].recorded = @ \cup {store}]
               /\ admitted' = [admitted EXCEPT ![r.to][store][r.stamp] = @ + 1]

(* Mutation: the count is taken before the attempt is recorded, and the
   attempt is recorded once it has failed. *)
CountFirst(q) ==
    /\ At(q, "record") \/ At(q, "count")
    /\ Decide(q, attempts[request[q].to]["table"], "table")
    /\ UNCHANGED <<second, attempts, tokens, cookie, errors, ended, sends>>

Count(q) ==
    /\ At(q, "count")
    /\ Decide(q, attempts[request[q].to]["table"], "table")
    /\ UNCHANGED <<second, attempts, tokens, cookie, errors, ended, sends>>

(* The database raises at either statement: the attempt is recorded and
   counted in memory, under _rate_lock. *)
CountInMemory(q) ==
    LET r == request[q]
        rows == WithAttempt(attempts[r.to]["memory"], r.stamp)
    IN  /\ At(q, "record") \/ At(q, "count")
        /\ errors < MaxErrors /\ errors' = errors + 1
        /\ attempts' = [attempts EXCEPT ![r.to]["memory"] = rows]
        /\ Decide(q, rows, "memory")
        /\ UNCHANGED <<second, tokens, cookie, ended, sends>>

-----------------------------------------------------------------------------
Valid(t) == t # 0 /\ ~tokens[t].revoked /\ second <= tokens[t].expires

(* verify_password, verify_refresh_token. *)
Verify(q) ==
    LET r == request[q]
        good == IF r.to = "login" THEN r.right ELSE Valid(r.sent)
    IN  /\ At(q, "verify")
        /\ IF good THEN Goes(q, "release") ELSE Leaves(q)
        /\ UNCHANGED <<second, attempts, tokens, cookie, admitted, errors, ended, sends>>

(* release_attempt looks in the table; only when the table cannot be reached
   does it look in memory. *)
Release(q, store) ==
    LET r == request[q]
        own == store \in r.recorded
    IN  /\ At(q, "release")
        /\ IF store = "memory" THEN errors < MaxErrors /\ errors' = errors + 1
                               ELSE UNCHANGED errors
        /\ attempts' = IF own /\ attempts[r.to][store][r.stamp] > 0
                         THEN [attempts EXCEPT ![r.to][store][r.stamp] = @ - 1]
                         ELSE attempts
        /\ admitted' = [admitted EXCEPT ![r.to][r.by][r.stamp] = @ - 1]
        /\ Goes(q, "create")
        /\ UNCHANGED <<second, tokens, cookie, ended, sends>>

NewToken == [expires |-> second + Lifetime, revoked |-> FALSE]

(* create_refresh_token; login answers with it, refresh retires the old
   token first. *)
Create(q) ==
    /\ At(q, "create") /\ Len(tokens) < MaxTokens
    /\ tokens' = Append(tokens, NewToken)
    /\ request' = [request EXCEPT ![q].new = Len(tokens) + 1,
                     ![q].at = IF request[q].to = "login" THEN "answer" ELSE "retire"]
    /\ UNCHANGED <<second, attempts, cookie, admitted, errors, ended, sends>>

(* Mutation: the old token is retired before there is a new one. *)
RetireFirst(q) ==
    /\ At(q, "release") \/ At(q, "create") \/ At(q, "retire")
    /\ request[q].to = "refresh"
    /\ tokens' = [tokens EXCEPT ![request[q].sent].expires =
                    IF @ > second + RetireGrace THEN second + RetireGrace ELSE @]
    /\ request' = [request EXCEPT ![q].at = IF At(q, "retire") THEN "answer" ELSE @]
    /\ UNCHANGED <<second, attempts, cookie, admitted, errors, ended, sends>>

(* retire_refresh_token: a token only ever gets less time. *)
Retire(q) ==
    /\ At(q, "retire")
    /\ tokens' = [tokens EXCEPT ![request[q].sent].expires =
                    IF @ > second + RetireGrace THEN second + RetireGrace ELSE @]
    /\ Goes(q, "answer")
    /\ UNCHANGED <<second, attempts, cookie, admitted, errors, ended, sends>>

(* The database raises at verify, create or retire: a 500, no cookie set. *)
RequestFails(q) ==
    /\ At(q, "verify") \/ At(q, "create") \/ At(q, "retire")
    /\ errors < MaxErrors /\ errors' = errors + 1
    /\ Leaves(q)
    /\ UNCHANGED <<second, attempts, tokens, cookie, admitted, ended, sends>>

Answer(q) ==
    /\ At(q, "answer")
    /\ cookie' = request[q].new
    /\ Leaves(q)
    /\ UNCHANGED <<second, attempts, tokens, admitted, errors, ended, sends>>

AnswerLost(q) ==
    /\ At(q, "answer") /\ errors < MaxErrors
    /\ Leaves(q) /\ errors' = errors + 1 /\ ended' = TRUE
    /\ UNCHANGED <<second, attempts, tokens, cookie, admitted, sends>>

-----------------------------------------------------------------------------
AllRevoked == [i \in DOMAIN tokens |-> [tokens[i] EXCEPT !.revoked = TRUE]]

(* logout: revoke_refresh_token on the cookie, and the cookie cleared. *)
LogOut ==
    /\ cookie # 0 /\ ~ended  \* bound: sessions end once
    /\ tokens' = [tokens EXCEPT ![cookie].revoked = TRUE]
    /\ cookie' = 0 /\ ended' = TRUE
    /\ UNCHANGED <<second, attempts, request, admitted, errors, sends>>

(* logout-all, from this browser or another device. *)
LogOutAll ==
    /\ ~ended
    /\ tokens' = AllRevoked /\ ended' = TRUE
    /\ UNCHANGED <<second, attempts, cookie, request, admitted, errors, sends>>

(* change-password, after the verification: revoke_all_refresh_tokens, then
   a token for the browser that asked. *)
ChangePassword ==
    /\ ~ended /\ Len(tokens) < MaxTokens
    /\ tokens' = Append(AllRevoked, NewToken)
    /\ cookie' = Len(tokens) + 1 /\ ended' = TRUE
    /\ UNCHANGED <<second, attempts, request, admitted, errors, sends>>

SecondPasses ==
    /\ second < LastSecond /\ second' = second + 1
    /\ UNCHANGED <<attempts, tokens, cookie, request, admitted, errors, ended, sends>>

AuthNext ==
    \/ \E q \in Tabs :
          \/ \E right \in BOOLEAN : Send(q, "login", right)
          \/ Send(q, "refresh", TRUE)
          \/ Record(q) \/ Count(q) \/ CountInMemory(q)
          \/ Verify(q) \/ \E s \in Stores : Release(q, s)
          \/ Create(q) \/ Retire(q) \/ RequestFails(q)
          \/ Answer(q) \/ AnswerLost(q)
    \/ LogOut \/ LogOutAll \/ ChangePassword \/ SecondPasses

AuthSpec == AuthInit /\ [][AuthNext]_authVars

-----------------------------------------------------------------------------
(* rate_limit_attempt: however many requests arrive at once, and however
   their statements interleave, no more than RATE_LIMIT_MAX of those of a
   window are verified without success.  A database that fails now and then
   gives each store its own budget, and no more. *)
BurstIsBounded ==
    \A e \in Endpoints, s \in Stores :
        RowsAfter(admitted[e][s], second - AttemptWindow) <= AttemptMax

LongLived(t) == t # 0 /\ ~tokens[t].revoked /\ tokens[t].expires >= Lifetime

(* refresh: while answers arrive and nobody ends a session, the browser holds
   a token with its full life, or an answer that brings one is on its way:
   tabs that refresh at once, answers that overtake each other and database
   errors between the steps do not log the user out. *)
SessionIsKept ==
    ended \/ LongLived(cookie)
          \/ \E q \in Tabs : At(q, "answer") /\ LongLived(request[q].new)
=============================================================================
