----------------------------- MODULE AuthProofs -----------------------------
(***************************************************************************)
(* Tabs that refresh together keep the session, whatever the number of     *)
(* tabs, tokens, errors and seconds.  The shape of the argument: a retired *)
(* token is one that a request was sent with, a new token is one that no   *)
(* request was sent with, and the browser takes up new tokens only.        *)
(*                                                                         *)
(* And a burst of attempts is bounded, for any number of tabs, stores      *)
(* that fail and releases: recording comes before counting.                *)
(***************************************************************************)
EXTENDS Auth, FiniteSetTheorems, TLAPS

Token == [expires : Nat, revoked : {FALSE}]
Request == [at : {"record", "count", "verify", "release", "create", "retire", "answer"},
            to : Endpoints, stamp : Nat, sent : Nat, right : BOOLEAN,
            recorded : SUBSET Stores, by : Stores, new : Nat]

Bringing == {q \in Tabs : request[q].at \in {"retire", "answer"}}
Under == {q \in Tabs : request[q].at # "idle"}

AuthTypes ==
    /\ second \in Nat
    /\ tokens \in Seq(Token)
    /\ cookie \in 1..Len(tokens)
    /\ request \in [Tabs -> Request \cup {NoRequest}]

(* What a request was sent with, and what it brings. *)
Carries ==
    /\ \A q \in Under : request[q].sent <= Len(tokens)
    /\ \A q \in Under : request[q].to = "refresh" => request[q].sent >= 1
    /\ \A q \in Tabs : request[q].at = "retire" => request[q].to = "refresh"
    /\ \A q \in Bringing : request[q].new \in 1..Len(tokens)
    /\ \A q \in Bringing : tokens[request[q].new].expires >= Lifetime

(* Nobody has seen a token before its answer arrives. *)
Unseen ==
    /\ \A q \in Bringing : request[q].new # cookie
    /\ \A q \in Bringing, p \in Under : request[q].new # request[p].sent
    /\ \A q, p \in Bringing : q # p => request[q].new # request[p].new

Held == \/ tokens[cookie].expires >= Lifetime
        \/ \E q \in Tabs : request[q].at = "answer"

Session == AuthTypes /\ Carries /\ Unseen /\ Held
SessionInv == ended \/ Session

LEMMA SessionGood ==
    ASSUME AuthConstants, SessionInv PROVE SessionIsKept
<1>1. CASE ended
  BY <1>1 DEF SessionIsKept
<1>2. CASE ~ended
  <2>1. AuthTypes /\ Carries /\ Unseen /\ Held
    BY <1>2 DEF SessionInv, Session
  <2>2. \A t \in 1..Len(tokens) : tokens[t] \in Token
    BY <2>1 DEF AuthTypes
  <2>a. \A r \in Token : ~r.revoked
    BY Zenon DEF Token
  <2>b. \A t \in 1..Len(tokens) : ~tokens[t].revoked
    BY <2>2, <2>a, Zenon
  <2>3. \A t \in 1..Len(tokens) : t # 0 /\ ~tokens[t].revoked
    BY <2>b
  <2>4. CASE tokens[cookie].expires >= Lifetime
    BY <2>1, <2>3, <2>4 DEF AuthTypes, SessionIsKept, LongLived
  <2>5. CASE \E q \in Tabs : request[q].at = "answer"
    <3>1. PICK q \in Tabs : request[q].at = "answer"
      BY <2>5
    <3>2. request[q].new \in 1..Len(tokens) /\ tokens[request[q].new].expires >= Lifetime
      BY <2>1, <3>1 DEF Carries, Bringing
    <3> QED
      BY <2>3, <3>1, <3>2 DEF SessionIsKept, LongLived, At
  <2> QED
    BY <2>1, <2>4, <2>5 DEF Held
<1> QED
  BY <1>1, <1>2

LEMMA SessionStarts ==
    ASSUME AuthConstants, AuthInit PROVE SessionInv
<1>1. [expires |-> Lifetime, revoked |-> FALSE] \in Token
  BY DEF AuthConstants, Token
<1>2. Len(tokens) = 1 /\ tokens[1].expires = Lifetime /\ tokens \in Seq(Token)
  BY <1>1 DEF AuthInit
<1>3. AuthTypes
  BY <1>2 DEF AuthInit, AuthTypes
<1>4. \A q \in Tabs : request[q].at = "idle"
  BY DEF AuthInit, NoRequest
<1>5. Bringing = {} /\ Under = {}
  BY <1>4 DEF Bringing, Under
<1>6. Carries /\ Unseen
  BY <1>4, <1>5 DEF Carries, Unseen
<1>7. Held
  BY <1>2 DEF Held, AuthInit, AuthConstants
<1> QED
  BY <1>3, <1>6, <1>7 DEF SessionInv, Session

-----------------------------------------------------------------------------
LEMMA RequestUnderWay ==
    ASSUME AuthTypes, NEW q \in Tabs, request[q].at # "idle"
    PROVE  request[q] \in Request
BY DEF AuthTypes, NoRequest

(* The steps before there is a new token leave tokens and cookie alone: the
   request goes on with what it was sent with, or ends. *)
LEMMA QuietStep ==
    ASSUME Session, NEW q \in Tabs, request[q].at \notin {"idle", "answer"},
           NEW r \in Request \cup {NoRequest}, request' = [request EXCEPT ![q] = r],
           \/ r = NoRequest
           \/ /\ r.to = request[q].to /\ r.sent = request[q].sent
              /\ r.at \notin {"idle", "retire", "answer"},
           UNCHANGED <<second, tokens, cookie>>
    PROVE  Session'
<1> USE DEF Session
<1>1. /\ request'[q] = r /\ \A p \in Tabs : p # q => request'[p] = request[p]
      /\ r.at \notin {"retire", "answer"}
  BY DEF AuthTypes, NoRequest
<1>2. AuthTypes'
  BY DEF AuthTypes
<1>3. \A p \in Bringing' : p \in Bringing /\ p # q /\ request'[p] = request[p]
  BY <1>1 DEF Bringing
<1>4. \A p \in Under' : /\ p \in Under /\ request'[p].sent = request[p].sent
                        /\ request'[p].to = request[p].to
  BY <1>1 DEF Under, NoRequest
<1>5. Carries'
  BY <1>1, <1>3, <1>4 DEF Carries
<1>6. Unseen'
  BY <1>3, <1>4 DEF Unseen
<1>7. Held'
  BY <1>1 DEF Held
<1> QED
  BY <1>2, <1>5, <1>6, <1>7

LEMMA SendStep ==
    ASSUME Session, NEW q \in Tabs, NEW e \in Endpoints, NEW g \in BOOLEAN,
           Send(q, e, g)
    PROVE  Session'
<1> USE DEF Session
<1> DEFINE r == [at |-> "record", to |-> e, stamp |-> second,
                 sent |-> IF e = "refresh" THEN cookie ELSE 0,
                 right |-> g, recorded |-> {}, by |-> "table", new |-> 0]
<1>1. /\ request' = [request EXCEPT ![q] = r] /\ request[q].at = "idle"
      /\ UNCHANGED <<second, tokens, cookie>>
  BY DEF Send, At
<1>2. r \in Request /\ r.sent \in 0..Len(tokens) /\ (r.to = "refresh" => r.sent = cookie)
      /\ (r.sent # 0 => r.sent = cookie)
  BY DEF Request, AuthTypes, Stores
<1>3. /\ r.at = "record" /\ request'[q] = r
      /\ \A p \in Tabs : p # q => request'[p] = request[p]
  BY <1>1 DEF AuthTypes
<1> HIDE DEF r
<1>4. AuthTypes'
  BY <1>1, <1>2 DEF AuthTypes
<1>5. \A p \in Bringing' : p \in Bringing /\ request'[p] = request[p]
  BY <1>3 DEF Bringing
<1>6. \A p \in Under' : p = q \/ (p \in Under /\ request'[p] = request[p])
  BY <1>3 DEF Under
<1>7. Carries'
  BY <1>1, <1>2, <1>3, <1>5, <1>6 DEF Carries, AuthTypes
<1>8. Unseen'
  BY <1>1, <1>2, <1>3, <1>5, <1>6 DEF Unseen, Carries
<1>9. Held'
  BY <1>1, <1>3 DEF Held
<1> QED
  BY <1>4, <1>7, <1>8, <1>9

LEMMA CreateStep ==
    ASSUME AuthConstants, Session, NEW q \in Tabs, Create(q)
    PROVE  Session'
<1> USE DEF Session
<1> DEFINE n == Len(tokens) + 1
           w == IF request[q].to = "login" THEN "answer" ELSE "retire"
           r == [request[q] EXCEPT !.new = n, !.at = w]
<1>1. /\ request' = [request EXCEPT ![q] = r] /\ request[q].at = "create"
      /\ tokens' = Append(tokens, NewToken) /\ UNCHANGED <<second, cookie>>
  BY DEF Create, At
<1>2. request[q] \in Request /\ q \in Under
  BY <1>1, RequestUnderWay DEF Under
<1>3. /\ r \in Request /\ r.new = n /\ r.at \in {"answer", "retire"}
      /\ r.to = request[q].to /\ r.sent = request[q].sent
      /\ (r.at = "retire" => r.to = "refresh")
  <2>1. n \in Nat /\ w \in {"answer", "retire"}
    BY DEF AuthTypes
  <2>2. request[q].to \in Endpoints
    BY <1>2 DEF Request
  <2>3. w = "retire" => request[q].to = "refresh"
    BY <2>2 DEF Endpoints
  <2> HIDE DEF n, w
  <2> QED
    BY <1>2, <2>1, <2>3 DEF Request
<1>4. NewToken \in Token /\ NewToken.expires >= Lifetime
  BY DEF NewToken, Token, AuthTypes, AuthConstants
<1>5. /\ tokens' \in Seq(Token) /\ Len(tokens') = n /\ Len(tokens) \in Nat
      /\ tokens'[n] = NewToken
      /\ \A t \in 1..Len(tokens) : tokens'[t] = tokens[t]
  BY <1>1, <1>4 DEF AuthTypes
<1>6. request'[q] = r /\ \A p \in Tabs : p # q => request'[p] = request[p]
  BY <1>1 DEF AuthTypes
<1> HIDE DEF r, n
<1>7. AuthTypes'
  BY <1>1, <1>3, <1>5 DEF AuthTypes, n
<1>8. \A p \in Bringing' : p = q \/ (p \in Bringing /\ request'[p] = request[p])
  BY <1>6 DEF Bringing
<1>9. \A p \in Under' : p \in Under /\ request'[p].sent = request[p].sent
                        /\ request'[p].to = request[p].to
  BY <1>2, <1>3, <1>6 DEF Under
<1>10. Carries'
  <2>1. \A p \in Under' : request'[p].sent <= Len(tokens')
    <3>1. \A p \in Under : request[p].sent \in Nat /\ request[p].sent <= Len(tokens)
      BY RequestUnderWay DEF Under, Request, Carries
    <3> QED
      BY <1>5, <1>9, <3>1 DEF n
  <2>2. \A p \in Under' : request'[p].to = "refresh" => request'[p].sent >= 1
    BY <1>9 DEF Carries
  <2>3. \A p \in Tabs : request'[p].at = "retire" => request'[p].to = "refresh"
    BY <1>3, <1>6 DEF Carries
  <2>4. ASSUME NEW p \in Bringing'
        PROVE  /\ request'[p].new \in 1..Len(tokens')
               /\ tokens'[request'[p].new].expires >= Lifetime
    <3>1. CASE p = q
      BY <1>3, <1>4, <1>5, <1>6, <3>1 DEF n
    <3>2. CASE p # q
      BY <1>5, <1>8, <3>2 DEF Carries, n
    <3> QED
      BY <3>1, <3>2
  <2> QED
    BY <2>1, <2>2, <2>3, <2>4 DEF Carries
<1>11. Unseen'
  <2>1. \A p \in Bringing : request[p].new # n
    BY <1>5 DEF Carries, n
  <2>2. \A p \in Under : request[p].sent # n
    BY <1>5, RequestUnderWay DEF Carries, n, Under, Request
  <2>3. cookie # n
    BY <1>5 DEF AuthTypes, n
  <2> QED
    BY <1>1, <1>3, <1>6, <1>8, <1>9, <2>1, <2>2, <2>3 DEF Unseen
<1>12. Held'
  BY <1>1, <1>5, <1>6 DEF Held, AuthTypes
<1> QED
  BY <1>7, <1>10, <1>11, <1>12

(* The token a request was sent with gets less time, and the request has
   another one to give. *)
LEMMA RetireStep ==
    ASSUME AuthConstants, Session, NEW q \in Tabs, Retire(q)
    PROVE  Session'
<1> USE DEF Session
<1> DEFINE r == [request[q] EXCEPT !.at = "answer"]
           s == request[q].sent
<1>1. /\ request' = [request EXCEPT ![q] = r] /\ request[q].at = "retire"
      /\ UNCHANGED <<second, cookie>>
  BY DEF Retire, Goes, At
<1>2. request[q] \in Request /\ q \in Under /\ q \in Bringing
  BY <1>1, RequestUnderWay DEF Under, Bringing
<1>3. /\ r \in Request /\ r.new = request[q].new /\ r.at = "answer"
      /\ r.to = request[q].to /\ r.sent = s
  BY <1>2 DEF Request
<1>4. s \in 1..Len(tokens)
  BY <1>1, <1>2 DEF Carries, Request
<1>5. /\ tokens' \in Seq(Token) /\ Len(tokens') = Len(tokens)
      /\ \A t \in 1..Len(tokens) : t # s => tokens'[t] = tokens[t]
  <2> DEFINE v == IF tokens[s].expires > second + RetireGrace THEN second + RetireGrace
                  ELSE tokens[s].expires
  <2>1. tokens' = [tokens EXCEPT ![s] = [tokens[s] EXCEPT !.expires = v]]
    BY DEF Retire
  <2>2. tokens[s] \in Token
    BY <1>4 DEF AuthTypes
  <2>3. v \in Nat
    <3>1. tokens[s].expires \in Nat
      BY <2>2, Zenon DEF Token
    <3>2. second + RetireGrace \in Nat
      BY DEF AuthTypes, AuthConstants
    <3> QED
      BY <3>1, <3>2
  <2>4. [tokens[s] EXCEPT !.expires = v] \in Token
    BY <2>2, <2>3 DEF Token
  <2> QED
    BY <1>4, <2>1, <2>4 DEF AuthTypes
<1>6. request'[q] = r /\ \A p \in Tabs : p # q => request'[p] = request[p]
  BY <1>1 DEF AuthTypes
<1> HIDE DEF r, s
<1>7. AuthTypes'
  BY <1>1, <1>3, <1>5 DEF AuthTypes
<1>8. \A p \in Bringing' : p \in Bringing /\ request'[p].new = request[p].new
  BY <1>2, <1>3, <1>6 DEF Bringing
<1>9. \A p \in Under' : p \in Under /\ request'[p].sent = request[p].sent
                        /\ request'[p].to = request[p].to
  BY <1>2, <1>3, <1>6 DEF Under, s
<1>10. \A p \in Bringing : request[p].new # s
  BY <1>2 DEF Unseen, s
<1>11. Carries'
  <2>1. \A p \in Bringing' : tokens'[request'[p].new] = tokens[request[p].new]
    BY <1>5, <1>8, <1>10 DEF Carries
  <2>2. \A p \in Tabs : request'[p].at = "retire" => request'[p].to = "refresh"
    BY <1>3, <1>6 DEF Carries
  <2> QED
    BY <1>5, <1>8, <1>9, <2>1, <2>2 DEF Carries
<1>12. Unseen'
  BY <1>1, <1>8, <1>9 DEF Unseen
<1>13. Held'
  BY <1>3, <1>6 DEF Held
<1> QED
  BY <1>7, <1>11, <1>12, <1>13

LEMMA AnswerStep ==
    ASSUME AuthConstants, Session, NEW q \in Tabs, Answer(q)
    PROVE  Session'
<1> USE DEF Session
<1>1. /\ request' = [request EXCEPT ![q] = NoRequest] /\ request[q].at = "answer"
      /\ cookie' = request[q].new /\ UNCHANGED <<second, tokens>>
  BY DEF Answer, Leaves, At
<1>2. q \in Bringing
  BY <1>1 DEF Bringing
<1>3. request'[q] = NoRequest /\ \A p \in Tabs : p # q => request'[p] = request[p]
  BY <1>1 DEF AuthTypes
<1>4. AuthTypes'
  BY <1>1, <1>2 DEF AuthTypes, Carries
<1>5. \A p \in Bringing' : p \in Bringing /\ p # q /\ request'[p] = request[p]
  BY <1>3 DEF Bringing, NoRequest
<1>6. \A p \in Under' : p \in Under /\ p # q /\ request'[p] = request[p]
  BY <1>3 DEF Under, NoRequest
<1>7. Carries'
  BY <1>1, <1>3, <1>5, <1>6 DEF Carries, NoRequest
<1>8. Unseen'
  BY <1>1, <1>2, <1>5, <1>6 DEF Unseen
<1>9. Held'
  BY <1>1, <1>2 DEF Held, Carries
<1> QED
  BY <1>4, <1>7, <1>8, <1>9

-----------------------------------------------------------------------------
LEMMA EndedForGood ==
    ASSUME AuthNext PROVE ended' = ended \/ ended' = TRUE
BY DEF AuthNext, Send, Record, Count, CountInMemory, Verify, Release, Create, Retire,
       RequestFails, Answer, AnswerLost, LogOut, LogOutAll, ChangePassword, SecondPasses

LEMMA SessionStep ==
    ASSUME AuthConstants, SessionInv, [AuthNext]_authVars
    PROVE  SessionInv'
<1>1. CASE ended
  <2>1. ended'
    BY <1>1, EndedForGood DEF authVars
  <2> QED
    BY <2>1 DEF SessionInv
<1>2. CASE UNCHANGED authVars
  BY <1>2 DEF authVars, SessionInv, Session, AuthTypes, Carries, Unseen, Held, Bringing, Under
<1>3. CASE ~ended /\ AuthNext
  <2>0. Session /\ AuthTypes
    BY <1>3 DEF SessionInv, Session
  <2>1. ASSUME NEW q \in Tabs,
               \/ \E right \in BOOLEAN : Send(q, "login", right)
               \/ Send(q, "refresh", TRUE)
        PROVE  Session'
    BY <2>0, <2>1, SendStep DEF Endpoints
  <2>2. ASSUME NEW q \in Tabs, Record(q) \/ Count(q) \/ CountInMemory(q)
        PROVE  Session'
    <3>0. request[q].at \in {"record", "count"} /\ request[q] \in Request
      BY <2>0, <2>2, RequestUnderWay DEF Record, Count, CountInMemory, At
    <3>1. UNCHANGED <<second, tokens, cookie>>
      BY <2>2 DEF Record, Count, CountInMemory
    <3>2. PICK b \in Stores, c \in SUBSET Stores :
             \/ request' = [request EXCEPT ![q] = NoRequest]
             \/ request' = [request EXCEPT ![q] = [@ EXCEPT !.at = "count", !.recorded = c]]
             \/ request' = [request EXCEPT ![q] = [@ EXCEPT !.at = "verify", !.by = b, !.recorded = c]]
      <4>1. CASE Record(q)
        BY <4>1 DEF Record, Stores
      <4>2. ASSUME NEW b \in Stores, NEW rows, Decide(q, rows, b)
            PROVE  \/ request' = [request EXCEPT ![q] = NoRequest]
                   \/ request' = [request EXCEPT ![q] = [@ EXCEPT !.at = "verify", !.by = b,
                                                   !.recorded = request[q].recorded \cup {b}]]
        BY <4>2 DEF Decide, Leaves
      <4>3. \A b \in Stores : request[q].recorded \cup {b} \in SUBSET Stores
        BY <3>0 DEF Request
      <4>4. CASE Count(q)
        BY <4>2, <4>3, <4>4 DEF Count, Stores
      <4>5. CASE CountInMemory(q)
        BY <4>2, <4>3, <4>5 DEF CountInMemory, Stores
      <4> QED
        BY <2>2, <4>1, <4>4, <4>5
    <3>3. CASE request' = [request EXCEPT ![q] = NoRequest]
      BY <2>0, <3>0, <3>1, <3>3, QuietStep
    <3>4. CASE request' = [request EXCEPT ![q] = [@ EXCEPT !.at = "count", !.recorded = c]]
      <4> DEFINE r == [request[q] EXCEPT !.at = "count", !.recorded = c]
      <4>1. r \in Request /\ r.at = "count" /\ r.to = request[q].to /\ r.sent = request[q].sent
        BY <3>0 DEF Request
      <4> QED
        BY <2>0, <3>0, <3>1, <3>4, <4>1, QuietStep
    <3>5. CASE request' = [request EXCEPT ![q] = [@ EXCEPT !.at = "verify", !.by = b, !.recorded = c]]
      <4> DEFINE r == [request[q] EXCEPT !.at = "verify", !.by = b, !.recorded = c]
      <4>1. r \in Request /\ r.at = "verify" /\ r.to = request[q].to /\ r.sent = request[q].sent
        BY <3>0 DEF Request
      <4> QED
        BY <2>0, <3>0, <3>1, <3>5, <4>1, QuietStep
    <3> QED
      BY <3>2, <3>3, <3>4, <3>5
  <2>3. ASSUME NEW q \in Tabs, Verify(q) \/ RequestFails(q) \/ \E s \in Stores : Release(q, s)
        PROVE  Session'
    <3>0. request[q].at \in {"verify", "release", "create", "retire"} /\ request[q] \in Request
      BY <2>0, <2>3, RequestUnderWay DEF Verify, RequestFails, Release, At
    <3>1. UNCHANGED <<second, tokens, cookie>>
      BY <2>3 DEF Verify, RequestFails, Release
    <3>2. \/ request' = [request EXCEPT ![q] = NoRequest]
          \/ \E w \in {"release", "create"} : request' = [request EXCEPT ![q] = [@ EXCEPT !.at = w]]
      BY <2>3 DEF Verify, RequestFails, Release, Goes, Leaves
    <3>3. CASE request' = [request EXCEPT ![q] = NoRequest]
      BY <2>0, <3>0, <3>1, <3>3, QuietStep
    <3>4. ASSUME NEW w \in {"release", "create"},
                 request' = [request EXCEPT ![q] = [@ EXCEPT !.at = w]]
          PROVE  Session'
      <4> DEFINE r == [request[q] EXCEPT !.at = w]
      <4>1. r \in Request /\ r.at = w /\ r.to = request[q].to /\ r.sent = request[q].sent
        BY <3>0 DEF Request
      <4> QED
        BY <2>0, <3>0, <3>1, <3>4, <4>1, QuietStep
    <3> QED
      BY <3>2, <3>3, <3>4
  <2>4. ASSUME NEW q \in Tabs, Create(q) \/ Retire(q) \/ Answer(q)
        PROVE  Session'
    BY <2>0, <2>4, CreateStep, RetireStep, AnswerStep
  <2>5. CASE SecondPasses
    <3>1. UNCHANGED <<tokens, cookie, request>> /\ second' = second + 1
      BY <2>5 DEF SecondPasses
    <3>2. AuthTypes'
      BY <2>0, <3>1 DEF AuthTypes
    <3>3. Carries' /\ Unseen' /\ Held'
      BY <2>0, <3>1 DEF Session, Carries, Unseen, Held, Bringing, Under
    <3> QED
      BY <3>2, <3>3 DEF Session, SessionInv
  <2>6. CASE (\E q \in Tabs : AnswerLost(q)) \/ LogOut \/ LogOutAll \/ ChangePassword
    BY <2>6 DEF AnswerLost, LogOut, LogOutAll, ChangePassword, SessionInv
  <2> QED
    BY <1>3, <2>1, <2>2, <2>3, <2>4, <2>5, <2>6 DEF AuthNext, SessionInv
<1> QED
  BY <1>1, <1>2, <1>3

(* refresh: create_refresh_token comes before retire_refresh_token, so until
   a session is ended, by a logout, a new password or the loss of an answer,
   the browser holds a token with its full life or is about to get one. *)
THEOREM SessionSurvives == AuthConstants /\ AuthSpec => []SessionIsKept
<1>1. ASSUME AuthConstants PROVE AuthSpec => []SessionIsKept
  <2>1. AuthInit => SessionInv
    BY <1>1, SessionStarts
  <2>2. SessionInv /\ [AuthNext]_authVars => SessionInv'
    BY <1>1, SessionStep
  <2>3. SessionInv => SessionIsKept
    BY <1>1, SessionGood
  <2> QED
    BY <2>1, <2>2, <2>3, PTL DEF AuthSpec
<1> QED
  BY <1>1

-----------------------------------------------------------------------------
(* The rate limit.  A request that is let in to the verification has a row of
   its own in the store it is counted by, and a store counts the rows of the
   window only after that row is there. *)

Attempted == [at : {"record", "count", "verify", "release", "create", "retire", "answer"},
              to : Endpoints, stamp : 0..LastSecond, sent : Nat, right : BOOLEAN,
              recorded : SUBSET Stores, by : Stores, new : Nat]
Tally == [0..LastSecond -> Int]
Counters == [Endpoints -> [Stores -> Tally]]
Ticket == [expires : Nat, revoked : BOOLEAN]

RateTypes ==
    /\ second \in 0..LastSecond
    /\ tokens \in Seq(Ticket) /\ cookie \in Nat
    /\ attempts \in Counters /\ admitted \in Counters
    /\ request \in [Tabs -> Attempted \cup {NoRequest}]
    /\ \A q \in Tabs : request[q].at # "idle" => request[q].stamp <= second
    /\ \A q \in Tabs : request[q].at = "record" => request[q].recorded = {}
    /\ \A q \in Tabs : request[q].at = "count" => request[q].recorded = {"table"}

(* The requests with a row in the store that have not been let in by it, and
   may still take that row away. *)
IsPledged(r, e, s, t) ==
    /\ r.at \in {"count", "verify", "release"}
    /\ r.to = e /\ r.stamp = t /\ s \in r.recorded
    /\ r.at = "count" \/ r.by # s
Pledged(e, s, t) == {q \in Tabs : IsPledged(request[q], e, s, t)}

Recent(t) == t \in 0..LastSecond /\ t >= second - AttemptWindow

(* In the window there is a row for each of those let in and one for each of
   those that have one without being let in by it. *)
Backed ==
    \A e \in Endpoints, s \in Stores : \A t \in 0..LastSecond : Recent(t) =>
        admitted[e][s][t] + Cardinality(Pledged(e, s, t)) <= attempts[e][s][t]

RateInv == RateTypes /\ Backed /\ BurstIsBounded

LEMMA WindowMoves ==
    ASSUME NEW a \in Int, NEW b \in Int, NEW w \in Int, a <= b
    PROVE  a - w \in Int /\ b - w \in Int /\ a - w <= b - w
  OBVIOUS

(* The tally of an endpoint in a store, and a table with another one. *)
LEMMA TallyOf ==
    ASSUME NEW c \in Counters, NEW e \in Endpoints, NEW s \in Stores
    PROVE  c[e] \in [Stores -> Tally] /\ c[e][s] \in Tally /\ \A t \in 0..LastSecond : c[e][s][t] \in Int
<1>1. c[e] \in [Stores -> Tally]
  BY DEF Counters
<1>2. c[e][s] \in Tally
  BY <1>1
<1> QED
  BY <1>1, <1>2 DEF Tally

Replaced(c, e, s, new) == [c EXCEPT ![e] = [c[e] EXCEPT ![s] = new]]

LEMMA TallyReplaced ==
    ASSUME NEW c \in Counters, NEW e \in Endpoints, NEW s \in Stores, NEW new \in Tally
    PROVE  /\ Replaced(c, e, s, new) \in Counters /\ Replaced(c, e, s, new)[e][s] = new
           /\ \A f \in Endpoints, o \in Stores :
                f # e \/ o # s => Replaced(c, e, s, new)[f][o] = c[f][o]
<1>1. c[e] \in [Stores -> Tally]
  BY TallyOf
<1> DEFINE row == [c[e] EXCEPT ![s] = new]
<1>2. row \in [Stores -> Tally] /\ row[s] = new /\ \A o \in Stores : o # s => row[o] = c[e][o]
  BY <1>1
<1> HIDE DEF row
<1> DEFINE d == [c EXCEPT ![e] = row]
<1>3. d = Replaced(c, e, s, new)
  BY DEF row, Replaced
<1>4. d \in Counters /\ d[e] = row /\ \A f \in Endpoints : f # e => d[f] = c[f]
  BY <1>2 DEF Counters
<1> HIDE DEF d
<1> QED
  BY <1>2, <1>3, <1>4

(* RowsAfter counts a finite set. *)
Rows(h, k) == UNION {{t} \X (1..h[t]) : t \in {u \in 0..LastSecond : u > k}}

LEMMA RowsCounted ==
    ASSUME NEW h \in [0..LastSecond -> Int], NEW k \in Int, LastSecond \in Nat
    PROVE  IsFiniteSet(Rows(h, k)) /\ RowsAfter(h, k) \in Nat
<1> DEFINE W == {u \in 0..LastSecond : u > k}
           Slices == {{t} \X (1..h[t]) : t \in W}
           slice == [t \in W |-> {t} \X (1..h[t])]
<1>1. IsFiniteSet(W)
  <2>1. IsFiniteSet(0..LastSecond) /\ W \in SUBSET (0..LastSecond)
    BY FS_Interval
  <2> QED
    BY <2>1, FS_Subset
<1>2. IsFiniteSet(Slices)
  <2>1. slice \in Surjection(W, Slices)
    BY DEF Surjection
  <2> QED
    BY <1>1, <2>1, FS_Surjection
<1>3. \A T \in Slices : IsFiniteSet(T)
  <2> SUFFICES ASSUME NEW t \in W PROVE IsFiniteSet({t} \X (1..h[t]))
    OBVIOUS
  <2>1. h[t] \in Int
    OBVIOUS
  <2>2. IsFiniteSet({t})
    BY FS_Singleton
  <2>3. \A n \in Int : IsFiniteSet(1..n)
    BY FS_Interval
  <2> QED
    BY <2>1, <2>2, <2>3, FS_Product
<1>4. IsFiniteSet(Rows(h, k))
  BY <1>2, <1>3, FS_UNION DEF Rows
<1> QED
  BY <1>4, FS_CardinalityType DEF RowsAfter, Rows

(* Fewer rows in a shorter window. *)
LEMMA FewerRows ==
    ASSUME NEW f \in [0..LastSecond -> Int], NEW g \in [0..LastSecond -> Int],
           NEW c \in Int, NEW d \in Int, c <= d, LastSecond \in Nat,
           \A t \in 0..LastSecond : t > d => f[t] <= g[t]
    PROVE  RowsAfter(f, d) <= RowsAfter(g, c)
<1>1. Rows(f, d) \subseteq Rows(g, c)
  <2> SUFFICES ASSUME NEW t \in 0..LastSecond, t > d, NEW x \in {t} \X (1..f[t])
               PROVE  \E u \in 0..LastSecond : u > c /\ x \in {u} \X (1..g[u])
    BY DEF Rows
  <2>1. t > c /\ f[t] <= g[t] /\ f[t] \in Int /\ g[t] \in Int
    OBVIOUS
  <2>2. 1..f[t] \subseteq 1..g[t]
    BY <2>1
  <2> QED
    BY <2>1, <2>2
<1>2. IsFiniteSet(Rows(g, c))
  BY RowsCounted
<1>3. Cardinality(Rows(f, d)) <= Cardinality(Rows(g, c))
  BY <1>1, <1>2, FS_Subset
<1> QED
  BY <1>3 DEF RowsAfter, Rows

(* One request moves: it leaves a set of requests, joins it or does neither. *)
LEMMA OneMoves ==
    ASSUME AuthConstants, NEW q \in Tabs,
           \A p \in Tabs : p # q => request'[p] = request[p],
           NEW e, NEW s, NEW t
    PROVE  /\ Cardinality(Pledged(e, s, t)) \in Nat /\ Cardinality(Pledged(e, s, t)') \in Nat
           /\ Cardinality(Pledged(e, s, t)') + (IF q \in Pledged(e, s, t) THEN 1 ELSE 0)
              = Cardinality(Pledged(e, s, t)) + (IF q \in Pledged(e, s, t)' THEN 1 ELSE 0)
<1> DEFINE P == Pledged(e, s, t)
           N == Pledged(e, s, t)'
<1>1. P \in SUBSET Tabs /\ N \in SUBSET Tabs
  BY DEF Pledged
<1>2. IsFiniteSet(P) /\ IsFiniteSet(N)
  BY <1>1, FS_Subset DEF AuthConstants
<1>3. P \ {q} = N \ {q}
  BY DEF Pledged
<1> HIDE DEF P, N
<1>4. Cardinality(P) \in Nat /\ Cardinality(N) \in Nat
  BY <1>2, FS_CardinalityType
<1>5. /\ Cardinality(P \ {q}) = IF q \in P THEN Cardinality(P) - 1 ELSE Cardinality(P)
      /\ Cardinality(N \ {q}) = IF q \in N THEN Cardinality(N) - 1 ELSE Cardinality(N)
  BY <1>2, FS_RemoveElement
<1>6. Cardinality(N) + (IF q \in P THEN 1 ELSE 0) = Cardinality(P) + (IF q \in N THEN 1 ELSE 0)
  <2>1. (IF q \in P THEN Cardinality(P) - 1 ELSE Cardinality(P))
        = (IF q \in N THEN Cardinality(N) - 1 ELSE Cardinality(N))
    BY <1>3, <1>5
  <2> QED
    BY <1>4, <2>1
<1> QED
  BY <1>4, <1>6 DEF P, N

(* A number of requests is a number. *)
LEMMA PledgedCount ==
    ASSUME AuthConstants, NEW e, NEW s, NEW t
    PROVE  Cardinality(Pledged(e, s, t)) \in Nat /\ Cardinality(Pledged(e, s, t)') \in Nat
<1>1. Pledged(e, s, t) \in SUBSET Tabs /\ Pledged(e, s, t)' \in SUBSET Tabs
  BY DEF Pledged
<1>2. IsFiniteSet(Pledged(e, s, t)) /\ IsFiniteSet(Pledged(e, s, t)')
  BY <1>1, FS_Subset DEF AuthConstants
<1> QED
  BY <1>2, FS_CardinalityType

Within(e, s) == RowsAfter(admitted[e][s], second - AttemptWindow) <= AttemptMax

(* A store that lets nobody in stays within the bound. *)
LEMMA NobodyNew ==
    ASSUME AuthConstants, RateInv, RateTypes', second' >= second,
           NEW e \in Endpoints, NEW s \in Stores,
           \A t \in 0..LastSecond : admitted'[e][s][t] <= admitted[e][s][t]
    PROVE  Within(e, s)'
<1> DEFINE f == admitted'[e][s]
           g == admitted[e][s]
           d == second' - AttemptWindow
           c == second - AttemptWindow
<1>1. f \in [0..LastSecond -> Int] /\ g \in [0..LastSecond -> Int]
  BY TallyOf DEF RateInv, RateTypes, Tally
<1>2. c \in Int /\ d \in Int /\ c <= d /\ LastSecond \in Nat
  <2>1. second \in 0..LastSecond /\ second' \in 0..LastSecond
    BY DEF RateInv, RateTypes
  <2>2. AttemptWindow \in Int /\ LastSecond \in Nat
    BY DEF AuthConstants
  <2>3. second \in Int /\ second' \in Int
    BY <2>1, <2>2
  <2> QED
    BY <2>2, <2>3, WindowMoves
<1>3. \A t \in 0..LastSecond : f[t] <= g[t]
  OBVIOUS
<1>4. RowsAfter(g, c) <= AttemptMax
  BY DEF RateInv, BurstIsBounded
<1>5. RowsAfter(f, d) <= AttemptMax
  <2> HIDE DEF f, g, c, d
  <2>1. RowsAfter(f, d) <= RowsAfter(g, c)
    BY <1>1, <1>2, <1>3, FewerRows
  <2>2. RowsAfter(f, d) \in Nat /\ RowsAfter(g, c) \in Nat
    BY <1>1, <1>2, RowsCounted
  <2> QED
    BY <1>4, <2>1, <2>2 DEF AuthConstants
<1> QED
  BY <1>5 DEF Within

(* A store that lets somebody in has just counted: those it has let in within
   the window have a row each among those it counted. *)
LEMMA OneLetIn ==
    ASSUME AuthConstants, RateTypes', Backed',
           NEW e \in Endpoints, NEW s \in Stores, NEW c \in Int, c <= second' - AttemptWindow,
           ~(RowsAfter(attempts'[e][s], c) > AttemptMax)
    PROVE  Within(e, s)'
<1> DEFINE f == admitted'[e][s]
           g == attempts'[e][s]
           d == second' - AttemptWindow
<1>1. f \in [0..LastSecond -> Int] /\ g \in [0..LastSecond -> Int]
  BY TallyOf DEF RateTypes, Tally
<1>2. c \in Int /\ d \in Int /\ c <= d /\ LastSecond \in Nat
  <2>1. second' \in 0..LastSecond
    BY DEF RateTypes
  <2>2. AttemptWindow \in Int /\ LastSecond \in Nat
    BY DEF AuthConstants
  <2>3. second' \in Int
    BY <2>1, <2>2
  <2>4. d \in Int
    BY <2>2, <2>3
  <2> QED
    BY <2>2, <2>4
<1>3. \A t \in 0..LastSecond : t > d => f[t] <= g[t]
  <2> SUFFICES ASSUME NEW t \in 0..LastSecond, t > d PROVE f[t] <= g[t]
    OBVIOUS
  <2>1. Recent(t)'
    BY <1>2 DEF Recent
  <2>2. f[t] + Cardinality(Pledged(e, s, t)') <= g[t]
    BY <2>1 DEF Backed
  <2>3. f[t] \in Int /\ g[t] \in Int
    BY <1>1
  <2> HIDE DEF f, g
  <2> QED
    BY <2>2, <2>3, PledgedCount
<1>4. RowsAfter(f, d) <= AttemptMax
  <2> HIDE DEF f, d
  <2>1. RowsAfter(f, d) <= RowsAfter(g, c)
    BY <1>1, <1>2, <1>3, FewerRows
  <2>2. RowsAfter(f, d) \in Nat /\ RowsAfter(g, c) \in Nat
    BY <1>1, <1>2, RowsCounted
  <2>3. ~(RowsAfter(g, c) > AttemptMax)
    OBVIOUS
  <2> QED
    BY <2>1, <2>2, <2>3 DEF AuthConstants
<1> QED
  BY <1>4 DEF Within

LEMMA AllWithin ==
    ASSUME \A e \in Endpoints, s \in Stores : Within(e, s)'
    PROVE  BurstIsBounded'
  BY DEF BurstIsBounded, Within

(* A step that touches no counter: the request takes no row of another. *)
LEMMA QuietRate ==
    ASSUME AuthConstants, RateInv, NEW q \in Tabs, NEW r \in Attempted \cup {NoRequest},
           request' = [request EXCEPT ![q] = r], UNCHANGED <<second, attempts, admitted>>,
           tokens' \in Seq(Ticket), cookie' \in Nat,
           r.at # "idle" => r.stamp <= second,
           r.at = "record" => r.recorded = {}, r.at # "count",
           \A e \in Endpoints, s \in Stores : \A t \in 0..LastSecond :
               IsPledged(r, e, s, t) => IsPledged(request[q], e, s, t)
    PROVE  RateInv'
<1>1. request'[q] = r /\ \A p \in Tabs : p # q => request'[p] = request[p]
  BY DEF RateInv, RateTypes
<1>2. RateTypes'
  <2>1. request' \in [Tabs -> Attempted \cup {NoRequest}]
    BY DEF RateInv, RateTypes
  <2>2. \A p \in Tabs : /\ request'[p].at # "idle" => request'[p].stamp <= second
                        /\ request'[p].at = "record" => request'[p].recorded = {}
                        /\ request'[p].at = "count" => request'[p].recorded = {"table"}
    BY <1>1 DEF RateInv, RateTypes
  <2> QED
    BY <2>1, <2>2 DEF RateInv, RateTypes
<1>3. Backed'
  <2> SUFFICES ASSUME NEW e \in Endpoints, NEW s \in Stores, NEW t \in 0..LastSecond, Recent(t)
               PROVE  admitted[e][s][t] + Cardinality(Pledged(e, s, t)') <= attempts[e][s][t]
    BY DEF Backed, Recent
  <2>1. admitted[e][s][t] + Cardinality(Pledged(e, s, t)) <= attempts[e][s][t]
    BY DEF RateInv, Backed
  <2>2. q \in Pledged(e, s, t)' => q \in Pledged(e, s, t)
    BY <1>1 DEF Pledged
  <2>3. admitted[e][s][t] \in Int /\ attempts[e][s][t] \in Int
    BY TallyOf DEF RateInv, RateTypes
  <2>4. /\ Cardinality(Pledged(e, s, t)) \in Nat /\ Cardinality(Pledged(e, s, t)') \in Nat
        /\ Cardinality(Pledged(e, s, t)') + (IF q \in Pledged(e, s, t) THEN 1 ELSE 0)
           = Cardinality(Pledged(e, s, t)) + (IF q \in Pledged(e, s, t)' THEN 1 ELSE 0)
    BY <1>1, OneMoves
  <2>5. Cardinality(Pledged(e, s, t)') <= Cardinality(Pledged(e, s, t))
    BY <2>2, <2>4
  <2> QED
    BY ONLY <2>1, <2>3, <2>4, <2>5
<1>4. BurstIsBounded'
  BY DEF RateInv, BurstIsBounded
<1> QED
  BY <1>2, <1>3, <1>4 DEF RateInv

LEMMA OneAttempt ==
    ASSUME RateTypes, NEW q \in Tabs, request[q].at # "idle"
    PROVE  /\ request[q] \in Attempted /\ request[q].to \in Endpoints
           /\ request[q].stamp \in 0..LastSecond /\ request[q].stamp <= second
           /\ request[q].recorded \subseteq Stores /\ request[q].by \in Stores
<1>1. request[q] \in Attempted
  BY DEF RateTypes, NoRequest
<1> QED
  BY <1>1 DEF Attempted, RateTypes

(* A recorded attempt adds one to the rows of its second and takes away none
   of the window's. *)
LEMMA AttemptAdded ==
    ASSUME AuthConstants, RateTypes, NEW q \in Tabs, request[q].at # "idle", NEW s \in Stores,
           attempts' = [attempts EXCEPT ![request[q].to][s] = WithAttempt(@, request[q].stamp)]
    PROVE  /\ attempts' \in Counters
           /\ \A e \in Endpoints, o \in Stores : \A t \in 0..LastSecond : Recent(t) =>
                attempts'[e][o][t] = attempts[e][o][t]
                  + (IF e = request[q].to /\ o = s /\ t = request[q].stamp THEN 1 ELSE 0)
<1> DEFINE to == request[q].to
           stamp == request[q].stamp
           old == attempts[to][s]
           new == WithAttempt(old, stamp)
<1>1. /\ to \in Endpoints /\ stamp \in 0..LastSecond /\ stamp <= second
      /\ second \in 0..LastSecond /\ AttemptWindow \in Nat /\ LastSecond \in Nat
  BY OneAttempt DEF RateTypes, AuthConstants
<1>2. attempts \in Counters
  BY DEF RateTypes
<1>3. old \in [0..LastSecond -> Int]
  BY <1>1, <1>2, TallyOf DEF Tally
<1> HIDE DEF to, stamp
<1>4. attempts' = Replaced(attempts, to, s, new)
  BY DEF to, stamp, Replaced
<1> HIDE DEF old
<1>5. /\ new \in Tally
      /\ \A t \in 0..LastSecond : t >= second - AttemptWindow =>
           new[t] = old[t] + (IF t = stamp THEN 1 ELSE 0)
  BY <1>1, <1>3 DEF WithAttempt, Tally
<1> HIDE DEF new
<1>6. attempts' \in Counters /\ attempts'[to][s] = new
  <2>1. attempts \in Counters /\ to \in Endpoints /\ s \in Stores /\ new \in Tally
    BY <1>1, <1>2, <1>5
  <2>2. Replaced(attempts, to, s, new) \in Counters /\ Replaced(attempts, to, s, new)[to][s] = new
    BY ONLY <2>1, TallyReplaced
  <2> QED
    BY <1>4, <2>2
<1>7. \A e \in Endpoints, o \in Stores : e # to \/ o # s => attempts'[e][o] = attempts[e][o]
  BY <1>1, <1>2, <1>4, <1>5, TallyReplaced
<1>8. attempts[to][s] = old
  BY DEF old
<1>9. ASSUME NEW e \in Endpoints, NEW o \in Stores, NEW t \in 0..LastSecond, Recent(t)
      PROVE  attempts'[e][o][t] = attempts[e][o][t] + (IF e = to /\ o = s /\ t = stamp THEN 1 ELSE 0)
  <2>1. CASE e = to /\ o = s
    BY <1>5, <1>6, <1>8, <1>9, <2>1 DEF Recent
  <2>2. CASE e # to \/ o # s
    <3>1. attempts[e][o][t] \in Int
      BY <1>2, TallyOf
    <3> QED
      BY <1>7, <2>2, <3>1
  <2> QED
    BY <2>1, <2>2
<1> QED
  BY <1>6, <1>9 DEF to, stamp

(* One more or one less in a tally. *)
Bumped(c, e, s, i, k) == [c EXCEPT ![e][s][i] = @ + k]

LEMMA TallyBumped ==
    ASSUME NEW c \in Counters, NEW e \in Endpoints, NEW s \in Stores,
           NEW i \in 0..LastSecond, NEW k \in Int
    PROVE  /\ Bumped(c, e, s, i, k) \in Counters
           /\ \A f \in Endpoints, o \in Stores : \A t \in 0..LastSecond :
                Bumped(c, e, s, i, k)[f][o][t]
                  = c[f][o][t] + (IF f = e /\ o = s /\ t = i THEN k ELSE 0)
<1> DEFINE old == c[e][s]
           new == [old EXCEPT ![i] = old[i] + k]
           d == Bumped(c, e, s, i, k)
<1>1. old \in [0..LastSecond -> Int]
  BY TallyOf DEF Tally
<1>2. d = Replaced(c, e, s, new)
  BY DEF Bumped, Replaced
<1>3. old = c[e][s]
  OBVIOUS
<1> HIDE DEF old, d
<1>4. /\ new \in Tally
      /\ \A t \in 0..LastSecond : new[t] = old[t] + (IF t = i THEN k ELSE 0)
  BY <1>1 DEF Tally
<1> HIDE DEF new
<1>5. d \in Counters /\ d[e][s] = new
  <2>1. Replaced(c, e, s, new) \in Counters /\ Replaced(c, e, s, new)[e][s] = new
    BY <1>4, TallyReplaced
  <2> QED
    BY <1>2, <2>1
<1>6. \A f \in Endpoints, o \in Stores : f # e \/ o # s => d[f][o] = c[f][o]
  BY <1>2, <1>4, TallyReplaced
<1>7. ASSUME NEW f \in Endpoints, NEW o \in Stores, NEW t \in 0..LastSecond
      PROVE  d[f][o][t] = c[f][o][t] + (IF f = e /\ o = s /\ t = i THEN k ELSE 0)
  <2>1. CASE f = e /\ o = s
    BY <1>3, <1>4, <1>5, <2>1
  <2>2. CASE f # e \/ o # s
    <3>1. c[f][o][t] \in Int
      BY TallyOf
    <3> QED
      BY <1>6, <2>2, <3>1
  <2> QED
    BY <2>1, <2>2
<1> QED
  BY <1>5, <1>7 DEF d

LEMMA TallyTaken ==
    ASSUME NEW c \in Counters, NEW e \in Endpoints, NEW s \in Stores, NEW i \in 0..LastSecond
    PROVE  /\ Bumped(c, e, s, i, -1) \in Counters
           /\ \A f \in Endpoints, o \in Stores : \A t \in 0..LastSecond :
                Bumped(c, e, s, i, -1)[f][o][t]
                  = c[f][o][t] + (IF f = e /\ o = s /\ t = i THEN -1 ELSE 0)
<1> DEFINE k == -1
<1>1. k \in Int
  OBVIOUS
<1> HIDE DEF k
<1>2. /\ Bumped(c, e, s, i, k) \in Counters
      /\ \A f \in Endpoints, o \in Stores : \A t \in 0..LastSecond :
           Bumped(c, e, s, i, k)[f][o][t] = c[f][o][t] + (IF f = e /\ o = s /\ t = i THEN k ELSE 0)
  BY <1>1, TallyBumped
<1> QED
  BY <1>2 DEF k

(* Where a request stands in the counts, as a number. *)
Share(r, e, s, t) == IF IsPledged(r, e, s, t) THEN 1 ELSE 0

(* A step of one request keeps the counters backed when what it adds to those
   let in and to those pledged, it adds to the rows. *)
LEMMA StillBacked ==
    ASSUME AuthConstants, RateTypes, Backed, RateTypes', second' = second, NEW q \in Tabs,
           \A p \in Tabs : p # q => request'[p] = request[p],
           \A e \in Endpoints, s \in Stores : \A t \in 0..LastSecond : Recent(t) =>
               admitted'[e][s][t] + attempts[e][s][t] + Share(request'[q], e, s, t)
                 <= admitted[e][s][t] + attempts'[e][s][t] + Share(request[q], e, s, t)
    PROVE  Backed'
<1> SUFFICES ASSUME NEW e \in Endpoints, NEW s \in Stores, NEW t \in 0..LastSecond, Recent(t)
             PROVE  admitted'[e][s][t] + Cardinality(Pledged(e, s, t)') <= attempts'[e][s][t]
  BY DEF Backed, Recent
<1>1. admitted[e][s][t] + Cardinality(Pledged(e, s, t)) <= attempts[e][s][t]
  BY DEF Backed
<1>2. /\ admitted[e][s][t] \in Int /\ attempts[e][s][t] \in Int
      /\ admitted'[e][s][t] \in Int /\ attempts'[e][s][t] \in Int
  BY TallyOf DEF RateTypes
<1>3. /\ q \in Pledged(e, s, t) <=> IsPledged(request[q], e, s, t)
      /\ q \in Pledged(e, s, t)' <=> IsPledged(request'[q], e, s, t)
  BY DEF Pledged, IsPledged
<1>4. /\ Cardinality(Pledged(e, s, t)) \in Nat /\ Cardinality(Pledged(e, s, t)') \in Nat
      /\ Cardinality(Pledged(e, s, t)') + (IF q \in Pledged(e, s, t) THEN 1 ELSE 0)
         = Cardinality(Pledged(e, s, t)) + (IF q \in Pledged(e, s, t)' THEN 1 ELSE 0)
  BY OneMoves
<1>5. Cardinality(Pledged(e, s, t)') + Share(request[q], e, s, t)
      = Cardinality(Pledged(e, s, t)) + Share(request'[q], e, s, t)
  BY <1>3, <1>4 DEF Share
<1>6. Share(request[q], e, s, t) \in Int /\ Share(request'[q], e, s, t) \in Int
  BY DEF Share
<1>7. admitted'[e][s][t] + attempts[e][s][t] + Share(request'[q], e, s, t)
        <= admitted[e][s][t] + attempts'[e][s][t] + Share(request[q], e, s, t)
  OBVIOUS
<1> DEFINE a == admitted[e][s][t]
           b == attempts[e][s][t]
           c == admitted'[e][s][t]
           d == attempts'[e][s][t]
           m == Cardinality(Pledged(e, s, t))
           n == Cardinality(Pledged(e, s, t)')
           x == Share(request[q], e, s, t)
           y == Share(request'[q], e, s, t)
<1>8. /\ a \in Int /\ b \in Int /\ c \in Int /\ d \in Int /\ m \in Int /\ n \in Int
      /\ x \in Int /\ y \in Int /\ a + m <= b /\ n + x = m + y /\ c + b + y <= a + d + x
  BY <1>1, <1>2, <1>4, <1>5, <1>6, <1>7
<1>9. c + n <= d
  <2> HIDE DEF a, b, c, d, m, n, x, y
  <2> QED
    BY <1>8
<1> QED
  BY <1>9

(* Nobody is let in anywhere. *)
LEMMA NobodyLetIn ==
    ASSUME AuthConstants, RateInv, RateTypes', second' >= second,
           \A e \in Endpoints, s \in Stores : \A t \in 0..LastSecond :
               admitted'[e][s][t] <= admitted[e][s][t]
    PROVE  BurstIsBounded'
  BY NobodyNew, AllWithin

(* One is let in, by a store that has counted. *)
LEMMA SomebodyLetIn ==
    ASSUME AuthConstants, RateInv, RateTypes', Backed', second' = second,
           NEW to \in Endpoints, NEW store \in Stores, NEW stamp \in 0..LastSecond, stamp <= second,
           admitted' = Bumped(admitted, to, store, stamp, 1),
           ~(RowsAfter(attempts'[to][store], stamp - AttemptWindow) > AttemptMax)
    PROVE  BurstIsBounded'
<1>1. ASSUME NEW e \in Endpoints, NEW s \in Stores
      PROVE  Within(e, s)'
  <2>1. CASE e = to /\ s = store
    <3>1. second \in Int /\ stamp \in Int /\ AttemptWindow \in Int
      BY DEF RateInv, RateTypes, AuthConstants
    <3>2. stamp - AttemptWindow \in Int /\ stamp - AttemptWindow <= second' - AttemptWindow
      BY <3>1
    <3> QED
      BY <2>1, <3>2, OneLetIn
  <2>2. CASE e # to \/ s # store
    <3>0. admitted \in Counters /\ 1 \in Int
      BY DEF RateInv, RateTypes
    <3>1. \A t \in 0..LastSecond : admitted'[e][s][t] = admitted[e][s][t] + 0
      <4> SUFFICES ASSUME NEW t \in 0..LastSecond
                   PROVE  Bumped(admitted, to, store, stamp, 1)[e][s][t] = admitted[e][s][t] + 0
        OBVIOUS
      <4>1. Bumped(admitted, to, store, stamp, 1)[e][s][t]
              = admitted[e][s][t] + (IF e = to /\ s = store /\ t = stamp THEN 1 ELSE 0)
        BY <3>0, TallyBumped
      <4> QED
        BY <2>2, <4>1
    <3>2. \A t \in 0..LastSecond : admitted[e][s][t] \in Int
      BY TallyOf DEF RateInv, RateTypes
    <3>3. \A t \in 0..LastSecond : admitted'[e][s][t] <= admitted[e][s][t]
      BY <3>1, <3>2
    <3>4. second' >= second
      BY DEF RateInv, RateTypes, AuthConstants
    <3> QED
      BY <3>3, <3>4, NobodyNew
  <2> QED
    BY <2>1, <2>2
<1> QED
  BY <1>1, AllWithin

(* One request moves on. *)
LEMMA RequestMoves ==
    ASSUME RateTypes, NEW q \in Tabs, NEW r \in Attempted \cup {NoRequest},
           request' = [request EXCEPT ![q] = r], second' = second,
           attempts' \in Counters, admitted' \in Counters,
           UNCHANGED <<tokens, cookie>>,
           r.at # "idle" => r.stamp <= second, r.at # "record",
           r.at = "count" => r.recorded = {"table"}
    PROVE  /\ RateTypes' /\ request'[q] = r
           /\ \A p \in Tabs : p # q => request'[p] = request[p]
<1>1. request'[q] = r /\ \A p \in Tabs : p # q => request'[p] = request[p]
  BY DEF RateTypes
<1>2. request' \in [Tabs -> Attempted \cup {NoRequest}]
  BY DEF RateTypes
<1>3. \A p \in Tabs : /\ request'[p].at # "idle" => request'[p].stamp <= second
                      /\ request'[p].at = "record" => request'[p].recorded = {}
                      /\ request'[p].at = "count" => request'[p].recorded = {"table"}
  BY <1>1 DEF RateTypes
<1> QED
  BY <1>1, <1>2, <1>3 DEF RateTypes

(* The attempt is recorded in the table. *)
LEMMA RecordRate ==
    ASSUME AuthConstants, RateInv, NEW q \in Tabs, Record(q)
    PROVE  RateInv'
<1> DEFINE r == request[q]
           moved == [r EXCEPT !.at = "count", !.recorded = {"table"}]
<1>1. RateTypes /\ Backed /\ r.at = "record" /\ r.at # "idle" /\ r.recorded = {}
  BY DEF RateInv, RateTypes, Record, At
<1>2. /\ attempts' = [attempts EXCEPT ![r.to]["table"] = WithAttempt(@, r.stamp)]
      /\ request' = [request EXCEPT ![q] = moved]
      /\ UNCHANGED <<second, tokens, cookie, admitted>>
  BY DEF Record
<1>3. /\ r \in Attempted /\ r.to \in Endpoints /\ r.stamp \in 0..LastSecond /\ r.stamp <= second
  BY <1>1, OneAttempt
<1>4. /\ moved \in Attempted /\ moved.at = "count" /\ moved.recorded = {"table"}
      /\ moved.stamp = r.stamp /\ moved.to = r.to
  BY <1>3 DEF Attempted, Stores
<1>5. "table" \in Stores
  BY DEF Stores
<1>6. /\ attempts' \in Counters
      /\ \A e \in Endpoints, o \in Stores : \A t \in 0..LastSecond : Recent(t) =>
           attempts'[e][o][t] = attempts[e][o][t]
             + (IF e = r.to /\ o = "table" /\ t = r.stamp THEN 1 ELSE 0)
  BY <1>1, <1>2, <1>5, AttemptAdded
<1> HIDE DEF moved
<1>7. /\ RateTypes' /\ request'[q] = moved
      /\ \A p \in Tabs : p # q => request'[p] = request[p]
  BY <1>1, <1>2, <1>3, <1>4, <1>6, RequestMoves DEF RateTypes
<1>8. ASSUME NEW e \in Endpoints, NEW s \in Stores, NEW t \in 0..LastSecond, Recent(t)
      PROVE  admitted'[e][s][t] + attempts[e][s][t] + Share(request'[q], e, s, t)
               <= admitted[e][s][t] + attempts'[e][s][t] + Share(request[q], e, s, t)
  <2>1. admitted[e][s][t] \in Int /\ attempts[e][s][t] \in Int
    BY <1>1, TallyOf DEF RateTypes
  <2>2. Share(request[q], e, s, t) = 0
    BY <1>1 DEF Share, IsPledged
  <2>3. Share(request'[q], e, s, t) = IF e = r.to /\ s = "table" /\ t = r.stamp THEN 1 ELSE 0
    BY <1>4, <1>7 DEF Share, IsPledged
  <2>4. attempts'[e][s][t] = attempts[e][s][t]
          + (IF e = r.to /\ s = "table" /\ t = r.stamp THEN 1 ELSE 0)
    BY <1>6, <1>8
  <2>5. admitted'[e][s][t] = admitted[e][s][t]
    BY <1>2
  <2> QED
    BY <2>1, <2>2, <2>3, <2>4, <2>5
<1>9. Backed'
  BY <1>1, <1>2, <1>7, <1>8, StillBacked
<1>10. BurstIsBounded'
  <2>1. \A e \in Endpoints, s \in Stores : \A t \in 0..LastSecond :
          admitted'[e][s][t] <= admitted[e][s][t]
    <3> SUFFICES ASSUME NEW e \in Endpoints, NEW s \in Stores, NEW t \in 0..LastSecond
                 PROVE  admitted'[e][s][t] <= admitted[e][s][t]
      OBVIOUS
    <3>1. admitted[e][s][t] \in Int
      BY <1>1, TallyOf DEF RateTypes
    <3> QED
      BY <1>2, <3>1
  <2>2. second' >= second
    BY <1>1, <1>2 DEF RateTypes, AuthConstants
  <2> QED
    BY <1>7, <2>1, <2>2, NobodyLetIn
<1> QED
  BY <1>7, <1>9, <1>10 DEF RateInv

(* A request is refused or leaves: it was let in nowhere since. *)
LEMMA LeaveRate ==
    ASSUME AuthConstants, RateInv, NEW q \in Tabs, Leaves(q),
           UNCHANGED <<second, attempts, admitted>>, tokens' \in Seq(Ticket), cookie' \in Nat
    PROVE  RateInv'
<1>1. NoRequest \in Attempted \cup {NoRequest} /\ NoRequest.at = "idle"
  BY DEF NoRequest
<1>2. \A e \in Endpoints, s \in Stores : \A t \in 0..LastSecond : ~IsPledged(NoRequest, e, s, t)
  BY <1>1 DEF IsPledged
<1> QED
  BY <1>1, <1>2, QuietRate DEF Leaves

(* The rows of the table are counted, the request's own among them. *)
LEMMA CountRate ==
    ASSUME AuthConstants, RateInv, NEW q \in Tabs, Count(q)
    PROVE  RateInv'
<1> DEFINE r == request[q]
           rows == attempts[r.to]["table"]
           moved == [r EXCEPT !.at = "verify", !.by = "table", !.recorded = @ \cup {"table"}]
<1>1. RateTypes /\ Backed /\ r.at = "count" /\ r.at # "idle" /\ r.recorded = {"table"}
  BY DEF RateInv, RateTypes, Count, At
<1>2. UNCHANGED <<second, attempts, tokens, cookie>> /\ Decide(q, rows, "table")
  BY DEF Count
<1>3. /\ r \in Attempted /\ r.to \in Endpoints /\ r.stamp \in 0..LastSecond /\ r.stamp <= second
  BY <1>1, OneAttempt
<1>4. "table" \in Stores /\ 1 \in Int
  BY DEF Stores
<1>5. CASE RowsAfter(rows, r.stamp - AttemptWindow) > AttemptMax
  <2>1. Leaves(q) /\ UNCHANGED admitted
    BY <1>2, <1>5 DEF Decide
  <2>2. tokens' \in Seq(Ticket) /\ cookie' \in Nat
    BY <1>1, <1>2 DEF RateTypes
  <2> QED
    BY <1>2, <2>1, <2>2, LeaveRate
<1>6. CASE ~(RowsAfter(rows, r.stamp - AttemptWindow) > AttemptMax)
  <2>1. /\ request' = [request EXCEPT ![q] = moved]
        /\ admitted' = Bumped(admitted, r.to, "table", r.stamp, 1)
    BY <1>2, <1>6 DEF Decide, Bumped
  <2>2. /\ moved \in Attempted /\ moved.at = "verify" /\ moved.by = "table"
        /\ moved.stamp = r.stamp /\ moved.to = r.to /\ moved.recorded = {"table"}
    BY <1>1, <1>3 DEF Attempted, Stores
  <2> HIDE DEF moved
  <2>3. /\ admitted' \in Counters
        /\ \A e \in Endpoints, o \in Stores : \A t \in 0..LastSecond :
             admitted'[e][o][t] = admitted[e][o][t]
               + (IF e = r.to /\ o = "table" /\ t = r.stamp THEN 1 ELSE 0)
    <3> DEFINE to == r.to
               stamp == r.stamp
    <3>1. admitted \in Counters /\ to \in Endpoints /\ "table" \in Stores
            /\ stamp \in 0..LastSecond /\ 1 \in Int
      BY <1>1, <1>3, <1>4 DEF RateTypes
    <3>2. admitted' = Bumped(admitted, to, "table", stamp, 1)
      BY <2>1
    <3> HIDE DEF r, to, stamp
    <3>3. /\ Bumped(admitted, to, "table", stamp, 1) \in Counters
          /\ \A e \in Endpoints, o \in Stores : \A t \in 0..LastSecond :
               Bumped(admitted, to, "table", stamp, 1)[e][o][t] = admitted[e][o][t]
                 + (IF e = to /\ o = "table" /\ t = stamp THEN 1 ELSE 0)
      BY ONLY <3>1, TallyBumped
    <3> QED
      BY <3>2, <3>3 DEF to, stamp
  <2>4. /\ RateTypes' /\ request'[q] = moved
        /\ \A p \in Tabs : p # q => request'[p] = request[p]
    BY <1>1, <1>2, <1>3, <2>1, <2>2, <2>3, RequestMoves DEF RateTypes
  <2>5. ASSUME NEW e \in Endpoints, NEW s \in Stores, NEW t \in 0..LastSecond, Recent(t)
        PROVE  admitted'[e][s][t] + attempts[e][s][t] + Share(request'[q], e, s, t)
                 <= admitted[e][s][t] + attempts'[e][s][t] + Share(request[q], e, s, t)
    <3>1. admitted[e][s][t] \in Int /\ attempts[e][s][t] \in Int
      BY <1>1, TallyOf DEF RateTypes
    <3>2. Share(request[q], e, s, t) = IF e = r.to /\ s = "table" /\ t = r.stamp THEN 1 ELSE 0
      BY <1>1 DEF Share, IsPledged
    <3>3. Share(request'[q], e, s, t) = 0
      BY <2>2, <2>4 DEF Share, IsPledged
    <3>4. admitted'[e][s][t] = admitted[e][s][t]
            + (IF e = r.to /\ s = "table" /\ t = r.stamp THEN 1 ELSE 0)
      BY <2>3
    <3>5. attempts'[e][s][t] = attempts[e][s][t]
      BY <1>2
    <3> QED
      BY <3>1, <3>2, <3>3, <3>4, <3>5
  <2>6. Backed'
    BY <1>1, <1>2, <2>4, <2>5, StillBacked
  <2>7. BurstIsBounded'
    <3>1. ~(RowsAfter(attempts'[r.to]["table"], r.stamp - AttemptWindow) > AttemptMax)
      BY <1>2, <1>6
    <3> QED
      BY <1>2, <1>3, <1>4, <2>1, <2>4, <2>6, <3>1, SomebodyLetIn
  <2> QED
    BY <2>4, <2>6, <2>7 DEF RateInv
<1> QED
  BY <1>5, <1>6

(* The database raises: the attempt is recorded and counted in memory, and
   what the table holds of it stays there. *)
LEMMA CountInMemoryRate ==
    ASSUME AuthConstants, RateInv, NEW q \in Tabs, CountInMemory(q)
    PROVE  RateInv'
<1> DEFINE r == request[q]
           rows == WithAttempt(attempts[r.to]["memory"], r.stamp)
           moved == [r EXCEPT !.at = "verify", !.by = "memory", !.recorded = @ \cup {"memory"}]
<1>1. /\ RateTypes /\ Backed /\ r.at \in {"record", "count"} /\ r.at # "idle"
      /\ r.at = "record" => r.recorded = {}
      /\ r.at = "count" => r.recorded = {"table"}
  BY DEF RateInv, RateTypes, CountInMemory, At
<1>2. /\ UNCHANGED <<second, tokens, cookie>> /\ Decide(q, rows, "memory")
      /\ attempts' = [attempts EXCEPT ![r.to]["memory"] = WithAttempt(@, r.stamp)]
  BY DEF CountInMemory
<1>3. /\ r \in Attempted /\ r.to \in Endpoints /\ r.stamp \in 0..LastSecond /\ r.stamp <= second
  BY <1>1, OneAttempt
<1>4. "memory" \in Stores /\ 1 \in Int
  BY DEF Stores
<1>5. /\ attempts' \in Counters
      /\ \A e \in Endpoints, o \in Stores : \A t \in 0..LastSecond : Recent(t) =>
           attempts'[e][o][t] = attempts[e][o][t]
             + (IF e = r.to /\ o = "memory" /\ t = r.stamp THEN 1 ELSE 0)
  BY <1>1, <1>2, <1>4, AttemptAdded
<1>6. attempts'[r.to]["memory"] = rows
  <2>1. attempts \in Counters
    BY <1>1 DEF RateTypes
  <2>2. attempts[r.to] \in [Stores -> Tally]
    BY <1>3, <1>4, <2>1, TallyOf
  <2>3. attempts'[r.to] = [attempts[r.to] EXCEPT !["memory"] = rows]
    BY <1>2, <1>3, <2>1 DEF Counters
  <2> QED
    BY <1>4, <2>2, <2>3
<1> HIDE DEF rows
<1>7. CASE RowsAfter(rows, r.stamp - AttemptWindow) > AttemptMax
  <2>1. Leaves(q) /\ UNCHANGED admitted
    BY <1>2, <1>7 DEF Decide
  <2>2. NoRequest \in Attempted \cup {NoRequest} /\ NoRequest.at = "idle"
    BY DEF NoRequest
  <2>3. /\ RateTypes' /\ request'[q] = NoRequest
        /\ \A p \in Tabs : p # q => request'[p] = request[p]
    BY <1>1, <1>2, <1>5, <2>1, <2>2, RequestMoves DEF RateTypes, Leaves
  <2>4. ASSUME NEW e \in Endpoints, NEW s \in Stores, NEW t \in 0..LastSecond, Recent(t)
        PROVE  admitted'[e][s][t] + attempts[e][s][t] + Share(request'[q], e, s, t)
                 <= admitted[e][s][t] + attempts'[e][s][t] + Share(request[q], e, s, t)
    <3>1. admitted[e][s][t] \in Int /\ attempts[e][s][t] \in Int
      BY <1>1, TallyOf DEF RateTypes
    <3>2. Share(request[q], e, s, t) \in {0, 1}
      BY DEF Share
    <3>3. Share(request'[q], e, s, t) = 0
      BY <2>2, <2>3 DEF Share, IsPledged
    <3>4. attempts'[e][s][t] = attempts[e][s][t]
            + (IF e = r.to /\ s = "memory" /\ t = r.stamp THEN 1 ELSE 0)
      BY <1>5, <2>4
    <3>5. admitted'[e][s][t] = admitted[e][s][t]
      BY <2>1
    <3> QED
      BY <3>1, <3>2, <3>3, <3>4, <3>5
  <2>5. Backed'
    BY <1>1, <1>2, <2>3, <2>4, StillBacked
  <2>6. \A e \in Endpoints, s \in Stores : \A t \in 0..LastSecond :
          admitted'[e][s][t] <= admitted[e][s][t]
    <3> SUFFICES ASSUME NEW e \in Endpoints, NEW s \in Stores, NEW t \in 0..LastSecond
                 PROVE  admitted'[e][s][t] <= admitted[e][s][t]
      OBVIOUS
    <3>1. admitted[e][s][t] \in Int
      BY <1>1, TallyOf DEF RateTypes
    <3> QED
      BY <2>1, <3>1
  <2>7. second' >= second
    BY <1>1, <1>2 DEF RateTypes, AuthConstants
  <2>8. BurstIsBounded'
    BY <2>3, <2>6, <2>7, NobodyLetIn
  <2> QED
    BY <2>3, <2>5, <2>8 DEF RateInv
<1>8. CASE ~(RowsAfter(rows, r.stamp - AttemptWindow) > AttemptMax)
  <2>1. /\ request' = [request EXCEPT ![q] = moved]
        /\ admitted' = Bumped(admitted, r.to, "memory", r.stamp, 1)
    BY <1>2, <1>8 DEF Decide, Bumped
  <2>2. /\ moved \in Attempted /\ moved.at = "verify" /\ moved.by = "memory"
        /\ moved.stamp = r.stamp /\ moved.to = r.to
        /\ moved.recorded = r.recorded \cup {"memory"}
    BY <1>3 DEF Attempted, Stores
  <2> HIDE DEF moved
  <2>3. /\ admitted' \in Counters
        /\ \A e \in Endpoints, o \in Stores : \A t \in 0..LastSecond :
             admitted'[e][o][t] = admitted[e][o][t]
               + (IF e = r.to /\ o = "memory" /\ t = r.stamp THEN 1 ELSE 0)
    <3> DEFINE to == r.to
               stamp == r.stamp
    <3>1. admitted \in Counters /\ to \in Endpoints /\ "memory" \in Stores
            /\ stamp \in 0..LastSecond /\ 1 \in Int
      BY <1>1, <1>3, <1>4 DEF RateTypes
    <3>2. admitted' = Bumped(admitted, to, "memory", stamp, 1)
      BY <2>1
    <3> HIDE DEF r, to, stamp
    <3>3. /\ Bumped(admitted, to, "memory", stamp, 1) \in Counters
          /\ \A e \in Endpoints, o \in Stores : \A t \in 0..LastSecond :
               Bumped(admitted, to, "memory", stamp, 1)[e][o][t] = admitted[e][o][t]
                 + (IF e = to /\ o = "memory" /\ t = stamp THEN 1 ELSE 0)
      BY ONLY <3>1, TallyBumped
    <3> QED
      BY <3>2, <3>3 DEF to, stamp
  <2>4. /\ RateTypes' /\ request'[q] = moved
        /\ \A p \in Tabs : p # q => request'[p] = request[p]
    BY <1>1, <1>2, <1>3, <1>5, <2>1, <2>2, <2>3, RequestMoves DEF RateTypes
  <2>5. ASSUME NEW e \in Endpoints, NEW s \in Stores, NEW t \in 0..LastSecond, Recent(t)
        PROVE  admitted'[e][s][t] + attempts[e][s][t] + Share(request'[q], e, s, t)
                 <= admitted[e][s][t] + attempts'[e][s][t] + Share(request[q], e, s, t)
    <3>1. admitted[e][s][t] \in Int /\ attempts[e][s][t] \in Int
      BY <1>1, TallyOf DEF RateTypes
    <3>2. IsPledged(moved, e, s, t) => IsPledged(r, e, s, t)
      BY <1>1, <2>2 DEF IsPledged, Stores
    <3>3. /\ Share(request'[q], e, s, t) <= Share(request[q], e, s, t)
          /\ Share(request'[q], e, s, t) \in Int /\ Share(request[q], e, s, t) \in Int
      BY <2>4, <3>2 DEF Share
    <3>4. admitted'[e][s][t] = admitted[e][s][t]
            + (IF e = r.to /\ s = "memory" /\ t = r.stamp THEN 1 ELSE 0)
      BY <2>3
    <3>5. attempts'[e][s][t] = attempts[e][s][t]
            + (IF e = r.to /\ s = "memory" /\ t = r.stamp THEN 1 ELSE 0)
      BY <1>5, <2>5
    <3> QED
      BY <3>1, <3>3, <3>4, <3>5
  <2>6. Backed'
    BY <1>1, <1>2, <2>4, <2>5, StillBacked
  <2>7. BurstIsBounded'
    <3>1. ~(RowsAfter(attempts'[r.to]["memory"], r.stamp - AttemptWindow) > AttemptMax)
      BY <1>6, <1>8
    <3> QED
      BY <1>2, <1>3, <1>4, <2>1, <2>4, <2>6, <3>1, SomebodyLetIn
  <2> QED
    BY <2>4, <2>6, <2>7 DEF RateInv
<1> QED
  BY <1>7, <1>8

(* A success takes back one row, its own, and is no longer among those let in
   without success. *)
LEMMA ReleaseRate ==
    ASSUME AuthConstants, RateInv, NEW q \in Tabs, NEW store \in Stores, Release(q, store)
    PROVE  RateInv'
<1> DEFINE r == request[q]
           moved == [r EXCEPT !.at = "create"]
           takes == store \in r.recorded /\ attempts[r.to][store][r.stamp] > 0
<1>1. RateTypes /\ Backed /\ r.at = "release" /\ r.at # "idle"
  BY DEF RateInv, Release, At
<1>2. /\ UNCHANGED <<second, tokens, cookie>> /\ request' = [request EXCEPT ![q] = moved]
      /\ admitted' = Bumped(admitted, r.to, r.by, r.stamp, -1)
      /\ takes => attempts' = Bumped(attempts, r.to, store, r.stamp, -1)
      /\ ~takes => attempts' = attempts
  BY DEF Release, Goes, Bumped
<1>3. /\ r \in Attempted /\ r.to \in Endpoints /\ r.stamp \in 0..LastSecond /\ r.stamp <= second
      /\ r.by \in Stores
  BY <1>1, OneAttempt
<1>4. moved \in Attempted /\ moved.at = "create" /\ moved.stamp = r.stamp
  BY <1>3 DEF Attempted
<1>5. attempts \in Counters /\ admitted \in Counters
  BY <1>1 DEF RateTypes
<1>6. /\ admitted' \in Counters
      /\ \A e \in Endpoints, o \in Stores : \A t \in 0..LastSecond :
           admitted'[e][o][t] = admitted[e][o][t]
             + (IF e = r.to /\ o = r.by /\ t = r.stamp THEN -1 ELSE 0)
  <2>1. admitted \in Counters /\ r.to \in Endpoints /\ r.by \in Stores
          /\ r.stamp \in 0..LastSecond
    BY <1>3, <1>5
  <2> HIDE DEF r, moved, takes
  <2>2. /\ Bumped(admitted, r.to, r.by, r.stamp, -1) \in Counters
        /\ \A e \in Endpoints, o \in Stores : \A t \in 0..LastSecond :
             Bumped(admitted, r.to, r.by, r.stamp, -1)[e][o][t] = admitted[e][o][t]
               + (IF e = r.to /\ o = r.by /\ t = r.stamp THEN -1 ELSE 0)
    <3> DEFINE to == r.to
               by == r.by
               stamp == r.stamp
    <3>1. admitted \in Counters /\ to \in Endpoints /\ by \in Stores /\ stamp \in 0..LastSecond
      BY <2>1
    <3> HIDE DEF to, by, stamp
    <3>2. /\ Bumped(admitted, to, by, stamp, -1) \in Counters
          /\ \A e \in Endpoints, o \in Stores : \A t \in 0..LastSecond :
               Bumped(admitted, to, by, stamp, -1)[e][o][t] = admitted[e][o][t]
                 + (IF e = to /\ o = by /\ t = stamp THEN -1 ELSE 0)
      BY ONLY <3>1, TallyTaken
    <3> QED
      BY <3>2 DEF to, by, stamp
  <2> QED
    BY <1>2, <2>2
(* Whether the row is there to take back or not. *)
<1>7. /\ attempts' \in Counters
      /\ \A e \in Endpoints, o \in Stores : \A t \in 0..LastSecond :
           attempts'[e][o][t] = attempts[e][o][t]
             + (IF takes /\ e = r.to /\ o = store /\ t = r.stamp THEN -1 ELSE 0)
  <2>1. CASE takes
    <3>1. attempts \in Counters /\ store \in Stores /\ r.to \in Endpoints
            /\ r.stamp \in 0..LastSecond
      BY <1>3, <1>5
    <3>2. attempts' = Bumped(attempts, r.to, store, r.stamp, -1)
      BY <1>2, <2>1
    <3> HIDE DEF r, takes
    <3>3. /\ Bumped(attempts, r.to, store, r.stamp, -1) \in Counters
          /\ \A e \in Endpoints, o \in Stores : \A t \in 0..LastSecond :
               Bumped(attempts, r.to, store, r.stamp, -1)[e][o][t] = attempts[e][o][t]
                 + (IF e = r.to /\ o = store /\ t = r.stamp THEN -1 ELSE 0)
      BY ONLY <3>1, TallyTaken
    <3> QED
      BY <2>1, <3>2, <3>3
  <2>2. CASE ~takes
    <3>1. attempts' = attempts
      BY <1>2, <2>2
    <3>2. \A e \in Endpoints, o \in Stores : \A t \in 0..LastSecond : attempts[e][o][t] \in Int
      BY <1>5, TallyOf
    <3> HIDE DEF r, takes
    <3> QED
      BY <1>5, <2>2, <3>1, <3>2
  <2> QED
    BY <2>1, <2>2
<1>8. ASSUME NEW s \in Stores, takes, s = store, s # r.by
      PROVE  IsPledged(r, r.to, s, r.stamp)
  BY <1>1, <1>8 DEF IsPledged
<1> HIDE DEF takes, moved
<1>9. /\ RateTypes' /\ request'[q] = moved
      /\ \A p \in Tabs : p # q => request'[p] = request[p]
  BY <1>1, <1>2, <1>3, <1>4, <1>6, <1>7, RequestMoves DEF RateTypes
<1>10. ASSUME NEW e \in Endpoints, NEW s \in Stores, NEW t \in 0..LastSecond, Recent(t)
       PROVE  admitted'[e][s][t] + attempts[e][s][t] + Share(request'[q], e, s, t)
                <= admitted[e][s][t] + attempts'[e][s][t] + Share(request[q], e, s, t)
  <2>1. admitted[e][s][t] \in Int /\ attempts[e][s][t] \in Int
    BY <1>5, TallyOf
  <2>2. Share(request'[q], e, s, t) = 0
    BY <1>4, <1>9 DEF Share, IsPledged
  <2>3. Share(request[q], e, s, t) \in {0, 1}
    BY DEF Share
  <2>4. e = r.to /\ s = store /\ t = r.stamp /\ takes /\ s # r.by => Share(request[q], e, s, t) = 1
    BY <1>8 DEF Share
  <2> DEFINE m == IF e = r.to /\ s = r.by /\ t = r.stamp THEN -1 ELSE 0
             n == IF takes /\ e = r.to /\ s = store /\ t = r.stamp THEN -1 ELSE 0
  <2>5. admitted'[e][s][t] = admitted[e][s][t] + m /\ attempts'[e][s][t] = attempts[e][s][t] + n
    BY <1>6, <1>7
  <2>6. m \in {-1, 0} /\ n \in {-1, 0} /\ (n = -1 => m = -1 \/ Share(request[q], e, s, t) = 1)
    BY <2>4
  <2> HIDE DEF m, n
  <2> QED
    BY <2>1, <2>2, <2>3, <2>5, <2>6
<1>11. Backed'
  BY <1>1, <1>2, <1>9, <1>10, StillBacked
<1>12. \A e \in Endpoints, s \in Stores : \A t \in 0..LastSecond :
         admitted'[e][s][t] <= admitted[e][s][t]
  <2> SUFFICES ASSUME NEW e \in Endpoints, NEW s \in Stores, NEW t \in 0..LastSecond
               PROVE  admitted'[e][s][t] <= admitted[e][s][t]
    OBVIOUS
  <2>1. admitted[e][s][t] \in Int
    BY <1>5, TallyOf
  <2> QED
    BY <1>6, <2>1
<1>13. second' >= second
  BY <1>1, <1>2 DEF RateTypes, AuthConstants
<1>14. BurstIsBounded'
  BY <1>9, <1>12, <1>13, NobodyLetIn
<1> QED
  BY <1>9, <1>11, <1>14 DEF RateInv

(* The window moves on: what was in it may leave it. *)
LEMMA SecondRate ==
    ASSUME AuthConstants, RateInv, SecondPasses
    PROVE  RateInv'
<1>1. /\ RateTypes /\ Backed /\ second' = second + 1 /\ second < LastSecond
      /\ UNCHANGED <<attempts, admitted, tokens, cookie, request>>
  BY DEF RateInv, SecondPasses
<1>2. /\ second \in 0..LastSecond /\ second \in Int /\ second' \in 0..LastSecond
      /\ LastSecond \in Nat /\ AttemptWindow \in Nat
  BY <1>1 DEF RateTypes, AuthConstants
<1>3. \A q \in Tabs : request'[q].at # "idle" => request'[q].stamp <= second'
  <2> SUFFICES ASSUME NEW q \in Tabs, request[q].at # "idle"
               PROVE  request[q].stamp <= second'
    BY <1>1
  <2>1. request[q].stamp \in 0..LastSecond /\ request[q].stamp <= second
    BY <1>1, OneAttempt
  <2> QED
    BY <1>1, <1>2, <2>1
<1>4. RateTypes'
  BY <1>1, <1>2, <1>3 DEF RateTypes
<1>5. ASSUME NEW t \in 0..LastSecond, Recent(t)'
      PROVE  Recent(t)
  <2>1. t >= second' - AttemptWindow
    BY <1>5 DEF Recent
  <2> QED
    BY <1>1, <1>2, <2>1 DEF Recent
<1>6. \A e \in Endpoints, s \in Stores : \A t \in 0..LastSecond :
        Pledged(e, s, t)' = Pledged(e, s, t)
  BY <1>1 DEF Pledged
<1>7. Backed'
  <2> SUFFICES ASSUME NEW e \in Endpoints, NEW s \in Stores, NEW t \in 0..LastSecond, Recent(t)'
               PROVE  admitted'[e][s][t] + Cardinality(Pledged(e, s, t)') <= attempts'[e][s][t]
    BY DEF Backed
  <2>1. admitted[e][s][t] + Cardinality(Pledged(e, s, t)) <= attempts[e][s][t]
    BY <1>1, <1>5 DEF Backed
  <2> QED
    BY <1>1, <1>6, <2>1
<1>8. BurstIsBounded'
  <2>1. \A e \in Endpoints, s \in Stores : \A t \in 0..LastSecond :
          admitted'[e][s][t] <= admitted[e][s][t]
    <3> SUFFICES ASSUME NEW e \in Endpoints, NEW s \in Stores, NEW t \in 0..LastSecond
                 PROVE  admitted'[e][s][t] <= admitted[e][s][t]
      OBVIOUS
    <3>1. admitted[e][s][t] \in Int
      BY <1>1, TallyOf DEF RateTypes
    <3> QED
      BY <1>1, <3>1
  <2>2. second' >= second
    BY <1>1, <1>2
  <2> QED
    BY <1>4, <2>1, <2>2, NobodyLetIn
<1> QED
  BY <1>4, <1>7, <1>8 DEF RateInv

(* The token table stays one. *)
LEMMA TicketChanged ==
    ASSUME tokens \in Seq(Ticket), NEW i, NEW x, i \in 1..Len(tokens) => x \in Ticket
    PROVE  [tokens EXCEPT ![i] = x] \in Seq(Ticket)
<1> DEFINE new == [tokens EXCEPT ![i] = x]
<1>1. tokens \in [1..Len(tokens) -> Ticket] /\ Len(tokens) \in Nat
  OBVIOUS
<1>2. new \in [1..Len(tokens) -> Ticket]
  BY <1>1
<1> QED
  BY <1>1, <1>2

LEMMA AllRevokedTyped ==
    ASSUME tokens \in Seq(Ticket)
    PROVE  AllRevoked \in Seq(Ticket) /\ Len(tokens) \in Nat
<1>1. tokens \in [1..Len(tokens) -> Ticket] /\ Len(tokens) \in Nat /\ DOMAIN tokens = 1..Len(tokens)
  OBVIOUS
<1>2. \A i \in 1..Len(tokens) : [tokens[i] EXCEPT !.revoked = TRUE] \in Ticket
  BY <1>1 DEF Ticket
<1>3. AllRevoked \in [1..Len(tokens) -> Ticket]
  BY <1>1, <1>2 DEF AllRevoked
<1> QED
  BY <1>1, <1>3

LEMMA NewTokenTyped ==
    ASSUME AuthConstants, RateTypes
    PROVE  NewToken \in Ticket
<1>1. second \in Nat /\ Lifetime \in Nat
  BY DEF AuthConstants, RateTypes
<1> QED
  BY <1>1 DEF NewToken, Ticket

(* The steps of the sessions leave the limiter alone. *)
LEMMA TokensRate ==
    ASSUME AuthConstants, RateInv, UNCHANGED <<second, attempts, admitted, request>>,
           tokens' \in Seq(Ticket), cookie' \in Nat
    PROVE  RateInv'
<1>1. RateTypes'
  BY DEF RateInv, RateTypes
<1>2. Backed' /\ BurstIsBounded'
  BY DEF RateInv, Backed, Recent, Pledged, BurstIsBounded
<1> QED
  BY <1>1, <1>2 DEF RateInv

LEMMA EndRate ==
    ASSUME AuthConstants, RateInv, LogOut \/ LogOutAll \/ ChangePassword
    PROVE  RateInv'
<1>1. RateTypes /\ tokens \in Seq(Ticket) /\ cookie \in Nat
  BY DEF RateInv, RateTypes
<1>2. CASE LogOut
  <2>1. /\ tokens' = [tokens EXCEPT ![cookie] = [tokens[cookie] EXCEPT !.revoked = TRUE]]
        /\ cookie' = 0 /\ UNCHANGED <<second, attempts, admitted, request>>
    BY <1>2 DEF LogOut
  <2>2. cookie \in 1..Len(tokens) => [tokens[cookie] EXCEPT !.revoked = TRUE] \in Ticket
    <3>1. cookie \in 1..Len(tokens) => tokens[cookie] \in Ticket
      BY <1>1
    <3> QED
      BY <3>1 DEF Ticket
  <2>3. tokens' \in Seq(Ticket)
    BY <1>1, <2>1, <2>2, TicketChanged
  <2> QED
    BY <2>1, <2>3, TokensRate
<1>3. CASE LogOutAll
  BY <1>1, <1>3, AllRevokedTyped, TokensRate DEF LogOutAll
<1>4. CASE ChangePassword
  <2>1. /\ tokens' = Append(AllRevoked, NewToken) /\ cookie' = Len(tokens) + 1
        /\ UNCHANGED <<second, attempts, admitted, request>>
    BY <1>4 DEF ChangePassword
  <2>2. tokens' \in Seq(Ticket) /\ cookie' \in Nat
    BY <1>1, <2>1, AllRevokedTyped, NewTokenTyped
  <2> QED
    BY <2>1, <2>2, TokensRate
<1> QED
  BY <1>2, <1>3, <1>4

(* The other steps of a request record nothing and let nobody in; at most they
   give up the row that the request has beside the one it was let in by. *)
LEMMA QuietSteps ==
    ASSUME AuthConstants, RateInv, NEW q \in Tabs,
           \/ \E e \in Endpoints, right \in BOOLEAN : Send(q, e, right)
           \/ Verify(q) \/ Create(q) \/ Retire(q)
           \/ RequestFails(q) \/ Answer(q) \/ AnswerLost(q)
    PROVE  RateInv'
<1> DEFINE r == request[q]
<1>1. /\ RateTypes /\ tokens \in Seq(Ticket) /\ cookie \in Nat
      /\ second \in 0..LastSecond /\ second \in Int /\ Len(tokens) \in Nat
      /\ request \in [Tabs -> Attempted \cup {NoRequest}]
  BY DEF RateInv, RateTypes, AuthConstants
<1>2. ASSUME r.at # "idle"
      PROVE  r \in Attempted /\ r.stamp <= second
  BY <1>1, <1>2, OneAttempt
<1>3. ASSUME NEW e \in Endpoints, NEW right \in BOOLEAN, Send(q, e, right)
      PROVE  RateInv'
  <2> DEFINE sent == [at |-> "record", to |-> e, stamp |-> second,
                      sent |-> IF e = "refresh" THEN cookie ELSE 0,
                      right |-> right, recorded |-> {}, by |-> "table", new |-> 0]
  <2>1. /\ request' = [request EXCEPT ![q] = sent]
        /\ UNCHANGED <<second, attempts, admitted, tokens, cookie>>
    BY <1>3 DEF Send
  <2>2. /\ sent \in Attempted /\ sent.at = "record" /\ sent.stamp <= second /\ sent.recorded = {}
    BY <1>1 DEF Attempted, Stores
  <2> HIDE DEF sent
  <2>3. \A f \in Endpoints, s \in Stores : \A t \in 0..LastSecond : ~IsPledged(sent, f, s, t)
    BY <2>2 DEF IsPledged
  <2> QED
    BY <1>1, <2>1, <2>2, <2>3, QuietRate
<1>4. ASSUME Leaves(q), UNCHANGED <<second, attempts, admitted, tokens>>, cookie' \in Nat
      PROVE  RateInv'
  BY <1>1, <1>4, LeaveRate
<1>5. ASSUME NEW w \in {"release", "retire", "answer"}, NEW n \in Nat, r.at # "idle",
             w = "release" => r.at = "verify",
             request' = [request EXCEPT ![q] = [r EXCEPT !.at = w, !.new = n]],
             UNCHANGED <<second, attempts, admitted, cookie>>, tokens' \in Seq(Ticket)
      PROVE  RateInv'
  <2> DEFINE m == [r EXCEPT !.at = w, !.new = n]
  <2>1. /\ m \in Attempted /\ m.at = w /\ m.stamp = r.stamp /\ m.to = r.to
        /\ m.by = r.by /\ m.recorded = r.recorded
    BY <1>2, <1>5 DEF Attempted
  <2>2. request' = [request EXCEPT ![q] = m]
    BY <1>5
  <2> HIDE DEF m
  <2>3. \A f \in Endpoints, s \in Stores : \A t \in 0..LastSecond :
          IsPledged(m, f, s, t) => IsPledged(r, f, s, t)
    BY <1>5, <2>1 DEF IsPledged
  <2> QED
    BY <1>1, <1>2, <1>5, <2>1, <2>2, <2>3, QuietRate
<1>6. CASE Verify(q)
  <2>1. /\ r.at = "verify" /\ UNCHANGED <<second, attempts, admitted, tokens, cookie>>
        /\ Goes(q, "release") \/ Leaves(q)
    BY <1>6 DEF Verify, At
  <2>2. CASE Goes(q, "release")
    <3>1. r \in Attempted
      BY <1>2, <2>1
    <3>2. r.new \in Nat /\ [r EXCEPT !.at = "release", !.new = r.new] = [r EXCEPT !.at = "release"]
      BY <3>1 DEF Attempted
    <3>3. request' = [request EXCEPT ![q] = [r EXCEPT !.at = "release", !.new = r.new]]
      BY <2>2, <3>2 DEF Goes
    <3> QED
      BY <1>1, <1>5, <2>1, <3>2, <3>3
  <2> QED
    BY <1>1, <1>4, <2>1, <2>2
<1>7. CASE Create(q)
  <2>1. /\ r.at = "create" /\ UNCHANGED <<second, attempts, admitted, cookie>>
        /\ tokens' = Append(tokens, NewToken)
    BY <1>7 DEF Create, At
  <2>2. tokens' \in Seq(Ticket)
    BY <1>1, <2>1, NewTokenTyped
  <2>3. PICK w \in {"answer", "retire"} :
          request' = [request EXCEPT ![q] = [r EXCEPT !.at = w, !.new = Len(tokens) + 1]]
    <3> DEFINE w == IF r.to = "login" THEN "answer" ELSE "retire"
    <3>1. request' = [request EXCEPT ![q] = [r EXCEPT !.new = Len(tokens) + 1, !.at = w]]
      BY <1>7 DEF Create
    <3>2. r \in Attempted
      BY <1>2, <2>1
    <3>3. [r EXCEPT !.new = Len(tokens) + 1, !.at = w] = [r EXCEPT !.at = w, !.new = Len(tokens) + 1]
      BY <3>2 DEF Attempted
    <3> QED
      BY <3>1, <3>3
  <2>4. Len(tokens) + 1 \in Nat
    BY <1>1
  <2> QED
    BY <1>5, <2>1, <2>2, <2>3, <2>4
<1>8. CASE Retire(q)
  <2> DEFINE i == r.sent
             x == [tokens[i] EXCEPT !.expires =
                     IF @ > second + RetireGrace THEN second + RetireGrace ELSE @]
  <2>1. /\ r.at = "retire" /\ UNCHANGED <<second, attempts, admitted, cookie>>
        /\ tokens' = [tokens EXCEPT ![i] = x] /\ Goes(q, "answer")
    BY <1>8 DEF Retire, At
  <2>2. i \in 1..Len(tokens) => x \in Ticket
    <3>1. second + RetireGrace \in Nat
      BY <1>1 DEF AuthConstants
    <3>2. i \in 1..Len(tokens) => tokens[i] \in Ticket
      BY <1>1
    <3> QED
      BY <3>1, <3>2 DEF Ticket
  <2> HIDE DEF x
  <2>3. tokens' \in Seq(Ticket)
    BY <1>1, <2>1, <2>2, TicketChanged
  <2>4. r \in Attempted
    BY <1>2, <2>1
  <2>5. r.new \in Nat /\ [r EXCEPT !.at = "answer", !.new = r.new] = [r EXCEPT !.at = "answer"]
    BY <2>4 DEF Attempted
  <2>6. request' = [request EXCEPT ![q] = [r EXCEPT !.at = "answer", !.new = r.new]]
    BY <2>1, <2>5 DEF Goes
  <2> QED
    BY <1>5, <2>1, <2>3, <2>5, <2>6
<1>9. CASE RequestFails(q) \/ AnswerLost(q)
  BY <1>1, <1>4, <1>9 DEF RequestFails, AnswerLost
<1>10. CASE Answer(q)
  <2>1. /\ r.at = "answer" /\ UNCHANGED <<second, attempts, admitted, tokens>>
        /\ cookie' = r.new /\ Leaves(q)
    BY <1>10 DEF Answer, At
  <2>2. r \in Attempted
    BY <1>2, <2>1
  <2>3. r.new \in Nat
    BY <2>2 DEF Attempted
  <2> QED
    BY <1>4, <2>1, <2>3
<1> QED
  BY <1>3, <1>6, <1>7, <1>8, <1>9, <1>10

LEMMA RateStarts ==
    ASSUME AuthConstants, AuthInit
    PROVE  RateInv
<1>1. AttemptMax \in Nat /\ AttemptWindow \in Nat /\ LastSecond \in Nat /\ Lifetime \in Nat
  BY DEF AuthConstants
<1>2. NoAttempts \in Counters /\ \A e \in Endpoints, s \in Stores :
        \A t \in 0..LastSecond : NoAttempts[e][s][t] = 0
  BY DEF NoAttempts, Counters, Tally
<1>3. RateTypes
  <2>1. /\ request = [q \in Tabs |-> NoRequest] /\ NoRequest.at = "idle"
        /\ tokens = <<[expires |-> Lifetime, revoked |-> FALSE]>>
        /\ second = 0 /\ cookie = 1 /\ attempts = NoAttempts /\ admitted = NoAttempts
    BY DEF AuthInit, NoRequest
  <2>2. tokens \in Seq(Ticket)
    BY <1>1, <2>1 DEF Ticket
  <2> QED
    BY <1>1, <1>2, <2>1, <2>2 DEF RateTypes
<1>4. \A e \in Endpoints, s \in Stores : \A t \in 0..LastSecond : Pledged(e, s, t) = {}
  BY DEF AuthInit, Pledged, IsPledged, NoRequest
<1>5. Backed
  <2> SUFFICES ASSUME NEW e \in Endpoints, NEW s \in Stores, NEW t \in 0..LastSecond
               PROVE  admitted[e][s][t] + Cardinality(Pledged(e, s, t)) <= attempts[e][s][t]
    BY DEF Backed
  <2>1. admitted[e][s][t] = 0 /\ attempts[e][s][t] = 0
    BY <1>2 DEF AuthInit
  <2>2. Cardinality(Pledged(e, s, t)) = 0
    BY <1>4, FS_EmptySet
  <2> QED
    BY <2>1, <2>2
<1>6. BurstIsBounded
  <2> SUFFICES ASSUME NEW e \in Endpoints, NEW s \in Stores
               PROVE  RowsAfter(admitted[e][s], second - AttemptWindow) <= AttemptMax
    BY DEF BurstIsBounded
  <2>1. \A t \in 0..LastSecond : admitted[e][s][t] = 0
    BY <1>2 DEF AuthInit
  <2>2. Rows(admitted[e][s], second - AttemptWindow) = {}
    BY <2>1 DEF Rows
  <2>3. RowsAfter(admitted[e][s], second - AttemptWindow)
          = Cardinality(Rows(admitted[e][s], second - AttemptWindow))
    BY Zenon DEF RowsAfter, Rows
  <2>4. RowsAfter(admitted[e][s], second - AttemptWindow) = 0
    BY <2>2, <2>3, FS_EmptySet
  <2>5. 0 <= AttemptMax
    BY <1>1
  <2> QED
    BY ONLY <2>4, <2>5
<1> QED
  BY <1>3, <1>5, <1>6 DEF RateInv

LEMMA RateStep ==
    ASSUME AuthConstants, RateInv, [AuthNext]_authVars
    PROVE  RateInv'
<1>1. CASE UNCHANGED authVars
  BY <1>1, TokensRate DEF authVars, RateInv, RateTypes
<1>2. ASSUME NEW q \in Tabs, Record(q) \/ Count(q) \/ CountInMemory(q)
      PROVE  RateInv'
  BY <1>2, RecordRate, CountRate, CountInMemoryRate
<1>3. ASSUME NEW q \in Tabs, NEW s \in Stores, Release(q, s)
      PROVE  RateInv'
  BY <1>3, ReleaseRate
<1>4. ASSUME NEW q \in Tabs,
             \/ \E right \in BOOLEAN : Send(q, "login", right)
             \/ Send(q, "refresh", TRUE)
             \/ Verify(q) \/ Create(q) \/ Retire(q)
             \/ RequestFails(q) \/ Answer(q) \/ AnswerLost(q)
      PROVE  RateInv'
  BY <1>4, QuietSteps DEF Endpoints
<1>5. CASE LogOut \/ LogOutAll \/ ChangePassword \/ SecondPasses
  BY <1>5, EndRate, SecondRate
<1> QED
  BY <1>1, <1>2, <1>3, <1>4, <1>5 DEF AuthNext

(* rate_limit_attempt records before it counts, so each request let in to the
   verification stands on a row of its own until it succeeds, and whoever
   counts last has counted them all: a burst is bounded whatever the
   interleaving, and a database that fails gives each store one budget. *)
THEOREM BurstsAreBounded == AuthConstants /\ AuthSpec => []BurstIsBounded
<1>1. ASSUME AuthConstants PROVE AuthSpec => []BurstIsBounded
  <2>1. AuthInit => RateInv
    BY <1>1, RateStarts
  <2>2. RateInv /\ [AuthNext]_authVars => RateInv'
    BY <1>1, RateStep
  <2>3. RateInv => BurstIsBounded
    BY DEF RateInv
  <2> QED
    BY <2>1, <2>2, <2>3, PTL DEF AuthSpec
<1> QED
  BY <1>1
=============================================================================
