------------------------------ MODULE RuleProofs ------------------------------
(***************************************************************************)
(* What the rules, the lookup in Radarr and Sonarr, the scan of a media    *)
(* and the purge compute, for every library, rule and history of plays:    *)
(* the theorems about the operators of RuleEngine, ArrLookup and           *)
(* Eligibility, and from them the five properties of MCRules.              *)
(***************************************************************************)
EXTENDS MCRules, FiniteSetTheorems, SequenceTheorems, TLAPS

(* A set of numbers has a least one. *)
LEMMA LeastOf ==
    ASSUME NEW S \in SUBSET Nat, S # {}
    PROVE  \E a \in S : \A b \in S : a <= b
<1>1. \E a \in S : \A b \in S : ~(<<b, a>> \in OpToRel(<, Nat))
  BY NatLessThanWellFounded, WFMin
<1>2. PICK a \in S : \A b \in S : ~(<<b, a>> \in OpToRel(<, Nat))
  BY <1>1
<1>3. ASSUME NEW b \in S PROVE a <= b
  <2>1. a \in Nat /\ b \in Nat
    OBVIOUS
  <2>2. ~(b < a)
    BY <1>2, <2>1 DEF OpToRel
  <2> QED
    BY <2>1, <2>2
<1> QED
  BY <1>3

(* Min of the community modules is that least member. *)
LEMMA LeastIs ==
    ASSUME NEW S \in SUBSET Nat, S # {}
    PROVE  Min(S) \in S /\ \A b \in S : Min(S) <= b
<1>1. \E a \in S : \A b \in S : a <= b
  BY LeastOf
<1> QED
  BY <1>1 DEF Min

(* A set of numbers with a bound has a greatest one. *)
LEMMA GreatestIs ==
    ASSUME NEW S \in SUBSET Int, S # {}, NEW n \in Int, \A b \in S : b <= n
    PROVE  Max(S) \in S /\ \A b \in S : b <= Max(S)
<1> DEFINE T == {n - b : b \in S}
<1>1. T \in SUBSET Nat /\ T # {}
  <2>1. \A b \in S : n - b \in Nat
    OBVIOUS
  <2> QED
    BY <2>1
<1>2. PICK t \in T : \A u \in T : t <= u
  <2> HIDE DEF T
  <2> QED
    BY <1>1, LeastOf
<1>3. PICK a \in S : t = n - a
  OBVIOUS
<1>4. \A b \in S : a >= b
  <2> SUFFICES ASSUME NEW b \in S PROVE a >= b
    OBVIOUS
  <2>1. n - b \in T
    OBVIOUS
  <2>2. n - a <= n - b
    BY <1>2, <1>3, <2>1
  <2> QED
    BY <2>2
<1>5. Max(S) \in S /\ \A b \in S : Max(S) >= b
  BY <1>4 DEF Max
<1> QED
  BY <1>5

(* A finite set of numbers has a greatest one. *)
LEMMA FiniteMax ==
    ASSUME NEW S \in SUBSET Int, S # {}, IsFiniteSet(S)
    PROVE  Max(S) \in S /\ \A b \in S : b <= Max(S)
<1>1. PICK n \in Nat : ExistsBijection(1..n, S)
  BY FS_NatBijection
<1>2. PICK f \in [1..n -> S] : \A s \in S : \E i \in 1..n : f[i] = s
  BY <1>1 DEF ExistsBijection, Bijection, Surjection
<1> DEFINE Top(k) == \E i \in 1..k : \A j \in 1..k : f[j] <= f[i]
           Bad == {k \in 1..n : ~Top(k)}
<1>3. n # 0
  <2>1. PICK s \in S : TRUE
    OBVIOUS
  <2>2. PICK i \in 1..n : f[i] = s
    BY <1>2
  <2> QED
    BY <2>2
<1>4. \A i \in 1..n : f[i] \in Int
  OBVIOUS
<1>5. Top(1)
  BY <1>3, <1>4
<1>6. ASSUME NEW k \in 1..n, k # 1, Top(k-1) PROVE Top(k)
  <2>1. PICK i \in 1..k-1 : \A j \in 1..k-1 : f[j] <= f[i]
    BY <1>6
  <2>2. \A j \in 1..k : j \in 1..k-1 \/ j = k
    OBVIOUS
  <2>3. i \in 1..k /\ k \in 1..k /\ f[i] \in Int /\ f[k] \in Int /\ \A j \in 1..k : f[j] \in Int
    BY <1>4
  <2>4. CASE f[k] <= f[i]
    <3>1. \A j \in 1..k : f[j] <= f[i]
      BY <2>1, <2>2, <2>4
    <3> QED
      BY <2>3, <3>1
  <2>5. CASE f[i] <= f[k]
    <3>1. \A j \in 1..k-1 : f[j] <= f[k]
      <4> SUFFICES ASSUME NEW j \in 1..k-1 PROVE f[j] <= f[k]
        OBVIOUS
      <4>1. f[j] <= f[i] /\ f[j] \in Int
        BY <2>1, <2>3
      <4> QED
        BY <2>3, <2>5, <4>1
    <3>2. \A j \in 1..k : f[j] <= f[k]
      BY <2>2, <2>3, <3>1
    <3> QED
      BY <2>3, <3>2
  <2> QED
    BY <2>3, <2>4, <2>5
<1> HIDE DEF Top
<1>7. ASSUME Bad # {} PROVE FALSE
  <2>1. Bad \in SUBSET Nat
    OBVIOUS
  <2>2. PICK k \in Bad : \A m \in Bad : k <= m
    <3> HIDE DEF Bad
    <3> QED
      BY <1>7, <2>1, LeastOf
  <2>3. k \in 1..n /\ ~Top(k) /\ k # 1
    BY <1>5
  <2>4. k-1 \in 1..n /\ ~(k <= k-1)
    BY <2>3
  <2>5. Top(k-1)
    BY <2>2, <2>4
  <2> QED
    BY <1>6, <2>3, <2>5
<1>8. PICK i \in 1..n : \A j \in 1..n : f[j] <= f[i]
  <2>1. n \in 1..n
    BY <1>3
  <2> QED
    BY <1>7, <2>1 DEF Top
<1> DEFINE m == f[i]
<1>9. m \in Int /\ \A b \in S : b <= m
  BY <1>2, <1>4, <1>8
<1> HIDE DEF m
<1> QED
  BY <1>9, GreatestIs

(* The values a function takes on a finite set are finitely many. *)
LEMMA FiniteImage ==
    ASSUME NEW I, IsFiniteSet(I), NEW f, DOMAIN f = I, f = [i \in I |-> f[i]]
    PROVE  IsFiniteSet({f[i] : i \in I})
<1> DEFINE T == {f[i] : i \in I}
<1>1. f \in [I -> T] /\ \A t \in T : \E i \in I : f[i] = t
  OBVIOUS
<1> HIDE DEF T
<1>2. f \in Surjection(I, T)
  BY <1>1 DEF Surjection
<1> QED
  BY <1>2, FS_Surjection DEF T

-----------------------------------------------------------------------------
(* Lists, and what FlattenSeq makes of a list of lists. *)

(* The lists joined so far. *)
Joined(ss, f, n) == f = [i \in 1..n |-> IF i = 1 THEN ss[i] ELSE f[i-1] \o ss[i]]

(* The recursive function of FlattenSeq exists: it is built one list at a time. *)
LEMMA JoinExists ==
    ASSUME NEW ss, NEW n \in Nat
    PROVE  \E f : Joined(ss, f, n)
<1> DEFINE Bad == {k \in Nat : ~ \E f : Joined(ss, f, k)}
<1>1. ASSUME Bad # {} PROVE FALSE
  <2>1. PICK k \in Bad : \A m \in Bad : k <= m
    BY <1>1, LeastOf
  <2>2. 0 \notin Bad
    <3>1. Joined(ss, [i \in 1..0 |-> ss[i]], 0)
      BY DEF Joined
    <3> QED
      BY <3>1
  <2>3. k \in Nat /\ k # 0 /\ k-1 \in Nat /\ ~(k <= k-1)
    BY <2>1, <2>2
  <2>4. k-1 \notin Bad
    BY <2>1, <2>3
  <2>5. PICK f : Joined(ss, f, k-1)
    BY <2>3, <2>4
  <2> DEFINE g == [i \in 1..k |-> IF i = k THEN IF k = 1 THEN ss[i] ELSE f[i-1] \o ss[i] ELSE f[i]]
  <2>6. \A i \in 1..k : g[i] = IF i = 1 THEN ss[i] ELSE g[i-1] \o ss[i]
    <3> SUFFICES ASSUME NEW i \in 1..k PROVE g[i] = IF i = 1 THEN ss[i] ELSE g[i-1] \o ss[i]
      OBVIOUS
    <3>1. i # 1 => i-1 \in 1..k-1 /\ i-1 \in 1..k /\ i-1 # k
      BY <2>3
    <3>2. CASE i = k
      BY <2>3, <3>1, <3>2
    <3>3. CASE i # k
      <4>1. i \in 1..k-1
        BY <2>3, <3>3
      <4>2. f[i] = IF i = 1 THEN ss[i] ELSE f[i-1] \o ss[i]
        BY <2>5, <4>1 DEF Joined
      <4> QED
        BY <3>1, <3>3, <4>1, <4>2
    <3> QED
      BY <3>2, <3>3
  <2>7. Joined(ss, g, k)
    <3> DEFINE h == [i \in 1..k |-> IF i = 1 THEN ss[i] ELSE g[i-1] \o ss[i]]
    <3>1. DOMAIN g = 1..k /\ DOMAIN h = 1..k /\ \A i \in 1..k : g[i] = h[i]
      BY <2>6
    <3>2. g = h
      <4> HIDE DEF g, h
      <4>1. ASSUME DOMAIN g = DOMAIN h, \A i \in DOMAIN g : g[i] = h[i], g = [i \in DOMAIN g |-> g[i]],
            h = [i \in DOMAIN h |-> h[i]] PROVE g = h
        BY <4>1
      <4>2. g = [i \in DOMAIN g |-> g[i]] /\ h = [i \in DOMAIN h |-> h[i]]
        BY DEF g, h
      <4> QED
        BY <3>1, <4>1, <4>2
    <3> QED
      BY <3>2 DEF Joined
  <2> QED
    BY <2>1, <2>7
<1> QED
  BY <1>1

(* What is in a sequence; what is in two of them joined. *)
In(e, s) == \E k \in DOMAIN s : e = s[k]

(* What two joined lists hold. *)
LEMMA InBoth ==
    ASSUME NEW X, NEW s \in Seq(X), NEW t \in Seq(X)
    PROVE  s \o t \in Seq(X) /\ \A e : In(e, s \o t) <=> In(e, s) \/ In(e, t)
<1> DEFINE r == s \o t
<1>1. /\ r \in Seq(X)
      /\ Len(r) = Len(s) + Len(t)
      /\ \A m \in 1..Len(s) + Len(t) : r[m] = IF m <= Len(s) THEN s[m] ELSE t[m - Len(s)]
  BY ConcatProperties
<1>2. /\ DOMAIN r = 1..Len(r) /\ DOMAIN s = 1..Len(s) /\ DOMAIN t = 1..Len(t)
      /\ Len(s) \in Nat /\ Len(t) \in Nat
  BY <1>1, LenProperties
<1> HIDE DEF r
<1>3. ASSUME NEW m \in DOMAIN r PROVE In(r[m], s) \/ In(r[m], t)
  <2>1. m \in 1..Len(s) + Len(t)
    BY <1>1, <1>2, <1>3
  <2>2. CASE m <= Len(s)
    <3>1. m \in DOMAIN s /\ r[m] = s[m]
      BY <1>1, <1>2, <2>1, <2>2
    <3> QED
      BY <3>1 DEF In
  <2>3. CASE ~(m <= Len(s))
    <3>1. m - Len(s) \in DOMAIN t /\ r[m] = t[m - Len(s)]
      BY <1>1, <1>2, <2>1, <2>3
    <3> QED
      BY <3>1 DEF In
  <2> QED
    BY <2>2, <2>3
<1>4. ASSUME NEW j \in DOMAIN s PROVE In(s[j], r)
  <2>1. j \in 1..Len(s) + Len(t) /\ j <= Len(s)
    BY <1>2, <1>4
  <2>2. j \in DOMAIN r /\ r[j] = s[j]
    BY <1>1, <1>2, <2>1
  <2> QED
    BY <2>2 DEF In
<1>5. ASSUME NEW j \in DOMAIN t PROVE In(t[j], r)
  <2> DEFINE m == Len(s) + j
  <2>1. m \in 1..Len(s) + Len(t) /\ ~(m <= Len(s)) /\ m - Len(s) = j
    BY <1>2, <1>5
  <2> HIDE DEF m
  <2>2. m \in DOMAIN r /\ r[m] = t[j]
    BY <1>1, <1>2, <2>1
  <2> QED
    BY <2>2 DEF In
<1>6. \A e : In(e, r) <=> In(e, s) \/ In(e, t)
  BY <1>3, <1>4, <1>5 DEF In
<1> QED
  BY <1>1, <1>6 DEF r

(* FlattenSeq holds the elements of all the lists, and nothing else. *)
LEMMA InFlat ==
    ASSUME NEW X, NEW ss \in Seq(Seq(X))
    PROVE  /\ FlattenSeq(ss) \in Seq(X)
           /\ \A e : In(e, FlattenSeq(ss)) <=> \E i \in DOMAIN ss : In(e, ss[i])
<1> DEFINE n == Len(ss)
<1>1. n \in Nat /\ DOMAIN ss = 1..n /\ \A i \in 1..n : ss[i] \in Seq(X)
  BY LenProperties, ElementOfSeq
<1>2. CASE n = 0
  <2>1. FlattenSeq(ss) = ss /\ ss = <<>>
    BY <1>1, <1>2, EmptySeq DEF FlattenSeq
  <2>2. DOMAIN ss = {}
    BY <1>1, <1>2
  <2>3. ss \in Seq(X)
    BY <2>1, EmptySeq
  <2> QED
    BY <2>1, <2>2, <2>3 DEF In
<1>3. CASE n # 0
  <2> DEFINE f == CHOOSE f : Joined(ss, f, n)
             From(k) == f[k] \in Seq(X) /\ \A e : In(e, f[k]) <=> \E i \in 1..k : In(e, ss[i])
             Bad == {k \in 1..n : ~From(k)}
  <2>1. FlattenSeq(ss) = f[n]
    BY <1>3, Zenon DEF FlattenSeq, Joined
  <2>2. Joined(ss, f, n)
    BY <1>1, JoinExists
  <2> HIDE DEF f
  <2>3. \A k \in 1..n : f[k] = IF k = 1 THEN ss[k] ELSE f[k-1] \o ss[k]
    BY <2>2 DEF Joined
  <2>4. From(1)
    <3>1. f[1] = ss[1] /\ 1 \in 1..n
      BY <1>1, <1>3, <2>3
    <3> QED
      BY <1>1, <3>1
  <2>5. ASSUME NEW k \in 1..n, k # 1, From(k-1) PROVE From(k)
    <3> DEFINE s == f[k-1]
               t == ss[k]
    <3>1. s \in Seq(X) /\ t \in Seq(X) /\ f[k] = s \o t
      BY <1>1, <2>3, <2>5
    <3>2. \A e : In(e, s) <=> \E i \in 1..k-1 : In(e, ss[i])
      BY <2>5
    <3>3. \A e : (\E i \in 1..k : In(e, ss[i])) <=> (\E i \in 1..k-1 : In(e, ss[i])) \/ In(e, t)
      BY <1>1, <2>5
    <3> HIDE DEF s, t
    <3>4. s \o t \in Seq(X) /\ \A e : In(e, s \o t) <=> In(e, s) \/ In(e, t)
      BY <3>1, InBoth
    <3> QED
      BY <3>1, <3>2, <3>3, <3>4
  <2>6. ASSUME Bad # {} PROVE FALSE
    <3>1. Bad \in SUBSET Nat
      BY <1>1
    <3>2. PICK k \in Bad : \A m \in Bad : k <= m
      <4> HIDE DEF Bad
      <4> QED
        BY <2>6, <3>1, LeastOf
    <3>3. k \in 1..n /\ k # 1 /\ k-1 \in 1..n /\ ~(k <= k-1) /\ ~From(k)
      <4>1. k \in 1..n /\ ~From(k)
        OBVIOUS
      <4>2. k # 1
        BY <2>4, <4>1
      <4> QED
        BY <1>1, <4>1, <4>2
    <3>4. From(k-1)
      BY <3>2, <3>3
    <3> QED
      BY <2>5, <3>3, <3>4
  <2>7. From(n)
    <3>1. n \in 1..n
      BY <1>1, <1>3
    <3> HIDE DEF From
    <3> QED
      BY <2>6, <3>1
  <2>8. \A e : In(e, f[n]) <=> \E i \in DOMAIN ss : In(e, ss[i])
    BY <1>1, <2>7
  <2>9. f[n] \in Seq(X)
    BY <2>7
  <2> QED
    BY <2>1, <2>8, <2>9
<1> QED
  BY <1>2, <1>3

(* A list, whatever it holds. *)
IsList(s) == \E X : s \in Seq(X)

(* A list is a function on 1..Len. *)
LEMMA ListBasics ==
    ASSUME NEW s, IsList(s)
    PROVE  Len(s) \in Nat /\ DOMAIN s = 1..Len(s) /\ s = [i \in 1..Len(s) |-> s[i]]
<1>1. PICK X : s \in Seq(X)
  BY DEF IsList
<1> QED
  BY <1>1, LenProperties

(* A function on 1..n with values in X is a list over X. *)
LEMMA ListBy ==
    ASSUME NEW n \in Nat, NEW s, s = [i \in 1..n |-> s[i]], NEW X, \A i \in 1..n : s[i] \in X
    PROVE  s \in Seq(X) /\ Len(s) = n
<1>1. s \in [1..n -> X]
  OBVIOUS
<1>2. s \in Seq(X)
  BY <1>1
<1> QED
  BY <1>1, <1>2, LenProperties

(* A function on 1..n is a list, whatever its values are. *)
LEMMA ListOfAny ==
    ASSUME NEW n \in Nat, NEW s, s = [i \in 1..n |-> s[i]]
    PROVE  IsList(s) /\ Len(s) = n
<1> DEFINE X == {s[i] : i \in 1..n}
<1>1. \A i \in 1..n : s[i] \in X
  OBVIOUS
<1> HIDE DEF X
<1>2. s \in Seq(X) /\ Len(s) = n
  BY <1>1, ListBy
<1> QED
  BY <1>2 DEF IsList

(* The lists of no and of one element. *)
LEMMA ShortLists ==
    IsList(<<>>) /\ (\A e : ~In(e, <<>>)) /\ \A a : IsList(<<a>>) /\ \A e : In(e, <<a>>) <=> e = a
<1>1. <<>> \in Seq({}) /\ \A a : <<a>> \in Seq({a})
  OBVIOUS
<1>2. \A a : DOMAIN <<a>> = {1} /\ <<a>>[1] = a
  OBVIOUS
<1>3. IsList(<<>>) /\ \A a : IsList(<<a>>)
  BY <1>1, Zenon DEF IsList
<1>4. \A e : ~In(e, <<>>)
  BY DEF In
<1>5. \A a, e : In(e, <<a>>) <=> e = a
  BY <1>2 DEF In
<1> QED
  BY <1>3, <1>4, <1>5

(* InBoth for lists over different sets. *)
LEMMA Joining ==
    ASSUME NEW s, NEW t, IsList(s), IsList(t)
    PROVE  IsList(s \o t) /\ \A e : In(e, s \o t) <=> In(e, s) \/ In(e, t)
<1>1. PICK X : s \in Seq(X)
  BY DEF IsList
<1>2. PICK Y : t \in Seq(Y)
  BY DEF IsList
<1> DEFINE Z == X \cup Y
<1>3. X \subseteq Z /\ Y \subseteq Z
  OBVIOUS
<1> HIDE DEF Z
<1>4. s \in Seq(Z) /\ t \in Seq(Z)
  BY <1>1, <1>2, <1>3, SeqMonotonic
<1> QED
  BY <1>4, InBoth DEF IsList

(* InFlat for lists over different sets. *)
LEMMA Flattening ==
    ASSUME NEW n \in Nat, NEW ss, ss = [i \in 1..n |-> ss[i]], \A i \in 1..n : IsList(ss[i])
    PROVE  /\ IsList(FlattenSeq(ss))
           /\ \A e : In(e, FlattenSeq(ss)) <=> \E i \in 1..n : In(e, ss[i])
<1> DEFINE X == UNION {{ss[i][k] : k \in DOMAIN ss[i]} : i \in 1..n}
<1>1. ASSUME NEW i \in 1..n PROVE ss[i] \in Seq(X)
  <2> DEFINE t == ss[i]
  <2>1. Len(t) \in Nat /\ DOMAIN t = 1..Len(t) /\ t = [k \in 1..Len(t) |-> t[k]]
    BY ListBasics
  <2>2. \A k \in 1..Len(t) : t[k] \in X
    BY <2>1
  <2> HIDE DEF t, X
  <2>3. t \in Seq(X)
    BY <2>1, <2>2, ListBy
  <2> QED
    BY <2>3 DEF t
<1> HIDE DEF X
<1>2. ss \in Seq(Seq(X))
  BY <1>1, ListBy
<1>3. DOMAIN ss = 1..n
  OBVIOUS
<1>4. /\ FlattenSeq(ss) \in Seq(X)
      /\ \A e : In(e, FlattenSeq(ss)) <=> \E i \in DOMAIN ss : In(e, ss[i])
  BY <1>2, InFlat
<1> QED
  BY <1>3, <1>4 DEF IsList

(* Places in a list are finitely many numbers. *)
LEMMA ListIndices ==
    ASSUME NEW s, IsList(s), NEW I \in SUBSET DOMAIN s
    PROVE  IsFiniteSet(I) /\ I \in SUBSET Nat
<1> DEFINE n == Len(s)
<1>1. n \in Nat /\ DOMAIN s = 1..n
  BY ListBasics
<1> HIDE DEF n
<1>2. IsFiniteSet(1..n)
  BY <1>1, FS_Interval
<1> QED
  BY <1>1, <1>2, FS_Subset

(* The first member of a list that does something. *)
LEMMA FirstHit ==
    ASSUME NEW s, IsList(s), NEW hits \in SUBSET DOMAIN s, hits # {}
    PROVE  Min(hits) \in hits
<1>1. hits \in SUBSET Nat
  BY ListBasics
<1> QED
  BY <1>1, LeastIs

-----------------------------------------------------------------------------
(* The entries of Radarr and Sonarr. *)

(* Whatever servers the settings hold. *)
AreServers(servers) ==
    /\ IsList(servers)
    /\ \A i \in DOMAIN servers :
          /\ IsList(servers[i].movies) /\ IsList(servers[i].series)
          /\ \A j \in DOMAIN servers[i].series : IsList(servers[i].series[j].files)

(* What stands in the cache of films. *)
LEMMA FilmInCache ==
    ASSUME NEW servers, AreServers(servers)
    PROVE  /\ IsList(RadarrCache(servers))
           /\ \A e : In(e, RadarrCache(servers)) =>
                \E i \in DOMAIN servers : \E j \in DOMAIN servers[i].movies :
                   LET s == servers[i]
                       m == s.movies[j]
                   IN /\ s.up /\ e.path # None /\ e.path \in {m.file, m.folder}
                      /\ e.entry = [id |-> m.id, url |-> s.url]
<1> DEFINE n == Len(servers)
           films(i) == [j \in DOMAIN servers[i].movies |-> MovieKeys(servers[i], servers[i].movies[j])]
           part == [i \in DOMAIN servers |->
                      IF servers[i].up THEN FlattenSeq(films(i)) ELSE <<>>]
           Of(e, i, j) == LET s == servers[i]
                              m == s.movies[j]
                          IN /\ e.path # None /\ e.path \in {m.file, m.folder}
                             /\ e.entry = [id |-> m.id, url |-> s.url]
<1>1. n \in Nat /\ DOMAIN servers = 1..n
  BY ListBasics DEF AreServers
<1>2. ASSUME NEW srv, NEW m
      PROVE  /\ IsList(MovieKeys(srv, m))
             /\ \A e : In(e, MovieKeys(srv, m)) =>
                   /\ e.path # None /\ e.path \in {m.file, m.folder}
                   /\ e.entry = [id |-> m.id, url |-> srv.url]
  <2> DEFINE entry == [id |-> m.id, url |-> srv.url]
             key(p) == IF p = None THEN <<>> ELSE <<[path |-> p, entry |-> entry]>>
  <2>1. MovieKeys(srv, m) = key(m.file) \o key(m.folder)
    BY DEF MovieKeys
  <2>2. ASSUME NEW p
        PROVE  IsList(key(p)) /\ \A e : In(e, key(p)) => p # None /\ e.path = p /\ e.entry = entry
    <3>1. CASE p = None
      BY <3>1, ShortLists
    <3>2. CASE p # None
      <4>1. IsList(key(p)) /\ \A e : In(e, key(p)) => e = [path |-> p, entry |-> entry]
        BY <3>2, ShortLists
      <4> QED
        BY <3>2, <4>1
    <3> QED
      BY <3>1, <3>2
  <2> HIDE DEF key, entry
  <2>3. /\ IsList(key(m.file) \o key(m.folder))
        /\ \A e : In(e, key(m.file) \o key(m.folder)) <=> In(e, key(m.file)) \/ In(e, key(m.folder))
    BY <2>2, Joining
  <2>4. \A e : In(e, key(m.file)) \/ In(e, key(m.folder)) =>
            e.path # None /\ e.path \in {m.file, m.folder} /\ e.entry = entry
    BY <2>2
  <2> QED
    BY <2>1, <2>3, <2>4 DEF entry
<1>3. ASSUME NEW i \in 1..n
      PROVE  /\ IsList(FlattenSeq(films(i)))
             /\ \A e : In(e, FlattenSeq(films(i))) => \E j \in DOMAIN servers[i].movies : Of(e, i, j)
  <2> DEFINE ms == servers[i].movies
             ss == films(i)
             k == Len(ms)
  <2>1. k \in Nat /\ DOMAIN ms = 1..k
    BY <1>1, ListBasics DEF AreServers
  <2>2. ss = [j \in 1..k |-> ss[j]]
    BY <2>1
  <2>3. \A j \in 1..k : ss[j] = MovieKeys(servers[i], ms[j])
    BY <2>1
  <2> HIDE DEF ss, ms, k
  <2>4. ASSUME NEW j \in 1..k PROVE IsList(ss[j])
    <3>1. IsList(MovieKeys(servers[i], ms[j]))
      BY ONLY <1>2
    <3> QED
      BY <2>3, <3>1
  <2>5. IsList(FlattenSeq(ss)) /\ \A e : In(e, FlattenSeq(ss)) <=> \E j \in 1..k : In(e, ss[j])
    BY <2>1, <2>2, <2>4, Flattening
  <2>6. \A e : \A j \in 1..k : In(e, ss[j]) => Of(e, i, j)
    BY <1>2, <2>3 DEF ms
  <2> QED
    BY <2>1, <2>5, <2>6 DEF ss, ms
<1>4. part = [i \in 1..n |-> part[i]]
  BY <1>1
<1>5. \A i \in 1..n : IsList(part[i])
  BY <1>1, <1>3, ShortLists
<1>6. \A i \in 1..n : \A e : In(e, part[i]) => servers[i].up /\ \E j \in DOMAIN servers[i].movies : Of(e, i, j)
  BY <1>1, <1>3, ShortLists
<1>7. RadarrCache(servers) = FlattenSeq(part)
  BY DEF RadarrCache
<1> HIDE DEF part
<1>8. IsList(FlattenSeq(part)) /\ \A e : In(e, FlattenSeq(part)) <=> \E i \in 1..n : In(e, part[i])
  BY <1>1, <1>4, <1>5, Flattening
<1> QED
  BY <1>1, <1>6, <1>7, <1>8

(* What stands in the cache of episode files. *)
LEMMA FileInCache ==
    ASSUME NEW servers, AreServers(servers)
    PROVE  /\ IsList(SonarrCache(servers))
           /\ \A e : In(e, SonarrCache(servers)) =>
                \E i \in DOMAIN servers : \E j \in DOMAIN servers[i].series :
                \E k \in DOMAIN servers[i].series[j].files :
                   LET s == servers[i]
                       z == s.series[j]
                       f == z.files[k]
                   IN /\ s.up /\ e.path = f.path
                      /\ e.entry = [id |-> f.id, url |-> s.url, series |-> z.id, season |-> f.season]
<1> DEFINE n == Len(servers)
           shows(i) == [j \in DOMAIN servers[i].series |-> SeriesKeys(servers[i], servers[i].series[j])]
           part == [i \in DOMAIN servers |->
                      IF servers[i].up THEN FlattenSeq(shows(i)) ELSE <<>>]
           Of(e, i, j) == \E k \in DOMAIN servers[i].series[j].files :
                   LET s == servers[i]
                       z == s.series[j]
                       f == z.files[k]
                   IN /\ e.path = f.path
                      /\ e.entry = [id |-> f.id, url |-> s.url, series |-> z.id, season |-> f.season]
<1>1. n \in Nat /\ DOMAIN servers = 1..n
  BY ListBasics DEF AreServers
<1>2. ASSUME NEW i \in 1..n, NEW j \in DOMAIN servers[i].series
      PROVE  /\ IsList(SeriesKeys(servers[i], servers[i].series[j]))
             /\ \A e : In(e, SeriesKeys(servers[i], servers[i].series[j])) => Of(e, i, j)
  <2> DEFINE s == servers[i]
             z == s.series[j]
             keys == [k \in DOMAIN z.files |->
                        [path |-> z.files[k].path,
                         entry |-> [id |-> z.files[k].id, url |-> s.url,
                                    series |-> z.id, season |-> z.files[k].season]]]
             k == Len(z.files)
  <2>1. k \in Nat /\ DOMAIN z.files = 1..k
    BY <1>1, ListBasics DEF AreServers
  <2>2. SeriesKeys(s, z) = IF z.folder = None THEN <<>> ELSE keys
    BY DEF SeriesKeys
  <2>3. IsList(keys)
    <3>1. keys = [l \in 1..k |-> keys[l]]
      BY <2>1
    <3> HIDE DEF keys, k
    <3> QED
      BY <2>1, <3>1, ListOfAny
  <2>4. ASSUME NEW e, In(e, keys) PROVE Of(e, i, j)
    <3>1. PICK l \in DOMAIN keys : e = keys[l]
      BY <2>4 DEF In
    <3>2. /\ l \in DOMAIN z.files /\ e.path = z.files[l].path
          /\ e.entry = [id |-> z.files[l].id, url |-> s.url, series |-> z.id,
                        season |-> z.files[l].season]
      BY <3>1
    <3> QED
      BY <3>2
  <2> HIDE DEF keys, Of
  <2> QED
    BY <2>2, <2>3, <2>4, ShortLists
<1> HIDE DEF Of
<1>3. ASSUME NEW i \in 1..n
      PROVE  /\ IsList(FlattenSeq(shows(i)))
             /\ \A e : In(e, FlattenSeq(shows(i))) => \E j \in DOMAIN servers[i].series : Of(e, i, j)
  <2> DEFINE zs == servers[i].series
             ss == shows(i)
             k == Len(zs)
  <2>1. k \in Nat /\ DOMAIN zs = 1..k
    BY <1>1, ListBasics DEF AreServers
  <2>2. ss = [j \in 1..k |-> ss[j]]
    BY <2>1
  <2>3. \A j \in 1..k : ss[j] = SeriesKeys(servers[i], zs[j])
    BY <2>1
  <2>4. \A j \in 1..k : IsList(ss[j]) /\ \A e : In(e, ss[j]) => Of(e, i, j)
    BY <1>2, <2>1, <2>3
  <2> HIDE DEF ss, zs, k
  <2>5. IsList(FlattenSeq(ss)) /\ \A e : In(e, FlattenSeq(ss)) <=> \E j \in 1..k : In(e, ss[j])
    BY <2>1, <2>2, <2>4, Flattening
  <2> QED
    BY <2>1, <2>4, <2>5 DEF ss, zs
<1>4. part = [i \in 1..n |-> part[i]]
  BY <1>1
<1>5. \A i \in 1..n : IsList(part[i])
  BY <1>1, <1>3, ShortLists
<1>6. \A i \in 1..n : \A e : In(e, part[i]) => servers[i].up /\ \E j \in DOMAIN servers[i].series : Of(e, i, j)
  BY <1>1, <1>3, ShortLists
<1>7. SonarrCache(servers) = FlattenSeq(part)
  BY DEF SonarrCache
<1> HIDE DEF part
<1>8. IsList(FlattenSeq(part)) /\ \A e : In(e, FlattenSeq(part)) <=> \E i \in 1..n : In(e, part[i])
  BY <1>1, <1>4, <1>5, Flattening
<1> QED
  BY <1>1, <1>6, <1>7, <1>8 DEF Of

(* What Get finds in a cache is an entry of that path. *)
LEMMA Found ==
    ASSUME NEW cache, NEW path, IsList(cache), Get(cache, path) # None
    PROVE  \E e : In(e, cache) /\ e.path = path /\ Get(cache, path) = e.entry
<1> DEFINE hits == {i \in DOMAIN cache : cache[i].path = path}
<1>1. Len(cache) \in Nat /\ DOMAIN cache = 1..Len(cache)
  BY ListBasics
<1>2. hits # {} /\ Get(cache, path) = cache[Max(hits)].entry
  BY DEF Get
<1>3. Max(hits) \in hits
  <2> DEFINE n == Len(cache)
  <2>1. hits \in SUBSET Int /\ n \in Int /\ \A i \in hits : i <= n
    BY <1>1
  <2> HIDE DEF hits, n
  <2> QED
    BY <1>2, <2>1, GreatestIs
<1> QED
  BY <1>2, <1>3 DEF In

(* radarr_find_by_path_cached: a hit is a film that a server which answered has at the
   path. *)
LEMMA CachedFilm ==
    ASSUME NEW servers, AreServers(servers), NEW path,
           RadarrCached(path, RadarrCache(servers)) # None
    PROVE  \E i \in DOMAIN servers : \E j \in DOMAIN servers[i].movies :
              /\ servers[i].up /\ FilmAt(servers[i].movies[j], path)
              /\ RadarrCached(path, RadarrCache(servers)) =
                    [id |-> servers[i].movies[j].id, url |-> servers[i].url]
<1> DEFINE cache == RadarrCache(servers)
           hits == {i \in DOMAIN cache : Inside(path, cache[i].path)}
           key == IF hits = {} THEN None ELSE cache[Min(hits)]
<1>1. IsList(cache)
  BY FilmInCache
<1>2. ASSUME NEW k, Get(cache, k) # None, k = path \/ Inside(path, k),
             RadarrCached(path, cache) = Get(cache, k)
      PROVE  \E i \in DOMAIN servers : \E j \in DOMAIN servers[i].movies :
              /\ servers[i].up /\ FilmAt(servers[i].movies[j], path)
              /\ RadarrCached(path, RadarrCache(servers)) =
                    [id |-> servers[i].movies[j].id, url |-> servers[i].url]
  <2> HIDE DEF cache
  <2>1. PICK e : In(e, cache) /\ e.path = k /\ Get(cache, k) = e.entry
    BY <1>1, <1>2, Found
  <2>2. PICK i \in DOMAIN servers : \E j \in DOMAIN servers[i].movies :
              /\ servers[i].up /\ e.path \in {servers[i].movies[j].file, servers[i].movies[j].folder}
              /\ e.entry = [id |-> servers[i].movies[j].id, url |-> servers[i].url]
    BY <2>1, FilmInCache DEF cache
  <2>3. PICK j \in DOMAIN servers[i].movies :
              /\ servers[i].up /\ e.path \in {servers[i].movies[j].file, servers[i].movies[j].folder}
              /\ e.entry = [id |-> servers[i].movies[j].id, url |-> servers[i].url]
    BY <2>2
  <2>4. FilmAt(servers[i].movies[j], path)
    BY <1>2, <2>1, <2>3 DEF FilmAt
  <2> QED
    BY <1>2, <2>1, <2>3, <2>4 DEF cache
<1>3. RadarrCached(path, cache) =
        IF Get(cache, path) # None THEN Get(cache, path)
        ELSE IF key = None THEN None ELSE Get(cache, key.path)
  BY DEF RadarrCached, First
<1>4. CASE Get(cache, path) # None
  BY <1>2, <1>3, <1>4
<1>5. CASE Get(cache, path) = None
  <2>1. hits # {} /\ key = cache[Min(hits)] /\ RadarrCached(path, cache) = Get(cache, key.path)
    BY <1>3, <1>5
  <2>2. Min(hits) \in hits
    <3>1. hits \in SUBSET DOMAIN cache
      OBVIOUS
    <3> HIDE DEF hits, cache
    <3> QED
      BY <1>1, <2>1, <3>1, FirstHit
  <2>3. Inside(path, key.path)
    BY <2>1, <2>2
  <2> HIDE DEF key
  <2> QED
    BY <1>2, <2>1, <2>3
<1> QED
  BY <1>4, <1>5

(* sonarr_get_cache_entry: a hit is the file of that path on a server which answered. *)
LEMMA CachedFile ==
    ASSUME NEW servers, AreServers(servers), NEW path,
           SonarrCached(path, SonarrCache(servers)) # None
    PROVE  \E i \in DOMAIN servers :
              /\ servers[i].up /\ servers[i].url = SonarrCached(path, SonarrCache(servers)).url
              /\ FileAt(servers[i], path, SonarrCached(path, SonarrCache(servers)).id)
<1> DEFINE cache == SonarrCache(servers)
<1>1. IsList(cache)
  BY FileInCache
<1>2. PICK e : In(e, cache) /\ e.path = path /\ Get(cache, path) = e.entry
  <2> HIDE DEF cache
  <2> QED
    BY <1>1, Found DEF SonarrCached, cache
<1>3. PICK i \in DOMAIN servers : \E j \in DOMAIN servers[i].series :
                \E k \in DOMAIN servers[i].series[j].files :
                   LET s == servers[i]
                       z == s.series[j]
                       f == z.files[k]
                   IN /\ s.up /\ e.path = f.path
                      /\ e.entry = [id |-> f.id, url |-> s.url, series |-> z.id, season |-> f.season]
  BY <1>2, FileInCache
<1>4. PICK j \in DOMAIN servers[i].series : \E k \in DOMAIN servers[i].series[j].files :
                   LET s == servers[i]
                       z == s.series[j]
                       f == z.files[k]
                   IN /\ s.up /\ e.path = f.path
                      /\ e.entry = [id |-> f.id, url |-> s.url, series |-> z.id, season |-> f.season]
  BY <1>3
<1>5. PICK k \in DOMAIN servers[i].series[j].files :
        LET f == servers[i].series[j].files[k]
        IN servers[i].up /\ e.path = f.path /\ e.entry.id = f.id /\ e.entry.url = servers[i].url
  BY <1>4
<1>6. FileAt(servers[i], path, e.entry.id)
  <2> DEFINE f == servers[i].series[j].files[k]
  <2>1. f.id = e.entry.id /\ f.path = path
    BY <1>2, <1>5
  <2> QED
    BY <2>1, Zenon DEF FileAt
<1>7. SonarrCached(path, cache) = e.entry
  BY <1>2 DEF SonarrCached
<1> QED
  BY <1>5, <1>6, <1>7

(* sonarr_find_by_path_full: the answer is the file of that path on a server which
   answers. *)
LEMMA AskedFile ==
    ASSUME NEW servers, AreServers(servers), NEW path, SonarrFind(path, servers) # None
    PROVE  \E i \in DOMAIN servers :
              /\ servers[i].up /\ servers[i].url = SonarrFind(path, servers).url
              /\ FileAt(servers[i], path, SonarrFind(path, servers).id)
<1> DEFINE hits == {i \in DOMAIN servers : servers[i].up
                      /\ \E j \in DOMAIN servers[i].series : HasFile(servers[i].series[j], path)}
           i == Min(hits)
           srv == servers[i]
           shows == {j \in DOMAIN srv.series : HasFile(srv.series[j], path)}
           j == Min(shows)
           files == {k \in DOMAIN srv.series[j].files : srv.series[j].files[k].path = path}
           k == Min(files)
<1>1. SonarrFind(path, servers) =
        IF (IF hits = {} THEN None ELSE servers[Min(hits)]) = None THEN None
        ELSE LET s == IF hits = {} THEN None ELSE servers[Min(hits)]
                 own == {l \in DOMAIN s.series : HasFile(s.series[l], path)}
                 z == IF own = {} THEN None ELSE s.series[Min(own)]
                 fs == {l \in DOMAIN z.files : z.files[l].path = path}
             IN [id |-> (IF fs = {} THEN None ELSE z.files[Min(fs)]).id, url |-> s.url]
  BY DEF SonarrFind, First
<1>2. hits # {}
  BY <1>1
<1>3. i \in DOMAIN servers /\ srv.up /\ shows # {}
  <2>1. hits \in SUBSET DOMAIN servers /\ IsList(servers)
    BY DEF AreServers
  <2>2. i \in hits
    <3> HIDE DEF hits
    <3> QED
      BY <1>2, <2>1, FirstHit
  <2> QED
    BY <2>2
<1>4. j \in DOMAIN srv.series /\ files # {}
  <2>1. shows \in SUBSET DOMAIN srv.series /\ IsList(srv.series)
    BY <1>3 DEF AreServers
  <2>2. j \in shows
    <3> HIDE DEF shows, srv
    <3> QED
      BY <1>3, <2>1, FirstHit
  <2> QED
    BY <2>2 DEF HasFile
<1>5. k \in DOMAIN srv.series[j].files /\ srv.series[j].files[k].path = path
  <2>1. files \in SUBSET DOMAIN srv.series[j].files /\ IsList(srv.series[j].files)
    BY <1>3, <1>4 DEF AreServers
  <2>2. k \in files
    <3> HIDE DEF files, srv, j
    <3> QED
      BY <1>4, <2>1, FirstHit
  <2> QED
    BY <2>2
<1>6. SonarrFind(path, servers) = [id |-> srv.series[j].files[k].id, url |-> srv.url]
  BY <1>1, <1>2, <1>3, <1>4
<1> HIDE DEF i, j, k, srv
<1>7. FileAt(servers[i], path, srv.series[j].files[k].id)
  BY <1>3, <1>4, <1>5 DEF FileAt, srv
<1> QED
  BY <1>3, <1>6, <1>7 DEF srv

(* _resolve_arr_ids: whether the cache or a server is asked, the number and the URL
   it returns are those of one entry. *)
LEMMA ResolvedIsReal ==
    ASSUME NEW servers, AreServers(servers), NEW asked \in {servers, <<>>}, NEW path, NEW type,
           NEW r, r = ResolveArrIds(path, type, RadarrCache(servers), SonarrCache(servers), asked),
           r.id # None
    PROVE  \E i \in DOMAIN servers :
              servers[i].up /\ servers[i].url = r.url /\ HasEntry(servers[i], type, path, r.id)
<1> DEFINE radarr == RadarrCache(servers)
           sonarr == SonarrCache(servers)
           found == IF type = "movie" THEN RadarrCached(path, radarr)
                    ELSE IF SonarrCached(path, sonarr) # None THEN SonarrCached(path, sonarr)
                    ELSE SonarrFind(path, asked)
<1>1. /\ r.id = IF found = None THEN None ELSE found.id
      /\ r.url = IF found = None THEN None ELSE found.url
  BY DEF ResolveArrIds
<1>2. found # None /\ r.id = found.id /\ r.url = found.url
  <2> HIDE DEF found
  <2> QED
    BY <1>1
<1>3. CASE type = "movie"
  <2>1. found = RadarrCached(path, RadarrCache(servers))
    BY <1>3
  <2> HIDE DEF found
  <2>2. PICK i \in DOMAIN servers : \E j \in DOMAIN servers[i].movies :
              /\ servers[i].up /\ FilmAt(servers[i].movies[j], path)
              /\ found = [id |-> servers[i].movies[j].id, url |-> servers[i].url]
    BY <1>2, <2>1, CachedFilm
  <2>3. servers[i].url = r.url /\ HasEntry(servers[i], type, path, r.id)
    BY <1>2, <1>3, <2>2 DEF HasEntry
  <2> QED
    BY <2>2, <2>3
<1>4. CASE type # "movie" /\ SonarrCached(path, sonarr) # None
  <2>1. found = SonarrCached(path, SonarrCache(servers))
    BY <1>4
  <2> HIDE DEF found
  <2>2. PICK i \in DOMAIN servers :
              /\ servers[i].up /\ servers[i].url = found.url
              /\ FileAt(servers[i], path, found.id)
    BY <1>2, <2>1, CachedFile
  <2> QED
    BY <1>2, <1>4, <2>2 DEF HasEntry
<1>5. CASE type # "movie" /\ SonarrCached(path, sonarr) = None
  <2>1. found = SonarrFind(path, asked)
    BY <1>5
  <2> HIDE DEF found
  <2>2. asked = servers
    <3>1. SonarrFind(path, <<>>) = None
      BY DEF SonarrFind, First
    <3> QED
      BY <1>2, <2>1, <3>1
  <2>3. PICK i \in DOMAIN servers :
              /\ servers[i].up /\ servers[i].url = found.url
              /\ FileAt(servers[i], path, found.id)
    BY <1>2, <2>1, <2>2, AskedFile
  <2> QED
    BY <1>2, <1>5, <2>3 DEF HasEntry
<1> QED
  BY <1>3, <1>4, <1>5

(* _resolve_arr_ids, in both paths of the scan: the number and the url that a
   row records name a server that answers and has the film, or the file of the
   episode, at the path of the medium, whatever the servers, their order and
   the numbers they share. *)
THEOREM EntryNamesTheFile ==
    ASSUME NEW item, NEW c, AreServers(c.servers),
           c.radarr = RadarrCache(c.servers), c.sonarr = SonarrCache(c.servers),
           NEW e \in ScanItem(item, c), e.arr # None
    PROVE  EntryIsReal(c.servers, item.type, e)
<1> DEFINE Of(asked) == ResolveArrIds(item.path, item.type, c.radarr, c.sonarr, asked)
<1>1. \E asked \in {c.servers, <<>>} :
         e.path = item.path /\ e.arr = Of(asked).id /\ e.url = Of(asked).url
  <2>1. CASE EvaluateItem(item, c) # {}
    <3>1. PICK g : e = QueueEntry(item, WatchOf(item, c), Requester(item, c), g, Of(c.servers))
      BY <2>1 DEF ScanItem, EvaluateItem
    <3> HIDE DEF Of
    <3> QED
      BY <3>1 DEF QueueEntry
  <2>2. CASE EvaluateItem(item, c) = {}
    <3>1. e \in ExpertFallback(item, c)
      BY <2>2 DEF ScanItem
    <3>2. PICK g : e = QueueEntry(item, WatchOf(item, c), Requester(item, c), g, Of(<<>>))
      BY <3>1 DEF ExpertFallback
    <3> HIDE DEF Of
    <3> QED
      BY <3>2 DEF QueueEntry
  <2> QED
    BY <2>1, <2>2
<1>2. PICK asked \in {c.servers, <<>>} :
         e.path = item.path /\ e.arr = Of(asked).id /\ e.url = Of(asked).url
  BY <1>1
<1> DEFINE r == Of(asked)
           servers == c.servers
<1>3. /\ r = ResolveArrIds(item.path, item.type, RadarrCache(servers), SonarrCache(servers), asked)
      /\ r.id # None /\ asked \in {servers, <<>>} /\ AreServers(servers)
  BY <1>2
<1>4. r.id = e.arr /\ r.url = e.url
  BY <1>2
<1> HIDE DEF r, servers
<1>5. \E i \in DOMAIN servers :
         servers[i].up /\ servers[i].url = r.url /\ HasEntry(servers[i], item.type, item.path, r.id)
  BY ONLY <1>3, ResolvedIsReal
<1> QED
  BY <1>2, <1>4, <1>5 DEF servers, EntryIsReal

(* The servers a deletion looks at are enabled and have an address. *)
LEMMA UsableServers ==
    ASSUME NEW multi, NEW legacy, IsList(multi)
    PROVE  /\ IsList(ArrServers(multi, legacy))
           /\ \A i \in DOMAIN ArrServers(multi, legacy) : Usable(ArrServers(multi, legacy)[i])
<1> DEFINE n == Len(multi)
           ss == [i \in DOMAIN multi |-> IF Usable(multi[i]) THEN <<multi[i]>> ELSE <<>>]
           on == FlattenSeq(ss)
<1>1. n \in Nat /\ DOMAIN multi = 1..n
  BY ListBasics
<1>2. ss = [i \in 1..n |-> ss[i]]
  BY <1>1
<1>3. \A i \in 1..n : IsList(ss[i]) /\ \A e : In(e, ss[i]) => Usable(e)
  BY <1>1, ShortLists
<1> HIDE DEF ss
<1>4. IsList(on) /\ \A e : In(e, on) <=> \E i \in 1..n : In(e, ss[i])
  BY <1>1, <1>2, <1>3, Flattening
<1>5. \A i \in DOMAIN on : Usable(on[i])
  BY <1>3, <1>4 DEF In
<1>6. ArrServers(multi, legacy) =
        IF on # <<>> THEN on ELSE IF Usable(legacy) THEN <<legacy>> ELSE <<>>
  BY DEF ArrServers, ss
<1> HIDE DEF on
<1>7. CASE on # <<>>
  BY <1>4, <1>5, <1>6, <1>7
<1>8. CASE on = <<>> /\ Usable(legacy)
  BY <1>6, <1>8, ShortLists
<1>9. CASE on = <<>> /\ ~Usable(legacy)
  BY <1>6, <1>9, ShortLists
<1> QED
  BY <1>7, <1>8, <1>9

(* radarr_find_by_path: the answer is a server in use that has the film. *)
LEMMA FilmAsked ==
    ASSUME NEW servers, IsList(servers), NEW path, RadarrFind(path, servers) # None
    PROVE  \E i \in DOMAIN servers :
              /\ servers[i].up /\ servers[i].url = RadarrFind(path, servers).url
              /\ \E j \in DOMAIN servers[i].movies : HasFilm(servers[i].movies[j], path)
<1> DEFINE hits == {i \in DOMAIN servers : servers[i].up
                      /\ \E j \in DOMAIN servers[i].movies : HasFilm(servers[i].movies[j], path)}
           srv == IF hits = {} THEN None ELSE servers[Min(hits)]
           own == {l \in DOMAIN srv.movies : HasFilm(srv.movies[l], path)}
           film == IF own = {} THEN None ELSE srv.movies[Min(own)]
           id == film.id
<1>1. RadarrFind(path, servers) = IF srv = None THEN None ELSE [id |-> id, url |-> srv.url]
  BY DEF RadarrFind, First
<1> HIDE DEF id
<1>2. hits # {} /\ RadarrFind(path, servers).url = servers[Min(hits)].url
  <2>1. srv # None /\ RadarrFind(path, servers).url = srv.url
    <3> HIDE DEF srv
    <3> QED
      BY <1>1
  <2> QED
    BY <2>1
<1>3. Min(hits) \in hits
  <2>1. hits \in SUBSET DOMAIN servers
    OBVIOUS
  <2> HIDE DEF hits
  <2> QED
    BY <1>2, <2>1, FirstHit
<1> QED
  BY <1>2, <1>3

(* radarr_delete_by_id: whatever the settings hold and the row records, the
   film is deleted on a server in use, which the row names, or which has the
   film, or which is the only one. *)
THEOREM DeletionTarget ==
    ASSUME NEW multi, NEW legacy, IsList(multi), NEW servers, servers = ArrServers(multi, legacy),
           NEW url, NEW path, DeleteTarget(servers, url, path) # None
    PROVE  \E i \in DOMAIN servers :
              /\ servers[i].url = DeleteTarget(servers, url, path) /\ Usable(servers[i])
              /\ \/ servers[i].url = url
                 \/ url = None /\ Len(servers) = 1
                 \/ path # None /\ servers[i].up
                    /\ \E j \in DOMAIN servers[i].movies : HasFilm(servers[i].movies[j], path)
<1> DEFINE srv == ResolveArrServer(servers, url)
           hit == IF path = None THEN None ELSE RadarrFind(path, servers)
           target == DeleteTarget(servers, url, path)
           hits == {i \in DOMAIN servers : servers[i].url = url}
<1>1. IsList(servers) /\ \A i \in DOMAIN servers : Usable(servers[i])
  BY UsableServers
<1>2. target = IF srv # None THEN srv.url ELSE IF hit # None THEN hit.url ELSE None
  BY DEF DeleteTarget
<1>3. CASE srv # None /\ url # None
  <2>1. srv = IF hits = {} THEN None ELSE servers[Min(hits)]
    BY <1>3 DEF ResolveArrServer, First
  <2>2. hits # {} /\ srv = servers[Min(hits)]
    BY <1>3, <2>1
  <2>3. Min(hits) \in hits
    <3>1. hits \in SUBSET DOMAIN servers
      OBVIOUS
    <3> HIDE DEF hits
    <3> QED
      BY <1>1, <2>2, <3>1, FirstHit
  <2> QED
    BY <1>1, <1>2, <1>3, <2>2, <2>3
<1>4. CASE srv # None /\ url = None
  <2>1. srv = IF Len(servers) = 1 THEN servers[1] ELSE None
    BY <1>4 DEF ResolveArrServer
  <2>2. Len(servers) = 1 /\ srv = servers[1]
    BY <1>4, <2>1
  <2>3. 1 \in DOMAIN servers
    BY <1>1, <2>2, ListBasics
  <2> QED
    BY <1>1, <1>2, <1>4, <2>2, <2>3
<1>5. CASE srv = None
  <2>1. path # None /\ RadarrFind(path, servers) # None /\ target = RadarrFind(path, servers).url
    BY <1>2, <1>5
  <2> HIDE DEF target
  <2>2. PICK i \in DOMAIN servers :
              /\ servers[i].up /\ servers[i].url = RadarrFind(path, servers).url
              /\ \E j \in DOMAIN servers[i].movies : HasFilm(servers[i].movies[j], path)
    BY <1>1, <2>1, FilmAsked
  <2> QED
    BY <1>1, <2>1, <2>2 DEF target
<1> QED
  BY <1>3, <1>4, <1>5

-----------------------------------------------------------------------------
(* The conditions of a library and their copy. *)

(* A watch state with the ages that are known. *)
IsWatch(w) == /\ w.plays \in Nat /\ w.never \in BOOLEAN
              /\ w.added \in Nat \cup {None} /\ w.last \in Nat \cup {None}

(* A numeric condition needs the field of the item. *)
LEMMA OneHolds ==
    ASSUME NEW f, NEW op \in NumericOps, NEW v, NEW item
    PROVE  ConditionHolds([field |-> f, op |-> op, value |-> v], item)
             <=> f \in DOMAIN item /\ item[f] # None /\ Compare(op, item[f], v)
  BY DEF ConditionHolds, NumericOps

(* A group of one condition says what the condition says. *)
LEMMA SingleGroup ==
    ASSUME NEW c, NEW item
    PROVE  GroupHolds([op |-> "AND", conds |-> <<c>>], item) <=> ConditionHolds(c, item)
  BY DEF GroupHolds

(* A group of two conditions joined by OR holds when either does. *)
LEMMA EitherGroup ==
    ASSUME NEW c, NEW d, NEW item
    PROVE  GroupHolds([op |-> "OR", conds |-> <<c, d>>], item)
             <=> ConditionHolds(c, item) \/ ConditionHolds(d, item)
  BY DEF GroupHolds

(* What the rule engine makes of a valid condition of a library. *)
LEMMA GroupMeans ==
    ASSUME RuleConstants, NEW c, LegacyValid(c), NEW w, IsWatch(w)
    PROVE  GroupHolds(LegacyGroup(c), LegacyItem(w)) <=> Says(c, w)
<1> DEFINE item == LegacyItem(w)
<1>1. /\ item["play_count"] = w.plays /\ item["never_watched"] = Bit(w.never)
      /\ {"play_count", "never_watched"} \subseteq DOMAIN item
  BY DEF LegacyItem
<1>2. /\ "added_days_ago" \in DOMAIN item <=> w.added # None
      /\ w.added # None => item["added_days_ago"] = w.added
  BY DEF LegacyItem
<1>3. /\ "days_not_watched" \in DOMAIN item <=> ~w.never /\ w.last # None
      /\ ~w.never /\ w.last # None => item["days_not_watched"] = w.last
  BY DEF LegacyItem
<1>4. \A b : Bit(b) \in {0, 1} /\ Bit(b) # None
  BY DEF Bit, RuleConstants
<1>5. w.plays # None
  BY DEF IsWatch, RuleConstants
<1> HIDE DEF item
<1>6. CASE c.field = "days_since_added"
  <2>1. c.op \in NumericOps
    BY <1>6 DEF LegacyValid
  <2>2. LegacyGroup(c) = [op |-> "AND", conds |-> <<[field |-> "added_days_ago", op |-> c.op, value |-> c.value]>>]
    BY <1>6 DEF LegacyGroup, OneCondition
  <2>3. GroupHolds(LegacyGroup(c), item) <=> w.added # None /\ Compare(c.op, w.added, c.value)
    BY <1>2, <2>1, <2>2, OneHolds, SingleGroup
  <2> QED
    BY <1>6, <2>3 DEF Says, item
<1>7. CASE c.field = "play_count"
  <2>1. c.op \in NumericOps
    BY <1>7 DEF LegacyValid
  <2>2. LegacyGroup(c) = [op |-> "AND", conds |-> <<[field |-> "play_count", op |-> c.op, value |-> c.value]>>]
    BY <1>7 DEF LegacyGroup, OneCondition
  <2>3. GroupHolds(LegacyGroup(c), item) <=> Compare(c.op, w.plays, c.value)
    BY <1>1, <1>5, <2>1, <2>2, OneHolds, SingleGroup
  <2> QED
    BY <1>7, <2>3 DEF Says, item
<1>8. ASSUME NEW v \in {0, 1}
      PROVE  ConditionHolds([field |-> "never_watched", op |-> "eq", value |-> v], item) <=> Bit(w.never) = v
  <2>1. Compare("eq", item["never_watched"], v) <=> item["never_watched"] = v
    BY DEF Compare
  <2>2. "eq" \in NumericOps
    BY DEF NumericOps
  <2> QED
    BY <1>1, <1>4, <2>1, <2>2, OneHolds
<1>9. CASE c.field = "never_watched"
  <2>1. LegacyGroup(c) = [op |-> "AND", conds |-> <<[field |-> "never_watched", op |-> "eq", value |-> Bit(c.value # 0)]>>]
    BY <1>9 DEF LegacyGroup, OneCondition
  <2>2. GroupHolds(LegacyGroup(c), item) <=> Bit(w.never) = Bit(c.value # 0)
    BY <1>4, <1>8, <2>1, SingleGroup
  <2>3. Bit(w.never) = Bit(c.value # 0) <=> (w.never <=> c.value # 0)
    BY DEF Bit, IsWatch
  <2> QED
    BY <1>9, <2>2, <2>3 DEF Says, item
<1>10. CASE c.field = "days_not_watched"
  <2> DEFINE never == [field |-> "never_watched", op |-> "eq", value |-> 1]
             long == [field |-> "days_not_watched", op |-> c.op, value |-> c.value]
  <2>1. c.op \in NumericOps
    BY <1>10 DEF LegacyValid
  <2>2. LegacyGroup(c) = [op |-> "OR", conds |-> <<never, long>>]
    BY <1>10 DEF LegacyGroup
  <2>3. ConditionHolds(never, item) <=> w.never
    BY <1>8 DEF Bit, IsWatch
  <2>4. ConditionHolds(long, item) <=> ~w.never /\ w.last # None /\ Compare(c.op, w.last, c.value)
    BY <1>3, <2>1, OneHolds
  <2> HIDE DEF never, long
  <2>5. GroupHolds(LegacyGroup(c), item) <=> w.never \/ (w.last # None /\ Compare(c.op, w.last, c.value))
    BY <2>2, <2>3, <2>4, EitherGroup
  <2> QED
    BY <1>10, <2>1, <2>5 DEF Says, item
<1> QED
  BY <1>6, <1>7, <1>9, <1>10 DEF LegacyValid

(* A condition the validator refuses never holds. *)
LEMMA InvalidSaysNothing ==
    ASSUME NEW c, ~LegacyValid(c), NEW w
    PROVE  ~Says(c, w)
  BY DEF LegacyValid, Says, Compare, NumericOps

(* _evaluate_conditions: the detour through the rule engine keeps the meaning
   of the conditions of a library, however many there are and whatever they
   name: an invalid one never holds, a date that is not known satisfies
   nothing. *)
THEOREM ConditionsKeepTheirMeaning ==
    ASSUME RuleConstants, NEW conds, IsList(conds), NEW logic, NEW w, IsWatch(w)
    PROVE  EvaluateConditions(conds, logic, w) <=>
             IF logic = "OR" THEN \E i \in DOMAIN conds : Says(conds[i], w)
             ELSE conds # <<>> /\ \A i \in DOMAIN conds : Says(conds[i], w)
<1> DEFINE valid == {i \in DOMAIN conds : LegacyValid(conds[i])}
           groups == [i \in valid |-> LegacyGroup(conds[i])]
           item == LegacyItem(w)
           rule == [enabled |-> TRUE, groups |-> groups, op |-> IF logic = "OR" THEN "OR" ELSE "AND"]
<1>1. conds = <<>> <=> DOMAIN conds = {}
  <2>1. Len(conds) \in Nat /\ DOMAIN conds = 1..Len(conds) /\ conds = [i \in 1..Len(conds) |-> conds[i]]
    BY ListBasics
  <2>2. CASE DOMAIN conds = {}
    <3>1. Len(conds) = 0
      BY <2>1, <2>2
    <3>2. \E X : conds \in Seq(X)
      BY DEF IsList
    <3> QED
      BY <2>2, <3>1, <3>2, EmptySeq
  <2>3. CASE conds = <<>>
    BY <2>3
  <2> QED
    BY <2>2, <2>3
<1>2. groups = <<>> => valid = {}
  <2>1. DOMAIN groups = valid /\ DOMAIN <<>> = {}
    OBVIOUS
  <2> HIDE DEF groups
  <2> QED
    BY <2>1
<1>3. \A i \in valid : GroupHolds(groups[i], item) <=> Says(conds[i], w)
  BY GroupMeans
<1>4. \A i \in DOMAIN conds : i \notin valid => ~Says(conds[i], w)
  BY InvalidSaysNothing
<1>5. EvaluateConditions(conds, logic, w) <=>
        conds # <<>> /\ (logic # "OR" => valid = DOMAIN conds) /\ RuleHolds(rule, item)
  BY DEF EvaluateConditions
<1>6. RuleHolds(rule, item) <=>
        /\ groups # <<>>
        /\ IF logic = "OR" THEN \E i \in valid : GroupHolds(groups[i], item)
           ELSE \A i \in valid : GroupHolds(groups[i], item)
  <2>1. DOMAIN groups = valid
    OBVIOUS
  <2>2. /\ rule.enabled = TRUE /\ rule.groups = groups
        /\ (rule.op = "AND") = (logic # "OR")
    OBVIOUS
  <2> HIDE DEF groups, rule, item, valid
  <2> QED
    BY <2>1, <2>2 DEF RuleHolds
<1>7. valid \subseteq DOMAIN conds
  OBVIOUS
<1>8. groups # <<>> \/ valid = {}
  BY <1>2
<1>9. valid # {} => groups # <<>>
  <2>1. DOMAIN groups = valid /\ DOMAIN <<>> = {}
    OBVIOUS
  <2> HIDE DEF groups
  <2> QED
    BY <2>1
<1> HIDE DEF groups, valid, item, rule
<1>10. CASE logic = "OR"
  BY <1>1, <1>3, <1>4, <1>5, <1>6, <1>7, <1>9, <1>10
<1>11. CASE logic # "OR"
  BY <1>1, <1>3, <1>4, <1>5, <1>6, <1>7, <1>9, <1>11
<1> QED
  BY <1>10, <1>11

ValidField(c) == c.field \in {"days_since_added", "play_count", "never_watched", "days_not_watched"}

(* The flat list of the copy. *)
LEMMA CopyHolds ==
    ASSUME NEW conds, IsList(conds), NEW filter
    PROVE  /\ IsList(BuildExpertConditions(conds, filter))
           /\ \A e : In(e, BuildExpertConditions(conds, filter)) <=>
                 \/ \E i \in DOMAIN conds : In(e, Copied(conds[i]))
                 \/ In(e, UserList(filter, "user_include", "in"))
                 \/ In(e, UserList(filter, "user_exclude", "not_in"))
<1> DEFINE n == Len(conds)
           ss == [i \in DOMAIN conds |-> Copied(conds[i])]
           flat == FlattenSeq(ss)
           ins == UserList(filter, "user_include", "in")
           outs == UserList(filter, "user_exclude", "not_in")
<1>1. n \in Nat /\ DOMAIN conds = 1..n
  BY ListBasics
<1>2. ss = [i \in 1..n |-> ss[i]] /\ \A i \in 1..n : ss[i] = Copied(conds[i])
  BY <1>1
<1>3. \A c : IsList(Copied(c))
  <2> SUFFICES ASSUME NEW c PROVE IsList(Copied(c))
    OBVIOUS
  <2>1. Copied(c) = <<>> \/ \E a : Copied(c) = <<a>>
    BY DEF Copied
  <2> QED
    BY <2>1, ShortLists
<1>4. \A type, op : IsList(UserList(filter, type, op))
  BY ShortLists DEF UserList
<1> HIDE DEF ss, n
<1>5. \A i \in 1..n : IsList(ss[i])
  BY <1>2, <1>3
<1>6. IsList(flat) /\ \A e : In(e, flat) <=> \E i \in 1..n : In(e, ss[i])
  BY <1>1, <1>2, <1>5, Flattening
<1>7. IsList(ins) /\ IsList(outs)
  BY <1>4
<1> HIDE DEF flat, ins, outs
<1>8. IsList(flat \o ins) /\ \A e : In(e, flat \o ins) <=> In(e, flat) \/ In(e, ins)
  BY <1>6, <1>7, Joining
<1>9. /\ IsList((flat \o ins) \o outs)
      /\ \A e : In(e, (flat \o ins) \o outs) <=> In(e, flat \o ins) \/ In(e, outs)
  BY <1>7, <1>8, Joining
<1>10. BuildExpertConditions(conds, filter) = (flat \o ins) \o outs
  BY DEF BuildExpertConditions, flat, ins, outs, ss
<1> QED
  BY <1>1, <1>2, <1>6, <1>8, <1>9, <1>10 DEF ins, outs

(* What a condition of the copy says of a medium is what the condition of the
   library said. *)
LEMMA CopyMeans ==
    ASSUME RuleConstants, NEW c, ValidField(c), c.op \notin ListOps, NEW w, IsWatch(w),
           w.added # None, w.never \/ w.last # None, w.never <=> w.plays = 0, NEW user,
           \A e : In(e, Copied(c)) =>
              e.op \in NumericOps \cup ListOps /\ ConditionHolds(e, ExpertItem(w, user))
    PROVE  Says(c, w)
<1> DEFINE item == ExpertItem(w, user)
<1>1. /\ DOMAIN item = {"days_not_watched", "play_count", "added_days_ago", "seerr_user_id", "never_watched"}
      /\ item["play_count"] = w.plays /\ item["added_days_ago"] = w.added
      /\ w.last # None => item["days_not_watched"] = w.last
  BY DEF ExpertItem
<1> HIDE DEF item
<1>2. ASSUME NEW e, Copied(c) = <<e>>
      PROVE  e.op \in NumericOps \cup ListOps /\ ConditionHolds(e, item)
  BY <1>2, ShortLists DEF item
<1>3. w.plays \in Nat /\ w.added \in Nat
  BY DEF IsWatch
<1>4. CASE c.field = "never_watched"
  <2>1. Copied(c) = <<[field |-> "play_count", op |-> IF c.value # 0 THEN "eq" ELSE "gte",
                       value |-> IF c.value # 0 THEN 0 ELSE 1]>>
    BY <1>4 DEF Copied, KnownFields
  <2>2. CASE c.value # 0
    <3>1. Copied(c) = <<[field |-> "play_count", op |-> "eq", value |-> 0]>>
      BY <2>1, <2>2
    <3>2. Compare("eq", w.plays, 0)
      BY <1>1, <1>2, <3>1, OneHolds DEF NumericOps
    <3> QED
      BY <1>4, <2>2, <3>2 DEF Says, Compare
  <2>3. CASE c.value = 0
    <3>1. Copied(c) = <<[field |-> "play_count", op |-> "gte", value |-> 1]>>
      BY <2>1, <2>3
    <3>2. Compare("gte", w.plays, 1)
      BY <1>1, <1>2, <3>1, OneHolds DEF NumericOps
    <3>3. ~w.never
      BY <1>3, <3>2 DEF Compare
    <3> QED
      BY <1>4, <2>3, <3>3 DEF Says
  <2> QED
    BY <2>2, <2>3
<1>5. CASE c.field # "never_watched"
  <2> DEFINE f == IF c.field = "days_since_added" THEN "added_days_ago" ELSE c.field
             e == [field |-> f, op |-> c.op, value |-> c.value]
  <2>1. Copied(c) = <<e>>
    BY <1>5 DEF Copied, KnownFields, ValidField
  <2>2. c.op \in NumericOps /\ ConditionHolds(e, item)
    BY <1>2, <2>1
  <2>3. item[f] # None /\ Compare(c.op, item[f], c.value)
    <3> HIDE DEF f
    <3> QED
      BY <2>2, OneHolds
  <2>4. CASE c.field = "days_since_added"
    BY <1>1, <2>3, <2>4 DEF Says
  <2>5. CASE c.field = "play_count"
    BY <1>1, <2>3, <2>5 DEF Says
  <2>6. CASE c.field = "days_not_watched"
    BY <1>1, <2>2, <2>3, <2>6 DEF Says
  <2> QED
    BY <1>5, <2>4, <2>5, <2>6 DEF ValidField
<1> QED
  BY <1>4, <1>5

(* _migrate_libraries_to_expert_rules_dbconn: the copy of a library into an
   expert rule never widens it.  When the conditions are joined by AND and
   name what the scan of the library knows, what the copy queues, the library
   with its Seerr filter would have queued, for every medium whose dates are
   known. *)
THEOREM CopyNarrows ==
    ASSUME RuleConstants, NEW lib, IsList(lib.conds), lib.logic = "AND",
           \A i \in DOMAIN lib.conds : ValidField(lib.conds[i]) /\ lib.conds[i].op \notin ListOps,
           NEW w, IsWatch(w), w.added # None, w.never \/ w.last # None, w.never <=> w.plays = 0,
           NEW user, RuleHolds(CopiedRule(lib), ExpertItem(w, user))
    PROVE  EvaluateConditions(lib.conds, "AND", w) /\ SeerrFilterPasses(user, lib.filter)
<1> DEFINE flat == BuildExpertConditions(lib.conds, lib.filter)
           item == ExpertItem(w, user)
           groups == ParsedGroups(flat, "AND")
           ins == UsersOf(lib.filter, "user_include")
           outs == UsersOf(lib.filter, "user_exclude")
<1>1. lib.conds # <<>> /\ groups # <<>> /\ \A i \in DOMAIN groups : GroupHolds(groups[i], item)
  BY DEF RuleHolds, CopiedRule
<1>2. /\ groups = <<[op |-> "AND", conds |-> flat]>>
      /\ \A i \in DOMAIN flat : flat[i].op \in NumericOps \cup ListOps
  <2> HIDE DEF flat
  <2> QED
    BY <1>1 DEF ParsedGroups
<1>3. \A i \in DOMAIN flat : ConditionHolds(flat[i], item)
  <2>1. GroupHolds([op |-> "AND", conds |-> flat], item)
    <3> HIDE DEF flat, item
    <3>1. 1 \in DOMAIN <<[op |-> "AND", conds |-> flat]>>
      OBVIOUS
    <3> QED
      BY <1>1, <1>2, <3>1
  <2> HIDE DEF flat, item
  <2> QED
    BY <2>1 DEF GroupHolds
<1>4. \A e : In(e, flat) => e.op \in NumericOps \cup ListOps /\ ConditionHolds(e, item)
  <2> HIDE DEF flat, item
  <2> QED
    BY <1>2, <1>3 DEF In
<1>5. \A e : In(e, flat) <=> \/ \E i \in DOMAIN lib.conds : In(e, Copied(lib.conds[i]))
                             \/ In(e, UserList(lib.filter, "user_include", "in"))
                             \/ In(e, UserList(lib.filter, "user_exclude", "not_in"))
  BY CopyHolds
<1>6. ASSUME NEW i \in DOMAIN lib.conds PROVE Says(lib.conds[i], w)
  <2> DEFINE c == lib.conds[i]
  <2>1. ValidField(c) /\ c.op \notin ListOps
    OBVIOUS
  <2>2. \A e : In(e, Copied(c)) => e.op \in NumericOps \cup ListOps /\ ConditionHolds(e, ExpertItem(w, user))
    <3> HIDE DEF flat
    <3> QED
      BY <1>4, <1>5
  <2> HIDE DEF c
  <2>3. Says(c, w)
    BY <2>1, <2>2, CopyMeans
  <2> QED
    BY <2>3 DEF c
<1>7. EvaluateConditions(lib.conds, "AND", w)
  BY <1>1, <1>6, ConditionsKeepTheirMeaning
<1>8. "seerr_user_id" \in DOMAIN item /\ item["seerr_user_id"] = user
  BY DEF ExpertItem
<1> HIDE DEF flat, item
<1>9. ASSUME ins # {} PROVE user # None /\ user \in ins
  <2> DEFINE e == [field |-> "seerr_user_id", op |-> "in", value |-> ins]
  <2>1. In(e, UserList(lib.filter, "user_include", "in"))
    BY <1>9, ShortLists DEF UserList
  <2>2. ConditionHolds(e, item)
    BY <1>4, <1>5, <2>1
  <2> QED
    BY <1>8, <2>2 DEF ConditionHolds, NumericOps
<1>10. ASSUME outs # {} PROVE user \notin outs
  <2> DEFINE e == [field |-> "seerr_user_id", op |-> "not_in", value |-> outs]
  <2>1. In(e, UserList(lib.filter, "user_exclude", "not_in"))
    BY <1>10, ShortLists DEF UserList
  <2>2. ConditionHolds(e, item)
    BY <1>4, <1>5, <2>1
  <2> QED
    BY <1>8, <2>2 DEF ConditionHolds, NumericOps
<1>11. SeerrFilterPasses(user, lib.filter)
  BY <1>8, <1>9, <1>10 DEF SeerrFilterPasses
<1> QED
  BY <1>7, <1>11

-----------------------------------------------------------------------------
(* The purge. *)

AllOf(rule) ==
    rule.op = "AND" /\ \A i \in DOMAIN rule.groups : rule.groups[i].op = "AND"

Unrequested(item) ==
    "seerr_user_id" \in DOMAIN item => item["seerr_user_id"] = None

(* A rule that wants a requester never holds for a media without one. *)
LEMMA WantsRequester ==
    ASSUME NEW rule, NEW item, AllOf(rule), HasSeerrFilter(rule), Unrequested(item)
    PROVE  ~RuleHolds(rule, item)
<1>1. PICK i \in DOMAIN rule.groups : \E j \in DOMAIN rule.groups[i].conds :
        /\ rule.groups[i].conds[j].field = "seerr_user_id"
        /\ rule.groups[i].conds[j].op = "in"
  BY DEF HasSeerrFilter
<1>2. PICK j \in DOMAIN rule.groups[i].conds :
        rule.groups[i].conds[j].field = "seerr_user_id"
  BY <1>1
<1>3. ~ConditionHolds(rule.groups[i].conds[j], item)
  BY <1>2 DEF ConditionHolds, Unrequested
<1>4. ~GroupHolds(rule.groups[i], item)
  BY <1>3 DEF GroupHolds, AllOf
<1> QED
  BY <1>4 DEF RuleHolds, AllOf

(* _purge_stale_seerr_items: in a library from which the purge takes the rows
   without a requester, no expert rule, of that library, of several or of all,
   can put such a row into the queue, whatever else the rules ask for, as long
   as their groups and conditions are joined by AND. *)
THEOREM PurgedCannotReturn ==
    ASSUME NEW rules, NEW item, NEW lib \in RequiringSeerr(rules),
           \A i \in DOMAIN rules : AllOf(rules[i]), Unrequested(item)
    PROVE  ExpertAction(rules, item, lib).action = None
<1>1. \A i \in DOMAIN rules :
        lib \in FiledUnder(rules[i]) \/ FiledUnder(rules[i]) = {} => HasSeerrFilter(rules[i])
  BY DEF RequiringSeerr
<1>2. ASSUME NEW i \in DOMAIN rules, AppliesTo(rules[i], lib)
      PROVE  ~RuleHolds(rules[i], item)
  <2>1. lib \in FiledUnder(rules[i]) \/ FiledUnder(rules[i]) = {}
    BY <1>2 DEF AppliesTo, FiledUnder
  <2> QED
    BY <1>1, <2>1, WantsRequester
<1>3. Deciding(rules, item, lib) = {}
  BY <1>2 DEF Deciding
<1> QED
  BY <1>3 DEF ExpertAction

-----------------------------------------------------------------------------
(* The last play. *)

DataOf(item, c, u) ==
    IF item.id \in DOMAIN c.ud[u] THEN c.ud[u][item.id]
    ELSE [plays |-> 0, played |-> FALSE, last |-> None]
SeenBy(item, c) == {u \in c.users : DataOf(item, c, u).played \/ DataOf(item, c, u).plays > 0}
DatesOf(item, c) ==
    {IF DataOf(item, c, u).last # None THEN DataOf(item, c, u).last ELSE Lookup(c.log, item.id)
        : u \in SeenBy(item, c)} \ {None}

(* _aggregate_user_data keeps the most recent of the dated plays. *)
LEMMA LastPlay ==
    ASSUME NEW item, NEW c, DatesOf(item, c) \in SUBSET Nat, DatesOf(item, c) # {}
    PROVE  /\ WatchOf(item, c).last \in DatesOf(item, c) /\ WatchOf(item, c).never = FALSE
           /\ \A d \in DatesOf(item, c) : WatchOf(item, c).last <= d
<1> DEFINE D == DatesOf(item, c)
<1>1. WatchOf(item, c).last = IF D = {} THEN None ELSE Min(D)
  BY DEF WatchOf, DatesOf, SeenBy, DataOf
<1>2. WatchOf(item, c).never = (SeenBy(item, c) = {})
  BY DEF WatchOf, SeenBy, DataOf
<1>3. SeenBy(item, c) # {}
  BY DEF DatesOf
<1>4. Min(D) \in D /\ \A d \in D : Min(D) <= d
  <2> HIDE DEF D
  <2>1. \E a \in D : \A b \in D : a <= b
    BY LeastOf DEF D
  <2> QED
    BY <2>1 DEF Min
<1> QED
  BY <1>1, <1>2, <1>3, <1>4

(* A condition that asks for more than n days without a play. *)
AsksFor(cond, n) == cond.field = "days_not_watched" /\ cond.op = "gt" /\ cond.value = n

(* It fails for a media with a play less old than that. *)
LEMMA RecentFails ==
    ASSUME NEW cond, NEW item, NEW n \in Nat, NEW d \in Nat, d <= n, AsksFor(cond, n),
           "days_not_watched" \in DOMAIN item => item["days_not_watched"] = d
    PROVE  ~ConditionHolds(cond, item)
<1>1. ~Compare("gt", d, n)
  BY DEF Compare
<1>2. cond.op # "in" /\ cond.op # "not_in"
  BY DEF AsksFor
<1> QED
  BY <1>1, <1>2 DEF ConditionHolds, AsksFor

(* The library's own conditions: the detour through the rule engine joins the
   condition with "or never watched", which does not help. *)
LEMMA LibraryRefuses ==
    ASSUME RuleConstants, NEW conds, NEW w, NEW n \in Nat, w.last \in Nat, w.last <= n, w.never = FALSE,
           conds = <<>> \/ \E i \in DOMAIN conds : AsksFor(conds[i], n)
    PROVE  ~EvaluateConditions(conds, "AND", w)
<1> DEFINE valid == {i \in DOMAIN conds : LegacyValid(conds[i])}
           rule == [enabled |-> TRUE, groups |-> [i \in valid |-> LegacyGroup(conds[i])],
                    op |-> "AND"]
           item == LegacyItem(w)
<1>1. CASE conds = <<>>
  BY <1>1 DEF EvaluateConditions
<1>2. CASE \E i \in DOMAIN conds : AsksFor(conds[i], n)
  <2>1. PICK i \in DOMAIN conds : AsksFor(conds[i], n)
    BY <1>2
  <2> DEFINE never == [field |-> "never_watched", op |-> "eq", value |-> 1]
             long == [field |-> "days_not_watched", op |-> conds[i].op, value |-> conds[i].value]
  <2>2. LegacyGroup(conds[i]) = [op |-> "OR", conds |-> <<never, long>>]
    BY <2>1 DEF LegacyGroup, AsksFor
  <2>3. /\ item["never_watched"] = 0
        /\ "days_not_watched" \in DOMAIN item => item["days_not_watched"] = w.last
    BY DEF LegacyItem, Bit
  <2>4. ~ConditionHolds(never, item)
    BY <2>3 DEF ConditionHolds, Compare
  <2>5. ~ConditionHolds(long, item)
    <3>1. AsksFor(long, n)
      BY <2>1 DEF AsksFor
    <3> QED
      BY <2>3, <3>1, RecentFails
  <2> HIDE DEF never, long, item
  <2>6. ~GroupHolds(LegacyGroup(conds[i]), item)
    BY <2>2, <2>4, <2>5 DEF GroupHolds
  <2>7. i \in valid => ~RuleHolds(rule, item)
    BY <2>6 DEF RuleHolds
  <2>8. EvaluateConditions(conds, "AND", w) => valid = DOMAIN conds /\ RuleHolds(rule, item)
    BY DEF EvaluateConditions, item
  <2> QED
    BY <2>7, <2>8
<1> QED
  BY <1>1, <1>2

(* An expert rule. *)
AsksInAll(rule, n) ==
    AllOf(rule) /\ \E i \in DOMAIN rule.groups : \E j \in DOMAIN rule.groups[i].conds :
                        AsksFor(rule.groups[i].conds[j], n)

(* A rule that asks for more than n days does not hold of a medium played within
   them. *)
LEMMA RuleRefuses ==
    ASSUME NEW rule, NEW item, NEW n \in Nat, NEW d \in Nat, d <= n, AsksInAll(rule, n),
           "days_not_watched" \in DOMAIN item => item["days_not_watched"] = d
    PROVE  ~RuleHolds(rule, item)
<1>1. PICK i \in DOMAIN rule.groups : \E j \in DOMAIN rule.groups[i].conds :
        AsksFor(rule.groups[i].conds[j], n)
  BY DEF AsksInAll
<1>2. PICK j \in DOMAIN rule.groups[i].conds : AsksFor(rule.groups[i].conds[j], n)
  BY <1>1
<1>3. ~ConditionHolds(rule.groups[i].conds[j], item)
  BY <1>2, RecentFails
<1>4. ~GroupHolds(rule.groups[i], item)
  BY <1>3 DEF GroupHolds, AllOf, AsksInAll
<1> QED
  BY <1>4 DEF RuleHolds, AllOf, AsksInAll

(* The rule that decides is one that holds. *)
LEMMA DeciderHolds ==
    ASSUME RuleConstants, NEW rules, NEW item, NEW lib, DOMAIN rules \subseteq Nat,
           ExpertAction(rules, item, lib).action = "queue"
    PROVE  \E i \in DOMAIN rules : rules[i].action = "queue" /\ RuleHolds(rules[i], item)
<1> DEFINE hits == Deciding(rules, item, lib)
           first == CHOOSE i \in hits : \A j \in hits : i <= j
<1>1. "queue" # None
  BY DEF RuleConstants
<1>2. hits # {}
  BY <1>1 DEF ExpertAction
<1>3. hits \in SUBSET Nat /\ \A i \in hits : i \in DOMAIN rules /\ RuleHolds(rules[i], item)
  BY DEF Deciding
<1>4. first \in hits
  <2> HIDE DEF hits
  <2>1. \E i \in hits : \A j \in hits : i <= j
    BY <1>2, <1>3, LeastOf
  <2> QED
    BY <2>1
<1>5. rules[first].action = "queue"
  BY <1>2 DEF ExpertAction
<1> QED
  BY <1>3, <1>4, <1>5

(* _collect_eligible_items: when the conditions of the library and every
   expert rule that queues ask for more than n days without a play, a media
   that any user has played within n days is queued by neither path: not for
   a user without data, not for a play without a count, not for a play dated
   by the activity log only. *)
THEOREM RecentPlayKeepsOut ==
    ASSUME RuleConstants, NEW item, NEW c, NEW n \in Nat,
           DatesOf(item, c) \in SUBSET Nat, c.logic = "AND",
           c.conds = <<>> \/ \E i \in DOMAIN c.conds : AsksFor(c.conds[i], n),
           DOMAIN c.rules \subseteq Nat,
           \A i \in DOMAIN c.rules : c.rules[i].action = "queue" => AsksInAll(c.rules[i], n),
           ScanItem(item, c) # {}
    PROVE  \A d \in DatesOf(item, c) : d > n
<1> SUFFICES ASSUME NEW d \in DatesOf(item, c), d <= n PROVE FALSE
  OBVIOUS
<1> DEFINE w == WatchOf(item, c)
           data == ExpertItem(w, Requester(item, c))
<1>1. w.last \in Nat /\ w.never = FALSE /\ w.last <= n
  <2>1. w.last \in DatesOf(item, c) /\ w.never = FALSE /\ w.last <= d
    BY LastPlay
  <2> QED
    BY <2>1
<1>2. EvaluateItem(item, c) = {}
  BY <1>1, LibraryRefuses DEF EvaluateItem
<1>3. ExpertAction(c.rules, data, c.lib).action = "queue"
  BY <1>2 DEF ScanItem, ExpertFallback
<1>4. data["days_not_watched"] = w.last
  <2>1. w.last # None
    BY <1>1 DEF RuleConstants
  <2> QED
    BY <2>1 DEF ExpertItem
<1> HIDE DEF data, w
<1>5. PICK i \in DOMAIN c.rules : c.rules[i].action = "queue" /\ RuleHolds(c.rules[i], data)
  BY <1>3, DeciderHolds
<1> QED
  BY <1>1, <1>4, <1>5, RuleRefuses

(* What is queued already, or ignored, is not found again: the second path
   (_evaluate_expert_rules_fallback) is closed to it like the first. *)
LEMMA NotAgain ==
    ASSUME NEW item, NEW c, NEW e \in ScanItem(item, c)
    PROVE  e.id \notin c.queued \cup c.ignored
<1>1. CASE EvaluateItem(item, c) # {}
  <2>1. item.id \notin c.queued /\ item.id \notin c.ignored
    BY <1>1 DEF EvaluateItem
  <2>2. e.id = item.id
    BY <1>1 DEF ScanItem, EvaluateItem, QueueEntry
  <2> QED
    BY <2>1, <2>2
<1>2. CASE EvaluateItem(item, c) = {}
  <2>1. item.id \notin c.queued \cup c.ignored /\ e \in ExpertFallback(item, c)
    BY <1>2 DEF ScanItem
  <2>2. e.id = item.id
    BY <2>1 DEF ExpertFallback, QueueEntry
  <2> QED
    BY <2>1, <2>2
<1> QED
  BY <1>1, <1>2

(* The watch states of _aggregate_user_data are those the theorems about the
   conditions speak of: a medium is never watched when its play count is 0. *)
LEMMA WatchIsSane ==
    ASSUME RuleConstants, NEW item, NEW c, item.added \in Nat \cup {None}, IsFiniteSet(c.users),
           \A u \in c.users : /\ DataOf(item, c, u).plays \in Nat
                              /\ DataOf(item, c, u).played \in BOOLEAN,
           DatesOf(item, c) \in SUBSET Nat
    PROVE  IsWatch(WatchOf(item, c)) /\ (WatchOf(item, c).never <=> WatchOf(item, c).plays = 0)
<1> DEFINE w == WatchOf(item, c)
           count(u) == IF DataOf(item, c, u).played /\ DataOf(item, c, u).plays = 0
                       THEN 1 ELSE DataOf(item, c, u).plays
           f == [u \in c.users |-> count(u)]
           counts == {f[u] : u \in c.users}
           all == {0} \cup counts
           dates == DatesOf(item, c)
<1>1. /\ w.added = item.added /\ w.never = (SeenBy(item, c) = {})
      /\ w.last = IF dates = {} THEN None ELSE Min(dates)
  BY DEF WatchOf, DatesOf, SeenBy, DataOf
<1>2. w.plays = Max(all)
  <2>1. {count(u) : u \in c.users} = counts
    OBVIOUS
  <2>2. w.plays = Max({0} \cup {count(u) : u \in c.users})
    BY DEF WatchOf, DataOf
  <2> QED
    BY <2>1, <2>2
<1>3. all \in SUBSET Nat
  <2>1. \A u \in c.users : count(u) \in Nat
    OBVIOUS
  <2> HIDE DEF count
  <2>2. \A u \in c.users : f[u] \in Nat
    BY <2>1
  <2> HIDE DEF f
  <2> QED
    BY <2>2
<1>4. IsFiniteSet(all)
  <2>1. IsFiniteSet(c.users) /\ DOMAIN f = c.users /\ f = [u \in c.users |-> f[u]]
    OBVIOUS
  <2> HIDE DEF f
  <2>2. IsFiniteSet(counts)
    BY <2>1, FiniteImage
  <2> HIDE DEF counts
  <2> QED
    BY <2>2, FS_Singleton, FS_Union
<1>5. Max(all) \in all /\ \A b \in all : b <= Max(all)
  <2>1. all \in SUBSET Int /\ all # {}
    BY <1>3
  <2> HIDE DEF all
  <2> QED
    BY <1>4, <2>1, FiniteMax
<1>6. w.last \in Nat \cup {None}
  BY <1>1, LeastIs
<1>7. w.never <=> w.plays = 0
  <2>1. CASE SeenBy(item, c) = {}
    <3>1. \A u \in c.users : count(u) = 0
      BY <2>1 DEF SeenBy
    <3>2. all \subseteq {0}
      BY <3>1
    <3> QED
      BY <1>1, <1>2, <1>5, <2>1, <3>2
  <2>2. CASE SeenBy(item, c) # {}
    <3>1. PICK u \in SeenBy(item, c) : TRUE
      BY <2>2
    <3>2. u \in c.users /\ count(u) > 0 /\ count(u) \in all
      BY <3>1 DEF SeenBy
    <3>3. Max(all) # 0
      BY <1>3, <1>5, <3>2
    <3> QED
      BY <1>1, <1>2, <2>2, <3>3
  <2> QED
    BY <2>1, <2>2
<1>8. w.plays \in Nat
  BY <1>2, <1>3, <1>5
<1>9. w.never \in BOOLEAN
  BY <1>1
<1> HIDE DEF w
<1> QED
  BY <1>1, <1>6, <1>7, <1>8, <1>9 DEF IsWatch, w

(* _aggregate_user_data feeds both the conditions of the library and their
   copy: for every medium of a scan whose dates are known, what the copy
   queues, the library would have queued. *)
COROLLARY ScannedCopyNarrows ==
    ASSUME RuleConstants, NEW lib, IsList(lib.conds), lib.logic = "AND",
           \A i \in DOMAIN lib.conds : ValidField(lib.conds[i]) /\ lib.conds[i].op \notin ListOps,
           NEW item, NEW c, item.added \in Nat, IsFiniteSet(c.users),
           \A u \in c.users : /\ DataOf(item, c, u).plays \in Nat
                              /\ DataOf(item, c, u).played \in BOOLEAN,
           DatesOf(item, c) \in SUBSET Nat, SeenBy(item, c) = {} \/ DatesOf(item, c) # {},
           NEW user, RuleHolds(CopiedRule(lib), ExpertItem(WatchOf(item, c), user))
    PROVE  /\ EvaluateConditions(lib.conds, "AND", WatchOf(item, c))
           /\ SeerrFilterPasses(user, lib.filter)
<1> DEFINE w == WatchOf(item, c)
<1>1. IsWatch(w) /\ (w.never <=> w.plays = 0)
  BY WatchIsSane
<1>2. w.added # None
  <2>1. w.added = item.added
    BY DEF WatchOf
  <2> HIDE DEF w
  <2> QED
    BY <2>1 DEF RuleConstants
<1>3. w.never \/ w.last # None
  <2>1. CASE SeenBy(item, c) = {}
    BY <2>1 DEF WatchOf, SeenBy, DataOf
  <2>2. CASE DatesOf(item, c) # {}
    <3>1. w.last \in DatesOf(item, c)
      BY <2>2, LastPlay
    <3> HIDE DEF w
    <3> QED
      BY <3>1 DEF RuleConstants
  <2> QED
    BY <2>1, <2>2
<1> HIDE DEF w
<1>4. RuleHolds(CopiedRule(lib), ExpertItem(w, user))
  BY DEF w
<1>5. EvaluateConditions(lib.conds, "AND", w) /\ SeerrFilterPasses(user, lib.filter)
  BY <1>1, <1>2, <1>3, <1>4, CopyNarrows
<1> QED
  BY <1>5 DEF w

-----------------------------------------------------------------------------
(* Seasons and series. *)

(* The episodes a scan found eligible. *)
AreEntries(eligible) ==
    /\ IsList(eligible)
    /\ \A i \in DOMAIN eligible : eligible[i].grace \in Nat /\ eligible[i].plays \in Nat
                                  /\ eligible[i].last \in Nat \cup {None}

Members(eligible, unit, k) == {i \in DOMAIN eligible : GroupKey(eligible[i], unit) = k}

Latest(eligible, unit, k) ==
    LET eps == Members(eligible, unit, k)
    IN {i \in eps : \A j \in eps : eligible[j].grace <= eligible[i].grace}

(* The row of a group. *)
RowOf(r, k, eligible, sonarr, unit) ==
    LET eps == Members(eligible, unit, k)
        anchor == eligible[Min(Latest(eligible, unit, k))]
        state == GroupState({eligible[i] : i \in eps})
    IN /\ r.id = <<unit, k>> /\ k # None /\ eps # {}
       /\ Complete(eps, GroupFiles(sonarr, k, unit))
       /\ r.grace = anchor.grace /\ r.path = anchor.path
       /\ r.last = state.last /\ r.plays = state.plays

(* Every row of _consolidate_and_insert is the row of a complete group. *)
LEMMA RowOfGroup ==
    ASSUME NEW eligible, NEW sonarr, NEW unit, NEW queued,
           NEW r \in Consolidate(eligible, sonarr, unit, queued)
    PROVE  \E k : RowOf(r, k, eligible, sonarr, unit)
<1> DEFINE keys   == {GroupKey(eligible[i], unit) : i \in DOMAIN eligible} \ {None}
           eps(k) == {i \in DOMAIN eligible : GroupKey(eligible[i], unit) = k}
           last(k) == {i \in eps(k) : \A j \in eps(k) : eligible[j].grace <= eligible[i].grace}
           state(k) == GroupState({eligible[i] : i \in eps(k)})
           row(k) == [id |-> <<unit, k>>, path |-> eligible[Min(last(k))].path,
                      url |-> eligible[Min(last(k))].url,
                      series |-> k[1], grace |-> eligible[Min(last(k))].grace,
                      last |-> state(k).last, plays |-> state(k).plays]
<1>1. \E k \in keys : r = row(k) /\ Complete(eps(k), GroupFiles(sonarr, k, unit))
  BY DEF Consolidate
<1>2. PICK k \in keys : r = row(k) /\ Complete(eps(k), GroupFiles(sonarr, k, unit))
  BY <1>1
<1>3. k # None /\ eps(k) # {}
  OBVIOUS
<1>4. /\ eps(k) = Members(eligible, unit, k) /\ last(k) = Latest(eligible, unit, k)
      /\ state(k) = GroupState({eligible[i] : i \in Members(eligible, unit, k)})
  BY DEF Members, Latest
<1> HIDE DEF eps, last, state
<1> QED
  BY <1>2, <1>3, <1>4 DEF RowOf

(* _group_watch_state and the anchor: the row that stands for a season or a
   series is not deleted before any episode of it would have been, and shows
   the plays and the last play of all of them, not those of the anchor. *)
THEOREM RowSpeaksForAll ==
    ASSUME RuleConstants, NEW eligible, AreEntries(eligible), NEW sonarr, NEW unit, NEW queued,
           NEW r \in Consolidate(eligible, sonarr, unit, queued),
           NEW i \in DOMAIN eligible, <<unit, GroupKey(eligible[i], unit)>> = r.id
    PROVE  /\ r.grace >= eligible[i].grace /\ r.plays >= eligible[i].plays
           /\ eligible[i].last # None => r.last # None /\ r.last <= eligible[i].last
<1>1. PICK k : RowOf(r, k, eligible, sonarr, unit)
  BY RowOfGroup
<1> DEFINE eps == Members(eligible, unit, k)
           last == {j \in eps : \A l \in eps : eligible[l].grace <= eligible[j].grace}
           all == {eligible[j] : j \in eps}
           graces == {eligible[j].grace : j \in eps}
           plays == {e.plays : e \in all}
           dates == {e.last : e \in all} \ {None}
<1>2. /\ r.id = <<unit, k>> /\ r.grace = eligible[Min(last)].grace
      /\ r.plays = Max(plays) /\ r.last = IF dates = {} THEN None ELSE Min(dates)
  BY <1>1 DEF RowOf, Latest, GroupState
<1>3. i \in eps
  BY <1>2 DEF Members
<1>4. IsList(eligible) /\ eps \in SUBSET DOMAIN eligible
  BY DEF AreEntries, Members
<1>5. IsFiniteSet(eps) /\ eps \in SUBSET Nat
  BY <1>4, ListIndices
<1>6. \A j \in eps : eligible[j].grace \in Nat /\ eligible[j].plays \in Nat
                     /\ eligible[j].last \in Nat \cup {None}
  BY <1>4 DEF AreEntries
<1> HIDE DEF eps
<1>7. r.grace >= eligible[i].grace
  <2> DEFINE f == [j \in eps |-> eligible[j].grace]
  <2>1. IsFiniteSet({f[j] : j \in eps})
    <3>1. DOMAIN f = eps /\ f = [j \in eps |-> f[j]]
      OBVIOUS
    <3> HIDE DEF f
    <3> QED
      BY <1>5, <3>1, FiniteImage
  <2>2. graces = {f[j] : j \in eps}
    OBVIOUS
  <2> HIDE DEF f
  <2>3. graces \in SUBSET Int /\ graces # {} /\ IsFiniteSet(graces)
    <3>1. graces \in SUBSET Int /\ graces # {}
      BY <1>3, <1>6
    <3> HIDE DEF graces
    <3> QED
      BY <2>1, <2>2, <3>1
  <2>4. Max(graces) \in graces /\ \A b \in graces : b <= Max(graces)
    <3> HIDE DEF graces
    <3> QED
      BY <2>3, FiniteMax
  <2>5. PICK j \in eps : eligible[j].grace = Max(graces)
    BY <2>4
  <2>6. j \in last
    BY <2>4, <2>5
  <2>7. last \in SUBSET Nat /\ last # {}
    BY <1>5, <2>6
  <2>8. Min(last) \in last
    <3> HIDE DEF last
    <3> QED
      BY <2>7, LeastIs
  <2>9. eligible[i].grace <= eligible[Min(last)].grace /\ Min(last) \in eps
    BY <1>3, <2>8
  <2> QED
    BY <1>2, <1>3, <1>6, <2>9
<1>8. r.plays >= eligible[i].plays
  <2> DEFINE f == [j \in eps |-> eligible[j].plays]
  <2>1. IsFiniteSet({f[j] : j \in eps})
    <3>1. DOMAIN f = eps /\ f = [j \in eps |-> f[j]]
      OBVIOUS
    <3> HIDE DEF f
    <3> QED
      BY <1>5, <3>1, FiniteImage
  <2>2. plays = {f[j] : j \in eps}
    OBVIOUS
  <2> HIDE DEF f
  <2>3. plays \in SUBSET Int /\ eligible[i].plays \in plays /\ IsFiniteSet(plays)
    <3>1. plays \in SUBSET Int /\ eligible[i].plays \in plays
      BY <1>3, <1>6
    <3> HIDE DEF plays
    <3> QED
      BY <2>1, <2>2, <3>1
  <2> HIDE DEF plays
  <2>4. Max(plays) \in plays /\ \A b \in plays : b <= Max(plays)
    BY <2>3, FiniteMax
  <2> QED
    BY <1>2, <2>3, <2>4
<1>9. ASSUME eligible[i].last # None
      PROVE  r.last # None /\ r.last <= eligible[i].last
  <2>1. dates \in SUBSET Nat /\ eligible[i].last \in dates
    BY <1>3, <1>6, <1>9
  <2> HIDE DEF dates
  <2>2. Min(dates) \in dates /\ \A b \in dates : Min(dates) <= b
    BY <2>1, LeastIs
  <2>3. r.last = Min(dates) /\ r.last \in Nat
    BY <1>2, <2>1, <2>2
  <2>4. r.last <= eligible[i].last
    BY <2>1, <2>2, <2>3
  <2> QED
    BY <2>3, <2>4 DEF RuleConstants
<1> QED
  BY <1>7, <1>8, <1>9

(* What a list found eligible for a group says of the cache: an episode whose
   series is known came with its series and its season from there. *)
FromCache(e, sonarr) ==
    /\ e.path \in {sonarr[i].path : i \in DOMAIN sonarr}
    /\ e.series = Get(sonarr, e.path).series /\ e.season = Get(sonarr, e.path).season

(* _consolidate_and_insert compares two numbers, the eligible episodes of the
   group and the files Sonarr has in it.  Equal numbers mean that every file
   is eligible, as long as the scan lists no file twice and Sonarr numbers the
   seasons of the eligible episodes. *)
THEOREM GroupIsWhole ==
    ASSUME NEW eligible, IsList(eligible), NEW sonarr, IsList(sonarr), NEW unit, NEW queued,
           \A i, j \in DOMAIN eligible : eligible[i].path = eligible[j].path => i = j,
           \A i \in DOMAIN eligible : GroupKey(eligible[i], unit) # None =>
               FromCache(eligible[i], sonarr) /\ eligible[i].season # None,
           NEW r \in Consolidate(eligible, sonarr, unit, queued),
           NEW p \in {sonarr[i].path : i \in DOMAIN sonarr}, Get(sonarr, p).season # None,
           <<unit, GroupKey(Get(sonarr, p), unit)>> = r.id
    PROVE  p \in {eligible[i].path : i \in DOMAIN eligible}
<1>1. PICK k : RowOf(r, k, eligible, sonarr, unit)
  BY RowOfGroup
<1> DEFINE eps == Members(eligible, unit, k)
           paths == {sonarr[i].path : i \in DOMAIN sonarr}
           files == GroupFiles(sonarr, k, unit)
           f == [i \in eps |-> eligible[i].path]
<1>2. r.id = <<unit, k>> /\ k # None /\ Cardinality(eps) = Cardinality(files)
  BY <1>1 DEF RowOf, Complete
<1>3. eps \subseteq DOMAIN eligible /\ \A i \in eps : GroupKey(eligible[i], unit) = k
  BY DEF Members
<1>4. p \in files
  BY <1>2 DEF GroupFiles
<1>5. IsFiniteSet(files)
  <2> DEFINE g == [i \in DOMAIN sonarr |-> sonarr[i].path]
  <2>1. IsFiniteSet(DOMAIN sonarr)
    BY ListIndices
  <2>2. DOMAIN g = DOMAIN sonarr /\ g = [i \in DOMAIN sonarr |-> g[i]]
        /\ paths = {g[i] : i \in DOMAIN sonarr}
    OBVIOUS
  <2> HIDE DEF g, paths
  <2>3. IsFiniteSet(paths)
    BY <2>1, <2>2, FiniteImage
  <2>4. files \in SUBSET paths
    BY DEF GroupFiles, paths
  <2> HIDE DEF files
  <2> QED
    BY <2>3, <2>4, FS_Subset
<1>6. ASSUME NEW i \in eps PROVE eligible[i].path \in files
  <2> DEFINE e == eligible[i]
             at == Get(sonarr, e.path)
  <2>1. e.path \in paths /\ e.series = at.series /\ e.season = at.season /\ e.season # None
    BY <1>2, <1>3 DEF FromCache
  <2>2. GroupKey(e, unit) = k
    BY <1>3
  <2>3. GroupKey(at, unit) = GroupKey(e, unit)
    <3> HIDE DEF e, at
    <3> QED
      BY <2>1 DEF GroupKey
  <2> QED
    BY <2>1, <2>2, <2>3 DEF GroupFiles
<1>7. \A i, j \in eps : eligible[i].path = eligible[j].path => i = j
  BY <1>3
<1> HIDE DEF eps, files, paths
<1>8. f \in Injection(eps, files)
  BY <1>6, <1>7 DEF Injection, IsInjective
<1>9. f \in Surjection(eps, files)
  <2> HIDE DEF f
  <2> QED
    BY <1>2, <1>5, <1>8, FS_Injection
<1>10. PICK i \in eps : f[i] = p
  <2> HIDE DEF f
  <2> QED
    BY <1>4, <1>9 DEF Surjection
<1> QED
  BY <1>3, <1>10

(* _resolve_arr_ids: only an entry of the cache of episode files names a
   series, and a row has the series and the season of the entry at its path. *)
LEMMA SeriesFromCache ==
    ASSUME NEW item, NEW c, AreServers(c.servers),
           c.radarr = RadarrCache(c.servers), c.sonarr = SonarrCache(c.servers),
           NEW e \in ScanItem(item, c), e.series # None
    PROVE  FromCache(e, c.sonarr)
<1> DEFINE found(asked) ==
             IF item.type = "movie" THEN RadarrCached(item.path, c.radarr)
             ELSE IF SonarrCached(item.path, c.sonarr) # None THEN SonarrCached(item.path, c.sonarr)
             ELSE SonarrFind(item.path, asked)
           known(asked) == found(asked) # None /\ "series" \in DOMAIN found(asked)
           Of(asked) == ResolveArrIds(item.path, item.type, c.radarr, c.sonarr, asked)
           cached == SonarrCached(item.path, c.sonarr)
<1>1. \E asked \in {c.servers, <<>>} :
         e.path = item.path /\ e.series = Of(asked).series /\ e.season = Of(asked).season
  <2>1. CASE EvaluateItem(item, c) # {}
    <3>1. PICK g : e = QueueEntry(item, WatchOf(item, c), Requester(item, c), g, Of(c.servers))
      BY <2>1 DEF ScanItem, EvaluateItem
    <3> HIDE DEF Of
    <3> QED
      BY <3>1 DEF QueueEntry
  <2>2. CASE EvaluateItem(item, c) = {}
    <3>1. e \in ExpertFallback(item, c)
      BY <2>2 DEF ScanItem
    <3>2. PICK g : e = QueueEntry(item, WatchOf(item, c), Requester(item, c), g, Of(<<>>))
      BY <3>1 DEF ExpertFallback
    <3> HIDE DEF Of
    <3> QED
      BY <3>2 DEF QueueEntry
  <2> QED
    BY <2>1, <2>2
<1>2. PICK asked \in {c.servers, <<>>} :
         e.path = item.path /\ e.series = Of(asked).series /\ e.season = Of(asked).season
  BY <1>1
<1>3. /\ Of(asked).series = IF known(asked) THEN found(asked).series ELSE None
      /\ Of(asked).season = IF known(asked) THEN found(asked).season ELSE None
  BY DEF ResolveArrIds
<1>4. /\ known(asked)
      /\ e.series = found(asked).series /\ e.season = found(asked).season
  <2> HIDE DEF Of, known, found
  <2> QED
    BY <1>2, <1>3
<1>5. item.type # "movie"
  <2> SUFFICES ASSUME item.type = "movie" PROVE FALSE
    OBVIOUS
  <2>1. found(asked) = RadarrCached(item.path, RadarrCache(c.servers)) /\ found(asked) # None
    BY <1>4
  <2> HIDE DEF found
  <2>2. PICK i \in DOMAIN c.servers : \E j \in DOMAIN c.servers[i].movies :
           found(asked) = [id |-> c.servers[i].movies[j].id, url |-> c.servers[i].url]
    BY <2>1, CachedFilm
  <2>3. PICK j \in DOMAIN c.servers[i].movies :
           found(asked) = [id |-> c.servers[i].movies[j].id, url |-> c.servers[i].url]
    BY <2>2
  <2>4. "series" \notin DOMAIN found(asked)
    BY <2>3
  <2> QED
    BY <1>4, <2>4
<1>6. cached # None
  <2> SUFFICES ASSUME cached = None PROVE FALSE
    OBVIOUS
  <2>1. found(asked) = SonarrFind(item.path, asked)
    BY <1>5
  <2>2. \E id, url : SonarrFind(item.path, asked) \in {None, [id |-> id, url |-> url]}
    BY DEF SonarrFind
  <2>3. PICK id, url : SonarrFind(item.path, asked) \in {None, [id |-> id, url |-> url]}
    BY <2>2
  <2>4. "series" \notin DOMAIN [id |-> id, url |-> url]
    OBVIOUS
  <2> HIDE DEF found
  <2> QED
    BY <1>4, <2>1, <2>3, <2>4
<1>7. /\ Get(c.sonarr, e.path) # None
      /\ e.series = Get(c.sonarr, e.path).series /\ e.season = Get(c.sonarr, e.path).season
  <2>1. found(asked) = cached
    BY <1>5, <1>6
  <2> HIDE DEF found
  <2> QED
    BY <1>2, <1>4, <1>6, <2>1 DEF SonarrCached
<1>8. IsList(c.sonarr)
  BY FileInCache
<1>9. PICK entry : In(entry, c.sonarr) /\ entry.path = e.path
  BY <1>7, <1>8, Found
<1>10. e.path \in {c.sonarr[i].path : i \in DOMAIN c.sonarr}
  BY <1>9 DEF In
<1> QED
  BY <1>7, <1>10 DEF FromCache

(* A season or a series enters the queue only when every file Sonarr has in
   it has been found eligible by the scan, whatever the servers hold: when
   Sonarr numbers every season and the scan lists no file twice. *)
THEOREM SeasonGoesAsAWhole ==
    ASSUME NEW c, AreServers(c.servers),
           c.radarr = RadarrCache(c.servers), c.sonarr = SonarrCache(c.servers),
           \A i \in DOMAIN c.sonarr : c.sonarr[i].entry.season # None,
           NEW eligible, IsList(eligible), NEW items,
           \A i \in DOMAIN eligible : eligible[i] \in ScanItem(items[i], c),
           \A i, j \in DOMAIN eligible : eligible[i].path = eligible[j].path => i = j,
           NEW unit, NEW queued, NEW r \in Consolidate(eligible, c.sonarr, unit, queued),
           NEW p \in {c.sonarr[i].path : i \in DOMAIN c.sonarr},
           <<unit, GroupKey(Get(c.sonarr, p), unit)>> = r.id
    PROVE  p \in {eligible[i].path : i \in DOMAIN eligible}
<1>1. IsList(c.sonarr)
  BY FileInCache
<1>2. ASSUME NEW path \in {c.sonarr[i].path : i \in DOMAIN c.sonarr}
      PROVE  Get(c.sonarr, path).season # None
  <2> DEFINE hits == {i \in DOMAIN c.sonarr : c.sonarr[i].path = path}
             n == Len(c.sonarr)
  <2>1. hits \in SUBSET Int /\ n \in Int /\ (\A i \in hits : i <= n) /\ hits # {}
    BY <1>1, ListBasics
  <2>2. Max(hits) \in hits
    <3> HIDE DEF hits, n
    <3> QED
      BY <2>1, GreatestIs
  <2>3. Get(c.sonarr, path) = c.sonarr[Max(hits)].entry
    BY <2>1 DEF Get
  <2> QED
    BY <2>2, <2>3
<1>3. ASSUME NEW i \in DOMAIN eligible, GroupKey(eligible[i], unit) # None
      PROVE  FromCache(eligible[i], c.sonarr) /\ eligible[i].season # None
  <2>1. eligible[i].series # None
    BY <1>3 DEF GroupKey
  <2>2. FromCache(eligible[i], c.sonarr)
    BY <2>1, SeriesFromCache
  <2> QED
    BY <1>2, <2>2 DEF FromCache
<1>4. Get(c.sonarr, p).season # None
  BY <1>2
<1> QED
  BY <1>1, <1>3, <1>4, GroupIsWhole

-----------------------------------------------------------------------------
(* Plex. *)

MediaTypes == {"movie", "series", "season", "episode"}
SameContent(r, item) == r.tmdb = item.tmdb /\ (r.type = "movie" <=> item.type = "movie")

(* Two rows with one key are the same content of the same kind. *)
LEMMA KeysTellContent ==
    ASSUME NEW r, NEW item, r.type \in MediaTypes, item.type \in MediaTypes
    PROVE  TmdbKey(r.tmdb, r.type) = TmdbKey(item.tmdb, item.type) <=> SameContent(r, item)
  BY DEF TmdbKey, SameContent, MediaTypes

(* _plex_item_to_entry: a Plex media is queued because a rule that queues
   holds for it, or because the same content is pending on another server, a
   film never standing for a series of the same number; and never when the
   content is ignored on any server. *)
THEOREM PlexFollowsOthers ==
    ASSUME RuleConstants, NEW item, NEW c, item.type \in MediaTypes, DOMAIN c.rules \subseteq Nat,
           \A r \in c.pending \cup c.ignoredRows : r.type \in MediaTypes,
           ScanPlexItem(item, c) # {}
    PROVE  /\ item.id \notin c.queued \cup c.ignored
           /\ item.tmdb # None => \A r \in c.ignoredRows : ~SameContent(r, item)
           /\ \/ \E r \in c.pending : SameContent(r, item)
              \/ \E i \in DOMAIN c.rules :
                    c.rules[i].action = "queue" /\ RuleHolds(c.rules[i], PlexItem(item))
<1> DEFINE key == TmdbKey(item.tmdb, item.type)
           keep == item.tmdb # None /\ key \in TmdbKeys(c.pending)
           act == ExpertAction(c.rules, PlexItem(item), c.lib)
<1>1. /\ item.id \notin c.queued \cup c.ignored
      /\ ~(item.tmdb # None /\ key \in TmdbKeys(c.ignoredRows))
      /\ keep \/ act.action = "queue"
  BY DEF ScanPlexItem
<1>2. ASSUME item.tmdb # None, NEW r \in c.ignoredRows, SameContent(r, item)
      PROVE  FALSE
  <2>1. TmdbKey(r.tmdb, r.type) = key /\ r.tmdb # None
    BY <1>2, KeysTellContent DEF SameContent
  <2>2. key \in TmdbKeys(c.ignoredRows)
    BY <2>1 DEF TmdbKeys
  <2> QED
    BY <1>1, <1>2, <2>2
<1>3. CASE keep
  <2>1. PICK r \in c.pending : key = TmdbKey(r.tmdb, r.type)
    BY <1>3 DEF TmdbKeys
  <2>2. SameContent(r, item)
    BY <2>1, KeysTellContent
  <2> QED
    BY <1>1, <1>2, <2>2
<1>4. CASE act.action = "queue"
  BY <1>1, <1>2, <1>4, DeciderHolds
<1> QED
  BY <1>1, <1>3, <1>4

-----------------------------------------------------------------------------
(* The questions of MCRules. *)

LEMMA AskedPlex ==
    ASSUME RuleConstants, AskPlex
    PROVE  QueuedWithReason'
<1>1. PICK type \in {"movie", "series"}, tmdb \in {None, 1402}, pending \in SUBSET Known,
           ignoredRow \in Known, ignored \in BOOLEAN, rules \in Rules30 :
        LET item == [id |-> m1, type |-> type, tmdb |-> tmdb, added |-> 40, last |-> None,
                     plays |-> 0]
            c == [lib |-> l1, grace |-> 4, queued |-> {}, ignored |-> {}, seerr |-> <<>>,
                  rules |-> rules, pending |-> pending,
                  ignoredRows |-> IF ignored THEN {ignoredRow} ELSE {}]
        IN  /\ Cardinality(pending) <= 2
            /\ q' = "plex"
            /\ x' = [item |-> item, c |-> c]
            /\ y' = ScanPlexItem(item, c)
  BY DEF AskPlex
<1> DEFINE item == [id |-> m1, type |-> type, tmdb |-> tmdb, added |-> 40, last |-> None,
                    plays |-> 0]
           c == [lib |-> l1, grace |-> 4, queued |-> {}, ignored |-> {}, seerr |-> <<>>,
                 rules |-> rules, pending |-> pending,
                 ignoredRows |-> IF ignored THEN {ignoredRow} ELSE {}]
<1>2. q' = "plex" /\ x'.item = item /\ x'.c = c /\ y' = ScanPlexItem(item, c)
  BY <1>1
<1>3. /\ c.rules = rules /\ c.pending = pending /\ c.ignoredRows \subseteq Known
      /\ item.type \in MediaTypes /\ \A r \in Known : r.type \in MediaTypes
  BY DEF Known, MediaTypes
<1> HIDE DEF item, c
<1>4. DOMAIN rules \subseteq Nat
  BY DEF Rules30
<1>5. RecentPlayIsKept' /\ IgnoredStaysOut'
  BY <1>2 DEF RecentPlayIsKept, IgnoredStaysOut
<1>6. MirrorsPendingOnly'
  <2> SUFFICES ASSUME y' # {}
               PROVE  /\ x'.item.tmdb # None => \A r \in x'.c.ignoredRows :
                           ~(r.tmdb = x'.item.tmdb /\ (r.type = "movie" <=> x'.item.type = "movie"))
                      /\ \/ x'.c.rules # <<>>
                         \/ \E r \in x'.c.pending :
                              r.tmdb = x'.item.tmdb /\ (r.type = "movie" <=> x'.item.type = "movie")
    BY DEF MirrorsPendingOnly
  <2>1. \A r \in c.pending \cup c.ignoredRows : r.type \in MediaTypes
    BY <1>3
  <2>2. /\ item.tmdb # None => \A r \in c.ignoredRows : ~SameContent(r, item)
        /\ \/ \E r \in c.pending : SameContent(r, item)
           \/ \E i \in DOMAIN c.rules : TRUE
    BY <1>2, <1>3, <1>4, <2>1, PlexFollowsOthers
  <2> QED
    BY <1>2, <2>2 DEF SameContent
<1> QED
  BY <1>5, <1>6 DEF QueuedWithReason

(* The rules of AskScan and AskPlex ask for 30 days without a play. *)
LEMMA AskedRules ==
    ASSUME NEW rules \in Rules30
    PROVE  /\ DOMAIN rules \subseteq Nat
           /\ \A i \in DOMAIN rules : rules[i].action = "queue" => AsksInAll(rules[i], 30)
<1> DEFINE all(lib, libs, action, grace) ==
             Rule(lib, libs, "AND", <<Group("AND", <<NotWatched30>>)>>, action, grace)
<1>1. \A lib, libs, action, grace : AsksInAll(all(lib, libs, action, grace), 30)
  BY DEF AsksInAll, AllOf, AsksFor, Rule, Group, NotWatched30, Cond
<1>2. \/ rules = <<>> \/ rules = <<all(None, None, "queue", 3)>>
      \/ rules = <<all(None, {l1}, "notify_only", 3), all(None, None, "queue", 9)>>
  BY DEF Rules30
<1> HIDE DEF all
<1> QED
  BY <1>1, <1>2

(* What the properties of MCRules call the dates of a media are those the
   theorem speaks of. *)
LEMMA AskedDates ==
    ASSUME RuleConstants, NEW item, NEW c, item.id = m1, c.users = {u1, u2},
           \A u \in {u1, u2} : c.ud[u] \in UserData, c.log \in {<<>>, [m \in {m1} |-> 5]},
           x'.c.ud = c.ud, x'.c.log = c.log
    PROVE  PlayDates' = DatesOf(item, c) /\ DatesOf(item, c) \in SUBSET Nat
<1> DEFINE seen(u) == c.ud[u] # <<>> /\ (c.ud[u][m1].played \/ c.ud[u][m1].plays > 0)
           date(u) == IF c.ud[u][m1].last # None THEN c.ud[u][m1].last ELSE Lookup(c.log, m1)
<1>1. ASSUME NEW u \in {u1, u2}
      PROVE  \/ c.ud[u] = <<>> /\ m1 \notin DOMAIN c.ud[u]
             \/ c.ud[u] # <<>> /\ m1 \in DOMAIN c.ud[u] /\ c.ud[u][m1] \in Plays
  <2>1. c.ud[u] = <<>> \/ c.ud[u] \in [{m1} -> Plays]
    BY DEF UserData
  <2>2. DOMAIN <<>> = {}
    OBVIOUS
  <2> QED
    BY <2>1, <2>2
<1>2. ASSUME NEW u \in {u1, u2}
      PROVE  /\ seen(u) <=> DataOf(item, c, u).played \/ DataOf(item, c, u).plays > 0
             /\ seen(u) => DataOf(item, c, u) = c.ud[u][m1] /\ c.ud[u][m1] \in Plays
  <2>1. CASE c.ud[u] = <<>> /\ m1 \notin DOMAIN c.ud[u]
    BY <2>1 DEF DataOf
  <2>2. CASE c.ud[u] # <<>> /\ m1 \in DOMAIN c.ud[u] /\ c.ud[u][m1] \in Plays
    BY <2>2 DEF DataOf
  <2> QED
    BY <1>1, <2>1, <2>2
<1>3. PlayDates' = {date(u) : u \in {v \in {u1, u2} : seen(v)}} \ {None}
  BY DEF PlayDates
<1>4. \A u \in {u1, u2} : u \in SeenBy(item, c) <=> seen(u)
  BY <1>2 DEF SeenBy
<1>5. SeenBy(item, c) = {v \in {u1, u2} : seen(v)}
  BY <1>4 DEF SeenBy
<1>6. DatesOf(item, c) = {date(u) : u \in {v \in {u1, u2} : seen(v)}} \ {None}
  BY <1>2, <1>5 DEF DatesOf
<1>7. ASSUME NEW u \in {u1, u2}, seen(u)
      PROVE  date(u) \in {None, 5, 40}
  <2>1. c.ud[u][m1].last \in {None, 5, 40}
    BY <1>2, <1>7 DEF Plays
  <2>2. Lookup(c.log, m1) \in {None, 5}
    BY DEF Lookup
  <2> QED
    BY <2>1, <2>2
<1> HIDE DEF seen, date
<1>8. DatesOf(item, c) \in SUBSET Nat
  BY <1>6, <1>7
<1> QED
  BY <1>3, <1>6, <1>8

(* The servers of the questions. *)
LEMMA ServerLists ==
    ASSUME NEW servers, IsList(servers),
           \A i \in DOMAIN servers : \E url, up, folder : servers[i] = Server(url, up, folder)
    PROVE  AreServers(servers)
<1>1. \A url, folder : IsList(Films(url, folder))
  BY ShortLists DEF Films
<1>2. \A folder : IsList(Shows(folder))
  BY ShortLists DEF Shows
<1>3. \A folder : \A j \in DOMAIN Shows(folder) : IsList(Shows(folder)[j].files)
  <2> SUFFICES ASSUME NEW folder, NEW j \in DOMAIN Shows(folder)
               PROVE  IsList(Shows(folder)[j].files)
    OBVIOUS
  <2> DEFINE files == <<[id |-> 51, path |-> <<"media", folder, "e1">>, season |-> 1],
                        [id |-> 52, path |-> <<"media", folder, "e2">>, season |-> 1],
                        [id |-> 53, path |-> <<"media", folder, "e3">>, season |-> 2]>>
  <2>1. Shows(folder)[j].files = files
    BY DEF Shows
  <2>2. files = [k \in 1..3 |-> files[k]]
    OBVIOUS
  <2> HIDE DEF files
  <2>3. IsList(files)
    BY <2>2, ListOfAny
  <2> QED
    BY <2>1, <2>3
<1>4. \A url, up, folder : /\ Server(url, up, folder).movies = Films(url, folder)
                           /\ Server(url, up, folder).series = Shows(folder)
  BY DEF Server
<1> QED
  BY <1>1, <1>2, <1>3, <1>4 DEF AreServers

(* The list of two elements. *)
LEMMA ListOfTwo ==
    ASSUME NEW a, NEW b
    PROVE  IsList(<<a, b>>)
<1> DEFINE s == <<a, b>>
<1>1. s = [i \in 1..2 |-> s[i]]
  OBVIOUS
<1> HIDE DEF s
<1>2. IsList(s)
  BY <1>1, ListOfAny
<1> QED
  BY <1>2 DEF s

(* The servers of MCRules are servers with lists of films and series. *)
LEMMA Installed ==
    ASSUME NEW servers \in Installations
    PROVE  AreServers(servers)
<1>1. \/ servers = <<>>
      \/ \E url, up, folder : servers = <<Server(url, up, folder)>>
      \/ \E url, up, folder, url2, up2, folder2 :
            servers = <<Server(url, up, folder), Server(url2, up2, folder2)>>
  BY DEF Installations
<1>2. IsList(servers)
  BY <1>1, ShortLists, ListOfTwo
<1>3. \A i \in DOMAIN servers : \E url, up, folder : servers[i] = Server(url, up, folder)
  BY <1>1
<1> QED
  BY <1>2, <1>3, ServerLists

(* The answers of AskScan: RecentPlayKeepsOut, NotAgain and EntryNamesTheFile. *)
LEMMA AskedScan ==
    ASSUME RuleConstants, AskScan
    PROVE  QueuedWithReason' /\ RightArrEntry'
<1>1. PICK servers \in {<<Server("a", TRUE, "fa"), Server("b", TRUE, "fb")>>,
                        <<Server("a", FALSE, "fa"), Server("b", TRUE, "fb")>>} :
        \E mine \in UserData, hers \in OtherData, log \in {<<>>, [m \in {m1} |-> 5]},
           type \in {"movie", "episode"}, path \in Paths, added \in {None, 40},
           queued \in {{}, {m1}}, ignored \in {{}, {m1}},
           conds \in {<<>>, <<NotWatched30>>}, rules \in Rules30 :
            LET ud == [u \in {u1, u2} |-> IF u = u1 THEN mine ELSE hers]
                c == [lib |-> l1, conds |-> conds, logic |-> "AND", grace |-> 0,
                      filter |-> <<>>, users |-> {u1, u2}, ud |-> ud, log |-> log,
                      queued |-> queued, ignored |-> ignored, seerr |-> <<>>,
                      overrides |-> {}, rules |-> rules, radarr |-> RadarrCache(servers),
                      sonarr |-> SonarrCache(servers), servers |-> servers]
                item == [id |-> m1, type |-> type, path |-> path, tmdb |-> None, added |-> added]
            IN /\ q' = "scan"
               /\ (path = None \/ conds = <<>>) => queued \cup ignored = {}
               /\ added = None => path = None
               /\ x' = [c |-> [c EXCEPT !.radarr = <<>>, !.sonarr = <<>>], item |-> item]
               /\ y' = ScanItem(item, c)
  BY Zenon DEF AskScan
<1>2. PICK mine \in UserData, hers \in OtherData, log \in {<<>>, [m \in {m1} |-> 5]},
           type \in {"movie", "episode"}, path \in Paths, added \in {None, 40},
           queued \in {{}, {m1}}, ignored \in {{}, {m1}},
           conds \in {<<>>, <<NotWatched30>>}, rules \in Rules30 :
            LET ud == [u \in {u1, u2} |-> IF u = u1 THEN mine ELSE hers]
                c == [lib |-> l1, conds |-> conds, logic |-> "AND", grace |-> 0,
                      filter |-> <<>>, users |-> {u1, u2}, ud |-> ud, log |-> log,
                      queued |-> queued, ignored |-> ignored, seerr |-> <<>>,
                      overrides |-> {}, rules |-> rules, radarr |-> RadarrCache(servers),
                      sonarr |-> SonarrCache(servers), servers |-> servers]
                item == [id |-> m1, type |-> type, path |-> path, tmdb |-> None, added |-> added]
            IN /\ q' = "scan"
               /\ (path = None \/ conds = <<>>) => queued \cup ignored = {}
               /\ added = None => path = None
               /\ x' = [c |-> [c EXCEPT !.radarr = <<>>, !.sonarr = <<>>], item |-> item]
               /\ y' = ScanItem(item, c)
  BY <1>1, Zenon
<1> DEFINE ud == [u \in {u1, u2} |-> IF u = u1 THEN mine ELSE hers]
           radarr == RadarrCache(servers)
           sonarr == SonarrCache(servers)
           c == [lib |-> l1, conds |-> conds, logic |-> "AND", grace |-> 0,
                 filter |-> <<>>, users |-> {u1, u2}, ud |-> ud, log |-> log,
                 queued |-> queued, ignored |-> ignored, seerr |-> <<>>,
                 overrides |-> {}, rules |-> rules, radarr |-> radarr,
                 sonarr |-> sonarr, servers |-> servers]
           item == [id |-> m1, type |-> type, path |-> path, tmdb |-> None, added |-> added]
<1>3. /\ q' = "scan" /\ x' = [c |-> [c EXCEPT !.radarr = <<>>, !.sonarr = <<>>], item |-> item]
      /\ y' = ScanItem(item, c)
  BY <1>2
<1> HIDE DEF radarr, sonarr
<1>4. /\ x'.c.ud = c.ud /\ x'.c.log = c.log
      /\ x'.c.queued = c.queued /\ x'.c.ignored = c.ignored
  BY <1>3
<1>5. /\ item.id = m1 /\ c.users = {u1, u2} /\ c.log \in {<<>>, [m \in {m1} |-> 5]}
      /\ c.logic = "AND" /\ c.rules = rules /\ c.conds = conds
      /\ c.ud = ud
  OBVIOUS
<1>6. \A u \in {u1, u2} : c.ud[u] \in UserData
  <2>1. hers \in UserData
    BY DEF OtherData, UserData
  <2> QED
    BY <1>5, <2>1
<1>7. c.conds = <<>> \/ \E i \in DOMAIN c.conds : AsksFor(c.conds[i], 30)
  BY <1>5 DEF AsksFor, NotWatched30, Cond
<1>8. /\ c.servers = servers
      /\ c.radarr = RadarrCache(servers) /\ c.sonarr = SonarrCache(servers)
  BY DEF radarr, sonarr
<1>9. x'.c.servers = c.servers /\ x'.item.type = item.type
  BY <1>3
<1> HIDE DEF c, item
<1>10. PlayDates' = DatesOf(item, c) /\ DatesOf(item, c) \in SUBSET Nat
  BY <1>4, <1>5, <1>6, AskedDates
<1>11. RecentPlayIsKept'
  <2> SUFFICES ASSUME y' # {} PROVE \A d \in PlayDates' : d > 30
    BY DEF RecentPlayIsKept
  <2>1. DOMAIN c.rules \subseteq Nat
          /\ \A i \in DOMAIN c.rules : c.rules[i].action = "queue" => AsksInAll(c.rules[i], 30)
    BY <1>5, AskedRules
  <2>2. \A d \in DatesOf(item, c) : d > 30
    BY <1>3, <1>5, <1>7, <1>10, <2>1, RecentPlayKeepsOut
  <2> QED
    BY <1>10, <2>2
<1>12. IgnoredStaysOut'
  BY <1>3, <1>4, NotAgain DEF IgnoredStaysOut
<1>13. MirrorsPendingOnly'
  BY <1>3 DEF MirrorsPendingOnly
<1>14. ArrPairIsReal'
  <2>1. AreServers(servers)
    BY Installed DEF Installations
  <2>2. \A e \in y' : e.arr # None => EntryIsReal(c.servers, item.type, e)
    BY <1>3, <1>8, <2>1, EntryNamesTheFile
  <2>3. \A e \in y' : e.arr # None => EntryIsReal(x'.c.servers, x'.item.type, e)
    BY <1>9, <2>2
  <2> QED
    BY <2>3 DEF ArrPairIsReal
<1>15. NeverGuess'
  BY <1>3 DEF NeverGuess
<1> QED
  BY <1>11, <1>12, <1>13, <1>14, <1>15 DEF QueuedWithReason, RightArrEntry

(* The answers of AskPurge: PurgedCannotReturn. *)
LEMMA AskedPurge ==
    ASSUME AskPurge
    PROVE  PurgeMatchesRules'
<1>1. PICK rules \in SeqsUpTo(PurgeRules, 2), last \in {None, 5, 40} :
        /\ q' = "purge"
        /\ x' = [rules |-> rules,
                 item |-> ExpertItem([added |-> 40, last |-> last, plays |-> 0], None)]
        /\ y' = RequiringSeerr(rules)
  BY Zenon DEF AskPurge
<1> DEFINE item == ExpertItem([added |-> 40, last |-> last, plays |-> 0], None)
<1>2. x'.rules = rules /\ x'.item = item /\ y' = RequiringSeerr(rules)
  BY <1>1
<1>3. Unrequested(item)
  BY DEF Unrequested, ExpertItem
<1>4. \A i \in DOMAIN rules : rules[i] \in PurgeRules
  BY DEF SeqsUpTo
<1>5. ASSUME NEW i \in DOMAIN rules
      PROVE  AllOf(rules[i])
  <2>1. PICK lib \in {None, l1}, libs \in {None, {}, {l2}, {l1, l2}},
             action \in {"queue", "notify_only"},
             conds \in {<<SeerrIn>>, <<NotWatched30>>, <<NotWatched30, SeerrIn>>} :
          rules[i] = Rule(lib, libs, "AND", <<Group("AND", conds)>>, action, 7)
    BY <1>4, SMTT(20) DEF PurgeRules
  <2>2. AllOf(Rule(lib, libs, "AND", <<Group("AND", conds)>>, action, 7))
    BY DEF AllOf, Rule, Group
  <2> QED
    BY <2>1, <2>2
<1> HIDE DEF item
<1>6. \A lib \in y' : ExpertAction(rules, item, lib).action = None
  BY <1>2, <1>3, <1>5, PurgedCannotReturn
<1> QED
  BY <1>2, <1>6 DEF PurgeMatchesRules

(* The answers of AskLibrary: ConditionsKeepTheirMeaning and CopyNarrows. *)
LEMMA AskedLibrary ==
    ASSUME RuleConstants, AskLibrary
    PROVE  RuleMeaning'
<1>1. PICK conds \in SeqsUpTo(LegacyConds, 2), logic \in {"AND", "OR"}, w \in WatchStates,
           filter \in Filters, user \in {None, 1, 2} :
        /\ q' = "library"
        /\ x' = [conds |-> conds, logic |-> logic, w |-> w, filter |-> filter, user |-> user]
        /\ y' = [library |-> EvaluateConditions(conds, logic, w),
                 filter  |-> SeerrFilterPasses(user, filter),
                 copy    |-> RuleHolds(CopiedRule([id |-> l1, enabled |-> TRUE, conds |-> conds,
                                                   logic |-> logic, filter |-> filter]),
                                       ExpertItem(w, user))]
  BY Zenon DEF AskLibrary
<1> DEFINE lib == [id |-> l1, enabled |-> TRUE, conds |-> conds, logic |-> logic, filter |-> filter]
<1>2. /\ x'.conds = conds /\ x'.logic = logic /\ x'.w = w
      /\ y'.library = EvaluateConditions(conds, logic, w)
      /\ y'.filter = SeerrFilterPasses(user, filter)
      /\ y'.copy = RuleHolds(CopiedRule(lib), ExpertItem(w, user))
  BY <1>1
<1>3. IsList(conds) /\ \A i \in DOMAIN conds : conds[i] \in LegacyConds
  <2>1. PICK n \in 0..2 : conds \in [1..n -> LegacyConds]
    BY DEF SeqsUpTo
  <2>2. n \in Nat /\ conds = [i \in 1..n |-> conds[i]]
    BY <2>1
  <2>3. IsList(conds)
    BY <2>2, ListOfAny
  <2> QED
    BY <2>1, <2>3
<1>4. \A i \in DOMAIN conds : ValidField(conds[i]) /\ conds[i].op \notin ListOps
  <2>1. \A cond \in LegacyConds : ValidField(cond) /\ cond.op \notin ListOps
    BY DEF LegacyConds, Cond, ValidField, ListOps
  <2> QED
    BY <1>3, <2>1
<1>5. IsWatch(w) /\ (w.never <=> w.plays = 0)
  BY DEF WatchStates, IsWatch
<1>6. LegacyMeaning'
  <2>1. EvaluateConditions(conds, logic, w) <=>
          IF logic = "OR" THEN \E i \in DOMAIN conds : Says(conds[i], w)
          ELSE conds # <<>> /\ \A i \in DOMAIN conds : Says(conds[i], w)
    BY <1>3, <1>5, ConditionsKeepTheirMeaning
  <2> QED
    BY <1>2, <2>1 DEF LegacyMeaning
<1>7. MigratedNarrows'
  <2> SUFFICES ASSUME logic = "AND", w.added # None, w.never \/ w.last # None, y'.copy
               PROVE  y'.library /\ y'.filter
    BY <1>2 DEF MigratedNarrows
  <2>1. /\ lib.conds = conds /\ lib.logic = "AND" /\ lib.filter = filter
        /\ RuleHolds(CopiedRule(lib), ExpertItem(w, user))
    BY <1>2
  <2> HIDE DEF lib
  <2>2. EvaluateConditions(lib.conds, "AND", w) /\ SeerrFilterPasses(user, lib.filter)
    BY <1>3, <1>4, <1>5, <2>1, CopyNarrows
  <2> QED
    BY <1>2, <2>1, <2>2
<1> QED
  BY <1>6, <1>7 DEF RuleMeaning

(* The answers of AskTarget: DeletionTarget. *)
LEMMA AskedTarget ==
    ASSUME AskTarget
    PROVE  RightArrEntry'
<1>1. PICK multi \in Installations, off \in BOOLEAN, url \in {None, "a", "b"}, path \in Paths :
        LET servers == ArrServers(IF off THEN [i \in DOMAIN multi |->
                                                [multi[i] EXCEPT !.enabled = (i # 1)]]
                                  ELSE multi, Server("c", TRUE, "fa"))
        IN  /\ q' = "target"
            /\ x' = [servers |-> servers, url |-> url, path |-> path]
            /\ y' = DeleteTarget(servers, url, path)
  BY Zenon DEF AskTarget
<1> DEFINE first == [i \in DOMAIN multi |-> [multi[i] EXCEPT !.enabled = (i # 1)]]
           rows == IF off THEN first ELSE multi
           servers == ArrServers(rows, Server("c", TRUE, "fa"))
<1>2. /\ q' = "target" /\ x'.servers = servers /\ x'.url = url /\ x'.path = path
      /\ y' = DeleteTarget(servers, url, path)
  BY <1>1
<1>3. IsList(rows)
  <2>1. IsList(multi)
    BY Installed DEF AreServers
  <2> DEFINE n == Len(multi)
  <2>2. n \in Nat /\ first = [i \in 1..n |-> first[i]]
    BY <2>1, ListBasics
  <2> HIDE DEF first, n
  <2>3. IsList(first)
    BY <2>2, ListOfAny
  <2> QED
    BY <2>1, <2>3
<1> HIDE DEF rows
<1>4. NeverGuess'
  <2> SUFFICES ASSUME y' # None
               PROVE  \E i \in DOMAIN x'.servers : LET s == x'.servers[i] IN
                         /\ s.url = y' /\ Usable(s)
                         /\ \/ y' = x'.url
                            \/ x'.url = None /\ Len(x'.servers) = 1
                            \/ x'.path # None /\ s.up
                               /\ \E j \in DOMAIN s.movies : HasFilm(s.movies[j], x'.path)
    BY DEF NeverGuess
  <2> DEFINE legacy == Server("c", TRUE, "fa")
  <2>1. servers = ArrServers(rows, legacy) /\ DeleteTarget(servers, url, path) # None
    BY <1>2
  <2> HIDE DEF servers, legacy
  <2>2. \E i \in DOMAIN servers :
              /\ servers[i].url = DeleteTarget(servers, url, path) /\ Usable(servers[i])
              /\ \/ servers[i].url = url
                 \/ url = None /\ Len(servers) = 1
                 \/ path # None /\ servers[i].up
                    /\ \E j \in DOMAIN servers[i].movies : HasFilm(servers[i].movies[j], path)
    BY <1>3, <2>1, DeletionTarget
  <2> QED
    BY <1>2, <2>2
<1>5. ArrPairIsReal'
  BY <1>2 DEF ArrPairIsReal
<1> QED
  BY <1>4, <1>5 DEF RightArrEntry

(* What the scan of AskGroups finds. *)
AskedEntry(cache, lates, p) ==
    [path |-> p, series |-> Get(cache, p).series, season |-> Get(cache, p).season,
     url |-> Get(cache, p).url, grace |-> IF p \in lates THEN 9 ELSE 7,
     last |-> IF p \in lates THEN None ELSE 40, plays |-> IF p \in lates THEN 0 ELSE 1]

(* The answers of AskGroups: GroupIsWhole and RowSpeaksForAll. *)
LEMMA AskedGroups ==
    ASSUME RuleConstants, AskGroups
    PROVE  GroupsAreWhole'
<1>1. PICK servers \in Installations, unit \in {"season", "series"} :
        LET cache == SonarrCache(servers)
            files == {cache[i].path : i \in DOMAIN cache}
        IN  \E kept \in SUBSET files, lates \in SUBSET files, queued \in BOOLEAN :
          LET entry(p) == [path |-> p, series |-> Get(cache, p).series,
                           season |-> Get(cache, p).season, url |-> Get(cache, p).url,
                           grace |-> IF p \in lates THEN 9 ELSE 7,
                           last |-> IF p \in lates THEN None ELSE 40,
                           plays |-> IF p \in lates THEN 0 ELSE 1]
              list == SetToSeq(kept)
              eligible == [i \in DOMAIN list |-> entry(list[i])]
          IN  /\ lates \subseteq kept
              /\ x' = [eligible |-> eligible, cache |-> cache, unit |-> unit]
              /\ y' = Consolidate(eligible, cache, unit,
                                  IF queued THEN {<<"series", <<5>>>>} ELSE {})
  BY Zenon DEF AskGroups
<1> DEFINE cache == SonarrCache(servers)
           files == {cache[i].path : i \in DOMAIN cache}
<1>2. PICK kept \in SUBSET files, lates \in SUBSET files, queued \in BOOLEAN :
          LET entry(p) == [path |-> p, series |-> Get(cache, p).series,
                           season |-> Get(cache, p).season, url |-> Get(cache, p).url,
                           grace |-> IF p \in lates THEN 9 ELSE 7,
                           last |-> IF p \in lates THEN None ELSE 40,
                           plays |-> IF p \in lates THEN 0 ELSE 1]
              list == SetToSeq(kept)
              eligible == [i \in DOMAIN list |-> entry(list[i])]
          IN  /\ lates \subseteq kept
              /\ x' = [eligible |-> eligible, cache |-> cache, unit |-> unit]
              /\ y' = Consolidate(eligible, cache, unit,
                                  IF queued THEN {<<"series", <<5>>>>} ELSE {})
  BY <1>1, Zenon
<1> DEFINE list == SetToSeq(kept)
           eligible == [i \in DOMAIN list |-> AskedEntry(cache, lates, list[i])]
           before == IF queued THEN {<<"series", <<5>>>>} ELSE {}
<1>3. /\ x'.eligible = eligible /\ x'.cache = cache /\ x'.unit = unit
      /\ y' = Consolidate(eligible, cache, unit, before)
  BY <1>2 DEF AskedEntry
<1>4. AreServers(servers)
  BY Installed
<1>5. IsList(cache)
  BY <1>4, FileInCache
<1> HIDE DEF before
<1>6. \A e : In(e, cache) => e.entry.season # None
  <2> SUFFICES ASSUME NEW e, In(e, cache) PROVE e.entry.season # None
    OBVIOUS
  <2>1. PICK i \in DOMAIN servers : \E j \in DOMAIN servers[i].series :
                \E k \in DOMAIN servers[i].series[j].files :
                   LET s == servers[i]
                       z == s.series[j]
                       f == z.files[k]
                   IN /\ s.up /\ e.path = f.path
                      /\ e.entry = [id |-> f.id, url |-> s.url, series |-> z.id, season |-> f.season]
    BY <1>4, FileInCache
  <2>2. \E j \in DOMAIN servers[i].series : \E k \in DOMAIN servers[i].series[j].files :
           e.entry.season = servers[i].series[j].files[k].season
    BY <2>1
  <2>3. \E folder : servers[i].series = Shows(folder)
    BY DEF Installations, Server
  <2>4. e.entry.season \in {1, 2}
    BY <2>2, <2>3 DEF Shows
  <2> QED
    BY <2>4 DEF RuleConstants
<1>7. IsFiniteSet(files)
  <2> DEFINE g == [i \in DOMAIN cache |-> cache[i].path]
  <2>1. IsFiniteSet(DOMAIN cache)
    BY <1>5, ListIndices
  <2>2. DOMAIN g = DOMAIN cache /\ g = [i \in DOMAIN cache |-> g[i]]
        /\ files = {g[i] : i \in DOMAIN cache}
    OBVIOUS
  <2> HIDE DEF g, files, cache
  <2> QED
    BY <2>1, <2>2, FiniteImage
<1>8. IsList(list) /\ IsInjective(list) /\ \A i \in DOMAIN list : list[i] \in files
  <2> HIDE DEF files
  <2> DEFINE n == Cardinality(kept)
  <2>1. IsFiniteSet(kept)
    BY <1>7, FS_Subset
  <2>2. n \in Nat /\ ExistsBijection(1..n, kept)
    BY <2>1, FS_CardinalityType
  <2>3. \E g \in [1..n -> kept] : IsInjective(g)
    BY <2>2 DEF ExistsBijection, Bijection, Injection
  <2>4. list \in [1..n -> kept] /\ IsInjective(list)
    BY <2>3 DEF SetToSeq
  <2> HIDE DEF list, n
  <2>5. list = [i \in 1..n |-> list[i]]
    BY <2>4
  <2> QED
    BY <2>2, <2>4, <2>5, ListOfAny
<1> HIDE DEF list
<1>9. IsList(eligible) /\ DOMAIN eligible = DOMAIN list
  <2> DEFINE n == Len(list)
  <2>1. n \in Nat /\ eligible = [i \in 1..n |-> eligible[i]] /\ DOMAIN eligible = DOMAIN list
    BY <1>8, ListBasics
  <2> HIDE DEF eligible, n
  <2> QED
    BY <2>1, ListOfAny
<1>10. \A i \in DOMAIN list : /\ eligible[i].path = list[i]
                              /\ eligible[i].series = Get(cache, list[i]).series
                              /\ eligible[i].season = Get(cache, list[i]).season
                              /\ eligible[i].grace \in Nat /\ eligible[i].plays \in Nat
                              /\ eligible[i].last \in Nat \cup {None}
  <2> HIDE DEF cache
  <2> QED
    BY DEF AskedEntry
<1> HIDE DEF eligible
<1>11. AreEntries(eligible)
  BY <1>9, <1>10 DEF AreEntries
<1>12. ASSUME NEW p \in files PROVE Get(cache, p).season # None
  <2> DEFINE hits == {i \in DOMAIN cache : cache[i].path = p}
             n == Len(cache)
  <2>1. hits \in SUBSET Int /\ n \in Int /\ (\A i \in hits : i <= n) /\ hits # {}
    <3> HIDE DEF cache
    <3> QED
      BY <1>5, ListBasics
  <2>2. Max(hits) \in hits
    <3> HIDE DEF hits, n
    <3> QED
      BY <2>1, GreatestIs
  <2>3. Get(cache, p) = cache[Max(hits)].entry
    BY <2>1 DEF Get
  <2>4. In(cache[Max(hits)], cache)
    BY <2>2 DEF In
  <2> QED
    BY <1>6, <2>3, <2>4
<1>13. \A i, j \in DOMAIN eligible : eligible[i].path = eligible[j].path => i = j
  BY <1>8, <1>9, <1>10 DEF IsInjective
<1>14. \A i \in DOMAIN eligible : FromCache(eligible[i], cache) /\ eligible[i].season # None
  BY <1>8, <1>9, <1>10, <1>12 DEF FromCache
<1> HIDE DEF cache
<1>15. GroupIsComplete'
  <2> SUFFICES ASSUME NEW r \in y', NEW p \in files, <<unit, GroupKey(Get(cache, p), unit)>> = r.id
               PROVE  p \in {eligible[i].path : i \in DOMAIN eligible}
    BY <1>3 DEF GroupIsComplete
  <2>1. r \in Consolidate(eligible, cache, unit, before) /\ Get(cache, p).season # None
    BY <1>3, <1>12
  <2> QED
    BY <1>5, <1>9, <1>13, <1>14, <2>1, GroupIsWhole
<1>16. GroupSpeaksForAll'
  <2> SUFFICES ASSUME NEW r \in y', NEW i \in DOMAIN eligible,
                      <<unit, GroupKey(eligible[i], unit)>> = r.id
               PROVE  /\ r.grace >= eligible[i].grace /\ r.plays >= eligible[i].plays
                      /\ eligible[i].last # None => r.last # None /\ r.last <= eligible[i].last
    BY <1>3 DEF GroupSpeaksForAll
  <2>1. r \in Consolidate(eligible, cache, unit, before)
    BY <1>3
  <2> QED
    BY <1>11, <2>1, RowSpeaksForAll
<1> QED
  BY <1>15, <1>16 DEF GroupsAreWhole

(* Each action asks about one thing. *)
LEMMA WhichQuestion ==
    /\ AskLibrary => q' = "library"
    /\ AskScan => q' = "scan"
    /\ AskTarget => q' = "target"
    /\ AskPurge => q' = "purge"
    /\ AskGroups => q' = "groups"
    /\ AskPlex => q' = "plex"
    /\ Forget => q' = "none"
<1>1. AskLibrary => q' = "library"
  BY DEF AskLibrary
<1>2. AskScan => q' = "scan"
  BY DEF AskScan
<1>3. AskTarget => q' = "target"
  BY DEF AskTarget
<1>4. AskPurge => q' = "purge"
  BY DEF AskPurge
<1>5. AskGroups => q' = "groups"
  BY DEF AskGroups
<1>6. AskPlex => q' = "plex"
  BY DEF AskPlex
<1>7. Forget => q' = "none"
  BY DEF Forget
<1> QED
  BY <1>1, <1>2, <1>3, <1>4, <1>5, <1>6, <1>7

(* A question about one thing says nothing about another. *)
LEMMA AboutElse ==
    /\ q' # "library" => RuleMeaning'
    /\ q' \notin {"scan", "plex"} => QueuedWithReason'
    /\ q' \notin {"scan", "target"} => RightArrEntry'
    /\ q' # "purge" => PurgeMatchesRules'
    /\ q' # "groups" => GroupsAreWhole'
  BY DEF RuleMeaning, LegacyMeaning, MigratedNarrows,
         QueuedWithReason, RecentPlayIsKept, IgnoredStaysOut, MirrorsPendingOnly,
         RightArrEntry, ArrPairIsReal, NeverGuess, PurgeMatchesRules,
         GroupsAreWhole, GroupIsComplete, GroupSpeaksForAll

(* What every step establishes, whatever question it asks. *)
LEMMA StepAnswers ==
    ASSUME RuleConstants, RulesNext
    PROVE  RuleMeaning' /\ QueuedWithReason' /\ RightArrEntry' /\ PurgeMatchesRules'
           /\ GroupsAreWhole'
<1>1. CASE AskLibrary
  BY <1>1, AskedLibrary, WhichQuestion, AboutElse
<1>2. CASE AskScan
  BY <1>2, AskedScan, WhichQuestion, AboutElse
<1>3. CASE AskTarget
  BY <1>3, AskedTarget, WhichQuestion, AboutElse
<1>4. CASE AskPurge
  BY <1>4, AskedPurge, WhichQuestion, AboutElse
<1>5. CASE AskGroups
  BY <1>5, AskedGroups, WhichQuestion, AboutElse
<1>6. CASE AskPlex
  BY <1>6, AskedPlex, WhichQuestion, AboutElse
<1>7. CASE Forget
  BY <1>7, WhichQuestion, AboutElse
<1> QED
  BY <1>1, <1>2, <1>3, <1>4, <1>5, <1>6, <1>7 DEF RulesNext

(* Before the first question there is nothing to answer. *)
LEMMA NothingAsked ==
    ASSUME RulesInit
    PROVE  RuleMeaning /\ QueuedWithReason /\ RightArrEntry /\ PurgeMatchesRules
           /\ GroupsAreWhole
  BY DEF RulesInit, RuleMeaning, LegacyMeaning, MigratedNarrows,
         QueuedWithReason, RecentPlayIsKept, IgnoredStaysOut, MirrorsPendingOnly,
         RightArrEntry, ArrPairIsReal, NeverGuess, PurgeMatchesRules,
         GroupsAreWhole, GroupIsComplete, GroupSpeaksForAll

(* The conditions of a library mean the same to the rule engine and, where
   they are joined by AND and the dates are known, to their copy: an instance
   of ConditionsKeepTheirMeaning and CopyNarrows. *)
THEOREM MeaningIsKept == RuleConstants /\ RulesSpec => []RuleMeaning
<1>1. ASSUME RuleConstants PROVE RulesSpec => []RuleMeaning
  <2>1. RulesInit => RuleMeaning
    BY NothingAsked
  <2>2. RuleMeaning /\ [RulesNext]_<<q, x, y>> => RuleMeaning'
    <3>1. ASSUME RuleMeaning, UNCHANGED <<q, x, y>> PROVE RuleMeaning'
      BY <3>1 DEF RuleMeaning, LegacyMeaning, MigratedNarrows
    <3> QED
      BY <1>1, <3>1, StepAnswers
  <2> QED
    BY <2>1, <2>2, PTL DEF RulesSpec
<1> QED
  BY <1>1

(* The scan and the Plex mirror queue nothing without the reason the user has
   given: an instance of RecentPlayKeepsOut, NotAgain and PlexFollowsOthers. *)
THEOREM NothingWithoutReason == RuleConstants /\ RulesSpec => []QueuedWithReason
<1>1. ASSUME RuleConstants PROVE RulesSpec => []QueuedWithReason
  <2>1. RulesInit => QueuedWithReason
    BY NothingAsked
  <2>2. QueuedWithReason /\ [RulesNext]_<<q, x, y>> => QueuedWithReason'
    <3>1. ASSUME QueuedWithReason, UNCHANGED <<q, x, y>> PROVE QueuedWithReason'
      BY <3>1 DEF QueuedWithReason, RecentPlayIsKept, IgnoredStaysOut, MirrorsPendingOnly,
                  PlayDates
    <3> QED
      BY <1>1, <3>1, StepAnswers
  <2> QED
    BY <2>1, <2>2, PTL DEF RulesSpec
<1> QED
  BY <1>1

(* A row names the entry of the very file, and its deletion goes to a server
   in use that the row names or that has the film: an instance of
   EntryNamesTheFile and DeletionTarget. *)
THEOREM EntryIsRight == RuleConstants /\ RulesSpec => []RightArrEntry
<1>1. ASSUME RuleConstants PROVE RulesSpec => []RightArrEntry
  <2>1. RulesInit => RightArrEntry
    BY NothingAsked
  <2>2. RightArrEntry /\ [RulesNext]_<<q, x, y>> => RightArrEntry'
    <3>1. ASSUME RightArrEntry, UNCHANGED <<q, x, y>> PROVE RightArrEntry'
      BY <3>1 DEF RightArrEntry, ArrPairIsReal, NeverGuess
    <3> QED
      BY <1>1, <3>1, StepAnswers
  <2> QED
    BY <2>1, <2>2, PTL DEF RulesSpec
<1> QED
  BY <1>1

(* The purge and the expert rules agree on which libraries need a requester:
   an instance of PurgedCannotReturn. *)
THEOREM PurgeAgreesWithRules == RulesSpec => []PurgeMatchesRules
<1>1. RulesInit => PurgeMatchesRules
  BY NothingAsked
<1>2. PurgeMatchesRules /\ [RulesNext]_<<q, x, y>> => PurgeMatchesRules'
  <2>1. ASSUME PurgeMatchesRules, UNCHANGED <<q, x, y>> PROVE PurgeMatchesRules'
    BY <2>1 DEF PurgeMatchesRules
  <2>2. ASSUME RulesNext PROVE AskPurge \/ q' # "purge"
    BY <2>2, WhichQuestion DEF RulesNext
  <2> QED
    BY <2>1, <2>2, AskedPurge, AboutElse
<1> QED
  BY <1>1, <1>2, PTL DEF RulesSpec

(* A season or a series enters the queue as a whole, and its row stands for
   the last deletion and for all the plays of its episodes: an instance of
   GroupIsWhole and RowSpeaksForAll. *)
THEOREM GroupsStayWhole == RuleConstants /\ RulesSpec => []GroupsAreWhole
<1>1. ASSUME RuleConstants PROVE RulesSpec => []GroupsAreWhole
  <2>1. RulesInit => GroupsAreWhole
    BY NothingAsked
  <2>2. GroupsAreWhole /\ [RulesNext]_<<q, x, y>> => GroupsAreWhole'
    <3>1. ASSUME GroupsAreWhole, UNCHANGED <<q, x, y>> PROVE GroupsAreWhole'
      BY <3>1 DEF GroupsAreWhole, GroupIsComplete, GroupSpeaksForAll
    <3> QED
      BY <1>1, <3>1, StepAnswers
  <2> QED
    BY <2>1, <2>2, PTL DEF RulesSpec
<1> QED
  BY <1>1
=============================================================================
