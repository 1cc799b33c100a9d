-------------------------- MODULE CsvLogOrderProofs --------------------------
(***************************************************************************)
(* Proofs about the CSV logging service: which logs are where, in what     *)
(* order, and how many of them a kill can take.                            *)
(***************************************************************************)
EXTENDS CsvLogProofs

-----------------------------------------------------------------------------
(***************************************************************************)
(* What Picked returns.  Its recursive function is one that meets Picks,   *)
(* and a statement about all its values is proved by the least value for   *)
(* which it fails.                                                         *)
(***************************************************************************)
Picks(f, s, D, N) ==
  f = [ i \in 0 .. N |-> IF i = 0 THEN << >>
                         ELSE IF i \in D THEN Append(f[i - 1], s[i].id) ELSE f[i - 1] ]

LEMMA PicksFacts ==
  ASSUME NEW f, NEW s, NEW D, NEW N \in Nat, Picks(f, s, D, N)
  PROVE  /\ f[0] = << >>
         /\ \A i \in 1 .. N : f[i] = IF i \in D THEN Append(f[i - 1], s[i].id) ELSE f[i - 1]
<1>1. f[0] = << >>
  BY DEF Picks
<1>2. ASSUME NEW i \in 1 .. N
      PROVE  f[i] = IF i \in D THEN Append(f[i - 1], s[i].id) ELSE f[i - 1]
  <2>1. i \in 0 .. N /\ i # 0
    OBVIOUS
  <2>2. QED
    BY <2>1 DEF Picks
<1>3. QED
  BY <1>1, <1>2

LEMMA PicksExist ==
  ASSUME NEW s, NEW D, NEW N \in Nat
  PROVE  \E f : Picks(f, s, D, N)
<1> DEFINE Bad == { n \in Nat : ~ \E f : Picks(f, s, D, n) }
<1> SUFFICES ASSUME Bad # {} PROVE FALSE
  OBVIOUS
<1>1. PICK n \in Bad : \A m \in Bad : n <= m
  <2>1. Bad \in SUBSET Nat
    OBVIOUS
  <2> HIDE DEF Bad
  <2>2. QED
    BY <2>1, LeastElement
<1>2. n # 0
  <2>1. Picks([i \in 0 .. 0 |-> << >>], s, D, 0)
    BY DEF Picks
  <2>2. QED
    BY <2>1
<1>3. PICK g : Picks(g, s, D, n - 1)
  BY <1>1, <1>2
<1> DEFINE h == [ i \in 0 .. n |-> IF i = n THEN IF n \in D THEN Append(g[n - 1], s[n].id) ELSE g[n - 1]
                                   ELSE g[i] ]
<1>4. Picks(h, s, D, n)
  <2>1. ASSUME NEW i \in 0 .. n
        PROVE  h[i] = IF i = 0 THEN << >>
                      ELSE IF i \in D THEN Append(h[i - 1], s[i].id) ELSE h[i - 1]
    <3>1. CASE i = n
      BY <1>2, <3>1
    <3>2. CASE i # n
      <4>1. i \in 0 .. n - 1 /\ h[i] = g[i] /\ (i # 0 => h[i - 1] = g[i - 1])
        BY <3>2
      <4>2. g[i] = IF i = 0 THEN << >>
                   ELSE IF i \in D THEN Append(g[i - 1], s[i].id) ELSE g[i - 1]
        BY <4>1, <1>3 DEF Picks
      <4> HIDE DEF h
      <4>3. QED
        BY <4>1, <4>2
    <3>3. QED
      BY <3>1, <3>2
  <2>2. h = [i \in 0 .. n |-> h[i]]
    OBVIOUS
  <2> HIDE DEF h
  <2>3. QED
    BY <2>1, <2>2 DEF Picks
<1>5. QED
  BY <1>4

(***************************************************************************)
(* Two such functions agree as far as their sequences and places do.       *)
(***************************************************************************)
SamePicks(s, D, t, E, K) == \A i \in 1 .. K : (i \in D <=> i \in E) /\ s[i].id = t[i].id

LEMMA PicksAgree ==
  ASSUME NEW s, NEW D, NEW N \in Nat, NEW f, Picks(f, s, D, N),
         NEW t, NEW E, NEW M \in Nat, NEW g, Picks(g, t, E, M),
         NEW K \in Nat, K <= N, K <= M, SamePicks(s, D, t, E, K)
  PROVE  f[K] = g[K]
<1> USE DEF SamePicks
<1> DEFINE Bad == { k \in 0 .. K : f[k] # g[k] }
<1>1. ASSUME Bad # {}
      PROVE  FALSE
  <2>1. PICK n \in Bad : \A m \in Bad : n <= m
    <3>1. Bad \in SUBSET Nat
      OBVIOUS
    <3> HIDE DEF Bad
    <3>2. QED
      BY <1>1, <3>1, LeastElement
  <2>2. n \in 0 .. K /\ f[n] # g[n]
    OBVIOUS
  <2>3. n # 0
    BY <2>2, PicksFacts
  <2>4. f[n - 1] = g[n - 1]
    BY <2>1, <2>2, <2>3
  <2>5. /\ f[n] = IF n \in D THEN Append(f[n - 1], s[n].id) ELSE f[n - 1]
        /\ g[n] = IF n \in E THEN Append(g[n - 1], t[n].id) ELSE g[n - 1]
    BY <2>2, <2>3, PicksFacts
  <2>6. QED
    BY <2>2, <2>3, <2>4, <2>5
<1>2. QED
  BY <1>1

LEMMA PickedIs ==
  ASSUME NEW s, NEW D, Len(s) \in Nat, NEW f, Picks(f, s, D, Len(s))
  PROVE  Picked(s, D) = f[Len(s)]
<1> DEFINE g == CHOOSE h : Picks(h, s, D, Len(s))
<1>1. Picked(s, D) = g[Len(s)]
  BY Zenon DEF Picked, Picks
<1>2. Picks(g, s, D, Len(s))
  BY PicksExist, Zenon
<1> HIDE DEF g
<1>3. g[Len(s)] = f[Len(s)]
  <2>1. Len(s) <= Len(s) /\ SamePicks(s, D, s, D, Len(s))
    BY DEF SamePicks
  <2>2. QED
    BY <1>2, <2>1, PicksAgree, SMTT(20)
<1>4. QED
  BY <1>1, <1>3

LEMMA PickedSame ==
  ASSUME NEW s, NEW D, NEW E, Len(s) \in Nat, \A i \in 1 .. Len(s) : i \in D <=> i \in E
  PROVE  Picked(s, D) = Picked(s, E)
<1>1. PICK f : Picks(f, s, D, Len(s))
  BY PicksExist
<1>2. PICK g : Picks(g, s, E, Len(s))
  BY PicksExist
<1>3. f[Len(s)] = g[Len(s)]
  <2>1. Len(s) <= Len(s) /\ SamePicks(s, D, s, E, Len(s))
    BY DEF SamePicks
  <2> DEFINE n == Len(s)
  <2>2. n \in Nat /\ n <= n /\ Picks(f, s, D, n) /\ Picks(g, s, E, n) /\ SamePicks(s, D, s, E, n)
    BY <1>1, <1>2, <2>1
  <2> HIDE DEF n
  <2>3. f[n] = g[n]
    BY <2>2, PicksAgree
  <2>4. QED
    BY <2>3 DEF n
<1>4. QED
  BY <1>1, <1>2, <1>3, PickedIs

(***************************************************************************)
(* The values are sequences of identities.                                 *)
(***************************************************************************)
HasIds(s, D, X) == Len(s) \in Nat /\ \A i \in 1 .. Len(s) : i \in D => s[i].id \in X

LEMMA PicksType ==
  ASSUME NEW s, NEW D, NEW X, HasIds(s, D, X), NEW f, Picks(f, s, D, Len(s)), NEW k \in 0 .. Len(s)
  PROVE  f[k] \in Seq(X)
<1> DEFINE N == Len(s)
           Bad == { n \in 0 .. N : f[n] \notin Seq(X) }
<1>1. N \in Nat /\ \A i \in 1 .. N : i \in D => s[i].id \in X
  BY DEF HasIds
<1>2. ASSUME Bad # {}
      PROVE  FALSE
  <2>1. PICK n \in Bad : \A m \in Bad : n <= m
    <3>1. Bad \in SUBSET Nat
      BY <1>1
    <3> HIDE DEF Bad
    <3>2. QED
      BY <1>2, <3>1, LeastElement
  <2>2. n \in 0 .. N /\ f[n] \notin Seq(X)
    OBVIOUS
  <2> HIDE DEF N
  <2>3. << >> \in Seq(X)
    OBVIOUS
  <2>4. /\ f[0] = << >>
        /\ \A i \in 1 .. N : f[i] = IF i \in D THEN Append(f[i - 1], s[i].id) ELSE f[i - 1]
    BY <1>1, PicksFacts DEF N
  <2>5. n # 0 /\ n \in 1 .. N /\ n - 1 \in 0 .. N
    <3>1. n # 0
      BY <2>2, <2>3, <2>4
    <3>2. QED
      BY <1>1, <2>2, <3>1
  <2>6. f[n - 1] \in Seq(X)
    <3>1. ~ (n <= n - 1)
      BY <2>5
    <3>2. n - 1 \notin Bad
      BY <2>1, <3>1
    <3>3. QED
      BY <2>5, <3>2 DEF N
  <2>7. f[n] = IF n \in D THEN Append(f[n - 1], s[n].id) ELSE f[n - 1]
    BY <2>4, <2>5
  <2>8. n \in D => s[n].id \in X
    BY <1>1, <2>5
  <2>9. QED
    BY <2>2, <2>6, <2>7, <2>8
<1>3. k \notin Bad
  BY <1>2
<1>4. QED
  BY <1>3

LEMMA PickedType ==
  ASSUME NEW s, NEW D, NEW X, HasIds(s, D, X)
  PROVE  Picked(s, D) \in Seq(X)
<1>1. Len(s) \in Nat /\ Len(s) \in 0 .. Len(s)
  BY DEF HasIds
<1>2. PICK f : Picks(f, s, D, Len(s))
  BY <1>1, PicksExist
<1>3. f[Len(s)] \in Seq(X)
  BY <1>1, <1>2, PicksType, Zenon
<1>4. QED
  BY <1>1, <1>2, <1>3, PickedIs

(***************************************************************************)
(* Picked of a concatenation.                                              *)
(***************************************************************************)
LEMMA AppendFacts ==
  ASSUME NEW X, NEW s \in Seq(X), NEW x
  PROVE  LET t == Append(s, x)
         IN  /\ DOMAIN t = 1 .. Len(s) + 1 /\ t[Len(s) + 1] = x
             /\ \A k \in 1 .. Len(s) : t[k] = s[k]
             /\ t = [k \in 1 .. Len(s) + 1 |-> t[k]]
<1> DEFINE t == Append(s, x)
           Y == X \union {x}
<1>1. Len(s) \in Nat /\ x \in Y
  OBVIOUS
<1>2. s \in Seq(Y)
  OBVIOUS
<1> HIDE DEF Y
<1>3. /\ t \in Seq(Y) /\ Len(t) = Len(s) + 1 /\ t[Len(s) + 1] = x
      /\ \A k \in 1 .. Len(s) : t[k] = s[k]
  BY <1>1, <1>2, AppendProperties
<1> HIDE DEF t
<1>4. DOMAIN t = 1 .. Len(s) + 1 /\ t = [k \in 1 .. Len(s) + 1 |-> t[k]]
  BY <1>1, <1>3
<1>5. QED
  BY <1>3, <1>4 DEF t

LEMMA AppendConcat ==
  ASSUME NEW X, NEW a \in Seq(X), NEW b \in Seq(X), NEW x \in X
  PROVE  a \o Append(b, x) = Append(a \o b, x)
<1>1. Append(b, x) = b \o << x >> /\ Append(a \o b, x) = (a \o b) \o << x >>
  OBVIOUS
<1>2. << x >> \in Seq(X)
  OBVIOUS
<1>3. (a \o b) \o << x >> = a \o (b \o << x >>)
  BY <1>2, ConcatAssociative
<1>4. QED
  BY <1>1, <1>3

LEMMA PickedConcat ==
  ASSUME NEW R, NEW s \in Seq(R), NEW t \in Seq(R), NEW D, NEW X,
         HasIds(s, 1 .. Len(s), X), HasIds(t, 1 .. Len(t), X)
  PROVE  Picked(s \o t, D) = Picked(s, D) \o Picked(t, { i \in 1 .. Len(t) : Len(s) + i \in D })
<1> DEFINE N == Len(s)
           M == Len(t)
           u == s \o t
           E == { i \in 1 .. M : N + i \in D }
<1>1. N \in Nat /\ M \in Nat /\ Len(u) = N + M /\ Len(u) \in Nat
  OBVIOUS
<1>2. /\ \A i \in 1 .. N : u[i] = s[i]
      /\ \A i \in 1 .. M : u[N + i] = t[i]
  OBVIOUS
<1>3. PICK f : Picks(f, s, D, N)
  BY <1>1, PicksExist
<1>4. PICK g : Picks(g, t, E, M)
  BY <1>1, PicksExist
<1>5. PICK h : Picks(h, u, D, Len(u))
  BY <1>1, PicksExist
<1>6. Picked(s, D) = f[N] /\ Picked(t, E) = g[M] /\ Picked(u, D) = h[Len(u)]
  BY <1>1, <1>3, <1>4, <1>5, PickedIs
<1>7. f[N] \in Seq(X) /\ \A k \in 0 .. M : g[k] \in Seq(X)
  <2>1. N \in 0 .. N
    BY <1>1
  <2>2. HasIds(s, D, X)
    BY DEF HasIds
  <2>3. HasIds(t, E, X)
    BY DEF HasIds
  <2>4. f[N] \in Seq(X)
    BY <1>3, <2>1, <2>2, PicksType, Zenon
  <2> HIDE DEF E
  <2>5. ASSUME NEW k \in 0 .. M
        PROVE  g[k] \in Seq(X)
    BY <1>4, <2>5, <2>3, PicksType, Zenon
  <2>6. QED
    BY <2>4, <2>5
<1>8. h[N] = f[N]
  <2>1. SamePicks(s, D, u, D, N)
    BY <1>2 DEF SamePicks
  <2>2. N <= Len(u) /\ N <= N
    BY <1>1
  <2> DEFINE L == Len(u)
  <2>3. L \in Nat /\ N <= L /\ Picks(h, u, D, L)
    BY <1>1, <1>5, <2>2
  <2> HIDE DEF N, M, u, L
  <2>4. f[N] = h[N]
    BY <1>1, <1>3, <2>1, <2>2, <2>3, PicksAgree
  <2>5. QED
    BY <2>4
<1>9. /\ g[0] = << >>
      /\ \A i \in 1 .. M : g[i] = IF i \in E THEN Append(g[i - 1], t[i].id) ELSE g[i - 1]
  BY <1>1, <1>4, PicksFacts
<1>10. ASSUME NEW i \in 1 .. M
       PROVE  h[N + i] = IF i \in E THEN Append(h[N + i - 1], t[i].id) ELSE h[N + i - 1]
  <2> HIDE DEF u
  <2>1. N + i \in 1 .. Len(u)
    BY <1>1
  <2>2. h[N + i] = IF N + i \in D THEN Append(h[N + i - 1], u[N + i].id) ELSE h[N + i - 1]
    BY <1>1, <1>5, <2>1, PicksFacts
  <2>3. i \in E <=> N + i \in D
    OBVIOUS
  <2> HIDE DEF E, N, M
  <2>4. QED
    BY <1>2, <2>2, <2>3
<1> DEFINE Bad == { k \in 0 .. M : h[N + k] # f[N] \o g[k] }
<1>11. ASSUME Bad # {}
       PROVE  FALSE
  <2>1. PICK n \in Bad : \A m \in Bad : n <= m
    <3>1. Bad \in SUBSET Nat
      <4>1. 0 .. M \subseteq Nat
        BY <1>1
      <4> HIDE DEF M, u
      <4>2. QED
        BY <4>1
    <3> HIDE DEF Bad
    <3>2. QED
      BY <1>11, <3>1, LeastElement
  <2>2. n \in 0 .. M /\ h[N + n] # f[N] \o g[n]
    OBVIOUS
  <2> HIDE DEF N, M, E, u
  <2>3. n # 0
    <3> SUFFICES ASSUME n = 0
                 PROVE  FALSE
      OBVIOUS
    <3>1. N + n = N /\ g[n] = << >>
      BY <1>1, <1>9
    <3>2. f[N] \o << >> = f[N]
      BY <1>7
    <3>3. QED
      BY <1>8, <2>2, <3>1, <3>2
  <2>4. n \in 1 .. M /\ n - 1 \in 0 .. M /\ N + n - 1 = N + (n - 1)
    BY <1>1, <2>2, <2>3
  <2>5. h[N + n - 1] = f[N] \o g[n - 1]
    <3>1. ~ (n <= n - 1)
      BY <2>4
    <3>2. n - 1 \notin Bad
      BY <2>1, <3>1
    <3>3. QED
      BY <2>4, <3>2
  <2>6. t[n].id \in X
    BY <2>4 DEF HasIds, M
  <2>7. /\ h[N + n] = IF n \in E THEN Append(h[N + n - 1], t[n].id) ELSE h[N + n - 1]
        /\ g[n] = IF n \in E THEN Append(g[n - 1], t[n].id) ELSE g[n - 1]
    BY <1>9, <1>10, <2>4
  <2>8. g[n - 1] \in Seq(X) /\ f[N] \in Seq(X)
    BY <1>7, <2>4
  <2>9. f[N] \o Append(g[n - 1], t[n].id) = Append(f[N] \o g[n - 1], t[n].id)
    <3> DEFINE a == f[N]
               b == g[n - 1]
               x == t[n].id
    <3>1. a \in Seq(X) /\ b \in Seq(X) /\ x \in X
      BY <2>6, <2>8
    <3> HIDE DEF a, b, x
    <3>2. a \o Append(b, x) = Append(a \o b, x)
      BY <3>1, AppendConcat
    <3>3. QED
      BY <3>2 DEF a, b, x
  <2>10. QED
    BY <2>2, <2>5, <2>7, <2>9
<1>12. h[N + M] = f[N] \o g[M]
  <2>1. M \in 0 .. M
    BY <1>1
  <2>2. M \notin Bad
    <3> HIDE DEF Bad
    <3>1. QED
      BY <1>11
  <2> HIDE DEF M, u
  <2>3. QED
    BY <2>1, <2>2
<1>13. QED
  BY <1>1, <1>6, <1>12

-----------------------------------------------------------------------------
(***************************************************************************)
(* Ids and LineIds of sequences put together, of one element and of none.  *)
(***************************************************************************)
LEMMA PickedNone ==
  ASSUME NEW D
  PROVE  Picked(<< >>, D) = << >>
<1>1. Len(<< >>) = 0 /\ HasIds(<< >>, D, {})
  BY DEF HasIds
<1>2. Picked(<< >>, D) \in Seq({})
  BY <1>1, PickedType
<1>3. QED
  BY <1>2

LEMMA PickedOne ==
  ASSUME NEW x, NEW D
  PROVE  Picked(<< x >>, D) = IF 1 \in D THEN << x.id >> ELSE << >>
<1> DEFINE s == << x >>
<1>1. Len(s) = 1 /\ Len(s) \in Nat /\ s[1] = x /\ 1 \in 1 .. Len(s)
  OBVIOUS
<1>2. PICK f : Picks(f, s, D, Len(s))
  BY <1>1, PicksExist
<1> HIDE DEF s
<1>3. f[0] = << >> /\ f[1] = IF 1 \in D THEN Append(f[1 - 1], s[1].id) ELSE f[1 - 1]
  BY <1>1, <1>2, PicksFacts
<1>4. Picked(s, D) = f[1]
  BY <1>1, <1>2, PickedIs
<1>5. 1 - 1 = 0 /\ Append(<< >>, x.id) = << x.id >>
  OBVIOUS
<1>6. QED
  BY <1>1, <1>3, <1>4, <1>5 DEF s

LEMMA IdsConcat ==
  ASSUME NEW n, NEW s \in Seq(Log), NEW t \in Seq(Log)
  PROVE  Ids(s \o t, n) = Ids(s, n) \o Ids(t, n) /\ Ids(s, n) \in Seq(Nat)
<1> DEFINE D(v) == { i \in DOMAIN v : v[i].name = n /\ ~v[i].roll }
<1>1. ASSUME NEW v \in Seq(Log)
      PROVE  Len(v) \in Nat /\ DOMAIN v = 1 .. Len(v) /\ \A i \in 1 .. Len(v) : v[i] \in Log
  OBVIOUS
<1>2. ASSUME NEW v \in Seq(Log), NEW E
      PROVE  HasIds(v, E, Nat)
  BY <1>1 DEF HasIds, Log
<1>3. Picked(s \o t, D(s \o t))
        = Picked(s, D(s \o t)) \o Picked(t, { i \in 1 .. Len(t) : Len(s) + i \in D(s \o t) })
  <2> DEFINE E == D(s \o t)
  <2>1. HasIds(s, 1 .. Len(s), Nat) /\ HasIds(t, 1 .. Len(t), Nat)
    BY <1>2
  <2> HIDE DEF D, E
  <2>2. Picked(s \o t, E) = Picked(s, E) \o Picked(t, { i \in 1 .. Len(t) : Len(s) + i \in E })
    BY <2>1, PickedConcat
  <2>3. QED
    BY <2>2 DEF E
<1>4. Picked(s, D(s \o t)) = Picked(s, D(s))
  <2>1. \A i \in 1 .. Len(s) : i \in D(s \o t) <=> i \in D(s)
    BY <1>1
  <2>2. Len(s) \in Nat
    OBVIOUS
  <2> HIDE DEF D
  <2>3. QED
    BY <2>1, <2>2, PickedSame
<1>5. Picked(t, { i \in 1 .. Len(t) : Len(s) + i \in D(s \o t) }) = Picked(t, D(t))
  <2> DEFINE E == { i \in 1 .. Len(t) : Len(s) + i \in D(s \o t) }
  <2>1. ASSUME NEW i \in 1 .. Len(t)
        PROVE  i \in E <=> i \in D(t)
    <3>1. /\ Len(s) + i \in DOMAIN (s \o t) /\ (s \o t)[Len(s) + i] = t[i]
          /\ i \in DOMAIN t
      BY <1>1
    <3>2. QED
      BY <3>1
  <2>2. Len(t) \in Nat
    OBVIOUS
  <2> HIDE DEF E, D
  <2>3. Picked(t, E) = Picked(t, D(t))
    BY <2>1, <2>2, PickedSame
  <2>4. QED
    BY <2>3 DEF E
<1>6. Picked(s, D(s)) \in Seq(Nat)
  <2> HIDE DEF D
  <2>1. QED
    BY <1>2, PickedType
<1>7. QED
  BY <1>3, <1>4, <1>5, <1>6 DEF Ids

LEMMA IdsSmall ==
  ASSUME NEW n, NEW x
  PROVE  /\ Ids(<< >>, n) = << >>
         /\ Ids(<< x >>, n) = IF x.name = n /\ ~x.roll THEN << x.id >> ELSE << >>
<1> DEFINE D == { i \in DOMAIN << x >> : << x >>[i].name = n /\ ~ << x >>[i].roll }
<1>1. 1 \in D <=> x.name = n /\ ~x.roll
  OBVIOUS
<1>2. Picked(<< x >>, D) = IF 1 \in D THEN << x.id >> ELSE << >>
  BY PickedOne
<1>3. QED
  BY <1>1, <1>2, PickedNone DEF Ids

LEMMA IdsMember ==
  ASSUME NEW n, NEW s \in Seq(Log), NEW k \in DOMAIN Ids(s, n)
  PROVE  \E i \in DOMAIN s : s[i].id = Ids(s, n)[k] /\ s[i].name = n /\ ~s[i].roll
<1> DEFINE D == { i \in DOMAIN s : s[i].name = n /\ ~s[i].roll }
           X == { s[i].id : i \in D }
<1>1. HasIds(s, D, X)
  BY DEF HasIds
<1>2. Picked(s, D) \in Seq(X)
  BY <1>1, PickedType
<1>3. Ids(s, n) \in Seq(X)
  BY <1>2 DEF Ids
<1>4. Ids(s, n)[k] \in X
  <2> HIDE DEF X
  <2>1. QED
    BY <1>3
<1>5. QED
  BY <1>4

LEMMA LineIdsConcat ==
  ASSUME NEW s \in Seq(Line), NEW t \in Seq(Line)
  PROVE  LineIds(s \o t) = LineIds(s) \o LineIds(t) /\ LineIds(s) \in Seq(Nat)
<1> DEFINE D(v) == { i \in DOMAIN v : v[i].id # HeaderId }
<1>1. ASSUME NEW v \in Seq(Line)
      PROVE  Len(v) \in Nat /\ DOMAIN v = 1 .. Len(v) /\ \A i \in 1 .. Len(v) : v[i] \in Line
  OBVIOUS
<1>2. ASSUME NEW v \in Seq(Line), NEW E
      PROVE  HasIds(v, E, Nat)
  BY <1>1 DEF HasIds, Line
<1>3. Picked(s \o t, D(s \o t))
        = Picked(s, D(s \o t)) \o Picked(t, { i \in 1 .. Len(t) : Len(s) + i \in D(s \o t) })
  <2> DEFINE E == D(s \o t)
  <2>1. HasIds(s, 1 .. Len(s), Nat) /\ HasIds(t, 1 .. Len(t), Nat)
    BY <1>2
  <2> HIDE DEF D, E
  <2>2. Picked(s \o t, E) = Picked(s, E) \o Picked(t, { i \in 1 .. Len(t) : Len(s) + i \in E })
    BY <2>1, PickedConcat
  <2>3. QED
    BY <2>2 DEF E
<1>4. Picked(s, D(s \o t)) = Picked(s, D(s))
  <2>1. \A i \in 1 .. Len(s) : i \in D(s \o t) <=> i \in D(s)
    BY <1>1
  <2>2. Len(s) \in Nat
    OBVIOUS
  <2> HIDE DEF D
  <2>3. QED
    BY <2>1, <2>2, PickedSame
<1>5. Picked(t, { i \in 1 .. Len(t) : Len(s) + i \in D(s \o t) }) = Picked(t, D(t))
  <2> DEFINE E == { i \in 1 .. Len(t) : Len(s) + i \in D(s \o t) }
  <2>1. ASSUME NEW i \in 1 .. Len(t)
        PROVE  i \in E <=> i \in D(t)
    <3>1. /\ Len(s) + i \in DOMAIN (s \o t) /\ (s \o t)[Len(s) + i] = t[i]
          /\ i \in DOMAIN t
      BY <1>1
    <3>2. QED
      BY <3>1
  <2>2. Len(t) \in Nat
    OBVIOUS
  <2> HIDE DEF E, D
  <2>3. Picked(t, E) = Picked(t, D(t))
    BY <2>1, <2>2, PickedSame
  <2>4. QED
    BY <2>3 DEF E
<1>6. Picked(s, D(s)) \in Seq(Nat)
  <2> HIDE DEF D
  <2>1. QED
    BY <1>2, PickedType
<1>7. QED
  BY <1>3, <1>4, <1>5, <1>6 DEF LineIds

LEMMA LineIdsSmall ==
  ASSUME NEW x
  PROVE  /\ LineIds(<< >>) = << >>
         /\ LineIds(<< x >>) = IF x.id # HeaderId THEN << x.id >> ELSE << >>
<1> DEFINE D == { i \in DOMAIN << x >> : << x >>[i].id # HeaderId }
<1>1. 1 \in D <=> x.id # HeaderId
  OBVIOUS
<1>2. Picked(<< x >>, D) = IF 1 \in D THEN << x.id >> ELSE << >>
  BY PickedOne
<1>3. QED
  BY <1>1, <1>2, PickedNone DEF LineIds

-----------------------------------------------------------------------------
(***************************************************************************)
(* The order in which one thread logs.  The steps that change what is      *)
(* accepted, collected or on its way to the queue.                         *)
(***************************************************************************)
LEMMA LogsStep ==
  ASSUME [Next]_vars
  PROVE  \/ UNCHANGED << accepted, nextId, list, out >>
         \/ Kill
         \/ \E p \in Producers :
              \/ Commit(p) \/ Rollback(p) \/ Offer(p) \/ OfferFails(p)
              \/ \E n \in Names, roll \in BOOLEAN : WriteLog(p, n, roll)
<1> DEFINE Same == UNCHANGED << accepted, nextId, list, out >>
<1>1. ASSUME Manager
      PROVE  Same
  BY <1>1 DEF Manager, Startup, Interrupt, Stop, JoinReturns, Add, AddCheck, AddTest, AddNext,
              AddOpen, AddDuplicate, prodVars, histVars
<1>2. ASSUME NEW w \in Workers, Worker(w)
      PROVE  Same
  BY <1>2 DEF Worker, CheckStop, Take, TakeInterrupted, ReadClock, Write, WriteFails, CloseOne,
              prodVars, histVars
<1>3. ASSUME NEW n \in Names, Spill(n)
      PROVE  Same
  BY <1>3 DEF Spill, prodVars, histVars
<1>4. Tick \/ UNCHANGED vars => Same
  BY DEF Tick, vars, prodVars, histVars
<1>5. ASSUME NEW p \in Producers, Begin(p)
      PROVE  Same
  BY <1>5 DEF Begin, histVars
<1>6. QED
  BY <1>1, <1>2, <1>3, <1>4, <1>5 DEF Next, Producer

LEMMA LogsHaveIds ==
  ASSUME NEW s \in Seq(Log)
  PROVE  \A i \in DOMAIN s : s[i] \in Log /\ s[i].id \in Nat
<1>1. \A i \in DOMAIN s : s[i] \in Log
  OBVIOUS
<1>2. QED
  BY <1>1 DEF Log

(***************************************************************************)
(* The log that writeLog makes, and where it goes.                         *)
(***************************************************************************)
LEMMA WriteLogLog ==
  ASSUME TypeInv, NEW p \in Producers, NEW n \in Names, NEW roll \in BOOLEAN, WriteLog(p, n, roll)
  PROVE  \E x \in Log :
           /\ x.id = nextId /\ x.by = p /\ x.name = n
           /\ n \notin TxNames => x.via = n
           /\ \/ n \in TxNames /\ list' = [list EXCEPT ![p] = Append(@, x)] /\ out' = out
              \/ n \in TxNames /\ list' = list /\ out' = out
              \/ n \notin TxNames /\ out' = [out EXCEPT ![p] = << x >>] /\ list' = list
<1> DEFINE via == IF n \in TxNames /\ list[p] # << >> THEN list[p][1].via ELSE n
           flush == \/ FlushMode[n] = "auto" /\ (counter[n] + 1) % Limit = 0
                    \/ FlushMode[n] = "always"
           x == [ id |-> nextId, by |-> p, name |-> n, roll |-> roll, via |-> via, flush |-> flush ]
<1>1. nextId \in Nat /\ list[p] \in Seq(Log)
  BY CsvLogAssumption DEF TypeInv, TypeOK
<1>2. list[p] # << >> => list[p][1] \in Log
  BY <1>1
<1>3. via \in Names /\ flush \in BOOLEAN
  BY <1>2 DEF Log
<1>4. x \in Log /\ x.id = nextId /\ x.by = p /\ x.name = n /\ (n \notin TxNames => x.via = n)
  <2>1. n \notin TxNames => via = n
    OBVIOUS
  <2> HIDE DEF via, flush
  <2>2. QED
    BY <1>1, <1>3, <2>1 DEF Log
<1>5. \/ n \in TxNames /\ list' = [list EXCEPT ![p] = Append(@, x)] /\ out' = out
      \/ n \in TxNames /\ list' = list /\ out' = out
      \/ n \notin TxNames /\ out' = [out EXCEPT ![p] = << x >>] /\ list' = list
  BY DEF WriteLog
<1> HIDE DEF x
<1>6. QED
  BY <1>4, <1>5

Ascending(logs) == \A i, j \in DOMAIN logs : i < j => logs[i].id < logs[j].id

\* What p still has to hand over, against what it handed over.
Behind(p) ==
  /\ \A i \in DOMAIN list[p] :
       list[p][i].by = p /\ list[p][i].id < nextId /\ list[p][i].name \in TxNames
  /\ \A i \in DOMAIN out[p] : out[p][i].by = p /\ out[p][i].id < nextId
  /\ Ascending(list[p]) /\ Ascending(out[p])
  /\ (\E i \in DOMAIN out[p] : out[p][i].name \in TxNames) => list[p] = << >>
  /\ \A i \in DOMAIN accepted : accepted[i].by = p =>
       /\ accepted[i].name \in TxNames =>
            \A j \in DOMAIN list[p] : accepted[i].id < list[p][j].id
       /\ \A j \in DOMAIN out[p] : accepted[i].name = out[p][j].name =>
            accepted[i].id < out[p][j].id

(***************************************************************************)
(* ProducerOrder is not inductive: it needs that what a thread has still   *)
(* to hand over ascends and lies above what it handed over.  A logger      *)
(* without transaction overtakes the logs of the thread's transaction,     *)
(* which have other names.                                                 *)
(***************************************************************************)
OrderInv ==
  /\ ProducerOrder
  /\ \A i \in DOMAIN accepted : accepted[i].id < nextId
  /\ \A p \in Producers : Behind(p)

LEMMA OrderInvNext == TypeInv /\ OrderInv /\ [Next]_vars => OrderInv'
<1> SUFFICES ASSUME TypeInv, OrderInv, [Next]_vars
             PROVE  OrderInv'
  OBVIOUS
<1>1. /\ accepted \in Seq(Log) /\ nextId \in Nat
      /\ list \in [Producers -> Seq(Log)] /\ out \in [Producers -> Seq(Log)]
  BY CsvLogAssumption DEF TypeInv, TypeOK
<1>2. CASE UNCHANGED << accepted, nextId, list, out >>
  BY <1>2 DEF OrderInv, ProducerOrder, Behind
<1>3. CASE Kill
  <2>1. /\ accepted' = accepted /\ nextId' = nextId
        /\ \A p \in Producers : list'[p] = << >> /\ out'[p] = << >>
    BY <1>3 DEF Kill
  <2>2. QED
    BY <2>1 DEF OrderInv, ProducerOrder, Behind, Ascending
<1>4. ASSUME NEW p \in Producers, Commit(p)
      PROVE  OrderInv'
  <2>1. /\ accepted' = accepted /\ nextId' = nextId
        /\ list'[p] = << >> /\ out'[p] = list[p]
        /\ \A q \in Producers : q # p => list'[q] = list[q] /\ out'[q] = out[q]
    BY <1>1, <1>4 DEF Commit, histVars
  <2>2. Behind(p)'
    BY <2>1 DEF OrderInv, Behind, Ascending
  <2>3. \A q \in Producers : q # p => Behind(q)'
    BY <2>1 DEF OrderInv, Behind, Ascending
  <2>4. QED
    BY <2>1, <2>2, <2>3 DEF OrderInv, ProducerOrder
<1>5. ASSUME NEW p \in Producers, Rollback(p)
      PROVE  OrderInv'
  <2>1. /\ accepted' = accepted /\ nextId' = nextId
        /\ list'[p] = << >> /\ out' = out
        /\ \A q \in Producers : q # p => list'[q] = list[q]
    BY <1>1, <1>5 DEF Rollback, histVars
  <2>2. Behind(p)'
    BY <2>1 DEF OrderInv, Behind, Ascending
  <2>3. \A q \in Producers : q # p => Behind(q)'
    BY <2>1 DEF OrderInv, Behind, Ascending
  <2>4. QED
    BY <2>1, <2>2, <2>3 DEF OrderInv, ProducerOrder
<1>6. ASSUME NEW p \in Producers, OfferFails(p)
      PROVE  OrderInv'
  <2>1. /\ accepted' = accepted /\ nextId' = nextId /\ list' = list
        /\ out'[p] = << >>
        /\ \A q \in Producers : q # p => out'[q] = out[q]
    BY <1>1, <1>6 DEF OfferFails
  <2>2. Behind(p)'
    BY <2>1 DEF OrderInv, Behind, Ascending
  <2>3. \A q \in Producers : q # p => Behind(q)'
    BY <2>1 DEF OrderInv, Behind, Ascending
  <2>4. QED
    BY <2>1, <2>2, <2>3 DEF OrderInv, ProducerOrder
<1>7. ASSUME NEW p \in Producers, Offer(p)
      PROVE  OrderInv'
  <2> DEFINE x == Head(out[p])
             N == Len(accepted)
  <2>1. /\ accepted' = Append(accepted, x) /\ nextId' = nextId /\ list' = list
        /\ out'[p] = Tail(out[p])
        /\ \A q \in Producers : q # p => out'[q] = out[q]
    BY <1>1, <1>7 DEF Offer
  <2>2. out[p] \in Seq(Log) /\ out[p] # << >>
    BY <1>1, <1>7 DEF Offer
  <2>3. /\ Len(out[p]) \in Nat \ {0} /\ DOMAIN out[p] = 1 .. Len(out[p]) /\ 1 \in DOMAIN out[p]
        /\ x = out[p][1] /\ DOMAIN out'[p] = 1 .. Len(out[p]) - 1
        /\ \A i \in 1 .. Len(out[p]) - 1 :
             out'[p][i] = out[p][i + 1] /\ i + 1 \in DOMAIN out[p] /\ 1 < i + 1
    BY <2>1, <2>2
  <2>4. /\ N \in Nat /\ DOMAIN accepted = 1 .. N /\ DOMAIN accepted' = 1 .. N + 1
        /\ accepted'[N + 1] = x /\ \A i \in 1 .. N : accepted'[i] = accepted[i]
    BY <1>1, <2>1
  <2>5. x.by = p /\ x.id < nextId
    BY <2>3 DEF OrderInv, Behind
  <2> HIDE DEF x, N
  <2>6. \A i \in DOMAIN accepted' : accepted'[i].id < nextId'
    BY <2>1, <2>4, <2>5 DEF OrderInv
  <2>7. ProducerOrder'
    <3> SUFFICES ASSUME NEW i \in DOMAIN accepted', NEW j \in DOMAIN accepted', i < j,
                        accepted'[i].by = accepted'[j].by, accepted'[i].name = accepted'[j].name
                 PROVE  accepted'[i].id < accepted'[j].id
      BY DEF ProducerOrder
    <3>1. i \in 1 .. N
      BY <2>4
    <3>2. CASE j \in 1 .. N
      BY <2>4, <3>1, <3>2 DEF OrderInv, ProducerOrder
    <3>3. CASE j = N + 1
      <4>1. /\ i \in DOMAIN accepted /\ accepted[i].by = p
            /\ accepted[i].name = out[p][1].name /\ 1 \in DOMAIN out[p]
        BY <2>3, <2>4, <2>5, <3>1, <3>3
      <4>2. accepted[i].id < out[p][1].id
        BY <4>1 DEF OrderInv, Behind
      <4>3. QED
        BY <2>3, <2>4, <3>1, <3>3, <4>2
    <3>4. QED
      BY <2>4, <3>2, <3>3
  <2>8. Behind(p)'
    <3>1. Ascending(out'[p])
      <4> SUFFICES ASSUME NEW i \in DOMAIN out'[p], NEW j \in DOMAIN out'[p], i < j
                   PROVE  out'[p][i].id < out'[p][j].id
        BY DEF Ascending
      <4>1. i + 1 < j + 1 /\ i + 1 \in DOMAIN out[p] /\ j + 1 \in DOMAIN out[p]
        BY <2>3
      <4>2. Ascending(out[p])
        BY DEF OrderInv, Behind
      <4>3. out[p][i + 1].id < out[p][j + 1].id
        BY <4>1, <4>2 DEF Ascending
      <4>4. out'[p][i] = out[p][i + 1] /\ out'[p][j] = out[p][j + 1]
        BY <2>3
      <4>5. QED
        BY <4>3, <4>4
    <3>2. \A i \in DOMAIN out'[p] : x.id < out'[p][i].id
      <4> SUFFICES ASSUME NEW i \in DOMAIN out'[p]
                   PROVE  x.id < out'[p][i].id
        OBVIOUS
      <4>1. 1 < i + 1 /\ 1 \in DOMAIN out[p] /\ i + 1 \in DOMAIN out[p]
        BY <2>3
      <4>2. out[p][1].id < out[p][i + 1].id
        BY <4>1 DEF OrderInv, Behind, Ascending
      <4>3. QED
        BY <2>3, <4>2
    <3>3. x.name \in TxNames => list[p] = << >>
      BY <2>3 DEF OrderInv, Behind
    <3>4. Behind(p)
      BY DEF OrderInv
    <3>5. /\ \A i \in DOMAIN out'[p] : out'[p][i].by = p /\ out'[p][i].id < nextId
          /\ (\E i \in DOMAIN out'[p] : out'[p][i].name \in TxNames) => list[p] = << >>
      <4>1. \A i \in DOMAIN out'[p] : i + 1 \in DOMAIN out[p] /\ out'[p][i] = out[p][i + 1]
        BY <2>3
      <4>2. \A i \in DOMAIN out[p] : out[p][i].by = p /\ out[p][i].id < nextId
        BY <3>4 DEF Behind
      <4>3. (\E i \in DOMAIN out[p] : out[p][i].name \in TxNames) => list[p] = << >>
        BY <3>4 DEF Behind
      <4>4. QED
        BY <4>1, <4>2, <4>3
    <3>6. ASSUME NEW i \in DOMAIN accepted', accepted'[i].by = p
          PROVE  /\ accepted'[i].name \in TxNames =>
                      \A j \in DOMAIN list[p] : accepted'[i].id < list[p][j].id
                 /\ \A j \in DOMAIN out'[p] : accepted'[i].name = out'[p][j].name =>
                      accepted'[i].id < out'[p][j].id
      <4>1. CASE i \in 1 .. N
        <5>1. accepted'[i] = accepted[i] /\ i \in DOMAIN accepted
          BY <2>4, <4>1
        <5>2. \A j \in DOMAIN out'[p] : \E k \in DOMAIN out[p] : out'[p][j] = out[p][k]
          BY <2>3
        <5>3. QED
          BY <3>4, <3>6, <5>1, <5>2 DEF Behind
      <4>2. CASE i = N + 1
        <5>1. accepted'[i] = x
          BY <2>4, <4>2
        <5>2. QED
          BY <3>2, <3>3, <5>1
      <4>3. QED
        BY <2>4, <4>1, <4>2
    <3>7. QED
      BY <2>1, <3>1, <3>4, <3>5, <3>6 DEF Behind
  <2>9. ASSUME NEW q \in Producers, q # p
        PROVE  Behind(q)'
    <3>1. Behind(q) /\ out'[q] = out[q] /\ list'[q] = list[q] /\ nextId' = nextId
      BY <2>1, <2>9 DEF OrderInv
    <3>2. \A i \in DOMAIN accepted' : accepted'[i].by = q =>
            i \in DOMAIN accepted /\ accepted'[i] = accepted[i]
      BY <2>4, <2>5, <2>9
    <3>3. QED
      BY <3>1, <3>2 DEF Behind
  <2>10. QED
    BY <2>6, <2>7, <2>8, <2>9 DEF OrderInv
<1>8. ASSUME NEW p \in Producers, NEW n \in Names, NEW roll \in BOOLEAN, WriteLog(p, n, roll)
      PROVE  OrderInv'
  <2>1. PICK x \in Log :
          /\ x.id = nextId /\ x.by = p /\ x.name = n
          /\ \/ n \in TxNames /\ list' = [list EXCEPT ![p] = Append(@, x)] /\ out' = out
             \/ n \in TxNames /\ list' = list /\ out' = out
             \/ n \notin TxNames /\ out' = [out EXCEPT ![p] = << x >>] /\ list' = list
    BY <1>8, WriteLogLog
  <2>2. accepted' = accepted /\ nextId' = nextId + 1 /\ out[p] = << >>
    BY <1>8 DEF WriteLog, histVars
  <2>3. /\ ProducerOrder' /\ \A i \in DOMAIN accepted' : accepted'[i].id < nextId'
        /\ \A i \in DOMAIN accepted' : accepted'[i].id < nextId
    <3>1. \A i \in DOMAIN accepted : accepted[i] \in Log /\ accepted[i].id \in Nat
      BY <1>1, LogsHaveIds
    <3>2. QED
      BY <1>1, <2>2, <3>1 DEF OrderInv, ProducerOrder
  <2>4. ASSUME NEW q \in Producers, list'[q] = list[q], out'[q] = out[q]
        PROVE  Behind(q)'
    <3>1. /\ \A i \in DOMAIN list[q] : list[q][i].id < nextId'
          /\ \A i \in DOMAIN out[q] : out[q][i].id < nextId'
      <4>1. /\ \A i \in DOMAIN list[q] : list[q][i] \in Log /\ list[q][i].id \in Nat
            /\ \A i \in DOMAIN out[q] : out[q][i] \in Log /\ out[q][i].id \in Nat
        BY <1>1, LogsHaveIds
      <4>2. QED
        BY <1>1, <2>2, <4>1 DEF OrderInv, Behind
    <3>2. QED
      BY <2>2, <2>4, <3>1 DEF OrderInv, Behind
  <2>5. CASE n \in TxNames /\ list' = [list EXCEPT ![p] = Append(@, x)] /\ out' = out
    <3> DEFINE M == Len(list[p])
    <3>1. /\ M \in Nat /\ DOMAIN list[p] = 1 .. M /\ DOMAIN list'[p] = 1 .. M + 1
          /\ list'[p][M + 1] = x /\ \A i \in 1 .. M : list'[p][i] = list[p][i]
          /\ out'[p] = << >> /\ DOMAIN out'[p] = {}
      BY <1>1, <2>2, <2>5
    <3>2. \A i \in 1 .. M : list[p][i].id \in Nat /\ list[p][i].id < nextId
      <4>1. \A i \in 1 .. M : list[p][i] \in Log
        BY <1>1
      <4>2. QED
        BY <3>1, <4>1 DEF OrderInv, Behind, Log
    <3> HIDE DEF M
    <3>3. Ascending(list'[p])
      <4> SUFFICES ASSUME NEW i \in DOMAIN list'[p], NEW j \in DOMAIN list'[p], i < j
                   PROVE  list'[p][i].id < list'[p][j].id
        BY DEF Ascending
      <4>1. i \in 1 .. M
        BY <3>1
      <4>2. CASE j \in 1 .. M
        BY <3>1, <4>1, <4>2 DEF OrderInv, Behind, Ascending
      <4>3. CASE j = M + 1
        BY <2>1, <3>1, <3>2, <4>1, <4>3
      <4>4. QED
        BY <3>1, <4>2, <4>3
    <3>4. \A i \in DOMAIN list'[p] :
            list'[p][i].by = p /\ list'[p][i].id < nextId' /\ list'[p][i].name \in TxNames
      <4> SUFFICES ASSUME NEW i \in DOMAIN list'[p]
                   PROVE  list'[p][i].by = p /\ list'[p][i].id < nextId' /\ list'[p][i].name \in TxNames
        OBVIOUS
      <4>1. CASE i \in 1 .. M
        BY <1>1, <2>2, <3>1, <3>2, <4>1 DEF OrderInv, Behind
      <4>2. CASE i = M + 1
        BY <1>1, <2>1, <2>2, <2>5, <3>1, <4>2
      <4>3. QED
        BY <3>1, <4>1, <4>2
    <3>5. ASSUME NEW i \in DOMAIN accepted', accepted'[i].by = p, accepted'[i].name \in TxNames,
                 NEW j \in DOMAIN list'[p]
          PROVE  accepted'[i].id < list'[p][j].id
      <4>1. CASE j \in 1 .. M
        BY <2>2, <3>1, <3>5, <4>1 DEF OrderInv, Behind
      <4>2. CASE j = M + 1
        BY <2>1, <2>3, <3>1, <3>5, <4>2
      <4>3. QED
        BY <3>1, <4>1, <4>2
    <3>6. Behind(p)'
      BY <3>1, <3>3, <3>4, <3>5 DEF Behind, Ascending
    <3>7. \A q \in Producers : q # p => list'[q] = list[q] /\ out'[q] = out[q]
      BY <1>1, <2>5
    <3>8. QED
      BY <2>3, <2>4, <3>6, <3>7 DEF OrderInv
  <2>6. CASE list' = list /\ out' = out
    BY <2>3, <2>4, <2>6 DEF OrderInv
  <2>7. CASE n \notin TxNames /\ out' = [out EXCEPT ![p] = << x >>] /\ list' = list
    <3>1. out'[p] = << x >> /\ DOMAIN out'[p] = {1} /\ out'[p][1] = x /\ list'[p] = list[p]
      BY <1>1, <2>7
    <3>2. \A i \in DOMAIN list[p] : list[p][i].id < nextId'
      <4>1. \A i \in DOMAIN list[p] : list[p][i] \in Log /\ list[p][i].id \in Nat
        BY <1>1, LogsHaveIds
      <4>2. QED
        BY <1>1, <2>2, <4>1 DEF OrderInv, Behind
    <3>3. Ascending(out'[p])
      BY <3>1 DEF Ascending
    <3>4. Behind(p)
      BY DEF OrderInv
    <3>5. x.id < nextId'
      BY <1>1, <2>1, <2>2
    <3>6. Behind(p)'
      BY <2>1, <2>2, <2>3, <2>7, <3>1, <3>2, <3>3, <3>4, <3>5 DEF Behind
    <3>7. \A q \in Producers : q # p => list'[q] = list[q] /\ out'[q] = out[q]
      BY <1>1, <2>7
    <3>8. QED
      BY <2>3, <2>4, <3>6, <3>7 DEF OrderInv
  <2>8. QED
    BY <2>1, <2>5, <2>6, <2>7
<1>9. QED
  BY <1>2, <1>3, <1>4, <1>5, <1>6, <1>7, <1>8, LogsStep

(***************************************************************************)
(* For every number of threads, loggers, transactions, kills and full      *)
(* queues, what one thread logs to one logger is accepted in the order it  *)
(* logged it.  (CsvLogger.writeLog, afterCompletionCommit)                 *)
(***************************************************************************)
THEOREM ProducersKeepOrder == Spec => []ProducerOrder
<1>1. Init => OrderInv
  BY DEF Init, OrderInv, ProducerOrder, Behind, Ascending
<1>2. OrderInv => ProducerOrder
  BY DEF OrderInv
<1>3. QED
  BY <1>1, <1>2, OrderInvNext, TypeInvCorrect, PTL DEF Spec

-----------------------------------------------------------------------------
(***************************************************************************)
(* The worker meets a log it cannot write only when something failed.  The *)
(* queue and the hands of the workers hold accepted logs whose logger was  *)
(* linked when it offered them, and a log stays registered until the       *)
(* process dies.                                                           *)
(***************************************************************************)
Known(log) == Linked(log.via) /\ \E i \in DOMAIN accepted : accepted[i] = log

KnownInv ==
  /\ \A k \in DOMAIN queue : Known(queue[k])
  /\ \A w \in Workers : \A k \in DOMAIN hand[w] : Known(hand[w][k])

LEMMA StaysKnown ==
  ASSUME TypeInv, [Next]_vars, ~Kill, NEW log \in Log, Known(log)
  PROVE  infos'[log.via].state # "absent" /\ \E i \in DOMAIN accepted' : accepted'[i] = log
<1> DEFINE n == log.via
<1>1. n \in Names /\ infos \in [Names -> LogInfo] /\ accepted \in Seq(Log) /\ infos[n] \in LogInfo
  BY DEF Log, TypeInv, TypeOK
<1>2. Linked(n)
  BY DEF Known
<1> HIDE DEF n
<1>3. infos'[n].state # "absent"
  <2>1. ~Add(n)
    BY <1>2 DEF Add, Linked
  <2>2. AddDuplicate(n) => infos'[n].state # "absent"
    BY <1>1, EndedType DEF AddDuplicate, LogInfo
  <2>3. AddGoesOn(n) => infos'[n].state # "absent"
    <3>1. infos \in [Names -> LogInfo] /\ spent \in Budget /\ clock \in Nat /\ addFrom \in Nat
      BY CsvLogAssumption DEF TypeInv, TypeOK
    <3>2. QED
      BY <1>1, <3>1, AddGoing
  <2>4. QED
    BY <1>1, <1>2, <2>1, <2>2, <2>3, StateStep DEF Linked
<1>4. \A i \in DOMAIN accepted : i \in DOMAIN accepted' /\ accepted'[i] = accepted[i]
  <2>1. accepted' = accepted \/ \E p \in Producers : Offer(p)
    BY LogsStep DEF Commit, Rollback, OfferFails, WriteLog, histVars
  <2>2. ASSUME NEW p \in Producers, Offer(p)
        PROVE  accepted' = Append(accepted, Head(out[p]))
    BY <2>2 DEF Offer
  <2>3. QED
    BY <1>1, <2>1, <2>2
<1>5. QED
  BY <1>3, <1>4 DEF Known, n

LEMMA KnownInvNext == TypeInv /\ KnownInv /\ [Next]_vars => KnownInv'
<1> SUFFICES ASSUME TypeInv, KnownInv, [Next]_vars
             PROVE  KnownInv'
  OBVIOUS
<1>1. /\ queue \in Seq(Log) /\ hand \in [Workers -> Seq(Log)] /\ accepted \in Seq(Log)
      /\ out \in [Producers -> Seq(Log)]
  BY DEF TypeInv, TypeOK
<1>2. CASE Kill
  <2>1. queue' = << >> /\ \A w \in Workers : hand'[w] = << >>
    BY <1>2 DEF Kill
  <2>2. QED
    BY <2>1 DEF KnownInv
<1>3. ASSUME ~Kill
      PROVE  KnownInv'
  <2> DEFINE KnownNext(log) == /\ infos'[log.via].state # "absent"
                               /\ \E i \in DOMAIN accepted' : accepted'[i] = log
  <2>1. ASSUME NEW log \in Log, Known(log)
        PROVE  KnownNext(log)
    BY <1>3, <2>1, StaysKnown
  <2>2. \A k \in DOMAIN queue : queue[k] \in Log /\ KnownNext(queue[k])
    <3>1. \A k \in DOMAIN queue : queue[k] \in Log /\ Known(queue[k])
      BY <1>1 DEF KnownInv
    <3> HIDE DEF KnownNext
    <3>2. QED
      BY <2>1, <3>1
  <2>3. \A w \in Workers : \A k \in DOMAIN hand[w] : KnownNext(hand[w][k])
    <3>1. \A w \in Workers : \A k \in DOMAIN hand[w] : hand[w][k] \in Log /\ Known(hand[w][k])
      BY <1>1 DEF KnownInv
    <3> HIDE DEF KnownNext
    <3>2. QED
      BY <2>1, <3>1
  <2>4. ASSUME \A k \in DOMAIN queue' : KnownNext(queue'[k]),
               \A w \in Workers : \A k \in DOMAIN hand'[w] : KnownNext(hand'[w][k])
        PROVE  KnownInv'
    BY <2>4 DEF KnownInv, Known, Linked
  <2>5. CASE UNCHANGED << queue, hand >>
    <3> HIDE DEF KnownNext
    <3>1. QED
      BY <2>2, <2>3, <2>4, <2>5
  <2>6. ASSUME NEW p \in Producers, Offer(p)
        PROVE  KnownInv'
    <3> DEFINE x == Head(out[p])
    <3>1. /\ queue' = Append(queue, x) /\ hand' = hand
          /\ accepted' = Append(accepted, x) /\ infos' = infos /\ Linked(x.via)
      BY <2>6 DEF Offer, workVars
    <3>2. accepted'[Len(accepted) + 1] = x /\ Len(accepted) + 1 \in DOMAIN accepted'
      BY <1>1, <3>1
    <3>3. KnownNext(x)
      BY <3>1, <3>2 DEF Linked
    <3>4. \A k \in DOMAIN queue' : queue'[k] = x \/ \E l \in DOMAIN queue : queue'[k] = queue[l]
      BY <1>1, <3>1
    <3> HIDE DEF KnownNext, x
    <3>5. QED
      BY <2>2, <2>3, <2>4, <3>1, <3>3, <3>4
  <2>7. ASSUME NEW w \in Workers, Take(w)
        PROVE  KnownInv'
    <3>1. /\ queue # << >> /\ queue' = Tail(queue) /\ hand'[w] = << Head(queue) >>
          /\ \A v \in Workers : v # w => hand'[v] = hand[v]
      BY <1>1, <2>7 DEF Take
    <3>2. /\ \A k \in DOMAIN queue' : \E l \in DOMAIN queue : queue'[k] = queue[l]
          /\ 1 \in DOMAIN queue /\ Head(queue) = queue[1]
      BY <1>1, <3>1
    <3>3. \A k \in DOMAIN hand'[w] : hand'[w][k] = queue[1]
      BY <3>1, <3>2
    <3> HIDE DEF KnownNext
    <3>4. QED
      BY <2>2, <2>3, <2>4, <3>1, <3>2, <3>3
  <2>8. ASSUME NEW w \in Workers, Write(w) \/ WriteFails(w)
        PROVE  KnownInv'
    <3>1. /\ queue' = queue /\ hand'[w] = << >>
          /\ \A v \in Workers : v # w => hand'[v] = hand[v]
      BY <1>1, <2>8 DEF Write, WriteFails
    <3>2. DOMAIN hand'[w] = {}
      BY <3>1
    <3> HIDE DEF KnownNext
    <3>3. QED
      BY <2>2, <2>3, <2>4, <3>1, <3>2
  <2>9. QED
    BY <1>3, <2>5, <2>6, <2>7, <2>8, QueueStep
<1>4. QED
  BY <1>2, <1>3

(***************************************************************************)
(* The counts of what failed never go down.                                *)
(***************************************************************************)
LEMMA SpentGrows ==
  ASSUME TypeInv, [Next]_vars
  PROVE  /\ spent'.faults = 0 => spent.faults = 0
         /\ spent'.dups = 0 => spent.dups = 0
         /\ spent'.restarts = 0 => spent.restarts = 0
         /\ spent'.kills = 0 => spent.kills = 0
         /\ spent'.overlaps = 0 => spent.overlaps = 0
         /\ spent'.races = 0 => spent.races = 0
<1>1. /\ spent \in Budget
      /\ spent.faults \in Nat /\ spent.dups \in Nat /\ spent.restarts \in Nat
      /\ spent.kills \in Nat /\ spent.overlaps \in Nat /\ spent.races \in Nat
  BY CsvLogAssumption DEF TypeInv, TypeOK, Budget
<1>2. \/ spent' = spent
      \/ spent' = [spent EXCEPT !.faults = @ + 1]
      \/ spent' = [spent EXCEPT !.dups = @ + 1]
      \/ spent' = [spent EXCEPT !.kills = @ + 1]
      \/ \E o \in {spent.overlaps, spent.overlaps + 1} :
           spent' = [spent EXCEPT !.restarts = @ + 1, !.overlaps = o]
      \/ \E n \in Names : AddGoesOn(n)
  <2>1. ASSUME NEW p \in Producers, Producer(p)
        PROVE  spent' = spent
    BY <2>1 DEF Producer, Begin, Commit, Rollback, Offer, OfferFails, WriteLog
  <2>2. ASSUME NEW w \in Workers, Worker(w)
        PROVE  spent' = spent \/ spent' = [spent EXCEPT !.faults = @ + 1]
    BY <2>2 DEF Worker, CheckStop, Take, TakeInterrupted, ReadClock, Write, WriteFails, CloseOne
  <2>3. ASSUME Manager, ~Startup, \A n \in Names : ~AddGoesOn(n)
        PROVE  \/ spent' = spent \/ spent' = [spent EXCEPT !.faults = @ + 1]
               \/ spent' = [spent EXCEPT !.dups = @ + 1]
    BY <2>3 DEF Manager, Interrupt, Stop, JoinReturns, Add, AddGoesOn, AddDuplicate
  <2>4. ASSUME Startup
        PROVE  \/ spent' = spent
               \/ \E o \in {spent.overlaps, spent.overlaps + 1} :
                    spent' = [spent EXCEPT !.restarts = @ + 1, !.overlaps = o]
    BY <2>4 DEF Startup
  <2>5. Kill => spent' = [spent EXCEPT !.kills = @ + 1]
    BY DEF Kill
  <2>6. Tick \/ UNCHANGED vars \/ (\E n \in Names : Spill(n)) => spent' = spent
    BY DEF Tick, vars, Spill
  <2>7. QED
    BY <2>1, <2>2, <2>3, <2>4, <2>5, <2>6 DEF Next
<1> DEFINE Grown == /\ spent'.faults = 0 => spent.faults = 0
                    /\ spent'.dups = 0 => spent.dups = 0
                    /\ spent'.restarts = 0 => spent.restarts = 0
                    /\ spent'.kills = 0 => spent.kills = 0
                    /\ spent'.overlaps = 0 => spent.overlaps = 0
                    /\ spent'.races = 0 => spent.races = 0
<1>3. spent' = [spent EXCEPT !.faults = @ + 1] => Grown
  BY <1>1 DEF Budget
<1>4. spent' = [spent EXCEPT !.dups = @ + 1] => Grown
  BY <1>1 DEF Budget
<1>5. spent' = [spent EXCEPT !.kills = @ + 1] => Grown
  BY <1>1 DEF Budget
<1>6. ASSUME NEW o \in {spent.overlaps, spent.overlaps + 1},
             spent' = [spent EXCEPT !.restarts = @ + 1, !.overlaps = o]
      PROVE  Grown
  <2>1. /\ spent'.restarts = spent.restarts + 1 /\ spent'.overlaps = o
        /\ spent'.faults = spent.faults /\ spent'.dups = spent.dups
        /\ spent'.kills = spent.kills /\ spent'.races = spent.races
    BY <1>1, <1>6 DEF Budget
  <2>2. QED
    BY <1>1, <2>1
<1>7. spent' = spent => Grown
  OBVIOUS
<1>8. (\E n \in Names : AddGoesOn(n)) => Grown
  BY <1>1, AddGoingSpent
<1> HIDE DEF Grown
<1>9. Grown
  BY <1>2, <1>3, <1>4, <1>5, <1>6, <1>7, <1>8
<1>10. QED
  BY <1>9 DEF Grown

(***************************************************************************)
(* Only WriteFails gives the cause "failed", and not while every file is   *)
(* open and the worker meets no log whose name is still being added.       *)
(***************************************************************************)
SurviveInv == Fresh /\ ~early => \A w \in Workers : cause[w] # "failed"

LEMMA SurviveInvNext ==
  ASSUME TypeInv, AddInv, StopInv, SurviveInv, [Next]_vars
  PROVE  SurviveInv'
<1>1. /\ spent \in Budget /\ hand \in [Workers -> Seq(Log)]
      /\ infos \in [Names -> LogInfo] /\ 1 \in Workers
      /\ cause \in [Workers -> {"none", "stopped", "interrupted", "failed"}]
  BY CsvLogAssumption DEF TypeInv, TypeOK, Workers
<1>2. CASE Kill
  BY <1>2 DEF Kill, SurviveInv
<1> SUFFICES ASSUME ~Kill, Fresh', ~early'
             PROVE  \A w \in Workers : cause'[w] # "failed"
  BY <1>2 DEF SurviveInv
<1>3. ~early
  BY EarlyStays
<1>4. Fresh
  BY <1>1, SpentGrows DEF Fresh
<1>5. \A w \in Workers : cause[w] # "failed"
  BY <1>3, <1>4 DEF SurviveInv
<1>6. ASSUME NEW w \in Workers, WriteFails(w)
      PROVE  FALSE
  <2> DEFINE n == hand[w][1].name
  <2>1. pc[w] = "write" /\ hand[w] \in Seq(Log) /\ Len(hand[w]) = 1
    BY <1>1, <1>6 DEF WriteFails, TypeInv
  <2>2. 1 \in DOMAIN hand[w] /\ hand[w][1] \in Log /\ n \in Names
    <3>1. 1 \in DOMAIN hand[w] /\ hand[w][1] \in Log
      BY <2>1
    <3>2. QED
      BY <3>1 DEF Log
  <2>3. Added(infos[n])
    BY <1>3, <2>2 DEF AddInv
  <2>4. n \in Registered /\ ~Underway(infos[n])
    BY <2>2, <2>3 DEF Added, Registered, Underway, Adding
  <2>5. w = 1
    BY <1>4, <2>1, OnlyFirst
  <2>6. InUse(infos[n])
    BY <1>3, <1>4, <2>1, <2>4, <2>5 DEF StopInv, FirstEnding
  <2>7. Writable(w, infos[n])
    BY <2>6 DEF InUse, Writable, Reloadable, Closeable, Converted
  <2>8. spent'.faults = spent.faults + 1
    <3>1. spent' = [spent EXCEPT !.faults = @ + 1]
      BY <1>6, <2>7 DEF WriteFails
    <3>2. QED
      BY <1>1, <3>1 DEF Budget
  <2>9. spent.faults \in Nat
    BY <1>1, CsvLogAssumption DEF Budget
  <2>10. QED
    BY <2>8, <2>9 DEF Fresh
<1>7. ASSUME NEW v \in Workers, Worker(v), ~WriteFails(v)
      PROVE  \A w \in Workers : cause'[w] # "failed"
  BY <1>1, <1>5, <1>7 DEF Worker, CheckStop, Take, TakeInterrupted, ReadClock, Write, CloseOne, Leave
<1>8. ASSUME ~ \E v \in Workers : Worker(v)
      PROVE  \A w \in Workers : cause'[w] # "failed"
  <2>1. CASE Manager
    BY <1>5, <2>1 DEF Manager, Startup, Interrupt, Stop, JoinReturns, Add, AddCheck, AddTest,
                      AddNext, AddOpen, AddDuplicate, workVars
  <2>2. ASSUME NEW p \in Producers, Producer(p)
        PROVE  cause' = cause
    BY <2>2 DEF Producer, Begin, Commit, Rollback, Offer, OfferFails, WriteLog, workVars
  <2>3. CASE Tick \/ UNCHANGED vars \/ \E n \in Names : Spill(n)
    BY <1>5, <2>3 DEF Tick, vars, Spill, workVars
  <2>4. QED
    BY <1>5, <1>8, <2>1, <2>2, <2>3 DEF Next
<1>9. QED
  BY <1>6, <1>7, <1>8

(***************************************************************************)
(* For every number of threads, logs and kills, and with add() running     *)
(* beside the worker, the worker dies of an exception only after a failing *)
(* file, a duplicate add or a second startup, or when a log was accepted   *)
(* for a name whose add() had not returned.  (CsvLogThread.run,            *)
(* CsvLogger.offerLog, CsvLogMamager.add)                                  *)
(***************************************************************************)
THEOREM WorkerOnlyDiesOfFailure == Spec => []WorkerSurvives
<1>1. Init => SurviveInv
  BY DEF Init, SurviveInv
<1>2. TypeInv /\ SurviveInv => WorkerSurvives
  <2> SUFFICES ASSUME TypeInv, SurviveInv, NEW w \in Workers, cause[w] = "failed", ~early
               PROVE  spent.faults + spent.dups + spent.restarts > 0
    BY DEF WorkerSurvives
  <2>1. spent.faults \in Nat /\ spent.dups \in Nat /\ spent.restarts \in Nat
    BY CsvLogAssumption DEF TypeInv, TypeOK, Budget
  <2>2. ~Fresh
    BY DEF SurviveInv
  <2>3. QED
    BY <2>1, <2>2 DEF Fresh
<1>3. QED
  BY <1>1, <1>2, SurviveInvNext, AddInvInit, AddInvNext, StopInvInit, StopInvNext,
     TypeInvCorrect, PTL DEF Spec

-----------------------------------------------------------------------------
(***************************************************************************)
(* No line after its interval.  The identity of a log is never that of a   *)
(* header line, and the worker's time is never ahead of the clock.         *)
(***************************************************************************)
IdInv ==
  /\ nextId # HeaderId
  /\ \A i \in DOMAIN accepted : accepted[i].id # HeaderId
  /\ \A p \in Producers : /\ \A i \in DOMAIN list[p] : list[p][i].id # HeaderId
                          /\ \A i \in DOMAIN out[p] : out[p][i].id # HeaderId

LEMMA IdInvNext == TypeInv /\ IdInv /\ [Next]_vars => IdInv'
<1> SUFFICES ASSUME TypeInv, IdInv, [Next]_vars
             PROVE  IdInv'
  OBVIOUS
<1>1. /\ accepted \in Seq(Log) /\ nextId \in Nat
      /\ list \in [Producers -> Seq(Log)] /\ out \in [Producers -> Seq(Log)]
  BY CsvLogAssumption DEF TypeInv, TypeOK
<1>2. CASE UNCHANGED << accepted, nextId, list, out >>
  BY <1>2 DEF IdInv
<1>3. CASE Kill
  <2>1. /\ accepted' = accepted /\ nextId' = nextId
        /\ \A p \in Producers : list'[p] = << >> /\ out'[p] = << >>
    BY <1>3 DEF Kill
  <2>2. QED
    BY <2>1 DEF IdInv
<1>4. ASSUME NEW p \in Producers, Commit(p) \/ Rollback(p) \/ OfferFails(p)
      PROVE  IdInv'
  <2>1. /\ accepted' = accepted /\ nextId' = nextId
        /\ list'[p] \in {<< >>, list[p]} /\ out'[p] \in {<< >>, list[p], out[p]}
        /\ \A q \in Producers : q # p => list'[q] = list[q] /\ out'[q] = out[q]
    BY <1>1, <1>4 DEF Commit, Rollback, OfferFails, histVars
  <2>2. QED
    BY <2>1 DEF IdInv
<1>5. ASSUME NEW p \in Producers, Offer(p)
      PROVE  IdInv'
  <2> DEFINE x == Head(out[p])
  <2>1. /\ accepted' = Append(accepted, x) /\ nextId' = nextId /\ list' = list
        /\ out'[p] = Tail(out[p]) /\ out[p] # << >> /\ out[p] \in Seq(Log)
        /\ \A q \in Producers : q # p => out'[q] = out[q]
    BY <1>1, <1>5 DEF Offer
  <2>2. /\ 1 \in DOMAIN out[p] /\ x = out[p][1]
        /\ \A i \in DOMAIN out'[p] : \E j \in DOMAIN out[p] : out'[p][i] = out[p][j]
    BY <2>1
  <2>3. x.id # HeaderId
    BY <2>2 DEF IdInv
  <2> HIDE DEF x
  <2>4. \A i \in DOMAIN accepted' :
          accepted'[i] = x \/ \E j \in DOMAIN accepted : accepted'[i] = accepted[j]
    BY <1>1, <2>1
  <2>5. \A q \in Producers : \A i \in DOMAIN out'[q] : out'[q][i].id # HeaderId
    <3>1. \A i \in DOMAIN out'[p] : out'[p][i].id # HeaderId
      BY <2>2 DEF IdInv
    <3>2. \A q \in Producers : q # p => \A i \in DOMAIN out'[q] : out'[q][i].id # HeaderId
      BY <2>1 DEF IdInv
    <3>3. QED
      BY <3>1, <3>2
  <2>6. QED
    BY <2>1, <2>3, <2>4, <2>5 DEF IdInv
<1>6. ASSUME NEW p \in Producers, NEW n \in Names, NEW roll \in BOOLEAN, WriteLog(p, n, roll)
      PROVE  IdInv'
  <2>1. PICK x \in Log :
          /\ x.id = nextId
          /\ \/ list' = [list EXCEPT ![p] = Append(@, x)] /\ out' = out
             \/ list' = list /\ out' = out
             \/ out' = [out EXCEPT ![p] = << x >>] /\ list' = list
    BY <1>6, WriteLogLog
  <2>2. accepted' = accepted /\ nextId' = nextId + 1 /\ x.id # HeaderId
    BY <1>6, <2>1 DEF WriteLog, histVars, IdInv
  <2>3. ASSUME NEW q \in Producers
        PROVE  /\ \A i \in DOMAIN list'[q] :
                    list'[q][i] = x \/ \E j \in DOMAIN list[q] : list'[q][i] = list[q][j]
               /\ \A i \in DOMAIN out'[q] :
                    out'[q][i] = x \/ \E j \in DOMAIN out[q] : out'[q][i] = out[q][j]
    <3>1. CASE list' = [list EXCEPT ![p] = Append(@, x)] /\ out' = out
      BY <1>1, <3>1
    <3>2. CASE list' = list /\ out' = out
      BY <3>2
    <3>3. CASE out' = [out EXCEPT ![p] = << x >>] /\ list' = list
      BY <1>1, <3>3
    <3>4. QED
      BY <2>1, <3>1, <3>2, <3>3
  <2>4. nextId' # HeaderId
    BY <1>1, <2>2 DEF HeaderId
  <2>5. QED
    BY <2>2, <2>3, <2>4 DEF IdInv
<1>7. QED
  BY <1>2, <1>3, <1>4, <1>5, <1>6, LogsStep

StampInv == \A w \in Workers : stamp[w] <= clock

LEMMA StampInvNext == TypeInv /\ StampInv /\ [Next]_vars => StampInv'
<1> SUFFICES ASSUME TypeInv, StampInv, [Next]_vars
             PROVE  StampInv'
  OBVIOUS
<1>1. clock \in Nat /\ stamp \in [Workers -> Nat]
  <2>1. MaxTime \in Nat
    BY CsvLogAssumption
  <2>2. clock \in 0 .. MaxTime /\ stamp \in [Workers -> 0 .. MaxTime]
    BY DEF TypeInv, TypeOK
  <2>3. QED
    BY <2>1, <2>2
<1>2. CASE Tick
  BY <1>1, <1>2 DEF Tick, StampInv, workVars
<1>3. CASE Kill
  BY <1>1, <1>3 DEF Kill, StampInv
<1>4. ASSUME NEW w \in Workers, ReadClock(w)
      PROVE  StampInv'
  BY <1>1, <1>4 DEF ReadClock, StampInv
<1>5. ASSUME NEW w \in Workers, Worker(w), ~ReadClock(w)
      PROVE  stamp' = stamp /\ clock' = clock
  BY <1>5 DEF Worker, CheckStop, Take, TakeInterrupted, Write, WriteFails, CloseOne
<1>6. ASSUME Manager
      PROVE  stamp' = stamp /\ clock' = clock
  BY <1>6 DEF Manager, Startup, Interrupt, Stop, JoinReturns, Add, AddCheck, AddTest, AddNext,
              AddOpen, AddDuplicate, workVars
<1>7. ASSUME NEW p \in Producers, Producer(p)
      PROVE  stamp' = stamp /\ clock' = clock
  BY <1>7 DEF Producer, Begin, Commit, Rollback, Offer, OfferFails, WriteLog, workVars
<1>8. UNCHANGED vars \/ (\E n \in Names : Spill(n)) => stamp' = stamp /\ clock' = clock
  BY DEF vars, Spill, workVars
<1>9. stamp' = stamp /\ clock' = clock => StampInv'
  BY DEF StampInv
<1>10. QED
  BY <1>2, <1>3, <1>4, <1>5, <1>6, <1>7, <1>8, <1>9 DEF Next

(***************************************************************************)
(* The last header of an open file tells when its interval ends.           *)
(***************************************************************************)
Headed(lines, next) ==
  \E h \in DOMAIN lines :
    /\ lines[h].id = HeaderId /\ lines[h].at + Interval = next
    /\ \A k \in h + 1 .. Len(lines) : lines[k].id # HeaderId

InTime(a) ==
  /\ Segmented(a.log \o a.buf)
  /\ \A k \in DOMAIN a.csv : Segmented(a.csv[k].lines)
  /\ a.writer = "open" => a.state # "absent" /\ Headed(a.log \o a.buf, a.next)

LEMMA SegmentedStart ==
  ASSUME NEW s \in Seq(Line), NEW t \in Seq(Line), Segmented(s \o t)
  PROVE  Segmented(s)
<1> DEFINE u == s \o t
<1>1. /\ Len(s) \in Nat /\ DOMAIN s = 1 .. Len(s)
      /\ \A i \in 1 .. Len(s) : i \in DOMAIN u /\ u[i] = s[i]
  OBVIOUS
<1> SUFFICES ASSUME NEW j \in DOMAIN s, s[j].id # HeaderId
             PROVE  \E h \in 1 .. j - 1 :
                      /\ s[h].id = HeaderId
                      /\ \A k \in h + 1 .. j : s[k].id # HeaderId
                      /\ s[j].at < s[h].at + Interval
  BY DEF Segmented
<1>2. PICK h \in 1 .. j - 1 : /\ u[h].id = HeaderId
                              /\ \A k \in h + 1 .. j : u[k].id # HeaderId
                              /\ u[j].at < u[h].at + Interval
  BY <1>1 DEF Segmented
<1> HIDE DEF u
<1>3. h \in 1 .. Len(s) /\ \A k \in h + 1 .. j : k \in 1 .. Len(s)
  BY <1>1
<1>4. QED
  BY <1>1, <1>2, <1>3

LEMMA SegmentedHeader ==
  ASSUME NEW s \in Seq(Line), Segmented(s), NEW t \in Nat
  PROVE  LET u == s \o << HeaderLine(t) >>
         IN  Segmented(u) /\ Headed(u, t + Interval)
<1> DEFINE u == s \o << HeaderLine(t) >>
<1>1. << HeaderLine(t) >> \in Seq(Line) /\ Interval \in Nat
  BY IntervalAssumption DEF HeaderLine, HeaderId, Line
<1>2. /\ Len(s) \in Nat /\ DOMAIN s = 1 .. Len(s) /\ Len(u) = Len(s) + 1
      /\ DOMAIN u = 1 .. Len(s) + 1
      /\ u[Len(s) + 1] = HeaderLine(t)
      /\ \A i \in 1 .. Len(s) : u[i] = s[i]
  BY <1>1
<1>3. HeaderLine(t).id = HeaderId /\ HeaderLine(t).at = t
  BY DEF HeaderLine
<1> HIDE DEF u
<1>4. Headed(u, t + Interval)
  <2>1. Len(s) + 1 \in DOMAIN u /\ \A k \in Len(s) + 1 + 1 .. Len(u) : FALSE
    BY <1>2
  <2>2. QED
    BY <1>2, <1>3, <2>1 DEF Headed
<1>5. Segmented(u)
  <2> SUFFICES ASSUME NEW j \in DOMAIN u, u[j].id # HeaderId
               PROVE  \E h \in 1 .. j - 1 :
                        /\ u[h].id = HeaderId
                        /\ \A k \in h + 1 .. j : u[k].id # HeaderId
                        /\ u[j].at < u[h].at + Interval
    BY DEF Segmented
  <2>1. j \in 1 .. Len(s)
    BY <1>2, <1>3
  <2>2. PICK h \in 1 .. j - 1 : /\ s[h].id = HeaderId
                                /\ \A k \in h + 1 .. j : s[k].id # HeaderId
                                /\ s[j].at < s[h].at + Interval
    BY <1>2, <2>1 DEF Segmented
  <2>3. h \in 1 .. Len(s) /\ \A k \in h + 1 .. j : k \in 1 .. Len(s)
    BY <1>2, <2>1
  <2>4. QED
    BY <1>2, <2>1, <2>2, <2>3
<1>6. QED
  BY <1>4, <1>5 DEF u

LEMMA SegmentedData ==
  ASSUME NEW s \in Seq(Line), Segmented(s), NEW next \in Nat, Headed(s, next),
         NEW line \in Line, line.id # HeaderId, line.at < next
  PROVE  Segmented(Append(s, line)) /\ Headed(Append(s, line), next)
<1> DEFINE u == Append(s, line)
<1>1. /\ Len(s) \in Nat /\ DOMAIN s = 1 .. Len(s) /\ Len(u) = Len(s) + 1
      /\ DOMAIN u = 1 .. Len(s) + 1
      /\ u[Len(s) + 1] = line
      /\ \A i \in 1 .. Len(s) : u[i] = s[i]
  OBVIOUS
<1>2. PICK h \in DOMAIN s : /\ s[h].id = HeaderId /\ s[h].at + Interval = next
                            /\ \A k \in h + 1 .. Len(s) : s[k].id # HeaderId
  BY DEF Headed
<1> HIDE DEF u
<1>3. \A k \in h + 1 .. Len(s) + 1 : u[k].id # HeaderId
  <2> SUFFICES ASSUME NEW k \in h + 1 .. Len(s) + 1
               PROVE  u[k].id # HeaderId
    OBVIOUS
  <2>1. CASE k = Len(s) + 1
    BY <1>1, <2>1
  <2>2. CASE k # Len(s) + 1
    <3>1. k \in h + 1 .. Len(s) /\ k \in 1 .. Len(s)
      BY <1>1, <2>2
    <3>2. QED
      BY <1>1, <1>2, <3>1
  <2>3. QED
    BY <2>1, <2>2
<1>4. u[h] = s[h] /\ h \in DOMAIN u
  BY <1>1
<1>5. Headed(u, next)
  BY <1>1, <1>2, <1>3, <1>4 DEF Headed
<1>6. Segmented(u)
  <2> SUFFICES ASSUME NEW j \in DOMAIN u, u[j].id # HeaderId
               PROVE  \E g \in 1 .. j - 1 :
                        /\ u[g].id = HeaderId
                        /\ \A k \in g + 1 .. j : u[k].id # HeaderId
                        /\ u[j].at < u[g].at + Interval
    BY DEF Segmented
  <2>1. CASE j \in 1 .. Len(s)
    <3>1. PICK g \in 1 .. j - 1 : /\ s[g].id = HeaderId
                                  /\ \A k \in g + 1 .. j : s[k].id # HeaderId
                                  /\ s[j].at < s[g].at + Interval
      BY <1>1, <2>1 DEF Segmented
    <3>2. g \in 1 .. Len(s) /\ \A k \in g + 1 .. j : k \in 1 .. Len(s)
      BY <1>1, <2>1
    <3>3. QED
      BY <1>1, <2>1, <3>1, <3>2
  <2>2. CASE j = Len(s) + 1
    <3>1. h \in 1 .. j - 1 /\ u[j].at < u[h].at + Interval
      BY <1>1, <1>2, <1>4, <2>2
    <3>2. QED
      BY <1>2, <1>3, <1>4, <2>2, <3>1
  <2>3. QED
    BY <1>1, <2>1, <2>2
<1>7. QED
  BY <1>5, <1>6 DEF u

LEMMA SpilledSame ==
  ASSUME NEW X, NEW s \in Seq(X), NEW t \in Seq(X), t # << >>
  PROVE  Append(s, Head(t)) \o Tail(t) = s \o t
<1>1. Head(t) \in X /\ Tail(t) \in Seq(X) /\ << Head(t) >> \in Seq(X)
  OBVIOUS
<1>2. t = << Head(t) >> \o Tail(t)
  BY <1>1
<1>3. Append(s, Head(t)) = s \o << Head(t) >>
  BY <1>1
<1>4. (s \o << Head(t) >>) \o Tail(t) = s \o (<< Head(t) >> \o Tail(t))
  BY <1>1, ConcatAssociative
<1>5. QED
  BY <1>2, <1>3, <1>4

(***************************************************************************)
(* The operations on one log keep its files in time.                       *)
(***************************************************************************)
LEMMA InTimeClosed ==
  ASSUME NEW a \in LogInfo, InTime(a), NEW from \in Nat
  PROVE  InTime(Closed(a, from))
<1> DEFINE file == [ from |-> from, index |-> FreeIndex(a, from), lines |-> a.log \o a.buf ]
           csv == Append(a.csv, file)
<1>1. /\ a.csv \in Seq(ClosedFile) /\ Len(a.csv) \in Nat /\ DOMAIN a.csv = 1 .. Len(a.csv)
  BY DEF LogInfo
<1>2. /\ Closed(a, from).csv = csv /\ Closed(a, from).writer = "closed"
      /\ Closed(a, from).log = << >> /\ Closed(a, from).buf = << >>
  BY DEF Closed, LogInfo
<1>3. /\ DOMAIN csv = 1 .. Len(a.csv) + 1 /\ csv[Len(a.csv) + 1] = file
      /\ \A k \in 1 .. Len(a.csv) : csv[k] = a.csv[k]
  <2> HIDE DEF file
  <2>1. QED
    BY <1>1
<1>4. file.lines = a.log \o a.buf
  OBVIOUS
<1>5. Segmented(<< >> \o << >>)
  BY DEF Segmented
<1> HIDE DEF csv, file
<1>6. ASSUME NEW k \in DOMAIN csv
      PROVE  Segmented(csv[k].lines)
  <2>1. CASE k = Len(a.csv) + 1
    BY <1>3, <1>4, <2>1 DEF InTime
  <2>2. CASE k \in DOMAIN a.csv
    BY <1>1, <1>3, <2>2 DEF InTime
  <2>3. QED
    BY <1>1, <1>3, <2>1, <2>2
<1>7. QED
  BY <1>2, <1>5, <1>6 DEF InTime

LEMMA InTimeEnded ==
  ASSUME NEW a \in LogInfo, InTime(a)
  PROVE  /\ InTime(NotRenamed(a)) /\ InTime(Broken(a)) /\ InTime(Flushed(a)) /\ InTime(Forgotten(a))
         /\ \A t \in Nat : a.writer # "open" => InTime(NotOpened(a, t))
         /\ a.buf # << >> \/ a.end = "glued" => InTime(Spilled(a))
         /\ InTime(SpilledHalf(a))
         /\ InTime([Forgotten(a) EXCEPT !.state = "raw"])
<1>1. a.log \in Seq(Line) /\ a.buf \in Seq(Line) /\ a.log \o a.buf \in Seq(Line)
  BY DEF LogInfo
<1>2. (a.log \o a.buf) \o << >> = a.log \o a.buf /\ a.log \o << >> = a.log
  BY <1>1
<1>3. Segmented(a.log) /\ Segmented(a.log \o a.buf)
  BY <1>1, SegmentedStart DEF InTime
<1>4. a.buf # << >> => Append(a.log, Head(a.buf)) \o Tail(a.buf) = a.log \o a.buf
  BY <1>1, SpilledSame
<1> DEFINE e == Emptied(a)
<1>5. /\ e \in LogInfo /\ e.writer = a.writer /\ e.csv = a.csv
       /\ e.log \o e.buf = a.log \o a.buf
       /\ e.next = a.next /\ e.state = a.state
  <2>1. e \in LogInfo
    BY EndedType
  <2>2. /\ e.writer = a.writer /\ e.csv = a.csv /\ e.log = a.log \o a.buf /\ e.buf = << >>
        /\ e.next = a.next /\ e.state = a.state
    BY DEF LogInfo, Emptied
  <2>3. QED
    BY <1>2, <2>1, <2>2
<1> HIDE DEF e
<1>6. InTime(NotRenamed(a))
  <2> DEFINE b == [e EXCEPT !.writer = "closed"]
  <2>1. b.writer = "closed" /\ b.csv = e.csv /\ b.log = e.log /\ b.buf = e.buf
    BY <1>5 DEF LogInfo
  <2>2. NotRenamed(a) = b \/ NotRenamed(a) = a
    BY DEF NotRenamed, e
  <2> HIDE DEF b
  <2>3. InTime(b)
    BY <1>5, <2>1 DEF InTime
  <2>4. QED
    BY <2>2, <2>3
<1>7. InTime(Broken(a))
  <2>1. /\ Broken(a).writer = "closed" /\ Broken(a).csv = a.csv
        /\ Broken(a).log = a.log /\ Broken(a).buf = << >>
    BY DEF LogInfo, Broken
  <2>2. QED
    BY <1>2, <1>3, <2>1 DEF InTime
<1>8. InTime(Flushed(a))
  <2>1. InTime(e)
    BY <1>5 DEF InTime
  <2>2. Flushed(a) = e \/ Flushed(a) = a
    BY DEF Flushed, e
  <2>3. QED
    BY <2>1, <2>2
<1>9. InTime(Forgotten(a)) /\ InTime([Forgotten(a) EXCEPT !.state = "raw"])
  <2> DEFINE b == Forgotten(a)
             c == [b EXCEPT !.state = "raw"]
  <2>1. b \in LogInfo /\ b.writer = "null" /\ b.csv = a.csv /\ b.log = a.log /\ b.buf = << >>
    BY EndedType DEF LogInfo, Forgotten
  <2> HIDE DEF b
  <2>2. c.writer = "null" /\ c.csv = a.csv /\ c.log = a.log /\ c.buf = << >>
    BY <2>1 DEF LogInfo
  <2> HIDE DEF c
  <2>3. InTime(b) /\ InTime(c)
    BY <1>2, <1>3, <2>1, <2>2 DEF InTime
  <2>4. QED
    BY <2>3 DEF b, c
<1>10. ASSUME NEW t \in Nat, a.writer # "open"
      PROVE  InTime(NotOpened(a, t))
  <2>1. /\ NotOpened(a, t).writer # "open" /\ NotOpened(a, t).csv = a.csv
        /\ NotOpened(a, t).log = a.log /\ NotOpened(a, t).buf = a.buf
    BY <1>10 DEF LogInfo, NotOpened
  <2>2. QED
    BY <2>1 DEF InTime
<1>11. ASSUME a.buf # << >> \/ a.end = "glued"
       PROVE  InTime(Spilled(a))
  <2>1. /\ Spilled(a).writer = a.writer /\ Spilled(a).csv = a.csv /\ Spilled(a).next = a.next
        /\ Spilled(a).state = a.state
    BY DEF LogInfo, Spilled
  <2>2. Spilled(a).log \o Spilled(a).buf = a.log \o a.buf
    <3>1. CASE a.end = "glued"
      BY <3>1 DEF LogInfo, Spilled
    <3>2. CASE a.end # "glued"
      <4>1. Spilled(a).log = Append(a.log, Head(a.buf)) /\ Spilled(a).buf = Tail(a.buf)
        BY <3>2 DEF LogInfo, Spilled
      <4>2. QED
        BY <1>4, <1>11, <3>2, <4>1
    <3>3. QED
      BY <3>1, <3>2
  <2>3. QED
    BY <2>1, <2>2 DEF InTime
<1>12. InTime(SpilledHalf(a))
  <2> DEFINE b == SpilledHalf(a)
  <2>1. /\ b.writer = a.writer /\ b.csv = a.csv /\ b.log = a.log /\ b.buf = a.buf
        /\ b.next = a.next /\ b.state = a.state
    BY DEF LogInfo, SpilledHalf
  <2> HIDE DEF b
  <2>2. InTime(b)
    BY <2>1 DEF InTime
  <2>3. QED
    BY <2>2 DEF b
<1>13. QED
  BY <1>6, <1>7, <1>8, <1>9, <1>10, <1>11, <1>12

LEMMA InTimeOpened ==
  ASSUME NEW a \in LogInfo, InTime(a), a.state # "absent", NEW t \in Nat
  PROVE  InTime(Opened(a, t)) /\ Opened(a, t).next = t + Interval
<1>1. a.log \in Seq(Line) /\ a.buf \in Seq(Line)
  BY DEF LogInfo
<1>2. Segmented(a.log)
  BY <1>1, SegmentedStart DEF InTime
<1>3. Segmented(a.log \o << HeaderLine(t) >>) /\ Headed(a.log \o << HeaderLine(t) >>, t + Interval)
  BY <1>1, <1>2, SegmentedHeader
<1>4. /\ Opened(a, t).csv = a.csv /\ Opened(a, t).next = t + Interval
      /\ Opened(a, t).state = a.state
      /\ \/ Opened(a, t).log = a.log /\ Opened(a, t).buf = << HeaderLine(t) >>
         \/ Opened(a, t).log = Append(a.log, HeaderLine(t)) /\ Opened(a, t).buf = << >>
  BY DEF LogInfo, Opened
<1>5. HeaderLine(t) \in Line
  BY DEF HeaderLine, HeaderId, Line
<1>6. Append(a.log, HeaderLine(t)) \o << >> = a.log \o << HeaderLine(t) >>
  BY <1>1, <1>5
<1>7. Opened(a, t).log \o Opened(a, t).buf = a.log \o << HeaderLine(t) >>
  BY <1>4, <1>6
<1>8. QED
  BY <1>3, <1>4, <1>7 DEF InTime

LEMMA InTimeWritten ==
  ASSUME NEW a \in LogInfo, InTime(a), NEW line \in Line, line.id # HeaderId, line.at < a.next
  PROVE  InTime(Written(a, line))
<1>1. CASE a.writer = "open" /\ a.end # "stump"
  <2>1. /\ a.log \in Seq(Line) /\ a.buf \in Seq(Line) /\ a.log \o a.buf \in Seq(Line)
        /\ a.next \in Nat
    BY DEF LogInfo
  <2> DEFINE s == a.log
             t == a.buf
  <2>2. s \in Seq(Line) /\ t \in Seq(Line) /\ line \in Line
    BY <2>1
  <2> HIDE DEF s, t
  <2>3. s \o Append(t, line) = Append(s \o t, line)
    BY <2>2, AppendConcat
  <2>4. a.log \o Append(a.buf, line) = Append(a.log \o a.buf, line)
    BY <2>3 DEF s, t
  <2>5. Segmented(Append(a.log \o a.buf, line)) /\ Headed(Append(a.log \o a.buf, line), a.next)
    BY <1>1, <2>1, SegmentedData DEF InTime
  <2>6. /\ Written(a, line).csv = a.csv /\ Written(a, line).log = a.log
        /\ Written(a, line).next = a.next /\ Written(a, line).state = a.state
        /\ Written(a, line).buf = Append(a.buf, line)
    BY <1>1 DEF LogInfo, Written
  <2>7. QED
    BY <1>1, <2>4, <2>5, <2>6 DEF InTime
<1>2. CASE a.writer # "open"
  BY <1>2 DEF Written
<1>3. CASE a.writer = "open" /\ a.end = "stump"
  <2> DEFINE b == Written(a, line)
  <2>1. /\ b.writer = a.writer /\ b.csv = a.csv /\ b.log = a.log /\ b.buf = a.buf
        /\ b.next = a.next /\ b.state = a.state
    BY <1>3 DEF LogInfo, Written
  <2> HIDE DEF b
  <2>2. InTime(b)
    BY <2>1 DEF InTime
  <2>3. QED
    BY <2>2 DEF b
<1>4. QED
  BY <1>1, <1>2, <1>3

LEMMA InTimeLogged ==
  ASSUME TypeInv, StampInv, NEW w \in Workers, pc[w] = "write", hand[w][1].id # HeaderId,
         NEW a \in LogInfo, InTime(a), a.state # "absent"
  PROVE  InTime(Logged(w, Current(w, a)))
<1> DEFINE c == Current(w, a)
           line == [id |-> hand[w][1].id, at |-> stamp[w]]
<1>1. /\ clock \in Nat /\ stamp[w] \in Nat /\ stamp[w] <= clock /\ Interval \in Nat \ {0}
      /\ hand[w] \in Seq(Log) /\ Len(hand[w]) = 1
  BY CsvLogAssumption, IntervalAssumption DEF TypeInv, TypeOK, StampInv
<1>2. line \in Line /\ line.id # HeaderId /\ line.at = stamp[w]
  <2>1. hand[w][1] \in Log
    BY <1>1
  <2>2. QED
    BY <1>1, <2>1 DEF Log, Line
<1>3. c \in LogInfo
  BY LoggedState
<1>4. InTime(c) /\ stamp[w] < c.next
  <2>1. CASE NeedsReload(w, a)
    <3>1. Closed(a, clock) \in LogInfo /\ InTime(Closed(a, clock))
          /\ Closed(a, clock).state = a.state
      BY <1>1, ClosedType, InTimeClosed, EndedState
    <3>2. InTime(Reloaded(a, clock)) /\ Reloaded(a, clock).next = clock + Interval
      BY <1>1, <3>1, InTimeOpened DEF Reloaded
    <3>3. QED
      BY <1>1, <2>1, <3>2 DEF Current
  <2>2. CASE ~NeedsReload(w, a)
    <3>1. a.next \in Nat
      BY DEF LogInfo
    <3>2. QED
      BY <1>1, <2>2, <3>1 DEF Current, NeedsReload
  <2>3. QED
    BY <2>1, <2>2
<1> HIDE DEF c, line
<1>5. Written(c, line) \in LogInfo /\ InTime(Written(c, line))
  BY <1>2, <1>3, <1>4, WrittenType, InTimeWritten
<1>6. InTime(Flushed(c)) /\ InTime(Flushed(Written(c, line)))
  BY <1>3, <1>4, <1>5, InTimeEnded
<1>7. InTime(Logged(w, c))
  BY <1>4, <1>5, <1>6 DEF Logged, line
<1>8. QED
  BY <1>7 DEF c

\* While it meets nothing a worker set, add() opens the file with the header its
\* nextInterval belongs to.
LEMMA InTimeAdded ==
  ASSUME infos \in [Names -> LogInfo], spent \in Budget, addFrom \in Nat,
         NEW n \in Names, AddGoesOn(n), InTime(infos[n]),
         spent.races = 0, spent'.races = 0
  PROVE  InTime(infos'[n]) /\ \A m \in Names : m # n => infos'[m] = infos[m]
<1> DEFINE a == infos[n]
<1>1. a \in LogInfo /\ spent.races \in Nat
  BY DEF Budget
<1>2. \A met \in BOOLEAN : Raced(met).races = 0 => ~met
  <2>1. \A met \in BOOLEAN : Raced(met).races = IF met THEN spent.races + 1 ELSE spent.races
    BY RaceSpent
  <2>2. QED
    BY <1>1, <2>1
<1>3. ASSUME NEW b \in LogInfo, InTime(b), NEW s \in {"raw", "ready"} \union Adding
      PROVE  InTime([b EXCEPT !.state = s])
  <2> DEFINE c == [b EXCEPT !.state = s]
  <2>1. /\ c.writer = b.writer /\ c.csv = b.csv /\ c.log = b.log /\ c.buf = b.buf
        /\ c.next = b.next /\ c.state = s /\ s # "absent"
    BY <1>3 DEF LogInfo, Adding
  <2> HIDE DEF c
  <2>2. InTime(c)
    BY <1>3, <2>1 DEF InTime
  <2>3. QED
    BY <2>2 DEF c
<1>4. CASE AddCheck(n)
  <2>1. PICK s \in {"raw", "checked"} : infos' = [infos EXCEPT ![n] = [a EXCEPT !.state = s]]
    BY <1>4 DEF AddCheck
  <2>2. QED
    BY <1>1, <1>3, <2>1 DEF Adding
<1>5. CASE AddTest(n)
  <2>1. (a.writer # "null") \in BOOLEAN /\ TRUE \in BOOLEAN
    OBVIOUS
  <2>2. spent' # Raced(TRUE) /\ (spent' = Raced(a.writer # "null") => a.writer = "null")
    BY <1>2, <2>1
  <2>3. \E b \in {a, NotRenamed(a), Broken(a)} : \E s \in {"tested", "ready"} :
          infos' = [infos EXCEPT ![n] = [b EXCEPT !.state = s]]
    BY <1>5, <2>2 DEF AddTest
  <2>4. \A b \in {a, NotRenamed(a), Broken(a)} : b \in LogInfo /\ InTime(b)
    BY <1>1, EndedType, InTimeEnded
  <2>5. \A b \in {a, NotRenamed(a), Broken(a)} : \A s \in {"tested", "ready"} :
          InTime([b EXCEPT !.state = s])
    BY <1>3, <2>4 DEF Adding
  <2>6. QED
    BY <2>3, <2>5
<1>6. CASE AddNext(n)
  <2>1. a.writer = "null"
    BY <1>2, <1>6 DEF AddNext
  <2> DEFINE b == [a EXCEPT !.state = "timed", !.next = addFrom + Interval]
  <2>2. b.writer = "null" /\ b.csv = a.csv /\ b.log = a.log /\ b.buf = a.buf
    BY <1>1, <2>1 DEF LogInfo
  <2>3. infos' = [infos EXCEPT ![n] = b]
    BY <1>6 DEF AddNext
  <2> HIDE DEF b
  <2>4. InTime(b)
    BY <2>2 DEF InTime
  <2>5. QED
    BY <2>3, <2>4
<1>7. CASE AddOpen(n)
  <2> DEFINE met == a.writer # "null" \/ a.next # addFrom + Interval
             o == Opened(a, addFrom)
             b == [o EXCEPT !.state = "ready", !.next = a.next]
  <2>1. /\ met \in BOOLEAN /\ a.state = "timed"
        /\ \/ infos' = [infos EXCEPT ![n] = b] /\ spent' = Raced(met)
           \/ infos' = [infos EXCEPT ![n] = [a EXCEPT !.state = "ready"]]
    BY <1>7 DEF AddOpen
  <2>2. spent' = Raced(met) => ~met
    <3> HIDE DEF met
    <3>1. QED
      BY <1>2, <2>1
  <2>3. o \in LogInfo /\ InTime(o) /\ o.next = addFrom + Interval
    BY <1>1, <2>1, InTimeOpened, OpenedType
  <2>4. ~met => o.next = a.next
    BY <2>3
  <2>5. ~met => InTime(b)
    <3> HIDE DEF o
    <3>1. /\ b.writer = o.writer /\ b.csv = o.csv /\ b.log = o.log /\ b.buf = o.buf
          /\ b.next = a.next /\ b.state = "ready"
      BY <2>3 DEF LogInfo
    <3> HIDE DEF b, met
    <3>2. QED
      BY <2>3, <2>4, <3>1 DEF InTime
  <2> HIDE DEF b, met
  <2>6. InTime([a EXCEPT !.state = "ready"])
    BY <1>1, <1>3
  <2>7. QED
    BY <2>1, <2>2, <2>5, <2>6
<1>8. QED
  BY <1>4, <1>5, <1>6, <1>7 DEF AddGoesOn

InTimeInv == spent.races = 0 => \A n \in Names : InTime(infos[n])

LEMMA InTimeInvNext ==
  ASSUME TypeInv, KnownInv, IdInv, StampInv, InTimeInv, [Next]_vars
  PROVE  InTimeInv'
<1> SUFFICES ASSUME spent'.races = 0
             PROVE  \A n \in Names : InTime(infos'[n])
  BY DEF InTimeInv
<1> DEFINE Goal == \A n \in Names : InTime(infos'[n])
<1>1. /\ infos \in [Names -> LogInfo] /\ clock \in Nat /\ hand \in [Workers -> Seq(Log)]
      /\ addFrom \in Nat /\ spent \in Budget /\ spent.races = 0
  <2>1. spent.races = 0
    BY SpentGrows
  <2>2. QED
    BY <2>1, CsvLogAssumption DEF TypeInv, TypeOK
<1>2. \A n \in Names : infos[n] \in LogInfo /\ InTime(infos[n])
  BY <1>1 DEF InTimeInv
<1>3. ASSUME NEW n \in Names, Add(n)
      PROVE  Goal
  <2> DEFINE b == [infos[n] EXCEPT !.state = "linked"]
  <2>1. /\ b.state # "absent" /\ b.writer = infos[n].writer /\ b.next = infos[n].next
        /\ b.csv = infos[n].csv /\ b.log = infos[n].log /\ b.buf = infos[n].buf
    BY <1>2 DEF LogInfo
  <2>2. infos' = [infos EXCEPT ![n] = b]
    BY <1>3 DEF Add
  <2> HIDE DEF b
  <2>3. InTime(b)
    BY <1>2, <2>1 DEF InTime
  <2>4. QED
    BY <1>1, <1>2, <2>2, <2>3
<1>4. ASSUME NEW n \in Names, AddGoesOn(n)
       PROVE  Goal
  BY <1>1, <1>2, <1>4, InTimeAdded
<1>5. ASSUME NEW n \in Names, AddDuplicate(n)
      PROVE  Goal
  <2> DEFINE b == [Forgotten(infos[n]) EXCEPT !.state = "raw"]
  <2>1. InTime(b)
    BY <1>2, InTimeEnded
  <2>2. infos' = [infos EXCEPT ![n] = b]
    BY <1>5 DEF AddDuplicate
  <2> HIDE DEF b
  <2>3. QED
    BY <1>1, <1>2, <2>1, <2>2
<1>6. ASSUME NEW n \in Names, Spill(n)
      PROVE  Goal
  <2>1. InTime(Spilled(infos[n])) /\ InTime(SpilledHalf(infos[n]))
    BY <1>2, <1>6, InTimeEnded DEF Spill
  <2>2. PICK b \in {Spilled(infos[n]), SpilledHalf(infos[n])} : infos' = [infos EXCEPT ![n] = b]
    BY <1>6 DEF Spill
  <2>3. QED
    BY <1>1, <1>2, <2>1, <2>2
<1>7. CASE Kill
  <2>1. \A n \in Names : infos'[n] = Forgotten(infos[n])
    BY <1>7 DEF Kill
  <2>2. \A n \in Names : InTime(Forgotten(infos[n]))
    BY <1>2, InTimeEnded
  <2>3. QED
    BY <2>1, <2>2
<1>8. ASSUME NEW w \in Workers, Write(w)
      PROVE  Goal
  <2> DEFINE n == hand[w][1].name
             b == Logged(w, Current(w, infos[n]))
  <2>1. pc[w] = "write" /\ Len(hand[w]) = 1 /\ hand[w] \in Seq(Log)
    BY <1>1, <1>8 DEF Write, TypeInv
  <2>2. 1 \in DOMAIN hand[w] /\ hand[w][1] \in Log
    BY <2>1
  <2>3. hand[w][1].id # HeaderId
    <3>1. Known(hand[w][1])
      BY <2>2 DEF KnownInv
    <3>2. QED
      BY <3>1 DEF Known, IdInv
  <2>4. n \in Names /\ infos[n].state # "absent"
    BY <1>8, <2>2 DEF Log, Write, Writable
  <2>5. InTime(b)
    <3> DEFINE a == infos[n]
    <3>1. a \in LogInfo /\ InTime(a) /\ a.state # "absent"
      BY <1>2, <2>4
    <3> HIDE DEF a, n
    <3>2. InTime(Logged(w, Current(w, a)))
      BY <2>1, <2>3, <3>1, InTimeLogged
    <3>3. QED
      BY <3>2 DEF a
  <2>6. infos'[n] = b /\ \A m \in Names : m # n => infos'[m] = infos[m]
    BY <1>1, <1>8, <2>4 DEF Write
  <2> HIDE DEF b, n
  <2>7. QED
    BY <1>2, <2>5, <2>6
<1>9. ASSUME NEW w \in Workers, WriteFails(w)
      PROVE  Goal
  <2>1. \A n \in Names : \A b \in FailedReloads(infos[n], clock) \union {NotRenamed(infos[n])} :
          InTime(b)
    <3> SUFFICES ASSUME NEW n \in Names
                 PROVE  \A b \in FailedReloads(infos[n], clock) \union {NotRenamed(infos[n])} :
                          InTime(b)
      OBVIOUS
    <3> DEFINE a == infos[n]
    <3>1. /\ a \in LogInfo /\ InTime(a) /\ InTime(NotRenamed(a)) /\ InTime(Broken(a))
          /\ a.writer # "open" => InTime(NotOpened(a, clock))
      BY <1>1, <1>2, InTimeEnded
    <3>2. /\ Closed(a, clock) \in LogInfo /\ InTime(Closed(a, clock))
          /\ Closed(a, clock).writer = "closed"
      BY <1>1, <3>1, ClosedType, InTimeClosed DEF Closed, LogInfo
    <3>3. InTime(NotOpened(Closed(a, clock), clock))
      BY <1>1, <3>2, InTimeEnded
    <3>4. QED
      BY <3>1, <3>3 DEF FailedReloads
  <2>2. \A n \in Names : infos'[n] = infos[n] \/ infos'[n] = NotRenamed(infos[n])
                         \/ infos'[n] \in FailedReloads(infos[n], clock)
    BY <1>1, <1>9 DEF WriteFails
  <2>3. QED
    BY <1>2, <2>1, <2>2
<1>10. ASSUME NEW w \in Workers, NEW n \in Names, CloseOne(w, n)
      PROVE  Goal
  <2>1. \A b \in {Closed(infos[n], clock), Broken(infos[n]), NotRenamed(infos[n])} : InTime(b)
    BY <1>1, <1>2, InTimeClosed, InTimeEnded
  <2>2. \A m \in Names :
          \/ infos'[m] = infos[m]
          \/ m = n /\ infos'[m] \in {Closed(infos[n], clock), Broken(infos[n]), NotRenamed(infos[n])}
    <3>1. \E b \in {Closed(infos[n], clock), Broken(infos[n]), NotRenamed(infos[n])} :
            infos' = [infos EXCEPT ![n] = b]
      BY <1>10 DEF CloseOne
    <3> DEFINE B == {Closed(infos[n], clock), Broken(infos[n]), NotRenamed(infos[n])}
    <3>2. PICK b \in B : infos' = [infos EXCEPT ![n] = b]
      BY <3>1
    <3> HIDE DEF B
    <3>3. \A m \in Names : infos'[m] = infos[m] \/ (m = n /\ infos'[m] \in B)
      BY <1>1, <1>10, <3>2
    <3>4. QED
      BY <3>3 DEF B
  <2>3. QED
    BY <1>2, <2>1, <2>2
<1>11. infos' = infos => Goal
  BY <1>2
<1>12. QED
  BY <1>3, <1>5, <1>6, <1>7, <1>8, <1>9, <1>10, <1>11, <1>4, InfosStep

(***************************************************************************)
(* For every interval and clock, with kills in the middle of a row and     *)
(* failing files, with headers or without: the time of every data line is  *)
(* within one interval of the start of the writer it went to, as long as   *)
(* add() met nothing a worker had set.  (CsvLogThread.run,                 *)
(* CsvLogInfo.reloadWriter)                                                *)
(***************************************************************************)
THEOREM LinesInTime == Spec => []NoOverdueLine
<1>1. Init => KnownInv /\ IdInv /\ StampInv /\ InTimeInv
  <2> SUFFICES ASSUME Init
               PROVE  KnownInv /\ IdInv /\ StampInv /\ InTimeInv
    OBVIOUS
  <2>1. KnownInv /\ IdInv /\ StampInv
    BY DEF Init, KnownInv, IdInv, StampInv, HeaderId
  <2>2. << >> \o << >> = << >>
    OBVIOUS
  <2>3. InTime(NewLogInfo)
    BY <2>2 DEF NewLogInfo, InTime, Segmented
  <2>4. QED
    BY <2>1, <2>3 DEF Init, InTimeInv
<1>2. InTimeInv => NoOverdueLine
  BY DEF InTimeInv, InTime, NoOverdueLine
<1>3. QED
  BY <1>1, <1>2, KnownInvNext, IdInvNext, StampInvNext, InTimeInvNext, TypeInvCorrect, PTL DEF Spec

-----------------------------------------------------------------------------
(***************************************************************************)
(* How much a kill can take from an auto logger.  Of the logs of n among   *)
(* s[a .. b], those that do not flush; the threads that hold a log of n    *)
(* back.                                                                   *)
(***************************************************************************)
NonFlush(s, n, a, b) == { i \in a .. b : s[i].name = n /\ ~s[i].flush }

Calm(s, n, a, b) == \A i \in a .. b : s[i].name = n => ~s[i].flush

Held(o, n, f) == { p \in Producers : o[p] # << >> /\ o[p][1].name = n /\ o[p][1].flush = f }

Size(s, n, a, b) == Cardinality(NonFlush(s, n, a, b))

LEMMA SizeNone ==
  ASSUME NEW s, NEW n, NEW a \in Nat, NEW b \in Nat
  PROVE  /\ IsFiniteSet(NonFlush(s, n, a, b)) /\ Size(s, n, a, b) \in Nat
         /\ a > b => Size(s, n, a, b) = 0 /\ Calm(s, n, a, b)
<1>1. IsFiniteSet(a .. b)
  BY FS_Interval
<1>2. NonFlush(s, n, a, b) \in SUBSET (a .. b)
  BY DEF NonFlush
<1>3. IsFiniteSet(NonFlush(s, n, a, b))
  BY <1>1, <1>2, FS_Subset
<1>4. Size(s, n, a, b) \in Nat
  BY <1>3, FS_CardinalityType DEF Size
<1>5. ASSUME a > b
      PROVE  Size(s, n, a, b) = 0 /\ Calm(s, n, a, b)
  <2>1. a .. b = {}
    BY <1>5
  <2>2. NonFlush(s, n, a, b) = {}
    BY <2>1 DEF NonFlush
  <2>3. QED
    BY <2>1, <2>2, FS_EmptySet DEF Size, Calm
<1>6. QED
  BY <1>3, <1>4, <1>5

LEMMA SizeNext ==
  ASSUME NEW s, NEW n, NEW a \in Nat, NEW b \in Nat, a <= b + 1
  PROVE  /\ Calm(s, n, a, b + 1) <=> Calm(s, n, a, b) /\ (s[b + 1].name = n => ~s[b + 1].flush)
         /\ Size(s, n, a, b + 1) = IF s[b + 1].name = n /\ ~s[b + 1].flush
                                     THEN Size(s, n, a, b) + 1 ELSE Size(s, n, a, b)
<1>1. a .. b + 1 = (a .. b) \union {b + 1} /\ b + 1 \notin a .. b
  OBVIOUS
<1>2. Calm(s, n, a, b + 1) <=> Calm(s, n, a, b) /\ (s[b + 1].name = n => ~s[b + 1].flush)
  BY <1>1 DEF Calm
<1>3. IsFiniteSet(NonFlush(s, n, a, b)) /\ b + 1 \notin NonFlush(s, n, a, b)
  BY <1>1, SizeNone DEF NonFlush
<1>4. CASE s[b + 1].name = n /\ ~s[b + 1].flush
  <2>1. NonFlush(s, n, a, b + 1) = NonFlush(s, n, a, b) \union {b + 1}
    BY <1>1, <1>4 DEF NonFlush
  <2>2. QED
    BY <1>2, <1>3, <1>4, <2>1, FS_AddElement DEF Size
<1>5. CASE ~(s[b + 1].name = n /\ ~s[b + 1].flush)
  <2>1. NonFlush(s, n, a, b + 1) = NonFlush(s, n, a, b)
    BY <1>1, <1>5 DEF NonFlush
  <2>2. QED
    BY <1>2, <1>5, <2>1 DEF Size
<1>6. QED
  BY <1>4, <1>5

LEMMA SizeKept ==
  ASSUME NEW s \in Seq(Log), NEW x \in Log, NEW n, NEW a \in Nat, a >= 1,
         NEW b \in Nat, b <= Len(s)
  PROVE  /\ Calm(Append(s, x), n, a, b) <=> Calm(s, n, a, b)
         /\ Size(Append(s, x), n, a, b) = Size(s, n, a, b)
<1> DEFINE t == Append(s, x)
<1>1. Len(s) \in Nat /\ \A i \in 1 .. Len(s) : t[i] = s[i]
  OBVIOUS
<1> HIDE DEF t
<1>2. \A i \in a .. b : t[i] = s[i]
  BY <1>1
<1>3. NonFlush(t, n, a, b) = NonFlush(s, n, a, b)
  BY <1>2 DEF NonFlush
<1>4. QED
  BY <1>2, <1>3 DEF Calm, Size, t

LEMMA SizeAppend ==
  ASSUME NEW s \in Seq(Log), NEW x \in Log, NEW n, NEW a \in Nat, a >= 1, NEW b \in Nat
  PROVE  LET t == Append(s, x) IN
         /\ b <= Len(s) => /\ Calm(t, n, a, b) <=> Calm(s, n, a, b)
                           /\ Size(t, n, a, b) = Size(s, n, a, b)
         /\ a <= Len(s) + 1 =>
              /\ Calm(t, n, a, Len(s) + 1) <=> Calm(s, n, a, Len(s)) /\ (x.name = n => ~x.flush)
              /\ Size(t, n, a, Len(s) + 1) = IF x.name = n /\ ~x.flush
                                               THEN Size(s, n, a, Len(s)) + 1
                                               ELSE Size(s, n, a, Len(s))
<1> DEFINE t == Append(s, x)
<1>1. Len(s) \in Nat /\ t[Len(s) + 1] = x /\ \A i \in 1 .. Len(s) : t[i] = s[i]
  OBVIOUS
<1> HIDE DEF t
<1>2. ASSUME NEW c \in Nat, c <= Len(s)
      PROVE  (Calm(t, n, a, c) <=> Calm(s, n, a, c)) /\ Size(t, n, a, c) = Size(s, n, a, c)
  <2>1. \A i \in a .. c : t[i] = s[i]
    BY <1>1, <1>2
  <2>2. NonFlush(t, n, a, c) = NonFlush(s, n, a, c)
    BY <2>1 DEF NonFlush
  <2>3. QED
    BY <2>1, <2>2 DEF Calm, Size
<1>3. ASSUME a <= Len(s) + 1
      PROVE  /\ Calm(t, n, a, Len(s) + 1) <=> Calm(s, n, a, Len(s)) /\ (x.name = n => ~x.flush)
             /\ Size(t, n, a, Len(s) + 1) = IF x.name = n /\ ~x.flush
                                              THEN Size(s, n, a, Len(s)) + 1
                                              ELSE Size(s, n, a, Len(s))
  BY <1>1, <1>2, <1>3, SizeNext
<1>4. QED
  BY <1>2, <1>3 DEF t

\* The threads that hold a log, by whether it flushes.
LEMMA HeldSizes ==
  ASSUME NEW o, NEW n
  PROVE  /\ \A f \in BOOLEAN : IsFiniteSet(Held(o, n, f)) /\ Cardinality(Held(o, n, f)) \in Nat
         /\ Cardinality(Held(o, n, TRUE)) + Cardinality(Held(o, n, FALSE)) <= Cardinality(Producers)
         /\ Cardinality(Producers) \in Nat \ {0}
<1>1. IsFiniteSet(Producers) /\ Producers # {}
  BY CsvLogAssumption
<1>2. Cardinality(Producers) \in Nat \ {0}
  BY <1>1, FS_CardinalityType, FS_EmptySet
<1>3. \A f \in BOOLEAN : Held(o, n, f) \in SUBSET Producers
  BY DEF Held
<1>4. \A f \in BOOLEAN : IsFiniteSet(Held(o, n, f)) /\ Cardinality(Held(o, n, f)) \in Nat
  BY <1>1, <1>3, FS_Subset, FS_CardinalityType
<1>5. Held(o, n, TRUE) \cap Held(o, n, FALSE) = {}
  BY DEF Held
<1> DEFINE both == Held(o, n, TRUE) \union Held(o, n, FALSE)
<1>6. both \in SUBSET Producers
  BY <1>3
<1>7. Cardinality(both) = Cardinality(Held(o, n, TRUE)) + Cardinality(Held(o, n, FALSE))
  <2> DEFINE A == Held(o, n, TRUE)
             B == Held(o, n, FALSE)
  <2>1. IsFiniteSet(A) /\ IsFiniteSet(B) /\ A \cap B = {} /\ Cardinality(A) \in Nat /\ Cardinality(B) \in Nat
    BY <1>4, <1>5
  <2> HIDE DEF A, B
  <2>2. Cardinality(A \union B) = Cardinality(A) + Cardinality(B) - Cardinality(A \cap B)
    BY <2>1, FS_Union
  <2>3. Cardinality(A \cap B) = 0
    BY <2>1, FS_EmptySet, Zenon
  <2>4. Cardinality(A \union B) = Cardinality(A) + Cardinality(B)
    BY <2>1, <2>2, <2>3
  <2>5. QED
    BY <2>4 DEF A, B
<1>8. Cardinality(both) <= Cardinality(Producers)
  BY <1>1, <1>6, FS_Subset
<1>9. QED
  <2>1. Cardinality(Held(o, n, TRUE)) + Cardinality(Held(o, n, FALSE)) <= Cardinality(Producers)
    BY <1>7, <1>8
  <2>2. QED
    BY <1>2, <1>4, <2>1

LEMMA HeldChange ==
  ASSUME NEW o, NEW q, NEW p \in Producers, NEW n, \A r \in Producers \ {p} : q[r] = o[r]
  PROVE  \A f \in BOOLEAN :
           /\ p \notin Held(o, n, f) /\ p \in Held(q, n, f) =>
                Cardinality(Held(q, n, f)) = Cardinality(Held(o, n, f)) + 1
           /\ p \in Held(o, n, f) /\ p \notin Held(q, n, f) =>
                Cardinality(Held(q, n, f)) = Cardinality(Held(o, n, f)) - 1
           /\ (p \in Held(o, n, f) <=> p \in Held(q, n, f)) =>
                Cardinality(Held(q, n, f)) = Cardinality(Held(o, n, f))
<1> SUFFICES ASSUME NEW f \in BOOLEAN
             PROVE  /\ p \notin Held(o, n, f) /\ p \in Held(q, n, f) =>
                         Cardinality(Held(q, n, f)) = Cardinality(Held(o, n, f)) + 1
                    /\ p \in Held(o, n, f) /\ p \notin Held(q, n, f) =>
                         Cardinality(Held(q, n, f)) = Cardinality(Held(o, n, f)) - 1
                    /\ (p \in Held(o, n, f) <=> p \in Held(q, n, f)) =>
                         Cardinality(Held(q, n, f)) = Cardinality(Held(o, n, f))
  OBVIOUS
<1> DEFINE A == Held(o, n, f)
           B == Held(q, n, f)
<1>1. \A r : r # p => (r \in A <=> r \in B)
  BY DEF Held
<1>2. IsFiniteSet(A)
  BY HeldSizes
<1> HIDE DEF A, B
<1>3. p \notin A /\ p \in B => B = A \union {p}
  BY <1>1
<1>4. p \in A /\ p \notin B => B = A \ {p}
  BY <1>1
<1>5. (p \in A <=> p \in B) => B = A
  BY <1>1
<1>6. QED
  BY <1>2, <1>3, <1>4, <1>5, FS_AddElement, FS_RemoveElement DEF A, B

(***************************************************************************)
(* The window of n since the accepted log e: between two flushing logs the *)
(* others are as few as WindowBound says, and what follows the last of     *)
(* them leaves the counter, the threads that hold a flushing log and the   *)
(* refused ones room for what is held back.                                *)
(***************************************************************************)
Room(n, o, m, c) ==
  (Cardinality(Producers) - 1) + (Cardinality(Held(o, n, TRUE)) + m) * (Limit - 1) + c

Windows(n, e, s, o, m, c) ==
  /\ \A a \in e + 1 .. Len(s) + 1, b \in 0 .. Len(s) : Calm(s, n, a, b) =>
       Size(s, n, a, b) <= (Cardinality(Producers) + m) * (Limit - 1) + (Cardinality(Producers) - 1)
  /\ \A a \in e + 1 .. Len(s) + 1 : Calm(s, n, a, Len(s)) =>
       Size(s, n, a, Len(s)) + Cardinality(Held(o, n, FALSE)) <= Room(n, o, m, c)

\* Unflushed lines are logs the worker took since a flushing one, while it is
\* alive all that it took.
Filling(n, e, s, lines, rest, alive) ==
  \E a \in e + 1 .. Len(s) + 1, b \in e .. Len(s) :
    /\ a <= b + 1 /\ Calm(s, n, a, b) /\ lines <= Size(s, n, a, b)
    /\ alive => b = Len(s) - rest

LEMMA WindowArithmetic ==
  ASSUME NEW P \in Nat \ {0}, NEW m \in Nat, NEW k \in Nat
  PROVE  /\ (P + m) * k + (P - 1) \in Nat
         /\ \A u \in Nat : /\ (P - 1) + (u + m) * k \in Nat
                           /\ (u + 1 + m) * k = (u + m) * k + k
                           /\ (u + (m + 1)) * k = (u + m) * k + k
                           /\ u <= P - 1 => (u + m) * k + k <= (P + m) * k
         /\ (P + m) * k <= (P + (m + 1)) * k
<1>1. (P + m) * k \in Nat /\ (P + (m + 1)) * k = (P + m) * k + k
  OBVIOUS
<1>2. ASSUME NEW u \in Nat
      PROVE  /\ (u + m) * k \in Nat
             /\ (u + 1 + m) * k = (u + m) * k + k
             /\ (u + (m + 1)) * k = (u + m) * k + k
  OBVIOUS
<1>3. ASSUME NEW u \in Nat, u <= P - 1
      PROVE  (u + m) * k + k <= (P + m) * k
  <2> DEFINE d == P - 1 - u
  <2>1. d \in Nat /\ P + m = (u + 1 + m) + d
    BY <1>3
  <2> HIDE DEF d
  <2>2. d * k \in Nat /\ ((u + 1 + m) + d) * k = (u + 1 + m) * k + d * k
    BY <2>1
  <2>3. (P + m) * k = (u + m) * k + k + d * k
    BY <1>2, <2>1, <2>2
  <2>4. (u + m) * k \in Nat
    BY <1>2
  <2>5. QED
    BY <2>2, <2>3, <2>4
<1>4. QED
  BY <1>1, <1>2, <1>3

LEMMA WindowsOffer ==
  ASSUME NEW s \in Seq(Log), NEW x \in Log, NEW n, NEW e \in 0 .. Len(s), NEW m \in Nat,
         NEW c \in 0 .. Limit - 1, NEW p \in Producers, NEW o, o[p] # << >>, o[p][1] = x,
         NEW q, \A r \in Producers \ {p} : q[r] = o[r], q[p] # << >> => q[p][1].name # n,
         Windows(n, e, s, o, m, c)
  PROVE  Windows(n, e, Append(s, x), q, m, c)
<1> DEFINE t == Append(s, x)
           N == Len(s)
           P == Cardinality(Producers)
           k == Limit - 1
           u == Cardinality(Held(o, n, TRUE))
           v == Cardinality(Held(o, n, FALSE))
           u1 == Cardinality(Held(q, n, TRUE))
           v1 == Cardinality(Held(q, n, FALSE))
           bound == (P + m) * k + (P - 1)
<1>1. /\ N \in Nat /\ Len(t) = N + 1 /\ k \in Nat /\ P \in Nat \ {0} /\ u \in Nat /\ v \in Nat
      /\ u1 \in Nat /\ v1 \in Nat /\ u + v <= P /\ bound \in Nat /\ c \in Nat /\ c <= k
  <2>1. Limit \in Nat \ {0}
    BY CsvLogAssumption
  <2>2. N \in Nat /\ Len(t) = N + 1 /\ k \in Nat /\ c \in Nat /\ c <= k
    BY <2>1
  <2>3. P \in Nat \ {0} /\ u \in Nat /\ v \in Nat /\ u1 \in Nat /\ v1 \in Nat /\ u + v <= P
    BY HeldSizes
  <2>4. bound \in Nat
    <3> HIDE DEF k, P
    <3>1. QED
      BY <2>2, <2>3, WindowArithmetic
  <2>5. QED
    BY <2>2, <2>3, <2>4
<1>2. /\ x.name # n => u1 = u /\ v1 = v
      /\ x.name = n /\ x.flush => u1 = u - 1 /\ v1 = v
      /\ x.name = n /\ ~x.flush => u1 = u /\ v1 = v - 1
  <2>1. x.flush \in BOOLEAN
    BY DEF Log
  <2>2. \A f \in BOOLEAN : /\ p \in Held(o, n, f) <=> x.name = n /\ x.flush = f
                           /\ p \notin Held(q, n, f)
    BY DEF Held
  <2>3. \A f \in BOOLEAN :
          /\ p \in Held(o, n, f) => Cardinality(Held(q, n, f)) = Cardinality(Held(o, n, f)) - 1
          /\ p \notin Held(o, n, f) => Cardinality(Held(q, n, f)) = Cardinality(Held(o, n, f))
    BY <2>2, HeldChange
  <2>4. /\ p \in Held(o, n, TRUE) <=> x.name = n /\ x.flush
        /\ p \in Held(o, n, FALSE) <=> x.name = n /\ ~x.flush
    BY <2>1, <2>2
  <2>5. QED
    BY <2>3, <2>4
<1>3. /\ \A a \in e + 1 .. N + 1, b \in 0 .. N : Calm(s, n, a, b) => Size(s, n, a, b) <= bound
      /\ \A a \in e + 1 .. N + 1 : Calm(s, n, a, N) =>
           Size(s, n, a, N) + v <= (P - 1) + (u + m) * k + c
  BY DEF Windows, Room
<1>4. /\ \A a \in e + 1 .. N + 1, b \in 0 .. N :
           (Calm(t, n, a, b) <=> Calm(s, n, a, b)) /\ Size(t, n, a, b) = Size(s, n, a, b)
      /\ \A a \in e + 1 .. N + 1 :
           /\ Calm(t, n, a, N + 1) <=> Calm(s, n, a, N) /\ (x.name = n => ~x.flush)
           /\ Size(t, n, a, N + 1) = IF x.name = n /\ ~x.flush THEN Size(s, n, a, N) + 1
                                     ELSE Size(s, n, a, N)
           /\ Size(s, n, a, N) \in Nat
      /\ \A b \in 0 .. N + 1 : Size(t, n, N + 2, b) = 0
      /\ Size(s, n, N + 1, N) = 0 /\ Calm(s, n, N + 1, N)
  <2>1. \A a \in e + 1 .. N + 1, b \in 0 .. N : a \in Nat /\ a >= 1 /\ a <= N + 1 /\ b \in Nat /\ b <= N
    BY <1>1
  <2> HIDE DEF N
  <2>2. ASSUME NEW a \in e + 1 .. N + 1
        PROVE  /\ \A b \in 0 .. N : (Calm(t, n, a, b) <=> Calm(s, n, a, b))
                                    /\ Size(t, n, a, b) = Size(s, n, a, b)
               /\ Calm(t, n, a, N + 1) <=> Calm(s, n, a, N) /\ (x.name = n => ~x.flush)
               /\ Size(t, n, a, N + 1) = IF x.name = n /\ ~x.flush THEN Size(s, n, a, N) + 1
                                         ELSE Size(s, n, a, N)
               /\ Size(s, n, a, N) \in Nat
    <3>1. a \in Nat /\ a >= 1 /\ a <= N + 1 /\ N \in 0 .. N
      BY <1>1, <2>1
    <3>2. \A b \in 0 .. N : b \in Nat /\ b <= N
      BY <1>1
    <3>3. \A b \in 0 .. N : (Calm(t, n, a, b) <=> Calm(s, n, a, b))
                               /\ Size(t, n, a, b) = Size(s, n, a, b)
      <4>1. a \in Nat /\ a >= 1
        BY <3>1
      <4> HIDE DEF t
      <4>2. ASSUME NEW b \in Nat, b <= Len(s)
            PROVE  (Calm(t, n, a, b) <=> Calm(s, n, a, b)) /\ Size(t, n, a, b) = Size(s, n, a, b)
        BY <4>1, <4>2, SizeKept DEF t
      <4>3. QED
        BY <3>2, <4>2 DEF N
    <3>4. /\ Calm(t, n, a, Len(s) + 1) <=> Calm(s, n, a, Len(s)) /\ (x.name = n => ~x.flush)
          /\ Size(t, n, a, Len(s) + 1) = IF x.name = n /\ ~x.flush THEN Size(s, n, a, Len(s)) + 1
                                         ELSE Size(s, n, a, Len(s))
      <4>1. a <= Len(s) + 1 /\ 0 \in Nat
        BY <3>1 DEF N
      <4>2. QED
        BY <3>1, <4>1, SizeAppend DEF t
    <3>5. Size(s, n, a, N) \in Nat
      BY <1>1, <3>1, SizeNone
    <3>6. QED
      BY <3>3, <3>4, <3>5 DEF N
  <2>3. /\ \A b \in 0 .. N + 1 : N + 2 > b /\ b \in Nat
        /\ N + 2 \in Nat /\ N + 1 > N /\ N + 1 \in Nat
    BY <1>1
  <2>4. \A b \in 0 .. N + 1 : Size(t, n, N + 2, b) = 0
    BY <2>3, SizeNone
  <2>5. Size(s, n, N + 1, N) = 0 /\ Calm(s, n, N + 1, N)
    BY <1>1, <2>3, SizeNone
  <2>6. QED
    BY <2>2, <2>4, <2>5
<1> HIDE DEF t, N, P, k, u, v, u1, v1
<1>5. \A w \in Nat : w <= P - 1 => (P - 1) + (w + m) * k + k <= bound
  <2>1. \A w \in Nat : w <= P - 1 => (w + m) * k + k <= (P + m) * k
    BY <1>1, WindowArithmetic
  <2>2. \A w \in Nat : (w + m) * k \in Nat
    BY <1>1
  <2>3. (P + m) * k \in Nat
    BY <1>1
  <2>4. QED
    BY <1>1, <2>1, <2>2, <2>3
<1>6. e \in Nat /\ e <= N
  BY <1>1 DEF N
\* The last log accepted, x, was held by p.
<1>7. ASSUME NEW a \in e + 1 .. N + 1, Calm(t, n, a, N + 1)
      PROVE  /\ Size(t, n, a, N + 1) <= bound
             /\ Size(t, n, a, N + 1) + v1 <= (P - 1) + (u1 + m) * k + c
  <2>1. /\ Calm(s, n, a, N) /\ (x.name = n => ~x.flush) /\ Size(s, n, a, N) \in Nat
        /\ Size(s, n, a, N) + v <= (P - 1) + (u + m) * k + c
    BY <1>3, <1>4, <1>7
  <2>2. (u + m) * k \in Nat
    BY <1>1
  <2>3. CASE x.name # n
    <3>1. Size(t, n, a, N + 1) = Size(s, n, a, N) /\ u1 = u /\ v1 = v
      BY <1>2, <1>4, <2>3
    <3>2. N \in 0 .. N
      BY <1>1
    <3>3. Size(s, n, a, N) <= bound
      BY <1>3, <2>1, <3>2
    <3>4. QED
      BY <2>1, <3>1, <3>3
  <2>4. CASE x.name = n
    <3>1. Size(t, n, a, N + 1) = Size(s, n, a, N) + 1 /\ u1 = u /\ v1 = v - 1
      BY <1>2, <1>4, <2>1, <2>4
    <3>2. Size(t, n, a, N + 1) + v1 <= (P - 1) + (u1 + m) * k + c
      BY <1>1, <2>1, <2>2, <3>1
    <3>3. u <= P - 1
      BY <1>1, <3>1
    <3>4. (P - 1) + (u + m) * k + k <= bound
      BY <1>1, <1>5, <3>3
    <3>5. Size(t, n, a, N + 1) <= bound
      <4> DEFINE z == (u + m) * k
      <4>1. z \in Nat /\ Size(s, n, a, N) + v <= (P - 1) + z + c /\ (P - 1) + z + k <= bound
        BY <2>1, <2>2, <3>4
      <4> HIDE DEF z, bound
      <4>2. bound \in Nat /\ v >= 1
        BY <1>1, <3>1
      <4>3. QED
        BY <1>1, <2>1, <3>1, <4>1, <4>2
    <3>6. QED
      BY <3>2, <3>5
  <2>5. QED
    BY <2>3, <2>4
\* None of n after x: what is held back fits.
<1>8. v1 <= (P - 1) + (u1 + m) * k + c
  <2>1. v <= (P - 1) + (u + m) * k + c
    <3>1. N + 1 \in e + 1 .. N + 1
      BY <1>1, <1>6
    <3>2. QED
      BY <1>1, <1>3, <1>4, <3>1
  <2>2. (u1 + m) * k \in Nat
    BY <1>1
  <2>3. CASE x.name = n /\ x.flush
    <3>1. v1 <= P - 1
      BY <1>1, <1>2, <2>3
    <3>2. QED
      BY <1>1, <2>2, <3>1
  <2>4. CASE ~(x.name = n /\ x.flush)
    <3>1. u1 = u /\ v1 <= v
      BY <1>1, <1>2, <2>4
    <3>2. QED
      BY <1>1, <2>1, <2>2, <3>1
  <2>5. QED
    BY <2>3, <2>4
<1>9. ASSUME NEW a \in e + 1 .. N + 2, NEW b \in 0 .. N + 1, Calm(t, n, a, b)
      PROVE  Size(t, n, a, b) <= bound
  <2>1. a \in e + 1 .. N + 1 \/ a = N + 2
    BY <1>1, <1>6
  <2>2. b \in 0 .. N \/ b = N + 1
    BY <1>1
  <2>3. CASE a = N + 2
    BY <1>1, <1>4, <2>3
  <2>4. CASE a \in e + 1 .. N + 1 /\ b \in 0 .. N
    BY <1>3, <1>4, <1>9, <2>4
  <2>5. CASE a \in e + 1 .. N + 1 /\ b = N + 1
    BY <1>7, <1>9, <2>5
  <2>6. QED
    BY <2>1, <2>2, <2>3, <2>4, <2>5
<1>10. ASSUME NEW a \in e + 1 .. N + 2, Calm(t, n, a, N + 1)
       PROVE  Size(t, n, a, N + 1) + v1 <= (P - 1) + (u1 + m) * k + c
  <2>1. a \in e + 1 .. N + 1 \/ a = N + 2
    BY <1>1, <1>6
  <2>2. CASE a = N + 2
    <3>1. Size(t, n, a, N + 1) = 0
      BY <1>1, <1>4, <2>2
    <3>2. QED
      BY <1>1, <1>8, <3>1
  <2>3. CASE a \in e + 1 .. N + 1
    BY <1>7, <1>10, <2>3
  <2>4. QED
    BY <2>1, <2>2, <2>3
<1>11. Len(t) + 1 = N + 2 /\ Len(t) = N + 1
  BY <1>1
<1>12. QED
  BY <1>9, <1>10, <1>11 DEF Windows, Room, P, k, u1, v1, t

\* What one thread holds changes, and with it the counter or the refused logs.
LEMMA WindowsHeld ==
  ASSUME NEW s \in Seq(Log), NEW n, NEW e \in 0 .. Len(s), NEW m \in Nat, NEW c \in Nat,
         NEW o, NEW q, NEW l \in Nat, m <= l, NEW d \in Nat,
         LET u == Cardinality(Held(o, n, TRUE))
             v == Cardinality(Held(o, n, FALSE))
             x == Cardinality(Held(q, n, TRUE))
             y == Cardinality(Held(q, n, FALSE))
         IN  \/ x = u /\ y <= v /\ l = m /\ d = c
             \/ x = u /\ y = v + 1 /\ l = m /\ d = c + 1
             \/ x = u + 1 /\ y = v /\ l = m /\ c = Limit - 1 /\ d = 0
             \/ u = x + 1 /\ y = v /\ l = m + 1 /\ d = c,
         Windows(n, e, s, o, m, c)
  PROVE  Windows(n, e, s, q, l, d)
<1> DEFINE N == Len(s)
           P == Cardinality(Producers)
           k == Limit - 1
           u == Cardinality(Held(o, n, TRUE))
           v == Cardinality(Held(o, n, FALSE))
           x == Cardinality(Held(q, n, TRUE))
           y == Cardinality(Held(q, n, FALSE))
<1>1. /\ N \in Nat /\ k \in Nat /\ P \in Nat \ {0} /\ u \in Nat /\ v \in Nat
      /\ x \in Nat /\ y \in Nat
  <2>1. N \in Nat /\ k \in Nat
    <3>1. Limit \in Nat \ {0}
      BY CsvLogAssumption
    <3>2. QED
      BY <3>1
  <2>2. P \in Nat \ {0} /\ u \in Nat /\ v \in Nat /\ x \in Nat /\ y \in Nat
    BY HeldSizes
  <2>3. QED
    BY <2>1, <2>2
<1>2. \/ x = u /\ y <= v /\ l = m /\ d = c
      \/ x = u /\ y = v + 1 /\ l = m /\ d = c + 1
      \/ x = u + 1 /\ y = v /\ l = m /\ c = k /\ d = 0
      \/ u = x + 1 /\ y = v /\ l = m + 1 /\ d = c
  OBVIOUS
<1>3. /\ \A a \in e + 1 .. N + 1, b \in 0 .. N : Calm(s, n, a, b) => Size(s, n, a, b) <= (P + m) * k + (P - 1)
      /\ \A a \in e + 1 .. N + 1 : Calm(s, n, a, N) =>
           Size(s, n, a, N) + v <= (P - 1) + (u + m) * k + c
  BY DEF Windows, Room
<1>4. \A a \in e + 1 .. N + 1, b \in 0 .. N : Size(s, n, a, b) \in Nat
  <2>1. \A a \in e + 1 .. N + 1, b \in 0 .. N : a \in Nat /\ b \in Nat
    BY <1>1
  <2>2. QED
    BY <2>1, SizeNone
<1> HIDE DEF N, P, k, u, v, x, y
<1>5. (P + m) * k <= (P + l) * k /\ (P + m) * k \in Nat /\ (P + l) * k \in Nat
  <2>1. (P + m) * k <= (P + (m + 1)) * k
    BY <1>1, WindowArithmetic
  <2>2. l = m \/ l = m + 1
    BY <1>2
  <2>3. (P + m) * k \in Nat /\ (P + l) * k \in Nat
    BY <1>1
  <2>4. QED
    BY <2>1, <2>2, <2>3
<1>6. \A w \in Nat : w + v <= (P - 1) + (u + m) * k + c => w + y <= (P - 1) + (x + l) * k + d
  <2>1. /\ (u + 1 + m) * k = (u + m) * k + k
        /\ (x + (m + 1)) * k = (x + m) * k + k /\ (x + 1 + m) * k = (x + m) * k + k
        /\ (u + m) * k \in Nat /\ (x + m) * k \in Nat
    BY <1>1, WindowArithmetic
  <2>2. CASE x = u /\ l = m
    BY <1>1, <1>2, <2>1, <2>2
  <2>3. CASE x = u + 1 /\ y = v /\ l = m /\ c = k /\ d = 0
    <3>1. (x + l) * k = (u + m) * k + k
      BY <2>1, <2>3
    <3>2. QED
      BY <1>1, <2>1, <2>3, <3>1
  <2>4. CASE u = x + 1 /\ y = v /\ l = m + 1 /\ d = c
    <3>1. (x + l) * k = (u + m) * k
      BY <2>1, <2>4
    <3>2. QED
      BY <1>1, <2>1, <2>4, <3>1
  <2>5. QED
    BY <1>2, <2>2, <2>3, <2>4
<1>7. \A a \in e + 1 .. N + 1, b \in 0 .. N :
        Calm(s, n, a, b) => Size(s, n, a, b) <= (P + l) * k + (P - 1)
  <2> DEFINE w1 == (P + m) * k
             w2 == (P + l) * k
  <2>1. /\ w1 <= w2 /\ w1 \in Nat /\ w2 \in Nat
        /\ \A a \in e + 1 .. N + 1, b \in 0 .. N : Calm(s, n, a, b) => Size(s, n, a, b) <= w1 + (P - 1)
    BY <1>3, <1>5
  <2> HIDE DEF w1, w2
  <2>2. \A a \in e + 1 .. N + 1, b \in 0 .. N : Calm(s, n, a, b) => Size(s, n, a, b) <= w2 + (P - 1)
    BY <1>1, <1>4, <2>1
  <2>3. QED
    BY <2>2 DEF w2
<1>8. \A a \in e + 1 .. N + 1 : Calm(s, n, a, N) => Size(s, n, a, N) + y <= (P - 1) + (x + l) * k + d
  <2>1. N \in 0 .. N
    BY <1>1
  <2>2. QED
    BY <1>3, <1>4, <1>6, <2>1
<1>9. QED
  BY <1>7, <1>8 DEF Windows, Room, N, P, k, x, y

LEMMA FillingOffer ==
  ASSUME NEW s \in Seq(Log), NEW x \in Log, NEW n, NEW e \in 0 .. Len(s), NEW lines \in Nat,
         NEW rest \in Nat, NEW alive, Filling(n, e, s, lines, rest, alive)
  PROVE  Filling(n, e, Append(s, x), lines, rest + 1, alive)
<1> DEFINE t == Append(s, x)
           N == Len(s)
<1>1. N \in Nat /\ Len(t) = N + 1
  OBVIOUS
<1>2. PICK a \in e + 1 .. N + 1, b \in e .. N :
        /\ a <= b + 1 /\ Calm(s, n, a, b) /\ lines <= Size(s, n, a, b)
        /\ alive => b = N - rest
  BY DEF Filling
<1>3. /\ a \in Nat /\ a >= 1 /\ b \in Nat /\ b <= N
      /\ a \in e + 1 .. Len(t) + 1 /\ b \in e .. Len(t)
  BY <1>1, <1>2
<1>4. Calm(t, n, a, b) /\ Size(t, n, a, b) = Size(s, n, a, b)
  <2>1. b <= Len(s)
    BY <1>3
  <2> HIDE DEF N
  <2>2. QED
    BY <1>2, <1>3, <2>1, SizeAppend
<1>5. alive => b = Len(t) - (rest + 1)
  BY <1>1, <1>2
<1> HIDE DEF t
<1>6. QED
  BY <1>2, <1>3, <1>4, <1>5 DEF Filling, t

LEMMA FillingLess ==
  ASSUME NEW s \in Seq(Log), NEW n, NEW e \in 0 .. Len(s), NEW lines \in Nat,
         NEW less \in Nat, less <= lines, NEW rest, NEW more, NEW alive, NEW still,
         still => alive /\ more = rest, Filling(n, e, s, lines, rest, alive)
  PROVE  Filling(n, e, s, less, more, still)
<1>1. PICK a \in e + 1 .. Len(s) + 1, b \in e .. Len(s) :
        /\ a <= b + 1 /\ Calm(s, n, a, b) /\ lines <= Size(s, n, a, b)
        /\ alive => b = Len(s) - rest
  BY DEF Filling
<1>2. Size(s, n, a, b) \in Nat
  <2>1. a \in Nat /\ b \in Nat
    BY <1>1
  <2>2. QED
    BY <2>1, SizeNone
<1>3. less <= Size(s, n, a, b)
  BY <1>1, <1>2
<1>4. QED
  BY <1>1, <1>3 DEF Filling

\* The worker writes the log s[N - rest + 1] it had taken.
LEMMA FillingWrite ==
  ASSUME NEW s \in Seq(Log), NEW n, NEW e \in 0 .. Len(s), NEW lines \in Nat, NEW now \in Nat,
         NEW rest \in Nat, rest >= 1, rest <= Len(s),
         LET x == s[Len(s) - rest + 1]
         IN  /\ x.name # n => now <= lines
             /\ x.name = n /\ ~x.flush => now <= lines + 1
             /\ x.name = n /\ x.flush => now = 0,
         Filling(n, e, s, lines, rest, TRUE)
  PROVE  Filling(n, e, s, now, rest - 1, TRUE)
<1> DEFINE N == Len(s)
           x == s[N - rest + 1]
<1>1. PICK a \in e + 1 .. N + 1, b \in e .. N :
        a <= b + 1 /\ Calm(s, n, a, b) /\ lines <= Size(s, n, a, b) /\ b = N - rest
  BY DEF Filling
<1>2. /\ N \in Nat /\ a \in Nat /\ b \in Nat /\ Size(s, n, a, b) \in Nat /\ b + 1 \in e .. N
      /\ b + 1 = N - (rest - 1) /\ x = s[b + 1] /\ b + 2 \in e + 1 .. N + 1
  <2>1. N \in Nat /\ a \in Nat /\ b \in Nat
    BY <1>1
  <2>2. Size(s, n, a, b) \in Nat
    BY <2>1, SizeNone
  <2>3. N - rest + 1 = b + 1
    BY <1>1, <2>1
  <2> HIDE DEF N
  <2>4. b + 1 \in e .. N /\ b + 1 = N - (rest - 1) /\ b + 2 \in e + 1 .. N + 1
    BY <1>1, <2>1 DEF N
  <2>5. QED
    BY <2>1, <2>2, <2>3, <2>4
<1>3. /\ x.name # n => now <= lines
      /\ x.name = n /\ ~x.flush => now <= lines + 1
      /\ x.name = n /\ x.flush => now = 0
  OBVIOUS
<1> HIDE DEF x
<1>4. CASE x.name = n /\ x.flush
  <2>1. now = 0
    BY <1>3, <1>4
  <2>2. Calm(s, n, b + 2, b + 1) /\ Size(s, n, b + 2, b + 1) = 0
    <3>1. b + 2 \in Nat /\ b + 1 \in Nat /\ b + 2 > b + 1
      BY <1>2
    <3>2. QED
      BY <3>1, SizeNone
  <2>3. now <= Size(s, n, b + 2, b + 1)
    BY <2>1, <2>2
  <2>4. QED
    BY <1>2, <2>2, <2>3 DEF Filling, N
<1>5. CASE x.name = n => ~x.flush
  <2>1. /\ Calm(s, n, a, b + 1)
        /\ Size(s, n, a, b + 1) = IF x.name = n THEN Size(s, n, a, b) + 1 ELSE Size(s, n, a, b)
    <3>1. /\ Calm(s, n, a, b + 1) <=> Calm(s, n, a, b) /\ (s[b + 1].name = n => ~s[b + 1].flush)
          /\ Size(s, n, a, b + 1) = IF s[b + 1].name = n /\ ~s[b + 1].flush
                                      THEN Size(s, n, a, b) + 1 ELSE Size(s, n, a, b)
      <4>1. a \in Nat /\ b \in Nat /\ a <= b + 1
        BY <1>1, <1>2
      <4>2. QED
        BY <4>1, SizeNext
    <3>2. QED
      BY <1>1, <1>2, <1>5, <3>1
  <2>2. now <= Size(s, n, a, b + 1)
    BY <1>1, <1>2, <1>3, <1>5, <2>1
  <2>3. QED
    BY <1>1, <1>2, <2>1, <2>2 DEF Filling, N
<1>6. QED
  BY <1>2, <1>4, <1>5

-----------------------------------------------------------------------------
(***************************************************************************)
(* Where a thread, the queue and the worker's hand have their logs from,   *)
(* and what the operations on a log leave in its writer.                   *)
(***************************************************************************)
AloneInv ==
  \A p \in Producers : \A i \in DOMAIN out[p] : out[p][i].name \notin TxNames => Len(out[p]) = 1

LEMMA AloneInvNext == TypeInv /\ OrderInv /\ AloneInv /\ [Next]_vars => AloneInv'
<1> SUFFICES ASSUME TypeInv, OrderInv, AloneInv, [Next]_vars
             PROVE  AloneInv'
  OBVIOUS
<1>1. out \in [Producers -> Seq(Log)] /\ list \in [Producers -> Seq(Log)]
  BY DEF TypeInv, TypeOK
<1> DEFINE Alone(o) == \A i \in DOMAIN o : o[i].name \notin TxNames => Len(o) = 1
<1>2. \A p \in Producers : Alone(out[p])
  BY DEF AloneInv
<1>3. Alone(<< >>)
  OBVIOUS
<1>4. \A p \in Producers : Alone(list[p])
  BY DEF OrderInv, Behind
<1>5. \A p \in Producers : out[p] # << >> => Alone(Tail(out[p]))
  <2> SUFFICES ASSUME NEW p \in Producers, out[p] # << >>, NEW i \in DOMAIN Tail(out[p]),
                      Tail(out[p])[i].name \notin TxNames
               PROVE  FALSE
    OBVIOUS
  <2>1. out[p] \in Seq(Log) /\ Tail(out[p]) \in Seq(Log) /\ Len(Tail(out[p])) = Len(out[p]) - 1
    BY <1>1
  <2>2. i + 1 \in DOMAIN out[p] /\ Tail(out[p])[i] = out[p][i + 1] /\ Len(out[p]) # 1
    BY <2>1
  <2>3. QED
    BY <1>2, <2>2
<1>6. \A x : Alone(<< x >>)
  OBVIOUS
<1> HIDE DEF Alone
<1>7. \A p \in Producers : Alone(out'[p])
  <2>1. CASE out' = out
    BY <1>2, <2>1
  <2>2. CASE Kill
    BY <1>3, <2>2 DEF Kill
  <2>3. ASSUME NEW p \in Producers, Commit(p) \/ Rollback(p) \/ Offer(p) \/ OfferFails(p)
        PROVE  \A r \in Producers : Alone(out'[r])
    BY <1>1, <1>2, <1>3, <1>4, <1>5, <2>3 DEF Commit, Rollback, Offer, OfferFails
  <2>4. ASSUME NEW p \in Producers, NEW n \in Names, NEW roll \in BOOLEAN, WriteLog(p, n, roll)
        PROVE  \A r \in Producers : Alone(out'[r])
    <3>1. PICK x \in Log : out' = out \/ out' = [out EXCEPT ![p] = << x >>]
      BY <2>4, WriteLogLog
    <3>2. QED
      BY <1>1, <1>2, <1>6, <3>1
  <2>5. QED
    BY <2>1, <2>2, <2>3, <2>4, LogsStep
<1>8. QED
  BY <1>7 DEF AloneInv, Alone

\* Only an open writer holds lines.
Buffered(a) == Len(LineIds(a.buf))

Tidy(a) == a.writer # "open" => a.buf = << >>

Less(b, a) == Tidy(b) /\ Buffered(b) <= Buffered(a)

LEMMA BufferedType ==
  ASSUME NEW a \in LogInfo
  PROVE  /\ Buffered(a) \in Nat /\ a.buf \in Seq(Line)
         /\ \A b : b.buf = << >> => Less(b, a) /\ Buffered(b) = 0
         /\ Tidy(a) => \A b : b.buf = a.buf /\ b.writer = a.writer => Less(b, a)
<1>1. a.buf \in Seq(Line)
  BY DEF LogInfo
<1>2. LineIds(a.buf) \in Seq(Nat)
  BY <1>1, LineIdsConcat
<1>3. Buffered(a) \in Nat
  BY <1>2 DEF Buffered
<1>4. ASSUME NEW b, b.buf = << >>
      PROVE  Less(b, a) /\ Buffered(b) = 0
  <2>1. LineIds(b.buf) = << >>
    BY <1>4, LineIdsSmall
  <2>2. QED
    BY <1>3, <1>4, <2>1 DEF Less, Tidy, Buffered
<1>5. ASSUME Tidy(a), NEW b, b.buf = a.buf, b.writer = a.writer
      PROVE  Less(b, a)
  BY <1>3, <1>5 DEF Less, Tidy, Buffered
<1>6. QED
  BY <1>1, <1>3, <1>4, <1>5

LEMMA BufferedLess ==
  ASSUME NEW a \in LogInfo, Tidy(a), NEW t \in Nat
  PROVE  /\ Less(a, a) /\ Less(Closed(a, t), a) /\ Less(Broken(a), a) /\ Less(NotRenamed(a), a)
         /\ Less(Flushed(a), a) /\ Buffered(Flushed(a)) = 0
         /\ Less(Forgotten(a), a) /\ Less(NotOpened(a, t), a)
         /\ Less(Opened(a, t), a) /\ Less(Reloaded(a, t), a)
         /\ \A b \in FailedReloads(a, t) : Less(b, a)
         /\ Less([Forgotten(a) EXCEPT !.state = "raw"], a)
         /\ Less([a EXCEPT !.state = "linked"], a)
         /\ a.buf # << >> \/ a.end = "glued" => Less(Spilled(a), a)
         /\ Less(SpilledHalf(a), a)
<1>1. /\ Closed(a, t).buf = << >> /\ Broken(a).buf = << >> /\ Forgotten(a).buf = << >>
      /\ [Forgotten(a) EXCEPT !.state = "raw"].buf = << >>
      /\ NotRenamed(a).buf = << >> \/ NotRenamed(a) = a
      /\ Flushed(a).buf = << >>
  <2> DEFINE e == Emptied(a)
             f == Forgotten(a)
  <2>1. e \in LogInfo /\ e.buf = << >> /\ f \in LogInfo /\ f.buf = << >>
    BY EndedType DEF Emptied, Forgotten, LogInfo
  <2>2. Flushed(a) = IF a.writer = "open" THEN e ELSE a
    BY DEF Flushed
  <2>3. NotRenamed(a) = [e EXCEPT !.writer = "closed"] \/ NotRenamed(a) = a
    BY DEF NotRenamed
  <2> HIDE DEF e, f
  <2>4. [e EXCEPT !.writer = "closed"].buf = << >> /\ [f EXCEPT !.state = "raw"].buf = << >>
    BY <2>1 DEF LogInfo
  <2>5. Flushed(a).buf = << >>
    BY <2>1, <2>2 DEF Tidy
  <2>6. Closed(a, t).buf = << >> /\ Broken(a).buf = << >>
    BY DEF Closed, Broken, LogInfo
  <2>7. QED
    BY <2>1, <2>3, <2>4, <2>5, <2>6 DEF f
<1>2. /\ NotOpened(a, t).buf = a.buf /\ NotOpened(a, t).writer = a.writer
      /\ [a EXCEPT !.state = "linked"].buf = a.buf /\ [a EXCEPT !.state = "linked"].writer = a.writer
      /\ SpilledHalf(a).buf = a.buf /\ SpilledHalf(a).writer = a.writer
  BY DEF NotOpened, SpilledHalf, LogInfo
<1>3. ASSUME NEW c \in LogInfo
      PROVE  Less(Opened(c, t), a)
  <2>1. /\ Opened(c, t).buf = << HeaderLine(t) >> \/ Opened(c, t).buf = << >>
        /\ Opened(c, t).writer = "open"
    BY DEF Opened, LogInfo
  <2>2. LineIds(<< HeaderLine(t) >>) = << >> /\ LineIds(<< >>) = << >>
    BY LineIdsSmall DEF HeaderLine
  <2>3. Buffered(a) \in Nat
    BY BufferedType
  <2>4. QED
    BY <2>1, <2>2, <2>3 DEF Less, Tidy, Buffered
<1>4. Less(Reloaded(a, t), a)
  <2>1. Closed(a, t) \in LogInfo
    BY ClosedType
  <2>2. QED
    BY <1>3, <2>1 DEF Reloaded
<1>5. /\ Less(a, a) /\ Less(Closed(a, t), a) /\ Less(Broken(a), a) /\ Less(NotRenamed(a), a)
      /\ Less(Flushed(a), a) /\ Buffered(Flushed(a)) = 0
      /\ Less(Forgotten(a), a) /\ Less(NotOpened(a, t), a)
      /\ Less([Forgotten(a) EXCEPT !.state = "raw"], a)
      /\ Less([a EXCEPT !.state = "linked"], a)
      /\ Less(SpilledHalf(a), a)
  BY <1>1, <1>2, BufferedType
<1>6. \A b \in FailedReloads(a, t) : Less(b, a)
  <2>1. NotOpened(Closed(a, t), t).buf = << >>
    <3>1. Closed(a, t) \in LogInfo /\ Closed(a, t).buf = << >>
      BY <1>1, ClosedType
    <3>2. QED
      BY <3>1 DEF NotOpened, LogInfo
  <2>2. Less(NotOpened(Closed(a, t), t), a)
    BY <2>1, BufferedType
  <2>3. QED
    BY <1>5, <2>2 DEF FailedReloads
<1>7. ASSUME a.end = "glued"
       PROVE  Less(Spilled(a), a)
  <2>1. Spilled(a).buf = a.buf /\ Spilled(a).writer = a.writer
    BY <1>7 DEF Spilled, LogInfo
  <2>2. QED
    BY <2>1, BufferedType
<1>8. ASSUME a.buf # << >>, a.end # "glued"
      PROVE  Less(Spilled(a), a)
  <2>1. Spilled(a).buf = Tail(a.buf) /\ Spilled(a).writer = "open"
    BY <1>8 DEF Spilled, LogInfo, Tidy
  <2>2. /\ a.buf \in Seq(Line) /\ << Head(a.buf) >> \in Seq(Line) /\ Tail(a.buf) \in Seq(Line)
        /\ a.buf = << Head(a.buf) >> \o Tail(a.buf)
    BY <1>8 DEF LogInfo
  <2>3. /\ LineIds(a.buf) = LineIds(<< Head(a.buf) >>) \o LineIds(Tail(a.buf))
        /\ LineIds(<< Head(a.buf) >>) \in Seq(Nat) /\ LineIds(Tail(a.buf)) \in Seq(Nat)
    BY <2>2, LineIdsConcat
  <2>4. \A x, y \in Seq(Nat) : Len(y) <= Len(x \o y)
    OBVIOUS
  <2>5. QED
    BY <2>1, <2>3, <2>4 DEF Less, Tidy, Buffered
<1>9. Less(Opened(a, t), a)
  BY <1>3
<1>10. QED
  BY <1>4, <1>5, <1>6, <1>8, <1>9, <1>7

LEMMA BufferedLogged ==
  ASSUME TypeInv, NEW w \in Workers, pc[w] = "write", NEW a \in LogInfo, Tidy(a)
  PROVE  LET b == Logged(w, Current(w, a)) IN
         /\ Tidy(b) /\ Buffered(b) \in Nat /\ Buffered(b) <= Buffered(a) + 1
         /\ hand[w][1].flush => Buffered(b) = 0
<1> DEFINE c == Current(w, a)
           line == [id |-> hand[w][1].id, at |-> stamp[w]]
           d == IF hand[w][1].roll THEN c ELSE Written(c, line)
           b == Logged(w, c)
<1>1. c \in LogInfo /\ Tidy(c) /\ Buffered(c) \in Nat /\ Buffered(c) <= Buffered(a) /\ Buffered(a) \in Nat
  <2>1. clock \in Nat
    BY CsvLogAssumption DEF TypeInv, TypeOK
  <2>2. Less(c, a)
    BY <2>1, BufferedLess DEF Current
  <2>3. c \in LogInfo
    BY LoggedState
  <2> HIDE DEF c
  <2>4. QED
    BY <2>2, <2>3, BufferedType DEF Less
<1>2. line \in Line
  <2>1. hand[w] \in Seq(Log) /\ Len(hand[w]) = 1 /\ stamp[w] \in Nat
    BY CsvLogAssumption DEF TypeInv, TypeOK
  <2>2. hand[w][1] \in Log
    BY <2>1
  <2>3. QED
    BY <2>1, <2>2 DEF Log, Line
<1> HIDE DEF c, line
<1>3. d \in LogInfo /\ Tidy(d) /\ Buffered(d) \in Nat /\ Buffered(d) <= Buffered(c) + 1
  <2>1. Written(c, line) \in LogInfo
    BY <1>1, <1>2, WrittenType
  <2>2. CASE hand[w][1].roll \/ c.writer # "open"
    <3>1. d = c
      BY <2>2 DEF Written
    <3>2. QED
      BY <1>1, <3>1
  <2>3. CASE ~hand[w][1].roll /\ c.writer = "open" /\ c.end = "stump"
    <3>1. d = Written(c, line) /\ d.buf = c.buf /\ d.writer = "open"
      BY <1>1, <2>3 DEF Written, LogInfo
    <3>2. QED
      BY <1>1, <2>1, <3>1 DEF Buffered, Tidy
  <2>4. CASE ~hand[w][1].roll /\ c.writer = "open" /\ c.end # "stump"
    <3>1. d = Written(c, line) /\ d.buf = Append(c.buf, line) /\ d.writer = "open"
      BY <1>1, <2>4 DEF Written, LogInfo
    <3>2. c.buf \in Seq(Line) /\ << line >> \in Seq(Line) /\ Append(c.buf, line) = c.buf \o << line >>
      <4> DEFINE u == c.buf
      <4>1. u \in Seq(Line)
        BY <1>1 DEF LogInfo
      <4> HIDE DEF u
      <4>2. u \in Seq(Line) /\ << line >> \in Seq(Line) /\ Append(u, line) = u \o << line >>
        BY <1>2, <4>1
      <4>3. QED
        BY <4>2 DEF u
    <3>3. LineIds(d.buf) = LineIds(c.buf) \o LineIds(<< line >>)
      BY <3>1, <3>2, LineIdsConcat
    <3>4. /\ LineIds(<< line >>) = << line.id >> \/ LineIds(<< line >>) = << >>
          /\ LineIds(c.buf) \in Seq(Nat) /\ line.id \in Nat
      BY <1>2, <3>2, LineIdsSmall, LineIdsConcat DEF Line
    <3>5. \A x \in Seq(Nat), i \in Nat : /\ Len(x \o << i >>) = Len(x) + 1 /\ Len(x \o << >>) = Len(x)
                                         /\ Len(x) \in Nat
      OBVIOUS
    <3> DEFINE x == LineIds(c.buf)
               i == line.id
    <3>6. x \in Seq(Nat) /\ i \in Nat /\ (LineIds(d.buf) = x \o << i >> \/ LineIds(d.buf) = x \o << >>)
      BY <3>3, <3>4
    <3> HIDE DEF x, i, d
    <3>7. Len(LineIds(d.buf)) \in {Len(x) + 1, Len(x)} /\ Len(x) \in Nat
      BY <3>5, <3>6
    <3>8. QED
      BY <2>1, <3>1, <3>7 DEF Buffered, Tidy, x
  <2>5. QED
    BY <2>2, <2>4, <2>3
<1>4. b = IF hand[w][1].flush THEN Flushed(d) ELSE d
  BY DEF Logged, line
<1> HIDE DEF b, d
<1>5. Tidy(Flushed(d)) /\ Buffered(Flushed(d)) = 0
  <2>1. 0 \in Nat
    OBVIOUS
  <2>2. QED
    BY <1>3, <2>1, BufferedLess DEF Less
<1>6. QED
  BY <1>1, <1>3, <1>4, <1>5 DEF b, c

TidyInv == \A n \in Names : Tidy(infos[n])

\* What Write(w) does to the log it writes to, and every other step to any.
LinesWritten(n) ==
  \E w \in Workers :
    /\ Write(w) /\ hand[w][1].name = n
    /\ Buffered(infos'[n]) <= Buffered(infos[n]) + 1
    /\ hand[w][1].flush => Buffered(infos'[n]) = 0

LEMMA TidyStep ==
  ASSUME TypeInv, TidyInv, [Next]_vars, NEW n \in Names
  PROVE  /\ Tidy(infos'[n])
         /\ Buffered(infos'[n]) <= Buffered(infos[n]) \/ LinesWritten(n)
<1> DEFINE Good == Less(infos'[n], infos[n])
<1>1. /\ infos \in [Names -> LogInfo] /\ clock \in Nat /\ \A m \in Names : infos[m] \in LogInfo
      /\ addFrom \in Nat /\ spent \in Budget
  BY CsvLogAssumption DEF TypeInv, TypeOK
<1>2. \A m \in Names : Tidy(infos[m])
  BY DEF TidyInv
<1>3. \A m \in Names :
        /\ Less(infos[m], infos[m]) /\ Less(Closed(infos[m], clock), infos[m])
        /\ Less(Broken(infos[m]), infos[m]) /\ Less(NotRenamed(infos[m]), infos[m])
        /\ Less(Forgotten(infos[m]), infos[m])
        /\ \A b \in FailedReloads(infos[m], clock) : Less(b, infos[m])
        /\ Less([Forgotten(infos[m]) EXCEPT !.state = "raw"], infos[m])
        /\ Less([infos[m] EXCEPT !.state = "linked"], infos[m])
        /\ infos[m].buf # << >> \/ infos[m].end = "glued" => Less(Spilled(infos[m]), infos[m])
        /\ Less(SpilledHalf(infos[m]), infos[m])
  BY <1>1, <1>2, BufferedLess
<1>4. ASSUME NEW m \in Names, Add(m)
      PROVE  Good
  BY <1>1, <1>3, <1>4 DEF Add
<1>5. ASSUME NEW m \in Names, AddGoesOn(m)
       PROVE  Good
  <2>1. CASE m = n
    <3>1. PICK b \in AddForms(infos[n]) : Alike(infos'[n], b)
      BY <1>1, <1>5, <2>1, AddGoing
    <3>2. Less(Opened(infos[n], addFrom), infos[n])
      BY <1>1, <1>2, BufferedLess
    <3>3. Less(b, infos[n])
      BY <1>3, <3>2 DEF AddForms
    <3>4. QED
      BY <3>1, <3>3 DEF Alike, Less, Tidy, Buffered
  <2>2. CASE m # n
    BY <1>1, <1>3, <1>5, <2>2, AddGoing
  <2>3. QED
    BY <2>1, <2>2
<1>6. ASSUME NEW m \in Names, AddDuplicate(m)
      PROVE  Good
  BY <1>1, <1>3, <1>6 DEF AddDuplicate
<1>7. ASSUME NEW m \in Names, Spill(m)
      PROVE  Good
  <2>1. PICK b \in {Spilled(infos[m]), SpilledHalf(infos[m])} : infos' = [infos EXCEPT ![m] = b]
    BY <1>7 DEF Spill
  <2>2. Less(b, infos[m])
    BY <1>3, <1>7 DEF Spill
  <2>3. QED
    BY <1>1, <1>3, <2>1, <2>2
<1>8. ASSUME Kill
      PROVE  Good
  BY <1>1, <1>3, <1>8 DEF Kill
<1>9. ASSUME NEW w \in Workers, WriteFails(w)
      PROVE  Good
  <2>1. \/ infos'[n] = infos[n] \/ infos'[n] = NotRenamed(infos[n])
        \/ infos'[n] \in FailedReloads(infos[n], clock)
    BY <1>1, <1>9 DEF WriteFails
  <2>2. QED
    BY <1>3, <2>1
<1>10. ASSUME NEW w \in Workers, NEW m \in Names, CloseOne(w, m)
      PROVE  Good
  <2>1. \E b \in {Closed(infos[m], clock), Broken(infos[m]), NotRenamed(infos[m])} :
          infos' = [infos EXCEPT ![m] = b]
    BY <1>10 DEF CloseOne
  <2>2. QED
    BY <1>1, <1>3, <2>1
<1>11. ASSUME NEW w \in Workers, Write(w)
       PROVE  Good \/ (Tidy(infos'[n]) /\ LinesWritten(n))
  <2>1. CASE hand[w][1].name # n
    <3>1. infos'[n] = infos[n]
      BY <1>1, <1>11, <2>1 DEF Write
    <3>2. QED
      BY <1>3, <3>1
  <2>2. CASE hand[w][1].name = n
    <3>1. infos'[n] = Logged(w, Current(w, infos[n])) /\ pc[w] = "write"
      BY <1>1, <1>11, <2>2 DEF Write
    <3>2. /\ Tidy(infos'[n]) /\ Buffered(infos'[n]) <= Buffered(infos[n]) + 1
          /\ hand[w][1].flush => Buffered(infos'[n]) = 0
      BY <1>1, <1>2, <3>1, BufferedLogged
    <3>3. QED
      BY <1>11, <2>2, <3>2 DEF LinesWritten
  <2>3. QED
    BY <2>1, <2>2
<1>12. infos' = infos => Good
  BY <1>3
<1> HIDE DEF Good
<1>13. Good \/ (Tidy(infos'[n]) /\ LinesWritten(n))
  BY <1>4, <1>6, <1>7, <1>8, <1>9, <1>10, <1>11, <1>12, <1>5, InfosStep
<1>14. QED
  BY <1>13 DEF Good, Less

LEMMA TidyInvNext == TypeInv /\ TidyInv /\ [Next]_vars => TidyInv'
  BY TidyStep DEF TidyInv

LEMMA OnlyOne ==
  ASSUME TypeInv, StopInv, spent.restarts = 0
  PROVE  1 \in Workers /\ \A w \in Workers : pc[w] # "none" => w = 1
<1>1. thread \in Nat /\ thread <= 1 /\ Workers \subseteq Nat \ {0} /\ 1 \in Workers
  BY CsvLogAssumption DEF TypeInv, TypeOK, Workers
<1>2. \A w \in Workers : w > thread => pc[w] = "none"
  BY DEF StopInv
<1>3. QED
  BY <1>1, <1>2

(***************************************************************************)
(* The queue holds the last logs it accepted, and the only worker holds    *)
(* the one before them.                                                    *)
(***************************************************************************)
Rest == Len(queue) + Len(hand[1])

LastAccepted ==
  /\ Rest <= Len(accepted)
  /\ \A k \in 1 .. Len(queue) : queue[k] = accepted[Len(accepted) - Len(queue) + k]
  /\ hand[1] # << >> => hand[1][1] = accepted[Len(accepted) - Len(queue)]

TailInv ==
  /\ \A w \in Workers : hand[w] # << >> => pc[w] \in {"taken", "write"}
  /\ spent.restarts = 0 => LastAccepted

LEMMA TailInvNext == TypeInv /\ StopInv /\ TailInv /\ [Next]_vars => TailInv'
<1> SUFFICES ASSUME TypeInv, StopInv, TailInv, [Next]_vars
             PROVE  TailInv'
  OBVIOUS
<1>1. /\ pc \in [Workers -> {"none", "check", "take", "taken", "write", "closing", "dead"}]
      /\ hand \in [Workers -> Seq(Log)] /\ queue \in Seq(Log) /\ accepted \in Seq(Log)
      /\ thread \in Nat /\ 1 \in Workers /\ Workers \subseteq Nat
  BY CsvLogAssumption DEF TypeInv, TypeOK, Workers
<1>2. /\ \A w \in Workers : hand[w] # << >> => pc[w] \in {"taken", "write"}
      /\ \A w \in Workers : pc[w] \in {"taken", "write"} => Len(hand[w]) = 1
  BY DEF TailInv, TypeInv
<1> DEFINE Hands == \A w \in Workers : hand'[w] # << >> => pc'[w] \in {"taken", "write"}
<1>3. Hands
  <2>1. UNCHANGED << hand, pc >> => Hands
    BY <1>2
  <2>2. ASSUME Startup
        PROVE  Hands
    <3>1. hand' = hand /\ pc' = [pc EXCEPT ![thread + 1] = "check"]
      BY <2>2 DEF Startup
    <3>2. thread + 1 \in Workers => pc[thread + 1] = "none"
      BY <1>1 DEF StopInv
    <3>3. \A w \in Workers : pc'[w] = pc[w] \/ pc[w] = "none"
      BY <1>1, <3>1, <3>2
    <3>4. QED
      BY <1>2, <3>1, <3>3
  <2>3. ASSUME Kill
        PROVE  Hands
    BY <2>3 DEF Kill
  <2>4. ASSUME NEW w \in Workers, Worker(w)
        PROVE  Hands
    <3>1. /\ \A v \in Workers : v # w => hand'[v] = hand[v] /\ pc'[v] = pc[v]
          /\ hand'[w] # << >> => pc'[w] \in {"taken", "write"}
      BY <1>1, <1>2, <2>4 DEF Worker, CheckStop, Take, TakeInterrupted, ReadClock, Write, WriteFails,
                              CloseOne, Leave
    <3>2. QED
      BY <1>2, <3>1
  <2> HIDE DEF Hands
  <2>5. CASE Next
    <3>1. CASE Tick \/ \E n \in Names : Spill(n)
      BY <2>1, <3>1 DEF Tick, Spill, workVars
    <3>2. CASE Manager
      BY <2>1, <2>2, <3>2 DEF Manager, Interrupt, Stop, JoinReturns, Add, AddCheck, AddTest,
                                    AddNext, AddOpen, AddDuplicate, workVars
    <3>3. CASE \E p \in Producers : Producer(p)
      BY <2>1, <3>3 DEF Producer, Begin, Commit, Rollback, Offer, OfferFails, WriteLog, workVars
    <3>4. QED
      BY <2>3, <2>4, <2>5, <3>1, <3>2, <3>3 DEF Next
  <2>6. CASE UNCHANGED vars
    BY <2>1, <2>6 DEF vars, workVars
  <2>7. QED
    BY <2>5, <2>6
<1>4. ASSUME spent'.restarts = 0
      PROVE  LastAccepted'
  <2>1. spent.restarts = 0 /\ LastAccepted
    BY <1>4, SpentGrows DEF TailInv
  <2>2. /\ Len(queue) + Len(hand[1]) <= Len(accepted)
        /\ \A k \in 1 .. Len(queue) : queue[k] = accepted[Len(accepted) - Len(queue) + k]
        /\ hand[1] # << >> => hand[1][1] = accepted[Len(accepted) - Len(queue)]
    BY <2>1 DEF LastAccepted, Rest
  <2>3. hand[1] \in Seq(Log) /\ Len(hand[1]) \in Nat /\ Len(queue) \in Nat /\ Len(accepted) \in Nat
    BY <1>1
  <2>4. CASE UNCHANGED << queue, hand, accepted >>
    BY <2>2, <2>4 DEF LastAccepted, Rest
  <2>5. CASE Kill
    BY <1>1, <2>5 DEF Kill, LastAccepted, Rest
  <2>6. ASSUME NEW p \in Producers, Offer(p)
        PROVE  LastAccepted'
    <3> DEFINE x == Head(out[p])
               q == Append(queue, x)
               s == Append(accepted, x)
    <3>1. queue' = q /\ accepted' = s /\ hand' = hand
      BY <2>6 DEF Offer, workVars
    <3>2. /\ Len(q) = Len(queue) + 1 /\ q[Len(queue) + 1] = x
          /\ \A k \in 1 .. Len(queue) : q[k] = queue[k]
          /\ Len(s) = Len(accepted) + 1 /\ s[Len(accepted) + 1] = x
          /\ \A k \in 1 .. Len(accepted) : s[k] = accepted[k]
      BY <1>1
    <3> HIDE DEF x, q, s
    <3>3. \A k \in 1 .. Len(q) : q[k] = s[Len(s) - Len(q) + k]
      <4> SUFFICES ASSUME NEW k \in 1 .. Len(q)
                   PROVE  q[k] = s[Len(s) - Len(q) + k]
        OBVIOUS
      <4>1. Len(s) - Len(q) + k = Len(accepted) - Len(queue) + k /\ k \in Nat
        BY <2>3, <3>2
      <4>2. CASE k = Len(queue) + 1
        <5>1. Len(accepted) - Len(queue) + k = Len(accepted) + 1
          BY <2>3, <4>2
        <5>2. QED
          BY <3>2, <4>1, <4>2, <5>1
      <4>3. CASE k \in 1 .. Len(queue)
        <5>1. Len(accepted) - Len(queue) + k \in 1 .. Len(accepted)
          BY <2>2, <2>3, <4>3
        <5>2. QED
          BY <2>2, <3>2, <4>1, <4>3, <5>1
      <4>4. QED
        BY <2>3, <3>2, <4>2, <4>3
    <3>4. hand[1] # << >> => hand[1][1] = s[Len(s) - Len(q)]
      <4> SUFFICES ASSUME hand[1] # << >>
                   PROVE  hand[1][1] = s[Len(s) - Len(q)]
        OBVIOUS
      <4>1. Len(hand[1]) # 0
        BY <2>3
      <4>2. Len(s) - Len(q) = Len(accepted) - Len(queue) /\ Len(accepted) - Len(queue) \in 1 .. Len(accepted)
        BY <2>2, <2>3, <3>2, <4>1
      <4>3. QED
        BY <2>2, <3>2, <4>2
    <3>5. Len(queue') + Len(hand'[1]) <= Len(accepted')
      <4>1. Len(q) + Len(hand[1]) <= Len(s)
        <5>1. Len(q) = Len(queue) + 1 /\ Len(s) = Len(accepted) + 1
          BY <3>2
        <5>2. \A a, b, c \in Nat : a + b <= c => (a + 1) + b <= c + 1
          OBVIOUS
        <5>3. QED
          BY <2>2, <2>3, <5>1, <5>2
      <4>2. QED
        BY <3>1, <4>1
    <3>6. hand'[1] = hand[1]
      BY <3>1
    <3>7. QED
      BY <3>1, <3>3, <3>4, <3>5, <3>6 DEF LastAccepted, Rest
  <2>7. ASSUME NEW w \in Workers, Take(w)
        PROVE  LastAccepted'
    <3>1. /\ w = 1 /\ hand[1] = << >> /\ queue # << >> /\ hand'[1] = << Head(queue) >>
          /\ queue' = Tail(queue) /\ accepted' = accepted
      <4>1. w = 1
        BY <2>1, <2>7, OnlyOne DEF Take
      <4>2. QED
        BY <1>1, <1>2, <2>7, <4>1 DEF Take, histVars
    <3>2. /\ Len(queue') = Len(queue) - 1 /\ Len(hand'[1]) = 1 /\ Len(hand[1]) = 0
          /\ hand'[1][1] = queue[1] /\ 1 \in 1 .. Len(queue)
          /\ \A k \in 1 .. Len(queue) - 1 : queue'[k] = queue[k + 1]
      BY <1>1, <3>1
    <3>3. ASSUME NEW k \in 1 .. Len(queue')
          PROVE  queue'[k] = accepted[Len(accepted) - Len(queue') + k]
      <4>1. k + 1 \in 1 .. Len(queue) /\ k \in 1 .. Len(queue) - 1
            /\ Len(accepted) - Len(queue') + k = Len(accepted) - Len(queue) + (k + 1)
        BY <2>3, <3>2
      <4>2. QED
        BY <2>2, <3>2, <4>1
    <3>4. hand'[1][1] = accepted[Len(accepted) - Len(queue')]
      <4>1. Len(accepted) - Len(queue') = Len(accepted) - Len(queue) + 1
        BY <2>3, <3>2
      <4>2. QED
        BY <2>2, <3>2, <4>1
    <3>5. QED
      BY <2>2, <2>3, <3>1, <3>2, <3>3, <3>4 DEF LastAccepted, Rest
  <2>8. ASSUME NEW w \in Workers, Write(w) \/ WriteFails(w)
        PROVE  LastAccepted'
    <3>1. queue' = queue /\ accepted' = accepted /\ \E v \in Workers : hand' = [hand EXCEPT ![v] = << >>]
      BY <2>8 DEF Write, WriteFails, histVars
    <3>2. hand'[1] = << >> \/ hand'[1] = hand[1]
      BY <1>1, <3>1
    <3>3. QED
      BY <2>2, <2>3, <3>1, <3>2 DEF LastAccepted, Rest
  <2>9. queue' # queue \/ ~ \E p \in Producers : Offer(p)
    <3>1. \A x : Len(Append(queue, x)) # Len(queue)
      BY <1>1
    <3>2. QED
      BY <3>1 DEF Offer
  <2>10. accepted' = accepted \/ \E p \in Producers : Offer(p)
    BY LogsStep DEF Kill, Commit, Rollback, OfferFails, WriteLog, histVars
  <2>11. QED
    BY <2>4, <2>5, <2>6, <2>7, <2>8, <2>9, <2>10, QueueStep
<1>5. QED
  BY <1>3, <1>4 DEF TailInv

(***************************************************************************)
(* The inductive invariant: for some log e, accepted when the process      *)
(* began, all since then is as Windows and Filling say.                    *)
(***************************************************************************)
WindowOf(n, e) ==
  /\ Windows(n, e, accepted, out, missed[n], counter[n])
  /\ Filling(n, e, accepted, Buffered(infos[n]), Rest, ~FirstEnding)

WindowInv ==
  spent.restarts = 0 =>
    \A n \in Names \ TxNames : FlushMode[n] = "auto" => \E e \in 0 .. Len(accepted) : WindowOf(n, e)

LEMMA WindowType ==
  ASSUME TypeInv, NEW n \in Names
  PROVE  /\ accepted \in Seq(Log) /\ Len(accepted) \in Nat /\ missed[n] \in Nat
         /\ counter[n] \in 0 .. Limit - 1 /\ Limit \in Nat \ {0} /\ out \in [Producers -> Seq(Log)]
         /\ list \in [Producers -> Seq(Log)] /\ infos[n] \in LogInfo /\ Buffered(infos[n]) \in Nat
         /\ 1 \in Workers /\ hand[1] \in Seq(Log) /\ Len(hand[1]) \in Nat /\ Len(queue) \in Nat
<1>1. Limit \in Nat \ {0} /\ 1 \in Workers
  BY CsvLogAssumption DEF Workers
<1>2. /\ accepted \in Seq(Log) /\ missed \in [Names -> Nat] /\ counter \in [Names -> 0 .. Limit - 1]
      /\ out \in [Producers -> Seq(Log)] /\ list \in [Producers -> Seq(Log)]
      /\ infos \in [Names -> LogInfo] /\ hand \in [Workers -> Seq(Log)] /\ queue \in Seq(Log)
  BY DEF TypeInv, TypeOK
<1>3. Buffered(infos[n]) \in Nat
  BY <1>2, BufferedType
<1>4. QED
  BY <1>1, <1>2, <1>3

LEMMA WindowHolds ==
  ASSUME TypeInv, WindowInv
  PROVE  AutoFlushWindow
<1> SUFFICES ASSUME NEW n \in Names \ TxNames, FlushMode[n] = "auto", spent.restarts = 0
             PROVE  Buffered(infos[n]) <= WindowBound(n)
  BY DEF AutoFlushWindow, Buffered
<1>1. PICK e \in 0 .. Len(accepted) : WindowOf(n, e)
  BY DEF WindowInv
<1>2. PICK a \in e + 1 .. Len(accepted) + 1, b \in e .. Len(accepted) :
        Calm(accepted, n, a, b) /\ Buffered(infos[n]) <= Size(accepted, n, a, b)
  BY <1>1 DEF WindowOf, Filling
<1>3. /\ Len(accepted) \in Nat /\ missed[n] \in Nat /\ Buffered(infos[n]) \in Nat
      /\ Limit \in Nat \ {0} /\ Cardinality(Producers) \in Nat \ {0}
  BY WindowType, HeldSizes
<1>4. b \in 0 .. Len(accepted) /\ a \in Nat /\ b \in Nat
  BY <1>2, <1>3
<1>5. Size(accepted, n, a, b) <= WindowBound(n)
  BY <1>1, <1>2, <1>4 DEF WindowOf, Windows, WindowBound
<1>6. Size(accepted, n, a, b) \in Nat
  BY <1>4, SizeNone
<1>7. WindowBound(n) \in Nat
  <2> DEFINE k == Limit - 1
  <2>1. k \in Nat
    BY <1>3
  <2> HIDE DEF k
  <2>2. (Cardinality(Producers) + missed[n]) * k + (Cardinality(Producers) - 1) \in Nat
    BY <1>3, <2>1, WindowArithmetic
  <2>3. QED
    BY <2>2 DEF WindowBound, k
<1>8. QED
  BY <1>2, <1>3, <1>5, <1>6, <1>7

\* A new process: nothing is held back, counted or buffered.
LEMMA WindowStarts ==
  ASSUME NEW s \in Seq(Log), NEW n, NEW o, \A p \in Producers : o[p] = << >>,
         NEW alive
  PROVE  Windows(n, Len(s), s, o, 0, 0) /\ Filling(n, Len(s), s, 0, 0, alive)
<1> DEFINE N == Len(s)
           P == Cardinality(Producers)
           k == Limit - 1
<1>1. N \in Nat /\ N + 1 \in Nat /\ N + 1 > N
  OBVIOUS
<1>2. k \in Nat /\ P \in Nat \ {0}
  <2>1. Limit \in Nat \ {0}
    BY CsvLogAssumption
  <2>2. k \in Nat
    BY <2>1
  <2>3. QED
    BY <2>2, HeldSizes
<1>3. Held(o, n, TRUE) = {} /\ Held(o, n, FALSE) = {}
  BY DEF Held
<1>4. Cardinality(Held(o, n, TRUE)) = 0 /\ Cardinality(Held(o, n, FALSE)) = 0
  BY <1>3, FS_EmptySet
<1> HIDE DEF N, P, k
<1>5. \A a \in N + 1 .. N + 1, b \in 0 .. N : Size(s, n, a, b) = 0 /\ Calm(s, n, a, b)
  <2>1. \A a \in N + 1 .. N + 1, b \in 0 .. N : a \in Nat /\ b \in Nat /\ a > b
    BY <1>1
  <2>2. QED
    BY <2>1, SizeNone
<1>6. N \in 0 .. N /\ N \in N .. N /\ N + 1 \in N + 1 .. N + 1
  BY <1>1
<1>7. (P + 0) * k + (P - 1) \in Nat /\ (0 + 0) * k = 0 /\ (P - 1) + 0 + 0 \in Nat
  BY <1>2
<1>8. Windows(n, N, s, o, 0, 0)
  <2>1. \A a \in N + 1 .. N + 1, b \in 0 .. N : Size(s, n, a, b) <= (P + 0) * k + (P - 1)
    BY <1>5, <1>7
  <2>2. \A a \in N + 1 .. N + 1 : Size(s, n, a, N) + 0 <= (P - 1) + (0 + 0) * k + 0
    BY <1>2, <1>5, <1>6, <1>7
  <2>3. QED
    BY <1>4, <2>1, <2>2 DEF Windows, Room, N, P, k
<1>9. Filling(n, N, s, 0, 0, alive)
  <2>1. N + 1 <= N + 1 /\ 0 <= Size(s, n, N + 1, N) /\ N = N - 0
    BY <1>1, <1>5, <1>6
  <2>2. QED
    BY <1>5, <1>6, <2>1 DEF Filling, N
<1>10. QED
  BY <1>8, <1>9 DEF N

\* A producer's step other than an offer the queue takes: what it holds, the
\* counter and the refused logs.
LEMMA HeldStep ==
  ASSUME TypeInv, OrderInv, AloneInv, NEW n \in Names \ TxNames, FlushMode[n] = "auto",
         NEW p \in Producers,
         \/ Begin(p) \/ Commit(p) \/ Rollback(p) \/ OfferFails(p)
         \/ \E m \in Names, roll \in BOOLEAN : WriteLog(p, m, roll),
         NEW e \in 0 .. Len(accepted), Windows(n, e, accepted, out, missed[n], counter[n])
  PROVE  Windows(n, e, accepted, out', missed'[n], counter'[n])
<1> DEFINE u == Cardinality(Held(out, n, TRUE))
           v == Cardinality(Held(out, n, FALSE))
           x == Cardinality(Held(out', n, TRUE))
           y == Cardinality(Held(out', n, FALSE))
<1>1. /\ missed[n] \in Nat /\ counter[n] \in Nat /\ counter[n] <= Limit - 1
      /\ Limit \in Nat \ {0}
  <2>1. counter[n] \in 0 .. Limit - 1 /\ Limit \in Nat \ {0} /\ missed[n] \in Nat
    BY WindowType
  <2>2. QED
    BY <2>1
<1>2. /\ accepted \in Seq(Log) /\ out \in [Producers -> Seq(Log)] /\ list \in [Producers -> Seq(Log)]
      /\ counter \in [Names -> 0 .. Limit - 1] /\ missed \in [Names -> Nat]
  BY DEF TypeInv, TypeOK
<1>3. u \in Nat /\ v \in Nat /\ x \in Nat /\ y \in Nat
  BY HeldSizes
<1>4. ASSUME \A r \in Producers \ {p} : out'[r] = out[r]
      PROVE  /\ p \notin Held(out, n, TRUE) /\ p \in Held(out', n, TRUE) => x = u + 1
             /\ p \in Held(out, n, TRUE) /\ p \notin Held(out', n, TRUE) => x = u - 1
             /\ (p \in Held(out, n, TRUE) <=> p \in Held(out', n, TRUE)) => x = u
             /\ p \notin Held(out, n, FALSE) /\ p \in Held(out', n, FALSE) => y = v + 1
             /\ p \in Held(out, n, FALSE) /\ p \notin Held(out', n, FALSE) => y = v - 1
             /\ (p \in Held(out, n, FALSE) <=> p \in Held(out', n, FALSE)) => y = v
  <2> DEFINE o1 == out'
  <2>1. \A r \in Producers \ {p} : o1[r] = out[r]
    BY <1>4
  <2> HIDE DEF o1
  <2>2. \A f \in BOOLEAN :
           /\ p \notin Held(out, n, f) /\ p \in Held(o1, n, f) =>
                Cardinality(Held(o1, n, f)) = Cardinality(Held(out, n, f)) + 1
           /\ p \in Held(out, n, f) /\ p \notin Held(o1, n, f) =>
                Cardinality(Held(o1, n, f)) = Cardinality(Held(out, n, f)) - 1
           /\ (p \in Held(out, n, f) <=> p \in Held(o1, n, f)) =>
                Cardinality(Held(o1, n, f)) = Cardinality(Held(out, n, f))
    BY <2>1, HeldChange
  <2>3. TRUE \in BOOLEAN /\ FALSE \in BOOLEAN
    OBVIOUS
  <2>4. QED
    BY <2>2, <2>3 DEF o1
\* What is shown of each step.
<1> DEFINE Fits ==
      /\ missed'[n] \in Nat /\ counter'[n] \in Nat /\ missed[n] <= missed'[n]
      /\ \/ x = u /\ y <= v /\ missed'[n] = missed[n] /\ counter'[n] = counter[n]
         \/ x = u /\ y = v + 1 /\ missed'[n] = missed[n] /\ counter'[n] = counter[n] + 1
         \/ x = u + 1 /\ y = v /\ missed'[n] = missed[n] /\ counter[n] = Limit - 1 /\ counter'[n] = 0
         \/ u = x + 1 /\ y = v /\ missed'[n] = missed[n] + 1 /\ counter'[n] = counter[n]
<1>5. ASSUME Fits
      PROVE  Windows(n, e, accepted, out', missed'[n], counter'[n])
  <2> DEFINE m1 == missed'[n]
             c1 == counter'[n]
             o1 == out'
  <2>1. /\ m1 \in Nat /\ c1 \in Nat /\ missed[n] <= m1
        /\ \/ x = u /\ y <= v /\ m1 = missed[n] /\ c1 = counter[n]
           \/ x = u /\ y = v + 1 /\ m1 = missed[n] /\ c1 = counter[n] + 1
           \/ x = u + 1 /\ y = v /\ m1 = missed[n] /\ counter[n] = Limit - 1 /\ c1 = 0
           \/ u = x + 1 /\ y = v /\ m1 = missed[n] + 1 /\ c1 = counter[n]
        /\ x = Cardinality(Held(o1, n, TRUE)) /\ y = Cardinality(Held(o1, n, FALSE))
    BY <1>5
  <2> HIDE DEF m1, c1, o1, x, y
  <2>2. Windows(n, e, accepted, o1, m1, c1)
    BY <1>2, <1>1, <2>1, WindowsHeld
  <2>3. QED
    BY <2>2 DEF m1, c1, o1
<1> HIDE DEF u, v, x, y
<1>6. ASSUME Begin(p) \/ Rollback(p)
      PROVE  Fits
  <2>1. out' = out /\ missed' = missed /\ counter' = counter
    BY <1>6 DEF Begin, Rollback, histVars
  <2>2. x = u /\ y = v
    BY <1>4, <2>1
  <2>3. QED
    BY <1>1, <1>3, <2>1, <2>2
<1>7. ASSUME Commit(p)
      PROVE  Fits
  <2>1. out[p] = << >> /\ out' = [out EXCEPT ![p] = list[p]] /\ missed' = missed /\ counter' = counter
    BY <1>7 DEF Commit, histVars
  <2>2. list[p] # << >> => list[p][1].name # n
    <3>1. list[p] # << >> => 1 \in DOMAIN list[p]
      BY <1>2, <1>1
    <3>2. QED
      BY <3>1 DEF OrderInv, Behind
  <2>3. x = u /\ y = v
    <3>1. /\ \A r \in Producers \ {p} : out'[r] = out[r]
          /\ \A f \in BOOLEAN : p \notin Held(out, n, f) /\ p \notin Held(out', n, f)
      BY <1>2, <2>1, <2>2 DEF Held
    <3>2. TRUE \in BOOLEAN /\ FALSE \in BOOLEAN
      OBVIOUS
    <3>3. QED
      BY <1>4, <3>1, <3>2
  <2>4. QED
    BY <1>2, <1>1, <1>3, <2>1, <2>3
<1>8. ASSUME NEW m \in Names, NEW roll \in BOOLEAN, WriteLog(p, m, roll)
      PROVE  Fits
  <2> DEFINE count == (counter[m] + 1) % Limit
             log   == [ id |-> nextId, by |-> p, name |-> m, roll |-> roll,
                        via |-> IF m \in TxNames /\ list[p] # << >> THEN list[p][1].via ELSE m,
                        flush |-> \/ FlushMode[m] = "auto" /\ count = 0
                                  \/ FlushMode[m] = "always" ]
  <2>1. /\ out[p] = << >> /\ missed' = missed
        /\ counter' = [counter EXCEPT ![m] = IF FlushMode[m] = "auto" THEN count ELSE @]
        /\ m \in TxNames => out' = out
        /\ m \notin TxNames => out' = [out EXCEPT ![p] = << log >>]
    BY <1>8 DEF WriteLog, histVars
  <2>2. log.name = m /\ (m = n => log.flush = (count = 0))
    OBVIOUS
  <2>3. CASE m # n
    <3>1. counter'[n] = counter[n]
      BY <1>2, <1>1, <2>1, <2>3
    <3>2. /\ \A f \in BOOLEAN : p \in Held(out', n, f) <=> p \in Held(out, n, f)
          /\ \A r \in Producers \ {p} : out'[r] = out[r]
      <4> HIDE DEF log
      <4>1. QED
        BY <1>2, <1>1, <2>1, <2>2, <2>3 DEF Held
    <3>3. x = u /\ y = v
      <4>1. TRUE \in BOOLEAN /\ FALSE \in BOOLEAN
        OBVIOUS
      <4>2. QED
        BY <1>4, <3>2, <4>1
    <3>4. QED
      BY <1>1, <1>3, <2>1, <3>1, <3>3
  <2>4. CASE m = n
    <3>1. counter'[n] = count /\ out' = [out EXCEPT ![p] = << log >>]
      BY <1>2, <1>1, <2>1, <2>4
    <3>2. /\ count = 0 => counter[n] = Limit - 1
          /\ count # 0 => count = counter[n] + 1
      <4>1. \A c, l \in Nat : /\ c < l - 1 => (c + 1) % l = c + 1
                              /\ c = l - 1 => (c + 1) % l = 0
        OBVIOUS
      <4> DEFINE c == counter[n]
      <4>2. c \in Nat /\ Limit \in Nat /\ c <= Limit - 1 /\ count = (c + 1) % Limit
        BY <1>1, <2>4
      <4> HIDE DEF c, count, log
      <4>3. c < Limit - 1 \/ c = Limit - 1
        BY <4>2
      <4>4. QED
        BY <4>1, <4>2, <4>3 DEF c
    <3>3. count \in Nat
      BY <1>2, <1>1, <3>2
    <3>4. \A r \in Producers \ {p} : out'[r] = out[r]
      BY <1>2, <1>1, <3>1
    <3>5. \A f \in BOOLEAN : p \notin Held(out, n, f)
      BY <2>1 DEF Held
    <3>6. /\ p \in Held(out', n, TRUE) <=> count = 0
          /\ p \in Held(out', n, FALSE) <=> count # 0
      <4> HIDE DEF log, count
      <4>1. out'[p] = << log >>
        BY <1>2, <1>1, <3>1
      <4>2. out'[p] # << >> /\ out'[p][1] = log
        BY <4>1
      <4>3. log.name = n /\ log.flush = (count = 0)
        BY <2>2, <2>4
      <4>4. QED
        BY <4>2, <4>3 DEF Held
    <3> HIDE DEF count, log
    <3>7. CASE count = 0
      <4>1. x = u + 1 /\ y = v
        BY <3>4, <3>5, <3>6, <3>7, <1>4
      <4>2. QED
        BY <1>2, <1>1, <2>1, <3>1, <3>2, <3>7, <4>1
    <3>8. CASE count # 0
      <4>1. x = u /\ y = v + 1
        BY <3>4, <3>5, <3>6, <3>8, <1>4
      <4>2. QED
        BY <1>2, <1>1, <2>1, <3>1, <3>2, <3>3, <3>8, <4>1
    <3>9. QED
      BY <3>7, <3>8
  <2>5. QED
    BY <2>3, <2>4
<1>9. ASSUME OfferFails(p)
      PROVE  Fits
  <2> DEFINE lost == { i \in 1 .. Len(out[p]) : out[p][i].name = n /\ out[p][i].flush }
  <2>1. /\ out[p] # << >> /\ out' = [out EXCEPT ![p] = << >>] /\ counter' = counter
        /\ missed'[n] = missed[n] + Cardinality(lost)
    BY <1>2, <1>1, <1>9 DEF OfferFails
  <2>2. /\ \A r \in Producers \ {p} : out'[r] = out[r]
        /\ \A f \in BOOLEAN : p \notin Held(out', n, f)
    BY <1>2, <1>1, <2>1 DEF Held
  <2>3. out[p] \in Seq(Log) /\ 1 \in 1 .. Len(out[p]) /\ out[p][1] \in Log /\ out[p][1].flush \in BOOLEAN
    <3>1. out[p] \in Seq(Log) /\ 1 \in 1 .. Len(out[p])
      BY <1>2, <1>1, <2>1
    <3>2. out[p][1] \in Log
      BY <3>1
    <3>3. QED
      BY <3>1, <3>2 DEF Log
  <2>4. (\E i \in 1 .. Len(out[p]) : out[p][i].name = n) => Len(out[p]) = 1
    BY <2>3 DEF AloneInv
  <2>5. CASE out[p][1].name # n
    <3>1. lost = {}
      <4>1. ASSUME NEW i \in 1 .. Len(out[p]), out[p][i].name = n
            PROVE  FALSE
        <5>1. i = 1
          BY <2>3, <2>4, <4>1
        <5>2. QED
          BY <2>5, <4>1, <5>1
      <4>2. QED
        BY <4>1
    <3>2. missed'[n] = missed[n]
      <4>1. Cardinality(lost) = 0
        BY <3>1, FS_EmptySet
      <4> HIDE DEF lost
      <4>2. QED
        BY <1>1, <2>1, <4>1
    <3>3. \A f \in BOOLEAN : p \notin Held(out, n, f)
      BY <2>5 DEF Held
    <3>4. x = u /\ y = v
      BY <1>4, <2>2, <3>3
    <3>5. QED
      BY <1>2, <1>1, <1>3, <2>1, <3>2, <3>4
  <2>6. CASE out[p][1].name = n /\ ~out[p][1].flush
    <3>1. Len(out[p]) = 1
      BY <2>3, <2>4, <2>6
    <3>2. lost = {}
      BY <2>6, <3>1
    <3>3. missed'[n] = missed[n]
      <4>1. Cardinality(lost) = 0
        BY <3>2, FS_EmptySet
      <4> HIDE DEF lost
      <4>2. QED
        BY <1>1, <2>1, <4>1
    <3>4. p \in Held(out, n, FALSE) /\ p \notin Held(out, n, TRUE)
      BY <2>1, <2>3, <2>6 DEF Held
    <3>5. x = u /\ y = v - 1
      BY <2>2, <3>4, <1>4
    <3>6. QED
      BY <1>2, <1>1, <1>3, <2>1, <3>3, <3>5
  <2>7. CASE out[p][1].name = n /\ out[p][1].flush
    <3>1. Len(out[p]) = 1
      BY <2>3, <2>4, <2>7
    <3>2. lost = {1}
      BY <2>7, <3>1
    <3>3. missed'[n] = missed[n] + 1
      <4>1. IsFiniteSet({}) /\ Cardinality({}) = 0
        BY FS_EmptySet
      <4>2. Cardinality({} \union {1}) = 1
        <5>1. 1 \notin {}
          OBVIOUS
        <5>2. Cardinality({} \union {1}) = Cardinality({}) + 1
          BY <4>1, <5>1, FS_AddElement, Zenon
        <5>3. QED
          BY <4>1, <5>2
      <4>3. Cardinality(lost) = 1
        <5>1. lost = {} \union {1}
          BY <3>2
        <5> HIDE DEF lost
        <5>2. QED
          BY <4>2, <5>1, Zenon
      <4> HIDE DEF lost
      <4>4. QED
        BY <1>1, <2>1, <4>3
    <3>4. p \in Held(out, n, TRUE) /\ p \notin Held(out, n, FALSE)
      BY <2>1, <2>3, <2>7 DEF Held
    <3>5. x = u - 1 /\ y = v
      BY <2>2, <3>4, <1>4
    <3>6. QED
      BY <1>2, <1>1, <1>3, <2>1, <3>3, <3>5
  <2>8. QED
    BY <2>5, <2>6, <2>7
<1> HIDE DEF Fits
<1>10. QED
  BY <1>5, <1>6, <1>7, <1>8, <1>9

LEMMA EndingStays ==
  ASSUME TypeInv, StopInv, [Next]_vars, ~Kill, FirstEnding
  PROVE  FirstEnding'
<1>1. /\ pc \in [Workers -> {"none", "check", "take", "taken", "write", "closing", "dead"}]
      /\ thread \in Nat /\ 1 \in Workers /\ pc[1] \in {"closing", "dead"}
  BY CsvLogAssumption DEF TypeInv, TypeOK, Workers, FirstEnding
<1>2. pc' = pc => FirstEnding'
  BY <1>1 DEF FirstEnding
<1>3. ASSUME Startup
      PROVE  FirstEnding'
  <2>1. pc' = [pc EXCEPT ![thread + 1] = "check"]
    BY <1>3 DEF Startup
  <2>2. thread + 1 # 1
    BY <1>1 DEF StopInv
  <2>3. QED
    BY <1>1, <2>1, <2>2 DEF FirstEnding
<1>4. ASSUME NEW w \in Workers, Worker(w)
      PROVE  FirstEnding'
  <2>1. CASE w = 1
    BY <1>1, <1>4, <2>1 DEF Worker, CheckStop, Take, TakeInterrupted, ReadClock, Write, WriteFails,
                            CloseOne, Leave, FirstEnding
  <2>2. CASE w # 1
    <3>1. pc'[1] = pc[1]
      BY <1>1, <1>4, <2>2 DEF Worker, CheckStop, Take, TakeInterrupted, ReadClock, Write, WriteFails,
                              CloseOne, Leave
    <3>2. QED
      BY <1>1, <3>1 DEF FirstEnding
  <2>3. QED
    BY <2>1, <2>2
<1>5. CASE Next
  <2>1. CASE Tick \/ \E n \in Names : Spill(n)
    BY <1>2, <2>1 DEF Tick, Spill, workVars
  <2>2. CASE Manager
    BY <1>2, <1>3, <2>2 DEF Manager, Interrupt, Stop, JoinReturns, Add, AddCheck, AddTest,
                                    AddNext, AddOpen, AddDuplicate, workVars
  <2>3. CASE \E p \in Producers : Producer(p)
    BY <1>2, <2>3 DEF Producer, Begin, Commit, Rollback, Offer, OfferFails, WriteLog, workVars
  <2>4. QED
    BY <1>4, <1>5, <2>1, <2>2, <2>3 DEF Next
<1>6. CASE UNCHANGED vars
  BY <1>2, <1>6 DEF vars, workVars
<1>7. QED
  BY <1>5, <1>6

\* What the lines of n, and what is left in queue and hand, make of Filling.
LEMMA FillingStep ==
  ASSUME TypeInv, TypeInv', StopInv, TidyInv, TailInv, [Next]_vars, ~Kill,
         spent.restarts = 0, \A p \in Producers : ~Offer(p), NEW n \in Names,
         NEW e \in 0 .. Len(accepted),
         Filling(n, e, accepted, Buffered(infos[n]), Rest, ~FirstEnding)
  PROVE  Filling(n, e, accepted, Buffered(infos'[n]), Rest', ~FirstEnding')
<1>1. /\ accepted \in Seq(Log) /\ Buffered(infos[n]) \in Nat /\ Buffered(infos'[n]) \in Nat
      /\ Len(hand[1]) \in Nat /\ Len(queue) \in Nat /\ 1 \in Workers /\ hand \in [Workers -> Seq(Log)]
      /\ queue \in Seq(Log)
  <2>1. infos' \in [Names -> LogInfo] /\ hand \in [Workers -> Seq(Log)] /\ queue \in Seq(Log)
    BY DEF TypeInv, TypeOK
  <2>2. Buffered(infos'[n]) \in Nat
    <3>1. infos'[n] \in LogInfo
      BY <2>1
    <3>2. QED
      BY <3>1, BufferedType
  <2>3. QED
    BY <2>1, <2>2, WindowType
<1>2. Buffered(infos'[n]) <= Buffered(infos[n]) \/ LinesWritten(n)
  BY TidyStep
<1>3. LastAccepted /\ \A w \in Workers : pc[w] # "none" => w = 1
  BY OnlyOne DEF TailInv
<1>4. FirstEnding => FirstEnding'
  BY EndingStays
<1>5. ASSUME Buffered(infos'[n]) <= Buffered(infos[n]), ~FirstEnding' => Rest' = Rest
      PROVE  Filling(n, e, accepted, Buffered(infos'[n]), Rest', ~FirstEnding')
  <2> DEFINE less == Buffered(infos'[n])
             more == Rest'
             still == ~FirstEnding'
  <2>1. /\ less \in Nat /\ less <= Buffered(infos[n])
        /\ still => ~FirstEnding /\ more = Rest
    BY <1>1, <1>4, <1>5
  <2> HIDE DEF less, more, still
  <2>2. Filling(n, e, accepted, less, more, still)
    BY <1>1, <2>1, FillingLess
  <2>3. QED
    BY <2>2 DEF less, more, still
<1>6. ASSUME NEW w \in Workers, Write(w)
      PROVE  Filling(n, e, accepted, Buffered(infos'[n]), Rest', ~FirstEnding')
  <2> DEFINE x == accepted[Len(accepted) - Rest + 1]
  <2>1. w = 1 /\ pc[1] = "write" /\ pc'[1] = "check"
    <3>1. pc[w] = "write" /\ pc' = [pc EXCEPT ![w] = "check"]
      BY <1>6 DEF Write
    <3>2. DOMAIN pc = Workers
      BY DEF TypeInv, TypeOK
    <3>3. QED
      BY <1>3, <3>1, <3>2
  <2>2. /\ hand'[1] = << >> /\ queue' = queue /\ Len(hand[1]) = 1 /\ hand[1] # << >>
    BY <1>1, <1>6, <2>1 DEF Write, TypeInv
  <2>3. Rest \in Nat /\ Rest >= 1 /\ Rest <= Len(accepted) /\ Rest' = Rest - 1 /\ hand[1][1] = x
    <3>1. Rest = Len(queue) + 1 /\ Rest' = Len(queue)
      BY <1>1, <2>2 DEF Rest
    <3>2. Len(accepted) - Rest + 1 = Len(accepted) - Len(queue)
      BY <1>1, <3>1
    <3>3. QED
      BY <1>1, <1>3, <2>2, <3>1, <3>2 DEF LastAccepted
  <2>4. ~FirstEnding /\ ~FirstEnding'
    BY <2>1 DEF FirstEnding
  <2>5. LinesWritten(n) => /\ x.name = n
                           /\ Buffered(infos'[n]) <= Buffered(infos[n]) + 1
                           /\ x.flush => Buffered(infos'[n]) = 0
    <3>1. ASSUME NEW v \in Workers, Write(v)
          PROVE  hand[v][1] = x
      BY <1>3, <2>3, <3>1 DEF Write
    <3>2. QED
      BY <3>1 DEF LinesWritten
  <2>6. x.name = n => LinesWritten(n)
    <3> SUFFICES ASSUME x.name = n
                 PROVE  LinesWritten(n)
      OBVIOUS
    <3>1. infos'[n] = Logged(1, Current(1, infos[n]))
      BY <1>6, <2>1, <2>3 DEF Write, TypeInv, TypeOK
    <3>2. infos[n] \in LogInfo /\ Tidy(infos[n])
      BY DEF TidyInv, TypeInv, TypeOK
    <3>3. /\ Buffered(infos'[n]) <= Buffered(infos[n]) + 1
          /\ hand[1][1].flush => Buffered(infos'[n]) = 0
      BY <1>1, <2>1, <3>1, <3>2, BufferedLogged
    <3>4. QED
      BY <1>6, <2>1, <2>3, <3>3 DEF LinesWritten
  <2> DEFINE now == Buffered(infos'[n])
             lines == Buffered(infos[n])
  <2>7. /\ now \in Nat /\ lines \in Nat
        /\ x.name # n => now <= lines
        /\ x.name = n /\ ~x.flush => now <= lines + 1
        /\ x.name = n /\ x.flush => now = 0
    BY <1>1, <1>2, <2>5, <2>6
  <2>8. Filling(n, e, accepted, lines, Rest, TRUE)
    BY <2>4
  <2> HIDE DEF now, lines
  <2>9. Filling(n, e, accepted, now, Rest - 1, TRUE)
    BY <1>1, <2>3, <2>7, <2>8, FillingWrite
  <2>10. QED
    BY <2>3, <2>4, <2>9 DEF now
<1>7. ASSUME \A w \in Workers : ~Write(w)
      PROVE  Filling(n, e, accepted, Buffered(infos'[n]), Rest', ~FirstEnding')
  <2>1. Buffered(infos'[n]) <= Buffered(infos[n])
    BY <1>2, <1>7 DEF LinesWritten
  <2>2. ~FirstEnding' => Rest' = Rest
    <3>1. UNCHANGED << queue, hand >> => Rest' = Rest
      BY DEF Rest
    <3>2. ASSUME NEW w \in Workers, Take(w)
          PROVE  Rest' = Rest
      <4>1. /\ w = 1 /\ hand[1] = << >> /\ queue # << >> /\ hand'[1] = << Head(queue) >>
            /\ queue' = Tail(queue)
        <5>1. w = 1
          BY <1>3, <3>2 DEF Take
        <5>2. QED
          BY <1>1, <3>2, <5>1 DEF Take, TailInv
      <4>2. Len(queue') = Len(queue) - 1 /\ Len(hand'[1]) = 1 /\ Len(hand[1]) = 0
        BY <1>1, <4>1
      <4>3. QED
        BY <1>1, <4>2 DEF Rest
    <3>3. ASSUME NEW w \in Workers, WriteFails(w)
          PROVE  FirstEnding'
      <4>1. w = 1
        BY <1>3, <3>3 DEF WriteFails
      <4>2. pc'[1] = "closing"
        BY <3>3, <4>1 DEF WriteFails, Leave, TypeInv, TypeOK
      <4>3. QED
        BY <4>2 DEF FirstEnding
    <3>4. QED
      BY <1>7, <3>1, <3>2, <3>3, QueueStep
  <2>3. QED
    BY <1>5, <2>1, <2>2
<1>8. QED
  BY <1>6, <1>7

LEMMA WindowInvNext ==
  ASSUME TypeInv, TypeInv', StopInv, OrderInv, AloneInv, TidyInv, TailInv, WindowInv, [Next]_vars
  PROVE  WindowInv'
<1> SUFFICES ASSUME spent'.restarts = 0, NEW n \in Names \ TxNames, FlushMode[n] = "auto"
             PROVE  \E e \in 0 .. Len(accepted') : WindowOf(n, e)'
  BY DEF WindowInv
<1>1. spent.restarts = 0
  BY SpentGrows
<1>2. PICK e \in 0 .. Len(accepted) : WindowOf(n, e)
  BY <1>1 DEF WindowInv
<1>3. /\ accepted \in Seq(Log) /\ Len(accepted) \in Nat /\ missed[n] \in Nat
      /\ counter[n] \in 0 .. Limit - 1 /\ out \in [Producers -> Seq(Log)]
      /\ Buffered(infos[n]) \in Nat /\ Len(hand[1]) \in Nat /\ Len(queue) \in Nat
      /\ 1 \in Workers /\ queue \in Seq(Log) /\ infos \in [Names -> LogInfo]
  BY WindowType DEF TypeInv, TypeOK
<1>4. /\ Windows(n, e, accepted, out, missed[n], counter[n])
      /\ Filling(n, e, accepted, Buffered(infos[n]), Rest, ~FirstEnding)
  BY <1>2 DEF WindowOf
<1>5. CASE Kill
  <2>1. /\ accepted' = accepted /\ missed'[n] = 0 /\ counter'[n] = 0
        /\ \A p \in Producers : out'[p] = << >>
        /\ infos'[n].buf = << >> /\ Rest' = 0
    <3>1. infos'[n] = Forgotten(infos[n]) /\ Forgotten(infos[n]).buf = << >>
      BY <1>3, <1>5 DEF Kill, Forgotten, LogInfo
    <3>2. queue' = << >> /\ hand'[1] = << >>
      BY <1>3, <1>5 DEF Kill
    <3>3. Rest' = 0
      BY <3>2 DEF Rest
    <3>4. QED
      BY <1>5, <3>1, <3>3 DEF Kill
  <2>2. Buffered(infos'[n]) = 0
    <3>1. infos[n] \in LogInfo
      BY <1>3
    <3>2. QED
      BY <2>1, <3>1, BufferedType
  <2> DEFINE o1 == out'
             alive == ~FirstEnding'
  <2>3. \A p \in Producers : o1[p] = << >>
    BY <2>1
  <2> HIDE DEF o1, alive
  <2>4. /\ Windows(n, Len(accepted), accepted, o1, 0, 0)
        /\ Filling(n, Len(accepted), accepted, 0, 0, alive)
    BY <1>3, <2>3, WindowStarts
  <2>5. WindowOf(n, Len(accepted))'
    BY <2>1, <2>2, <2>4 DEF WindowOf, o1, alive
  <2>6. Len(accepted) \in 0 .. Len(accepted')
    BY <1>3, <2>1
  <2>7. QED
    BY <2>1, <2>5, <2>6
<1>6. ASSUME NEW p \in Producers, Offer(p)
      PROVE  \E f \in 0 .. Len(accepted') : WindowOf(n, f)'
  <2> DEFINE x == out[p][1]
             q == [out EXCEPT ![p] = Tail(@)]
  <2>1. /\ out[p] # << >> /\ x \in Log /\ Head(out[p]) = x /\ out[p] \in Seq(Log)
    BY <1>3, <1>6 DEF Offer
  <2>2. /\ accepted' = Append(accepted, x) /\ queue' = Append(queue, x) /\ out' = q
        /\ infos' = infos /\ missed' = missed /\ counter' = counter /\ hand' = hand /\ pc' = pc
    BY <1>6, <2>1 DEF Offer, workVars
  <2>3. /\ \A r \in Producers \ {p} : q[r] = out[r]
        /\ q[p] # << >> => q[p][1].name # n
    <3>1. q[p] = Tail(out[p]) /\ \A r \in Producers \ {p} : q[r] = out[r]
      BY <1>3
    <3>2. ASSUME Tail(out[p]) # << >>, Tail(out[p])[1].name = n
          PROVE  FALSE
      <4>1. 2 \in DOMAIN out[p] /\ Tail(out[p])[1] = out[p][2] /\ Len(out[p]) # 1
        BY <2>1, <3>2
      <4>2. QED
        BY <3>2, <4>1 DEF AloneInv
    <3>3. QED
      BY <3>1, <3>2
  <2> HIDE DEF x, q
  <2>4. Windows(n, e, Append(accepted, x), q, missed[n], counter[n])
    <3>1. out[p][1] = x
      BY DEF x
    <3>2. QED
      BY <1>3, <1>4, <2>1, <2>3, <3>1, WindowsOffer
  <2>5. Rest \in Nat /\ Rest' = Rest + 1
    <3>1. Len(queue') = Len(queue) + 1
      BY <1>3, <2>2
    <3>2. hand'[1] = hand[1]
      BY <2>2
    <3>3. Len(queue) \in Nat /\ Len(hand[1]) \in Nat
      BY <1>3
    <3>4. Rest' = Len(queue') + Len(hand'[1])
      BY DEF Rest
    <3>5. Rest' = (Len(queue) + 1) + Len(hand[1])
      BY <3>1, <3>2, <3>4
    <3>6. \A a, b \in Nat : (a + 1) + b = (a + b) + 1 /\ a + b \in Nat
      OBVIOUS
    <3>7. QED
      BY <3>3, <3>5, <3>6 DEF Rest
  <2> DEFINE alive == ~FirstEnding
  <2>6. Filling(n, e, accepted, Buffered(infos[n]), Rest, alive)
    BY <1>4
  <2> HIDE DEF alive
  <2>7. Filling(n, e, Append(accepted, x), Buffered(infos[n]), Rest + 1, alive)
    BY <1>3, <2>1, <2>5, <2>6, FillingOffer
  <2>8. FirstEnding' <=> FirstEnding
    BY <2>2 DEF FirstEnding
  <2>9. Filling(n, e, Append(accepted, x), Buffered(infos[n]), Rest + 1, ~FirstEnding')
    <3>1. alive = ~FirstEnding'
      BY <2>8 DEF alive
    <3>2. QED
      BY <2>7, <3>1
  <2>10. WindowOf(n, e)'
    BY <2>2, <2>4, <2>5, <2>9 DEF WindowOf
  <2>11. e \in 0 .. Len(accepted')
    <3>1. Len(accepted') = Len(accepted) + 1
      BY <1>3, <2>2
    <3>2. QED
      BY <1>3, <3>1
  <2>12. QED
    BY <2>10, <2>11
<1>7. ASSUME ~Kill, \A p \in Producers : ~Offer(p)
      PROVE  \E f \in 0 .. Len(accepted') : WindowOf(n, f)'
  <2>1. accepted' = accepted
    BY <1>7, LogsStep DEF Commit, Rollback, OfferFails, WriteLog, histVars
  <2>2. Filling(n, e, accepted, Buffered(infos'[n]), Rest', ~FirstEnding')
    BY <1>1, <1>4, <1>7, FillingStep
  <2>3. Windows(n, e, accepted, out', missed'[n], counter'[n])
    <3>1. CASE UNCHANGED << out, missed, counter >>
      BY <1>4, <3>1
    <3>2. ASSUME NEW p \in Producers, Producer(p)
          PROVE  Windows(n, e, accepted, out', missed'[n], counter'[n])
      BY <1>4, <1>7, <3>2, HeldStep DEF Producer
    <3>3. CASE Manager \/ Tick \/ UNCHANGED vars \/ \E m \in Names : Spill(m)
      BY <3>1, <3>3 DEF Manager, Startup, Interrupt, Stop, JoinReturns, Add, AddCheck, AddTest,
                        AddNext, AddOpen, AddDuplicate, Tick, Spill, vars, prodVars, histVars
    <3>4. CASE \E w \in Workers : Worker(w)
      BY <3>1, <3>4 DEF Worker, CheckStop, Take, TakeInterrupted, ReadClock, Write, WriteFails,
                        CloseOne, prodVars, histVars
    <3>5. QED
      BY <1>7, <3>2, <3>3, <3>4 DEF Next
  <2>4. WindowOf(n, e)'
    BY <2>1, <2>2, <2>3 DEF WindowOf
  <2>5. QED
    BY <2>1, <2>4
<1>8. QED
  BY <1>5, <1>6, <1>7

(***************************************************************************)
(* For every number of threads, every Limit and queue, what an auto logger *)
(* can lose to a kill stays within WindowBound: one window of Limit - 1    *)
(* for each thread and each refused flushing log, one line for each other  *)
(* thread.  (CsvLogger.writeLog, CsvLogThread.run)                         *)
(***************************************************************************)
THEOREM LossIsBounded == Spec => []AutoFlushWindow
<1>1. Init => OrderInv /\ AloneInv /\ TidyInv /\ TailInv /\ WindowInv
  <2> SUFFICES ASSUME Init
               PROVE  OrderInv /\ AloneInv /\ TidyInv /\ TailInv /\ WindowInv
    OBVIOUS
  <2>1. AloneInv /\ TidyInv
    BY DEF Init, AloneInv, TidyInv, Tidy, NewLogInfo
  <2>2. OrderInv
    BY DEF Init, OrderInv, ProducerOrder, Behind, Ascending
  <2>3. 1 \in Workers
    BY CsvLogAssumption DEF Workers
  <2>4. queue = << >> /\ hand[1] = << >> /\ accepted = << >> /\ Rest = 0
    BY <2>3 DEF Init, Rest
  <2>5. TailInv
    BY <2>4 DEF Init, TailInv, LastAccepted
  <2>6. ASSUME NEW n \in Names
        PROVE  WindowOf(n, 0)
    <3>1. \A p \in Producers : out[p] = << >>
      BY DEF Init
    <3>2. Buffered(infos[n]) = 0 /\ missed[n] = 0 /\ counter[n] = 0
      <4>1. infos[n].buf = << >>
        BY DEF Init, NewLogInfo
      <4>2. LineIds(<< >>) = << >>
        BY LineIdsSmall
      <4>3. QED
        BY <4>1, <4>2 DEF Buffered, Init
    <3>3. accepted \in Seq(Log) /\ Len(accepted) = 0
      BY <2>4
    <3> DEFINE alive == ~FirstEnding
    <3> HIDE DEF alive
    <3>4. /\ Windows(n, Len(accepted), accepted, out, 0, 0)
          /\ Filling(n, Len(accepted), accepted, 0, 0, alive)
      BY <3>1, <3>3, WindowStarts
    <3>5. QED
      BY <2>4, <3>2, <3>3, <3>4 DEF WindowOf, alive
  <2>7. 0 \in 0 .. Len(accepted)
    BY <2>4
  <2>8. WindowInv
    BY <2>6, <2>7 DEF WindowInv
  <2>9. QED
    BY <2>1, <2>5, <2>8, <2>2
<1>2. TypeInv /\ WindowInv => AutoFlushWindow
  BY WindowHolds
<1>3. TypeInv /\ TypeInv' /\ StopInv /\ OrderInv /\ AloneInv /\ TidyInv /\ TailInv /\ WindowInv
        /\ [Next]_vars => WindowInv'
  BY WindowInvNext
<1>4. QED
  BY <1>1, <1>2, <1>3, AloneInvNext, TidyInvNext, TailInvNext, OrderInvNext, AddInvInit,
     AddInvNext, StopInvInit, StopInvNext, TypeInvCorrect, PTL DEF Spec

=============================================================================
