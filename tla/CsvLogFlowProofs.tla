-------------------------- MODULE CsvLogFlowProofs ---------------------------
(***************************************************************************)
(* Proofs about the CSV logging service: no log is lost on its way from    *)
(* the queue over the worker's hand and the writer to the files, and none  *)
(* is overtaken; and the service implements LogStore.                      *)
(***************************************************************************)
EXTENDS CsvLogOrderProofs, CsvLogStore

-----------------------------------------------------------------------------
(***************************************************************************)
(* What FlattenSeq returns, in the way of Picked.                          *)
(***************************************************************************)
Flattens(f, ss, N) == f = [ i \in 1 .. N |-> IF i = 1 THEN ss[i] ELSE f[i - 1] \o ss[i] ]

LEMMA FlattensFacts ==
  ASSUME NEW f, NEW ss, NEW N \in Nat, Flattens(f, ss, N), NEW i \in 1 .. N
  PROVE  f[i] = IF i = 1 THEN ss[i] ELSE f[i - 1] \o ss[i]
  BY DEF Flattens

LEMMA FlattensExist ==
  ASSUME NEW ss, NEW N \in Nat
  PROVE  \E f : Flattens(f, ss, N)
<1> DEFINE Bad == { n \in Nat : ~ \E f : Flattens(f, ss, n) }
<1> SUFFICES ASSUME Bad # {} PROVE FALSE
  OBVIOUS
<1>1. PICK n \in Bad : \A m \in Bad : n <= m
  <2>1. Bad \in SUBSET Nat
    OBVIOUS
  <2> HIDE DEF Bad
  <2>2. QED
    BY <2>1, LeastElement
<1>2. n # 0
  <2>1. Flattens([i \in 1 .. 0 |-> << >>], ss, 0)
    BY DEF Flattens
  <2>2. QED
    BY <2>1
<1>3. PICK g : Flattens(g, ss, n - 1)
  BY <1>1, <1>2
<1> DEFINE h == [ i \in 1 .. n |-> IF i = n THEN IF n = 1 THEN ss[n] ELSE g[n - 1] \o ss[n]
                                   ELSE g[i] ]
<1>4. Flattens(h, ss, n)
  <2>1. ASSUME NEW i \in 1 .. n
        PROVE  h[i] = IF i = 1 THEN ss[i] ELSE h[i - 1] \o ss[i]
    <3>1. CASE i = n
      <4>1. h[i] = IF n = 1 THEN ss[n] ELSE g[n - 1] \o ss[n]
        BY <3>1
      <4>2. n # 1 => h[i - 1] = g[n - 1]
        BY <3>1
      <4> HIDE DEF h
      <4>3. QED
        BY <3>1, <4>1, <4>2
    <3>2. CASE i # n
      <4>1. i \in 1 .. n - 1 /\ n - 1 \in Nat /\ h[i] = g[i] /\ (i # 1 => h[i - 1] = g[i - 1])
        BY <3>2
      <4>2. g[i] = IF i = 1 THEN ss[i] ELSE g[i - 1] \o ss[i]
        BY <4>1, <1>3, FlattensFacts
      <4> HIDE DEF h
      <4>3. QED
        BY <4>1, <4>2
    <3>3. QED
      BY <3>1, <3>2
  <2>2. h = [i \in 1 .. n |-> h[i]]
    OBVIOUS
  <2> HIDE DEF h
  <2>3. QED
    BY <2>1, <2>2 DEF Flattens
<1>5. QED
  BY <1>4

LEMMA FlattensType ==
  ASSUME NEW R, NEW ss \in Seq(Seq(R)), NEW f, Flattens(f, ss, Len(ss)), NEW k \in 1 .. Len(ss)
  PROVE  f[k] \in Seq(R)
<1> DEFINE N == Len(ss)
           Bad == { n \in 1 .. N : f[n] \notin Seq(R) }
<1>1. N \in Nat /\ \A i \in 1 .. N : ss[i] \in Seq(R)
  OBVIOUS
<1>2. ASSUME Bad # {}
      PROVE  FALSE
  <2>1. PICK n \in Bad : \A m \in Bad : n <= m
    <3>1. Bad \in SUBSET Nat
      BY <1>1
    <3> HIDE DEF Bad
    <3>2. QED
      BY <1>2, <3>1, LeastElement
  <2>2. n \in 1 .. N /\ f[n] \notin Seq(R)
    OBVIOUS
  <2>3. f[n] = IF n = 1 THEN ss[n] ELSE f[n - 1] \o ss[n]
    BY <1>1, <2>2, FlattensFacts
  <2> HIDE DEF N
  <2>4. n # 1 => f[n - 1] \in Seq(R)
    <3> SUFFICES ASSUME n # 1
                 PROVE  f[n - 1] \in Seq(R)
      OBVIOUS
    <3>1. n - 1 \in 1 .. N /\ ~ (n <= n - 1)
      BY <1>1, <2>2
    <3>2. n - 1 \notin Bad
      BY <2>1, <3>1
    <3>3. QED
      BY <3>1, <3>2
  <2>5. QED
    BY <1>1, <2>2, <2>3, <2>4
<1>3. QED
  <2>1. k \in 1 .. N /\ k \notin Bad
    <3> HIDE DEF Bad
    <3>1. QED
      BY <1>2
  <2>2. QED
    BY <2>1

\* Two such functions of sequences that agree, agree.
SameParts(ss, tt, K) == \A i \in 1 .. K : ss[i] = tt[i]

LEMMA FlattensAgree ==
  ASSUME NEW ss, NEW N \in Nat, NEW f, Flattens(f, ss, N),
         NEW tt, NEW M \in Nat, NEW g, Flattens(g, tt, M),
         NEW K \in Nat, 1 <= K, K <= N, K <= M, SameParts(ss, tt, K)
  PROVE  f[K] = g[K]
<1> DEFINE Bad == { k \in 1 .. K : f[k] # g[k] }
<1>1. ASSUME Bad # {}
      PROVE  FALSE
  <2>1. PICK n \in Bad : \A m \in Bad : n <= m
    <3>1. Bad \in SUBSET Nat
      OBVIOUS
    <3> HIDE DEF Bad
    <3>2. QED
      BY <1>1, <3>1, LeastElement
  <2>2. n \in 1 .. K /\ f[n] # g[n] /\ n \in 1 .. N /\ n \in 1 .. M
    OBVIOUS
  <2>3. /\ f[n] = IF n = 1 THEN ss[n] ELSE f[n - 1] \o ss[n]
        /\ g[n] = IF n = 1 THEN tt[n] ELSE g[n - 1] \o tt[n]
    BY <2>2, FlattensFacts
  <2>4. n # 1 => f[n - 1] = g[n - 1]
    BY <2>1, <2>2
  <2>5. ss[n] = tt[n]
    BY <2>2 DEF SameParts
  <2>6. QED
    BY <2>2, <2>3, <2>4, <2>5
<1>2. K \notin Bad /\ K \in 1 .. K
  <2> HIDE DEF Bad
  <2>1. QED
    BY <1>1
<1>3. QED
  BY <1>2

LEMMA FlattenIs ==
  ASSUME NEW ss, Len(ss) \in Nat, Len(ss) # 0, NEW f, Flattens(f, ss, Len(ss))
  PROVE  FlattenSeq(ss) = f[Len(ss)]
<1> DEFINE g == CHOOSE h : Flattens(h, ss, Len(ss))
           N == Len(ss)
<1>1. FlattenSeq(ss) = g[N]
  BY Zenon DEF FlattenSeq, Flattens
<1>2. Flattens(g, ss, N)
  BY FlattensExist, Zenon
<1> HIDE DEF g
<1>3. N \in Nat /\ 1 <= N /\ N <= N /\ Flattens(f, ss, N) /\ SameParts(ss, ss, N)
  BY DEF SameParts
<1> HIDE DEF N
<1>4. f[N] = g[N]
  BY <1>2, <1>3, FlattensAgree
<1>5. QED
  BY <1>1, <1>4 DEF N

(***************************************************************************)
(* FlattenSeq of one sequence more, and of sequences all empty but one.    *)
(***************************************************************************)
LEMMA FlattenType ==
  ASSUME NEW R, NEW ss \in Seq(Seq(R))
  PROVE  FlattenSeq(ss) \in Seq(R)
<1>1. Len(ss) \in Nat
  OBVIOUS
<1>2. CASE Len(ss) = 0
  <2>1. FlattenSeq(ss) = ss /\ ss = << >>
    BY <1>2 DEF FlattenSeq
  <2>2. << >> \in Seq(R)
    OBVIOUS
  <2>3. QED
    BY <2>1, <2>2
<1>3. CASE Len(ss) # 0
  <2>1. PICK f : Flattens(f, ss, Len(ss))
    BY <1>1, FlattensExist
  <2>2. Len(ss) \in 1 .. Len(ss)
    BY <1>1, <1>3
  <2>3. f[Len(ss)] \in Seq(R)
    BY <2>1, <2>2, FlattensType
  <2>4. QED
    BY <1>1, <1>3, <2>1, <2>3, FlattenIs
<1>4. QED
  BY <1>2, <1>3

LEMMA FlattenAppend ==
  ASSUME NEW R, NEW ss \in Seq(Seq(R)), NEW s \in Seq(R)
  PROVE  FlattenSeq(Append(ss, s)) = FlattenSeq(ss) \o s
<1> DEFINE tt == Append(ss, s)
           N == Len(ss)
<1>1. /\ N \in Nat /\ Len(tt) = N + 1 /\ tt[N + 1] = s /\ tt \in Seq(Seq(R))
      /\ \A i \in 1 .. N : tt[i] = ss[i]
  OBVIOUS
<1> HIDE DEF tt
<1>2. PICK g : Flattens(g, tt, N + 1)
  <2>1. N + 1 \in Nat
    BY <1>1
  <2>2. QED
    BY <2>1, FlattensExist
<1>3. FlattenSeq(tt) = g[N + 1]
  BY <1>1, <1>2, FlattenIs
<1>4. N + 1 \in 1 .. N + 1
  BY <1>1
<1>5. g[N + 1] = IF N + 1 = 1 THEN tt[N + 1] ELSE g[N + 1 - 1] \o tt[N + 1]
  BY <1>1, <1>2, <1>4, FlattensFacts
<1>6. CASE N = 0
  <2>1. FlattenSeq(ss) = ss /\ ss = << >>
    BY <1>6 DEF FlattenSeq
  <2>2. << >> \o s = s
    OBVIOUS
  <2>3. QED
    BY <1>1, <1>3, <1>5, <1>6, <2>1, <2>2 DEF tt
<1>7. CASE N # 0
  <2>1. PICK f : Flattens(f, ss, N)
    BY <1>1, FlattensExist
  <2>2. FlattenSeq(ss) = f[N]
    BY <1>1, <1>7, <2>1, FlattenIs
  <2>3. SameParts(ss, tt, N)
    BY <1>1 DEF SameParts
  <2>4. f[N] = g[N]
    <3> DEFINE M == N + 1
    <3>1. M \in Nat /\ 1 <= N /\ N <= M /\ N <= N /\ Flattens(g, tt, M)
      BY <1>1, <1>2, <1>7
    <3> HIDE DEF M, N
    <3>2. QED
      BY <1>1, <2>1, <2>3, <3>1, FlattensAgree
  <2>5. N + 1 - 1 = N /\ N + 1 # 1
    BY <1>1, <1>7
  <2>6. QED
    BY <1>1, <1>3, <1>5, <2>2, <2>4, <2>5 DEF tt
<1>8. QED
  BY <1>6, <1>7

LEMMA FlattenOne ==
  ASSUME NEW R, NEW ss \in Seq(Seq(R)), NEW w \in 1 .. Len(ss),
         \A v \in 1 .. Len(ss) : v # w => ss[v] = << >>
  PROVE  FlattenSeq(ss) = ss[w]
<1> DEFINE N == Len(ss)
<1>1. N \in Nat /\ N # 0 /\ w \in 1 .. N /\ ss[w] \in Seq(R)
  OBVIOUS
<1>2. PICK f : Flattens(f, ss, N)
  BY <1>1, FlattensExist
<1>3. FlattenSeq(ss) = f[N]
  BY <1>1, <1>2, FlattenIs
<1>4. \A i \in 1 .. N : f[i] = IF i = 1 THEN ss[i] ELSE f[i - 1] \o ss[i]
  BY <1>1, <1>2, FlattensFacts
<1> DEFINE Bad == { k \in 1 .. N : f[k] # IF k < w THEN << >> ELSE ss[w] }
<1>5. ASSUME Bad # {}
      PROVE  FALSE
  <2>1. PICK n \in Bad : \A m \in Bad : n <= m
    <3>1. Bad \in SUBSET Nat
      BY <1>1
    <3> HIDE DEF Bad
    <3>2. QED
      BY <1>5, <3>1, LeastElement
  <2>2. n \in 1 .. N /\ f[n] # IF n < w THEN << >> ELSE ss[w]
    OBVIOUS
  <2>3. \A v \in 1 .. N : v # w => ss[v] = << >>
    OBVIOUS
  <2> HIDE DEF N
  <2>4. n # 1
    BY <1>1, <1>4, <2>2, <2>3
  <2>5. f[n - 1] = IF n - 1 < w THEN << >> ELSE ss[w]
    <3>1. n - 1 \in 1 .. N /\ ~ (n <= n - 1)
      BY <1>1, <2>2, <2>4
    <3>2. n - 1 \notin Bad
      BY <2>1, <3>1
    <3>3. QED
      BY <3>1, <3>2
  <2>6. f[n] = f[n - 1] \o ss[n]
    BY <1>4, <2>2, <2>4
  <2>7. << >> \o << >> = << >> /\ << >> \o ss[w] = ss[w] /\ ss[w] \o << >> = ss[w]
    BY <1>1
  <2>8. CASE n < w
    BY <1>1, <2>2, <2>3, <2>5, <2>6, <2>7, <2>8
  <2>9. CASE n = w
    <3>1. n - 1 < w /\ ~ (n < w)
      BY <1>1, <2>2, <2>9
    <3>2. f[n] = ss[w]
      BY <2>5, <2>6, <2>7, <2>9, <3>1
    <3>3. QED
      BY <2>2, <3>1, <3>2
  <2>10. CASE n > w
    <3>1. ~ (n - 1 < w) /\ ~ (n < w) /\ n # w
      BY <1>1, <2>2, <2>10
    <3>2. ss[n] = << >>
      BY <2>2, <2>3, <3>1
    <3>3. f[n] = ss[w]
      BY <2>5, <2>6, <2>7, <3>1, <3>2
    <3>4. QED
      BY <2>2, <3>1, <3>3
  <2>11. QED
    BY <1>1, <2>2, <2>8, <2>9, <2>10
<1>6. N \in 1 .. N /\ N \notin Bad /\ ~ (N < w)
  <2> HIDE DEF Bad
  <2>1. N \notin Bad
    BY <1>5
  <2>2. QED
    BY <1>1, <2>1
<1>7. QED
  BY <1>3, <1>6

-----------------------------------------------------------------------------
(***************************************************************************)
(* The data lines a log has in its files and its writer, and what the      *)
(* operations on one log make of them.                                     *)
(***************************************************************************)
Disk(a) == FlattenSeq([k \in DOMAIN a.csv |-> a.csv[k].lines]) \o a.log

Stored(a) == LineIds(Lines(a))

LEMMA DiskType ==
  ASSUME NEW a \in LogInfo
  PROVE  /\ [k \in DOMAIN a.csv |-> a.csv[k].lines] \in Seq(Seq(Line))
         /\ FlattenSeq([k \in DOMAIN a.csv |-> a.csv[k].lines]) \in Seq(Line)
         /\ Disk(a) \in Seq(Line) /\ a.log \in Seq(Line) /\ a.buf \in Seq(Line)
         /\ Lines(a) = Disk(a) \o a.buf /\ Lines(a) \in Seq(Line)
<1> DEFINE parts == [k \in DOMAIN a.csv |-> a.csv[k].lines]
<1>1. a.csv \in Seq(ClosedFile) /\ a.log \in Seq(Line) /\ a.buf \in Seq(Line)
  BY DEF LogInfo
<1>2. DOMAIN a.csv = 1 .. Len(a.csv) /\ Len(a.csv) \in Nat
      /\ \A k \in DOMAIN a.csv : a.csv[k].lines \in Seq(Line)
  <2>1. \A k \in DOMAIN a.csv : a.csv[k] \in ClosedFile
    BY <1>1
  <2>2. QED
    BY <1>1, <2>1 DEF ClosedFile
<1>3. parts \in Seq(Seq(Line))
  <2> DEFINE N == Len(a.csv)
             S == Seq(Line)
  <2>1. parts \in [1 .. N -> S] /\ N \in Nat
    BY <1>2
  <2> HIDE DEF parts, N, S
  <2>2. parts \in Seq(S)
    BY <2>1
  <2>3. QED
    BY <2>2 DEF S
<1> HIDE DEF parts
<1>4. FlattenSeq(parts) \in Seq(Line)
  BY <1>3, FlattenType
<1>5. Disk(a) \in Seq(Line)
  BY <1>1, <1>4 DEF Disk, parts
<1>6. Lines(a) = Disk(a) \o a.buf
  BY DEF Lines, Disk
<1>7. QED
  BY <1>1, <1>3, <1>4, <1>5, <1>6 DEF parts

LEMMA SameLines ==
  ASSUME NEW a \in LogInfo, NEW b \in LogInfo, b.csv = a.csv, b.log \o b.buf = a.log \o a.buf
  PROVE  Lines(b) = Lines(a)
<1> DEFINE flat == FlattenSeq([k \in DOMAIN a.csv |-> a.csv[k].lines])
<1>1. /\ flat \in Seq(Line) /\ a.log \in Seq(Line) /\ a.buf \in Seq(Line)
      /\ b.log \in Seq(Line) /\ b.buf \in Seq(Line)
  BY DiskType
<1>2. Lines(a) = (flat \o a.log) \o a.buf /\ Lines(b) = (flat \o b.log) \o b.buf
  BY DEF Lines
<1> HIDE DEF flat
<1>3. \A x, y, z \in Seq(Line) : (x \o y) \o z = x \o (y \o z)
  BY ConcatAssociative
<1>4. (flat \o a.log) \o a.buf = flat \o (a.log \o a.buf)
  BY <1>1, <1>3, Zenon
<1>5. (flat \o b.log) \o b.buf = flat \o (b.log \o b.buf)
  BY <1>1, <1>3, Zenon
<1>6. QED
  BY <1>2, <1>4, <1>5, Zenon

LEMMA ClosedLines ==
  ASSUME NEW a \in LogInfo, NEW from \in Nat
  PROVE  Lines(Closed(a, from)) = Lines(a)
<1> DEFINE b == Closed(a, from)
           lines == a.log \o a.buf
           file == [ from |-> from, index |-> FreeIndex(a, from), lines |-> lines ]
           parts == [k \in DOMAIN a.csv |-> a.csv[k].lines]
           more == [k \in DOMAIN b.csv |-> b.csv[k].lines]
<1>1. /\ a.csv \in Seq(ClosedFile) /\ Len(a.csv) \in Nat /\ DOMAIN a.csv = 1 .. Len(a.csv)
      /\ a.log \in Seq(Line) /\ a.buf \in Seq(Line) /\ lines \in Seq(Line)
      /\ parts \in Seq(Seq(Line)) /\ FlattenSeq(parts) \in Seq(Line)
  <2>1. a.csv \in Seq(ClosedFile)
    BY DEF LogInfo
  <2>2. parts \in Seq(Seq(Line)) /\ FlattenSeq(parts) \in Seq(Line)
        /\ a.log \in Seq(Line) /\ a.buf \in Seq(Line)
    BY DiskType
  <2> HIDE DEF parts
  <2>3. QED
    BY <2>1, <2>2
<1>2. b.csv = Append(a.csv, file) /\ b.log = << >> /\ b.buf = << >>
  BY DEF Closed, LogInfo
<1>3. /\ DOMAIN b.csv = 1 .. Len(a.csv) + 1 /\ b.csv[Len(a.csv) + 1].lines = lines
      /\ \A k \in 1 .. Len(a.csv) : b.csv[k] = a.csv[k]
  <2>1. file.lines = lines
    OBVIOUS
  <2> HIDE DEF file, b
  <2> DEFINE c == Append(a.csv, file)
  <2>2. /\ DOMAIN c = 1 .. Len(a.csv) + 1 /\ c[Len(a.csv) + 1] = file
        /\ \A k \in 1 .. Len(a.csv) : c[k] = a.csv[k]
    BY <1>1, AppendFacts
  <2>3. QED
    BY <1>2, <2>1, <2>2
<1> HIDE DEF b, file, lines
<1>4. more = Append(parts, lines)
  <2>1. Len(parts) = Len(a.csv) /\ \A k \in 1 .. Len(a.csv) : parts[k] = a.csv[k].lines
    <3>1. DOMAIN parts = 1 .. Len(a.csv) /\ parts \in Seq(Seq(Line))
      BY <1>1
    <3>2. \A k \in 1 .. Len(a.csv) : parts[k] = a.csv[k].lines
      BY <1>1
    <3> HIDE DEF parts
    <3>3. QED
      BY <1>1, <3>1, <3>2
  <2>2. /\ DOMAIN more = 1 .. Len(a.csv) + 1
        /\ \A k \in 1 .. Len(a.csv) + 1 : more[k] = b.csv[k].lines
        /\ more = [k \in 1 .. Len(a.csv) + 1 |-> more[k]]
    BY <1>3
  <2> DEFINE app == Append(parts, lines)
  <2>3. /\ app = [k \in 1 .. Len(a.csv) + 1 |-> app[k]]
        /\ app[Len(a.csv) + 1] = lines
        /\ \A k \in 1 .. Len(a.csv) : app[k] = parts[k]
    <3> HIDE DEF parts
    <3>1. QED
      BY <1>1, <2>1, AppendFacts
  <2> HIDE DEF parts, more, app
  <2>4. ASSUME NEW k \in 1 .. Len(a.csv) + 1
        PROVE  more[k] = app[k]
    <3>1. CASE k = Len(a.csv) + 1
      BY <1>3, <2>2, <2>3, <3>1
    <3>2. CASE k \in 1 .. Len(a.csv)
      <4>1. app[k] = a.csv[k].lines
        BY <2>1, <2>3, <3>2
      <4>2. b.csv[k] = a.csv[k]
        BY <1>3, <3>2
      <4>3. more[k] = b.csv[k].lines
        BY <2>2, <2>4
      <4>4. QED
        BY <4>1, <4>2, <4>3
    <3>3. k = Len(a.csv) + 1 \/ k \in 1 .. Len(a.csv)
      BY <1>1, <2>4
    <3>4. QED
      BY <3>1, <3>2, <3>3
  <2>5. QED
    BY <2>2, <2>3, <2>4, Zenon DEF app
<1> HIDE DEF parts
<1>5. FlattenSeq(more) = FlattenSeq(parts) \o lines
  BY <1>1, <1>4, FlattenAppend
<1>6. Lines(b) = (FlattenSeq(more) \o << >>) \o << >>
  BY <1>2 DEF Lines
<1>7. FlattenSeq(parts) \o lines \in Seq(Line)
  BY <1>1
<1>8. Lines(b) = FlattenSeq(parts) \o lines
  <2> HIDE DEF more
  <2>1. QED
    BY <1>5, <1>6, <1>7
<1>9. Lines(a) = (FlattenSeq(parts) \o a.log) \o a.buf
  BY DEF Lines, parts
<1>10. (FlattenSeq(parts) \o a.log) \o a.buf = FlattenSeq(parts) \o (a.log \o a.buf)
  <2> DEFINE r == FlattenSeq(parts)
             s == a.log
             t == a.buf
  <2>1. r \in Seq(Line) /\ s \in Seq(Line) /\ t \in Seq(Line)
    BY <1>1
  <2> HIDE DEF r, s, t
  <2>2. (r \o s) \o t = r \o (s \o t)
    BY <2>1, ConcatAssociative
  <2>3. QED
    BY <2>2 DEF r, s, t
<1>11. QED
  BY <1>8, <1>9, <1>10 DEF b, lines

LEMMA StoredType ==
  ASSUME NEW a \in LogInfo
  PROVE  /\ Stored(a) = LineIds(Disk(a)) \o LineIds(a.buf)
         /\ Stored(a) \in Seq(Nat) /\ LineIds(Disk(a)) \in Seq(Nat) /\ LineIds(a.buf) \in Seq(Nat)
<1>1. Disk(a) \in Seq(Line) /\ a.buf \in Seq(Line) /\ Lines(a) = Disk(a) \o a.buf
  BY DiskType
<1>2. LineIds(Disk(a) \o a.buf) = LineIds(Disk(a)) \o LineIds(a.buf)
      /\ LineIds(Disk(a)) \in Seq(Nat)
  BY <1>1, LineIdsConcat
<1>3. LineIds(a.buf) \in Seq(Nat)
  BY <1>1, LineIdsConcat
<1>4. QED
  BY <1>1, <1>2, <1>3 DEF Stored

LEMMA StoredAlike ==
  ASSUME NEW a \in LogInfo, NEW b \in LogInfo, b.csv = a.csv, b.log = a.log, b.buf = a.buf
  PROVE  Stored(b) = Stored(a)
  BY SameLines DEF Stored

LEMMA EmptiedLines ==
  ASSUME NEW a \in LogInfo
  PROVE  /\ Emptied(a) \in LogInfo /\ Emptied(a).csv = a.csv /\ Emptied(a).buf = << >>
         /\ Emptied(a).log = a.log \o a.buf
         /\ Emptied(a).log \o Emptied(a).buf = a.log \o a.buf
         /\ Emptied(a).writer = a.writer /\ Emptied(a).state = a.state
<1>1. /\ a.log \in Seq(Line) /\ a.buf \in Seq(Line)
      /\ (a.log \o a.buf) \o << >> = a.log \o a.buf
  BY DEF LogInfo
<1>2. Emptied(a) \in LogInfo
  BY EndedType
<1>3. /\ Emptied(a).csv = a.csv /\ Emptied(a).buf = << >> /\ Emptied(a).log = a.log \o a.buf
      /\ Emptied(a).writer = a.writer /\ Emptied(a).state = a.state
  BY DEF LogInfo, Emptied
<1>4. QED
  BY <1>1, <1>2, <1>3

LEMMA NotRenamedLines ==
  ASSUME NEW a \in LogInfo
  PROVE  /\ NotRenamed(a) \in LogInfo /\ NotRenamed(a).csv = a.csv
         /\ NotRenamed(a).log \o NotRenamed(a).buf = a.log \o a.buf
         /\ NotRenamed(a).state = a.state
         /\ NotRenamed(a) = a \/ (NotRenamed(a).writer = "closed" /\ NotRenamed(a).buf = << >>
                                   /\ a.writer = "open")
<1> DEFINE e == Emptied(a)
           b == [e EXCEPT !.writer = "closed"]
<1>1. /\ e \in LogInfo /\ e.csv = a.csv /\ e.log \o e.buf = a.log \o a.buf
      /\ e.buf = << >> /\ e.state = a.state
  BY EmptiedLines
<1>2. (NotRenamed(a) = b /\ a.writer = "open") \/ NotRenamed(a) = a
  BY DEF NotRenamed
<1> HIDE DEF e
<1>3. /\ b.csv = e.csv /\ b.log = e.log /\ b.buf = e.buf /\ b.state = e.state
      /\ b.writer = "closed"
  BY <1>1 DEF LogInfo
<1> HIDE DEF b
<1>4. NotRenamed(a) \in LogInfo
  BY EndedType
<1>5. QED
  BY <1>1, <1>2, <1>3, <1>4

\* The operations that keep every line.
LEMMA StoredKept ==
  ASSUME NEW a \in LogInfo, NEW t \in Nat
  PROVE  /\ Stored(Closed(a, t)) = Stored(a)
         /\ Stored(NotRenamed(a)) = Stored(a)
         /\ Stored(NotOpened(a, t)) = Stored(a)
         /\ Stored(Flushed(a)) = Stored(a)
         /\ a.buf # << >> \/ a.end = "glued" => Stored(Spilled(a)) = Stored(a)
         /\ Stored(SpilledHalf(a)) = Stored(a)
         /\ Stored([a EXCEPT !.state = "linked"]) = Stored(a)
<1>1. a.log \in Seq(Line) /\ a.buf \in Seq(Line)
  BY DEF LogInfo
<1>2. Stored(Closed(a, t)) = Stored(a)
  BY ClosedLines DEF Stored
<1>3. Stored(NotRenamed(a)) = Stored(a)
  BY NotRenamedLines, SameLines DEF Stored
<1>4. Stored(NotOpened(a, t)) = Stored(a)
  <2>1. NotOpened(a, t) \in LogInfo /\ NotOpened(a, t).csv = a.csv
        /\ NotOpened(a, t).log = a.log /\ NotOpened(a, t).buf = a.buf
    BY OpenedType DEF LogInfo, NotOpened
  <2>2. QED
    BY <2>1, StoredAlike
<1>5. Stored(Flushed(a)) = Stored(a)
  BY EmptiedLines, SameLines DEF Stored, Flushed
<1>6. ASSUME a.buf # << >> \/ a.end = "glued"
      PROVE  Stored(Spilled(a)) = Stored(a)
  <2>1. Spilled(a) \in LogInfo /\ Spilled(a).csv = a.csv
    BY <1>6, SpilledType DEF LogInfo, Spilled
  <2>2. CASE a.end = "glued"
    <3>1. Spilled(a).log = a.log /\ Spilled(a).buf = a.buf
      BY <2>2 DEF LogInfo, Spilled
    <3>2. QED
      BY <2>1, <3>1, StoredAlike
  <2>3. CASE a.end # "glued"
    <3>1. Append(a.log, Head(a.buf)) \o Tail(a.buf) = a.log \o a.buf
      BY <1>1, <1>6, <2>3, SpilledSame
    <3>2. Spilled(a).log = Append(a.log, Head(a.buf)) /\ Spilled(a).buf = Tail(a.buf)
      BY <2>3 DEF LogInfo, Spilled
    <3>3. QED
      BY <2>1, <3>1, <3>2, SameLines DEF Stored
  <2>4. QED
    BY <2>2, <2>3
<1>7. Stored(SpilledHalf(a)) = Stored(a)
  <2> DEFINE b == SpilledHalf(a)
  <2>1. b \in LogInfo /\ b.csv = a.csv /\ b.log = a.log /\ b.buf = a.buf
    BY DEF LogInfo, SpilledHalf
  <2> HIDE DEF b
  <2>2. Stored(b) = Stored(a)
    BY <2>1, StoredAlike
  <2>3. QED
    BY <2>2 DEF b
<1>8. Stored([a EXCEPT !.state = "linked"]) = Stored(a)
  <2> DEFINE b == [a EXCEPT !.state = "linked"]
  <2>1. b \in LogInfo /\ b.csv = a.csv /\ b.log = a.log /\ b.buf = a.buf
    BY AddedType DEF LogInfo, Adding
  <2> HIDE DEF b
  <2>2. Stored(b) = Stored(a)
    BY <2>1, StoredAlike
  <2>3. QED
    BY <2>2 DEF b
<1>9. QED
  BY <1>2, <1>3, <1>4, <1>5, <1>6, <1>7, <1>8

\* Those that lose what the writer holds.
LEMMA StoredCut ==
  ASSUME NEW a \in LogInfo, NEW t \in Nat
  PROVE  /\ Stored(Broken(a)) = LineIds(Disk(a))
         /\ Stored(Forgotten(a)) = LineIds(Disk(a))
         /\ Stored([Forgotten(a) EXCEPT !.state = "raw"]) = LineIds(Disk(a))
         /\ Stored(Opened(a, t)) = LineIds(Disk(a))
<1>1. ASSUME NEW b \in LogInfo, b.csv = a.csv, b.log = a.log, b.buf = << >>
      PROVE  Stored(b) = LineIds(Disk(a))
  <2>1. Disk(b) = Disk(a)
    BY <1>1 DEF Disk
  <2>2. Stored(b) = LineIds(Disk(a)) \o << >> /\ LineIds(Disk(a)) \in Seq(Nat)
    BY <1>1, <2>1, StoredType, LineIdsSmall
  <2>3. QED
    BY <2>2
<1>2. /\ Stored(Broken(a)) = LineIds(Disk(a)) /\ Stored(Forgotten(a)) = LineIds(Disk(a))
      /\ Stored([Forgotten(a) EXCEPT !.state = "raw"]) = LineIds(Disk(a))
  <2> DEFINE f == Forgotten(a)
             c == [f EXCEPT !.state = "raw"]
  <2>1. /\ Broken(a) \in LogInfo /\ f \in LogInfo
        /\ Broken(a).csv = a.csv /\ Broken(a).log = a.log /\ Broken(a).buf = << >>
        /\ f.csv = a.csv /\ f.log = a.log /\ f.buf = << >>
    BY EndedType DEF LogInfo, Broken, Forgotten
  <2> HIDE DEF f
  <2>2. c \in LogInfo /\ c.csv = a.csv /\ c.log = a.log /\ c.buf = << >>
    BY <2>1, AddedType DEF LogInfo
  <2> HIDE DEF c
  <2>3. Stored(c) = LineIds(Disk(a)) /\ Stored(Broken(a)) = LineIds(Disk(a))
        /\ Stored(f) = LineIds(Disk(a))
    BY <1>1, <2>1, <2>2
  <2>4. QED
    BY <2>3 DEF f, c
<1>3. Stored(Opened(a, t)) = LineIds(Disk(a))
  <2> DEFINE b == Opened(a, t)
             flat == FlattenSeq([k \in DOMAIN a.csv |-> a.csv[k].lines])
  <2>1. /\ b \in LogInfo /\ b.csv = a.csv
        /\ \/ b.log = a.log /\ b.buf = << HeaderLine(t) >>
           \/ b.log = Append(a.log, HeaderLine(t)) /\ b.buf = << >>
    BY OpenedType DEF LogInfo, Opened
  <2>2. flat \in Seq(Line) /\ a.log \in Seq(Line) /\ Disk(a) \in Seq(Line) /\ Disk(a) = flat \o a.log
    BY DiskType DEF Disk
  <2>3. Disk(b) = flat \o b.log
    BY <2>1 DEF Disk
  <2>4. HeaderLine(t) \in Line /\ << HeaderLine(t) >> \in Seq(Line)
    BY DEF HeaderLine, HeaderId, Line
  <2>5. LineIds(<< HeaderLine(t) >>) = << >> /\ LineIds(<< >>) = << >>
    BY LineIdsSmall DEF HeaderLine
  <2>6. LineIds(Disk(a)) \in Seq(Nat) /\ LineIds(Disk(a)) \o << >> = LineIds(Disk(a))
    <3>1. LineIds(Disk(a)) \in Seq(Nat)
      BY StoredType
    <3>2. QED
      BY <3>1
  <2> HIDE DEF b, flat
  <2>7. CASE b.log = a.log /\ b.buf = << HeaderLine(t) >>
    <3>1. Disk(b) = Disk(a)
      BY <2>2, <2>3, <2>7
    <3>2. Stored(b) = LineIds(Disk(b)) \o LineIds(b.buf)
      BY <2>1, StoredType
    <3>3. LineIds(b.buf) = << >>
      BY <2>5, <2>7
    <3>4. QED
      BY <2>6, <3>1, <3>2, <3>3 DEF b
  <2>8. CASE b.log = Append(a.log, HeaderLine(t)) /\ b.buf = << >>
    <3>1. flat \o Append(a.log, HeaderLine(t)) = (flat \o a.log) \o << HeaderLine(t) >>
      <4> DEFINE u == a.log
                 x == HeaderLine(t)
      <4>1. u \in Seq(Line) /\ x \in Line /\ << x >> \in Seq(Line) /\ flat \in Seq(Line)
        BY <2>2, <2>4
      <4> HIDE DEF u, x
      <4>2. Append(u, x) = u \o << x >>
        BY <4>1
      <4>3. flat \o (u \o << x >>) = (flat \o u) \o << x >>
        BY <4>1, ConcatAssociative
      <4>4. QED
        BY <4>2, <4>3 DEF u, x
    <3>2. LineIds(Disk(b)) = LineIds(Disk(a)) \o LineIds(<< HeaderLine(t) >>)
      <4> DEFINE d == Disk(a)
      <4>1. Disk(b) = d \o << HeaderLine(t) >> /\ d \in Seq(Line)
        BY <2>2, <2>3, <2>8, <3>1
      <4> HIDE DEF d
      <4>2. LineIds(d \o << HeaderLine(t) >>) = LineIds(d) \o LineIds(<< HeaderLine(t) >>)
        BY <2>4, <4>1, LineIdsConcat
      <4>3. QED
        BY <4>1, <4>2 DEF d
    <3>3. Stored(b) = LineIds(Disk(b)) \o << >>
      BY <2>1, <2>5, <2>8, StoredType
    <3> DEFINE x == LineIds(Disk(a))
    <3>4. Stored(b) = (x \o << >>) \o << >> /\ x \in Seq(Nat) /\ x \o << >> = x
      BY <2>5, <2>6, <3>2, <3>3
    <3> HIDE DEF x
    <3>5. Stored(b) = x
      BY <3>4
    <3>6. QED
      BY <3>5 DEF x, b
  <2>9. QED
    BY <2>1, <2>7, <2>8
<1>4. QED
  BY <1>2, <1>3

\* Those that add one: the first row after a stump joins it.
LEMMA StoredMore ==
  ASSUME NEW a \in LogInfo, NEW t \in Nat, NEW line \in Line, line.id # HeaderId
  PROVE  /\ a.buf = << >> => Stored(Opened(a, t)) = Stored(a)
         /\ a.writer = "open" /\ a.end # "stump" =>
              Stored(Written(a, line)) = Append(Stored(a), line.id)
         /\ a.writer # "open" \/ a.end = "stump" => Stored(Written(a, line)) = Stored(a)
<1>1. ASSUME a.buf = << >>
      PROVE  Stored(Opened(a, t)) = Stored(a)
  <2> DEFINE x == LineIds(Disk(a))
  <2>1. Stored(a) = x \o << >> /\ x \in Seq(Nat)
    BY <1>1, StoredType, LineIdsSmall
  <2>2. Stored(Opened(a, t)) = x
    BY StoredCut
  <2> HIDE DEF x
  <2>3. QED
    BY <2>1, <2>2
<1>2. ASSUME a.writer # "open" \/ a.end = "stump"
      PROVE  Stored(Written(a, line)) = Stored(a)
  <2> DEFINE b == Written(a, line)
  <2>1. b \in LogInfo /\ b.csv = a.csv /\ b.log = a.log /\ b.buf = a.buf
    BY <1>2, WrittenType DEF LogInfo, Written
  <2> HIDE DEF b
  <2>2. Stored(b) = Stored(a)
    BY <2>1, StoredAlike
  <2>3. QED
    BY <2>2 DEF b
<1>3. ASSUME a.writer = "open", a.end # "stump"
      PROVE  Stored(Written(a, line)) = Append(Stored(a), line.id)
  <2>1. Written(a, line) \in LogInfo /\ Written(a, line).csv = a.csv
        /\ Written(a, line).log = a.log /\ Written(a, line).buf = Append(a.buf, line)
    BY <1>3, WrittenType DEF LogInfo, Written
  <2>2. Disk(Written(a, line)) = Disk(a)
    BY <2>1 DEF Disk
  <2>3. LineIds(Append(a.buf, line)) = LineIds(a.buf) \o << line.id >>
    <3>1. a.buf \in Seq(Line) /\ << line >> \in Seq(Line) /\ Append(a.buf, line) = a.buf \o << line >>
      BY DEF LogInfo
    <3>2. LineIds(a.buf \o << line >>) = LineIds(a.buf) \o LineIds(<< line >>)
      BY <3>1, LineIdsConcat
    <3>3. QED
      BY <3>1, <3>2, LineIdsSmall
  <2> DEFINE d == LineIds(Disk(a))
             b == LineIds(a.buf)
  <2>4. d \in Seq(Nat) /\ b \in Seq(Nat) /\ line.id \in Nat /\ Stored(a) = d \o b
        /\ Stored(Written(a, line)) = d \o (b \o << line.id >>)
    <3>1. line.id \in Nat
      BY DEF Line
    <3>2. QED
      BY <2>1, <2>2, <2>3, <3>1, StoredType
  <2> HIDE DEF d, b
  <2>5. d \o Append(b, line.id) = Append(d \o b, line.id)
    <3> DEFINE x == line.id
    <3>1. x \in Nat
      BY <2>4
    <3> HIDE DEF x
    <3>2. d \o Append(b, x) = Append(d \o b, x)
      BY <2>4, <3>1, AppendConcat
    <3>3. QED
      BY <3>2 DEF x
  <2>6. Append(b, line.id) = b \o << line.id >>
    BY <2>4
  <2>7. QED
    BY <2>4, <2>5, <2>6
<1>4. QED
  BY <1>1, <1>3, <1>2

-----------------------------------------------------------------------------
(***************************************************************************)
(* The hands of the workers.  A worker holds a log between Take and the    *)
(* end of Write, as long as no second worker was started beside it only    *)
(* the thread of the manager runs, and a writer that is null holds no line.*)
(***************************************************************************)
Unopened(a) == a.writer = "null" \/ a.state = "absent"

HandInv ==
  /\ \A w \in Workers : hand[w] # << >> => pc[w] \in {"taken", "write"}
  /\ \A w \in Workers : cause[w] # "none" => pc[w] \in {"closing", "dead"}
  /\ spent.overlaps = 0 => \A w \in Workers : Running(w) => w = thread
  /\ \A n \in Names : Unopened(infos[n]) => infos[n].buf = << >>

LEMMA UnopenedKept ==
  ASSUME NEW a \in LogInfo, Unopened(a) => a.buf = << >>, NEW t \in Nat
  PROVE  /\ \A b \in {Closed(a, t), Broken(a), NotRenamed(a), Flushed(a), Forgotten(a),
                      NotOpened(a, t)} : Unopened(b) => b.buf = << >>
         /\ \A b \in FailedReloads(a, t) : Unopened(b) => b.buf = << >>
         /\ a.state # "absent" =>
              /\ Unopened(Opened(a, t)) => Opened(a, t).buf = << >>
              /\ \A line : Unopened(Written(a, line)) => Written(a, line).buf = << >>
         /\ a.buf # << >> \/ a.end = "glued" =>
              (Unopened(Spilled(a)) => Spilled(a).buf = << >>)
         /\ Unopened(SpilledHalf(a)) => SpilledHalf(a).buf = << >>
         /\ Unopened(a) => a.buf = << >>
<1>1. \A b \in {Closed(a, t), Broken(a), NotRenamed(a), Flushed(a), Forgotten(a), NotOpened(a, t)} :
        Unopened(b) => b.buf = << >>
  <2>1. Closed(a, t).buf = << >> /\ Broken(a).buf = << >> /\ Forgotten(a).buf = << >>
    BY DEF LogInfo, Closed, Broken, Forgotten
  <2>2. NotRenamed(a) = a \/ NotRenamed(a).buf = << >>
    BY NotRenamedLines
  <2>3. Flushed(a) = a \/ Flushed(a).buf = << >>
    BY EmptiedLines DEF Flushed
  <2>4. NotOpened(a, t).buf = a.buf /\ NotOpened(a, t).writer = a.writer
        /\ NotOpened(a, t).state = a.state
    BY DEF LogInfo, NotOpened
  <2>5. Unopened(NotOpened(a, t)) <=> Unopened(a)
    BY <2>4 DEF Unopened
  <2>6. QED
    BY <2>1, <2>2, <2>3, <2>4, <2>5
<1>2. \A b \in FailedReloads(a, t) : Unopened(b) => b.buf = << >>
  <2>1. NotOpened(Closed(a, t), t).buf = << >>
    BY ClosedType DEF LogInfo, Closed, NotOpened
  <2>2. QED
    BY <1>1, <2>1 DEF FailedReloads
<1>3. ASSUME a.state # "absent"
      PROVE  /\ ~Unopened(Opened(a, t))
             /\ \A line : Unopened(Written(a, line)) => Written(a, line).buf = << >>
  <2>1. Opened(a, t).writer = "open" /\ Opened(a, t).state = a.state
    BY DEF LogInfo, Opened
  <2>2. ASSUME NEW line
        PROVE  Written(a, line) = a \/ ~Unopened(Written(a, line))
    <3>1. Written(a, line).writer = a.writer /\ Written(a, line).state = a.state
      BY DEF LogInfo, Written
    <3>2. a.writer = "open" \/ Written(a, line) = a
      BY DEF Written
    <3>3. QED
      BY <1>3, <3>1, <3>2 DEF Unopened
  <2>3. QED
    BY <1>3, <2>1, <2>2 DEF Unopened
<1>4. ASSUME a.buf # << >> \/ a.end = "glued"
      PROVE  Unopened(Spilled(a)) => Spilled(a).buf = << >>
  <2>1. Spilled(a).writer = a.writer /\ Spilled(a).state = a.state
    BY DEF LogInfo, Spilled
  <2>2. a.end = "glued" => Spilled(a).buf = a.buf
    BY DEF LogInfo, Spilled
  <2>3. QED
    BY <1>4, <2>1, <2>2 DEF Unopened
<1>5. Unopened(SpilledHalf(a)) => SpilledHalf(a).buf = << >>
  <2> DEFINE b == SpilledHalf(a)
  <2>1. b.buf = a.buf /\ b.writer = a.writer /\ b.state = a.state
    BY DEF LogInfo, SpilledHalf
  <2> HIDE DEF b
  <2>2. Unopened(b) => b.buf = << >>
    BY <2>1 DEF Unopened
  <2>3. QED
    BY <2>2 DEF b
<1>6. QED
  BY <1>1, <1>2, <1>3, <1>4, <1>5

LEMMA UnopenedLogged ==
  ASSUME TypeInv, NEW w \in Workers, pc[w] = "write", NEW a \in LogInfo, a.state # "absent",
         Unopened(a) => a.buf = << >>
  PROVE  LET b == Logged(w, Current(w, a)) IN Unopened(b) => b.buf = << >>
<1> DEFINE c == Current(w, a)
           line == [id |-> hand[w][1].id, at |-> stamp[w]]
<1>1. clock \in Nat /\ c \in LogInfo /\ c.state # "absent"
  <2>1. clock \in Nat
    BY CsvLogAssumption DEF TypeInv, TypeOK
  <2>2. c \in LogInfo /\ c.state = a.state
    BY LoggedState
  <2>3. QED
    BY <2>1, <2>2
<1>2. Unopened(c) => c.buf = << >>
  <2>1. Closed(a, clock) \in LogInfo /\ Closed(a, clock).state = a.state
        /\ Closed(a, clock).buf = << >>
    BY <1>1, ClosedType, EndedState DEF Closed, LogInfo
  <2>2. Unopened(Reloaded(a, clock)) => Reloaded(a, clock).buf = << >>
    BY <1>1, <2>1, UnopenedKept DEF Reloaded
  <2>3. QED
    BY <2>2 DEF Current
<1>3. /\ Unopened(Written(c, line)) => Written(c, line).buf = << >>
      /\ Unopened(Flushed(c)) => Flushed(c).buf = << >>
  <2> HIDE DEF c, line
  <2>1. QED
    BY <1>1, <1>2, UnopenedKept
<1>4. Written(c, line) \in LogInfo
  <2>1. hand[w] \in Seq(Log) /\ Len(hand[w]) = 1 /\ stamp[w] \in Nat
    BY CsvLogAssumption DEF TypeInv, TypeOK
  <2>2. hand[w][1] \in Log
    BY <2>1
  <2>3. line \in Line
    BY <2>1, <2>2 DEF Log, Line
  <2> HIDE DEF c, line
  <2>4. QED
    BY <1>1, <2>3, WrittenType
<1>5. Unopened(Flushed(Written(c, line))) => Flushed(Written(c, line)).buf = << >>
  <2> DEFINE d == Written(c, line)
  <2>1. d \in LogInfo /\ (Unopened(d) => d.buf = << >>)
    BY <1>3, <1>4
  <2> HIDE DEF c, line, d
  <2>2. Unopened(Flushed(d)) => Flushed(d).buf = << >>
    BY <1>1, <2>1, UnopenedKept
  <2>3. QED
    BY <2>2 DEF d
<1> DEFINE b == Logged(w, c)
<1>6. b \in {c, Written(c, line), Flushed(c), Flushed(Written(c, line))}
  <2> HIDE DEF c
  <2>1. QED
    BY DEF Logged
<1> HIDE DEF c, line, b
<1>7. Unopened(b) => b.buf = << >>
  BY <1>2, <1>3, <1>5, <1>6
<1>8. QED
  BY <1>7 DEF b, c

LEMMA HandInvNext == TypeInv /\ StopInv /\ HandInv /\ [Next]_vars => HandInv'
<1> SUFFICES ASSUME TypeInv, StopInv, HandInv, [Next]_vars
             PROVE  HandInv'
  OBVIOUS
<1>1. /\ infos \in [Names -> LogInfo] /\ hand \in [Workers -> Seq(Log)] /\ spent \in Budget
      /\ pc \in [Workers -> {"none", "check", "take", "taken", "write", "closing", "dead"}]
      /\ cause \in [Workers -> {"none", "stopped", "interrupted", "failed"}]
      /\ thread \in Nat /\ clock \in Nat /\ addFrom \in Nat /\ Workers \subseteq Nat
  BY CsvLogAssumption DEF TypeInv, TypeOK, Workers
<1>2. \A n \in Names : infos[n] \in LogInfo /\ (Unopened(infos[n]) => infos[n].buf = << >>)
  BY <1>1 DEF HandInv
<1>3. \A n \in Names : Unopened(infos'[n]) => infos'[n].buf = << >>
  <2> DEFINE Good == \A n \in Names : Unopened(infos'[n]) => infos'[n].buf = << >>
  <2>1. ASSUME NEW n \in Names, Add(n)
        PROVE  Good
    <3> DEFINE b == [infos[n] EXCEPT !.state = "linked"]
    <3>1. infos[n] \in LogInfo /\ infos[n].buf = << >>
      BY <1>2, <2>1 DEF Add, Unopened
    <3>2. b.buf = << >>
      BY <3>1 DEF LogInfo
    <3>3. infos' = [infos EXCEPT ![n] = b]
      BY <2>1 DEF Add
    <3> HIDE DEF b
    <3>4. QED
      BY <1>1, <1>2, <3>2, <3>3
  <2>2. ASSUME NEW n \in Names, AddGoesOn(n)
         PROVE  Good
    <3>1. PICK b \in AddForms(infos[n]) : Alike(infos'[n], b)
      BY <1>1, <2>2, AddGoing
    <3>2. /\ Underway(infos[n]) /\ infos'[n].state # "absent"
          /\ \A m \in Names : m # n => infos'[m] = infos[m]
      BY <1>1, <2>2, AddGoing
    <3>3. infos[n].state # "absent"
      BY <3>2 DEF Underway, Adding
    <3>4. Unopened(b) => b.buf = << >>
      BY <1>1, <1>2, <3>3, UnopenedKept DEF AddForms
    <3>5. Unopened(infos'[n]) => infos'[n].buf = << >>
      BY <3>1, <3>2, <3>4 DEF Unopened, Alike
    <3>6. QED
      BY <1>2, <3>2, <3>5
  <2>3. ASSUME NEW n \in Names, AddDuplicate(n)
        PROVE  Good
    <3> DEFINE f == Forgotten(infos[n])
               b == [f EXCEPT !.state = "raw"]
    <3>1. f \in LogInfo /\ f.buf = << >>
      <4>1. f \in LogInfo
        BY <1>2, EndedType
      <4>2. QED
        BY <1>2, <4>1 DEF LogInfo, Forgotten
    <3>2. infos' = [infos EXCEPT ![n] = b]
      BY <2>3 DEF AddDuplicate
    <3> HIDE DEF f
    <3>3. b.buf = << >>
      BY <3>1 DEF LogInfo
    <3> HIDE DEF b
    <3>4. QED
      BY <1>1, <1>2, <3>2, <3>3
  <2>4. ASSUME NEW n \in Names, Spill(n)
        PROVE  Good
    <3>1. PICK b \in {Spilled(infos[n]), SpilledHalf(infos[n])} : infos' = [infos EXCEPT ![n] = b]
      BY <2>4 DEF Spill
    <3>2. Unopened(b) => b.buf = << >>
      BY <1>1, <1>2, <2>4, UnopenedKept DEF Spill
    <3>3. QED
      BY <1>1, <1>2, <3>1, <3>2
  <2>5. ASSUME Kill
        PROVE  Good
    <3>1. \A n \in Names : infos'[n] = Forgotten(infos[n])
      BY <2>5 DEF Kill
    <3>2. \A n \in Names : Forgotten(infos[n]).buf = << >>
      BY <1>2 DEF Forgotten, LogInfo
    <3>3. QED
      BY <3>1, <3>2
  <2>6. ASSUME NEW w \in Workers, Write(w)
        PROVE  Good
    <3> DEFINE n == hand[w][1].name
    <3>1. pc[w] = "write" /\ hand[w] \in Seq(Log) /\ Len(hand[w]) = 1
      BY <1>1, <2>6 DEF Write, TypeInv
    <3>2. n \in Names /\ infos[n].state # "absent"
      <4>1. hand[w][1] \in Log
        BY <3>1
      <4>2. QED
        BY <2>6, <4>1 DEF Log, Write, Writable
    <3>3. infos'[n] = Logged(w, Current(w, infos[n])) /\ \A m \in Names : m # n => infos'[m] = infos[m]
      BY <1>1, <2>6, <3>2 DEF Write
    <3>4. Unopened(infos'[n]) => infos'[n].buf = << >>
      <4> HIDE DEF n
      <4>1. QED
        BY <1>2, <2>6, <3>1, <3>2, <3>3, UnopenedLogged
    <3> HIDE DEF n
    <3>5. QED
      BY <1>2, <3>3, <3>4
  <2>7. ASSUME NEW w \in Workers, WriteFails(w)
        PROVE  Good
    <3>1. \A n \in Names : \/ infos'[n] = infos[n] \/ infos'[n] = NotRenamed(infos[n])
                           \/ infos'[n] \in FailedReloads(infos[n], clock)
      BY <1>1, <2>7 DEF WriteFails
    <3>2. QED
      BY <1>1, <1>2, <3>1, UnopenedKept
  <2>8. ASSUME NEW w \in Workers, NEW n \in Names, CloseOne(w, n)
        PROVE  Good
    <3> DEFINE B == {Closed(infos[n], clock), Broken(infos[n]), NotRenamed(infos[n])}
    <3>1. \E b \in B : infos' = [infos EXCEPT ![n] = b]
      BY <2>8 DEF CloseOne
    <3>2. \A b \in B : Unopened(b) => b.buf = << >>
      BY <1>1, <1>2, UnopenedKept
    <3> HIDE DEF B
    <3>3. \A m \in Names : infos'[m] = infos[m] \/ infos'[m] \in B
      BY <1>1, <3>1
    <3>4. QED
      BY <1>2, <3>2, <3>3
  <2>9. infos' = infos => Good
    BY <1>2
  <2> HIDE DEF Good
  <2>10. Good
    <3>1. CASE \E n \in Names : Add(n) \/ AddGoesOn(n) \/ AddDuplicate(n) \/ Spill(n)
      BY <2>1, <2>3, <2>4, <2>2, <3>1
    <3>2. CASE \E w \in Workers : Write(w) \/ WriteFails(w) \/ \E n \in Names : CloseOne(w, n)
      BY <2>6, <2>7, <2>8, <3>2
    <3>3. QED
      BY <2>5, <2>9, <3>1, <3>2, InfosStep
  <2>11. QED
    BY <2>10 DEF Good
<1>4. spent'.overlaps = 0 => spent.overlaps = 0
  BY SpentGrows
<1> DEFINE Hands == /\ \A w \in Workers : hand'[w] # << >> => pc'[w] \in {"taken", "write"}
                    /\ \A w \in Workers : cause'[w] # "none" => pc'[w] \in {"closing", "dead"}
                    /\ spent'.overlaps = 0 =>
                         \A w \in Workers : pc'[w] \notin {"none", "dead"} => w = thread'
<1>5. /\ \A w \in Workers : hand[w] # << >> => pc[w] \in {"taken", "write"}
      /\ \A w \in Workers : cause[w] # "none" => pc[w] \in {"closing", "dead"}
      /\ spent.overlaps = 0 =>
           \A w \in Workers : pc[w] \notin {"none", "dead"} => w = thread
  BY DEF HandInv, Running
<1>6. UNCHANGED << hand, pc, cause, thread >> => Hands
  BY <1>4, <1>5
<1>7. ASSUME Kill
      PROVE  Hands
  <2>1. \A w \in Workers : hand'[w] = << >> /\ pc'[w] = "none" /\ cause'[w] = "none"
    BY <1>7 DEF Kill
  <2>2. QED
    BY <2>1
<1>8. ASSUME NEW w \in Workers, Worker(w)
      PROVE  Hands
  <2>1. pc[w] \notin {"none", "dead"} /\ thread' = thread
    BY <1>8 DEF Worker, CheckStop, Take, TakeInterrupted, ReadClock, Write, WriteFails, CloseOne,
                mgrVars
  <2>2. /\ \A v \in Workers : v # w => hand'[v] = hand[v] /\ pc'[v] = pc[v] /\ cause'[v] = cause[v]
        /\ hand'[w] # << >> => pc'[w] \in {"taken", "write"}
        /\ cause'[w] # "none" => pc'[w] \in {"closing", "dead"}
    BY <1>1, <1>5, <1>8 DEF Worker, CheckStop, Take, TakeInterrupted, ReadClock, Write, WriteFails,
                            CloseOne, Leave
  <2>3. \A v \in Workers : pc'[v] \notin {"none", "dead"} => pc[v] \notin {"none", "dead"}
    BY <2>1, <2>2
  <2>4. QED
    BY <1>4, <1>5, <2>1, <2>2, <2>3
<1>9. ASSUME Startup
      PROVE  Hands
  <2>1. /\ hand' = hand /\ cause' = cause /\ thread' = thread + 1
        /\ pc' = [pc EXCEPT ![thread + 1] = "check"]
    BY <1>9 DEF Startup
  <2>2. \A w \in Workers : pc'[w] = IF w = thread + 1 THEN "check" ELSE pc[w]
    BY <1>1, <2>1
  <2>3. \A w \in Workers : w = thread + 1 => hand[w] = << >> /\ cause[w] = "none"
    <3>1. \A w \in Workers : w = thread + 1 => pc[w] = "none"
      BY <1>1 DEF StopInv
    <3>2. QED
      BY <1>5, <3>1
  <2>4. ASSUME spent'.overlaps = 0, NEW w \in Workers, pc'[w] \notin {"none", "dead"},
               w # thread + 1
        PROVE  FALSE
    <3>1. Running(w)
      BY <2>2, <2>4 DEF Running
    <3>2. CASE thread = 0
      <4>1. w > thread
        BY <1>1, <3>2 DEF Workers
      <4>2. QED
        BY <3>1, <4>1 DEF StopInv, Running
    <3>3. CASE thread # 0
      <4>1. spent' = [spent EXCEPT !.restarts = @ + 1, !.overlaps = @ + 1]
        BY <1>9, <3>1, <3>3 DEF Startup
      <4>2. spent'.overlaps = spent.overlaps + 1 /\ spent.overlaps \in Nat
        BY <1>1, <4>1, CsvLogAssumption DEF Budget
      <4>3. QED
        BY <2>4, <4>2
    <3>4. QED
      BY <3>2, <3>3
  <2>5. \A w \in Workers : hand'[w] # << >> => pc'[w] \in {"taken", "write"}
    BY <1>5, <2>1, <2>2, <2>3
  <2>6. \A w \in Workers : cause'[w] # "none" => pc'[w] \in {"closing", "dead"}
    BY <1>5, <2>1, <2>2, <2>3
  <2>7. QED
    BY <2>1, <2>4, <2>5, <2>6
<1>10. ASSUME Manager, ~Startup
       PROVE  UNCHANGED << hand, pc, cause, thread >>
  BY <1>10 DEF Manager, Interrupt, Stop, JoinReturns, Add, AddCheck, AddTest, AddNext, AddOpen,
               AddDuplicate, workVars, mgrVars
<1>11. ASSUME NEW p \in Producers, Producer(p)
       PROVE  UNCHANGED << hand, pc, cause, thread >>
  BY <1>11 DEF Producer, Begin, Commit, Rollback, Offer, OfferFails, WriteLog, workVars, mgrVars
<1>12. Tick \/ UNCHANGED vars \/ (\E n \in Names : Spill(n)) => UNCHANGED << hand, pc, cause, thread >>
  BY DEF Tick, vars, Spill, workVars, mgrVars
<1> HIDE DEF Hands
<1>13. Hands
  BY <1>6, <1>7, <1>8, <1>9, <1>10, <1>11, <1>12 DEF Next
<1>14. QED
  BY <1>3, <1>13 DEF HandInv, Hands, Running

-----------------------------------------------------------------------------
(***************************************************************************)
(* Sequences one of which is left when elements of the other are dropped.  *)
(***************************************************************************)
Sub(r, s) ==
  \E g \in [DOMAIN r -> DOMAIN s] :
    /\ \A i, j \in DOMAIN r : i < j => g[i] < g[j]
    /\ \A i \in DOMAIN r : r[i] = s[g[i]]

LEMMA SubRefl ==
  ASSUME NEW s
  PROVE  Sub(s, s)
<1> DEFINE g == [i \in DOMAIN s |-> i]
<1>1. /\ g \in [DOMAIN s -> DOMAIN s]
      /\ \A i, j \in DOMAIN s : i < j => g[i] < g[j]
      /\ \A i \in DOMAIN s : s[i] = s[g[i]]
  OBVIOUS
<1> HIDE DEF g
<1>2. QED
  BY <1>1 DEF Sub

LEMMA SubEmpty ==
  ASSUME NEW s
  PROVE  Sub(<< >>, s)
<1> DEFINE g == [i \in {} |-> i]
<1>1. g \in [{} -> DOMAIN s] /\ DOMAIN << >> = {}
  OBVIOUS
<1> HIDE DEF g
<1>2. QED
  BY <1>1 DEF Sub

LEMMA SubTrans ==
  ASSUME NEW r, NEW s, NEW t, Sub(r, s), Sub(s, t)
  PROVE  Sub(r, t)
<1>1. PICK g \in [DOMAIN r -> DOMAIN s] :
        /\ \A i, j \in DOMAIN r : i < j => g[i] < g[j]
        /\ \A i \in DOMAIN r : r[i] = s[g[i]]
  BY DEF Sub
<1>2. PICK h \in [DOMAIN s -> DOMAIN t] :
        /\ \A i, j \in DOMAIN s : i < j => h[i] < h[j]
        /\ \A i \in DOMAIN s : s[i] = t[h[i]]
  BY DEF Sub
<1> DEFINE f == [i \in DOMAIN r |-> h[g[i]]]
<1>3. f \in [DOMAIN r -> DOMAIN t]
  BY <1>1, <1>2
<1>4. \A i \in DOMAIN r : f[i] = h[g[i]] /\ g[i] \in DOMAIN s
  BY <1>1
<1> HIDE DEF f
<1>5. \A i, j \in DOMAIN r : i < j => f[i] < f[j]
  BY <1>1, <1>2, <1>4
<1>6. \A i \in DOMAIN r : r[i] = t[f[i]]
  BY <1>1, <1>2, <1>4
<1>7. QED
  BY <1>3, <1>5, <1>6 DEF Sub

LEMMA SubConcat ==
  ASSUME NEW a \in Seq(Nat), NEW b \in Seq(Nat), NEW c \in Seq(Nat), NEW d \in Seq(Nat),
         Sub(a, b), Sub(c, d)
  PROVE  Sub(a \o c, b \o d)
<1> DEFINE A == Len(a)
           B == Len(b)
           C == Len(c)
           D == Len(d)
<1>1. PICK g \in [DOMAIN a -> DOMAIN b] :
        /\ \A i, j \in DOMAIN a : i < j => g[i] < g[j]
        /\ \A i \in DOMAIN a : a[i] = b[g[i]]
  BY DEF Sub
<1>2. PICK h \in [DOMAIN c -> DOMAIN d] :
        /\ \A i, j \in DOMAIN c : i < j => h[i] < h[j]
        /\ \A i \in DOMAIN c : c[i] = d[h[i]]
  BY DEF Sub
<1>3. /\ A \in Nat /\ B \in Nat /\ C \in Nat /\ D \in Nat
      /\ DOMAIN a = 1 .. A /\ DOMAIN b = 1 .. B /\ DOMAIN c = 1 .. C /\ DOMAIN d = 1 .. D
      /\ DOMAIN (a \o c) = 1 .. A + C /\ DOMAIN (b \o d) = 1 .. B + D
  OBVIOUS
<1>4. /\ \A i \in 1 .. A + C : (a \o c)[i] = IF i <= A THEN a[i] ELSE c[i - A]
      /\ \A i \in 1 .. B + D : (b \o d)[i] = IF i <= B THEN b[i] ELSE d[i - B]
  BY ConcatProperties
<1> DEFINE f == [i \in 1 .. A + C |-> IF i <= A THEN g[i] ELSE B + h[i - A]]
           r == a \o c
           s == b \o d
<1>5. \A i \in 1 .. A + C : i <= A => i \in 1 .. A /\ f[i] = g[i] /\ g[i] \in 1 .. B
  <2> SUFFICES ASSUME NEW i \in 1 .. A + C, i <= A
               PROVE  i \in 1 .. A /\ f[i] = g[i] /\ g[i] \in 1 .. B
    OBVIOUS
  <2>1. i \in 1 .. A
    BY <1>3
  <2>2. QED
    BY <1>1, <1>3, <2>1
<1>6. \A i \in 1 .. A + C : ~(i <= A) => i - A \in 1 .. C /\ f[i] = B + h[i - A] /\ h[i - A] \in 1 .. D
  <2> SUFFICES ASSUME NEW i \in 1 .. A + C, ~(i <= A)
               PROVE  i - A \in 1 .. C /\ f[i] = B + h[i - A] /\ h[i - A] \in 1 .. D
    OBVIOUS
  <2>1. i - A \in 1 .. C
    BY <1>3
  <2>2. QED
    BY <1>2, <1>3, <2>1
<1> HIDE DEF f, r, s, A, B, C, D
<1>7. B \in Nat /\ D \in Nat
  BY <1>3
<1>8. \A i \in 1 .. A + C : f[i] \in 1 .. B + D
  <2> SUFFICES ASSUME NEW i \in 1 .. A + C
               PROVE  f[i] \in 1 .. B + D
    OBVIOUS
  <2>1. CASE i <= A
    <3>1. f[i] \in 1 .. B
      BY <1>5, <2>1
    <3>2. QED
      BY <1>3, <3>1
  <2>2. CASE ~(i <= A)
    <3> DEFINE x == h[i - A]
    <3>1. f[i] = B + x /\ x \in 1 .. D
      BY <1>6, <2>2
    <3> HIDE DEF x
    <3>2. QED
      BY <1>7, <3>1
  <2>3. QED
    BY <2>1, <2>2
<1>9. f \in [1 .. A + C -> 1 .. B + D]
  BY <1>8 DEF f
<1>10. ASSUME NEW i \in 1 .. A + C, NEW j \in 1 .. A + C, i < j
      PROVE  f[i] < f[j]
  <2>1. CASE j <= A
    <3>1. i <= A
      BY <1>3, <1>10, <2>1
    <3>2. QED
      BY <1>1, <1>3, <1>5, <1>10, <2>1, <3>1
  <2>2. CASE i <= A /\ ~(j <= A)
    <3> DEFINE x == h[j - A]
    <3>1. f[i] \in 1 .. B
      BY <1>5, <2>2
    <3>2. f[j] = B + x /\ x \in 1 .. D
      BY <1>6, <2>2
    <3> HIDE DEF x
    <3>3. QED
      BY <1>7, <3>1, <3>2
  <2>3. CASE ~(i <= A) /\ ~(j <= A)
    <3> DEFINE k == i - A
               l == j - A
    <3>1. k \in 1 .. C /\ l \in 1 .. C /\ k < l
      BY <1>3, <1>6, <1>10, <2>3
    <3>2. f[i] = B + h[k] /\ f[j] = B + h[l] /\ h[k] \in 1 .. D /\ h[l] \in 1 .. D
      BY <1>6, <1>10, <2>3
    <3> HIDE DEF k, l
    <3>3. h[k] < h[l]
      BY <1>2, <1>3, <3>1
    <3> DEFINE x == h[k]
               y == h[l]
    <3>4. B \in Nat /\ D \in Nat
      BY <1>3
    <3>5. f[i] = B + x /\ f[j] = B + y /\ x \in 1 .. D /\ y \in 1 .. D /\ x < y
      BY <3>2, <3>3
    <3> HIDE DEF x, y
    <3>6. QED
      BY <3>4, <3>5
  <2>4. QED
    BY <1>3, <1>10, <2>1, <2>2, <2>3
<1>11. ASSUME NEW i \in 1 .. A + C
       PROVE  r[i] = s[f[i]]
  <2>1. CASE i <= A
    <3>1. r[i] = a[i] /\ f[i] \in 1 .. B + D /\ f[i] <= B /\ f[i] = g[i]
      BY <1>3, <1>4, <1>5, <1>8, <1>11, <2>1 DEF r, A
    <3>2. s[f[i]] = b[f[i]]
      BY <1>4, <3>1 DEF s, B, D
    <3>3. a[i] = b[g[i]]
      BY <1>1, <1>3, <1>5, <1>11, <2>1
    <3>4. QED
      BY <3>1, <3>2, <3>3
  <2>2. CASE ~(i <= A)
    <3> DEFINE k == i - A
    <3>1. /\ r[i] = c[k] /\ k \in 1 .. C /\ f[i] = B + h[k] /\ h[k] \in 1 .. D
          /\ f[i] \in 1 .. B + D
      BY <1>4, <1>6, <1>8, <1>11, <2>2 DEF r, A, C
    <3> HIDE DEF k
    <3>2. ~(f[i] <= B) /\ f[i] - B = h[k]
      BY <1>3, <3>1
    <3>3. s[f[i]] = d[h[k]]
      BY <1>4, <3>1, <3>2 DEF s, B, D
    <3>4. c[k] = d[h[k]]
      BY <1>2, <1>3, <3>1
    <3>5. QED
      BY <3>1, <3>3, <3>4
  <2>3. QED
    BY <2>1, <2>2
<1>12. DOMAIN r = 1 .. A + C /\ DOMAIN s = 1 .. B + D
  BY <1>3 DEF r, s
<1>13. Sub(r, s)
  BY <1>9, <1>10, <1>11, <1>12 DEF Sub
<1>14. QED
  BY <1>13 DEF r, s

-----------------------------------------------------------------------------
(***************************************************************************)
(* The flow of one name: its lines, the log in the worker's hand and those *)
(* in the queue.  As long as no two workers ran, a step appends to it what *)
(* it appends to the accepted logs, or drops some of it, which harms.      *)
(***************************************************************************)
FlowOf(a, h, q, n) == (Stored(a) \o Ids(FlattenSeq(h), n)) \o Ids(q, n)

Moves(n) ==
  LET before == FlowOf(infos[n], hand, queue, n)
      after  == FlowOf(infos'[n], hand', queue', n)
  IN  \/ \E z \in Seq(Nat) : after = before \o z /\ Ids(accepted', n) = Ids(accepted, n) \o z
      \/ Ids(accepted', n) = Ids(accepted, n) /\ Sub(after, before) /\ ~Intact'

LEMMA HandFlat ==
  ASSUME NEW h \in [Workers -> Seq(Log)]
  PROVE  /\ FlattenSeq(h) \in Seq(Log)
         /\ \A w \in Workers : (\A v \in Workers : v # w => h[v] = << >>) => FlattenSeq(h) = h[w]
<1> DEFINE N == MaxRestarts + 1
           L == Seq(Log)
<1>1. N \in Nat /\ Workers = 1 .. N
  BY CsvLogAssumption DEF Workers
<1> HIDE DEF N, L
<1>2. h \in [1 .. N -> L]
  BY <1>1 DEF L
<1>3. h \in Seq(L) /\ Len(h) = N
  BY <1>1, <1>2
<1>4. h \in Seq(Seq(Log))
  BY <1>3 DEF L
<1>5. FlattenSeq(h) \in Seq(Log)
  BY <1>4, FlattenType
<1>6. ASSUME NEW w \in 1 .. Len(h), \A v \in 1 .. Len(h) : v # w => h[v] = << >>
      PROVE  FlattenSeq(h) = h[w]
  BY <1>4, <1>6, FlattenOne
<1>7. QED
  BY <1>1, <1>3, <1>5, <1>6

LEMMA IdsAssociative == \A a, b, c \in Seq(Nat) : (a \o b) \o c = a \o (b \o c)
<1> DEFINE X == Nat
<1> HIDE DEF X
<1>1. \A a, b, c \in Seq(X) : (a \o b) \o c = a \o (b \o c)
  BY ConcatAssociative
<1>2. QED
  BY <1>1 DEF X

LEMMA FlowType ==
  ASSUME NEW a \in LogInfo, NEW h \in [Workers -> Seq(Log)], NEW q \in Seq(Log), NEW n
  PROVE  /\ Stored(a) \in Seq(Nat) /\ Ids(FlattenSeq(h), n) \in Seq(Nat) /\ Ids(q, n) \in Seq(Nat)
         /\ FlowOf(a, h, q, n) \in Seq(Nat)
<1> DEFINE x == Stored(a)
           y == Ids(FlattenSeq(h), n)
           z == Ids(q, n)
<1>1. x \in Seq(Nat)
  BY StoredType
<1>2. y \in Seq(Nat)
  BY HandFlat, IdsConcat
<1>3. z \in Seq(Nat)
  BY IdsConcat
<1>4. FlowOf(a, h, q, n) = (x \o y) \o z
  BY DEF FlowOf
<1> HIDE DEF x, y, z
<1>5. (x \o y) \o z \in Seq(Nat)
  BY <1>1, <1>2, <1>3
<1>6. QED
  BY <1>1, <1>2, <1>3, <1>4, <1>5 DEF x, y, z

LEMMA MovesSame ==
  ASSUME TypeInv, NEW n \in Names, queue' = queue, hand' = hand, accepted' = accepted,
         Stored(infos'[n]) = Stored(infos[n])
  PROVE  Moves(n)
<1>1. /\ infos[n] \in LogInfo /\ hand \in [Workers -> Seq(Log)] /\ queue \in Seq(Log)
      /\ accepted \in Seq(Log)
  BY DEF TypeInv, TypeOK
<1> DEFINE x == FlowOf(infos[n], hand, queue, n)
           y == Ids(accepted, n)
<1>2. x \in Seq(Nat) /\ y \in Seq(Nat) /\ << >> \in Seq(Nat)
  <2>1. x \in Seq(Nat)
    BY <1>1, FlowType
  <2>2. y \in Seq(Nat)
    BY <1>1, IdsConcat
  <2> HIDE DEF x, y
  <2>3. QED
    BY <2>1, <2>2
<1>3. FlowOf(infos'[n], hand', queue', n) = x /\ Ids(accepted', n) = y
  BY DEF FlowOf
<1> HIDE DEF x, y
<1>4. x = x \o << >> /\ y = y \o << >>
  BY <1>2
<1>5. QED
  BY <1>2, <1>3, <1>4 DEF Moves, x, y

LEMMA MovesLess ==
  ASSUME TypeInv, TypeInv', NEW n \in Names, accepted' = accepted, ~Intact',
         Sub(Stored(infos'[n]), Stored(infos[n])),
         Sub(Ids(FlattenSeq(hand'), n), Ids(FlattenSeq(hand), n)),
         Sub(Ids(queue', n), Ids(queue, n))
  PROVE  Moves(n)
<1>1. /\ infos[n] \in LogInfo /\ hand \in [Workers -> Seq(Log)] /\ queue \in Seq(Log)
      /\ infos'[n] \in LogInfo /\ hand' \in [Workers -> Seq(Log)] /\ queue' \in Seq(Log)
  BY DEF TypeInv, TypeOK
<1> DEFINE x == Stored(infos[n])
           y == Ids(FlattenSeq(hand), n)
           z == Ids(queue, n)
           x1 == Stored(infos'[n])
           y1 == Ids(FlattenSeq(hand'), n)
           z1 == Ids(queue', n)
<1>2. /\ x \in Seq(Nat) /\ y \in Seq(Nat) /\ z \in Seq(Nat)
      /\ x1 \in Seq(Nat) /\ y1 \in Seq(Nat) /\ z1 \in Seq(Nat)
  BY <1>1, FlowType
<1>3. Sub(x1, x) /\ Sub(y1, y) /\ Sub(z1, z)
  OBVIOUS
<1>4. /\ FlowOf(infos[n], hand, queue, n) = (x \o y) \o z
      /\ FlowOf(infos'[n], hand', queue', n) = (x1 \o y1) \o z1
  BY DEF FlowOf
<1> HIDE DEF x, y, z, x1, y1, z1
<1>5. Sub(x1 \o y1, x \o y) /\ x1 \o y1 \in Seq(Nat) /\ x \o y \in Seq(Nat)
  BY <1>2, <1>3, SubConcat
<1>6. Sub((x1 \o y1) \o z1, (x \o y) \o z)
  BY <1>2, <1>3, <1>5, SubConcat
<1>7. QED
  BY <1>4, <1>6 DEF Moves

LEMMA FlowStep ==
  ASSUME [Next]_vars
  PROVE  \/ UNCHANGED << infos, queue, hand, accepted >>
         \/ Kill
         \/ \E p \in Producers : Offer(p)
         \/ \E m \in Names : Add(m) \/ AddGoesOn(m) \/ AddDuplicate(m) \/ Spill(m)
         \/ \E w \in Workers : Take(w) \/ Write(w) \/ WriteFails(w) \/ \E m \in Names : CloseOne(w, m)
<1> DEFINE Same == UNCHANGED << infos, queue, hand, accepted >>
<1>1. ASSUME Manager, \A m \in Names : ~Add(m) /\ ~AddGoesOn(m) /\ ~AddDuplicate(m)
      PROVE  Same
  BY <1>1 DEF Manager, Startup, Interrupt, Stop, JoinReturns, AddGoesOn, workVars, histVars
<1>2. ASSUME NEW w \in Workers, Worker(w), ~Take(w), ~Write(w), ~WriteFails(w),
             \A m \in Names : ~CloseOne(w, m)
      PROVE  Same
  BY <1>2 DEF Worker, CheckStop, TakeInterrupted, ReadClock, histVars
<1>3. ASSUME NEW p \in Producers, Producer(p), ~Offer(p)
      PROVE  Same
  BY <1>3 DEF Producer, Begin, Commit, Rollback, OfferFails, WriteLog, workVars, histVars
<1>4. Tick \/ UNCHANGED vars => Same
  BY DEF Tick, vars, workVars, histVars
<1> HIDE DEF Same
<1>5. QED
  BY <1>1, <1>2, <1>3, <1>4 DEF Next, Same

\* The queue and the accepted logs grow together.
LEMMA OfferMoves ==
  ASSUME TypeInv, NEW n \in Names, NEW p \in Producers, Offer(p)
  PROVE  Moves(n)
<1>1. /\ infos[n] \in LogInfo /\ hand \in [Workers -> Seq(Log)] /\ queue \in Seq(Log)
      /\ accepted \in Seq(Log) /\ out[p] \in Seq(Log)
  BY DEF TypeInv, TypeOK
<1> DEFINE log == Head(out[p])
           x == Stored(infos[n]) \o Ids(FlattenSeq(hand), n)
           y == Ids(queue, n)
           z == Ids(<< log >>, n)
           t == Ids(accepted, n)
<1>2. log \in Log
  BY <1>1 DEF Offer
<1>3. infos' = infos /\ hand' = hand /\ queue' = Append(queue, log) /\ accepted' = Append(accepted, log)
  BY DEF Offer, workVars
<1> HIDE DEF log
<1>4. /\ << log >> \in Seq(Log) /\ Append(queue, log) = queue \o << log >>
      /\ Append(accepted, log) = accepted \o << log >>
  BY <1>1, <1>2
<1>5. Ids(queue', n) = y \o z /\ Ids(accepted', n) = t \o z
  BY <1>1, <1>3, <1>4, IdsConcat
<1>6. y \in Seq(Nat) /\ z \in Seq(Nat)
  BY <1>1, <1>4, IdsConcat
<1>7. x \in Seq(Nat)
  <2> DEFINE r == Stored(infos[n])
             u == Ids(FlattenSeq(hand), n)
  <2>1. r \in Seq(Nat) /\ u \in Seq(Nat)
    BY <1>1, FlowType
  <2> HIDE DEF r, u
  <2>2. r \o u \in Seq(Nat)
    BY <2>1
  <2>3. QED
    BY <2>2 DEF r, u
<1>8. FlowOf(infos[n], hand, queue, n) = x \o y
      /\ FlowOf(infos'[n], hand', queue', n) = x \o (y \o z)
  BY <1>3, <1>5 DEF FlowOf
<1> HIDE DEF x, y, z, t
<1>9. x \o (y \o z) = (x \o y) \o z
  <2>1. \A a, b, c \in Seq(Nat) : (a \o b) \o c = a \o (b \o c)
    BY IdsAssociative
  <2>2. QED
    BY <1>6, <1>7, <2>1, Zenon
<1>10. QED
  BY <1>5, <1>6, <1>8, <1>9 DEF Moves, t

LEMMA OthersEmpty ==
  ASSUME HandInv, spent.overlaps = 0, NEW w \in Workers, pc[w] \notin {"none", "dead"}
  PROVE  \A v \in Workers : v # w => hand[v] = << >>
<1>1. \A v \in Workers : Running(v) => v = thread
  BY DEF HandInv
<1>2. w = thread
  BY <1>1 DEF Running
<1>3. \A v \in Workers : hand[v] # << >> => v = thread
  BY <1>1 DEF HandInv, Running
<1>4. QED
  BY <1>2, <1>3

\* A log goes from the queue to the hand.
LEMMA TakeMoves ==
  ASSUME TypeInv, TypeInv', HandInv, spent.overlaps = 0, NEW n \in Names, NEW w \in Workers, Take(w)
  PROVE  Moves(n)
<1>1. /\ infos[n] \in LogInfo /\ hand \in [Workers -> Seq(Log)] /\ queue \in Seq(Log)
      /\ hand' \in [Workers -> Seq(Log)] /\ accepted \in Seq(Log)
  BY DEF TypeInv, TypeOK
<1> DEFINE log == Head(queue)
<1>2. /\ pc[w] = "take" /\ queue # << >> /\ hand' = [hand EXCEPT ![w] = << log >>]
      /\ queue' = Tail(queue) /\ infos' = infos /\ accepted' = accepted
  BY DEF Take, histVars
<1>3. log \in Log /\ << log >> \in Seq(Log) /\ Tail(queue) \in Seq(Log)
      /\ queue = << log >> \o Tail(queue)
  BY <1>1, <1>2
<1> HIDE DEF log
<1>4. hand[w] = << >> /\ \A v \in Workers : v # w => hand[v] = << >>
  BY <1>2, OthersEmpty DEF HandInv
<1>5. hand'[w] = << log >> /\ \A v \in Workers : v # w => hand'[v] = << >>
  BY <1>1, <1>2, <1>4
<1>6. FlattenSeq(hand) = << >>
  BY <1>1, <1>4, HandFlat
<1>7. FlattenSeq(hand') = << log >>
  BY <1>1, <1>5, HandFlat
<1> DEFINE x == Stored(infos[n])
           z == Ids(<< log >>, n)
           q == Ids(Tail(queue), n)
           t == Ids(accepted, n)
<1>8. x \in Seq(Nat)
  BY <1>1, StoredType
<1>9. z \in Seq(Nat) /\ q \in Seq(Nat) /\ Ids(queue, n) = z \o q
  BY <1>3, IdsConcat
<1>10. Ids(<< >>, n) = << >>
  BY IdsSmall
<1>11. t \in Seq(Nat)
  BY <1>1, IdsConcat
<1>12. /\ FlowOf(infos[n], hand, queue, n) = (x \o << >>) \o (z \o q)
       /\ FlowOf(infos'[n], hand', queue', n) = (x \o z) \o q
  BY <1>2, <1>6, <1>7, <1>9, <1>10 DEF FlowOf
<1> HIDE DEF x, z, q, t
<1>13. x \o << >> = x /\ (x \o z) \o q = x \o (z \o q) /\ << >> \in Seq(Nat)
  <2>1. x \o << >> = x /\ << >> \in Seq(Nat)
    BY <1>8
  <2>2. \A a, b, c \in Seq(Nat) : (a \o b) \o c = a \o (b \o c)
    BY IdsAssociative
  <2>3. QED
    BY <1>8, <1>9, <2>1, <2>2, Zenon
<1>14. x \o (z \o q) \in Seq(Nat)
  BY <1>8, <1>9
<1>15. x \o (z \o q) = (x \o (z \o q)) \o << >> /\ t = t \o << >>
  BY <1>11, <1>14
<1>16. QED
  BY <1>2, <1>12, <1>13, <1>15 DEF Moves, t

\* The next row becomes a row of the file.
Accepts(a) == a.writer = "open" /\ a.end # "stump"

LEMMA LoggedStored ==
  ASSUME TypeInv, NEW w \in Workers, pc[w] = "write", hand[w][1].id # HeaderId,
         NEW a \in LogInfo, Unopened(a) => a.buf = << >>
  PROVE  Stored(Logged(w, Current(w, a))) =
           IF ~hand[w][1].roll /\ Accepts(Current(w, a))
             THEN Append(Stored(a), hand[w][1].id) ELSE Stored(a)
<1> DEFINE c == Current(w, a)
           line == [id |-> hand[w][1].id, at |-> stamp[w]]
           d == Written(c, line)
<1>1. clock \in Nat
  BY CsvLogAssumption DEF TypeInv, TypeOK
<1>2. c \in LogInfo
  BY LoggedState
<1>3. line \in Line /\ line.id = hand[w][1].id
  <2>1. hand[w] \in Seq(Log) /\ Len(hand[w]) = 1 /\ stamp[w] \in Nat
    BY CsvLogAssumption DEF TypeInv, TypeOK
  <2>2. hand[w][1] \in Log
    BY <2>1
  <2>3. QED
    BY <2>1, <2>2 DEF Log, Line
<1>4. Stored(Reloaded(a, clock)) = Stored(a)
  <2>1. CASE a.writer = "null"
    <3>1. Stored(Opened(a, clock)) = Stored(a)
      <4>1. a.buf = << >>
        BY <2>1 DEF Unopened
      <4>2. HeaderLine(clock) \in Line
        BY <1>1 DEF HeaderLine, Line, HeaderId
      <4>3. QED
        BY <1>1, <1>3, <4>1, StoredMore
    <3>2. QED
      BY <2>1, <3>1 DEF Reloaded
  <2>2. CASE a.writer # "null"
    <3> DEFINE b == Closed(a, clock)
    <3>1. b \in LogInfo /\ b.buf = << >>
      BY <1>1, ClosedType DEF LogInfo, Closed
    <3>2. Stored(b) = Stored(a)
      BY <1>1, StoredKept
    <3>3. Reloaded(a, clock) = Opened(b, clock)
      BY <2>2 DEF Reloaded
    <3> HIDE DEF b
    <3>4. Stored(Opened(b, clock)) = Stored(b)
      BY <1>1, <1>3, <3>1, StoredMore
    <3>5. QED
      BY <3>2, <3>3, <3>4
  <2>3. QED
    BY <2>1, <2>2
<1>5. Stored(c) = Stored(a)
  BY <1>4 DEF Current
<1> HIDE DEF c, line
<1>6. Accepts(c) => Stored(d) = Append(Stored(c), line.id)
  BY <1>1, <1>2, <1>3, StoredMore DEF Accepts
<1>7. ~Accepts(c) => Stored(d) = Stored(c)
  BY <1>1, <1>2, <1>3, StoredMore DEF Accepts
<1>8. d \in LogInfo
  BY <1>2, <1>3, WrittenType
<1>9. Stored(Flushed(c)) = Stored(c)
  BY <1>1, <1>2, StoredKept
<1>10. Stored(Flushed(d)) = Stored(d)
  <2> HIDE DEF d
  <2>1. QED
    BY <1>1, <1>8, StoredKept
<1>11. Logged(w, c) = IF hand[w][1].roll
                        THEN (IF hand[w][1].flush THEN Flushed(c) ELSE c)
                        ELSE (IF hand[w][1].flush THEN Flushed(d) ELSE d)
  BY DEF Logged, line
<1> HIDE DEF d
<1>12. Stored(Logged(w, c)) = IF ~hand[w][1].roll /\ Accepts(c)
                                THEN Append(Stored(a), hand[w][1].id) ELSE Stored(a)
  BY <1>3, <1>5, <1>6, <1>7, <1>9, <1>10, <1>11
<1>13. QED
  BY <1>12 DEF c

-----------------------------------------------------------------------------
(***************************************************************************)
(* While nothing fails, is killed or is added twice, and add() meets no    *)
(* writer of a worker, a file ends within a row only where its writer is   *)
(* to write the rest, and a writer is closed only by the worker's end.     *)
(***************************************************************************)
Sound(a) ==
  /\ a.end \in {"whole", "half"}
  /\ a.writer # "open" => a.end = "whole" /\ a.buf = << >>

QuietInv ==
  Undisturbed => \A n \in Names :
    /\ Sound(infos[n])
    /\ infos[n].writer = "closed" => FirstEnding

LEMMA QuietSpent ==
  ASSUME Undisturbed'
  PROVE  /\ spent'.faults = 0 /\ spent'.kills = 0 /\ spent'.dups = 0 /\ spent'.restarts = 0
         /\ spent'.overlaps = 0 /\ spent'.races = 0
  BY DEF Undisturbed, NothingSpent

LEMMA QuietBefore ==
  ASSUME TypeInv, [Next]_vars, Undisturbed'
  PROVE  /\ Undisturbed /\ Fresh /\ ~Kill
         /\ spent.faults = 0 /\ spent.dups = 0 /\ spent.races = 0
<1>1. spent \in Budget
  BY DEF TypeInv, TypeOK
<1>2. /\ spent.faults = 0 /\ spent.kills = 0 /\ spent.dups = 0 /\ spent.restarts = 0
      /\ spent.overlaps = 0 /\ spent.races = 0
  BY QuietSpent, SpentGrows
<1>3. Undisturbed
  BY <1>1, <1>2 DEF Budget, Undisturbed, NothingSpent
<1>4. ASSUME Kill
      PROVE  FALSE
  <2>1. spent' = [spent EXCEPT !.kills = @ + 1]
    BY <1>4 DEF Kill
  <2>2. spent'.kills = 1
    BY <1>1, <1>2, <2>1 DEF Budget
  <2>3. QED
    BY <2>2, QuietSpent
<1>5. QED
  BY <1>2, <1>3, <1>4 DEF Fresh

\* Each of the later steps of add() that meets a writer counts a race.
LEMMA AddUncounted ==
  ASSUME TypeInv, NEW n \in Names, AddGoesOn(n), spent'.faults <= spent.faults,
         spent'.races <= spent.races
  PROVE  \/ Alike(infos'[n], infos[n])
         \/ infos[n].writer = "null" /\ Alike(infos'[n], Opened(infos[n], addFrom))
<1>1. /\ infos \in [Names -> LogInfo] /\ infos[n] \in LogInfo /\ spent \in Budget
      /\ spent.races \in Nat /\ addFrom \in Nat
  BY CsvLogAssumption DEF TypeInv, TypeOK, Budget
<1>2. spent'.races <= spent.races
  OBVIOUS
<1>3. CASE infos[n].writer = "null"
  BY <1>1, <1>3, AddAlone
<1>4. CASE infos[n].writer # "null"
  <2>1. CASE AddCheck(n)
    <3>1. infos' = [infos EXCEPT ![n] = [infos[n] EXCEPT !.state = "raw"]]
      BY <1>4, <2>1 DEF AddCheck
    <3>2. infos'[n] = [infos[n] EXCEPT !.state = "raw"]
      BY <1>1, <3>1
    <3>3. QED
      BY <1>1, <3>2, AlikeStates
  <2>2. ASSUME ~AddCheck(n)
        PROVE  spent'.races = spent.races + 1
    <3>1. Raced(TRUE).races = spent.races + 1
      BY <1>1, RaceSpent
    <3>2. (infos[n].writer # "null") = TRUE
      BY <1>4
    <3>3. (infos[n].writer # "null" \/ infos[n].next # addFrom + Interval) = TRUE
      BY <1>4
    <3>4. spent' = Raced(TRUE) \/ spent' = [spent EXCEPT !.faults = @ + 1]
      BY <2>2, <3>2, <3>3 DEF AddGoesOn, AddTest, AddNext, AddOpen
    <3>5. spent' # [spent EXCEPT !.faults = @ + 1]
      <4> DEFINE b == [spent EXCEPT !.faults = @ + 1]
      <4>1. b.faults = spent.faults + 1 /\ spent.faults \in Nat
        BY <1>1, CsvLogAssumption DEF Budget
      <4>2. spent'.faults <= spent.faults
        OBVIOUS
      <4> HIDE DEF b
      <4>3. spent' # b
        BY <4>1, <4>2
      <4>4. QED
        BY <4>3 DEF b
    <3>6. QED
      BY <3>1, <3>4, <3>5
  <2>3. QED
    BY <1>1, <1>2, <2>1, <2>2
<1>5. QED
  BY <1>3, <1>4

LEMMA AddQuiet ==
  ASSUME TypeInv, NEW n \in Names, AddGoesOn(n), Undisturbed'
  PROVE  \/ Alike(infos'[n], infos[n])
         \/ infos[n].writer = "null" /\ Alike(infos'[n], Opened(infos[n], addFrom))
<1>1. spent.faults \in Nat /\ spent.races \in Nat
  BY CsvLogAssumption DEF TypeInv, TypeOK, Budget
<1>2. spent'.faults <= spent.faults /\ spent'.races <= spent.races
  BY <1>1, QuietSpent
<1>3. QED
  BY <1>2, AddUncounted

LEMMA SoundAlike ==
  ASSUME NEW a, NEW b, Alike(b, a), Sound(a)
  PROVE  Sound(b)
  BY DEF Alike, Sound

LEMMA SoundKept ==
  ASSUME NEW a \in LogInfo, Sound(a), NEW t \in Nat, NEW line
  PROVE  /\ Sound(Closed(a, t)) /\ Sound(NotRenamed(a)) /\ Sound(Flushed(a))
         /\ Sound(Written(a, line)) /\ Sound(Reloaded(a, t))
         /\ a.buf # << >> => Sound(Spilled(a)) /\ Sound(SpilledHalf(a))
         /\ a.writer = "null" => Sound(Opened(a, t))
<1>1. ASSUME NEW b \in LogInfo, Sound(b), b.writer # "open"
      PROVE  Sound(Opened(b, t))
  <2>1. Cut(b.end) = "whole"
    BY <1>1 DEF Sound, Cut
  <2>2. Opened(b, t).writer = "open" /\ Opened(b, t).end = "whole"
    BY <1>1, <2>1 DEF Opened, LogInfo
  <2>3. QED
    BY <2>2 DEF Sound
<1>2. Sound(Closed(a, t)) /\ Closed(a, t) \in LogInfo /\ Closed(a, t).writer # "open"
  <2>1. /\ Closed(a, t).writer = "closed" /\ Closed(a, t).end = "whole"
        /\ Closed(a, t).buf = << >>
    BY DEF Closed, LogInfo
  <2>2. QED
    BY <2>1, ClosedType DEF Sound
<1>3. Sound(Reloaded(a, t))
  BY <1>1, <1>2 DEF Reloaded
<1>4. Sound(Flushed(a)) /\ Sound(NotRenamed(a))
  <2> DEFINE e == Emptied(a)
             b == [e EXCEPT !.writer = "closed"]
  <2>1. e \in LogInfo /\ e.end = "whole" /\ e.buf = << >>
    <3>1. e \in LogInfo /\ e.buf = << >>
      BY EmptiedLines
    <3>2. e.end = "whole"
      BY DEF Emptied, Sound, LogInfo
    <3>3. QED
      BY <3>1, <3>2
  <2> HIDE DEF e
  <2>2. b.end = "whole" /\ b.buf = << >>
    BY <2>1 DEF LogInfo
  <2> HIDE DEF b
  <2>3. Sound(e) /\ Sound(b)
    BY <2>1, <2>2 DEF Sound
  <2>4. /\ Flushed(a) = e \/ Flushed(a) = a
        /\ NotRenamed(a) = b \/ NotRenamed(a) = a
    BY DEF Flushed, NotRenamed, e, b
  <2>5. QED
    BY <2>3, <2>4
<1>5. Sound(Written(a, line))
  <2>1. CASE a.writer = "open"
    <3>1. Written(a, line).writer = "open" /\ Written(a, line).end = a.end
      BY <2>1 DEF Written, Sound, LogInfo
    <3>2. QED
      BY <3>1 DEF Sound
  <2>2. CASE a.writer # "open"
    BY <2>2 DEF Written
  <2>3. QED
    BY <2>1, <2>2
<1>6. ASSUME a.buf # << >>
      PROVE  Sound(Spilled(a)) /\ Sound(SpilledHalf(a))
  <2>1. a.writer = "open"
    BY <1>6 DEF Sound
  <2>2. Spilled(a).writer = a.writer /\ Spilled(a).end = "whole"
    BY DEF Spilled, LogInfo
  <2>3. SpilledHalf(a).writer = a.writer /\ SpilledHalf(a).end = "half"
    BY DEF SpilledHalf, LogInfo
  <2>4. QED
    BY <2>1, <2>2, <2>3 DEF Sound
<1>7. a.writer = "null" => Sound(Opened(a, t))
  BY <1>1
<1>8. QED
  BY <1>2, <1>3, <1>4, <1>5, <1>6, <1>7

LEMMA SoundLogged ==
  ASSUME TypeInv, NEW w \in Workers, pc[w] = "write", NEW a \in LogInfo, Sound(a),
         a.writer # "closed"
  PROVE  LET b == Logged(w, Current(w, a)) IN Sound(b) /\ b.writer # "closed"
<1> DEFINE Fine(b) == Sound(b) /\ b.writer # "closed"
           c == Current(w, a)
           line == [id |-> hand[w][1].id, at |-> stamp[w]]
<1>1. clock \in Nat /\ c \in LogInfo
  <2>1. clock \in Nat
    BY CsvLogAssumption DEF TypeInv, TypeOK
  <2>2. c \in LogInfo
    BY LoggedState
  <2>3. QED
    BY <2>1, <2>2
<1>2. Fine(c)
  <2>1. Sound(Reloaded(a, clock))
    BY <1>1, SoundKept
  <2>2. Reloaded(a, clock).writer = "open"
    BY <1>1, ClosedType DEF Reloaded, Opened, LogInfo
  <2>3. QED
    BY <2>1, <2>2 DEF Current
<1>3. Written(c, line) \in LogInfo
  <2>1. hand[w] \in Seq(Log) /\ Len(hand[w]) = 1 /\ stamp[w] \in Nat
    BY CsvLogAssumption DEF TypeInv, TypeOK
  <2>2. hand[w][1] \in Log
    BY <2>1
  <2>3. line \in Line
    BY <2>1, <2>2 DEF Log, Line
  <2> HIDE DEF c, line
  <2>4. QED
    BY <1>1, <2>3, WrittenType
<1> HIDE DEF c, line
<1>4. ASSUME NEW b \in LogInfo, Fine(b)
      PROVE  Fine(Flushed(b))
  <2>1. Sound(Flushed(b))
    BY <1>1, <1>4, SoundKept
  <2>2. Flushed(b) = b \/ Flushed(b).writer = b.writer
    BY EmptiedLines DEF Flushed
  <2>3. QED
    BY <1>4, <2>1, <2>2
<1>5. Fine(Written(c, line))
  <2>1. Sound(Written(c, line))
    BY <1>1, <1>2, SoundKept
  <2>2. Written(c, line).writer = c.writer
    BY <1>1 DEF Written, LogInfo
  <2>3. QED
    BY <1>2, <2>1, <2>2
<1> DEFINE b == Logged(w, c)
<1>6. b \in {c, Written(c, line), Flushed(c), Flushed(Written(c, line))}
  BY DEF Logged, line
<1>7. Fine(Flushed(c)) /\ Fine(Flushed(Written(c, line)))
  <2> HIDE DEF Fine
  <2>1. QED
    BY <1>1, <1>2, <1>3, <1>4, <1>5
<1> HIDE DEF b
<1>8. Fine(b)
  BY <1>2, <1>5, <1>6, <1>7
<1>9. QED
  BY <1>8 DEF b, c

LEMMA QuietInvInit == Init => QuietInv
  BY DEF Init, QuietInv, NewLogInfo, Sound

LEMMA QuietInvNext == TypeInv /\ StopInv /\ QuietInv /\ [Next]_vars => QuietInv'
<1> SUFFICES ASSUME TypeInv, StopInv, QuietInv, [Next]_vars, Undisturbed'
             PROVE  \A n \in Names : /\ Sound(infos'[n])
                                     /\ infos'[n].writer = "closed" => FirstEnding'
  BY DEF QuietInv
<1>1. /\ infos \in [Names -> LogInfo] /\ spent \in Budget /\ clock \in Nat /\ addFrom \in Nat
      /\ pc \in [Workers -> {"none", "check", "take", "taken", "write", "closing", "dead"}]
      /\ hand \in [Workers -> Seq(Log)]
  BY CsvLogAssumption DEF TypeInv, TypeOK
<1>2. /\ Undisturbed /\ Fresh /\ ~Kill /\ spent.faults = 0 /\ spent.dups = 0
      /\ spent'.faults = 0 /\ spent'.dups = 0
  BY QuietBefore, QuietSpent
<1>3. FirstEnding => FirstEnding'
  BY <1>2, EndingStays
<1> DEFINE Fine(a) == Sound(a) /\ (a.writer = "closed" => FirstEnding')
<1>4. \A n \in Names : infos[n] \in LogInfo /\ Sound(infos[n]) /\ Fine(infos[n])
                       /\ (infos[n].writer = "closed" => FirstEnding)
  BY <1>1, <1>2, <1>3 DEF QuietInv
<1>5. ASSUME NEW n \in Names, Add(n)
      PROVE  Fine(infos'[n])
  <2>1. infos'[n] = [infos[n] EXCEPT !.state = "linked"]
    BY <1>1, <1>5 DEF Add
  <2>2. Alike(infos'[n], infos[n])
    <3>1. Alike([infos[n] EXCEPT !.state = "linked"], infos[n])
      BY <1>4, AlikeStates
    <3>2. QED
      BY <2>1, <3>1
  <2>3. QED
    BY <1>4, <2>2, SoundAlike DEF Alike
<1>6. ASSUME NEW n \in Names, AddGoesOn(n)
      PROVE  Fine(infos'[n])
  <2>1. CASE Alike(infos'[n], infos[n])
    BY <1>4, <2>1, SoundAlike DEF Alike
  <2>2. CASE infos[n].writer = "null" /\ Alike(infos'[n], Opened(infos[n], addFrom))
    <3>1. Sound(Opened(infos[n], addFrom))
      BY <1>1, <1>4, <2>2, SoundKept
    <3>2. Opened(infos[n], addFrom).writer = "open"
      BY <1>4 DEF Opened, LogInfo
    <3>3. QED
      BY <2>2, <3>1, <3>2, SoundAlike DEF Alike
  <2>3. QED
    BY <1>6, <2>1, <2>2, AddQuiet
<1>7. ASSUME NEW n \in Names, AddDuplicate(n)
      PROVE  FALSE
  <2>1. spent' = [spent EXCEPT !.dups = @ + 1]
    BY <1>7 DEF AddDuplicate
  <2>2. spent'.dups = 1
    BY <1>1, <1>2, <2>1 DEF Budget
  <2>3. QED
    BY <1>2, <2>2
<1>8. ASSUME NEW n \in Names, Spill(n)
      PROVE  Fine(infos'[n])
  <2>1. infos[n].buf # << >> /\ infos'[n] \in {Spilled(infos[n]), SpilledHalf(infos[n])}
    BY <1>1, <1>4, <1>8 DEF Spill, Sound
  <2>2. /\ Spilled(infos[n]).writer = infos[n].writer
        /\ SpilledHalf(infos[n]).writer = infos[n].writer
    BY <1>4 DEF Spilled, SpilledHalf, LogInfo
  <2>3. Sound(Spilled(infos[n])) /\ Sound(SpilledHalf(infos[n]))
    BY <1>1, <1>4, <2>1, SoundKept
  <2>4. QED
    BY <1>4, <2>1, <2>2, <2>3
<1>9. ASSUME NEW w \in Workers, Write(w), NEW n \in Names, infos'[n] # infos[n]
      PROVE  Fine(infos'[n])
  <2>1. pc[w] = "write" /\ infos'[n] = Logged(w, Current(w, infos[n]))
    <3>1. pc[w] = "write" /\ infos' = [infos EXCEPT ![hand[w][1].name] = Logged(w, Current(w, @))]
      BY <1>9 DEF Write
    <3>2. QED
      BY <1>1, <1>9, <3>1
  <2>2. w = 1
    BY <1>2, <2>1, OnlyFirst
  <2>3. infos[n].writer # "closed"
    BY <1>4, <2>1, <2>2 DEF FirstEnding
  <2>4. QED
    BY <1>4, <2>1, <2>3, SoundLogged
<1>10. ASSUME NEW w \in Workers, WriteFails(w), NEW n \in Names, infos'[n] # infos[n]
       PROVE  Fine(infos'[n])
  <2>1. pc[w] = "write" /\ pc' = [pc EXCEPT ![w] = "closing"]
    BY <1>10 DEF WriteFails, Leave
  <2>2. w = 1
    BY <1>2, <2>1, OnlyFirst
  <2>3. FirstEnding'
    BY <1>1, <2>1, <2>2 DEF FirstEnding
  <2>4. infos'[n] = NotRenamed(infos[n]) \/ spent' = [spent EXCEPT !.faults = @ + 1]
    BY <1>1, <1>10 DEF WriteFails
  <2>5. spent' # [spent EXCEPT !.faults = @ + 1]
    <3> DEFINE b == [spent EXCEPT !.faults = @ + 1]
    <3>1. b.faults = 1
      BY <1>1, <1>2 DEF Budget
    <3> HIDE DEF b
    <3>2. spent' # b
      BY <1>2, <3>1
    <3>3. QED
      BY <3>2 DEF b
  <2>6. QED
    BY <1>1, <1>4, <2>3, <2>4, <2>5, SoundKept
<1>11. ASSUME NEW w \in Workers, NEW m \in Names, CloseOne(w, m), NEW n \in Names,
              infos'[n] # infos[n]
       PROVE  Fine(infos'[n])
  <2>1. pc[w] = "closing" /\ (pc' = [pc EXCEPT ![w] = "dead"] \/ pc' = pc)
    BY <1>1, <1>11 DEF CloseOne
  <2>2. w = 1
    BY <1>2, <2>1, OnlyFirst
  <2>3. FirstEnding'
    BY <1>1, <2>1, <2>2 DEF FirstEnding
  <2>4. infos'[n] \in {Closed(infos[n], clock), NotRenamed(infos[n])}
        \/ spent' = [spent EXCEPT !.faults = @ + 1]
    BY <1>1, <1>11 DEF CloseOne
  <2>5. spent' # [spent EXCEPT !.faults = @ + 1]
    <3> DEFINE b == [spent EXCEPT !.faults = @ + 1]
    <3>1. b.faults = 1
      BY <1>1, <1>2 DEF Budget
    <3> HIDE DEF b
    <3>2. spent' # b
      BY <1>2, <3>1
    <3>3. QED
      BY <3>2 DEF b
  <2>6. QED
    BY <1>1, <1>4, <2>3, <2>4, <2>5, SoundKept
<1>12. ASSUME NEW n \in Names, Add(n) \/ AddGoesOn(n) \/ Spill(n), NEW m \in Names
       PROVE  Fine(infos'[m])
  <2>1. m # n => infos'[m] = infos[m]
    <3>1. AddGoesOn(n) /\ m # n => infos'[m] = infos[m]
      BY <1>1, AddGoing
    <3>2. Add(n) \/ Spill(n) => \E b : infos' = [infos EXCEPT ![n] = b]
      <4>1. Add(n) => infos' = [infos EXCEPT ![n] = [infos[n] EXCEPT !.state = "linked"]]
        BY <1>1 DEF Add
      <4>2. Spill(n) => \/ infos' = [infos EXCEPT ![n] = Spilled(infos[n])]
                        \/ infos' = [infos EXCEPT ![n] = SpilledHalf(infos[n])]
        BY DEF Spill
      <4>3. QED
        BY <4>1, <4>2
    <3>3. QED
      BY <1>1, <1>12, <3>1, <3>2
  <2>2. QED
    BY <1>4, <1>5, <1>6, <1>8, <1>12, <2>1
<1>13. ASSUME NEW n \in Names
       PROVE  Fine(infos'[n])
  <2>1. infos'[n] = infos[n] => Fine(infos'[n])
    BY <1>4
  <2> HIDE DEF Fine
  <2>2. QED
    BY <1>2, <1>7, <1>9, <1>10, <1>11, <1>12, <2>1, InfosStep
<1>14. QED
  BY <1>13

\* The worker of a service that nothing harmed finds a writer to write to.
LEMMA WriterOpen ==
  ASSUME TypeInv, StopInv, QuietInv, Undisturbed, NEW w \in Workers, pc[w] = "write",
         NEW n \in Names, Writable(w, infos[n]), ~hand[w][1].roll
  PROVE  Accepts(Current(w, infos[n]))
<1> DEFINE a == infos[n]
<1>1. clock \in Nat /\ a \in LogInfo
  BY CsvLogAssumption DEF TypeInv, TypeOK
<1>2. Fresh
  BY DEF Undisturbed, NothingSpent, Fresh
<1>3. w = 1 /\ ~FirstEnding
  BY <1>2, OnlyFirst DEF FirstEnding
<1>4. Sound(a) /\ a.writer # "closed"
  BY <1>3 DEF QuietInv
<1>5. Accepts(Reloaded(a, clock))
  <2>1. Sound(Reloaded(a, clock))
    BY <1>1, <1>4, SoundKept
  <2>2. Reloaded(a, clock).writer = "open"
    BY <1>1, ClosedType DEF Reloaded, Opened, LogInfo
  <2>3. QED
    BY <2>1, <2>2 DEF Accepts, Sound
<1>6. ~NeedsReload(w, a) => a.writer = "open"
  BY <1>1, <1>4 DEF Writable, LogInfo
<1>7. QED
  BY <1>4, <1>5, <1>6 DEF Current, Accepts, Sound

\* The log in the hand goes to the writer, or nowhere when there is none or when
\* the file ends in a stump.
LEMMA WriteMoves ==
  ASSUME TypeInv, TypeInv', StopInv, IdInv, KnownInv, HandInv, QuietInv, spent.overlaps = 0,
         NEW n \in Names, NEW w \in Workers, Write(w)
  PROVE  Moves(n)
<1>1. /\ infos \in [Names -> LogInfo] /\ hand \in [Workers -> Seq(Log)] /\ queue \in Seq(Log)
      /\ hand' \in [Workers -> Seq(Log)] /\ accepted \in Seq(Log)
      /\ infos[n] \in LogInfo
  BY DEF TypeInv, TypeOK
<1> DEFINE log == hand[w][1]
<1>2. /\ pc[w] = "write" /\ hand' = [hand EXCEPT ![w] = << >>]
      /\ queue' = queue /\ accepted' = accepted /\ spent' = spent
  BY DEF Write, histVars
<1>3. log \in Log /\ hand[w] = << log >> /\ log.id # HeaderId
  <2>1. Len(hand[w]) = 1 /\ hand[w] \in Seq(Log)
    BY <1>1, <1>2 DEF TypeInv
  <2>2. Known(hand[w][1])
    BY <2>1 DEF KnownInv
  <2>3. QED
    BY <2>1, <2>2 DEF Known, IdInv
<1>4. /\ infos' = [infos EXCEPT ![log.name] = Logged(w, Current(w, infos[log.name]))]
      /\ Writable(w, infos[log.name]) /\ log.name \in Names
  <2>1. log.name \in Names
    BY <1>3 DEF Log
  <2>2. QED
    BY <1>1, <2>1 DEF Write
<1>5. \A v \in Workers : v # w => hand[v] = << >>
  BY <1>2, OthersEmpty
<1>6. hand'[w] = << >> /\ \A v \in Workers : v # w => hand'[v] = << >>
  BY <1>1, <1>2, <1>5
<1>7. FlattenSeq(hand) = << log >>
  BY <1>1, <1>3, <1>5, HandFlat
<1>8. FlattenSeq(hand') = << >>
  BY <1>1, <1>6, HandFlat
<1>9. Unopened(infos[n]) => infos[n].buf = << >>
  BY DEF HandInv
<1> DEFINE x == Stored(infos[n])
           y == Stored(infos'[n])
           z == Ids(<< log >>, n)
           q == Ids(queue, n)
           t == Ids(accepted, n)
           open == Accepts(Current(w, infos[n]))
<1>10. log.name = n => y = IF ~log.roll /\ open THEN Append(x, log.id) ELSE x
  BY <1>1, <1>2, <1>3, <1>4, <1>9, LoggedStored
<1>11. log.name # n => y = x
  BY <1>1, <1>4
<1>12. z = IF log.name = n /\ ~log.roll THEN << log.id >> ELSE << >>
  BY IdsSmall
<1>13. x \in Seq(Nat)
  BY <1>1, StoredType
<1>14. q \in Seq(Nat) /\ t \in Seq(Nat) /\ z \in Seq(Nat)
  <2>1. q \in Seq(Nat) /\ t \in Seq(Nat)
    BY <1>1, IdsConcat
  <2>2. << log >> \in Seq(Log)
    BY <1>3
  <2>3. z \in Seq(Nat)
    BY <2>2, IdsConcat
  <2>4. QED
    BY <2>1, <2>3
<1>15. log.id \in Nat
  BY <1>3 DEF Log
<1>16. CASE log.name = n /\ ~log.roll /\ ~open
  <2>1. y = x /\ z = << log.id >>
    BY <1>10, <1>12, <1>16
  <2>2. ~Intact'
    <3>1. Undisturbed' <=> Undisturbed
      BY <1>2 DEF Undisturbed
    <3>2. QED
      BY <1>2, <1>4, <1>16, <3>1, WriterOpen DEF Intact
  <2>3. Sub(y, x)
    BY <2>1, SubRefl
  <2>4. Sub(Ids(FlattenSeq(hand'), n), Ids(FlattenSeq(hand), n))
    <3>1. Ids(FlattenSeq(hand'), n) = << >>
      BY <1>8, IdsSmall
    <3>2. QED
      BY <3>1, SubEmpty
  <2>5. Sub(Ids(queue', n), Ids(queue, n))
    BY <1>2, SubRefl
  <2>6. QED
    BY <1>2, <2>2, <2>3, <2>4, <2>5, MovesLess
<1>17. CASE ~(log.name = n /\ ~log.roll /\ ~open)
  <2>1. y = x \o z
    <3>1. log.name = n /\ ~log.roll => y = Append(x, log.id) /\ z = << log.id >>
      BY <1>10, <1>12, <1>17
    <3>2. ~(log.name = n /\ ~log.roll) => y = x /\ z = << >>
      BY <1>10, <1>11, <1>12
    <3> DEFINE i == log.id
    <3>3. i \in Nat
      BY <1>15
    <3> HIDE DEF x, y, z, i, log
    <3>4. Append(x, i) = x \o << i >> /\ x = x \o << >>
      BY <1>13, <3>3
    <3>5. QED
      BY <3>1, <3>2, <3>4 DEF i
  <2>2. Ids(<< >>, n) = << >>
    BY IdsSmall
  <2>3. /\ FlowOf(infos[n], hand, queue, n) = (x \o z) \o q
        /\ FlowOf(infos'[n], hand', queue', n) = ((x \o z) \o << >>) \o q
    BY <1>2, <1>7, <1>8, <2>1, <2>2 DEF FlowOf
  <2> HIDE DEF x, y, z, q, t, log
  <2>4. (x \o z) \o << >> = x \o z /\ (x \o z) \o q \in Seq(Nat) /\ << >> \in Seq(Nat)
    BY <1>13, <1>14
  <2>5. (x \o z) \o q = ((x \o z) \o q) \o << >> /\ t = t \o << >>
    BY <1>14, <2>4
  <2>6. QED
    BY <1>2, <2>3, <2>4, <2>5 DEF Moves, t
<1>18. QED
  BY <1>16, <1>17

\* What fails leaves the lines of a log, or some of them.
LEMMA LessStored ==
  ASSUME NEW a \in LogInfo, NEW t \in Nat
  PROVE  /\ Sub(Stored(NotRenamed(a)), Stored(a))
         /\ Sub(Stored(Broken(a)), Stored(a))
         /\ Sub(Stored(Forgotten(a)), Stored(a))
         /\ Sub(Stored([Forgotten(a) EXCEPT !.state = "raw"]), Stored(a))
         /\ Sub(Stored(Opened(a, t)), Stored(a))
         /\ Sub(Stored(Closed(a, t)), Stored(a))
         /\ \A b \in FailedReloads(a, t) : Sub(Stored(b), Stored(a))
<1>1. Sub(LineIds(Disk(a)), Stored(a))
  <2> DEFINE d == LineIds(Disk(a))
             b == LineIds(a.buf)
  <2>1. d \in Seq(Nat) /\ b \in Seq(Nat) /\ Stored(a) = d \o b
    BY StoredType
  <2> HIDE DEF d, b
  <2>2. Sub(d \o << >>, d \o b)
    <3>1. << >> \in Seq(Nat) /\ Sub(d, d) /\ Sub(<< >>, b)
      BY SubRefl, SubEmpty
    <3>2. QED
      BY <2>1, <3>1, SubConcat
  <2>3. d \o << >> = d
    BY <2>1
  <2>4. Sub(d, Stored(a))
    BY <2>1, <2>2, <2>3
  <2>5. QED
    BY <2>4 DEF d
<1>2. /\ Sub(Stored(NotRenamed(a)), Stored(a))
      /\ Sub(Stored(NotOpened(a, t)), Stored(a))
  <2>1. Stored(NotRenamed(a)) = Stored(a) /\ Stored(NotOpened(a, t)) = Stored(a)
    BY StoredKept
  <2>2. QED
    BY <2>1, SubRefl
<1>3. Sub(Stored(Broken(a)), Stored(a))
  BY <1>1, StoredCut
<1>4. Sub(Stored(NotOpened(Closed(a, t), t)), Stored(a))
  <2> DEFINE b == Closed(a, t)
  <2>1. b \in LogInfo
    BY ClosedType
  <2>2. Stored(b) = Stored(a)
    BY StoredKept
  <2> HIDE DEF b
  <2>3. Stored(NotOpened(b, t)) = Stored(b)
    BY <2>1, StoredKept
  <2>4. Sub(Stored(NotOpened(b, t)), Stored(a))
    BY <2>2, <2>3, SubRefl
  <2>5. QED
    BY <2>4 DEF b
<1>5. \A b \in FailedReloads(a, t) : Sub(Stored(b), Stored(a))
  BY <1>2, <1>3, <1>4 DEF FailedReloads
<1>6. Sub(Stored(Closed(a, t)), Stored(a))
  BY StoredKept, SubRefl
<1>7. QED
  BY <1>1, <1>2, <1>3, <1>5, <1>6, StoredCut

LEMMA WriteFailsMoves ==
  ASSUME TypeInv, TypeInv', HandInv, spent.overlaps = 0,
         NEW n \in Names, NEW w \in Workers, WriteFails(w)
  PROVE  Moves(n)
<1>1. /\ infos \in [Names -> LogInfo] /\ hand \in [Workers -> Seq(Log)]
      /\ hand' \in [Workers -> Seq(Log)] /\ infos[n] \in LogInfo
      /\ cause \in [Workers -> {"none", "stopped", "interrupted", "failed"}]
  BY DEF TypeInv, TypeOK
<1>2. clock \in Nat
  BY CsvLogAssumption DEF TypeInv, TypeOK
<1>3. /\ pc[w] = "write" /\ hand' = [hand EXCEPT ![w] = << >>] /\ queue' = queue
      /\ accepted' = accepted /\ cause'[w] = "failed"
  BY <1>1 DEF WriteFails, Leave, histVars
<1>4. \/ infos'[n] = infos[n] \/ infos'[n] = NotRenamed(infos[n])
      \/ infos'[n] \in FailedReloads(infos[n], clock)
  BY <1>1 DEF WriteFails
<1>5. Sub(Stored(infos'[n]), Stored(infos[n]))
  BY <1>1, <1>2, <1>4, LessStored, SubRefl
<1>6. hand'[w] = << >> /\ \A v \in Workers : v # w => hand'[v] = << >>
  BY <1>1, <1>3, OthersEmpty
<1>7. FlattenSeq(hand') = << >>
  BY <1>1, <1>6, HandFlat
<1>8. Sub(Ids(FlattenSeq(hand'), n), Ids(FlattenSeq(hand), n))
  <2>1. Ids(FlattenSeq(hand'), n) = << >>
    BY <1>7, IdsSmall
  <2>2. QED
    BY <2>1, SubEmpty
<1>9. Sub(Ids(queue', n), Ids(queue, n))
  BY <1>3, SubRefl
<1>10. ~Intact'
  BY <1>3 DEF Intact
<1>11. QED
  BY <1>3, <1>5, <1>8, <1>9, <1>10, MovesLess

\* The steps that change the files and the writer only.
LEMMA FileMoves ==
  ASSUME TypeInv, TypeInv', NEW n \in Names, queue' = queue, hand' = hand, accepted' = accepted,
         \/ Stored(infos'[n]) = Stored(infos[n])
         \/ Sub(Stored(infos'[n]), Stored(infos[n])) /\ ~Intact'
  PROVE  Moves(n)
<1>1. CASE Stored(infos'[n]) = Stored(infos[n])
  BY <1>1, MovesSame
<1>2. CASE Sub(Stored(infos'[n]), Stored(infos[n])) /\ ~Intact'
  <2>1. /\ Sub(Ids(FlattenSeq(hand'), n), Ids(FlattenSeq(hand), n))
        /\ Sub(Ids(queue', n), Ids(queue, n))
    BY SubRefl
  <2>2. QED
    BY <1>2, <2>1, MovesLess
<1>3. QED
  BY <1>1, <1>2

LEMMA CloseMoves ==
  ASSUME TypeInv, TypeInv', NEW n \in Names, NEW w \in Workers, NEW m \in Names, CloseOne(w, m)
  PROVE  Moves(n)
<1>1. infos \in [Names -> LogInfo] /\ infos[n] \in LogInfo /\ spent \in Budget
  BY DEF TypeInv, TypeOK
<1>2. clock \in Nat /\ spent.faults \in Nat
  BY CsvLogAssumption DEF TypeInv, TypeOK, Budget
<1>3. queue' = queue /\ hand' = hand /\ accepted' = accepted
  BY DEF CloseOne, histVars
<1>4. \/ infos'[n] = infos[n] \/ infos'[n] = Closed(infos[n], clock)
      \/ infos'[n] = NotRenamed(infos[n])
      \/ infos'[n] = Broken(infos[n]) /\ spent' = [spent EXCEPT !.faults = @ + 1]
  BY <1>1 DEF CloseOne
<1>5. CASE infos'[n] = Broken(infos[n]) /\ spent' = [spent EXCEPT !.faults = @ + 1]
  <2>1. spent'.faults = spent.faults + 1
    BY <1>1, <1>5 DEF Budget
  <2>2. ~Intact'
    BY <1>2, <2>1, QuietSpent DEF Intact
  <2>3. Sub(Stored(infos'[n]), Stored(infos[n]))
    BY <1>1, <1>2, <1>5, LessStored
  <2>4. QED
    BY <1>3, <2>2, <2>3, FileMoves
<1>6. CASE ~(infos'[n] = Broken(infos[n]) /\ spent' = [spent EXCEPT !.faults = @ + 1])
  <2>1. /\ Stored(Closed(infos[n], clock)) = Stored(infos[n])
        /\ Stored(NotRenamed(infos[n])) = Stored(infos[n])
    BY <1>1, <1>2, StoredKept
  <2>2. Stored(infos'[n]) = Stored(infos[n])
    BY <1>4, <1>6, <2>1
  <2>3. QED
    BY <1>3, <2>2, FileMoves
<1>7. QED
  BY <1>5, <1>6

LEMMA AddMoves ==
  ASSUME TypeInv, TypeInv', HandInv, NEW n \in Names, NEW m \in Names,
         Add(m) \/ AddGoesOn(m) \/ AddDuplicate(m) \/ Spill(m)
  PROVE  Moves(n)
<1>1. /\ infos \in [Names -> LogInfo] /\ infos[n] \in LogInfo /\ spent \in Budget
      /\ infos[m] \in LogInfo /\ infos' \in [Names -> LogInfo] /\ infos'[m] \in LogInfo
  BY DEF TypeInv, TypeOK
<1>2. clock \in Nat /\ spent.dups \in Nat /\ addFrom \in Nat
  BY CsvLogAssumption DEF TypeInv, TypeOK, Budget
<1>3. queue' = queue /\ hand' = hand /\ accepted' = accepted
  <2>1. CASE AddGoesOn(m)
    BY <1>1, <1>2, <2>1, AddGoing DEF workVars, histVars
  <2>2. CASE ~AddGoesOn(m)
    BY <2>2 DEF Add, AddDuplicate, Spill, workVars, histVars
  <2>3. QED
    BY <2>1, <2>2
<1>4. CASE Add(m)
  <2> DEFINE b == [infos[m] EXCEPT !.state = "linked"]
  <2>1. infos' = [infos EXCEPT ![m] = b]
    BY <1>1, <1>4 DEF Add
  <2>2. Stored(b) = Stored(infos[m])
    BY <1>1, <1>2, StoredKept
  <2> HIDE DEF b
  <2>3. Stored(infos'[n]) = Stored(infos[n])
    BY <1>1, <2>1, <2>2
  <2>4. QED
    BY <1>3, <2>3, FileMoves
<1>5. CASE AddDuplicate(m)
  <2> DEFINE b == [Forgotten(infos[m]) EXCEPT !.state = "raw"]
  <2>1. infos' = [infos EXCEPT ![m] = b] /\ spent' = [spent EXCEPT !.dups = @ + 1]
    BY <1>5 DEF AddDuplicate
  <2>2. Sub(Stored(b), Stored(infos[m]))
    BY <1>1, <1>2, LessStored
  <2>3. spent'.dups = spent.dups + 1
    BY <1>1, <2>1 DEF Budget
  <2>4. ~Intact'
    BY <1>2, <2>3, QuietSpent DEF Intact
  <2> HIDE DEF b
  <2>5. Sub(Stored(infos'[n]), Stored(infos[n]))
    BY <1>1, <2>1, <2>2, SubRefl
  <2>6. QED
    BY <1>3, <2>4, <2>5, FileMoves
<1>6. CASE Spill(m)
  <2>1. /\ infos[m].buf # << >> \/ infos[m].end = "glued"
        /\ \/ infos' = [infos EXCEPT ![m] = Spilled(infos[m])]
           \/ infos' = [infos EXCEPT ![m] = SpilledHalf(infos[m])]
    BY <1>6 DEF Spill
  <2>2. /\ Stored(Spilled(infos[m])) = Stored(infos[m])
        /\ Stored(SpilledHalf(infos[m])) = Stored(infos[m])
    BY <1>1, <1>2, <2>1, StoredKept
  <2>3. Stored(infos'[n]) = Stored(infos[n])
    BY <1>1, <2>1, <2>2
  <2>4. QED
    BY <1>3, <2>3, FileMoves
<1>7. CASE AddGoesOn(m)
  <2>1. ASSUME NEW b \in LogInfo, Alike(infos'[m], b)
        PROVE  Stored(infos'[m]) = Stored(b)
    BY <1>1, <2>1, StoredAlike DEF Alike
  <2>2. \A k \in Names : k # m => infos'[k] = infos[k]
    BY <1>1, <1>2, <1>7, AddGoing
  <2>3. CASE Undisturbed'
    <3>1. ASSUME infos[m].writer = "null"
          PROVE  /\ Opened(infos[m], addFrom) \in LogInfo
                 /\ Stored(Opened(infos[m], addFrom)) = Stored(infos[m])
      <4>1. infos[m].buf = << >>
        BY <3>1 DEF HandInv, Unopened
      <4>2. Opened(infos[m], addFrom) \in LogInfo
        BY <1>1, <1>2, OpenedType
      <4>3. Stored(Opened(infos[m], addFrom)) = Stored(infos[m])
        <5> DEFINE line == [id |-> 1, at |-> addFrom]
        <5>1. line \in Line /\ line.id # HeaderId
          BY <1>2 DEF Line, HeaderId
        <5> HIDE DEF line
        <5>2. QED
          BY <1>1, <1>2, <4>1, <5>1, StoredMore
      <4>4. QED
        BY <4>2, <4>3
    <3>2. Stored(infos'[m]) = Stored(infos[m])
      BY <1>1, <1>7, <2>1, <2>3, <3>1, AddQuiet
    <3>3. Stored(infos'[n]) = Stored(infos[n])
      BY <2>2, <3>2
    <3>4. QED
      BY <1>3, <3>3, FileMoves
  <2>4. CASE ~Undisturbed'
    <3>1. PICK b \in AddForms(infos[m]) : Alike(infos'[m], b)
      BY <1>1, <1>2, <1>7, AddGoing
    <3>2. b \in LogInfo
      BY <1>1, <1>2, ClosedType, EndedType, OpenedType DEF AddForms
    <3>3. Sub(Stored(b), Stored(infos[m]))
      BY <1>1, <1>2, LessStored, SubRefl DEF AddForms
    <3>4. Sub(Stored(infos'[m]), Stored(infos[m]))
      BY <2>1, <3>1, <3>2, <3>3
    <3>5. Sub(Stored(infos'[n]), Stored(infos[n]))
      BY <2>2, <3>4, SubRefl
    <3>6. ~Intact'
      BY <2>4 DEF Intact
    <3>7. QED
      BY <1>3, <3>5, <3>6, FileMoves
  <2>5. QED
    BY <2>3, <2>4
<1>8. QED
  BY <1>4, <1>5, <1>6, <1>7

LEMMA KillMoves ==
  ASSUME TypeInv, TypeInv', NEW n \in Names, Kill
  PROVE  Moves(n)
<1>1. /\ infos[n] \in LogInfo /\ hand' \in [Workers -> Seq(Log)] /\ spent \in Budget
  BY DEF TypeInv, TypeOK
<1>2. 1 \in Workers /\ spent.kills \in Nat
  <2>1. 1 \in Workers
    BY CsvLogAssumption DEF Workers
  <2>2. spent.kills \in Nat
    BY CsvLogAssumption DEF TypeInv, TypeOK, Budget
  <2>3. QED
    BY <2>1, <2>2
<1>3. /\ infos'[n] = Forgotten(infos[n]) /\ queue' = << >> /\ accepted' = accepted
      /\ \A w \in Workers : hand'[w] = << >>
      /\ spent' = [spent EXCEPT !.kills = @ + 1]
  BY DEF Kill
<1>4. spent'.kills = spent.kills + 1
  BY <1>1, <1>3 DEF Budget
<1>5. ~Intact'
  BY <1>2, <1>4, QuietSpent DEF Intact
<1>6. FlattenSeq(hand') = << >>
  BY <1>1, <1>2, <1>3, HandFlat
<1>7. /\ Ids(FlattenSeq(hand'), n) = << >>
      /\ Ids(queue', n) = << >>
  BY <1>3, <1>6, IdsSmall
<1>8. /\ Sub(Ids(FlattenSeq(hand'), n), Ids(FlattenSeq(hand), n))
      /\ Sub(Ids(queue', n), Ids(queue, n))
  BY <1>7, SubEmpty
<1>9. Sub(Stored(infos'[n]), Stored(infos[n]))
  BY <1>1, <1>2, <1>3, LessStored
<1>10. QED
  BY <1>3, <1>5, <1>8, <1>9, MovesLess

LEMMA FlowMoves ==
  ASSUME TypeInv, TypeInv', StopInv, IdInv, KnownInv, HandInv, QuietInv, spent.overlaps = 0,
         [Next]_vars,
         NEW n \in Names
  PROVE  Moves(n)
<1>1. CASE UNCHANGED << infos, queue, hand, accepted >>
  BY <1>1, MovesSame
<1>2. CASE Kill
  BY <1>2, KillMoves
<1>3. CASE \E p \in Producers : Offer(p)
  BY <1>3, OfferMoves
<1>4. CASE \E m \in Names : Add(m) \/ AddGoesOn(m) \/ AddDuplicate(m) \/ Spill(m)
  BY <1>4, AddMoves
<1>5. ASSUME NEW w \in Workers,
             Take(w) \/ Write(w) \/ WriteFails(w) \/ \E m \in Names : CloseOne(w, m)
      PROVE  Moves(n)
  BY <1>5, TakeMoves, WriteMoves, WriteFailsMoves, CloseMoves
<1>6. QED
  BY <1>1, <1>2, <1>3, <1>4, <1>5, FlowStep

-----------------------------------------------------------------------------
(***************************************************************************)
(* Harm is never undone, so the flow is all that was accepted as long as   *)
(* there is none, and some of it, in order, whatever happens.              *)
(***************************************************************************)
FlowInv ==
  spent.overlaps = 0 =>
    \A n \in Names : LET flow == FlowOf(infos[n], hand, queue, n) IN
      /\ Sub(flow, Ids(accepted, n))
      /\ Intact => flow = Ids(accepted, n)

LEMMA HarmStays ==
  ASSUME TypeInv, HandInv, [Next]_vars, Intact'
  PROVE  Intact
<1>1. /\ spent \in Budget /\ pc \in [Workers -> {"none", "check", "take", "taken", "write",
                                                 "closing", "dead"}]
      /\ cause \in [Workers -> {"none", "stopped", "interrupted", "failed"}]
  BY DEF TypeInv, TypeOK
<1>2. Undisturbed /\ ~Kill
  BY QuietBefore DEF Intact
<1>3. ASSUME NEW v \in Workers, cause[v] = "failed"
      PROVE  cause'[v] = "failed"
  <2>1. pc[v] \in {"closing", "dead"}
    BY <1>3 DEF HandInv
  <2>2. ASSUME NEW w \in Workers, Worker(w)
        PROVE  cause'[v] = cause[v]
    BY <1>1, <2>1, <2>2 DEF Worker, CheckStop, Take, TakeInterrupted, ReadClock, Write, WriteFails,
                            CloseOne, Leave
  <2>3. Manager => cause' = cause
    BY DEF Manager, Startup, Interrupt, Stop, JoinReturns, Add, AddCheck, AddTest, AddNext,
           AddOpen, AddDuplicate, workVars
  <2>4. ASSUME NEW p \in Producers, Producer(p)
        PROVE  cause' = cause
    BY <2>4 DEF Producer, Begin, Commit, Rollback, Offer, OfferFails, WriteLog, workVars
  <2>5. Tick \/ UNCHANGED vars \/ (\E n \in Names : Spill(n)) => cause' = cause
    BY DEF Tick, vars, Spill, workVars
  <2>6. QED
    BY <1>2, <1>3, <2>2, <2>3, <2>4, <2>5 DEF Next
<1>4. QED
  BY <1>2, <1>3 DEF Intact

LEMMA FlowInvNext ==
  ASSUME TypeInv, TypeInv', StopInv, IdInv, KnownInv, HandInv, QuietInv, FlowInv, [Next]_vars
  PROVE  FlowInv'
<1> SUFFICES ASSUME spent'.overlaps = 0, NEW n \in Names
             PROVE  /\ Sub(FlowOf(infos'[n], hand', queue', n), Ids(accepted', n))
                    /\ Intact' => FlowOf(infos'[n], hand', queue', n) = Ids(accepted', n)
  BY DEF FlowInv
<1>1. spent.overlaps = 0
  BY SpentGrows
<1> DEFINE x == FlowOf(infos[n], hand, queue, n)
           y == FlowOf(infos'[n], hand', queue', n)
           t == Ids(accepted, n)
           u == Ids(accepted', n)
<1>2. Sub(x, t) /\ (Intact => x = t)
  BY <1>1 DEF FlowInv
<1>3. Intact' => Intact
  BY HarmStays
<1>4. \/ \E z \in Seq(Nat) : y = x \o z /\ u = t \o z
      \/ u = t /\ Sub(y, x) /\ ~Intact'
  <2>1. Moves(n)
    BY <1>1, FlowMoves
  <2>2. QED
    BY <2>1 DEF Moves
<1>5. x \in Seq(Nat) /\ t \in Seq(Nat)
  <2>1. /\ infos[n] \in LogInfo /\ hand \in [Workers -> Seq(Log)] /\ queue \in Seq(Log)
        /\ accepted \in Seq(Log)
    BY DEF TypeInv, TypeOK
  <2>2. x \in Seq(Nat)
    BY <2>1, FlowType
  <2>3. t \in Seq(Nat)
    BY <2>1, IdsConcat
  <2> HIDE DEF x, t
  <2>4. QED
    BY <2>2, <2>3
<1> HIDE DEF x, y, t, u
<1>6. Sub(y, u) /\ (Intact' => y = u)
  <2>1. ASSUME NEW z \in Seq(Nat), y = x \o z, u = t \o z
        PROVE  Sub(y, u) /\ (Intact' => y = u)
    BY <1>2, <1>3, <1>5, <2>1, SubRefl, SubConcat
  <2>2. ASSUME u = t, Sub(y, x), ~Intact'
        PROVE  Sub(y, u)
    BY <1>2, <2>2, SubTrans
  <2>3. QED
    BY <1>4, <2>1, <2>2
<1>7. QED
  BY <1>6 DEF x, y, t, u

LEMMA FlowInvInit == Init => HandInv /\ FlowInv
<1> SUFFICES ASSUME Init
             PROVE  HandInv /\ FlowInv
  OBVIOUS
<1>1. HandInv
  BY DEF Init, HandInv, Running, NewLogInfo
<1>2. ASSUME NEW n \in Names
      PROVE  FlowOf(infos[n], hand, queue, n) = << >> /\ Ids(accepted, n) = << >>
  <2>1. infos[n] = NewLogInfo /\ queue = << >> /\ accepted = << >>
        /\ hand \in [Workers -> Seq(Log)] /\ \A w \in Workers : hand[w] = << >>
    BY DEF Init
  <2>2. 1 \in Workers
    BY CsvLogAssumption DEF Workers
  <2>3. FlattenSeq(hand) = << >>
    BY <2>1, <2>2, HandFlat
  <2>4. Stored(NewLogInfo) = << >>
    <3>1. NewLogInfo \in LogInfo /\ NewLogInfo.csv = << >> /\ NewLogInfo.log = << >>
          /\ NewLogInfo.buf = << >>
      BY DEF NewLogInfo, LogInfo
    <3>2. [k \in DOMAIN NewLogInfo.csv |-> NewLogInfo.csv[k].lines] = << >>
      BY <3>1
    <3>3. FlattenSeq(<< >>) = << >>
      BY DEF FlattenSeq
    <3>4. Lines(NewLogInfo) = (<< >> \o << >>) \o << >>
      BY <3>1, <3>2, <3>3 DEF Lines
    <3>5. Lines(NewLogInfo) = << >>
      BY <3>4
    <3>6. QED
      BY <3>5, LineIdsSmall DEF Stored
  <2>5. FlowOf(infos[n], hand, queue, n) = (<< >> \o << >>) \o << >>
    BY <2>1, <2>3, <2>4, IdsSmall DEF FlowOf
  <2>6. (<< >> \o << >>) \o << >> = << >>
    OBVIOUS
  <2>7. Ids(accepted, n) = << >>
    BY <2>1, IdsSmall
  <2>8. QED
    BY <2>5, <2>6, <2>7
<1>3. FlowInv
  BY <1>2, SubEmpty DEF FlowInv
<1>4. QED
  BY <1>1, <1>3

LEMMA FlowInvCorrect == Spec => [](TypeInv /\ FlowInv)
<1>1. Init => AddInv /\ StopInv /\ QuietInv /\ KnownInv /\ IdInv
  <2>1. Init => KnownInv /\ IdInv
    BY DEF Init, KnownInv, IdInv, HeaderId
  <2>2. QED
    BY <2>1, AddInvInit, StopInvInit, QuietInvInit
<1>2. TypeInv /\ TypeInv' /\ StopInv /\ QuietInv /\ IdInv /\ KnownInv /\ HandInv /\ FlowInv
        /\ [Next]_vars => FlowInv'
  BY FlowInvNext
<1>3. TypeInv /\ AddInv /\ StopInv /\ [Next]_vars => StopInv'
  BY StopInvNext
<1>4. QED
  BY <1>1, <1>2, <1>3, FlowInvInit, AddInvNext, QuietInvNext, IdInvNext, KnownInvNext,
     HandInvNext, TypeInvCorrect, PTL DEF Spec

(***************************************************************************)
(* For every number of threads, names and logs: while no file operation    *)
(* failed, the process was not killed, startup() was called once, no name  *)
(* was added twice, the worker met no exception and add() no writer that   *)
(* the worker had opened before it could, the lines of a name, the         *)
(* worker's hand and the queue are together exactly what the queue         *)
(* accepted for it, in order.  (CsvLogger.offerLog, CsvLogThread.run,      *)
(* CsvLogMamager.add running beside it)                                    *)
(***************************************************************************)
THEOREM NothingIsLost == Spec => []Lossless
<1>1. TypeInv /\ FlowInv => Lossless
  <2> SUFFICES ASSUME FlowInv, Intact, NEW n \in Names
               PROVE  Ids(accepted, n) =
                        LineIds(Lines(infos[n])) \o Ids(InHand, n) \o Ids(queue, n)
    BY DEF Lossless, Intact
  <2>1. spent.overlaps = 0
    BY DEF Intact, Undisturbed, NothingSpent
  <2>2. FlowOf(infos[n], hand, queue, n) = Ids(accepted, n)
    BY <2>1 DEF FlowInv
  <2>3. QED
    BY <2>2 DEF FlowOf, Stored, InHand
<1>2. QED
  BY <1>1, FlowInvCorrect, PTL

(***************************************************************************)
(* And whatever fails, is killed or is interrupted: as long as no two      *)
(* workers ran at once, the lines of a name over all the files of all the  *)
(* processes are some of the accepted ones, once each and in the order of  *)
(* their acceptance.  (CsvLogThread.run, CsvLogInfo.reloadWriter)          *)
(***************************************************************************)
THEOREM NothingIsOvertaken == Spec => []StoredInOrder
<1>1. TypeInv /\ FlowInv => StoredInOrder
  <2> SUFFICES ASSUME TypeInv, FlowInv, spent.overlaps = 0, NEW n \in Names
               PROVE  LET stored == LineIds(Lines(infos[n]))
                          order  == Ids(accepted, n)
                      IN  \A i, j \in DOMAIN stored : i < j =>
                            \E k, l \in DOMAIN order :
                              k < l /\ order[k] = stored[i] /\ order[l] = stored[j]
    BY DEF StoredInOrder
  <2> DEFINE x == Stored(infos[n])
             y == Ids(FlattenSeq(hand), n)
             z == Ids(queue, n)
             order == Ids(accepted, n)
  <2>1. Sub((x \o y) \o z, order)
    BY DEF FlowInv, FlowOf
  <2>2. infos[n] \in LogInfo /\ hand \in [Workers -> Seq(Log)] /\ queue \in Seq(Log)
    BY DEF TypeInv, TypeOK
  <2>3. x \in Seq(Nat) /\ y \in Seq(Nat) /\ z \in Seq(Nat)
    BY <2>2, FlowType
  <2>4. LineIds(Lines(infos[n])) = x
    BY DEF Stored
  <2> HIDE DEF x, y, z, order
  <2>5. << >> \in Seq(Nat) /\ Sub(x, x) /\ Sub(<< >>, y) /\ Sub(<< >>, z)
    BY SubRefl, SubEmpty
  <2>6. Sub(x \o << >>, x \o y) /\ x \o << >> = x /\ x \o y \in Seq(Nat)
    <3>1. Sub(x \o << >>, x \o y)
      BY <2>3, <2>5, SubConcat
    <3>2. x \o << >> = x /\ x \o y \in Seq(Nat)
      BY <2>3
    <3>3. QED
      BY <3>1, <3>2
  <2>7. Sub(x \o << >>, (x \o y) \o z)
    <3>1. Sub(x, x \o y)
      BY <2>6
    <3>2. QED
      BY <2>3, <2>5, <2>6, <3>1, SubConcat
  <2>8. Sub(x, order)
    BY <2>1, <2>6, <2>7, SubTrans
  <2>9. PICK g \in [DOMAIN x -> DOMAIN order] :
          /\ \A i, j \in DOMAIN x : i < j => g[i] < g[j]
          /\ \A i \in DOMAIN x : x[i] = order[g[i]]
    BY <2>8 DEF Sub
  <2>10. \A i, j \in DOMAIN x : i < j =>
           \E k, l \in DOMAIN order : k < l /\ order[k] = x[i] /\ order[l] = x[j]
    <3> SUFFICES ASSUME NEW i \in DOMAIN x, NEW j \in DOMAIN x, i < j
                 PROVE  \E k, l \in DOMAIN order : k < l /\ order[k] = x[i] /\ order[l] = x[j]
      OBVIOUS
    <3>1. g[i] \in DOMAIN order /\ g[j] \in DOMAIN order /\ g[i] < g[j]
          /\ order[g[i]] = x[i] /\ order[g[j]] = x[j]
      BY <2>9
    <3>2. QED
      BY <3>1
  <2>11. QED
    BY <2>4, <2>10 DEF order
<1>2. QED
  BY <1>1, FlowInvCorrect, PTL

-----------------------------------------------------------------------------
(***************************************************************************)
(* No identity is in two places: among the accepted logs and those still   *)
(* to be handed over, or in the queue and the hands of the workers.        *)
(***************************************************************************)
Apart(s, t) == \A i \in DOMAIN s : \A j \in DOMAIN t : s[i].id # t[j].id

FreshInv ==
  \A p \in Producers :
    /\ Apart(accepted, list[p]) /\ Apart(accepted, out[p])
    /\ \A q \in Producers : /\ Apart(list[p], out[q])
                            /\ p # q => Apart(list[p], list[q]) /\ Apart(out[p], out[q])

LEMMA FreshInvNext == TypeInv /\ OrderInv /\ FreshInv /\ [Next]_vars => FreshInv'
<1> SUFFICES ASSUME TypeInv, OrderInv, FreshInv, [Next]_vars
             PROVE  FreshInv'
  OBVIOUS
<1>1. /\ accepted \in Seq(Log) /\ nextId \in Nat
      /\ list \in [Producers -> Seq(Log)] /\ out \in [Producers -> Seq(Log)]
  BY CsvLogAssumption DEF TypeInv, TypeOK
<1>2. CASE UNCHANGED << accepted, nextId, list, out >>
  BY <1>2 DEF FreshInv
<1>3. CASE Kill
  <2>1. accepted' = accepted /\ \A p \in Producers : list'[p] = << >> /\ out'[p] = << >>
    BY <1>3 DEF Kill
  <2>2. QED
    BY <2>1 DEF FreshInv, Apart
<1>4. ASSUME NEW p \in Producers, Commit(p)
      PROVE  FreshInv'
  <2>1. /\ accepted' = accepted /\ list'[p] = << >> /\ out'[p] = list[p]
        /\ \A q \in Producers : q # p => list'[q] = list[q] /\ out'[q] = out[q]
    BY <1>1, <1>4 DEF Commit, histVars
  <2>2. QED
    BY <2>1 DEF FreshInv, Apart
<1>5. ASSUME NEW p \in Producers, Rollback(p) \/ OfferFails(p)
      PROVE  FreshInv'
  <2>1. /\ accepted' = accepted /\ \A q \in Producers : list'[q] = list[q] \/ list'[q] = << >>
        /\ \A q \in Producers : out'[q] = out[q] \/ out'[q] = << >>
    BY <1>1, <1>5 DEF Rollback, OfferFails, histVars
  <2>2. QED
    BY <2>1 DEF FreshInv, Apart
<1>6. ASSUME NEW p \in Producers, Offer(p)
      PROVE  FreshInv'
  <2> DEFINE x == Head(out[p])
             N == Len(accepted)
  <2>1. /\ accepted' = Append(accepted, x) /\ list' = list
        /\ out'[p] = Tail(out[p])
        /\ \A q \in Producers : q # p => out'[q] = out[q]
    BY <1>1, <1>6 DEF Offer
  <2>2. out[p] \in Seq(Log) /\ out[p] # << >>
    BY <1>1, <1>6 DEF Offer
  <2>3. /\ 1 \in DOMAIN out[p] /\ x = out[p][1]
        /\ \A i \in DOMAIN out'[p] : i + 1 \in DOMAIN out[p] /\ out'[p][i] = out[p][i + 1] /\ 1 < i + 1
    BY <2>1, <2>2
  <2>4. \A i \in DOMAIN accepted' :
          accepted'[i] = x \/ (i \in DOMAIN accepted /\ accepted'[i] = accepted[i])
    BY <1>1, <2>1
  <2> HIDE DEF x, N
  <2>5. \A i \in DOMAIN out'[p] : x.id # out'[p][i].id
    <3> SUFFICES ASSUME NEW i \in DOMAIN out'[p]
                 PROVE  x.id # out'[p][i].id
      OBVIOUS
    <3>1. out[p][1].id < out[p][i + 1].id
      BY <2>3 DEF OrderInv, Behind, Ascending
    <3>2. out[p][1].id \in Nat
      BY <2>2, <2>3, LogsHaveIds
    <3>3. QED
      BY <2>3, <3>1, <3>2
  <2>6. \A q \in Producers : q # p => \A i \in DOMAIN out[q] : x.id # out[q][i].id
    BY <2>3 DEF FreshInv, Apart
  <2>7. \A q \in Producers : \A i \in DOMAIN list[q] : x.id # list[q][i].id
    BY <2>3 DEF FreshInv, Apart
  <2>8. \A q \in Producers : Apart(accepted', list'[q])
    BY <2>1, <2>4, <2>7 DEF FreshInv, Apart
  <2>9. \A q \in Producers : Apart(accepted', out'[q])
    <3>1. Apart(accepted', out'[p])
      BY <2>3, <2>4, <2>5 DEF FreshInv, Apart
    <3>2. \A q \in Producers : q # p => Apart(accepted', out'[q])
      BY <2>1, <2>4, <2>6 DEF FreshInv, Apart
    <3>3. QED
      BY <3>1, <3>2
  <2>10. \A q \in Producers : \A i \in DOMAIN out'[q] : \E k \in DOMAIN out[q] : out'[q][i] = out[q][k]
    BY <2>1, <2>3
  <2>11. \A q, r \in Producers : /\ Apart(list'[q], out'[r])
                                 /\ q # r => Apart(list'[q], list'[r]) /\ Apart(out'[q], out'[r])
    BY <2>1, <2>10 DEF FreshInv, Apart
  <2>12. QED
    BY <2>8, <2>9, <2>11 DEF FreshInv
<1>7. ASSUME NEW p \in Producers, NEW n \in Names, NEW roll \in BOOLEAN, WriteLog(p, n, roll)
      PROVE  FreshInv'
  <2>1. PICK x \in Log :
           /\ x.id = nextId
           /\ \/ list' = [list EXCEPT ![p] = Append(@, x)] /\ out' = out
              \/ list' = list /\ out' = out
              \/ out' = [out EXCEPT ![p] = << x >>] /\ list' = list
    BY <1>7, WriteLogLog
  <2>2. accepted' = accepted
    BY <1>7 DEF WriteLog, histVars
  <2>3. \A q \in Producers : /\ \A i \in DOMAIN list[q] : list[q][i].id # nextId
                             /\ \A i \in DOMAIN out[q] : out[q][i].id # nextId
    <3> SUFFICES ASSUME NEW q \in Producers
                 PROVE  /\ \A i \in DOMAIN list[q] : list[q][i].id # nextId
                        /\ \A i \in DOMAIN out[q] : out[q][i].id # nextId
      OBVIOUS
    <3>1. /\ \A i \in DOMAIN list[q] : list[q][i].id < nextId /\ list[q][i].id \in Nat
          /\ \A i \in DOMAIN out[q] : out[q][i].id < nextId /\ out[q][i].id \in Nat
      BY <1>1, LogsHaveIds DEF OrderInv, Behind
    <3>2. QED
      BY <1>1, <3>1
  <2>4. \A i \in DOMAIN accepted : accepted[i].id # nextId
    <3>1. \A i \in DOMAIN accepted : accepted[i].id < nextId /\ accepted[i].id \in Nat
      BY <1>1, LogsHaveIds DEF OrderInv
    <3>2. QED
      BY <1>1, <3>1
  <2>5. CASE list' = [list EXCEPT ![p] = Append(@, x)] /\ out' = out
    <3>1. /\ \A q \in Producers : q # p => list'[q] = list[q]
          /\ \A i \in DOMAIN list'[p] :
               list'[p][i] = x \/ (i \in DOMAIN list[p] /\ list'[p][i] = list[p][i])
      BY <1>1, <2>5
    <3>2. \A q \in Producers : Apart(accepted', list'[q]) /\ Apart(accepted', out'[q])
      BY <2>1, <2>2, <2>4, <2>5, <3>1 DEF FreshInv, Apart
    <3>3. \A q, r \in Producers : Apart(list'[q], out'[r])
      BY <2>1, <2>3, <2>5, <3>1 DEF FreshInv, Apart
    <3>4. \A q, r \in Producers : q # r => Apart(list'[q], list'[r]) /\ Apart(out'[q], out'[r])
      BY <2>1, <2>3, <2>5, <3>1 DEF FreshInv, Apart
    <3>5. QED
      BY <3>2, <3>3, <3>4 DEF FreshInv
  <2>6. CASE list' = list /\ out' = out
    BY <2>2, <2>6 DEF FreshInv
  <2>7. CASE out' = [out EXCEPT ![p] = << x >>] /\ list' = list
    <3>1. /\ \A q \in Producers : q # p => out'[q] = out[q]
          /\ \A i \in DOMAIN out'[p] : out'[p][i] = x
      BY <1>1, <2>7
    <3>2. \A q \in Producers : Apart(accepted', list'[q]) /\ Apart(accepted', out'[q])
      BY <2>1, <2>2, <2>4, <2>7, <3>1 DEF FreshInv, Apart
    <3>3. \A q, r \in Producers : Apart(list'[q], out'[r])
      BY <2>1, <2>3, <2>7, <3>1 DEF FreshInv, Apart
    <3>4. \A q, r \in Producers : q # r => Apart(list'[q], list'[r]) /\ Apart(out'[q], out'[r])
      BY <2>1, <2>3, <2>7, <3>1 DEF FreshInv, Apart
    <3>5. QED
      BY <3>2, <3>3, <3>4 DEF FreshInv
  <2>8. QED
    BY <2>1, <2>5, <2>6, <2>7
<1>8. QED
  BY <1>2, <1>3, <1>4, <1>5, <1>6, <1>7, LogsStep

\* In the queue and the hands.
HeldInv ==
  /\ \A i, j \in DOMAIN queue : queue[i].id = queue[j].id => i = j
  /\ \A w \in Workers : Apart(hand[w], queue)
  /\ \A v, w \in Workers : v # w => Apart(hand[v], hand[w])

LEMMA HeldInvNext == TypeInv /\ KnownInv /\ FreshInv /\ HandInv /\ HeldInv /\ [Next]_vars => HeldInv'
<1> SUFFICES ASSUME TypeInv, KnownInv, FreshInv, HandInv, HeldInv, [Next]_vars
             PROVE  HeldInv'
  OBVIOUS
<1>1. /\ queue \in Seq(Log) /\ hand \in [Workers -> Seq(Log)] /\ out \in [Producers -> Seq(Log)]
  BY DEF TypeInv, TypeOK
<1>2. CASE UNCHANGED << queue, hand >>
  BY <1>2 DEF HeldInv
<1>3. CASE Kill
  <2>1. queue' = << >> /\ \A w \in Workers : hand'[w] = << >>
    BY <1>3 DEF Kill
  <2>2. QED
    BY <2>1 DEF HeldInv, Apart
<1>4. ASSUME NEW p \in Producers, Offer(p)
      PROVE  HeldInv'
  <2> DEFINE x == Head(out[p])
             N == Len(queue)
  <2>1. queue' = Append(queue, x) /\ hand' = hand /\ out[p] # << >>
    BY <1>4 DEF Offer, workVars
  <2>2. 1 \in DOMAIN out[p] /\ x = out[p][1]
    BY <1>1, <2>1
  <2>3. \A i \in DOMAIN queue' :
          \/ i = N + 1 /\ queue'[i] = x
          \/ i \in DOMAIN queue /\ queue'[i] = queue[i]
    <3>1. /\ N \in Nat /\ DOMAIN queue = 1 .. N /\ DOMAIN queue' = 1 .. N + 1
          /\ queue'[N + 1] = x /\ \A i \in 1 .. N : queue'[i] = queue[i]
      BY <1>1, <2>1
    <3> HIDE DEF x, N
    <3>2. QED
      BY <3>1
  <2> HIDE DEF x, N
  <2>4. \A i \in DOMAIN accepted : accepted[i].id # x.id
    BY <2>2 DEF FreshInv, Apart
  <2>5. /\ \A i \in DOMAIN queue : queue[i].id # x.id
        /\ \A w \in Workers : \A i \in DOMAIN hand[w] : hand[w][i].id # x.id
    BY <2>4 DEF KnownInv, Known
  <2>6. \A i, j \in DOMAIN queue' : queue'[i].id = queue'[j].id => i = j
    BY <2>3, <2>5 DEF HeldInv
  <2>7. \A w \in Workers : Apart(hand'[w], queue')
    BY <2>1, <2>3, <2>5 DEF HeldInv, Apart
  <2>8. QED
    BY <2>1, <2>6, <2>7 DEF HeldInv
<1>5. ASSUME NEW w \in Workers, Take(w)
      PROVE  HeldInv'
  <2>1. /\ queue # << >> /\ queue' = Tail(queue) /\ hand'[w] = << Head(queue) >>
        /\ \A v \in Workers : v # w => hand'[v] = hand[v]
    BY <1>1, <1>5 DEF Take
  <2>2. /\ 1 \in DOMAIN queue /\ \A i \in DOMAIN hand'[w] : hand'[w][i] = queue[1]
        /\ \A i \in DOMAIN queue' : i + 1 \in DOMAIN queue /\ queue'[i] = queue[i + 1] /\ i + 1 # 1
                                    /\ i \in Nat
    BY <1>1, <2>1
  <2>3. \A i, j \in DOMAIN queue' : queue'[i].id = queue'[j].id => i = j
    <3> SUFFICES ASSUME NEW i \in DOMAIN queue', NEW j \in DOMAIN queue',
                        queue'[i].id = queue'[j].id
                 PROVE  i = j
      OBVIOUS
    <3>1. i + 1 = j + 1
      BY <2>2 DEF HeldInv
    <3>2. QED
      BY <2>2, <3>1
  <2>4. Apart(hand'[w], queue')
    BY <2>2 DEF HeldInv, Apart
  <2>5. \A v \in Workers : v # w => Apart(hand'[v], queue')
    BY <2>1, <2>2 DEF HeldInv, Apart
  <2>6. \A v \in Workers : v # w => Apart(hand'[v], hand'[w]) /\ Apart(hand'[w], hand'[v])
    BY <2>1, <2>2 DEF HeldInv, Apart
  <2>7. \A u, v \in Workers : u # v => Apart(hand'[u], hand'[v])
    BY <2>1, <2>6 DEF HeldInv
  <2>8. QED
    BY <2>3, <2>4, <2>5, <2>7 DEF HeldInv
<1>6. ASSUME NEW w \in Workers, Write(w) \/ WriteFails(w)
      PROVE  HeldInv'
  <2>1. queue' = queue /\ \A v \in Workers : hand'[v] = hand[v] \/ hand'[v] = << >>
    BY <1>1, <1>6 DEF Write, WriteFails
  <2>2. QED
    BY <2>1 DEF HeldInv, Apart
<1>7. QED
  BY <1>2, <1>3, <1>4, <1>5, <1>6, QueueStep

-----------------------------------------------------------------------------
(***************************************************************************)
(* The open file and the closed files LogStore sees of a log, and what the *)
(* operations on the log make of them.                                     *)
(***************************************************************************)
SameFiles(b, a) == OpenIds(b) = OpenIds(a) /\ ClosedIds(b) = ClosedIds(a)

RolledFiles(b, a) == OpenIds(b) = << >> /\ ClosedIds(b) = Append(ClosedIds(a), OpenIds(a))

CutFiles(b, a) == OpenIds(b) \in Store!Prefixes(OpenIds(a)) /\ ClosedIds(b) = ClosedIds(a)

LEMMA OpenType ==
  ASSUME NEW a \in LogInfo
  PROVE  /\ OpenIds(a) = LineIds(a.log) \o LineIds(a.buf)
         /\ LineIds(a.log) \in Seq(Nat) /\ LineIds(a.buf) \in Seq(Nat) /\ OpenIds(a) \in Seq(Nat)
<1>1. a.log \in Seq(Line) /\ a.buf \in Seq(Line)
  BY DEF LogInfo
<1>2. LineIds(a.log \o a.buf) = LineIds(a.log) \o LineIds(a.buf) /\ LineIds(a.log) \in Seq(Nat)
  BY <1>1, LineIdsConcat
<1>3. LineIds(a.buf) \in Seq(Nat)
  BY <1>1, LineIdsConcat
<1>4. a.log \o a.buf \in Seq(Line)
  BY <1>1
<1>5. LineIds(a.log \o a.buf) \in Seq(Nat)
  BY <1>4, LineIdsConcat
<1>6. QED
  BY <1>2, <1>3, <1>5 DEF OpenIds

LEMMA PrefixOf ==
  ASSUME NEW d \in Seq(Nat), NEW b \in Seq(Nat)
  PROVE  d \in Store!Prefixes(d \o b) /\ d \in Store!Prefixes(d)
<1>1. /\ Len(d) \in Nat /\ Len(b) \in Nat /\ Len(d) \in 0 .. Len(d \o b) /\ Len(d) \in 0 .. Len(d)
      /\ d \o b \in Seq(Nat)
  OBVIOUS
<1>2. ASSUME NEW s \in Seq(Nat), Len(d) <= Len(s), \A i \in 1 .. Len(d) : s[i] = d[i]
      PROVE  SubSeq(s, 1, Len(d)) = d
  <2>1. SubSeq(s, 1, Len(d)) = [i \in 1 .. Len(d) |-> s[i]]
    BY <1>1, <1>2
  <2>2. d = [i \in 1 .. Len(d) |-> d[i]]
    OBVIOUS
  <2>3. QED
    BY <1>2, <2>1, <2>2
<1>3. SubSeq(d \o b, 1, Len(d)) = d
  <2>1. Len(d) <= Len(d \o b) /\ \A i \in 1 .. Len(d) : (d \o b)[i] = d[i]
    OBVIOUS
  <2>2. QED
    BY <1>1, <1>2, <2>1
<1>4. SubSeq(d, 1, Len(d)) = d
  BY <1>1, <1>2
<1>5. QED
  BY <1>1, <1>3, <1>4 DEF Store!Prefixes

LEMMA FilesRolled ==
  ASSUME NEW a \in LogInfo, NEW t \in Nat
  PROVE  RolledFiles(Closed(a, t), a)
<1> DEFINE b == Closed(a, t)
           lines == a.log \o a.buf
           file == [ from |-> t, index |-> FreeIndex(a, t), lines |-> lines ]
<1>1. b.log = << >> /\ b.buf = << >> /\ b.csv = Append(a.csv, file) /\ a.csv \in Seq(ClosedFile)
  BY DEF Closed, LogInfo
<1>2. file.lines = lines
  OBVIOUS
<1> HIDE DEF b, file, lines
<1>3. OpenIds(b) = << >>
  <2>1. << >> \o << >> = << >>
    OBVIOUS
  <2>2. QED
    BY <1>1, <2>1, LineIdsSmall DEF OpenIds
<1> DEFINE N == Len(a.csv)
           old == ClosedIds(a)
           app == Append(old, OpenIds(a))
<1>4. /\ N \in Nat /\ DOMAIN a.csv = 1 .. N /\ DOMAIN b.csv = 1 .. N + 1
      /\ b.csv[N + 1] = file /\ \A k \in 1 .. N : b.csv[k] = a.csv[k]
  BY <1>1
<1>5. old \in Seq(Seq(Nat)) /\ Len(old) = N
  <2> DEFINE S == Seq(Nat)
  <2>1. \A k \in DOMAIN a.csv : a.csv[k].lines \in Seq(Line)
    <3>1. \A k \in DOMAIN a.csv : a.csv[k] \in ClosedFile
      BY <1>1
    <3>2. QED
      BY <3>1 DEF ClosedFile
  <2>2. \A k \in 1 .. N : LineIds(a.csv[k].lines) \in S
    BY <1>4, <2>1, LineIdsConcat
  <2> HIDE DEF S
  <2>3. old \in [1 .. N -> S]
    BY <1>4, <2>2 DEF ClosedIds
  <2> HIDE DEF old, N
  <2>4. old \in Seq(S) /\ Len(old) = N
    BY <1>4, <2>3
  <2>5. QED
    BY <2>4 DEF S
<1>6. /\ app = [k \in 1 .. N + 1 |-> app[k]] /\ app[N + 1] = OpenIds(a)
      /\ \A k \in 1 .. N : app[k] = old[k]
  <2> HIDE DEF old, N
  <2>1. QED
    BY <1>5, AppendFacts
<1>7. \A k \in 1 .. N : old[k] = LineIds(a.csv[k].lines)
  BY <1>4 DEF ClosedIds
<1> HIDE DEF old, app, N
<1>8. \A k \in 1 .. N + 1 : LineIds(b.csv[k].lines) = app[k]
  <2> SUFFICES ASSUME NEW k \in 1 .. N + 1
               PROVE  LineIds(b.csv[k].lines) = app[k]
    OBVIOUS
  <2>1. CASE k = N + 1
    <3>1. b.csv[k].lines = lines
      BY <1>2, <1>4, <2>1
    <3>2. QED
      BY <1>6, <2>1, <3>1 DEF OpenIds, lines
  <2>2. CASE k \in 1 .. N
    <3>1. b.csv[k] = a.csv[k]
      BY <1>4, <2>2
    <3>2. QED
      BY <1>6, <1>7, <2>2, <3>1
  <2>3. QED
    BY <1>4, <2>1, <2>2
<1>9. ClosedIds(b) = app
  <2>1. ClosedIds(b) = [k \in 1 .. N + 1 |-> LineIds(b.csv[k].lines)]
    BY <1>4 DEF ClosedIds
  <2>2. QED
    BY <1>6, <1>8, <2>1
<1>10. QED
  BY <1>3, <1>9 DEF RolledFiles, b, app, old

LEMMA FilesAlike ==
  ASSUME NEW a, NEW b, Alike(b, a)
  PROVE  SameFiles(b, a)
  BY DEF Alike, SameFiles, OpenIds, ClosedIds

\* A new writer: its mark is no log, and what a writer before it held is lost.
LEMMA FilesOpened ==
  ASSUME NEW a \in LogInfo, NEW t \in Nat
  PROVE  OpenIds(Opened(a, t)) = LineIds(a.log) /\ ClosedIds(Opened(a, t)) = ClosedIds(a)
<1> DEFINE b == Opened(a, t)
           x == LineIds(a.log)
<1>1. /\ b \in LogInfo /\ b.csv = a.csv
      /\ \/ b.log = a.log /\ b.buf = << HeaderLine(t) >>
         \/ b.log = Append(a.log, HeaderLine(t)) /\ b.buf = << >>
  BY OpenedType DEF LogInfo, Opened
<1>2. << HeaderLine(t) >> \in Seq(Line)
  BY DEF HeaderLine, HeaderId, Line
<1>3. LineIds(<< HeaderLine(t) >>) = << >> /\ LineIds(<< >>) = << >>
  BY LineIdsSmall DEF HeaderLine
<1>4. x \in Seq(Nat)
  BY OpenType
<1> HIDE DEF b
<1>5. ASSUME b.log = Append(a.log, HeaderLine(t)), b.buf = << >>
      PROVE  OpenIds(b) = x
  <2> DEFINE r == a.log
             h == HeaderLine(t)
  <2>1. r \in Seq(Line) /\ << h >> \in Seq(Line) /\ h \in Line
    BY <1>2 DEF LogInfo, HeaderLine, HeaderId, Line
  <2>2. LineIds(r \o << h >>) = LineIds(r) \o LineIds(<< h >>)
    <3> HIDE DEF r, h
    <3>1. QED
      BY <2>1, LineIdsConcat
  <2>3. Append(r, h) = r \o << h >>
    <3> HIDE DEF r, h
    <3>1. QED
      BY <2>1
  <2>4. LineIds(b.log) = x \o << >> /\ LineIds(b.buf) = << >>
    BY <1>3, <1>5, <2>2, <2>3
  <2>5. OpenIds(b) = (x \o << >>) \o << >>
    BY <1>1, <2>4, OpenType
  <2> HIDE DEF x
  <2>6. OpenIds(b) = x
    BY <1>4, <2>5
  <2>7. QED
    BY <2>6 DEF x
<1>6. OpenIds(b) = x
  <2>1. CASE b.log = a.log /\ b.buf = << HeaderLine(t) >>
    <3>1. OpenIds(b) = x \o << >>
      BY <1>1, <1>3, <2>1, OpenType
    <3> HIDE DEF x
    <3>2. QED
      BY <1>4, <3>1
  <2>2. QED
    BY <1>1, <1>5, <2>1
<1>7. ClosedIds(b) = ClosedIds(a)
  BY <1>1 DEF ClosedIds
<1>8. QED
  BY <1>6, <1>7 DEF b

LEMMA FilesKept ==
  ASSUME NEW a \in LogInfo, NEW t \in Nat
  PROVE  /\ SameFiles(NotRenamed(a), a) /\ SameFiles(NotOpened(a, t), a) /\ SameFiles(Flushed(a), a)
         /\ a.buf # << >> \/ a.end = "glued" => SameFiles(Spilled(a), a)
         /\ SameFiles(SpilledHalf(a), a)
         /\ a.buf = << >> => SameFiles(Opened(a, t), a)
         /\ SameFiles([a EXCEPT !.state = "linked"], a)
<1>1. a.log \in Seq(Line) /\ a.buf \in Seq(Line)
  BY DEF LogInfo
<1>2. SameFiles(NotRenamed(a), a)
  BY NotRenamedLines DEF SameFiles, OpenIds, ClosedIds
<1>3. SameFiles(NotOpened(a, t), a)
  <2>1. NotOpened(a, t).csv = a.csv /\ NotOpened(a, t).log = a.log /\ NotOpened(a, t).buf = a.buf
    BY DEF LogInfo, NotOpened
  <2>2. QED
    BY <2>1 DEF SameFiles, OpenIds, ClosedIds
<1>4. SameFiles(Flushed(a), a)
  <2>1. Flushed(a).csv = a.csv /\ Flushed(a).log \o Flushed(a).buf = a.log \o a.buf
    BY EmptiedLines DEF Flushed
  <2>2. QED
    BY <2>1 DEF SameFiles, OpenIds, ClosedIds
<1>5. ASSUME a.buf # << >> \/ a.end = "glued"
      PROVE  SameFiles(Spilled(a), a)
  <2>1. CASE a.end = "glued"
    <3>1. Spilled(a).csv = a.csv /\ Spilled(a).log = a.log /\ Spilled(a).buf = a.buf
      BY <2>1 DEF LogInfo, Spilled
    <3>2. QED
      BY <3>1 DEF SameFiles, OpenIds, ClosedIds
  <2>2. CASE a.end # "glued"
    <3>1. Append(a.log, Head(a.buf)) \o Tail(a.buf) = a.log \o a.buf
      BY <1>1, <1>5, <2>2, SpilledSame
    <3>2. Spilled(a).csv = a.csv /\ Spilled(a).log = Append(a.log, Head(a.buf))
          /\ Spilled(a).buf = Tail(a.buf)
      BY <2>2 DEF LogInfo, Spilled
    <3>3. QED
      BY <3>1, <3>2 DEF SameFiles, OpenIds, ClosedIds
  <2>3. QED
    BY <2>1, <2>2
<1>6. SameFiles(SpilledHalf(a), a)
  <2>1. SpilledHalf(a).csv = a.csv /\ SpilledHalf(a).log = a.log /\ SpilledHalf(a).buf = a.buf
    BY DEF LogInfo, SpilledHalf
  <2>2. QED
    BY <2>1 DEF SameFiles, OpenIds, ClosedIds
<1>7. ASSUME a.buf = << >>
      PROVE  SameFiles(Opened(a, t), a)
  <2> DEFINE x == LineIds(a.log)
  <2>1. x \in Seq(Nat) /\ OpenIds(a) = x \o << >>
    BY <1>7, OpenType, LineIdsSmall
  <2>2. OpenIds(Opened(a, t)) = x
    BY FilesOpened
  <2> HIDE DEF x
  <2>3. OpenIds(Opened(a, t)) = OpenIds(a)
    BY <2>1, <2>2
  <2>4. QED
    BY <2>3, FilesOpened DEF SameFiles
<1>8. SameFiles([a EXCEPT !.state = "linked"], a)
  BY AlikeStates, FilesAlike
<1>9. QED
  BY <1>2, <1>3, <1>4, <1>5, <1>6, <1>7, <1>8

LEMMA FilesCut ==
  ASSUME NEW a \in LogInfo, NEW t \in Nat
  PROVE  /\ \A b : SameFiles(b, a) => CutFiles(b, a)
         /\ CutFiles(Broken(a), a) /\ CutFiles(Forgotten(a), a) /\ CutFiles(Opened(a, t), a)
         /\ CutFiles([Forgotten(a) EXCEPT !.state = "raw"], a)
<1> DEFINE f == Forgotten(a)
           c == [f EXCEPT !.state = "raw"]
<1>1. /\ LineIds(a.log) \in Seq(Nat) /\ LineIds(a.buf) \in Seq(Nat) /\ OpenIds(a) \in Seq(Nat)
      /\ OpenIds(a) = LineIds(a.log) \o LineIds(a.buf)
  BY OpenType
<1>2. OpenIds(a) \in Store!Prefixes(OpenIds(a)) /\ LineIds(a.log) \in Store!Prefixes(OpenIds(a))
  BY <1>1, PrefixOf
<1>3. ASSUME NEW b, b.csv = a.csv, b.log = a.log, b.buf = << >>
      PROVE  CutFiles(b, a)
  <2>1. a.log \o << >> = a.log
    BY DEF LogInfo
  <2>2. OpenIds(b) = LineIds(a.log)
    BY <1>3, <2>1 DEF OpenIds
  <2>3. QED
    BY <1>2, <1>3, <2>2 DEF CutFiles, ClosedIds
<1>4. /\ Broken(a).csv = a.csv /\ Broken(a).log = a.log /\ Broken(a).buf = << >>
      /\ f \in LogInfo /\ f.csv = a.csv /\ f.log = a.log /\ f.buf = << >>
  BY EndedType DEF LogInfo, Broken, Forgotten
<1> HIDE DEF f
<1>5. c.csv = a.csv /\ c.log = a.log /\ c.buf = << >>
  BY <1>4 DEF LogInfo
<1> HIDE DEF c
<1>6. CutFiles(Broken(a), a) /\ CutFiles(f, a) /\ CutFiles(c, a)
  BY <1>3, <1>4, <1>5
<1>7. CutFiles(Opened(a, t), a)
  BY <1>2, FilesOpened DEF CutFiles
<1>8. \A b : SameFiles(b, a) => CutFiles(b, a)
  BY <1>2 DEF SameFiles, CutFiles
<1>9. QED
  BY <1>6, <1>7, <1>8 DEF c, f

LEMMA FilesWritten ==
  ASSUME NEW a \in LogInfo, NEW line \in Line, line.id # HeaderId
  PROVE  /\ Accepts(a) => /\ OpenIds(Written(a, line)) = Append(OpenIds(a), line.id)
                          /\ ClosedIds(Written(a, line)) = ClosedIds(a)
         /\ ~Accepts(a) => SameFiles(Written(a, line), a)
<1>1. ASSUME ~Accepts(a)
      PROVE  SameFiles(Written(a, line), a)
  <2>1. /\ Written(a, line).csv = a.csv /\ Written(a, line).log = a.log
        /\ Written(a, line).buf = a.buf
    BY <1>1 DEF LogInfo, Written, Accepts
  <2>2. QED
    BY <2>1 DEF SameFiles, OpenIds, ClosedIds
<1>2. ASSUME Accepts(a)
      PROVE  /\ OpenIds(Written(a, line)) = Append(OpenIds(a), line.id)
             /\ ClosedIds(Written(a, line)) = ClosedIds(a)
  <2>1. Written(a, line).csv = a.csv /\ Written(a, line).log = a.log
        /\ Written(a, line).buf = Append(a.buf, line)
    BY <1>2 DEF LogInfo, Written, Accepts
  <2>2. a.log \in Seq(Line) /\ a.buf \in Seq(Line)
    BY DEF LogInfo
  <2>3. a.log \o Append(a.buf, line) = (a.log \o a.buf) \o << line >>
        /\ a.log \o a.buf \in Seq(Line) /\ << line >> \in Seq(Line)
    <3> DEFINE r == a.log
               b == a.buf
               X == Line
    <3>1. r \in Seq(X) /\ b \in Seq(X) /\ line \in X
      BY <2>2
    <3> HIDE DEF r, b, X
    <3>2. r \o Append(b, line) = Append(r \o b, line)
      BY <3>1, AppendConcat
    <3>3. r \o b \in Seq(X) /\ << line >> \in Seq(X)
      BY <3>1
    <3>4. Append(r \o b, line) = (r \o b) \o << line >>
      BY <3>1, <3>3
    <3>5. QED
      BY <3>2, <3>3, <3>4 DEF r, b, X
  <2>4. OpenIds(Written(a, line)) = OpenIds(a) \o << line.id >>
    BY <2>1, <2>3, LineIdsConcat, LineIdsSmall DEF OpenIds
  <2>5. OpenIds(a) \o << line.id >> = Append(OpenIds(a), line.id)
    <3> DEFINE o == OpenIds(a)
               i == line.id
    <3>1. o \in Seq(Nat) /\ i \in Nat
      BY OpenType DEF Line
    <3> HIDE DEF o, i
    <3>2. o \o << i >> = Append(o, i)
      BY <3>1
    <3>3. QED
      BY <3>2 DEF o, i
  <2>6. QED
    BY <2>1, <2>4, <2>5 DEF ClosedIds
<1>3. QED
  BY <1>1, <1>2

-----------------------------------------------------------------------------
(***************************************************************************)
(* The steps of LogStore, from what happens to each name.                  *)
(***************************************************************************)
Failures == spent.faults + spent.kills + spent.dups + spent.races

OneMore == spent'.faults + spent'.kills + spent'.dups + spent'.races = Failures + 1

SameAccepted == \A m \in Names : Ids(accepted', m) = Ids(accepted, m)
SameWaiting == \A m \in Names : Ids(queue', m) = Ids(queue, m)
SameTaken(N) == \A m \in N : TakenIds(m)' = TakenIds(m)
SameStored(N) == \A m \in N : SameFiles(infos'[m], infos[m])
SameFailures == spent'.faults + spent'.kills + spent'.dups + spent'.races = Failures
SameOk == Intact' <=> Intact

Others(n) == Names \ {n}

Released(n) == \/ TakenIds(n)' = TakenIds(n)
               \/ \E id \in TakenIds(n) : TakenIds(n)' = TakenIds(n) \ {id}

LEMMA OkSame ==
  ASSUME SameOk
  PROVE  Intact' = Intact
<1>1. Intact \in BOOLEAN
  BY DEF Intact
<1>2. Intact' \in BOOLEAN
  BY DEF Intact
<1>3. QED
  BY <1>1, <1>2 DEF SameOk

LEMMA NotOk ==
  ASSUME ~Intact'
  PROVE  Intact' = FALSE
<1>1. Intact' \in BOOLEAN
  BY DEF Intact
<1>2. QED
  BY <1>1

LEMMA IsStutter ==
  ASSUME SameAccepted, SameWaiting, SameTaken(Names), SameStored(Names), SameFailures, SameOk
  PROVE  UNCHANGED Store!storeVars
<1>1. Intact' = Intact
  BY OkSame
<1> HIDE DEF Intact
<1>2. QED
  BY <1>1 DEF SameAccepted, SameWaiting, SameTaken, SameStored, SameFiles, SameFailures, Failures,
              Store!storeVars, Store!files

LEMMA IsAccept ==
  ASSUME NEW n \in Names, NEW id \in 1 .. MaxWrites,
         \A m \in Names : \A k \in DOMAIN Ids(accepted, m) : Ids(accepted, m)[k] # id,
         Ids(accepted', n) = Append(Ids(accepted, n), id),
         Ids(queue', n) = Append(Ids(queue, n), id),
         \A m \in Others(n) : Ids(accepted', m) = Ids(accepted, m) /\ Ids(queue', m) = Ids(queue, m),
         SameTaken(Names), SameStored(Names), SameFailures, SameOk
  PROVE  Store!StoreNext
<1>1. Intact' = Intact
  BY OkSame
<1>2. Store!Accept(n, id)
  BY <1>1 DEF Store!Accept, Others, SameTaken, SameStored, SameFiles, SameFailures, Failures,
              Store!files, Store!ToSet
<1>3. QED
  BY <1>2 DEF Store!StoreNext

LEMMA IsTake ==
  ASSUME NEW n \in Names, Ids(queue, n) # << >>, Intact => TakenIds(n) = {},
         TakenIds(n)' = TakenIds(n) \union {Head(Ids(queue, n))},
         Ids(queue', n) = Tail(Ids(queue, n)),
         \A m \in Others(n) : Ids(queue', m) = Ids(queue, m),
         SameTaken(Others(n)), SameAccepted, SameStored(Names), SameFailures, SameOk
  PROVE  Store!StoreNext
<1>1. Intact' = Intact
  BY OkSame
<1>2. Store!TakeNext(n)
  BY <1>1 DEF Store!TakeNext, Others, SameTaken, SameAccepted, SameStored, SameFiles, SameFailures,
              Failures, Store!files
<1>3. QED
  BY <1>2 DEF Store!StoreNext

LEMMA IsRoll ==
  ASSUME NEW n \in Names, RolledFiles(infos'[n], infos[n]), SameStored(Others(n)),
         SameAccepted, SameWaiting, SameTaken(Names), SameFailures, SameOk
  PROVE  Store!StoreNext
<1>1. Intact' = Intact
  BY OkSame
<1>2. Store!Roll(n)
  BY <1>1 DEF Store!Roll, Store!Rolled, Others, RolledFiles, SameTaken, SameAccepted, SameWaiting,
              SameStored, SameFiles, SameFailures, Failures
<1>3. QED
  BY <1>2 DEF Store!StoreNext

LEMMA IsStore ==
  ASSUME NEW n \in Names, NEW id \in 1 .. MaxWrites, id \in TakenIds(n),
         TakenIds(n)' = TakenIds(n) \ {id},
         \/ /\ OpenIds(infos'[n]) = Append(OpenIds(infos[n]), id)
            /\ ClosedIds(infos'[n]) = ClosedIds(infos[n])
         \/ /\ OpenIds(infos'[n]) = << id >>
            /\ ClosedIds(infos'[n]) = Append(ClosedIds(infos[n]), OpenIds(infos[n])),
         SameStored(Others(n)), SameTaken(Others(n)), SameAccepted, SameWaiting, SameFailures, SameOk
  PROVE  Store!StoreNext
<1>1. Intact' = Intact
  BY OkSame
<1>2. Store!Store(n, id)
  BY <1>1 DEF Store!Store, Others, SameTaken, SameAccepted, SameWaiting, SameStored, SameFiles,
              SameFailures, Failures
<1>3. QED
  BY <1>2 DEF Store!StoreNext

LEMMA IsDrop ==
  ASSUME NEW n \in Names, Released(n), ~Intact', SameTaken(Others(n)), SameAccepted, SameWaiting,
         SameStored(Names), SameFailures
  PROVE  Store!StoreNext
<1>1. Intact' = FALSE
  BY NotOk
<1>2. Store!Drop(n)
  BY <1>1 DEF Store!Drop, Others, Released, SameTaken, SameAccepted, SameWaiting, SameStored,
              SameFiles, SameFailures, Failures, Store!files
<1>3. QED
  BY <1>2 DEF Store!StoreNext

LEMMA IsFail ==
  ASSUME NEW n \in Names, Released(n), ~Intact', SameTaken(Others(n)), SameAccepted, SameWaiting,
         OneMore, RolledFiles(infos'[n], infos[n]) \/ CutFiles(infos'[n], infos[n]), SameStored(Others(n))
  PROVE  Store!StoreNext
<1>1. Intact' = FALSE
  BY NotOk
<1>2. Store!Fail(n)
  BY <1>1 DEF Store!Fail, Store!Rolled, Others, Released, SameTaken, SameAccepted, SameWaiting,
              SameStored, SameFiles, RolledFiles, CutFiles, OneMore, Failures
<1>3. QED
  BY <1>2 DEF Store!StoreNext

LEMMA IsCrash ==
  ASSUME ~Intact', OneMore, SameAccepted,
         \A m \in Names : /\ Ids(queue', m) = << >> /\ TakenIds(m)' = {}
                          /\ CutFiles(infos'[m], infos[m])
  PROVE  Store!StoreNext
<1>1. Intact' = FALSE
  BY NotOk
<1> DEFINE before == [m \in Names |-> OpenIds(infos[m])]
           f == [m \in Names |-> OpenIds(infos'[m])]
<1>2. \A m \in Names : f[m] \in Store!Prefixes(before[m])
  BY DEF CutFiles
<1>3. f \in [Names -> UNION { Store!Prefixes(before[m]) : m \in Names }]
  <2> HIDE DEF before
  <2>1. QED
    BY <1>2
<1>4. \E g \in [Names -> UNION { Store!Prefixes(before[m]) : m \in Names }] :
        f = g /\ \A m \in Names : g[m] \in Store!Prefixes(before[m])
  <2> HIDE DEF before, f
  <2>1. QED
    BY <1>2, <1>3
<1>5. Store!Crash
  BY <1>1, <1>4 DEF Store!Crash, SameAccepted, CutFiles, OneMore, Failures
<1>6. QED
  BY <1>5 DEF Store!StoreNext

-----------------------------------------------------------------------------
(***************************************************************************)
(* The steps of the service, one lemma for those that change the same.     *)
(***************************************************************************)
StoreStep == Store!StoreNext \/ UNCHANGED Store!storeVars

LEMMA TakenGone ==
  ASSUME TypeInv, HeldInv, NEW w \in Workers, hand[w] # << >>, NEW log, hand[w][1] = log,
         hand' = [hand EXCEPT ![w] = << >>]
  PROVE  /\ \A m \in Names : m # log.name \/ log.roll => TakenIds(m)' = TakenIds(m)
         /\ ~log.roll => /\ log.id \in TakenIds(log.name)
                         /\ TakenIds(log.name)' = TakenIds(log.name) \ {log.id}
<1> DEFINE Holds(v, m) == hand[v] # << >> /\ hand[v][1].name = m /\ ~hand[v][1].roll
           HoldsNext(v, m) == hand'[v] # << >> /\ hand'[v][1].name = m /\ ~hand'[v][1].roll
<1>1. hand \in [Workers -> Seq(Log)]
  BY DEF TypeInv, TypeOK
<1>2. hand'[w] = << >> /\ \A v \in Workers : v # w => hand'[v] = hand[v]
  BY <1>1
<1>3. \A m : TakenIds(m) = { hand[v][1].id : v \in { u \in Workers : Holds(u, m) } }
  BY DEF TakenIds
<1>4. \A m : TakenIds(m)' = { hand'[v][1].id : v \in { u \in Workers : HoldsNext(u, m) } }
  BY DEF TakenIds
<1>5. \A v \in Workers : \A m : HoldsNext(v, m) <=> (v # w /\ Holds(v, m))
  BY <1>2
<1>6. ASSUME NEW v \in Workers, v # w, hand[v] # << >>
      PROVE  hand[v][1].id # log.id
  <2>1. 1 \in DOMAIN hand[v] /\ 1 \in DOMAIN hand[w]
    BY <1>1, <1>6
  <2>2. QED
    BY <1>6, <2>1 DEF HeldInv, Apart
<1>7. Holds(w, log.name) <=> ~log.roll
  OBVIOUS
<1>8. \A m : m # log.name \/ log.roll => ~Holds(w, m)
  OBVIOUS
<1>9. \A v \in Workers : \A m : Holds(v, m) => hand[v] # << >>
  OBVIOUS
<1> HIDE DEF Holds, HoldsNext
<1>10. \A m, id : id \in TakenIds(m)' <=>
         \E v \in Workers : v # w /\ Holds(v, m) /\ id = hand[v][1].id
  <2> SUFFICES ASSUME NEW m, NEW id
               PROVE  id \in TakenIds(m)' <=>
                        \E v \in Workers : v # w /\ Holds(v, m) /\ id = hand[v][1].id
    OBVIOUS
  <2>1. id \in TakenIds(m)' <=> \E v \in Workers : HoldsNext(v, m) /\ id = hand'[v][1].id
    BY <1>4
  <2>2. \A v \in Workers : /\ HoldsNext(v, m) <=> (v # w /\ Holds(v, m))
                           /\ v # w => hand'[v] = hand[v]
    BY <1>2, <1>5
  <2>3. QED
    BY <2>1, <2>2
<1>11. \A m, id : id \in TakenIds(m) <=> \E v \in Workers : Holds(v, m) /\ id = hand[v][1].id
  BY <1>3
<1>12. \A m : m # log.name \/ log.roll => TakenIds(m)' = TakenIds(m)
  <2> SUFFICES ASSUME NEW m, m # log.name \/ log.roll
               PROVE  TakenIds(m)' = TakenIds(m)
    OBVIOUS
  <2>1. ~Holds(w, m)
    BY <1>8
  <2>2. \A id : id \in TakenIds(m)' <=> id \in TakenIds(m)
    BY <1>10, <1>11, <2>1
  <2>3. QED
    BY <2>2, <1>3, <1>4
<1>13. ASSUME ~log.roll
       PROVE  /\ log.id \in TakenIds(log.name)
              /\ TakenIds(log.name)' = TakenIds(log.name) \ {log.id}
  <2>1. log.id \in TakenIds(log.name)
    BY <1>3, <1>7, <1>13
  <2>2. \A id : id \in TakenIds(log.name)' <=>
                  \E v \in Workers : v # w /\ Holds(v, log.name) /\ id = hand[v][1].id
    BY <1>10
  <2>3. \A id : id \in TakenIds(log.name) <=>
                  \E v \in Workers : Holds(v, log.name) /\ id = hand[v][1].id
    BY <1>11
  <2>4. \A v \in Workers : v # w /\ Holds(v, log.name) => hand[v][1].id # log.id
    BY <1>6, <1>9
  <2>5. \A id : id \in TakenIds(log.name)' <=> id \in TakenIds(log.name) /\ id # log.id
    BY <2>2, <2>3, <2>4
  <2>6. QED
    BY <2>1, <2>5
<1>14. QED
  BY <1>12, <1>13

LEMMA TakenMore ==
  ASSUME TypeInv, NEW w \in Workers, hand[w] = << >>, NEW log, hand' = [hand EXCEPT ![w] = << log >>]
  PROVE  /\ \A m \in Names : m # log.name \/ log.roll => TakenIds(m)' = TakenIds(m)
         /\ ~log.roll => TakenIds(log.name)' = TakenIds(log.name) \union {log.id}
<1> DEFINE Holds(v, m) == hand[v] # << >> /\ hand[v][1].name = m /\ ~hand[v][1].roll
           HoldsNext(v, m) == hand'[v] # << >> /\ hand'[v][1].name = m /\ ~hand'[v][1].roll
<1>1. hand \in [Workers -> Seq(Log)]
  BY DEF TypeInv, TypeOK
<1>2. hand'[w] = << log >> /\ \A v \in Workers : v # w => hand'[v] = hand[v]
  BY <1>1
<1>3. \A m : TakenIds(m) = { hand[v][1].id : v \in { u \in Workers : Holds(u, m) } }
  BY DEF TakenIds
<1>4. \A m : TakenIds(m)' = { hand'[v][1].id : v \in { u \in Workers : HoldsNext(u, m) } }
  BY DEF TakenIds
<1>5. hand'[w][1] = log /\ hand'[w] # << >>
  BY <1>2
<1>6. \A m : /\ ~Holds(w, m)
             /\ HoldsNext(w, m) <=> log.name = m /\ ~log.roll
             /\ \A v \in Workers : v # w => (HoldsNext(v, m) <=> Holds(v, m))
  BY <1>2, <1>5
<1> HIDE DEF Holds, HoldsNext
<1>7. \A m, id : id \in TakenIds(m)' <=>
        \E v \in Workers : HoldsNext(v, m) /\ id = hand'[v][1].id
  BY <1>4
<1>8. \A m, id : id \in TakenIds(m) <=>
        \E v \in Workers : Holds(v, m) /\ id = hand[v][1].id
  BY <1>3
<1>9. \A m : m # log.name \/ log.roll => TakenIds(m)' = TakenIds(m)
  <2> SUFFICES ASSUME NEW m, m # log.name \/ log.roll
               PROVE  TakenIds(m)' = TakenIds(m)
    OBVIOUS
  <2>1. \A id : id \in TakenIds(m)' <=> id \in TakenIds(m)
    BY <1>2, <1>6, <1>7, <1>8
  <2>2. QED
    BY <2>1, <1>3, <1>4
<1>10. ASSUME ~log.roll
       PROVE  TakenIds(log.name)' = TakenIds(log.name) \union {log.id}
  <2>1. HoldsNext(w, log.name) /\ hand'[w][1] = log /\ ~Holds(w, log.name)
    BY <1>5, <1>6, <1>10
  <2>2. ASSUME NEW id, id \in TakenIds(log.name)'
        PROVE  id \in TakenIds(log.name) \/ id = log.id
    <3>1. PICK v \in Workers : HoldsNext(v, log.name) /\ id = hand'[v][1].id
      BY <1>7, <2>2
    <3>2. CASE v = w
      BY <2>1, <3>1, <3>2
    <3>3. CASE v # w
      BY <1>2, <1>6, <1>8, <3>1, <3>3
    <3>4. QED
      BY <3>2, <3>3
  <2>3. ASSUME NEW id, id \in TakenIds(log.name)
        PROVE  id \in TakenIds(log.name)'
    <3>1. PICK v \in Workers : Holds(v, log.name) /\ id = hand[v][1].id
      BY <1>8, <2>3
    <3>2. v # w
      BY <2>1, <3>1
    <3>3. QED
      BY <1>2, <1>6, <1>7, <3>1, <3>2
  <2>4. log.id \in TakenIds(log.name)'
    BY <1>7, <2>1
  <2>5. QED
    BY <2>2, <2>3, <2>4
<1>11. QED
  BY <1>9, <1>10

LEMMA HandSame ==
  ASSUME hand' = hand
  PROVE  SameTaken(Names) /\ \A n \in Names : SameTaken(Others(n)) /\ Released(n)
<1>1. \A m : TakenIds(m)' = TakenIds(m)
  BY DEF TakenIds
<1>2. QED
  BY <1>1 DEF SameTaken, Others, Released

LEMMA SpentSame ==
  ASSUME spent' = spent, \A w \in Workers : cause'[w] = "failed" <=> cause[w] = "failed"
  PROVE  SameFailures /\ SameOk
<1>1. SameFailures
  BY DEF SameFailures, Failures
<1>2. SameOk
  BY DEF SameOk, Intact, Undisturbed
<1>3. QED
  BY <1>1, <1>2

\* A step that none of the mapped variables sees.
LEMMA InvisibleStep ==
  ASSUME accepted' = accepted, queue' = queue, hand' = hand, spent' = spent,
         \A w \in Workers : cause'[w] = "failed" <=> cause[w] = "failed",
         SameStored(Names)
  PROVE  StoreStep
<1>1. SameAccepted /\ SameWaiting
  BY DEF SameAccepted, SameWaiting
<1>2. UNCHANGED Store!storeVars
  BY <1>1, HandSame, SpentSame, IsStutter
<1>3. QED
  BY <1>2 DEF StoreStep

LEMMA OfferStores ==
  ASSUME TypeInv, OrderInv, IdInv, FreshInv, NEW p \in Producers, Offer(p)
  PROVE  StoreStep
<1>1. /\ queue \in Seq(Log) /\ accepted \in Seq(Log) /\ out[p] \in Seq(Log)
      /\ nextId \in 1 .. MaxWrites + 1
  BY DEF TypeInv, TypeOK
<1> DEFINE log == Head(out[p])
<1>2. log \in Log /\ 1 \in DOMAIN out[p] /\ log = out[p][1]
  BY <1>1 DEF Offer
<1>3. /\ infos' = infos /\ hand' = hand /\ queue' = Append(queue, log)
      /\ accepted' = Append(accepted, log) /\ spent' = spent /\ cause' = cause
  BY DEF Offer, workVars
<1>4. log.id \in 1 .. MaxWrites
  <2>1. log.id < nextId /\ log.id # HeaderId /\ log.id \in Nat
    BY <1>2 DEF OrderInv, Behind, IdInv, Log
  <2>2. MaxWrites \in Nat
    BY CsvLogAssumption
  <2>3. QED
    BY <1>1, <2>1, <2>2 DEF HeaderId
<1>5. \A i \in DOMAIN accepted : accepted[i].id # log.id
  BY <1>2 DEF FreshInv, Apart
<1>6. \A m \in Names : \A k \in DOMAIN Ids(accepted, m) : Ids(accepted, m)[k] # log.id
  BY <1>1, <1>5, IdsMember
<1>7. log.name \in Names
  BY <1>2 DEF Log
<1> HIDE DEF log
<1>8. /\ << log >> \in Seq(Log) /\ Append(queue, log) = queue \o << log >>
      /\ Append(accepted, log) = accepted \o << log >>
  <2> DEFINE X == Log
  <2>1. queue \in Seq(X) /\ accepted \in Seq(X) /\ log \in X
    BY <1>1, <1>2
  <2> HIDE DEF X
  <2>2. /\ << log >> \in Seq(X) /\ Append(queue, log) = queue \o << log >>
        /\ Append(accepted, log) = accepted \o << log >>
    BY <2>1
  <2>3. QED
    BY <2>2 DEF X
<1>9. \A m : /\ Ids(queue', m) = Ids(queue, m) \o Ids(<< log >>, m)
             /\ Ids(accepted', m) = Ids(accepted, m) \o Ids(<< log >>, m)
             /\ Ids(queue, m) \in Seq(Nat) /\ Ids(accepted, m) \in Seq(Nat)
  BY <1>1, <1>3, <1>8, IdsConcat
<1>10. \A m : Ids(<< log >>, m) = IF log.name = m /\ ~log.roll THEN << log.id >> ELSE << >>
  BY IdsSmall
<1>11. \A s \in Seq(Nat) : s \o << >> = s /\ \A i \in Nat : s \o << i >> = Append(s, i)
  OBVIOUS
<1>12. \A m : log.name # m \/ log.roll => Ids(accepted', m) = Ids(accepted, m) /\ Ids(queue', m) = Ids(queue, m)
  BY <1>9, <1>10, <1>11
<1>13. SameStored(Names)
  BY <1>3 DEF SameStored, SameFiles
<1>14. CASE log.roll
  <2>1. SameAccepted /\ SameWaiting
    BY <1>12, <1>14 DEF SameAccepted, SameWaiting
  <2>2. UNCHANGED Store!storeVars
    BY <1>3, <1>13, <2>1, HandSame, SpentSame, IsStutter
  <2>3. QED
    BY <2>2 DEF StoreStep
<1>15. CASE ~log.roll
  <2> DEFINE n == log.name
             id == log.id
  <2>1. id \in Nat
    BY <1>4
  <2>2. Ids(accepted', n) = Append(Ids(accepted, n), id) /\ Ids(queue', n) = Append(Ids(queue, n), id)
    <3> DEFINE a == Ids(accepted, n)
               q == Ids(queue, n)
    <3>1. a \in Seq(Nat) /\ q \in Seq(Nat)
      BY <1>9
    <3>2. Ids(accepted', n) = a \o << id >> /\ Ids(queue', n) = q \o << id >>
      BY <1>9, <1>10, <1>15
    <3> HIDE DEF a, q, n, id
    <3>3. a \o << id >> = Append(a, id) /\ q \o << id >> = Append(q, id)
      BY <2>1, <3>1
    <3>4. QED
      BY <3>2, <3>3 DEF a, q
  <2>3. \A m \in Others(n) : Ids(accepted', m) = Ids(accepted, m) /\ Ids(queue', m) = Ids(queue, m)
    BY <1>12 DEF Others
  <2>4. SameTaken(Names) /\ SameFailures /\ SameOk
    BY <1>3, HandSame, SpentSame
  <2>5. n \in Names /\ id \in 1 .. MaxWrites
    BY <1>4, <1>7
  <2> HIDE DEF n, id
  <2>6. Store!StoreNext
    BY <1>6, <1>13, <2>2, <2>3, <2>4, <2>5, IsAccept DEF id
  <2>7. QED
    BY <2>6 DEF StoreStep
<1>16. QED
  BY <1>14, <1>15


LEMMA TakeStores ==
  ASSUME TypeInv, HandInv, NEW w \in Workers, Take(w)
  PROVE  StoreStep
<1>1. hand \in [Workers -> Seq(Log)] /\ queue \in Seq(Log)
  BY DEF TypeInv, TypeOK
<1>2. PICK log : log = Head(queue)
  OBVIOUS
<1>3. /\ pc[w] = "take" /\ queue # << >> /\ hand' = [hand EXCEPT ![w] = << log >>]
      /\ queue' = Tail(queue) /\ infos' = infos /\ accepted' = accepted /\ spent' = spent
      /\ cause' = cause
  BY <1>2 DEF Take, histVars
<1>4. /\ log \in Log /\ << log >> \in Seq(Log) /\ queue' \in Seq(Log)
      /\ queue = << log >> \o queue'
  BY <1>1, <1>2, <1>3
<1>5. hand[w] = << >>
  BY <1>3 DEF HandInv
<1>6. /\ \A m \in Names : m # log.name \/ log.roll => TakenIds(m)' = TakenIds(m)
      /\ ~log.roll => TakenIds(log.name)' = TakenIds(log.name) \union {log.id}
  BY <1>3, <1>5, TakenMore
<1>7. ASSUME NEW m
      PROVE  /\ Ids(queue, m) = Ids(<< log >>, m) \o Ids(queue', m)
             /\ Ids(<< log >>, m) = IF log.name = m /\ ~log.roll THEN << log.id >> ELSE << >>
             /\ Ids(queue', m) \in Seq(Nat)
  BY <1>4, IdsConcat, IdsSmall
<1>8. SameAccepted /\ SameStored(Names) /\ SameFailures /\ SameOk
  <2>1. SameAccepted /\ SameStored(Names)
    BY <1>3 DEF SameAccepted, SameStored, SameFiles
  <2>2. QED
    BY <1>3, <2>1, SpentSame
<1>9. ASSUME NEW m, log.name # m \/ log.roll
      PROVE  Ids(queue', m) = Ids(queue, m)
  <2> DEFINE q == Ids(queue', m)
  <2>1. Ids(queue, m) = << >> \o q /\ q \in Seq(Nat)
    BY <1>7, <1>9
  <2> HIDE DEF q
  <2>2. << >> \o q = q
    BY <2>1
  <2>3. QED
    BY <2>1, <2>2 DEF q
<1>10. CASE log.roll
  <2>1. SameWaiting /\ SameTaken(Names)
    BY <1>6, <1>9, <1>10 DEF SameWaiting, SameTaken
  <2>2. UNCHANGED Store!storeVars
    BY <1>8, <2>1, IsStutter
  <2>3. QED
    BY <2>2 DEF StoreStep
<1>11. CASE ~log.roll
  <2>1. PICK n : n = log.name
    OBVIOUS
  <2>2. n \in Names /\ log.id \in Nat
    BY <1>4, <2>1 DEF Log
  <2>3. /\ Ids(queue, n) # << >> /\ Head(Ids(queue, n)) = log.id
        /\ Tail(Ids(queue, n)) = Ids(queue', n)
    <3> DEFINE q == Ids(queue', n)
               i == log.id
    <3>1. Ids(queue, n) = << i >> \o q /\ q \in Seq(Nat) /\ i \in Nat
      BY <1>7, <1>11, <2>1, <2>2
    <3> HIDE DEF q, i
    <3> DEFINE s == << i >> \o q
    <3>2. s # << >> /\ Head(s) = i /\ Tail(s) = q
      BY <3>1
    <3>3. QED
      BY <3>1, <3>2 DEF q, i
  <2>4. TakenIds(n)' = TakenIds(n) \union {Head(Ids(queue, n))}
    BY <1>6, <1>11, <2>1, <2>2, <2>3
  <2>5. SameTaken(Others(n)) /\ \A m \in Others(n) : Ids(queue', m) = Ids(queue, m)
    BY <1>6, <1>9, <2>1 DEF SameTaken, Others
  <2>6. Intact => TakenIds(n) = {}
    <3>1. ASSUME Intact
          PROVE  \A v \in Workers : hand[v] = << >>
      <4>1. spent.overlaps = 0
        BY <3>1 DEF Intact, Undisturbed, NothingSpent
      <4>2. QED
        BY <1>3, <1>5, <4>1, OthersEmpty
    <3>2. QED
      BY <3>1 DEF TakenIds
  <2>7. Store!StoreNext
    BY <1>8, <2>2, <2>3, <2>4, <2>5, <2>6, IsTake
  <2>8. QED
    BY <2>7 DEF StoreStep
<1>12. QED
  BY <1>10, <1>11

\* What a worker holds was accepted.
LEMMA HeldLog ==
  ASSUME TypeInv, KnownInv, OrderInv, IdInv, NEW w \in Workers, pc[w] = "write"
  PROVE  /\ hand[w] # << >> /\ hand[w][1] \in Log /\ hand[w][1].name \in Names
         /\ hand[w][1].id \in 1 .. MaxWrites /\ hand[w][1].id # HeaderId
<1>1. /\ hand[w] \in Seq(Log) /\ Len(hand[w]) = 1 /\ accepted \in Seq(Log)
      /\ nextId \in 1 .. MaxWrites + 1
  BY DEF TypeInv, TypeOK
<1>2. hand[w] # << >> /\ hand[w][1] \in Log /\ 1 \in DOMAIN hand[w]
  BY <1>1
<1>3. PICK i \in DOMAIN accepted : accepted[i] = hand[w][1]
  BY <1>2 DEF KnownInv, Known
<1>4. hand[w][1].id < nextId /\ hand[w][1].id # HeaderId
  BY <1>3 DEF OrderInv, IdInv
<1>5. hand[w][1].id \in Nat /\ hand[w][1].name \in Names
  BY <1>2 DEF Log
<1>6. MaxWrites \in Nat
  BY CsvLogAssumption
<1>7. hand[w][1].id \in 1 .. MaxWrites
  BY <1>1, <1>4, <1>5, <1>6 DEF HeaderId
<1>8. QED
  BY <1>2, <1>4, <1>5, <1>7

LEMMA CurrentFiles ==
  ASSUME TypeInv, NEW a \in LogInfo, Unopened(a) => a.buf = << >>, NEW w \in Workers, pc[w] = "write"
  PROVE  LET c == Current(w, a) IN
         \/ SameFiles(c, a)
         \/ RolledFiles(c, a) /\ Accepts(c)
<1>1. clock \in Nat
  BY CsvLogAssumption DEF TypeInv, TypeOK
<1>2. CASE ~NeedsReload(w, a)
  BY <1>2 DEF Current, SameFiles
<1>3. CASE NeedsReload(w, a) /\ a.writer = "null"
  <2>1. Current(w, a) = Opened(a, clock) /\ a.buf = << >>
    BY <1>3 DEF Current, Reloaded, Unopened
  <2>2. QED
    BY <1>1, <2>1, FilesKept
<1>4. CASE NeedsReload(w, a) /\ a.writer # "null"
  <2> DEFINE b == Closed(a, clock)
  <2>1. b \in LogInfo /\ b.buf = << >> /\ b.end = "whole"
    BY <1>1, ClosedType DEF Closed, LogInfo
  <2>2. RolledFiles(b, a)
    BY <1>1, FilesRolled
  <2>3. Current(w, a) = Opened(b, clock)
    BY <1>4 DEF Current, Reloaded
  <2> HIDE DEF b
  <2>4. SameFiles(Opened(b, clock), b)
    BY <1>1, <2>1, FilesKept
  <2>5. Accepts(Opened(b, clock))
    <3>1. Opened(b, clock).writer = "open" /\ Opened(b, clock).end = "whole"
      BY <2>1 DEF Opened, Cut, LogInfo
    <3>2. QED
      BY <3>1 DEF Accepts
  <2>6. QED
    BY <2>2, <2>3, <2>4, <2>5 DEF SameFiles, RolledFiles
<1>5. QED
  BY <1>2, <1>3, <1>4

LEMMA LoggedFiles ==
  ASSUME TypeInv, NEW w \in Workers, pc[w] = "write", NEW log, hand[w][1] = log, log \in Log,
         log.id # HeaderId, NEW c \in LogInfo
  PROVE  LET b == Logged(w, c) IN
         /\ log.roll \/ ~Accepts(c) => SameFiles(b, c)
         /\ ~log.roll /\ Accepts(c) =>
              OpenIds(b) = Append(OpenIds(c), log.id) /\ ClosedIds(b) = ClosedIds(c)
<1> DEFINE line == [id |-> log.id, at |-> stamp[w]]
           d == Written(c, line)
<1>1. clock \in Nat
  BY CsvLogAssumption DEF TypeInv, TypeOK
<1>2. line \in Line /\ line.id = log.id
  <2>1. stamp[w] \in Nat
    BY CsvLogAssumption DEF TypeInv, TypeOK
  <2>2. QED
    BY <2>1 DEF Log, Line
<1>3. Logged(w, c) = IF log.roll THEN (IF log.flush THEN Flushed(c) ELSE c)
                                 ELSE (IF log.flush THEN Flushed(d) ELSE d)
  BY DEF Logged
<1> HIDE DEF line
<1>4. d \in LogInfo
  BY <1>2, WrittenType
<1>5. Accepts(c) => OpenIds(d) = Append(OpenIds(c), log.id) /\ ClosedIds(d) = ClosedIds(c)
  BY <1>2, FilesWritten
<1>6. ~Accepts(c) => SameFiles(d, c)
  BY <1>2, FilesWritten
<1>7. SameFiles(Flushed(c), c)
  BY <1>1, FilesKept
<1> HIDE DEF d
<1>8. SameFiles(Flushed(d), d)
  BY <1>1, <1>4, FilesKept
<1>9. QED
  BY <1>3, <1>5, <1>6, <1>7, <1>8 DEF SameFiles

LEMMA WriteStores ==
  ASSUME TypeInv, StopInv, QuietInv, KnownInv, OrderInv, IdInv, HandInv, HeldInv, NEW w \in Workers, Write(w)
  PROVE  StoreStep
<1>1. infos \in [Names -> LogInfo] /\ hand \in [Workers -> Seq(Log)]
  BY DEF TypeInv, TypeOK
<1>2. PICK log : log = hand[w][1]
  OBVIOUS
<1>3. /\ pc[w] = "write" /\ hand' = [hand EXCEPT ![w] = << >>] /\ queue' = queue
      /\ accepted' = accepted /\ spent' = spent /\ cause' = cause
  BY DEF Write, histVars
<1>4. /\ hand[w] # << >> /\ log \in Log /\ log.name \in Names /\ log.id \in 1 .. MaxWrites
      /\ log.id # HeaderId
  BY <1>2, <1>3, HeldLog
<1>5. PICK n : n = log.name
  OBVIOUS
<1> DEFINE a == infos[n]
           c == Current(w, a)
           b == Logged(w, c)
<1>6. n \in Names /\ a \in LogInfo /\ (Unopened(a) => a.buf = << >>)
  BY <1>1, <1>4, <1>5 DEF HandInv
<1>7. infos' = [infos EXCEPT ![n] = b] /\ Writable(w, a)
  BY <1>1, <1>2, <1>5, <1>6 DEF Write
<1>8. infos'[n] = b /\ SameStored(Others(n))
  BY <1>1, <1>6, <1>7 DEF SameStored, Others, SameFiles
<1>9. /\ \A m \in Names : m # n \/ log.roll => TakenIds(m)' = TakenIds(m)
      /\ ~log.roll => log.id \in TakenIds(n) /\ TakenIds(n)' = TakenIds(n) \ {log.id}
  BY <1>2, <1>3, <1>4, <1>5, TakenGone
<1>10. SameAccepted /\ SameWaiting /\ SameTaken(Others(n)) /\ (log.roll => SameTaken(Names))
  BY <1>3, <1>9 DEF SameAccepted, SameWaiting, SameTaken, Others
<1>11. SameFailures /\ SameOk
  BY <1>3, SpentSame
<1>12. c \in LogInfo
  BY <1>3, <1>6, LoggedState
<1>13. \/ SameFiles(c, a)
       \/ RolledFiles(c, a) /\ Accepts(c)
  BY <1>3, <1>6, CurrentFiles
<1>14. ASSUME ~log.roll, ~Accepts(c)
       PROVE  ~Intact'
  <2>1. ~Undisturbed
    BY <1>2, <1>3, <1>6, <1>7, <1>14, WriterOpen
  <2>2. QED
    BY <1>3, <2>1 DEF Intact, Undisturbed
<1>15. /\ log.roll \/ ~Accepts(c) => SameFiles(b, c)
       /\ ~log.roll /\ Accepts(c) =>
            OpenIds(b) = Append(OpenIds(c), log.id) /\ ClosedIds(b) = ClosedIds(c)
  <2> HIDE DEF c
  <2>1. QED
    BY <1>2, <1>3, <1>4, <1>12, LoggedFiles
<1> HIDE DEF a, b, c
<1>16. CASE log.roll /\ SameFiles(c, a)
  <2>1. SameFiles(infos'[n], infos[n])
    BY <1>8, <1>15, <1>16 DEF SameFiles, a
  <2>2. SameStored(Names)
    BY <1>8, <2>1 DEF SameStored, Others
  <2>3. UNCHANGED Store!storeVars
    BY <1>10, <1>11, <1>16, <2>2, IsStutter
  <2>4. QED
    BY <2>3 DEF StoreStep
<1>17. CASE log.roll /\ RolledFiles(c, a)
  <2>1. RolledFiles(infos'[n], infos[n])
    BY <1>8, <1>15, <1>17 DEF SameFiles, RolledFiles, a
  <2>2. Store!StoreNext
    BY <1>6, <1>8, <1>10, <1>11, <1>17, <2>1, IsRoll
  <2>3. QED
    BY <2>2 DEF StoreStep
<1>18. CASE ~log.roll /\ ~Accepts(c)
  <2>1. SameFiles(infos'[n], infos[n])
    BY <1>8, <1>13, <1>15, <1>18 DEF SameFiles, a
  <2>2. SameStored(Names)
    BY <1>8, <2>1 DEF SameStored, Others
  <2>3. Released(n) /\ ~Intact'
    BY <1>9, <1>14, <1>18 DEF Released
  <2>4. Store!StoreNext
    BY <1>6, <1>10, <1>11, <2>2, <2>3, IsDrop
  <2>5. QED
    BY <2>4 DEF StoreStep
<1>19. CASE ~log.roll /\ Accepts(c)
  <2>1. OpenIds(b) = Append(OpenIds(c), log.id) /\ ClosedIds(b) = ClosedIds(c)
    BY <1>15, <1>19
  <2>2. log.id \in TakenIds(n) /\ TakenIds(n)' = TakenIds(n) \ {log.id}
    BY <1>9, <1>19
  <2>3. \/ /\ OpenIds(infos'[n]) = Append(OpenIds(infos[n]), log.id)
           /\ ClosedIds(infos'[n]) = ClosedIds(infos[n])
        \/ /\ OpenIds(infos'[n]) = << log.id >>
           /\ ClosedIds(infos'[n]) = Append(ClosedIds(infos[n]), OpenIds(infos[n]))
    <3>1. Append(<< >>, log.id) = << log.id >>
      OBVIOUS
    <3>2. QED
      BY <1>8, <1>13, <2>1, <3>1 DEF SameFiles, RolledFiles, a
  <2>4. Store!StoreNext
    BY <1>4, <1>6, <1>8, <1>10, <1>11, <2>2, <2>3, IsStore
  <2>5. QED
    BY <2>4 DEF StoreStep
<1>20. QED
  BY <1>13, <1>16, <1>17, <1>18, <1>19

\* A failure counts, and is never forgotten.
LEMMA NotIntact ==
  ASSUME spent'.faults + spent'.kills + spent'.dups + spent'.races # 0
  PROVE  ~Intact'
<1>1. Undisturbed' => spent'.faults + spent'.kills + spent'.dups + spent'.races = 0
  BY QuietSpent
<1>2. QED
  BY <1>1 DEF Intact

LEMMA OneFailure ==
  ASSUME TypeInv,
         \/ spent' = [spent EXCEPT !.faults = @ + 1]
         \/ spent' = [spent EXCEPT !.kills = @ + 1]
         \/ spent' = [spent EXCEPT !.dups = @ + 1]
  PROVE  OneMore /\ ~Intact'
<1>1. spent \in Budget /\ spent.faults \in Nat /\ spent.kills \in Nat /\ spent.dups \in Nat
      /\ spent.races \in Nat
  BY CsvLogAssumption DEF TypeInv, TypeOK, Budget
<1>2. /\ spent'.races = spent.races
      /\ \/ /\ spent'.faults = spent.faults + 1 /\ spent'.kills = spent.kills
            /\ spent'.dups = spent.dups
         \/ /\ spent'.kills = spent.kills + 1 /\ spent'.faults = spent.faults
            /\ spent'.dups = spent.dups
         \/ /\ spent'.dups = spent.dups + 1 /\ spent'.faults = spent.faults
            /\ spent'.kills = spent.kills
  BY <1>1 DEF Budget
<1>3. OneMore /\ Failures \in Nat
  BY <1>1, <1>2 DEF OneMore, Failures
<1>4. QED
  BY <1>3, NotIntact DEF OneMore

LEMMA FailedFiles ==
  ASSUME NEW a \in LogInfo, NEW t \in Nat, NEW b \in FailedReloads(a, t)
  PROVE  RolledFiles(b, a) \/ CutFiles(b, a)
<1>1. CutFiles(NotRenamed(a), a) /\ CutFiles(NotOpened(a, t), a) /\ CutFiles(Broken(a), a)
  BY FilesKept, FilesCut
<1>2. RolledFiles(NotOpened(Closed(a, t), t), a)
  <2> DEFINE c == Closed(a, t)
  <2>1. c \in LogInfo /\ RolledFiles(c, a)
    BY ClosedType, FilesRolled
  <2> HIDE DEF c
  <2>2. SameFiles(NotOpened(c, t), c)
    BY <2>1, FilesKept
  <2>3. RolledFiles(NotOpened(c, t), a)
    BY <2>1, <2>2 DEF SameFiles, RolledFiles
  <2>4. QED
    BY <2>3 DEF c
<1>3. QED
  BY <1>1, <1>2 DEF FailedReloads

LEMMA WriteFailsStores ==
  ASSUME TypeInv, KnownInv, OrderInv, IdInv, HeldInv, NEW w \in Workers, WriteFails(w)
  PROVE  StoreStep
<1>1. /\ infos \in [Names -> LogInfo] /\ hand \in [Workers -> Seq(Log)]
      /\ cause \in [Workers -> {"none", "stopped", "interrupted", "failed"}]
  BY DEF TypeInv, TypeOK
<1>2. clock \in Nat
  BY CsvLogAssumption DEF TypeInv, TypeOK
<1>3. PICK log : log = hand[w][1]
  OBVIOUS
<1>4. /\ pc[w] = "write" /\ hand' = [hand EXCEPT ![w] = << >>] /\ queue' = queue
      /\ accepted' = accepted /\ cause'[w] = "failed"
  BY <1>1 DEF WriteFails, Leave, histVars
<1>5. hand[w] # << >> /\ log.name \in Names
  BY <1>3, <1>4, HeldLog
<1>6. PICK n : n = log.name
  OBVIOUS
<1>7. n \in Names /\ infos[n] \in LogInfo
  BY <1>1, <1>5, <1>6
<1>8. /\ \A m \in Names : m # n \/ log.roll => TakenIds(m)' = TakenIds(m)
      /\ ~log.roll => log.id \in TakenIds(n) /\ TakenIds(n)' = TakenIds(n) \ {log.id}
  BY <1>3, <1>4, <1>5, <1>6, TakenGone
<1>9. Released(n) /\ SameTaken(Others(n)) /\ SameAccepted /\ SameWaiting /\ ~Intact'
  <2>1. Released(n) /\ SameTaken(Others(n))
    BY <1>7, <1>8 DEF Released, SameTaken, Others
  <2>2. SameAccepted /\ SameWaiting /\ ~Intact'
    BY <1>4 DEF SameAccepted, SameWaiting, Intact
  <2>3. QED
    BY <2>1, <2>2
<1>10. \/ /\ infos' = [infos EXCEPT ![n] = infos[n]] \/ infos' = [infos EXCEPT ![n] = NotRenamed(infos[n])]
          /\ spent' = spent
       \/ /\ \E b \in FailedReloads(infos[n], clock) : infos' = [infos EXCEPT ![n] = b]
          /\ spent' = [spent EXCEPT !.faults = @ + 1]
  BY <1>3, <1>6 DEF WriteFails
<1>11. CASE /\ infos' = [infos EXCEPT ![n] = infos[n]] \/ infos' = [infos EXCEPT ![n] = NotRenamed(infos[n])]
            /\ spent' = spent
  <2>1. SameFiles(infos[n], infos[n]) /\ SameFiles(NotRenamed(infos[n]), infos[n])
    BY <1>2, <1>7, FilesKept DEF SameFiles
  <2>2. SameStored(Names)
    BY <1>1, <1>7, <1>11, <2>1 DEF SameStored, SameFiles
  <2>3. SameFailures
    BY <1>11 DEF SameFailures, Failures
  <2>4. Store!StoreNext
    BY <1>7, <1>9, <2>2, <2>3, IsDrop
  <2>5. QED
    BY <2>4 DEF StoreStep
<1>12. ASSUME NEW b \in FailedReloads(infos[n], clock), infos' = [infos EXCEPT ![n] = b],
              spent' = [spent EXCEPT !.faults = @ + 1]
       PROVE  StoreStep
  <2>1. infos'[n] = b /\ SameStored(Others(n))
    BY <1>1, <1>7, <1>12 DEF SameStored, Others, SameFiles
  <2>2. RolledFiles(infos'[n], infos[n]) \/ CutFiles(infos'[n], infos[n])
    BY <1>2, <1>7, <2>1, FailedFiles
  <2>3. Store!StoreNext
    BY <1>7, <1>9, <1>12, <2>1, <2>2, OneFailure, IsFail
  <2>4. QED
    BY <2>3 DEF StoreStep
<1>13. QED
  BY <1>10, <1>11, <1>12

\* A failure that changes the files of one log and nothing else.
LEMMA FileFails ==
  ASSUME TypeInv, accepted' = accepted, queue' = queue, hand' = hand,
         \/ spent' = [spent EXCEPT !.faults = @ + 1]
         \/ spent' = [spent EXCEPT !.dups = @ + 1],
         NEW n \in Names, NEW b, infos' = [infos EXCEPT ![n] = b], CutFiles(b, infos[n])
  PROVE  StoreStep
<1>1. infos \in [Names -> LogInfo]
  BY DEF TypeInv, TypeOK
<1>2. CutFiles(infos'[n], infos[n]) /\ SameStored(Others(n))
  BY <1>1 DEF SameStored, Others, SameFiles
<1>3. SameAccepted /\ SameWaiting
  BY DEF SameAccepted, SameWaiting
<1>4. Store!StoreNext
  BY <1>2, <1>3, HandSame, OneFailure, IsFail
<1>5. QED
  BY <1>4 DEF StoreStep

LEMMA CloseStores ==
  ASSUME TypeInv, NEW w \in Workers, NEW n \in Names, CloseOne(w, n)
  PROVE  StoreStep
<1>1. infos \in [Names -> LogInfo] /\ infos[n] \in LogInfo
  BY DEF TypeInv, TypeOK
<1>2. clock \in Nat
  BY CsvLogAssumption DEF TypeInv, TypeOK
<1>3. accepted' = accepted /\ queue' = queue /\ hand' = hand /\ cause' = cause
  BY DEF CloseOne, histVars
<1>4. \/ infos' = [infos EXCEPT ![n] = Closed(infos[n], clock)] /\ spent' = spent
      \/ infos' = [infos EXCEPT ![n] = NotRenamed(infos[n])] /\ spent' = spent
      \/ \E b \in {Broken(infos[n]), NotRenamed(infos[n])} :
           infos' = [infos EXCEPT ![n] = b] /\ spent' = [spent EXCEPT !.faults = @ + 1]
  BY DEF CloseOne
<1>5. CASE infos' = [infos EXCEPT ![n] = Closed(infos[n], clock)] /\ spent' = spent
  <2>1. RolledFiles(infos'[n], infos[n]) /\ SameStored(Others(n))
    BY <1>1, <1>2, <1>5, FilesRolled DEF SameStored, Others, SameFiles
  <2>2. SameAccepted /\ SameWaiting
    BY <1>3 DEF SameAccepted, SameWaiting
  <2>3. Store!StoreNext
    BY <1>3, <1>5, <2>1, <2>2, HandSame, SpentSame, IsRoll
  <2>4. QED
    BY <2>3 DEF StoreStep
<1>6. CASE infos' = [infos EXCEPT ![n] = NotRenamed(infos[n])] /\ spent' = spent
  <2>1. SameFiles(NotRenamed(infos[n]), infos[n])
    BY <1>1, <1>2, FilesKept
  <2>2. SameStored(Names)
    BY <1>1, <1>6, <2>1 DEF SameStored, SameFiles
  <2>3. QED
    BY <1>3, <1>6, <2>2, InvisibleStep
<1>7. ASSUME NEW b \in {Broken(infos[n]), NotRenamed(infos[n])},
             infos' = [infos EXCEPT ![n] = b], spent' = [spent EXCEPT !.faults = @ + 1]
      PROVE  StoreStep
  <2>1. CutFiles(b, infos[n])
    BY <1>1, <1>2, FilesKept, FilesCut
  <2>2. QED
    BY <1>3, <1>7, <2>1, FileFails
<1>8. QED
  BY <1>4, <1>5, <1>6, <1>7

LEMMA AddStores ==
  ASSUME TypeInv, HandInv, NEW n \in Names, Add(n) \/ AddDuplicate(n) \/ Spill(n)
  PROVE  StoreStep
<1>1. infos \in [Names -> LogInfo] /\ infos[n] \in LogInfo
  BY DEF TypeInv, TypeOK
<1>2. clock \in Nat
  BY CsvLogAssumption DEF TypeInv, TypeOK
<1>3. accepted' = accepted /\ queue' = queue /\ hand' = hand /\ cause' = cause
  BY DEF Add, AddDuplicate, Spill, workVars, histVars
<1>4. CASE Add(n)
  <2>1. infos' = [infos EXCEPT ![n] = [infos[n] EXCEPT !.state = "linked"]] /\ spent' = spent
    BY <1>1, <1>4 DEF Add
  <2>2. SameFiles([infos[n] EXCEPT !.state = "linked"], infos[n])
    BY <1>1, <1>2, FilesKept
  <2>3. SameStored(Names)
    BY <1>1, <2>1, <2>2 DEF SameStored, SameFiles
  <2>4. QED
    BY <1>3, <2>1, <2>3, InvisibleStep
<1>5. CASE AddDuplicate(n)
  <2>1. PICK b : b = [Forgotten(infos[n]) EXCEPT !.state = "raw"]
    OBVIOUS
  <2>2. infos' = [infos EXCEPT ![n] = b]
    BY <1>5, <2>1 DEF AddDuplicate
  <2>3. CutFiles(b, infos[n])
    BY <1>1, <1>2, <2>1, FilesCut
  <2>4. spent' = [spent EXCEPT !.dups = @ + 1]
    BY <1>5 DEF AddDuplicate
  <2>5. QED
    BY <1>3, <2>2, <2>3, <2>4, FileFails
<1>6. CASE Spill(n)
  <2>1. /\ infos[n].buf # << >> \/ infos[n].end = "glued"
        /\ \/ infos' = [infos EXCEPT ![n] = Spilled(infos[n])]
           \/ infos' = [infos EXCEPT ![n] = SpilledHalf(infos[n])]
        /\ spent' = spent
    BY <1>6 DEF Spill
  <2>2. SameFiles(Spilled(infos[n]), infos[n]) /\ SameFiles(SpilledHalf(infos[n]), infos[n])
    BY <1>1, <1>2, <2>1, FilesKept
  <2>3. SameStored(Names)
    BY <1>1, <2>1, <2>2 DEF SameStored, SameFiles
  <2>4. QED
    BY <1>3, <2>1, <2>3, InvisibleStep
<1>7. QED
  BY <1>4, <1>5, <1>6

(***************************************************************************)
(* A later step of add() opens the log where nobody did, which LogStore    *)
(* does not see, or counts: a file operation failed, or it met a worker.   *)
(***************************************************************************)
LEMMA AddGoesStores ==
  ASSUME TypeInv, HandInv, NEW n \in Names, AddGoesOn(n)
  PROVE  StoreStep
<1> DEFINE a == infos[n]
<1>1. /\ infos \in [Names -> LogInfo] /\ a \in LogInfo /\ spent \in Budget
      /\ clock \in Nat /\ addFrom \in Nat
  BY CsvLogAssumption DEF TypeInv, TypeOK
<1>2. /\ accepted' = accepted /\ queue' = queue /\ hand' = hand /\ cause' = cause
      /\ \A m \in Names : m # n => infos'[m] = infos[m]
      /\ \E b \in AddForms(a) : Alike(infos'[n], b)
  BY <1>1, AddGoing DEF workVars, histVars
<1>3. /\ spent' \in Budget /\ spent'.kills = spent.kills /\ spent'.dups = spent.dups
      /\ spent'.restarts = spent.restarts /\ spent'.overlaps = spent.overlaps
      /\ spent'.faults \in {spent.faults, spent.faults + 1}
      /\ spent'.races \in {spent.races, spent.races + 1}
      /\ spent'.faults = spent.faults \/ spent'.races = spent.races
  BY <1>1, AddGoingSpent
<1>4. /\ spent.faults \in Nat /\ spent.kills \in Nat /\ spent.dups \in Nat /\ spent.races \in Nat
  BY <1>1, CsvLogAssumption DEF Budget
<1>5. SameStored(Others(n)) /\ SameAccepted /\ SameWaiting
  BY <1>2 DEF SameStored, SameFiles, SameAccepted, SameWaiting, Others
<1> HIDE DEF a
<1>6. CASE spent'.faults = spent.faults /\ spent'.races = spent.races
  <2>1. spent' = spent
    BY <1>1, <1>3, <1>6 DEF Budget
  <2>2. spent'.faults <= spent.faults /\ spent'.races <= spent.races
    BY <1>4, <1>6
  <2>3. \/ Alike(infos'[n], a)
        \/ a.writer = "null" /\ Alike(infos'[n], Opened(a, addFrom))
    BY <2>2, AddUncounted DEF a
  <2>4. ASSUME a.writer = "null"
        PROVE  SameFiles(Opened(a, addFrom), a)
    <3>1. a.buf = << >>
      BY <2>4 DEF HandInv, Unopened, a
    <3>2. QED
      BY <1>1, <3>1, FilesKept
  <2>5. SameFiles(infos'[n], a)
    BY <2>3, <2>4, FilesAlike DEF SameFiles
  <2>6. SameStored(Names)
    BY <1>5, <2>5 DEF SameStored, Others, a
  <2>7. QED
    BY <1>2, <2>1, <2>6, InvisibleStep
<1>7. CASE ~(spent'.faults = spent.faults /\ spent'.races = spent.races)
  <2>1. \/ spent'.faults = spent.faults + 1 /\ spent'.races = spent.races
        \/ spent'.faults = spent.faults /\ spent'.races = spent.races + 1
    BY <1>3, <1>7
  <2>2. OneMore /\ Failures \in Nat
    BY <1>3, <1>4, <2>1 DEF OneMore, Failures
  <2>3. ~Intact'
    BY <2>2, NotIntact DEF OneMore
  <2>4. PICK b \in AddForms(a) : Alike(infos'[n], b)
    BY <1>2
  <2>5. RolledFiles(b, a) \/ CutFiles(b, a)
    <3>1. RolledFiles(Closed(a, clock), a)
      BY <1>1, FilesRolled
    <3>2. CutFiles(a, a) /\ CutFiles(NotRenamed(a), a)
      BY <1>1, FilesKept, FilesCut DEF SameFiles
    <3>3. CutFiles(Broken(a), a) /\ CutFiles(Opened(a, addFrom), a)
      BY <1>1, FilesCut
    <3>4. QED
      BY <2>4, <3>1, <3>2, <3>3 DEF AddForms
  <2>6. RolledFiles(infos'[n], a) \/ CutFiles(infos'[n], a)
    BY <2>4, <2>5, FilesAlike DEF SameFiles, RolledFiles, CutFiles
  <2>7. Store!StoreNext
    BY <1>2, <1>5, <2>2, <2>3, <2>6, HandSame, IsFail DEF a
  <2>8. QED
    BY <2>7 DEF StoreStep
<1>8. QED
  BY <1>6, <1>7

LEMMA KillStores ==
  ASSUME TypeInv, Kill
  PROVE  StoreStep
<1>1. /\ queue' = << >> /\ accepted' = accepted /\ \A w \in Workers : hand'[w] = << >>
      /\ infos' = [m \in Names |-> Forgotten(infos[m])] /\ spent' = [spent EXCEPT !.kills = @ + 1]
  BY DEF Kill
<1>2. clock \in Nat /\ \A m \in Names : infos[m] \in LogInfo
  BY CsvLogAssumption DEF TypeInv, TypeOK
<1>3. \A m \in Names : Ids(queue', m) = << >> /\ TakenIds(m)' = {}
  <2>1. \A m \in Names : Ids(queue', m) = << >>
    BY <1>1, IdsSmall
  <2>2. \A m \in Names : TakenIds(m)' = {}
    BY <1>1 DEF TakenIds
  <2>3. QED
    BY <2>1, <2>2
<1>4. \A m \in Names : CutFiles(infos'[m], infos[m])
  BY <1>1, <1>2, FilesCut
<1>5. SameAccepted
  BY <1>1 DEF SameAccepted
<1>6. Store!StoreNext
  BY <1>1, <1>3, <1>4, <1>5, OneFailure, IsCrash
<1>7. QED
  BY <1>6 DEF StoreStep

\* A second startup() loses nothing by itself.
LEMMA StartupStores ==
  ASSUME TypeInv, Startup
  PROVE  StoreStep
<1>1. /\ infos' = infos /\ accepted' = accepted /\ queue' = queue /\ hand' = hand
      /\ cause' = cause
  BY DEF Startup, histVars
<1>2. SameStored(Names)
  BY <1>1 DEF SameStored, SameFiles
<1>3. CASE thread = 0
  <2>1. spent' = spent
    BY <1>3 DEF Startup
  <2>2. QED
    BY <1>1, <1>2, <2>1, InvisibleStep
<1>4. CASE thread # 0
  <2>1. PICK o : spent' = [spent EXCEPT !.restarts = @ + 1, !.overlaps = o]
    BY <1>4 DEF Startup
  <2>2. spent \in Budget /\ spent.restarts \in Nat
    BY CsvLogAssumption DEF TypeInv, TypeOK, Budget
  <2>3. spent'.restarts = spent.restarts + 1 /\ spent'.faults = spent.faults
        /\ spent'.kills = spent.kills /\ spent'.dups = spent.dups /\ spent'.races = spent.races
    BY <2>1, <2>2 DEF Budget
  <2>4. ~Intact'
    <3>1. spent'.restarts # 0
      BY <2>2, <2>3
    <3>2. QED
      BY <3>1, QuietSpent DEF Intact
  <2>5. PICK n \in Names : TRUE
    BY DEF Startup, Registered
  <2>6. SameFailures /\ SameAccepted /\ SameWaiting
    BY <1>1, <2>3 DEF SameFailures, Failures, SameAccepted, SameWaiting
  <2>7. Store!StoreNext
    BY <1>1, <1>2, <2>4, <2>6, HandSame, IsDrop
  <2>8. QED
    BY <2>7 DEF StoreStep
<1>5. QED
  BY <1>3, <1>4

\* The steps that none of the mapped variables sees.
LEMMA OtherStores ==
  ASSUME TypeInv, HandInv,
         \/ Tick \/ UNCHANGED vars \/ Interrupt \/ Stop \/ JoinReturns
         \/ \E p \in Producers :
              \/ Begin(p) \/ Commit(p) \/ Rollback(p) \/ OfferFails(p)
              \/ \E n \in Names, roll \in BOOLEAN : WriteLog(p, n, roll)
         \/ \E w \in Workers : CheckStop(w) \/ TakeInterrupted(w) \/ ReadClock(w)
  PROVE  StoreStep
<1> DEFINE Unseen == /\ infos' = infos /\ accepted' = accepted /\ queue' = queue /\ hand' = hand
                     /\ spent' = spent
                     /\ \A v \in Workers : cause'[v] = "failed" <=> cause[v] = "failed"
<1>1. ASSUME Unseen
      PROVE  StoreStep
  <2>1. SameStored(Names)
    BY <1>1 DEF SameStored, SameFiles
  <2>2. QED
    BY <1>1, <2>1, InvisibleStep
<1>2. Tick \/ UNCHANGED vars \/ Interrupt \/ Stop \/ JoinReturns => Unseen
  BY DEF Tick, vars, Interrupt, Stop, JoinReturns, workVars, histVars
<1>3. ASSUME NEW p \in Producers,
             \/ Begin(p) \/ Commit(p) \/ Rollback(p) \/ OfferFails(p)
             \/ \E n \in Names, roll \in BOOLEAN : WriteLog(p, n, roll)
      PROVE  Unseen
  BY <1>3 DEF Begin, Commit, Rollback, OfferFails, WriteLog, workVars, histVars
<1>4. ASSUME NEW w \in Workers, CheckStop(w) \/ TakeInterrupted(w) \/ ReadClock(w)
      PROVE  Unseen
  <2>1. infos' = infos /\ accepted' = accepted /\ queue' = queue /\ hand' = hand /\ spent' = spent
    BY <1>4 DEF CheckStop, TakeInterrupted, ReadClock, histVars
  <2>2. cause \in [Workers -> {"none", "stopped", "interrupted", "failed"}]
    BY DEF TypeInv, TypeOK
  <2>3. pc[w] \in {"check", "take", "taken"}
    BY <1>4 DEF CheckStop, TakeInterrupted, ReadClock
  <2>4. cause[w] = "none"
    BY <2>3 DEF HandInv
  <2>5. cause' = cause \/ \E why \in {"stopped", "interrupted"} : cause' = [cause EXCEPT ![w] = why]
    BY <1>4 DEF CheckStop, TakeInterrupted, ReadClock, Leave
  <2>6. \A v \in Workers : cause'[v] = "failed" <=> cause[v] = "failed"
    BY <2>2, <2>4, <2>5
  <2>7. QED
    BY <2>1, <2>6
<1> HIDE DEF Unseen
<1>5. QED
  BY <1>1, <1>2, <1>3, <1>4

LEMMA StepStores ==
  ASSUME TypeInv, StopInv, QuietInv, KnownInv, OrderInv, IdInv, HandInv, FreshInv, HeldInv,
         [Next]_vars
  PROVE  StoreStep
<1>1. CASE Tick \/ UNCHANGED vars
  BY <1>1, OtherStores
<1>2. CASE Kill
  BY <1>2, KillStores
<1>3. CASE Manager
  BY <1>3, StartupStores, AddStores, AddGoesStores, OtherStores DEF Manager, AddGoesOn
<1>4. CASE \E n \in Names : Spill(n)
  BY <1>4, AddStores
<1>5. ASSUME NEW p \in Producers, Producer(p)
      PROVE  StoreStep
  BY <1>5, OfferStores, OtherStores DEF Producer
<1>6. ASSUME NEW w \in Workers, Worker(w)
      PROVE  StoreStep
  BY <1>6, TakeStores, WriteStores, WriteFailsStores, CloseStores, OtherStores DEF Worker
<1>7. QED
  BY <1>1, <1>2, <1>3, <1>4, <1>5, <1>6 DEF Next

LEMMA InitStores == Init => Store!StoreInit /\ FreshInv /\ HeldInv
<1> SUFFICES ASSUME Init
             PROVE  Store!StoreInit /\ FreshInv /\ HeldInv
  OBVIOUS
<1>1. /\ accepted = << >> /\ queue = << >> /\ \A w \in Workers : hand[w] = << >>
      /\ \A p \in Producers : list[p] = << >> /\ out[p] = << >>
      /\ \A n \in Names : infos[n] = NewLogInfo
      /\ \A w \in Workers : cause[w] # "failed"
      /\ spent = NothingSpent
  BY DEF Init
<1>2. FreshInv /\ HeldInv
  BY <1>1 DEF FreshInv, HeldInv, Apart
<1>3. OpenIds(NewLogInfo) = << >> /\ ClosedIds(NewLogInfo) = << >>
  <2>1. NewLogInfo.csv = << >> /\ NewLogInfo.log = << >> /\ NewLogInfo.buf = << >>
    BY DEF NewLogInfo
  <2>2. << >> \o << >> = << >>
    OBVIOUS
  <2>3. OpenIds(NewLogInfo) = << >>
    BY <2>1, <2>2, LineIdsSmall DEF OpenIds
  <2>4. ClosedIds(NewLogInfo) = << >>
    BY <2>1 DEF ClosedIds
  <2>5. QED
    BY <2>3, <2>4
<1>4. \A n \in Names : TakenIds(n) = {}
  BY <1>1 DEF TakenIds
<1>5. \A n \in Names : Ids(accepted, n) = << >> /\ Ids(queue, n) = << >>
  BY <1>1, IdsSmall
<1>6. spent.faults + spent.kills + spent.dups + spent.races = 0
  BY <1>1 DEF NothingSpent
<1>7. Intact = TRUE
  BY <1>1 DEF Intact, Undisturbed
<1>8. Store!StoreInit
  BY <1>1, <1>3, <1>4, <1>5, <1>6, <1>7 DEF Store!StoreInit
<1>9. QED
  BY <1>2, <1>8

(***************************************************************************)
(* For every number of threads, names, logs, faults and kills, with the    *)
(* worker and the threads that log anywhere between the steps of add(),    *)
(* and a kill in the middle of a row: the service implements LogStore.  A  *)
(* closed file appears with all its lines at once and never changes, a     *)
(* line of an open file is lost only in a step that counts a failure, and  *)
(* as long as nothing failed every accepted log passes through the open    *)
(* file of its name exactly once.  (CsvLogger.offerLog, CsvLogThread.run,  *)
(* CsvLogMamager.add, CsvLogInfo.close)                                    *)
(***************************************************************************)
THEOREM ServiceStores == Spec => ImplementsLogStore
<1>1. Init => OrderInv /\ KnownInv /\ IdInv /\ StopInv /\ HandInv /\ AddInv /\ QuietInv
  <2>1. Init => KnownInv /\ IdInv
    BY DEF Init, KnownInv, IdInv, HeaderId
  <2>2. Init => OrderInv
    BY DEF Init, OrderInv, ProducerOrder, Behind, Ascending
  <2>3. QED
    BY <2>1, <2>2, StopInvInit, FlowInvInit, AddInvInit, QuietInvInit
<1>2. TypeInv /\ StopInv /\ QuietInv /\ KnownInv /\ OrderInv /\ IdInv /\ HandInv /\ FreshInv
      /\ HeldInv /\ [Next]_vars
        => [Store!StoreNext]_(Store!storeVars)
  BY StepStores DEF StoreStep
<1>3. QED
  BY <1>1, <1>2, InitStores, TypeInvCorrect, StopInvNext, KnownInvNext, OrderInvNext, IdInvNext,
     AddInvNext, QuietInvNext, HandInvNext, FreshInvNext, HeldInvNext, PTL
     DEF Spec, ImplementsLogStore, Store!StoreSpec

=============================================================================
