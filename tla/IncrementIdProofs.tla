-------------------------- MODULE IncrementIdProofs --------------------------
(***************************************************************************)
(* Proofs about the identifier generators, for every number of             *)
(* applications and every limit.                                           *)
(***************************************************************************)
EXTENDS IncrementId, TLAPS

-----------------------------------------------------------------------------
(***************************************************************************)
(* Multiplication is monotonic, and the blocks of two numbers follow one   *)
(* another.                                                                *)
(***************************************************************************)
LEMMA TimesMonotonic ==
  ASSUME NEW m \in Nat, NEW n \in Nat, NEW k \in Nat, m <= n
  PROVE  /\ m * k \in Nat /\ n * k \in Nat /\ m * k <= n * k
         /\ k * m \in Nat /\ k * n \in Nat /\ k * m <= k * n
  OBVIOUS

LEMMA NextBlock ==
  ASSUME NEW m \in Nat, NEW k \in Nat
  PROVE  (m + 1) * k \in Nat /\ (m + 1) * k = m * k + k
  OBVIOUS

-----------------------------------------------------------------------------
LEMMA TypeInit == Init => TypeOK
<1>1. /\ Limit \in Nat \ {0} /\ Start \in Nat /\ MaxSeq \in Nat /\ MaxSets \in Nat
      /\ MaxCrashes \in Nat
  BY IncrementIdAssumption
<1>2. QED
  BY <1>1 DEF Init, TypeOK

LEMMA ReturnType ==
  ASSUME TypeOK, NEW a \in Apps, Return(a)
  PROVE  /\ currentValue' \in [Apps -> Nat] /\ last' \in [Apps -> Nat]
         /\ issued' \subseteq Nat /\ repeated' \subseteq issued'
<1>1. currentValue[a] \in Nat
  BY DEF TypeOK
<1>2. currentValue' \in [Apps -> Nat] /\ last' \in [Apps -> Nat]
  BY <1>1 DEF TypeOK, Return
<1>3. issued' = issued \union {currentValue[a]} /\ repeated' \subseteq repeated \union {currentValue[a]}
  BY DEF Return
<1>4. QED
  BY <1>1, <1>2, <1>3 DEF TypeOK

LEMMA TypeNext ==
  ASSUME TypeOK, [Next]_vars
  PROVE  TypeOK'
<1> USE DEF TypeOK
<1>1. /\ Limit \in Nat \ {0} /\ Limits \subseteq Nat \ {0} /\ Start \in Nat /\ MaxSeq \in Nat
      /\ MaxSets \in Nat /\ MaxCrashes \in Nat /\ seq \in Nat
  BY IncrementIdAssumption
<1>2. \A a \in Apps : oracleSeq[a] \in Nat /\ limit[a] \in Nat
  BY <1>1
<1>3. ASSUME NEW a \in Apps, Cached(a)
      PROVE  TypeOK'
  BY <1>1, <1>3, ReturnType DEF Cached
<1>4. ASSUME NEW a \in Apps, Load(a)
      PROVE  TypeOK'
  <2>1. seq' = seq + 1 /\ seq' \in Start .. Start + MaxSeq
    BY <1>1, <1>4 DEF Load
  <2>2. oracleSeq' \in [Apps -> 0 .. seq']
    BY <1>1, <1>2, <1>4, <2>1 DEF Load
  <2>3. QED
    BY <1>4, <2>1, <2>2 DEF Load, history
<1>5. ASSUME NEW a \in Apps, LoadFails(a)
      PROVE  TypeOK'
  <2>1. seq' = seq + 1 /\ seq' \in Start .. Start + MaxSeq
    BY <1>1, <1>5 DEF LoadFails
  <2>2. oracleSeq' \in [Apps -> 0 .. seq']
    BY <1>1, <1>2, <1>5, <2>1 DEF LoadFails
  <2>3. spent' \in [sets : 0 .. MaxSets, crashes : 0 .. MaxCrashes]
    BY <1>1, <1>5 DEF LoadFails
  <2>4. QED
    BY <1>5, <2>1, <2>2, <2>3 DEF LoadFails, history
<1>6. ASSUME NEW a \in Apps, SetCurrent(a)
      PROVE  TypeOK'
  <2>1. oracleSeq[a] * limit[a] + 1 \in Nat
    BY <1>2, TimesMonotonic
  <2>2. currentValue' \in [Apps -> Nat]
    BY <1>6, <2>1 DEF SetCurrent
  <2>3. QED
    BY <1>6, <2>2 DEF SetCurrent, history
<1>7. ASSUME NEW a \in Apps, SetMax(a)
      PROVE  TypeOK'
  <2>1. (oracleSeq[a] + 1) * limit[a] \in Nat
    BY <1>2, NextBlock
  <2>2. maxValue' \in [Apps -> Nat]
    BY <1>7, <2>1 DEF SetMax
  <2>3. QED
    BY <1>1, <1>7, <2>2, ReturnType DEF SetMax
<1>8. ASSUME NEW a \in Apps, NEW n \in Limits, SetLimit(a, n)
      PROVE  TypeOK'
  <2>1. spent' \in [sets : 0 .. MaxSets, crashes : 0 .. MaxCrashes]
    BY <1>1, <1>8 DEF SetLimit
  <2>2. QED
    BY <1>1, <1>8, <2>1 DEF SetLimit, history
<1>9. ASSUME NEW a \in Apps, Crash(a)
      PROVE  TypeOK'
  <2>1. spent' \in [sets : 0 .. MaxSets, crashes : 0 .. MaxCrashes]
    BY <1>1, <1>9 DEF Crash
  <2>2. oracleSeq' \in [Apps -> 0 .. seq']
    BY <1>1, <1>9 DEF Crash
  <2>3. QED
    BY <1>1, <1>9, <2>1, <2>2 DEF Crash, history
<1>10. CASE UNCHANGED vars
  BY <1>10 DEF vars, history
<1>11. QED
  BY <1>3, <1>4, <1>5, <1>6, <1>7, <1>8, <1>9, <1>10 DEF Next, App

-----------------------------------------------------------------------------
(***************************************************************************)
(* Unique is not inductive: what an application may still return must not  *)
(* have been returned and must not be in another's reserve, and nobody is  *)
(* ahead of the block the sequence stands at.                              *)
(***************************************************************************)
Apart ==
  /\ repeated = {}
  /\ \A a \in Apps : limit[a] = Limit
  /\ \A id \in issued : id <= (seq + 1) * Limit
  /\ \A a \in Apps : \A id \in Reserve(a) : id <= (seq + 1) * Limit /\ id \notin issued
  /\ \A a, b \in Apps : a # b => Reserve(a) \intersect Reserve(b) = {}
  /\ \A a \in Apps : pc[a] = "half" => currentValue[a] = oracleSeq[a] * Limit + 1

UniqueInv == Untuned => Apart

LEMMA UniqueInit == Init => UniqueInv
<1> SUFFICES ASSUME Init
             PROVE  Apart
  BY DEF UniqueInv
<1>1. \A a \in Apps : Reserve(a) = {}
  BY DEF Init, Reserve
<1>2. QED
  BY <1>1 DEF Init, Apart

LEMMA UniqueNext ==
  ASSUME TypeOK, UniqueInv, [Next]_vars
  PROVE  UniqueInv'
<1>1. /\ Limit \in Nat /\ Limit >= 1 /\ seq \in Nat /\ Limits \subseteq Nat
      /\ spent \in [sets : Nat, crashes : Nat]
      /\ \A a \in Apps : oracleSeq[a] \in Nat /\ currentValue[a] \in Nat /\ maxValue[a] \in Nat
  BY IncrementIdAssumption DEF TypeOK
<1>2. ASSUME NEW a \in Apps, NEW n \in Limits, SetLimit(a, n)
      PROVE  ~Untuned'
  BY <1>1, <1>2 DEF SetLimit, Untuned
<1>3. CASE ~Untuned'
  BY <1>3 DEF UniqueInv
<1>4. CASE Untuned' /\ \A a \in Apps, n \in Limits : ~SetLimit(a, n)
  <2>1. Untuned
    BY <1>1, <1>4 DEF Untuned, Next, App, Cached, Load, LoadFails, SetCurrent, SetMax, Crash, vars
  <2>2. Apart
    BY <2>1 DEF UniqueInv
  <2>3. (seq + 1) * Limit <= (seq + 2) * Limit /\ (seq + 1) * Limit \in Nat
    BY <1>1, TimesMonotonic
  \* A step that issues at most an identifier of a reserve and takes it from there.
  <2>4. ASSUME NEW a \in Apps, seq' = seq, limit' = limit, oracleSeq' = oracleSeq,
               \A b \in Apps : b # a => Reserve(b)' = Reserve(b) /\ pc'[b] = pc[b]
                                        /\ currentValue'[b] = currentValue[b],
               pc'[a] # "half",
               NEW id \in Reserve(a), Reserve(a)' \subseteq Reserve(a) \ {id},
               issued' = issued \union {id}, repeated' = IF id \in issued THEN repeated \union {id} ELSE repeated
        PROVE  Apart'
    <3>1. id \notin issued /\ id <= (seq + 1) * Limit
      BY <2>2 DEF Apart
    <3>2. \A b \in Apps : Reserve(b)' \subseteq Reserve(b) /\ id \notin Reserve(b)'
      BY <2>2, <2>4 DEF Apart
    <3>3. QED
      BY <2>2, <2>4, <3>1, <3>2 DEF Apart
  <2>5. ASSUME NEW a \in Apps, Cached(a)
        PROVE  Apart'
    <3>1. currentValue[a] \in Reserve(a)
      BY <1>1, <2>5 DEF Cached, Reserve
    <3>2. Reserve(a)' \subseteq Reserve(a) \ {currentValue[a]}
      BY <1>1, <2>5 DEF Cached, Return, Reserve, TypeOK
    <3>3. \A b \in Apps : b # a => Reserve(b)' = Reserve(b) /\ currentValue'[b] = currentValue[b]
      BY <2>5 DEF Cached, Return, Reserve, TypeOK
    <3>4. QED
      BY <2>4, <2>5, <3>1, <3>2, <3>3 DEF Cached, Return
  <2>6. ASSUME NEW a \in Apps, SetMax(a)
        PROVE  Apart'
    <3>1. /\ currentValue[a] = oracleSeq[a] * Limit + 1 /\ limit[a] = Limit
          /\ oracleSeq[a] * Limit \in Nat
          /\ (oracleSeq[a] + 1) * Limit = oracleSeq[a] * Limit + Limit
      BY <1>1, <2>2, <2>6, TimesMonotonic, NextBlock DEF Apart, SetMax
    <3>2. currentValue[a] \in Reserve(a)
      BY <1>1, <2>6, <3>1 DEF SetMax, Reserve
    <3>3. Reserve(a)' \subseteq Reserve(a) \ {currentValue[a]}
      <4>1. /\ Reserve(a)' = currentValue[a] + 1 .. (oracleSeq[a] + 1) * Limit
            /\ Reserve(a) = currentValue[a] .. (oracleSeq[a] + 1) * Limit
        BY <2>6, <3>1 DEF SetMax, Return, Reserve, TypeOK
      <4>2. currentValue[a] \in Nat /\ (oracleSeq[a] + 1) * Limit \in Nat
        BY <1>1, <3>1
      <4>3. \A c, m \in Nat : c + 1 .. m \subseteq (c .. m) \ {c}
        OBVIOUS
      <4>4. QED
        BY <4>1, <4>2, <4>3
    <3>4. \A b \in Apps : b # a => Reserve(b)' = Reserve(b) /\ currentValue'[b] = currentValue[b]
      BY <2>6 DEF SetMax, Return, Reserve, TypeOK
    <3>5. pc'[a] # "half" /\ \A b \in Apps : b # a => pc'[b] = pc[b]
      BY <2>6 DEF SetMax, TypeOK
    <3>6. QED
      BY <2>4, <2>6, <3>2, <3>3, <3>4, <3>5 DEF SetMax, Return
  <2>7. ASSUME NEW a \in Apps, Load(a)
        PROVE  Apart'
    <3>1. seq' = seq + 1 /\ limit' = limit /\ issued' = issued /\ repeated' = repeated
          /\ pc'[a] = "loaded" /\ currentValue' = currentValue
          /\ \A b \in Apps : b # a => pc'[b] = pc[b] /\ oracleSeq'[b] = oracleSeq[b]
      BY <2>7 DEF Load, history, TypeOK
    <3>2. Reserve(a)' = (seq + 1) * Limit + 1 .. (seq + 2) * Limit
      <4>1. Reserve(a)' = oracleSeq'[a] * Limit + 1 .. (oracleSeq'[a] + 1) * Limit
        BY <2>2, <3>1 DEF Reserve, Apart
      <4>2. oracleSeq'[a] = seq + 1 /\ oracleSeq'[a] + 1 = seq + 2
        BY <1>1, <2>7 DEF Load, TypeOK
      <4>3. QED
        BY <4>1, <4>2
    <3>3. \A b \in Apps : b # a => Reserve(b)' = Reserve(b)
      BY <2>7, <3>1 DEF Reserve, Load
    <3>4. \A b \in Apps : \A id \in Reserve(b) : id \in Int
      BY <1>1, <2>2 DEF Reserve, Apart
    <3>5. (seq' + 1) * Limit = (seq + 2) * Limit
      BY <1>1, <3>1
    <3>6. \A id \in issued : id \in Nat
      BY DEF TypeOK
    <3>7. \A id \in issued' : id <= (seq' + 1) * Limit
      BY <2>2, <2>3, <3>1, <3>5, <3>6, TimesMonotonic, <1>1 DEF Apart
    <3>8. \A b \in Apps : \A id \in Reserve(b)' : id <= (seq' + 1) * Limit /\ id \notin issued'
      <4>1. (seq + 2) * Limit \in Nat
        BY <1>1, TimesMonotonic
      <4>2. \A id \in Reserve(a)' : id <= (seq + 2) * Limit /\ id > (seq + 1) * Limit
        BY <2>3, <3>2, <4>1
      <4>3. \A id \in Reserve(a)' : id \in Int
        BY <2>3, <3>2, <4>1
      <4>4. \A id \in Reserve(a)' : id \notin issued
        BY <2>2, <2>3, <3>6, <4>2, <4>3 DEF Apart
      <4>5. \A b \in Apps : b # a => \A id \in Reserve(b)' : id <= (seq + 2) * Limit /\ id \notin issued
        BY <2>2, <2>3, <3>3, <3>4, <4>1 DEF Apart
      <4>6. QED
        BY <3>1, <3>5, <4>2, <4>4, <4>5
    <3>9. \A b, c \in Apps : b # c => Reserve(b)' \intersect Reserve(c)' = {}
      <4>1. \A b \in Apps : b # a => Reserve(b)' \intersect Reserve(a)' = {}
        <5>1. (seq + 2) * Limit \in Nat
          BY <1>1, TimesMonotonic
        <5>2. \A id \in Reserve(a)' : id > (seq + 1) * Limit
          BY <2>3, <3>2, <5>1
        <5>3. \A b \in Apps : \A id \in Reserve(b) : id <= (seq + 1) * Limit
          BY <2>2 DEF Apart
        <5>4. QED
          BY <2>3, <3>3, <3>4, <5>2, <5>3
      <4>2. QED
        BY <2>2, <3>3, <4>1 DEF Apart
    <3>10. QED
      BY <2>2, <3>1, <3>7, <3>8, <3>9 DEF Apart
  <2>8. ASSUME NEW a \in Apps, LoadFails(a) \/ Crash(a) \/ SetCurrent(a)
        PROVE  Apart'
    <3>1. /\ issued' = issued /\ repeated' = repeated
          /\ \A b \in Apps : limit'[b] = Limit
      BY <2>2, <2>8 DEF LoadFails, Crash, SetCurrent, history, Apart, TypeOK
    <3>2. \A b \in Apps : Reserve(b)' \subseteq Reserve(b)
      BY <1>1, <2>2, <2>8 DEF LoadFails, Crash, SetCurrent, Reserve, TypeOK
    <3>3. \A b \in Apps : pc'[b] = "half" => currentValue'[b] = oracleSeq'[b] * Limit + 1
      BY <2>2, <2>8 DEF LoadFails, Crash, SetCurrent, TypeOK, Apart
    <3>4. seq' \in Nat /\ seq <= seq'
      BY <1>1, <2>8 DEF LoadFails, Crash, SetCurrent
    <3>5. (seq + 1) * Limit <= (seq' + 1) * Limit /\ (seq' + 1) * Limit \in Nat
      <4>1. seq \in Nat /\ Limit \in Nat
        BY <1>1
      <4>2. seq + 1 \in Nat /\ seq' + 1 \in Nat /\ seq + 1 <= seq' + 1
        <5>1. \A m, n \in Nat : m <= n => m + 1 \in Nat /\ n + 1 \in Nat /\ m + 1 <= n + 1
          OBVIOUS
        <5>2. QED
          BY <3>4, <4>1, <5>1
      <4>3. QED
        BY <4>1, <4>2, TimesMonotonic
    <3>6. \A b \in Apps : \A id \in Reserve(b) : id \in Int
      BY <1>1, <2>2 DEF Reserve, Apart
    <3>7. \A id \in issued : id \in Nat
      BY DEF TypeOK
    <3>8. \A id \in issued : id <= (seq' + 1) * Limit
      BY <2>2, <2>3, <3>5, <3>7 DEF Apart
    <3>9. \A b \in Apps : \A id \in Reserve(b)' : id <= (seq' + 1) * Limit /\ id \notin issued
      BY <2>2, <2>3, <3>2, <3>5, <3>6 DEF Apart
    <3>10. \A b, c \in Apps : b # c => Reserve(b)' \intersect Reserve(c)' = {}
      BY <2>2, <3>2 DEF Apart
    <3>11. QED
      BY <3>1, <3>3, <3>8, <3>9, <3>10, <2>2 DEF Apart
  <2>9. ASSUME UNCHANGED vars
        PROVE  Apart'
    BY <2>2, <2>9 DEF vars, history, Apart, Reserve
  <2>10. Apart'
    BY <1>4, <2>5, <2>6, <2>7, <2>8, <2>9 DEF Next, App
  <2>11. QED
    BY <2>10 DEF UniqueInv
<1>5. QED
  BY <1>2, <1>3, <1>4

(***************************************************************************)
(* No identifier is returned twice, for every number of applications,      *)
(* every limit they share, every start of the sequence and any crashes.    *)
(* (IncrementIdGenerator.nextval)                                          *)
(***************************************************************************)
THEOREM UniqueIds == Spec => []Unique
<1>1. Init => TypeOK /\ UniqueInv
  BY TypeInit, UniqueInit
<1>2. TypeOK /\ UniqueInv /\ [Next]_vars => (TypeOK /\ UniqueInv)'
  BY TypeNext, UniqueNext
<1>3. UniqueInv => Unique
  BY DEF UniqueInv, Unique, Apart
<1>4. QED
  BY <1>1, <1>2, <1>3, PTL DEF Spec

-----------------------------------------------------------------------------
(***************************************************************************)
(* NothingWasted rests on what Apart says of a number being spread: that   *)
(* the identifiers of a block start where nextval() starts it.             *)
(***************************************************************************)
Reserved == UNION { Reserve(a) : a \in Apps }

Covered == (Start + 1) * Limit + 1 .. (seq + 1) * Limit = issued \union Reserved

CoverInv == Untuned /\ spent.crashes = 0 => Covered

LEMMA CoverInit == Init => CoverInv
<1> SUFFICES ASSUME Init
             PROVE  Covered
  BY DEF CoverInv
<1>1. (Start + 1) * Limit \in Nat
  BY IncrementIdAssumption, TimesMonotonic
<1>2. \A m \in Nat : m + 1 .. m = {}
  OBVIOUS
<1>3. \A a \in Apps : Reserve(a) = {}
  BY DEF Init, Reserve
<1>4. issued = {} /\ seq = Start
  BY DEF Init
<1>5. QED
  BY <1>1, <1>2, <1>3, <1>4 DEF Covered, Reserved

\* An identifier that is returned leaves the reserve of its application.
LEMMA ReturnCovers ==
  ASSUME Covered, UNCHANGED seq, NEW a \in Apps, NEW id \in Reserve(a),
         issued' = issued \union {id}, Reserve(a)' = Reserve(a) \ {id},
         \A b \in Apps : b # a => Reserve(b)' = Reserve(b)
  PROVE  Covered'
<1>1. issued' \union Reserved' = issued \union Reserved
  BY DEF Reserved
<1>2. QED
  BY <1>1 DEF Covered

LEMMA CoverNext ==
  ASSUME TypeOK, UniqueInv, CoverInv, [Next]_vars
  PROVE  CoverInv'
<1>1. /\ Limit \in Nat /\ Limit >= 1 /\ seq \in Nat /\ Limits \subseteq Nat /\ Start \in Nat
      /\ Start <= seq
      /\ spent \in [sets : Nat, crashes : Nat]
      /\ \A a \in Apps : oracleSeq[a] \in Nat /\ currentValue[a] \in Nat /\ maxValue[a] \in Nat
  BY IncrementIdAssumption DEF TypeOK
<1>2. SUFFICES ASSUME Untuned', spent'.crashes = 0
               PROVE  Covered'
  BY DEF CoverInv
<1>3. ASSUME NEW a \in Apps, NEW n \in Limits, SetLimit(a, n)
      PROVE  FALSE
  BY <1>1, <1>2, <1>3 DEF SetLimit, Untuned
<1>4. ASSUME NEW a \in Apps, LoadFails(a) \/ Crash(a)
      PROVE  FALSE
  BY <1>1, <1>2, <1>4 DEF LoadFails, Crash
<1>5. Covered /\ Apart
  <2>1. spent' = spent
    BY <1>3, <1>4 DEF Next, App, Cached, Load, SetCurrent, SetMax, vars
  <2>2. QED
    BY <1>2, <2>1 DEF Untuned, CoverInv, UniqueInv
<1>6. ASSUME NEW a \in Apps, Cached(a)
      PROVE  Covered'
  <2>1. currentValue[a] \in Reserve(a)
    BY <1>1, <1>6 DEF Cached, Reserve
  <2>2. Reserve(a)' = Reserve(a) \ {currentValue[a]}
    <3>1. /\ Reserve(a)' = currentValue[a] + 1 .. maxValue[a]
          /\ Reserve(a) = currentValue[a] .. maxValue[a]
      BY <1>6 DEF Cached, Return, Reserve, TypeOK
    <3>2. \A c, m \in Nat : c + 1 .. m = (c .. m) \ {c}
      OBVIOUS
    <3>3. QED
      BY <1>1, <3>1, <3>2
  <2>3. \A b \in Apps : b # a => Reserve(b)' = Reserve(b)
    BY <1>6 DEF Cached, Return, Reserve, TypeOK
  <2>4. QED
    BY <1>5, <1>6, <2>1, <2>2, <2>3, ReturnCovers DEF Cached, Return
<1>7. ASSUME NEW a \in Apps, SetMax(a)
      PROVE  Covered'
  <2>1. /\ currentValue[a] = oracleSeq[a] * Limit + 1 /\ limit[a] = Limit
        /\ oracleSeq[a] * Limit \in Nat
        /\ (oracleSeq[a] + 1) * Limit = oracleSeq[a] * Limit + Limit
    BY <1>1, <1>5, <1>7, TimesMonotonic, NextBlock DEF Apart, SetMax
  <2>2. /\ Reserve(a)' = currentValue[a] + 1 .. (oracleSeq[a] + 1) * Limit
        /\ Reserve(a) = currentValue[a] .. (oracleSeq[a] + 1) * Limit
    BY <1>7, <2>1 DEF SetMax, Return, Reserve, TypeOK
  <2>3. Reserve(a)' = Reserve(a) \ {currentValue[a]} /\ currentValue[a] \in Reserve(a)
    <3>1. currentValue[a] \in Nat /\ (oracleSeq[a] + 1) * Limit \in Nat
          /\ currentValue[a] <= (oracleSeq[a] + 1) * Limit
      BY <1>1, <2>1
    <3>2. \A c, m \in Nat : c <= m => c + 1 .. m = (c .. m) \ {c} /\ c \in c .. m
      OBVIOUS
    <3>3. QED
      BY <2>2, <3>1, <3>2
  <2>4. \A b \in Apps : b # a => Reserve(b)' = Reserve(b)
    BY <1>7 DEF SetMax, Return, Reserve, TypeOK
  <2>5. QED
    BY <1>5, <1>7, <2>3, <2>4, ReturnCovers DEF SetMax, Return
<1>8. ASSUME NEW a \in Apps, Load(a)
      PROVE  Covered'
  <2>1. /\ seq' = seq + 1 /\ limit' = limit /\ issued' = issued
        /\ pc[a] = "idle" /\ pc'[a] = "loaded" /\ oracleSeq'[a] = seq + 1
        /\ currentValue[a] > maxValue[a]
    BY <1>8 DEF Load, history, TypeOK
  <2>2. Reserve(a) = {}
    BY <1>1, <2>1 DEF Reserve
  <2>3. Reserve(a)' = (seq + 1) * Limit + 1 .. (seq + 2) * Limit
    <3>1. Reserve(a)' = oracleSeq'[a] * Limit + 1 .. (oracleSeq'[a] + 1) * Limit
      BY <1>5, <2>1 DEF Reserve, Apart
    <3>2. oracleSeq'[a] + 1 = seq + 2
      BY <1>1, <2>1
    <3>3. QED
      BY <2>1, <3>1, <3>2
  <2>4. \A b \in Apps : b # a => Reserve(b)' = Reserve(b)
    BY <1>8, <2>1 DEF Reserve, Load
  <2>5. issued' \union Reserved' = (issued \union Reserved) \union Reserve(a)'
    BY <2>1, <2>2, <2>4 DEF Reserved
  <2>6. /\ (Start + 1) * Limit \in Nat /\ (seq + 1) * Limit \in Nat /\ (seq + 2) * Limit \in Nat
        /\ (Start + 1) * Limit <= (seq + 1) * Limit /\ (seq + 1) * Limit <= (seq + 2) * Limit
    BY <1>1, TimesMonotonic
  <2>7. \A k, m, n \in Nat : k <= m /\ m <= n => k + 1 .. n = (k + 1 .. m) \union (m + 1 .. n)
    OBVIOUS
  <2>8. (seq' + 1) * Limit = (seq + 2) * Limit
    BY <1>1, <2>1
  <2>9. QED
    BY <1>5, <2>3, <2>5, <2>6, <2>7, <2>8 DEF Covered
<1>9. ASSUME NEW a \in Apps, SetCurrent(a)
      PROVE  Covered'
  <2>1. \A b \in Apps : Reserve(b)' = Reserve(b)
    BY <1>9 DEF SetCurrent, Reserve, TypeOK
  <2>2. issued' = issued /\ seq' = seq
    BY <1>9 DEF SetCurrent, history
  <2>3. QED
    BY <1>5, <2>1, <2>2 DEF Covered, Reserved
<1>10. CASE UNCHANGED vars
  BY <1>5, <1>10 DEF vars, history, Covered, Reserved, Reserve
<1>11. QED
  BY <1>3, <1>4, <1>6, <1>7, <1>8, <1>9, <1>10 DEF Next, App

(***************************************************************************)
(* No identifier of a number taken from the sequence is lost while nothing *)
(* crashes: it has been returned or one application still has it, for      *)
(* every number of applications and every limit.                           *)
(* (IncrementIdGenerator.nextval)                                          *)
(***************************************************************************)
THEOREM NoneWasted == Spec => []NothingWasted
<1>1. Init => TypeOK /\ UniqueInv /\ CoverInv
  BY TypeInit, UniqueInit, CoverInit
<1>2. TypeOK /\ UniqueInv /\ CoverInv /\ [Next]_vars => (TypeOK /\ UniqueInv /\ CoverInv)'
  BY TypeNext, UniqueNext, CoverNext
<1>3. CoverInv => NothingWasted
  BY DEF CoverInv, Covered, Reserved, NothingWasted
<1>4. QED
  BY <1>1, <1>2, <1>3, PTL DEF Spec

-----------------------------------------------------------------------------
(***************************************************************************)
(* Ascending needs to know how far an application's identifiers reach: up  *)
(* to the block of the sequence's value, measured with the application's   *)
(* own limit, which only grows as long as nobody lowers it.                *)
(***************************************************************************)
Behind ==
  \A a \in Apps : a \notin lowered =>
    /\ pc[a] = "idle" => /\ last[a] <= (seq + 1) * limit[a]
                         /\ maxValue[a] <= (seq + 1) * limit[a]
                         /\ currentValue[a] <= maxValue[a] => last[a] < currentValue[a]
    /\ pc[a] # "idle" => last[a] <= oracleSeq[a] * limit[a]
    /\ pc[a] = "half" => /\ last[a] < currentValue[a]
                         /\ currentValue[a] <= (oracleSeq[a] + 1) * limit[a]

LEMMA BehindInit == Init => Behind
<1>1. (Start + 1) * Limit \in Nat
  BY IncrementIdAssumption, TimesMonotonic
<1>2. QED
  BY <1>1 DEF Init, Behind

LEMMA BehindNext ==
  ASSUME TypeOK, Behind, [Next]_vars
  PROVE  Behind'
<1>1. /\ Limit \in Nat /\ Limit >= 1 /\ seq \in Nat /\ seq' \in Nat /\ seq <= seq'
      /\ seq + 1 \in Nat /\ seq' + 1 \in Nat /\ seq + 1 <= seq' + 1
  <2>1. Limit \in Nat /\ Limit >= 1 /\ seq \in Nat /\ (seq' = seq \/ seq' = seq + 1)
    BY IncrementIdAssumption
       DEF TypeOK, Next, App, Cached, Load, LoadFails, SetCurrent, SetMax, SetLimit, Crash, vars
  <2>2. QED
    BY <2>1
<1>2. \A a \in Apps : /\ limit[a] \in Nat /\ oracleSeq[a] \in Nat /\ oracleSeq[a] <= seq
                      /\ last[a] \in Nat /\ currentValue[a] \in Nat /\ maxValue[a] \in Nat
  BY <1>1 DEF TypeOK
\* What an application that takes no step knows stays true.
<1>3. ASSUME NEW a \in Apps, Behind, a \notin lowered, pc'[a] = pc[a], limit'[a] = limit[a],
             last'[a] = last[a], maxValue'[a] = maxValue[a],
             currentValue'[a] = currentValue[a], oracleSeq'[a] = oracleSeq[a]
      PROVE  /\ pc'[a] = "idle" =>
                  /\ last'[a] <= (seq' + 1) * limit'[a]
                  /\ maxValue'[a] <= (seq' + 1) * limit'[a]
                  /\ currentValue'[a] <= maxValue'[a] => last'[a] < currentValue'[a]
             /\ pc'[a] # "idle" => last'[a] <= oracleSeq'[a] * limit'[a]
             /\ pc'[a] = "half" => /\ last'[a] < currentValue'[a]
                                   /\ currentValue'[a] <= (oracleSeq'[a] + 1) * limit'[a]
  <2>1. /\ (seq + 1) * limit[a] \in Nat /\ (seq' + 1) * limit[a] \in Nat
        /\ (seq + 1) * limit[a] <= (seq' + 1) * limit[a]
    BY <1>1, <1>2, TimesMonotonic
  <2>2. pc[a] = "idle" => last[a] <= (seq' + 1) * limit[a] /\ maxValue[a] <= (seq' + 1) * limit[a]
    BY <1>2, <1>3, <2>1 DEF Behind
  <2>3. QED
    BY <1>3, <2>2 DEF Behind
<1>4. SUFFICES ASSUME NEW a \in Apps, App(a)
               PROVE  Behind'
  <2>1. CASE UNCHANGED vars
    BY <1>3, <2>1 DEF vars, history, Behind
  <2>2. QED
    BY <1>4, <2>1 DEF Next
<1> DEFINE Ok(b) ==
      b \notin lowered' =>
        /\ pc'[b] = "idle" =>
             /\ last'[b] <= (seq' + 1) * limit'[b]
             /\ maxValue'[b] <= (seq' + 1) * limit'[b]
             /\ currentValue'[b] <= maxValue'[b] => last'[b] < currentValue'[b]
        /\ pc'[b] # "idle" => last'[b] <= oracleSeq'[b] * limit'[b]
        /\ pc'[b] = "half" => /\ last'[b] < currentValue'[b]
                              /\ currentValue'[b] <= (oracleSeq'[b] + 1) * limit'[b]
<1>5. \A b \in Apps : b # a => Ok(b)
  <2> SUFFICES ASSUME NEW b \in Apps, b # a
               PROVE  Ok(b)
    OBVIOUS
  <2>1. /\ pc'[b] = pc[b] /\ limit'[b] = limit[b] /\ last'[b] = last[b]
        /\ maxValue'[b] = maxValue[b] /\ currentValue'[b] = currentValue[b]
        /\ oracleSeq'[b] = oracleSeq[b] /\ (b \in lowered => b \in lowered')
    BY <1>4 DEF App, Cached, Load, LoadFails, SetCurrent, SetMax, SetLimit, Crash, Return,
                history, TypeOK
  <2>2. QED
    BY <1>3, <2>1
<1>6. Ok(a)
  <2> SUFFICES ASSUME a \notin lowered'
               PROVE  Ok(a)
    OBVIOUS
  <2>1. a \notin lowered
    BY <1>4 DEF App, Cached, Load, LoadFails, SetCurrent, SetMax, SetLimit, Crash
  <2>2. /\ limit[a] \in Nat /\ oracleSeq[a] \in Nat /\ oracleSeq[a] <= seq
        /\ last[a] \in Nat /\ currentValue[a] \in Nat /\ maxValue[a] \in Nat
    BY <1>2
  <2>3. /\ (seq + 1) * limit[a] \in Nat /\ (seq' + 1) * limit[a] \in Nat
        /\ (seq + 1) * limit[a] <= (seq' + 1) * limit[a]
        /\ (oracleSeq[a] + 1) * limit[a] \in Nat
        /\ (oracleSeq[a] + 1) * limit[a] <= (seq + 1) * limit[a]
        /\ oracleSeq[a] * limit[a] \in Nat
        /\ (oracleSeq[a] + 1) * limit[a] = oracleSeq[a] * limit[a] + limit[a]
    BY <1>1, <2>2, TimesMonotonic, NextBlock
  <2>4. last[a] <= (seq + 1) * limit[a]
    BY <2>1, <2>2, <2>3 DEF Behind
  <2>5. CASE Cached(a)
    <3>1. /\ pc[a] = "idle" /\ pc' = pc /\ last'[a] = currentValue[a] /\ limit' = limit
          /\ currentValue'[a] = currentValue[a] + 1 /\ maxValue' = maxValue
          /\ currentValue[a] <= maxValue[a] /\ seq' = seq
      BY <2>5 DEF Cached, Return, TypeOK
    <3>2. maxValue[a] <= (seq + 1) * limit[a]
      BY <2>1, <3>1 DEF Behind
    <3>3. QED
      BY <2>2, <2>3, <3>1, <3>2
  <2>6. CASE Load(a)
    <3>1. /\ pc'[a] = "loaded" /\ last' = last /\ limit' = limit /\ oracleSeq'[a] = seq + 1
      BY <2>6 DEF Load, history, TypeOK
    <3>2. QED
      BY <2>4, <3>1
  <2>7. CASE LoadFails(a)
    BY <1>3, <2>1, <2>7 DEF LoadFails, history
  <2>8. CASE SetCurrent(a)
    <3>1. /\ pc'[a] = "half" /\ last' = last /\ limit' = limit /\ oracleSeq' = oracleSeq
          /\ currentValue'[a] = oracleSeq[a] * limit[a] + 1 /\ pc[a] # "idle"
      BY <2>8 DEF SetCurrent, history, TypeOK
    <3>2. last[a] <= oracleSeq[a] * limit[a]
      BY <2>1, <3>1 DEF Behind
    <3>3. limit[a] >= 1
      BY DEF TypeOK
    <3>4. QED
      BY <2>2, <2>3, <3>1, <3>2, <3>3
  <2>9. CASE SetMax(a)
    <3>1. /\ pc[a] = "half" /\ pc'[a] = "idle" /\ last'[a] = currentValue[a] /\ limit' = limit
          /\ currentValue'[a] = currentValue[a] + 1 /\ seq' = seq
          /\ maxValue'[a] = (oracleSeq[a] + 1) * limit[a]
      BY <2>9 DEF SetMax, Return, TypeOK
    <3>2. currentValue[a] <= (oracleSeq[a] + 1) * limit[a]
      BY <2>1, <3>1 DEF Behind
    <3>3. QED
      BY <2>2, <2>3, <3>1, <3>2
  <2>10. ASSUME NEW n \in Limits, SetLimit(a, n)
         PROVE  Ok(a)
    <3>1. n \in Nat /\ limit[a] <= n
      BY <2>2, <2>10, IncrementIdAssumption DEF SetLimit
    <3>2. /\ limit'[a] = n /\ seq' = seq /\ oracleSeq' = oracleSeq /\ pc' = pc /\ last' = last
          /\ currentValue' = currentValue /\ maxValue' = maxValue
      BY <2>10 DEF SetLimit, history, TypeOK
    <3>3. /\ (seq + 1) * limit[a] <= (seq + 1) * n /\ (seq + 1) * n \in Nat
          /\ oracleSeq[a] * limit[a] <= oracleSeq[a] * n /\ oracleSeq[a] * n \in Nat
          /\ (oracleSeq[a] + 1) * limit[a] <= (oracleSeq[a] + 1) * n
          /\ (oracleSeq[a] + 1) * n \in Nat
      <4>1. \A k \in Nat : k * limit[a] <= k * n /\ k * n \in Nat
        BY <2>2, <3>1, TimesMonotonic
      <4>2. oracleSeq[a] + 1 \in Nat
        BY <2>2
      <4>3. QED
        BY <1>1, <2>2, <4>1, <4>2
    <3>4. /\ pc[a] = "idle" => /\ last[a] <= (seq + 1) * limit[a]
                               /\ maxValue[a] <= (seq + 1) * limit[a]
                               /\ currentValue[a] <= maxValue[a] => last[a] < currentValue[a]
          /\ pc[a] # "idle" => last[a] <= oracleSeq[a] * limit[a]
          /\ pc[a] = "half" => /\ last[a] < currentValue[a]
                               /\ currentValue[a] <= (oracleSeq[a] + 1) * limit[a]
      BY <2>1 DEF Behind
    <3>5. QED
      BY <2>2, <2>3, <3>2, <3>3, <3>4
  <2>11. CASE Crash(a)
    <3>1. limit[a] <= Limit
      BY <1>1, <2>2, <2>11 DEF Crash
    <3>2. /\ limit'[a] = Limit /\ seq' = seq /\ pc'[a] = "idle" /\ last' = last
          /\ currentValue'[a] = 1 /\ maxValue'[a] = 0
      BY <2>11 DEF Crash, history, TypeOK
    <3>3. (seq + 1) * limit[a] <= (seq + 1) * Limit /\ (seq + 1) * Limit \in Nat
      BY <1>1, <2>2, <3>1, TimesMonotonic
    <3>4. QED
      BY <2>2, <2>3, <2>4, <3>2, <3>3
  <2>12. QED
    BY <1>4, <2>5, <2>6, <2>7, <2>8, <2>9, <2>10, <2>11 DEF App
<1>7. QED
  BY <1>5, <1>6 DEF Behind

LEMMA AscendStep ==
  ASSUME TypeOK, Behind, [Next]_vars, NEW a \in Apps, last'[a] # last[a], a \notin lowered
  PROVE  last[a] < last'[a]
<1>1. PICK b \in Apps : Cached(b) \/ SetMax(b)
  BY DEF Next, App, Load, LoadFails, SetCurrent, SetLimit, Crash, vars, history
<1>2. a = b /\ last'[a] = currentValue[a]
  BY <1>1 DEF Cached, SetMax, Return, TypeOK
<1>3. QED
  BY <1>1, <1>2 DEF Cached, SetMax, Behind

(***************************************************************************)
(* The identifiers of an application whose limit nobody lowers ascend over *)
(* its restarts, for every limit and also when another thread raises the   *)
(* limit in the middle of nextval().  (IncrementIdGenerator.setLimit)      *)
(***************************************************************************)
THEOREM IdsAscend == Spec => Ascending
<1>1. Init => TypeOK /\ Behind
  BY TypeInit, BehindInit
<1>2. TypeOK /\ Behind /\ [Next]_vars => (TypeOK /\ Behind)'
  BY TypeNext, BehindNext
<1>3. TypeOK /\ Behind /\ [Next]_vars =>
        [\A a \in Apps : last'[a] # last[a] /\ a \notin lowered => last[a] < last'[a]]_vars
  BY AscendStep
<1>4. QED
  BY <1>1, <1>2, <1>3, PTL DEF Spec, Ascending

(***************************************************************************)
(* Every variable keeps its type; no application holds a number that the   *)
(* sequence has not yet given.  (IncrementIdGenerator, IncrementIdRepository) *)
(***************************************************************************)
THEOREM IdTypes == Spec => []TypeOK
<1>1. Init => TypeOK
  BY TypeInit
<1>2. TypeOK /\ [Next]_vars => TypeOK'
  BY TypeNext
<1>3. QED
  BY <1>1, <1>2, PTL DEF Spec
=============================================================================
