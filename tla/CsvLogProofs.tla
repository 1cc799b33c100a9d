---------------------------- MODULE CsvLogProofs ----------------------------
(***************************************************************************)
(* Proofs about the CSV logging service, for every number of threads, logs *)
(* and restarts and every bound.                                           *)
(***************************************************************************)
EXTENDS CsvLog, FiniteSetTheorems, SequenceTheorems, WellFoundedInduction,
        TLAPS

-----------------------------------------------------------------------------
(***************************************************************************)
(* A set of natural numbers that is not empty has a least element.         *)
(***************************************************************************)
LEMMA LeastElement ==
  ASSUME NEW R \in SUBSET Nat, R # {}
  PROVE  \E i \in R : \A j \in R : i <= j
<1>1. IsWellFoundedOn(OpToRel(<, Nat), Nat)
  BY NatLessThanWellFounded
<1>2. PICK i \in R : \A j \in R : ~ (<< j, i >> \in OpToRel(<, Nat))
  BY <1>1, WFMin
<1>3. \A j \in R : ~ (j < i)
  BY <1>2 DEF OpToRel
<1>4. QED
  BY <1>3

(***************************************************************************)
(* The image of a finite set is finite and no larger.                      *)
(***************************************************************************)
LEMMA ImageSize ==
  ASSUME NEW D, IsFiniteSet(D), NEW f \in [D -> Nat]
  PROVE  LET S == { f[k] : k \in D }
         IN  IsFiniteSet(S) /\ Cardinality(S) <= Cardinality(D)
<1> DEFINE S == { f[k] : k \in D }
<1>1. f \in Surjection(D, S)
  BY DEF Surjection
<1>2. QED
  <2> HIDE DEF S
  <2>1. IsFiniteSet(S) /\ Cardinality(S) <= Cardinality(D)
    BY <1>1, FS_Surjection
  <2>2. QED
    BY <2>1 DEF S

(***************************************************************************)
(* close() always finds a free index, and the first one: of the indexes    *)
(* 0 .. n at most n are taken by n closed files.                           *)
(***************************************************************************)
LEMMA FreeIndexExists ==
  ASSUME NEW a \in LogInfo, NEW from \in Nat
  PROVE  /\ FreeIndex(a, from) \in (0 .. Len(a.csv)) \ Taken(a, from)
         /\ \A j \in (0 .. Len(a.csv)) \ Taken(a, from) : FreeIndex(a, from) <= j
<1> DEFINE N == Len(a.csv)
           T == Taken(a, from)
           f == [k \in 1 .. N |-> a.csv[k].index]
           S == { f[k] : k \in 1 .. N }
<1>1. N \in Nat /\ f \in [1 .. N -> Nat]
  <2>1. a.csv \in Seq(ClosedFile)
    BY DEF LogInfo
  <2>2. N \in Nat /\ \A k \in 1 .. N : a.csv[k] \in ClosedFile
    BY <2>1
  <2>3. \A k \in 1 .. N : a.csv[k].index \in Nat
    BY <2>2 DEF ClosedFile
  <2>4. QED
    BY <2>2, <2>3
<1>2. T \subseteq S
  BY DEF Taken
<1>3. IsFiniteSet(1 .. N) /\ Cardinality(1 .. N) = N
  BY <1>1, FS_Interval
<1>4. IsFiniteSet(S) /\ Cardinality(S) <= N
  BY <1>1, <1>3, ImageSize
<1>5. IsFiniteSet(T) /\ Cardinality(T) <= Cardinality(S)
  <2> HIDE DEF S, T
  <2>1. QED
    BY <1>2, <1>4, FS_Subset
<1>6. Cardinality(T) <= N /\ Cardinality(T) \in Nat
  <2> HIDE DEF S, T, N
  <2>1. Cardinality(T) \in Nat /\ Cardinality(S) \in Nat
    BY <1>4, <1>5, FS_CardinalityType
  <2>2. QED
    BY <1>1, <1>4, <1>5, <2>1
<1>7. IsFiniteSet(0 .. N) /\ Cardinality(0 .. N) = N + 1
  <2> HIDE DEF N
  <2>1. QED
    BY <1>1, FS_Interval
<1>8. (0 .. N) \ T # {}
  <2> HIDE DEF T, N
  <2> SUFFICES ASSUME 0 .. N \subseteq T
               PROVE  FALSE
    OBVIOUS
  <2>1. Cardinality(0 .. N) <= Cardinality(T)
    BY <1>5, FS_Subset
  <2>2. QED
    BY <2>1, <1>1, <1>6, <1>7
<1>9. \E i \in (0 .. N) \ T : \A j \in (0 .. N) \ T : i <= j
  <2> HIDE DEF T, N
  <2>1. (0 .. N) \ T \in SUBSET Nat
    BY <1>1
  <2>2. QED
    BY <2>1, <1>8, LeastElement
<1>10. QED
  BY <1>9, Zenon DEF FreeIndex

-----------------------------------------------------------------------------
(***************************************************************************)
(* The steps that change a log.                                            *)
(***************************************************************************)
AddGoesOn(n) == AddCheck(n) \/ AddTest(n) \/ AddNext(n) \/ AddOpen(n)

LEMMA InfosStep ==
  ASSUME [Next]_vars
  PROVE  \/ infos' = infos
         \/ \E n \in Names : Add(n) \/ AddGoesOn(n) \/ AddDuplicate(n) \/ Spill(n)
         \/ Kill
         \/ \E w \in Workers : Write(w) \/ WriteFails(w) \/ \E n \in Names : CloseOne(w, n)
<1>1. ASSUME NEW p \in Producers, Producer(p)
      PROVE  infos' = infos
  BY <1>1 DEF Producer, Begin, Commit, Rollback, Offer, OfferFails, WriteLog
<1>2. ASSUME Manager, \A n \in Names : ~Add(n) /\ ~AddGoesOn(n) /\ ~AddDuplicate(n)
      PROVE  infos' = infos
  BY <1>2 DEF Manager, Startup, Interrupt, Stop, JoinReturns, AddGoesOn
<1>3. ASSUME NEW w \in Workers, Worker(w), ~Write(w), ~WriteFails(w),
             \A n \in Names : ~CloseOne(w, n)
      PROVE  infos' = infos
  BY <1>3 DEF Worker, CheckStop, Take, TakeInterrupted, ReadClock
<1>4. Tick \/ UNCHANGED vars => infos' = infos
  BY DEF Tick, vars
<1>5. QED
  BY <1>1, <1>2, <1>3, <1>4 DEF Next

-----------------------------------------------------------------------------
(***************************************************************************)
(* The operators on one log return the record of a log.                    *)
(***************************************************************************)
LEMMA ClosedType ==
  ASSUME NEW a \in LogInfo, NEW from \in Nat
  PROVE  Closed(a, from) \in LogInfo
<1> DEFINE file == [ from |-> from, index |-> FreeIndex(a, from), lines |-> a.log \o a.buf ]
<1>1. a.csv \in Seq(ClosedFile) /\ Len(a.csv) \in Nat
  BY DEF LogInfo
<1>2. FreeIndex(a, from) \in Nat
  <2>1. FreeIndex(a, from) \in 0 .. Len(a.csv)
    BY FreeIndexExists
  <2>2. QED
    BY <1>1, <2>1
<1>3. a.log \o a.buf \in Seq(Line)
  BY DEF LogInfo
<1>4. file \in ClosedFile
  BY <1>2, <1>3 DEF ClosedFile
<1> DEFINE files == Append(a.csv, file)
<1>5. files \in Seq(ClosedFile)
  <2> HIDE DEF file
  <2>1. QED
    BY <1>1, <1>4
<1>6. Closed(a, from) = [a EXCEPT !.writer = "closed", !.buf = << >>, !.exists = FALSE,
                                  !.log = << >>, !.end = "whole", !.csv = files]
  BY DEF Closed
<1>7. QED
  <2> HIDE DEF files
  <2>1. << >> \in Seq(Line)
    OBVIOUS
  <2>2. QED
    BY <1>5, <1>6, <2>1 DEF LogInfo

LEMMA CutType ==
  ASSUME NEW a \in LogInfo
  PROVE  Cut(a.end) \in {"whole", "stump"}
  BY DEF Cut

LEMMA OpenedType ==
  ASSUME NEW a \in LogInfo, NEW from \in Nat
  PROVE  Opened(a, from) \in LogInfo /\ NotOpened(a, from) \in LogInfo
<1>1. from + Interval \in Nat
  BY IntervalAssumption
<1>2. << HeaderLine(from) >> \in Seq(Line) /\ << >> \in Seq(Line)
  BY DEF HeaderLine, HeaderId, Line
<1>3. Append(a.log, HeaderLine(from)) \in Seq(Line)
  <2>1. HeaderLine(from) \in Line /\ a.log \in Seq(Line)
    BY DEF HeaderLine, HeaderId, Line, LogInfo
  <2>2. QED
    BY <2>1
<1>4. NotOpened(a, from) \in LogInfo
  BY <1>1 DEF LogInfo, NotOpened
<1>5. Opened(a, from) \in LogInfo
  BY <1>1, <1>2, <1>3, CutType DEF LogInfo, Opened
<1>6. QED
  BY <1>4, <1>5

LEMMA EndedType ==
  ASSUME NEW a \in LogInfo
  PROVE  /\ NotRenamed(a) \in LogInfo
         /\ Broken(a) \in LogInfo
         /\ Emptied(a) \in LogInfo
         /\ Flushed(a) \in LogInfo
         /\ Forgotten(a) \in LogInfo
<1>1. a.log \o a.buf \in Seq(Line)
  BY DEF LogInfo
<1>2. << >> \in Seq(Line)
  OBVIOUS
<1>3. Emptied(a) \in LogInfo
  BY <1>1, <1>2 DEF LogInfo, Emptied
<1>4. NotRenamed(a) \in LogInfo /\ Flushed(a) \in LogInfo
  <2> DEFINE b == Emptied(a)
  <2> HIDE DEF b
  <2>1. b \in LogInfo
    BY <1>3 DEF b
  <2>2. [b EXCEPT !.writer = "closed"] \in LogInfo
    BY <2>1 DEF LogInfo
  <2>3. QED
    BY <2>1, <2>2 DEF b, NotRenamed, Flushed
<1>5. Broken(a) \in LogInfo /\ Forgotten(a) \in LogInfo
  BY <1>2, CutType DEF LogInfo, Broken, Forgotten
<1>6. QED
  BY <1>3, <1>4, <1>5

LEMMA WrittenType ==
  ASSUME NEW a \in LogInfo, NEW line \in Line
  PROVE  Written(a, line) \in LogInfo
<1>1. Append(a.buf, line) \in Seq(Line)
  BY DEF LogInfo
<1>2. QED
  BY <1>1 DEF LogInfo, Written

LEMMA SpilledType ==
  ASSUME NEW a \in LogInfo, a.buf # << >> \/ a.end = "glued"
  PROVE  Spilled(a) \in LogInfo /\ SpilledHalf(a) \in LogInfo
<1>1. a.buf \in Seq(Line) /\ a.log \in Seq(Line)
  BY DEF LogInfo
<1>2. CASE a.end = "glued"
  BY <1>2 DEF LogInfo, Spilled, SpilledHalf
<1>3. CASE a.end # "glued"
  <2>1. Head(a.buf) \in Line /\ Tail(a.buf) \in Seq(Line)
    BY <1>1, <1>3
  <2>2. Append(a.log, Head(a.buf)) \in Seq(Line)
    BY <1>1, <2>1
  <2>3. QED
    BY <1>3, <2>1, <2>2 DEF LogInfo, Spilled, SpilledHalf
<1>4. QED
  BY <1>2, <1>3

LEMMA ReloadedType ==
  ASSUME NEW a \in LogInfo, NEW from \in Nat
  PROVE  /\ Reloaded(a, from) \in LogInfo
         /\ FailedReloads(a, from) \subseteq LogInfo
  BY ClosedType, OpenedType, EndedType DEF Reloaded, FailedReloads

LEMMA AddedType ==
  ASSUME NEW a \in LogInfo, NEW s \in {"raw", "ready"} \union Adding
  PROVE  [a EXCEPT !.state = s] \in LogInfo
  BY DEF LogInfo

(***************************************************************************)
(* Counting against a bound stays within it.                               *)
(***************************************************************************)
LEMMA FaultSpent ==
  ASSUME NEW b \in Budget, b.faults < MaxFaults
  PROVE  LET c == [b EXCEPT !.faults = @ + 1]
         IN  /\ c \in Budget /\ c.faults = b.faults + 1 /\ c.dups = b.dups
             /\ c.restarts = b.restarts /\ c.overlaps = b.overlaps
             /\ c.races = b.races
<1>1. MaxFaults \in Nat
  BY CsvLogAssumption
<1>2. b.faults + 1 \in 0 .. MaxFaults
  BY <1>1 DEF Budget
<1>3. QED
  BY <1>2 DEF Budget

LEMMA DupSpent ==
  ASSUME NEW b \in Budget, b.dups < MaxDups
  PROVE  LET c == [b EXCEPT !.dups = @ + 1]
         IN  /\ c \in Budget /\ c.faults = b.faults /\ c.dups = b.dups + 1
             /\ c.restarts = b.restarts /\ c.overlaps = b.overlaps
             /\ c.races = b.races
<1>1. MaxDups \in Nat
  BY CsvLogAssumption
<1>2. b.dups + 1 \in 0 .. MaxDups
  BY <1>1 DEF Budget
<1>3. QED
  BY <1>2 DEF Budget

LEMMA KillSpent ==
  ASSUME NEW b \in Budget, b.kills < MaxKills
  PROVE  LET c == [b EXCEPT !.kills = @ + 1]
         IN  /\ c \in Budget /\ c.faults = b.faults /\ c.dups = b.dups
             /\ c.restarts = b.restarts /\ c.overlaps = b.overlaps
             /\ c.races = b.races
<1>1. MaxKills \in Nat
  BY CsvLogAssumption
<1>2. b.kills + 1 \in 0 .. MaxKills
  BY <1>1 DEF Budget
<1>3. QED
  BY <1>2 DEF Budget

LEMMA RestartSpent ==
  ASSUME NEW b \in Budget, b.restarts < MaxRestarts, b.overlaps <= b.restarts,
         NEW o \in {b.overlaps, b.overlaps + 1}
  PROVE  LET c == [b EXCEPT !.restarts = @ + 1, !.overlaps = o]
         IN  /\ c \in Budget /\ c.faults = b.faults /\ c.dups = b.dups
             /\ c.restarts = b.restarts + 1 /\ c.overlaps <= c.restarts
             /\ c.races = b.races
<1>1. MaxRestarts \in Nat
  BY CsvLogAssumption
<1>2. b.restarts + 1 \in 0 .. MaxRestarts /\ o \in 0 .. MaxRestarts /\ o <= b.restarts + 1
  BY <1>1 DEF Budget
<1>3. QED
  BY <1>2 DEF Budget

LEMMA RaceSpent ==
  ASSUME spent \in Budget, NEW met \in BOOLEAN
  PROVE  /\ Raced(met) \in Budget /\ Raced(met).faults = spent.faults
         /\ Raced(met).dups = spent.dups /\ Raced(met).restarts = spent.restarts
         /\ Raced(met).overlaps = spent.overlaps /\ Raced(met).kills = spent.kills
         /\ Raced(met).races = IF met THEN spent.races + 1 ELSE spent.races
<1>1. spent.races \in Nat /\ spent.races + 1 \in Nat
  BY DEF Budget
<1>2. QED
  BY <1>1 DEF Budget, Raced

-----------------------------------------------------------------------------
(***************************************************************************)
(* What the later steps of add() can make of its log: besides state and    *)
(* nextInterval, nothing, or what close() or the opening of the file does. *)
(* They count a race when they met what a worker had set.                  *)
(***************************************************************************)
AddForms(a) == { a, Closed(a, clock), NotRenamed(a), Broken(a), Opened(a, addFrom) }

Alike(b, a) ==
  /\ b.writer = a.writer /\ b.buf = a.buf /\ b.exists = a.exists /\ b.log = a.log
  /\ b.end = a.end /\ b.csv = a.csv

LEMMA AlikeStates ==
  ASSUME NEW a \in LogInfo, NEW s
  PROVE  Alike([a EXCEPT !.state = s], a) /\ [a EXCEPT !.state = s].state = s
  BY DEF Alike, LogInfo

LEMMA AlikeNexts ==
  ASSUME NEW a \in LogInfo, NEW s, NEW t
  PROVE  /\ Alike([a EXCEPT !.state = s, !.next = t], a)
         /\ [a EXCEPT !.state = s, !.next = t].state = s
  BY DEF Alike, LogInfo

LEMMA AddGoing ==
  ASSUME infos \in [Names -> LogInfo], spent \in Budget, clock \in Nat, addFrom \in Nat,
         NEW n \in Names, AddGoesOn(n)
  PROVE  /\ Underway(infos[n])
         /\ UNCHANGED << clock, queue, prodVars, thread, workVars, histVars >>
         /\ addFrom' \in {addFrom, clock, 0}
         /\ infos' \in [Names -> LogInfo]
         /\ \A m \in Names : m # n => infos'[m] = infos[m]
         /\ \/ infos'[n].state \in {"checked", "tested", "timed"} /\ mgr' = mgr
            \/ infos'[n].state \in {"raw", "ready"} /\ mgr' = "free"
         /\ \E b \in AddForms(infos[n]) : Alike(infos'[n], b)
<1> DEFINE a == infos[n]
<1>1. a \in LogInfo
  OBVIOUS
<1>2. \A b \in AddForms(a) : b \in LogInfo
  BY <1>1, ClosedType, EndedType, OpenedType DEF AddForms
<1>3. addFrom + Interval \in Nat
  BY IntervalAssumption
<1>4. a \in AddForms(a) /\ Opened(a, addFrom) \in AddForms(a)
  BY DEF AddForms
<1>5. ASSUME NEW b \in AddForms(a), NEW c \in LogInfo, NEW s \in {"raw", "ready"} \union Adding,
             NEW t,
             c = [b EXCEPT !.state = s] \/ c = [b EXCEPT !.state = s, !.next = t],
             infos' = [infos EXCEPT ![n] = c]
      PROVE  /\ infos' \in [Names -> LogInfo] /\ infos'[n].state = s
             /\ \A m \in Names : m # n => infos'[m] = infos[m]
             /\ \E d \in AddForms(a) : Alike(infos'[n], d)
  <2>1. infos' \in [Names -> LogInfo] /\ infos'[n] = c
    BY <1>5
  <2>2. Alike(c, b) /\ c.state = s
    <3>1. b \in LogInfo
      BY <1>2
    <3>2. /\ Alike([b EXCEPT !.state = s], b) /\ [b EXCEPT !.state = s].state = s
          /\ Alike([b EXCEPT !.state = s, !.next = t], b)
          /\ [b EXCEPT !.state = s, !.next = t].state = s
      BY <3>1, AlikeStates, AlikeNexts
    <3>3. QED
      BY <1>5, <3>2, Zenon
  <2>3. \A m \in Names : m # n => infos'[m] = infos[m]
    BY <1>5
  <2>4. QED
    BY <2>1, <2>2, <2>3
<1>6. CASE AddCheck(n)
  <2>1. /\ Underway(a) /\ addFrom' \in {addFrom, clock, 0}
        /\ UNCHANGED << clock, queue, prodVars, thread, workVars, histVars >>
    BY <1>6 DEF AddCheck, AddReturns, Underway, Adding
  <2>2. PICK s \in {"checked", "raw"} :
           /\ infos' = [infos EXCEPT ![n] = [a EXCEPT !.state = s]]
           /\ s = "checked" => mgr' = mgr
           /\ s = "raw" => mgr' = "free"
    BY <1>6 DEF AddCheck, AddReturns
  <2>3. [a EXCEPT !.state = s] \in LogInfo /\ s \in {"raw", "ready"} \union Adding
    BY <1>1, AddedType DEF Adding
  <2>4. /\ infos' \in [Names -> LogInfo] /\ infos'[n].state = s
        /\ \A m \in Names : m # n => infos'[m] = infos[m]
        /\ \E d \in AddForms(a) : Alike(infos'[n], d)
    BY <1>4, <1>5, <2>2, <2>3
  <2>5. QED
    BY <2>1, <2>2, <2>4
<1>7. CASE AddTest(n)
  <2>1. /\ Underway(a) /\ addFrom' \in {addFrom, clock, 0}
        /\ UNCHANGED << clock, queue, prodVars, thread, workVars, histVars >>
    BY <1>7 DEF AddTest, AddReturns, Underway, Adding
  <2>2. \E b \in AddForms(a) : \E s \in {"tested", "ready"} :
           /\ infos' = [infos EXCEPT ![n] = [b EXCEPT !.state = s]]
           /\ s = "tested" => mgr' = mgr
           /\ s = "ready" => mgr' = "free"
    BY <1>7 DEF AddTest, AddForms, AddReturns
  <2>3. PICK b \in AddForms(a), s \in {"tested", "ready"} :
           /\ infos' = [infos EXCEPT ![n] = [b EXCEPT !.state = s]]
           /\ s = "tested" => mgr' = mgr
           /\ s = "ready" => mgr' = "free"
    BY <2>2
  <2>4. [b EXCEPT !.state = s] \in LogInfo /\ s \in {"raw", "ready"} \union Adding
    BY <1>2, AddedType DEF Adding
  <2>5. /\ infos' \in [Names -> LogInfo] /\ infos'[n].state = s
        /\ \A m \in Names : m # n => infos'[m] = infos[m]
        /\ \E d \in AddForms(a) : Alike(infos'[n], d)
    BY <1>5, <2>3, <2>4
  <2>6. QED
    BY <2>1, <2>3, <2>5
<1>8. CASE AddNext(n)
  <2>1. /\ Underway(a) /\ addFrom' = addFrom /\ mgr' = mgr
        /\ UNCHANGED << clock, queue, prodVars, thread, workVars, histVars >>
        /\ infos' = [infos EXCEPT ![n] =
                       [a EXCEPT !.state = "timed", !.next = addFrom + Interval]]
    BY <1>8 DEF AddNext, Underway, Adding, mgrVars
  <2>2. /\ [a EXCEPT !.state = "timed", !.next = addFrom + Interval] \in LogInfo
        /\ "timed" \in {"raw", "ready"} \union Adding
    BY <1>1, <1>3 DEF LogInfo, Adding
  <2>3. /\ infos' \in [Names -> LogInfo] /\ infos'[n].state = "timed"
        /\ \A m \in Names : m # n => infos'[m] = infos[m]
        /\ \E d \in AddForms(a) : Alike(infos'[n], d)
    BY <1>4, <1>5, <2>1, <2>2
  <2>4. QED
    BY <2>1, <2>3
<1>9. CASE AddOpen(n)
  <2>1. /\ Underway(a) /\ addFrom' = 0 /\ mgr' = "free"
        /\ UNCHANGED << clock, queue, prodVars, thread, workVars, histVars >>
    BY <1>9 DEF AddOpen, AddReturns, Underway, Adding
  <2>2. \E b \in AddForms(a) :
          \/ infos' = [infos EXCEPT ![n] = [b EXCEPT !.state = "ready", !.next = a.next]]
          \/ infos' = [infos EXCEPT ![n] = [b EXCEPT !.state = "ready"]]
    BY <1>4, <1>9 DEF AddOpen
  <2>3. PICK b \in AddForms(a) :
          \/ infos' = [infos EXCEPT ![n] = [b EXCEPT !.state = "ready", !.next = a.next]]
          \/ infos' = [infos EXCEPT ![n] = [b EXCEPT !.state = "ready"]]
    BY <2>2
  <2>4. b \in LogInfo /\ a.next \in Nat /\ "ready" \in {"raw", "ready"} \union Adding
    BY <1>1, <1>2 DEF LogInfo
  <2>5. /\ [b EXCEPT !.state = "ready", !.next = a.next] \in LogInfo
        /\ [b EXCEPT !.state = "ready"] \in LogInfo
    BY <2>4 DEF LogInfo
  <2>6. /\ infos' \in [Names -> LogInfo] /\ infos'[n].state = "ready"
        /\ \A m \in Names : m # n => infos'[m] = infos[m]
        /\ \E d \in AddForms(a) : Alike(infos'[n], d)
    BY <1>5, <2>3, <2>4, <2>5
  <2>7. QED
    BY <2>1, <2>6
<1>10. QED
  BY <1>6, <1>7, <1>8, <1>9 DEF AddGoesOn

(***************************************************************************)
(* Where no worker has opened the log, add() opens it, unless a file       *)
(* operation fails.                                                        *)
(***************************************************************************)
LEMMA AddAlone ==
  ASSUME infos \in [Names -> LogInfo], spent \in Budget, addFrom \in Nat,
         NEW n \in Names, AddGoesOn(n), infos[n].writer = "null"
  PROVE  \/ /\ Alike(infos'[n], infos[n]) /\ Underway(infos'[n])
            /\ mgr' = mgr /\ spent' = spent
         \/ /\ Alike(infos'[n], Opened(infos[n], addFrom)) /\ infos'[n].state = "ready"
            /\ spent'.faults = spent.faults
         \/ /\ Alike(infos'[n], infos[n]) /\ infos'[n].state = "ready"
            /\ spent'.faults = spent.faults + 1
<1> DEFINE a == infos[n]
<1>1. a \in LogInfo
  OBVIOUS
<1>2. Raced(FALSE) = spent
  BY DEF Raced, Budget
<1>3. CASE AddCheck(n)
  <2>1. /\ infos' = [infos EXCEPT ![n] = [a EXCEPT !.state = "checked"]]
        /\ mgr' = mgr /\ spent' = spent
    BY <1>3 DEF AddCheck
  <2>2. infos'[n] = [a EXCEPT !.state = "checked"] /\ infos'[n] \in LogInfo
    BY <1>1, <2>1, AddedType DEF Adding
  <2>3. QED
    BY <1>1, <2>1, <2>2, AlikeStates DEF Underway, Adding
<1>4. CASE AddTest(n)
  <2>1. /\ infos' = [infos EXCEPT ![n] = [a EXCEPT !.state = "tested"]]
        /\ mgr' = mgr /\ spent' = spent
    BY <1>2, <1>4 DEF AddTest
  <2>2. infos'[n] = [a EXCEPT !.state = "tested"] /\ infos'[n] \in LogInfo
    BY <1>1, <2>1, AddedType DEF Adding
  <2>3. QED
    BY <1>1, <2>1, <2>2, AlikeStates DEF Underway, Adding
<1>5. CASE AddNext(n)
  <2>1. /\ infos' = [infos EXCEPT ![n] =
                       [a EXCEPT !.state = "timed", !.next = addFrom + Interval]]
        /\ mgr' = mgr /\ spent' = spent
    BY <1>2, <1>5 DEF AddNext, mgrVars
  <2>2. /\ infos'[n] = [a EXCEPT !.state = "timed", !.next = addFrom + Interval]
        /\ infos'[n] \in LogInfo
    <3>1. addFrom + Interval \in Nat
      BY IntervalAssumption
    <3>2. [a EXCEPT !.state = "timed", !.next = addFrom + Interval] \in LogInfo
      BY <1>1, <3>1 DEF Adding, LogInfo
    <3>3. QED
      BY <2>1, <3>2
  <2>3. QED
    BY <1>1, <2>1, <2>2, AlikeNexts DEF Underway, Adding
<1>6. CASE AddOpen(n)
  <2> DEFINE met == a.writer # "null" \/ a.next # addFrom + Interval
             b == Opened(a, addFrom)
  <2>1. \/ /\ infos' = [infos EXCEPT ![n] = [b EXCEPT !.state = "ready", !.next = a.next]]
           /\ spent' = Raced(met)
        \/ /\ CanFail /\ infos' = [infos EXCEPT ![n] = [a EXCEPT !.state = "ready"]]
           /\ spent' = [spent EXCEPT !.faults = @ + 1]
    BY <1>6 DEF AddOpen
  <2>2. met \in BOOLEAN /\ b \in LogInfo /\ a.next \in Nat
    BY <1>1, OpenedType DEF LogInfo
  <2> HIDE DEF met, b
  <2>3. Raced(met) \in Budget /\ Raced(met).faults = spent.faults
    BY <2>2, RaceSpent
  <2>4. CASE /\ infos' = [infos EXCEPT ![n] = [b EXCEPT !.state = "ready", !.next = a.next]]
             /\ spent' = Raced(met)
    <3>1. /\ infos'[n] = [b EXCEPT !.state = "ready", !.next = a.next]
          /\ infos'[n] \in LogInfo
      BY <1>1, <2>2, <2>4 DEF LogInfo
    <3>2. Alike(infos'[n], b) /\ infos'[n].state = "ready"
      <4>1. /\ Alike([b EXCEPT !.state = "ready", !.next = a.next], b)
            /\ [b EXCEPT !.state = "ready", !.next = a.next].state = "ready"
        <5>1. b \in LogInfo
          BY <2>2
        <5>2. \A t : /\ Alike([b EXCEPT !.state = "ready", !.next = t], b)
                     /\ [b EXCEPT !.state = "ready", !.next = t].state = "ready"
          BY <5>1, AlikeNexts
        <5>3. QED
          BY <5>2
      <4>2. QED
        BY <3>1, <4>1
    <3>3. QED
      BY <2>3, <2>4, <3>2 DEF b
  <2>5. CASE /\ CanFail /\ infos' = [infos EXCEPT ![n] = [a EXCEPT !.state = "ready"]]
             /\ spent' = [spent EXCEPT !.faults = @ + 1]
    <3>1. infos'[n] = [a EXCEPT !.state = "ready"] /\ infos'[n] \in LogInfo
      BY <1>1, <2>5, AddedType
    <3>2. Alike(infos'[n], a) /\ infos'[n].state = "ready"
      BY <1>1, <3>1, AlikeStates
    <3>3. spent'.faults = spent.faults + 1
      BY <2>5 DEF Budget
    <3>4. QED
      BY <3>2, <3>3
  <2>6. QED
    BY <2>1, <2>4, <2>5
<1>7. QED
  BY <1>3, <1>4, <1>5, <1>6 DEF AddGoesOn

LEMMA AddGoingSpent ==
  ASSUME spent \in Budget, NEW n \in Names, AddGoesOn(n)
  PROVE  /\ spent' \in Budget /\ spent'.kills = spent.kills
         /\ spent'.dups = spent.dups /\ spent'.restarts = spent.restarts
         /\ spent'.overlaps = spent.overlaps
         /\ spent'.faults \in {spent.faults, spent.faults + 1}
         /\ spent'.races \in {spent.races, spent.races + 1}
         /\ spent'.faults = spent.faults \/ spent'.races = spent.races
<1>1. \/ spent' = spent
      \/ \E met \in BOOLEAN : spent' = Raced(met)
      \/ CanFail /\ spent' = [spent EXCEPT !.faults = @ + 1]
  <2>1. CASE AddCheck(n)
    BY <2>1 DEF AddCheck
  <2>2. CASE AddTest(n)
    <3>1. (infos[n].writer # "null") \in BOOLEAN /\ TRUE \in BOOLEAN
      OBVIOUS
    <3>2. QED
      BY <2>2, <3>1, Zenon DEF AddTest
  <2>3. CASE AddNext(n)
    <3>1. (infos[n].writer # "null") \in BOOLEAN
      OBVIOUS
    <3>2. QED
      BY <2>3, <3>1, Zenon DEF AddNext
  <2>4. CASE AddOpen(n)
    <3>1. (infos[n].writer # "null" \/ infos[n].next # addFrom + Interval) \in BOOLEAN
      OBVIOUS
    <3>2. QED
      BY <2>4, <3>1, Zenon DEF AddOpen
  <2>5. QED
    BY <2>1, <2>2, <2>3, <2>4 DEF AddGoesOn
<1>2. CASE spent' = spent
  BY <1>2
<1>3. ASSUME NEW met \in BOOLEAN, spent' = Raced(met)
      PROVE  /\ spent' \in Budget /\ spent'.kills = spent.kills
             /\ spent'.dups = spent.dups /\ spent'.restarts = spent.restarts
             /\ spent'.overlaps = spent.overlaps /\ spent'.faults = spent.faults
             /\ spent'.races \in {spent.races, spent.races + 1}
  BY <1>3, RaceSpent
<1>4. ASSUME CanFail, spent' = [spent EXCEPT !.faults = @ + 1]
      PROVE  /\ spent' \in Budget /\ spent'.kills = spent.kills
             /\ spent'.dups = spent.dups /\ spent'.restarts = spent.restarts
             /\ spent'.overlaps = spent.overlaps /\ spent'.faults = spent.faults + 1
             /\ spent'.races = spent.races
  <2>1. spent.faults < MaxFaults
    BY <1>4 DEF CanFail
  <2>2. spent'.kills = spent.kills /\ spent'.races = spent.races
    BY <1>4 DEF Budget
  <2>3. QED
    BY <1>4, <2>1, <2>2, FaultSpent
<1>5. QED
  BY <1>1, <1>2, <1>3, <1>4

-----------------------------------------------------------------------------
(***************************************************************************)
(* TypeOK alone is not inductive.  startup() stays within Workers because  *)
(* every worker but the first is a counted restart, and the worker has a   *)
(* log in hand from Take until it wrote it or failed to.                   *)
(***************************************************************************)
TypeInv ==
  /\ TypeOK
  /\ spent.overlaps <= spent.restarts
  /\ thread <= spent.restarts + 1
  /\ \A w \in Workers : pc[w] \in {"taken", "write"} => Len(hand[w]) = 1

LEMMA TypeInvInit == Init => TypeInv
<1> SUFFICES ASSUME Init
             PROVE  TypeInv
  OBVIOUS
<1>1. NewLogInfo \in LogInfo
  <2>1. << >> \in Seq(Line) /\ << >> \in Seq(ClosedFile)
    OBVIOUS
  <2>2. QED
    BY <2>1 DEF NewLogInfo, LogInfo
<1>2. MaxRestarts \in Nat /\ MaxWrites \in Nat /\ MaxTime \in Nat /\ MaxFaults \in Nat
      /\ MaxKills \in Nat /\ MaxDups \in Nat /\ Limit \in Nat \ {0} /\ Capacity \in Nat \ {0}
  BY CsvLogAssumption
<1>3. << >> \in Seq(Log) /\ Len(<< >>) = 0
  OBVIOUS
<1>4. spent \in Budget
  BY <1>2 DEF Init, Budget, NothingSpent
<1>5. thread \in {0} \union Workers /\ infos \in [Names -> LogInfo]
  BY <1>1 DEF Init
<1>6. /\ missed \in [Names -> Nat] /\ counter \in [Names -> 0 .. Limit - 1]
      /\ clock \in 0 .. MaxTime /\ nextId \in 1 .. MaxWrites + 1
      /\ stamp \in [Workers -> 0 .. MaxTime] /\ addFrom \in 0 .. MaxTime
  BY <1>2 DEF Init
<1>7. /\ queue \in Seq(Log) /\ Len(queue) <= Capacity /\ accepted \in Seq(Log)
      /\ list \in [Producers -> Seq(Log)] /\ out \in [Producers -> Seq(Log)]
      /\ hand \in [Workers -> Seq(Log)]
  BY <1>2, <1>3 DEF Init
<1>8. TypeOK
  BY <1>4, <1>5, <1>6, <1>7 DEF Init, TypeOK
<1>9. QED
  BY <1>8 DEF TypeInv, Init, NothingSpent

(***************************************************************************)
(* The actions of the threads that log.                                    *)
(***************************************************************************)
LEMMA ProducerType ==
  ASSUME TypeInv, NEW p \in Producers, Producer(p)
  PROVE  TypeInv'
<1> USE DEF TypeInv, TypeOK, workVars, histVars, prodVars, mgrVars
<1>1. Limit \in Nat \ {0} /\ Capacity \in Nat /\ MaxWrites \in Nat
  BY CsvLogAssumption
<1>2. CASE Begin(p)
  BY <1>2 DEF Begin
<1>3. CASE Commit(p)
  <2>1. out' \in [Producers -> Seq(Log)] /\ list' \in [Producers -> Seq(Log)]
    BY <1>3 DEF Commit
  <2>2. QED
    BY <1>3, <2>1 DEF Commit
<1>4. CASE Rollback(p)
  <2>1. list' \in [Producers -> Seq(Log)]
    BY <1>4 DEF Rollback
  <2>2. QED
    BY <1>4, <2>1 DEF Rollback
<1>5. CASE Offer(p)
  <2>1. Head(out[p]) \in Log /\ Tail(out[p]) \in Seq(Log)
    BY <1>5 DEF Offer
  <2>2. queue' \in Seq(Log) /\ Len(queue') <= Capacity /\ accepted' \in Seq(Log)
    BY <1>1, <1>5, <2>1 DEF Offer
  <2>3. out' \in [Producers -> Seq(Log)]
    BY <1>5, <2>1 DEF Offer
  <2>4. late' \in BOOLEAN /\ early' \in BOOLEAN
    BY <1>5 DEF Offer, Stopping, Added
  <2>5. QED
    BY <1>5, <2>2, <2>3, <2>4 DEF Offer
<1>6. CASE OfferFails(p)
  <2>1. out' \in [Producers -> Seq(Log)]
    BY <1>6 DEF OfferFails
  <2>2. missed' \in [Names -> Nat]
    <3> DEFINE lost(n) == { i \in 1 .. Len(out[p]) : out[p][i].name = n /\ out[p][i].flush }
    <3>1. \A n \in Names : Cardinality(lost(n)) \in Nat
      <4> SUFFICES ASSUME NEW n \in Names
                   PROVE  Cardinality(lost(n)) \in Nat
        OBVIOUS
      <4>1. Len(out[p]) \in Nat /\ lost(n) \subseteq 1 .. Len(out[p])
        OBVIOUS
      <4>2. IsFiniteSet(1 .. Len(out[p]))
        BY <4>1, FS_Interval
      <4>3. IsFiniteSet(lost(n))
        BY <4>1, <4>2, FS_Subset
      <4>4. QED
        BY <4>3, FS_CardinalityType
    <3>2. missed' = [n \in Names |-> missed[n] + Cardinality(lost(n))]
      BY <1>6 DEF OfferFails
    <3>3. QED
      <4> HIDE DEF lost
      <4>1. QED
        BY <3>1, <3>2
  <2>3. QED
    BY <1>6, <2>1, <2>2 DEF OfferFails
<1>7. ASSUME NEW n \in Names, NEW roll \in BOOLEAN, WriteLog(p, n, roll)
      PROVE  TypeInv'
  <2> DEFINE count == (counter[n] + 1) % Limit
             log == [ id |-> nextId, by |-> p, name |-> n, roll |-> roll,
                      via |-> IF n \in TxNames /\ list[p] # << >> THEN list[p][1].via ELSE n,
                      flush |-> \/ FlushMode[n] = "auto" /\ count = 0
                                \/ FlushMode[n] = "always" ]
  <2>1. count \in 0 .. Limit - 1
    BY <1>1
  <2>2. log \in Log
    <3>1. list[p] # << >> => list[p][1] \in Log
      OBVIOUS
    <3>2. list[p] # << >> => list[p][1].via \in Names
      BY <3>1 DEF Log
    <3>3. nextId \in Nat
      BY <1>1
    <3>4. (IF n \in TxNames /\ list[p] # << >> THEN list[p][1].via ELSE n) \in Names
      BY <3>2
    <3>5. ((FlushMode[n] = "auto" /\ count = 0) \/ FlushMode[n] = "always") \in BOOLEAN
      OBVIOUS
    <3>6. QED
      <4> HIDE DEF count
      <4>1. QED
        BY <3>3, <3>4, <3>5 DEF Log
  <2>3. /\ list' = [list EXCEPT ![p] = Append(@, log)] \/ list' = list
        /\ out' = [out EXCEPT ![p] = << log >>] \/ out' = out
    <3> HIDE DEF count
    <3>1. QED
      BY <1>7 DEF WriteLog, count
  <2>4. list' \in [Producers -> Seq(Log)] /\ out' \in [Producers -> Seq(Log)]
    <3> HIDE DEF log
    <3>1. << log >> \in Seq(Log) /\ Append(list[p], log) \in Seq(Log)
      BY <2>2
    <3>2. QED
      BY <2>3, <3>1
  <2>5. counter' = [counter EXCEPT ![n] = IF FlushMode[n] = "auto" THEN count ELSE @]
    BY <1>7 DEF WriteLog
  <2>6. counter' \in [Names -> 0 .. Limit - 1]
    <3> HIDE DEF count
    <3>1. QED
      BY <2>1, <2>5
  <2>7. nextId' \in 1 .. MaxWrites + 1
    BY <1>1, <1>7 DEF WriteLog
  <2>8. QED
    BY <1>7, <2>4, <2>6, <2>7 DEF WriteLog
<1>8. QED
  BY <1>2, <1>3, <1>4, <1>5, <1>6, <1>7 DEF Producer

(***************************************************************************)
(* The actions of the manager.                                             *)
(***************************************************************************)
LEMMA ManagerType ==
  ASSUME TypeInv, Manager
  PROVE  TypeInv'
<1> USE DEF TypeInv, TypeOK, workVars, histVars, prodVars, mgrVars
<1>1. /\ MaxRestarts \in Nat /\ MaxFaults \in Nat /\ MaxDups \in Nat
      /\ clock \in Nat /\ spent \in Budget
  BY CsvLogAssumption
<1>2. CASE Startup
  <2>1. thread + 1 \in Workers /\ thread' = thread + 1
    <3>1. /\ thread' = thread + 1 /\ thread \in Nat
          /\ thread = 0 \/ spent.restarts < MaxRestarts
          /\ thread <= spent.restarts + 1
      BY <1>2 DEF Startup, Workers
    <3>2. spent.restarts \in 0 .. MaxRestarts
      BY <1>1 DEF Budget
    <3>3. QED
      BY <1>1, <3>1, <3>2 DEF Workers
  <2>2. /\ spent' \in Budget /\ spent'.overlaps <= spent'.restarts
        /\ thread' <= spent'.restarts + 1
    <3>1. CASE thread = 0
      BY <1>1, <1>2, <2>1, <3>1 DEF Startup, Budget
    <3>2. CASE thread # 0
      <4> DEFINE o == IF \E w \in Workers : Running(w) THEN spent.overlaps + 1
                                                      ELSE spent.overlaps
      <4>1. o \in {spent.overlaps, spent.overlaps + 1}
        OBVIOUS
      <4>2. spent.restarts < MaxRestarts /\ spent' = [spent EXCEPT !.restarts = @ + 1,
                                                                  !.overlaps = o]
        BY <1>2, <3>2 DEF Startup
      <4> HIDE DEF o
      <4>3. /\ spent' \in Budget /\ spent'.overlaps <= spent'.restarts
            /\ spent'.restarts = spent.restarts + 1
        BY <1>1, <4>1, <4>2, RestartSpent
      <4>4. spent.restarts \in Nat
        BY <1>1 DEF Budget
      <4>5. QED
        BY <2>1, <4>3, <4>4
    <3>3. QED
      BY <3>1, <3>2
  <2>3. /\ pc' \in [Workers -> {"none", "check", "take", "taken", "write", "closing", "dead"}]
        /\ \A w \in Workers : pc'[w] \in {"taken", "write"} => pc[w] \in {"taken", "write"}
    BY <1>2, <2>1 DEF Startup
  <2>4. QED
    BY <1>2, <2>1, <2>2, <2>3 DEF Startup
<1>3. CASE Interrupt
  BY <1>3 DEF Interrupt
<1>4. CASE Stop
  BY <1>4 DEF Stop
<1>5. CASE JoinReturns
  BY <1>5 DEF JoinReturns
<1>6. ASSUME NEW n \in Names, Add(n)
      PROVE  TypeInv'
  <2>1. [infos[n] EXCEPT !.state = "linked"] \in LogInfo
    BY AddedType DEF Adding
  <2>2. infos' \in [Names -> LogInfo]
    BY <1>6, <2>1 DEF Add
  <2>3. late' \in BOOLEAN
    BY <1>6 DEF Add, Stopping
  <2>4. QED
    BY <1>6, <2>2, <2>3 DEF Add
<1>7. ASSUME NEW n \in Names, AddDuplicate(n)
      PROVE  TypeInv'
  <2>1. infos' \in [Names -> LogInfo]
    <3>1. Forgotten(infos[n]) \in LogInfo
      BY EndedType
    <3>2. [Forgotten(infos[n]) EXCEPT !.state = "raw"] \in LogInfo
      BY <3>1, AddedType
    <3>3. QED
      BY <1>7, <3>2 DEF AddDuplicate
  <2>2. /\ spent' \in Budget /\ spent'.overlaps <= spent'.restarts
        /\ spent'.restarts = spent.restarts
    BY <1>1, <1>7, DupSpent DEF AddDuplicate
  <2>3. QED
    BY <1>7, <2>1, <2>2 DEF AddDuplicate
<1>8. ASSUME NEW n \in Names, AddGoesOn(n)
      PROVE  TypeInv'
  <2>1. addFrom \in Nat /\ MaxTime \in Nat
    BY CsvLogAssumption
  <2>2. /\ UNCHANGED << clock, queue, prodVars, thread, workVars, histVars >>
        /\ mgr' \in {mgr, "free"} /\ addFrom' \in {addFrom, clock, 0}
        /\ infos' \in [Names -> LogInfo]
    BY <1>1, <1>8, <2>1, AddGoing DEF Alike
  <2>3. /\ spent' \in Budget /\ spent'.overlaps = spent.overlaps
        /\ spent'.restarts = spent.restarts
    BY <1>1, <1>8, AddGoingSpent
  <2>4. QED
    BY <2>1, <2>2, <2>3
<1>9. QED
  BY <1>2, <1>3, <1>4, <1>5, <1>6, <1>7, <1>8 DEF Manager, AddGoesOn

(***************************************************************************)
(* The actions of a worker.                                                *)
(***************************************************************************)
LEMMA WorkerType ==
  ASSUME TypeInv, NEW w \in Workers, Worker(w)
  PROVE  TypeInv'
<1> USE DEF TypeInv, TypeOK, workVars, histVars, prodVars, mgrVars
<1>1. MaxFaults \in Nat /\ MaxTime \in Nat /\ clock \in Nat /\ spent \in Budget
  BY CsvLogAssumption
<1>2. Registered \in SUBSET Names
  BY DEF Registered
<1>3. CASE CheckStop(w)
  <2>1. todo' \in [Workers -> SUBSET Names]
    BY <1>2, <1>3 DEF CheckStop, Leave
  <2>2. /\ pc' \in [Workers -> {"none", "check", "take", "taken", "write", "closing", "dead"}]
        /\ cause' \in [Workers -> {"none", "stopped", "interrupted", "failed"}]
    BY <1>3 DEF CheckStop, Leave
  <2>3. \E v \in {"closing", "take"} : pc' = [pc EXCEPT ![w] = v]
    BY <1>3 DEF CheckStop, Leave
  <2>4. \A v \in Workers : pc'[v] \in {"taken", "write"} => pc[v] \in {"taken", "write"}
    BY <2>3
  <2>5. QED
    BY <1>3, <2>1, <2>2, <2>4 DEF CheckStop
<1>4. CASE Take(w)
  <2>1. Head(queue) \in Log /\ Tail(queue) \in Seq(Log) /\ Len(Tail(queue)) <= Capacity
    BY <1>4, CsvLogAssumption DEF Take
  <2>2. << Head(queue) >> \in Seq(Log) /\ Len(<< Head(queue) >>) = 1
    BY <2>1
  <2>3. hand' \in [Workers -> Seq(Log)] /\ hand' = [hand EXCEPT ![w] = << Head(queue) >>]
    BY <1>4, <2>2 DEF Take
  <2>4. \A v \in Workers : pc'[v] \in {"taken", "write"} => Len(hand'[v]) = 1
    BY <1>4, <2>2, <2>3 DEF Take
  <2>5. QED
    BY <1>4, <2>1, <2>3, <2>4 DEF Take
<1>5. CASE TakeInterrupted(w)
  <2>1. todo' \in [Workers -> SUBSET Names]
    BY <1>2, <1>5 DEF TakeInterrupted, Leave
  <2>2. QED
    BY <1>5, <2>1 DEF TakeInterrupted, Leave
<1>6. CASE ReadClock(w)
  BY <1>6 DEF ReadClock
<1>7. CASE Write(w)
  <2> DEFINE n == hand[w][1].name
  <2>1. hand[w][1] \in Log
    BY <1>7 DEF Write
  <2>2. n \in Names /\ hand[w][1].id \in Nat
    BY <2>1 DEF Log
  <2>3. Current(w, infos[n]) \in LogInfo
    BY <1>1, <2>2, ReloadedType DEF Current
  <2>4. Logged(w, Current(w, infos[n])) \in LogInfo
    <3>1. stamp[w] \in Nat
      BY <1>1
    <3>2. [id |-> hand[w][1].id, at |-> stamp[w]] \in Line
      BY <2>2, <3>1 DEF Line
    <3> DEFINE c == Current(w, infos[n])
    <3>3. Written(c, [id |-> hand[w][1].id, at |-> stamp[w]]) \in LogInfo
      BY <2>3, <3>2, WrittenType
    <3>4. (IF hand[w][1].roll THEN c ELSE Written(c, [id |-> hand[w][1].id, at |-> stamp[w]]))
            \in LogInfo
      BY <2>3, <3>3
    <3>5. QED
      BY <3>4, EndedType DEF Logged
  <2>5. infos' \in [Names -> LogInfo]
    BY <1>7, <2>4 DEF Write
  <2>6. hand' \in [Workers -> Seq(Log)]
    BY <1>7 DEF Write
  <2>7. QED
    BY <1>7, <2>5, <2>6 DEF Write
<1>8. CASE WriteFails(w)
  <2> DEFINE n == hand[w][1].name
  <2>1. hand[w][1] \in Log
    BY <1>8 DEF WriteFails
  <2>2. n \in Names
    BY <2>1 DEF Log
  <2>3. NotRenamed(infos[n]) \in LogInfo /\ FailedReloads(infos[n], clock) \subseteq LogInfo
    BY <1>1, <2>2, EndedType, ReloadedType
  <2>4. infos' \in [Names -> LogInfo]
    BY <1>8, <2>2, <2>3 DEF WriteFails
  <2>5. /\ spent' \in Budget /\ spent'.overlaps <= spent'.restarts
        /\ spent'.restarts = spent.restarts
    BY <1>1, <1>8, FaultSpent DEF WriteFails, CanFail
  <2>6. hand' \in [Workers -> Seq(Log)] /\ todo' \in [Workers -> SUBSET Names]
    BY <1>2, <1>8 DEF WriteFails, Leave
  <2>7. QED
    BY <1>8, <2>4, <2>5, <2>6 DEF WriteFails, Leave
<1>9. ASSUME NEW n \in Names, CloseOne(w, n)
      PROVE  TypeInv'
  <2>1. /\ Closed(infos[n], clock) \in LogInfo /\ Broken(infos[n]) \in LogInfo
        /\ NotRenamed(infos[n]) \in LogInfo
    BY <1>1, ClosedType, EndedType
  <2>2. infos' \in [Names -> LogInfo]
    BY <1>9, <2>1 DEF CloseOne
  <2>3. /\ spent' \in Budget /\ spent'.overlaps <= spent'.restarts
        /\ spent'.restarts = spent.restarts
    BY <1>1, <1>9, FaultSpent DEF CloseOne, CanFail
  <2>4. todo' \in [Workers -> SUBSET Names]
    <3>1. \/ todo' = [todo EXCEPT ![w] = @ \ {n}]
          \/ todo' = [todo EXCEPT ![w] = {}]
      BY <1>9 DEF CloseOne
    <3>2. todo \in [Workers -> SUBSET Names] /\ todo[w] \ {n} \in SUBSET Names
      OBVIOUS
    <3>3. CASE todo' = [todo EXCEPT ![w] = @ \ {n}]
      <4>1. QED
        BY <3>2, <3>3
    <3>4. CASE todo' = [todo EXCEPT ![w] = {}]
      BY <3>2, <3>4
    <3>5. QED
      BY <3>1, <3>3, <3>4
  <2>5. /\ pc' \in [Workers -> {"none", "check", "take", "taken", "write", "closing", "dead"}]
        /\ \A v \in Workers : pc'[v] \in {"taken", "write"} => pc[v] \in {"taken", "write"}
    BY <1>9 DEF CloseOne
  <2>6. QED
    BY <1>9, <2>2, <2>3, <2>4, <2>5 DEF CloseOne
<1>10. QED
  BY <1>3, <1>4, <1>5, <1>6, <1>7, <1>8, <1>9 DEF Worker

LEMMA TypeInvNext ==
  ASSUME TypeInv, [Next]_vars
  PROVE  TypeInv'
<1> USE DEF TypeInv, TypeOK, workVars, histVars, prodVars, mgrVars
<1>1. /\ MaxTime \in Nat /\ MaxKills \in Nat /\ Capacity \in Nat /\ Limit \in Nat \ {0}
      /\ spent \in Budget
  BY CsvLogAssumption
<1>2. CASE Tick
  BY <1>1, <1>2 DEF Tick
<1>3. CASE Manager
  BY <1>3, ManagerType
<1>4. CASE Kill
  <2>1. \A n \in Names : Forgotten(infos[n]) \in LogInfo
    BY EndedType
  <2>2. infos' \in [Names -> LogInfo]
    BY <1>4, <2>1 DEF Kill
  <2>3. << >> \in Seq(Log) /\ Len(<< >>) = 0
    OBVIOUS
  <2>4. /\ queue' \in Seq(Log) /\ Len(queue') <= Capacity
        /\ list' \in [Producers -> Seq(Log)] /\ out' \in [Producers -> Seq(Log)]
        /\ hand' \in [Workers -> Seq(Log)]
    BY <1>1, <1>4, <2>3 DEF Kill
  <2>5. /\ spent' \in Budget /\ spent'.overlaps <= spent'.restarts
        /\ 0 <= spent'.restarts
    <3>1. spent.restarts >= 0
      BY <1>1 DEF Budget
    <3>2. QED
      BY <1>1, <1>4, <3>1, KillSpent DEF Kill
  <2>6. thread' = 0 /\ thread' <= spent'.restarts + 1
    <3>1. spent'.restarts \in Nat
      BY <2>5, CsvLogAssumption DEF Budget
    <3>2. QED
      BY <1>4, <3>1 DEF Kill
  <2>7. /\ counter' \in [Names -> 0 .. Limit - 1] /\ stamp' \in [Workers -> 0 .. MaxTime]
        /\ missed' \in [Names -> Nat]
    BY <1>1, <1>4 DEF Kill
  <2>8. \A w \in Workers : pc'[w] = "none"
    BY <1>4 DEF Kill
  <2>9. /\ inTx' \in [Producers -> BOOLEAN] /\ todo' \in [Workers -> SUBSET Names]
        /\ stop' \in [Workers -> BOOLEAN] /\ intr' \in [Workers -> BOOLEAN]
        /\ cause' \in [Workers -> {"none", "stopped", "interrupted", "failed"}]
        /\ pc' \in [Workers -> {"none", "check", "take", "taken", "write", "closing", "dead"}]
        /\ addFrom' \in 0 .. MaxTime
    BY <1>1, <1>4 DEF Kill
  <2>10. QED
    BY <1>4, <2>2, <2>4, <2>5, <2>6, <2>7, <2>8, <2>9 DEF Kill
<1>5. ASSUME NEW p \in Producers, Producer(p)
      PROVE  TypeInv'
  BY <1>5, ProducerType
<1>6. ASSUME NEW w \in Workers, Worker(w)
      PROVE  TypeInv'
  BY <1>6, WorkerType
<1>7. ASSUME NEW n \in Names, Spill(n)
      PROVE  TypeInv'
  <2>1. Spilled(infos[n]) \in LogInfo /\ SpilledHalf(infos[n]) \in LogInfo
    BY <1>7, SpilledType DEF Spill
  <2>2. infos' \in [Names -> LogInfo]
    BY <1>7, <2>1 DEF Spill
  <2>3. QED
    BY <1>7, <2>2 DEF Spill
<1>8. CASE UNCHANGED vars
  BY <1>8 DEF vars
<1>9. QED
  BY <1>2, <1>3, <1>4, <1>5, <1>6, <1>7, <1>8 DEF Next

(***************************************************************************)
(* Every variable keeps its type, for every number of threads, logs,       *)
(* restarts and kills: the queue never holds more than queueCapacity logs, *)
(* a producer only ever hands over logs, and every operation on a log's    *)
(* files leaves well-formed files.  (CsvLogMamager, CsvLogThread,          *)
(* CsvLogInfo)                                                             *)
(***************************************************************************)
THEOREM TypeCorrect == Spec => []TypeOK
<1>1. Init => TypeInv
  BY TypeInvInit
<1>2. TypeInv /\ [Next]_vars => TypeInv'
  BY TypeInvNext
<1>3. TypeInv => TypeOK
  BY DEF TypeInv
<1>4. QED
  BY <1>1, <1>2, <1>3, PTL DEF Spec

LEMMA TypeInvCorrect == Spec => []TypeInv
<1>1. Init => TypeInv
  BY TypeInvInit
<1>2. TypeInv /\ [Next]_vars => TypeInv'
  BY TypeInvNext
<1>3. QED
  BY <1>1, <1>2, PTL DEF Spec

-----------------------------------------------------------------------------
(***************************************************************************)
(* Names of the closed files.  A step leaves the closed files of a log as  *)
(* they are or closes one more of them.                                    *)
(***************************************************************************)
CsvNamed(csv) ==
  /\ \A i, j \in DOMAIN csv :
       csv[i].from = csv[j].from /\ csv[i].index = csv[j].index => i = j
  /\ \A i \in DOMAIN csv : csv[i].index > 0 =>
       \E j \in DOMAIN csv : csv[j].from = csv[i].from /\ csv[j].index = csv[i].index - 1

LEMMA CsvKept ==
  ASSUME NEW a \in LogInfo, NEW from, NEW line
  PROVE  /\ NotRenamed(a).csv = a.csv /\ Broken(a).csv = a.csv
         /\ Flushed(a).csv = a.csv /\ Forgotten(a).csv = a.csv
         /\ Opened(a, from).csv = a.csv /\ NotOpened(a, from).csv = a.csv
         /\ Written(a, line).csv = a.csv /\ Spilled(a).csv = a.csv
         /\ SpilledHalf(a).csv = a.csv
<1>1. Emptied(a).csv = a.csv /\ Emptied(a) \in LogInfo
  BY EndedType DEF LogInfo, Emptied
<1>2. NotRenamed(a).csv = a.csv /\ Flushed(a).csv = a.csv
  BY <1>1 DEF LogInfo, NotRenamed, Flushed
<1>3. Broken(a).csv = a.csv /\ Forgotten(a).csv = a.csv
  BY DEF LogInfo, Broken, Forgotten
<1>4. Opened(a, from).csv = a.csv /\ NotOpened(a, from).csv = a.csv
  BY DEF LogInfo, Opened, NotOpened
<1>5. Written(a, line).csv = a.csv /\ Spilled(a).csv = a.csv /\ SpilledHalf(a).csv = a.csv
  BY DEF LogInfo, Written, Spilled, SpilledHalf
<1>6. QED
  BY <1>2, <1>3, <1>4, <1>5

LEMMA CsvStep ==
  ASSUME TypeInv, [Next]_vars, NEW n \in Names
  PROVE  infos'[n].csv \in {infos[n].csv, Closed(infos[n], clock).csv}
<1> DEFINE a == infos[n]
<1>1. /\ a \in LogInfo /\ clock \in Nat /\ infos \in [Names -> LogInfo]
      /\ addFrom \in Nat /\ spent \in Budget
  BY CsvLogAssumption DEF TypeInv, TypeOK
<1>2. Closed(a, clock) \in LogInfo
  BY <1>1, ClosedType
<1>3. ASSUME NEW m \in Names, Add(m)
      PROVE  infos'[n].csv = a.csv
  BY <1>1, <1>3 DEF Add, LogInfo
<1>4. ASSUME NEW m \in Names, AddDuplicate(m)
      PROVE  infos'[n].csv = a.csv
  <2>1. Forgotten(a) \in LogInfo /\ Forgotten(a).csv = a.csv
    BY <1>1, EndedType, CsvKept
  <2>2. [Forgotten(a) EXCEPT !.state = "raw"].csv = a.csv
    BY <2>1 DEF LogInfo
  <2>3. QED
    BY <1>1, <1>4, <2>2 DEF AddDuplicate
<1>5. ASSUME NEW m \in Names, AddGoesOn(m)
       PROVE  infos'[n].csv \in {a.csv, Closed(a, clock).csv}
  <2>1. CASE m = n
    <3>1. \A b \in AddForms(a) : b.csv \in {a.csv, Closed(a, clock).csv}
      BY <1>1, CsvKept DEF AddForms
    <3>2. QED
      BY <1>1, <1>5, <2>1, <3>1, AddGoing DEF Alike
  <2>2. CASE m # n
    BY <1>1, <1>5, <2>2, AddGoing
  <2>3. QED
    BY <2>1, <2>2
<1>6. CASE Kill
  BY <1>1, <1>6, CsvKept DEF Kill
<1>7. ASSUME NEW m \in Names, Spill(m)
      PROVE  infos'[n].csv = a.csv
  BY <1>1, <1>7, CsvKept DEF Spill
<1>8. ASSUME NEW w \in Workers, Write(w)
      PROVE  infos'[n].csv \in {a.csv, Closed(a, clock).csv}
  <2>1. Current(w, a) \in LogInfo
    BY <1>1, ReloadedType DEF Current
  <2>2. Current(w, a).csv \in {a.csv, Closed(a, clock).csv}
    BY <1>1, <1>2, CsvKept DEF Current, Reloaded
  <2>3. Logged(w, Current(w, a)).csv = Current(w, a).csv
    <3> DEFINE c == Current(w, a)
               line == [id |-> hand[w][1].id, at |-> stamp[w]]
    <3>1. hand[w][1] \in Log /\ stamp[w] \in Nat
      <4>1. hand[w] \in Seq(Log) /\ Len(hand[w]) = 1
        BY <1>8 DEF TypeInv, TypeOK, Write
      <4>2. stamp[w] \in 0 .. MaxTime /\ MaxTime \in Nat
        BY CsvLogAssumption DEF TypeInv, TypeOK
      <4>3. QED
        BY <4>1, <4>2
    <3>2. line \in Line
      BY <3>1 DEF Log, Line
    <3>3. Written(c, line) \in LogInfo /\ Written(c, line).csv = c.csv
      BY <2>1, <3>2, WrittenType, CsvKept
    <3>4. /\ Flushed(c).csv = c.csv
          /\ Flushed(Written(c, line)).csv = c.csv
      BY <2>1, <3>3, CsvKept
    <3>5. Logged(w, c).csv = c.csv
      <4> HIDE DEF c
      <4>1. QED
        BY <3>3, <3>4 DEF Logged
    <3>6. QED
      BY <3>5
  <2>4. CASE n = hand[w][1].name
    <3>1. infos'[n] = Logged(w, Current(w, a))
      BY <1>1, <1>8, <2>4 DEF Write
    <3>2. QED
      BY <2>2, <2>3, <3>1
  <2>5. CASE n # hand[w][1].name
    BY <1>1, <1>8, <2>5 DEF Write
  <2>6. QED
    BY <2>4, <2>5
<1>9. ASSUME NEW w \in Workers, WriteFails(w)
      PROVE  infos'[n].csv \in {a.csv, Closed(a, clock).csv}
  <2>1. NotRenamed(a).csv = a.csv /\ Broken(a).csv = a.csv
    BY <1>1, CsvKept
  <2>2. \A b \in FailedReloads(a, clock) : b.csv \in {a.csv, Closed(a, clock).csv}
    <3>1. /\ NotOpened(a, clock).csv = a.csv
          /\ NotOpened(Closed(a, clock), clock).csv = Closed(a, clock).csv
      BY <1>1, <1>2, CsvKept
    <3>2. QED
      BY <2>1, <3>1 DEF FailedReloads
  <2>3. QED
    BY <1>1, <1>9, <2>1, <2>2 DEF WriteFails
<1>10. ASSUME NEW w \in Workers, NEW m \in Names, CloseOne(w, m)
      PROVE  infos'[n].csv \in {a.csv, Closed(a, clock).csv}
  <2>1. NotRenamed(a).csv = a.csv /\ Broken(a).csv = a.csv
    BY <1>1, CsvKept
  <2>2. QED
    BY <1>1, <1>10, <2>1 DEF CloseOne
<1>11. infos' = infos \/ infos'[n].csv \in {a.csv, Closed(a, clock).csv}
  BY <1>3, <1>4, <1>6, <1>7, <1>8, <1>9, <1>10, <1>5, InfosStep
<1>12. QED
  BY <1>11

LEMMA ClosedNamed ==
  ASSUME NEW a \in LogInfo, NEW from \in Nat, CsvNamed(a.csv)
  PROVE  CsvNamed(Closed(a, from).csv)
<1> DEFINE new == FreeIndex(a, from)
           file == [ from |-> from, index |-> new, lines |-> a.log \o a.buf ]
           csv == a.csv
           N == Len(csv)
<1>1. csv \in Seq(ClosedFile) /\ N \in Nat /\ DOMAIN csv = 1 .. N
  BY DEF LogInfo
<1>2. /\ new \in 0 .. N /\ new \notin Taken(a, from)
      /\ \A j \in (0 .. N) \ Taken(a, from) : new <= j
  BY FreeIndexExists
<1>3. new \in Nat
  <2> HIDE DEF new, N
  <2>1. QED
    BY <1>1, <1>2
<1>4. Closed(a, from).csv = Append(csv, file)
  BY DEF Closed, LogInfo
<1>5. /\ DOMAIN Append(csv, file) = 1 .. N + 1
      /\ Append(csv, file)[N + 1] = file
      /\ \A k \in 1 .. N : Append(csv, file)[k] = csv[k]
  <2> HIDE DEF file
  <2>1. QED
    BY <1>1
<1>6. \A k \in 1 .. N : ~ (csv[k].from = from /\ csv[k].index = new)
  <2> HIDE DEF new
  <2>1. QED
    BY <1>2 DEF Taken
<1>7. \A k \in 1 .. N : csv[k].index \in Nat
  <2>1. \A k \in 1 .. N : csv[k] \in ClosedFile
    BY <1>1
  <2>2. QED
    BY <2>1 DEF ClosedFile
<1>8. new > 0 => \E j \in 1 .. N : csv[j].from = from /\ csv[j].index = new - 1
  <2> HIDE DEF new, N
  <2> SUFFICES ASSUME new > 0
               PROVE  new - 1 \in Taken(a, from)
    BY DEF Taken, N
  <2>1. new - 1 \in 0 .. N /\ ~ (new <= new - 1)
    BY <1>1, <1>2, <1>3
  <2>2. QED
    BY <1>2, <2>1
<1>9. file.from = from /\ file.index = new
  OBVIOUS
<1> HIDE DEF file, new, csv, N
<1> DEFINE all == Append(csv, file)
<1>10. ASSUME NEW i \in 1 .. N + 1, NEW j \in 1 .. N + 1,
              all[i].from = all[j].from, all[i].index = all[j].index
       PROVE  i = j
  <2>1. CASE i \in 1 .. N /\ j \in 1 .. N
    BY <1>1, <1>5, <1>10, <2>1 DEF CsvNamed, csv
  <2>2. CASE i = N + 1 /\ j \in 1 .. N
    BY <1>5, <1>6, <1>9, <1>10, <2>2
  <2>3. CASE i \in 1 .. N /\ j = N + 1
    BY <1>5, <1>6, <1>9, <1>10, <2>3
  <2>4. QED
    BY <1>1, <2>1, <2>2, <2>3
<1>11. ASSUME NEW i \in 1 .. N + 1, all[i].index > 0
       PROVE  \E j \in 1 .. N + 1 : all[j].from = all[i].from /\ all[j].index = all[i].index - 1
  <2>1. \A k \in 1 .. N : k \in 1 .. N + 1
    BY <1>1
  <2>2. CASE i \in 1 .. N
    <3>1. PICK j \in 1 .. N : csv[j].from = csv[i].from /\ csv[j].index = csv[i].index - 1
      BY <1>1, <1>5, <1>11, <2>2 DEF CsvNamed, csv
    <3>2. QED
      BY <1>5, <2>1, <2>2, <3>1
  <2>3. CASE i = N + 1
    <3>1. PICK j \in 1 .. N : csv[j].from = from /\ csv[j].index = new - 1
      BY <1>5, <1>8, <1>9, <1>11, <2>3
    <3>2. QED
      BY <1>5, <1>9, <2>1, <2>3, <3>1
  <2>4. QED
    BY <1>1, <2>2, <2>3
<1>12. DOMAIN all = 1 .. N + 1
  BY <1>5
<1>13. CsvNamed(all)
  <2> HIDE DEF all
  <2>1. QED
    BY <1>10, <1>11, <1>12 DEF CsvNamed
<1>14. QED
  BY <1>4, <1>13

(***************************************************************************)
(* Two closed files of a log never have the same name and the indexes of   *)
(* an interval have no gap, for every number of workers, kills, failures   *)
(* and duplicate adds: close() renames to the first free index, and no     *)
(* other operation touches a closed file.  (CsvLogInfo.close)              *)
(***************************************************************************)
THEOREM NamesAlwaysDistinct == Spec => []NamesDistinct
<1>1. Init => NamesDistinct
  BY DEF Init, NamesDistinct, NewLogInfo
<1>2. TypeInv /\ NamesDistinct /\ [Next]_vars => NamesDistinct'
  <2> SUFFICES ASSUME TypeInv, NamesDistinct, [Next]_vars, NEW n \in Names
               PROVE  CsvNamed(infos'[n].csv)
    BY DEF NamesDistinct, CsvNamed
  <2>1. CsvNamed(infos[n].csv)
    BY DEF NamesDistinct, CsvNamed
  <2>2. infos[n] \in LogInfo /\ clock \in Nat
    BY CsvLogAssumption DEF TypeInv, TypeOK
  <2>3. CsvNamed(Closed(infos[n], clock).csv)
    BY <2>1, <2>2, ClosedNamed
  <2>4. QED
    BY <2>1, <2>3, CsvStep
<1>3. QED
  BY <1>1, <1>2, TypeInvCorrect, PTL DEF Spec

-----------------------------------------------------------------------------
(***************************************************************************)
(* A finished log stays finished: with its writer closed and its file      *)
(* renamed, it can neither be reloaded nor closed, and a closed writer     *)
(* swallows what is written.                                               *)
(***************************************************************************)
LEMMA FinishedStep ==
  ASSUME TypeInv, [Next]_vars, NEW n \in Names,
         infos[n].state = "ready", infos'[n].state = "ready",
         infos[n].writer = "closed", ~infos[n].exists
  PROVE  infos'[n].csv = infos[n].csv /\ ~infos'[n].exists
<1> DEFINE a == infos[n]
<1>1. /\ a \in LogInfo /\ infos \in [Names -> LogInfo] /\ clock \in Nat
      /\ addFrom \in Nat /\ spent \in Budget
  BY CsvLogAssumption DEF TypeInv, TypeOK
<1>2. ~Closeable(a) /\ ~Reloadable(a) /\ NotRenamed(a) = a
  BY DEF Closeable, Reloadable, NotRenamed
<1>3. ASSUME NEW m \in Names, Add(m)
      PROVE  infos'[n] = a
  BY <1>1, <1>3 DEF Add
<1>4. ASSUME NEW m \in Names, AddDuplicate(m)
      PROVE  infos'[n] = a
  <2>1. CASE m = n
    <3>1. Forgotten(a) \in LogInfo
      BY <1>1, EndedType
    <3>2. [Forgotten(a) EXCEPT !.state = "raw"].state = "raw"
      BY <3>1 DEF LogInfo
    <3>3. infos'[n].state = "raw"
      BY <1>1, <1>4, <2>1, <3>2 DEF AddDuplicate
    <3>4. QED
      BY <3>3
  <2>2. CASE m # n
    BY <1>1, <1>4, <2>2 DEF AddDuplicate
  <2>3. QED
    BY <2>1, <2>2
<1>5. ~Kill
  <2>1. Forgotten(a).state = "absent"
    BY <1>1 DEF Forgotten, LogInfo
  <2>2. QED
    BY <1>1, <2>1 DEF Kill
<1>6. ASSUME NEW m \in Names, Spill(m)
      PROVE  infos'[n].csv = a.csv /\ ~infos'[n].exists
  <2>1. /\ Spilled(a).csv = a.csv /\ Spilled(a).exists = a.exists
        /\ SpilledHalf(a).csv = a.csv /\ SpilledHalf(a).exists = a.exists
    BY <1>1 DEF Spilled, SpilledHalf, LogInfo
  <2>2. QED
    BY <1>1, <1>6, <2>1 DEF Spill
<1>7. ASSUME NEW w \in Workers, Write(w)
      PROVE  infos'[n] = a
  <2>1. CASE n = hand[w][1].name
    <3>1. ~NeedsReload(w, a)
      BY <1>2, <1>7, <2>1 DEF Write, Writable
    <3>2. Logged(w, Current(w, a)) = a
      BY <3>1 DEF Current, Logged, Written, Flushed
    <3>3. QED
      BY <1>1, <1>7, <2>1, <3>2 DEF Write
  <2>2. CASE n # hand[w][1].name
    BY <1>1, <1>7, <2>2 DEF Write
  <2>3. QED
    BY <2>1, <2>2
<1>8. ASSUME NEW w \in Workers, WriteFails(w)
      PROVE  infos'[n] = a
  <2>1. CASE n = hand[w][1].name
    <3>1. ~ (Writable(w, a) /\ NeedsReload(w, a))
      BY <1>2 DEF Writable
    <3>2. QED
      BY <1>1, <1>2, <1>8, <2>1, <3>1 DEF WriteFails
  <2>2. CASE n # hand[w][1].name
    BY <1>1, <1>8, <2>2 DEF WriteFails
  <2>3. QED
    BY <2>1, <2>2
<1>9. ASSUME NEW w \in Workers, NEW m \in Names, CloseOne(w, m)
      PROVE  infos'[n] = a
  BY <1>1, <1>2, <1>9 DEF CloseOne
<1>10. ASSUME NEW m \in Names, AddGoesOn(m)
       PROVE  infos'[n] = a
  <2>1. m # n
    BY <1>1, <1>10, AddGoing DEF Underway, Adding
  <2>2. QED
    BY <1>1, <1>10, <2>1, AddGoing
<1>11. infos' = infos \/ infos'[n] = a \/ (infos'[n].csv = a.csv /\ ~infos'[n].exists)
  BY <1>3, <1>4, <1>5, <1>6, <1>7, <1>8, <1>9, <1>10, InfosStep
<1>12. QED
  BY <1>11

(***************************************************************************)
(* No later startup() brings a finished log back, whatever else happens in *)
(* the process: its closed files stay as they are and it never has a file  *)
(* to write to again.  (CsvLogMamager.startup, CsvLogInfo.close)           *)
(***************************************************************************)
THEOREM FinishedStaysFinished == Spec => FinishedForGood
<1>1. TypeInv /\ [Next]_vars =>
        [\A n \in Names :
           /\ infos[n].state = "ready" /\ infos'[n].state = "ready"
           /\ infos[n].writer = "closed" /\ ~infos[n].exists
           => infos'[n].csv = infos[n].csv /\ ~infos'[n].exists]_vars
  BY FinishedStep
<1>2. QED
  BY <1>1, TypeInvCorrect, PTL DEF Spec, FinishedForGood

-----------------------------------------------------------------------------
(***************************************************************************)
(* Only add() and the end of the process change the state of a log.        *)
(***************************************************************************)
LEMMA EndedState ==
  ASSUME NEW a \in LogInfo, NEW from, NEW line
  PROVE  /\ Closed(a, from).state = a.state /\ Broken(a).state = a.state
         /\ NotRenamed(a).state = a.state /\ Opened(a, from).state = a.state
         /\ NotOpened(a, from).state = a.state /\ Written(a, line).state = a.state
         /\ Flushed(a).state = a.state /\ Spilled(a).state = a.state
         /\ SpilledHalf(a).state = a.state
<1>1. Emptied(a) \in LogInfo /\ Emptied(a).state = a.state
  BY EndedType DEF LogInfo, Emptied
<1>2. NotRenamed(a).state = a.state /\ Flushed(a).state = a.state
  BY <1>1 DEF LogInfo, NotRenamed, Flushed
<1>3. /\ Closed(a, from).state = a.state /\ Broken(a).state = a.state
      /\ Opened(a, from).state = a.state /\ NotOpened(a, from).state = a.state
  BY DEF LogInfo, Closed, Broken, Opened, NotOpened
<1>4. /\ Written(a, line).state = a.state /\ Spilled(a).state = a.state
      /\ SpilledHalf(a).state = a.state
  BY DEF LogInfo, Written, Spilled, SpilledHalf
<1>5. QED
  BY <1>2, <1>3, <1>4

LEMMA LoggedState ==
  ASSUME TypeInv, NEW a \in LogInfo, NEW w \in Workers, pc[w] = "write"
  PROVE  /\ Current(w, a) \in LogInfo /\ Current(w, a).state = a.state
         /\ Logged(w, Current(w, a)).state = a.state
         /\ \A b \in FailedReloads(a, clock) : b.state = a.state
<1> DEFINE b == Current(w, a)
           line == [id |-> hand[w][1].id, at |-> stamp[w]]
<1>1. clock \in Nat /\ stamp[w] \in Nat /\ hand[w] \in Seq(Log) /\ Len(hand[w]) = 1
  BY CsvLogAssumption DEF TypeInv, TypeOK
<1>2. Closed(a, clock) \in LogInfo
  BY <1>1, ClosedType
<1>3. b \in LogInfo /\ b.state = a.state
  <2>1. Reloaded(a, clock) \in LogInfo
    BY <1>1, ReloadedType
  <2>2. Reloaded(a, clock).state = a.state
    BY <1>2, EndedState DEF Reloaded
  <2>3. QED
    BY <2>1, <2>2 DEF Current
<1>4. line \in Line
  <2>1. hand[w][1] \in Log
    BY <1>1
  <2>2. QED
    BY <1>1, <2>1 DEF Log, Line
<1>5. Written(b, line) \in LogInfo /\ Written(b, line).state = a.state
  <2> HIDE DEF b, line
  <2>1. QED
    BY <1>3, <1>4, WrittenType, EndedState
<1>6. Flushed(b).state = a.state /\ Flushed(Written(b, line)).state = a.state
  <2> HIDE DEF b, line
  <2>1. QED
    BY <1>3, <1>5, EndedState
<1>7. Logged(w, b).state = a.state
  <2> HIDE DEF b
  <2>1. QED
    BY <1>3, <1>5, <1>6 DEF Logged
<1>8. \A c \in FailedReloads(a, clock) : c.state = a.state
  BY <1>2, EndedState DEF FailedReloads
<1>9. QED
  BY <1>3, <1>7, <1>8

LEMMA StateStep ==
  ASSUME TypeInv, [Next]_vars, NEW n \in Names
  PROVE  \/ infos'[n].state = infos[n].state
         \/ Kill \/ Add(n) \/ AddGoesOn(n) \/ AddDuplicate(n)
<1> DEFINE a == infos[n]
<1>1. /\ a \in LogInfo /\ infos \in [Names -> LogInfo] /\ clock \in Nat
      /\ addFrom \in Nat /\ spent \in Budget
  BY CsvLogAssumption DEF TypeInv, TypeOK
<1>2. ASSUME NEW m \in Names, Add(m) \/ AddDuplicate(m), m # n
      PROVE  infos'[n] = a
  BY <1>1, <1>2 DEF Add, AddDuplicate
<1>3. ASSUME NEW m \in Names, AddGoesOn(m), m # n
      PROVE  infos'[n] = a
  BY <1>1, <1>3, AddGoing
<1>4. ASSUME NEW m \in Names, Spill(m)
      PROVE  infos'[n].state = a.state
  BY <1>1, <1>4, EndedState DEF Spill
<1>5. ASSUME NEW w \in Workers, Write(w)
      PROVE  infos'[n].state = a.state
  <2>1. Logged(w, Current(w, a)).state = a.state
    BY <1>1, <1>5, LoggedState DEF Write
  <2>2. QED
    BY <1>1, <1>5, <2>1 DEF Write
<1>6. ASSUME NEW w \in Workers, WriteFails(w)
      PROVE  infos'[n].state = a.state
  <2>1. \A b \in FailedReloads(a, clock) \union {NotRenamed(a)} : b.state = a.state
    BY <1>1, <1>6, EndedState, LoggedState DEF WriteFails
  <2>2. QED
    BY <1>1, <1>6, <2>1 DEF WriteFails
<1>7. ASSUME NEW w \in Workers, NEW m \in Names, CloseOne(w, m)
      PROVE  infos'[n].state = a.state
  <2>1. \A b \in {Closed(a, clock), Broken(a), NotRenamed(a)} : b.state = a.state
    BY <1>1, EndedState
  <2>2. QED
    BY <1>1, <1>7, <2>1 DEF CloseOne
<1>8. QED
  BY <1>2, <1>3, <1>4, <1>5, <1>6, <1>7, InfosStep

(***************************************************************************)
(* The steps that change the queue or the hands.                           *)
(***************************************************************************)
LEMMA QueueStep ==
  ASSUME [Next]_vars
  PROVE  \/ UNCHANGED << queue, hand >>
         \/ Kill
         \/ \E p \in Producers : Offer(p)
         \/ \E w \in Workers : Take(w) \/ Write(w) \/ WriteFails(w)
<1> DEFINE Same == UNCHANGED << queue, hand >>
<1>1. ASSUME Manager
      PROVE  Same
  BY <1>1 DEF Manager, Startup, Interrupt, Stop, JoinReturns, Add, AddDuplicate, AddCheck,
               AddTest, AddNext, AddOpen, workVars, mgrVars
<1>2. ASSUME NEW w \in Workers, Worker(w), ~Take(w), ~Write(w), ~WriteFails(w)
      PROVE  Same
  BY <1>2 DEF Worker, CheckStop, TakeInterrupted, ReadClock, CloseOne
<1>3. ASSUME NEW n \in Names, Spill(n)
      PROVE  Same
  BY <1>3 DEF Spill, workVars, mgrVars
<1>4. Tick \/ UNCHANGED vars => Same
  BY DEF Tick, vars, workVars
<1>5. ASSUME NEW p \in Producers, Producer(p), ~Offer(p)
      PROVE  Same
  BY <1>5 DEF Producer, Begin, Commit, Rollback, OfferFails, WriteLog, workVars
<1>6. QED
  BY <1>1, <1>2, <1>3, <1>4, <1>5 DEF Next

-----------------------------------------------------------------------------
(***************************************************************************)
(* add() beside a running worker.  A name is being added only while add()  *)
(* holds the monitor, one name at a time, and not after a stop that nobody *)
(* added to; a name nobody added has no writer.  As long as no log was     *)
(* accepted for a name that was still being added, the worker meets none,  *)
(* and so it is add() that opens the file.                                 *)
(***************************************************************************)
AddInv ==
  /\ \A n \in Names : Underway(infos[n]) => mgr = "adding"
  /\ \A m, n \in Names : Underway(infos[m]) /\ Underway(infos[n]) => m = n
  /\ mgr = "adding" /\ Stopping => late
  /\ \A n \in Names : infos[n].state = "absent" =>
       infos[n].writer = "null" /\ infos[n].buf = << >>
  /\ ~early =>
       /\ \A n \in Names : Underway(infos[n]) => infos[n].writer = "null"
       /\ \A k \in DOMAIN queue : Added(infos[queue[k].name])
       /\ \A w \in Workers : \A k \in DOMAIN hand[w] : Added(infos[hand[w][k].name])

LEMMA AddInvInit == Init => AddInv
<1> SUFFICES ASSUME Init
             PROVE  AddInv
  OBVIOUS
<1>1. \A n \in Names : /\ infos[n].state = "absent" /\ infos[n].writer = "null"
                        /\ infos[n].buf = << >>
  BY DEF Init, NewLogInfo
<1>2. \A n \in Names : ~Underway(infos[n])
  BY <1>1 DEF Underway, Adding
<1>3. /\ mgr = "free" /\ DOMAIN queue = {}
      /\ \A w \in Workers : DOMAIN hand[w] = {}
  BY DEF Init
<1>4. QED
  BY <1>1, <1>2, <1>3 DEF AddInv

LEMMA EarlyStays ==
  ASSUME [Next]_vars, ~Kill
  PROVE  early => early'
<1>1. ASSUME Manager
      PROVE  early' = early
  BY <1>1 DEF Manager, Startup, Interrupt, Stop, JoinReturns, Add, AddCheck, AddTest, AddNext,
              AddOpen, AddDuplicate, histVars
<1>2. ASSUME NEW w \in Workers, Worker(w)
      PROVE  early' = early
  BY <1>2 DEF Worker, CheckStop, Take, TakeInterrupted, ReadClock, Write, WriteFails,
              CloseOne, histVars
<1>3. ASSUME NEW p \in Producers, Producer(p)
      PROVE  early => early'
  BY <1>3 DEF Producer, Begin, Commit, Rollback, Offer, OfferFails, WriteLog, histVars
<1>4. ASSUME Tick \/ (\E n \in Names : Spill(n)) \/ UNCHANGED vars
      PROVE  early' = early
  BY <1>4 DEF Tick, Spill, vars, histVars
<1>5. QED
  BY <1>1, <1>2, <1>3, <1>4 DEF Next

LEMMA AddInvNext == TypeInv /\ AddInv /\ [Next]_vars => AddInv'
<1> SUFFICES ASSUME TypeInv, AddInv, [Next]_vars
             PROVE  AddInv'
  OBVIOUS
<1>1. /\ infos \in [Names -> LogInfo] /\ spent \in Budget /\ clock \in Nat /\ addFrom \in Nat
      /\ queue \in Seq(Log) /\ hand \in [Workers -> Seq(Log)]
      /\ out \in [Producers -> Seq(Log)]
      /\ stop \in [Workers -> BOOLEAN]
  BY CsvLogAssumption DEF TypeInv, TypeOK
<1>2. CASE Kill
  <2>1. \A n \in Names : /\ infos'[n].state = "absent" /\ infos'[n].writer = "null"
                          /\ infos'[n].buf = << >>
    BY <1>1, <1>2 DEF Kill, Forgotten, LogInfo
  <2>2. \A n \in Names : ~Underway(infos'[n])
    BY <2>1 DEF Underway, Adding
  <2>3. /\ mgr' = "free" /\ DOMAIN queue' = {}
        /\ \A w \in Workers : DOMAIN hand'[w] = {}
    BY <1>2 DEF Kill
  <2>4. QED
    BY <2>1, <2>2, <2>3 DEF AddInv
<1> SUFFICES ASSUME ~Kill
             PROVE  AddInv'
  BY <1>2
<1>3. ASSUME NEW n \in Names
      PROVE  \/ infos'[n].state = infos[n].state
             \/ Add(n) \/ AddGoesOn(n) \/ AddDuplicate(n)
  BY StateStep
<1>4. ASSUME NEW n \in Names, Add(n)
      PROVE  /\ infos'[n] = [infos[n] EXCEPT !.state = "linked"] /\ infos'[n].state = "linked"
             /\ \A m \in Names : m # n => infos'[m] = infos[m]
             /\ mgr = "free" /\ mgr' = "adding" /\ infos[n].state = "absent"
             /\ stop' = stop /\ late' = (late \/ Stopping)
             /\ UNCHANGED << queue, hand, early >>
  BY <1>1, <1>4 DEF Add, LogInfo, workVars
<1>5. ASSUME NEW n \in Names, AddDuplicate(n)
      PROVE  /\ infos'[n].state = "raw"
             /\ \A m \in Names : m # n => infos'[m] = infos[m]
             /\ mgr = "free" /\ mgr' = mgr /\ stop' = stop /\ late' = late
             /\ UNCHANGED << queue, hand, early >>
  <2>1. Forgotten(infos[n]) \in LogInfo
    BY <1>1, EndedType
  <2>2. [Forgotten(infos[n]) EXCEPT !.state = "raw"].state = "raw"
    BY <2>1 DEF LogInfo
  <2>3. QED
    BY <1>1, <1>5, <2>2 DEF AddDuplicate, mgrVars, workVars, histVars
<1>6. ASSUME NEW n \in Names, AddGoesOn(n)
      PROVE  /\ Underway(infos[n])
             /\ \A m \in Names : m # n => infos'[m] = infos[m]
             /\ \/ Underway(infos'[n]) /\ mgr' = mgr
                \/ Added(infos'[n]) /\ mgr' = "free"
             /\ UNCHANGED << queue, hand, stop, late, early >>
             /\ infos'[n].state # "absent"
  BY <1>1, <1>6, AddGoing DEF Underway, Adding, Added, workVars, histVars
<1>7. \A n \in Names : infos[n].state # "absent" => infos'[n].state # "absent"
  BY <1>3, <1>4, <1>5, <1>6
<1>8. \A n \in Names : Added(infos[n]) => Added(infos'[n])
  BY <1>3, <1>4, <1>5, <1>6 DEF Added, Underway, Adding
<1>9. /\ \A n \in Names : Underway(infos'[n]) => mgr' = "adding"
      /\ \A m, n \in Names : Underway(infos'[m]) /\ Underway(infos'[n]) => m = n
  <2>1. CASE \E n \in Names : Add(n)
    <3>1. PICK n \in Names : Add(n)
      BY <2>1
    <3>2. \A m \in Names : m # n => ~Underway(infos'[m])
      BY <1>4, <3>1 DEF AddInv
    <3>3. QED
      BY <1>4, <3>1, <3>2
  <2>2. CASE \E n \in Names : AddGoesOn(n)
    <3>1. PICK n \in Names : AddGoesOn(n)
      BY <2>2
    <3>2. \A m \in Names : m # n => ~Underway(infos'[m])
      BY <1>6, <3>1 DEF AddInv
    <3>3. Underway(infos'[n]) => mgr' = "adding"
      BY <1>6, <3>1 DEF AddInv, Added, Underway, Adding
    <3>4. QED
      BY <3>2, <3>3
  <2>3. CASE ~ (\E n \in Names : Add(n) \/ AddGoesOn(n))
    <3>1. \A n \in Names : Underway(infos'[n]) => Underway(infos[n])
      BY <1>3, <1>5, <2>3 DEF Underway, Adding
    <3>2. mgr = "adding" => mgr' = "adding"
      <4> SUFFICES ASSUME mgr = "adding"
                   PROVE  mgr' = mgr
        OBVIOUS
      <4>1. ASSUME Manager
            PROVE  mgr' = mgr
        BY <2>3, <4>1
           DEF Manager, AddGoesOn, Startup, Interrupt, Stop, JoinReturns, AddDuplicate
      <4>2. ASSUME NEW w \in Workers, Worker(w)
            PROVE  mgr' = mgr
        BY <4>2 DEF Worker, CheckStop, Take, TakeInterrupted, ReadClock, Write, WriteFails,
                    CloseOne, mgrVars
      <4>3. ASSUME NEW p \in Producers, Producer(p)
            PROVE  mgr' = mgr
        BY <4>3 DEF Producer, Begin, Commit, Rollback, Offer, OfferFails, WriteLog, mgrVars
      <4>4. ASSUME Tick \/ (\E n \in Names : Spill(n)) \/ UNCHANGED vars
            PROVE  mgr' = mgr
        BY <4>4 DEF Tick, Spill, vars, mgrVars
      <4>5. QED
        BY <4>1, <4>2, <4>3, <4>4 DEF Next
    <3>3. QED
      BY <3>1, <3>2 DEF AddInv
  <2>4. QED
    BY <2>1, <2>2, <2>3
<1>10. mgr' = "adding" /\ Stopping' => late'
  <2>1. ASSUME Manager
        PROVE  mgr' = "adding" /\ Stopping' => late'
    <3>1. ASSUME NEW n \in Names, Add(n)
          PROVE  Stopping' => late'
      BY <1>4, <3>1 DEF Stopping
    <3>2. ASSUME NEW n \in Names, AddGoesOn(n)
          PROVE  mgr' = "adding" /\ Stopping' => late'
      BY <1>6, <3>2 DEF AddInv, Stopping
    <3>3. ASSUME NEW n \in Names, AddDuplicate(n)
          PROVE  mgr' # "adding"
      BY <1>5, <3>3
    <3>4. ASSUME Startup \/ Interrupt \/ Stop \/ JoinReturns
          PROVE  mgr' # "adding"
      BY <3>4 DEF Startup, Interrupt, Stop, JoinReturns, mgrVars
    <3>5. QED
      BY <2>1, <3>1, <3>2, <3>3, <3>4 DEF Manager, AddGoesOn
  <2>2. ASSUME UNCHANGED << mgr, stop >>, late => late'
        PROVE  mgr' = "adding" /\ Stopping' => late'
    BY <2>2 DEF AddInv, Stopping
  <2>3. ASSUME NEW w \in Workers, Worker(w)
        PROVE  UNCHANGED << mgr, stop, late >>
    BY <2>3 DEF Worker, CheckStop, Take, TakeInterrupted, ReadClock, Write, WriteFails,
                CloseOne, mgrVars, histVars
  <2>4. ASSUME NEW p \in Producers, Producer(p)
        PROVE  UNCHANGED << mgr, stop >> /\ (late => late')
    <3>1. CASE Offer(p)
      <4>1. late' = (late \/ Stopping) /\ UNCHANGED << mgr, stop >>
        BY <3>1 DEF Offer, mgrVars, workVars
      <4>2. QED
        BY <4>1
    <3>2. CASE ~Offer(p)
      <4>1. UNCHANGED << mgr, stop, late >>
        BY <2>4, <3>2 DEF Producer, Begin, Commit, Rollback, OfferFails, WriteLog, mgrVars,
                          workVars, histVars
      <4>2. QED
        BY <4>1
    <3>3. QED
      BY <3>1, <3>2
  <2>5. ASSUME Tick \/ (\E n \in Names : Spill(n)) \/ UNCHANGED vars
        PROVE  UNCHANGED << mgr, stop, late >>
    BY <2>5 DEF Tick, Spill, vars, mgrVars, workVars, histVars
  <2>6. QED
    BY <2>1, <2>2, <2>3, <2>4, <2>5 DEF Next
<1>11. ASSUME NEW n \in Names, infos[n].writer = "null",
              ~AddGoesOn(n), ~AddDuplicate(n), ~Add(n),
              \A w \in Workers : Write(w) \/ WriteFails(w) => hand[w][1].name # n
       PROVE  infos'[n].writer = "null" /\ (infos[n].buf = << >> => infos'[n].buf = << >>)
  <2> DEFINE a == infos[n]
  <2>1. a \in LogInfo
    BY <1>1
  <2>2. NotRenamed(a) = a /\ ~Closeable(a)
    BY <1>11 DEF NotRenamed, Closeable
  <2>3. ASSUME NEW m \in Names, Add(m) \/ AddDuplicate(m) \/ AddGoesOn(m)
        PROVE  infos'[n] = a
    BY <1>4, <1>5, <1>6, <1>11, <2>3
  <2>4. ASSUME NEW m \in Names, Spill(m)
        PROVE  infos'[n].writer = "null" /\ (a.buf = << >> => infos'[n].buf = << >>)
    <3>1. CASE m = n
      <4>1. a.buf # << >> \/ a.end = "glued"
        BY <2>4, <3>1 DEF Spill
      <4>2. infos'[n] = Spilled(a) \/ infos'[n] = SpilledHalf(a)
        BY <1>1, <2>4, <3>1 DEF Spill
      <4>3. QED
        BY <1>11, <2>1, <4>1, <4>2 DEF Spilled, SpilledHalf, LogInfo
    <3>2. CASE m # n
      BY <1>1, <1>11, <2>4, <3>2 DEF Spill
    <3>3. QED
      BY <3>1, <3>2
  <2>5. ASSUME NEW w \in Workers, Write(w) \/ WriteFails(w)
        PROVE  infos'[n] = a
    BY <1>1, <1>11, <2>5 DEF Write, WriteFails
  <2>6. ASSUME NEW w \in Workers, NEW m \in Names, CloseOne(w, m)
        PROVE  infos'[n] = a
    BY <1>1, <2>2, <2>6 DEF CloseOne
  <2>7. QED
    BY <1>11, <2>3, <2>4, <2>5, <2>6, InfosStep
<1>12. ASSUME NEW n \in Names, infos'[n].state = "absent"
       PROVE  infos'[n].writer = "null" /\ infos'[n].buf = << >>
  <2>1. infos[n].state = "absent" /\ infos[n].writer = "null" /\ infos[n].buf = << >>
    BY <1>7, <1>12 DEF AddInv
  <2>2. ~AddGoesOn(n) /\ ~AddDuplicate(n) /\ ~Add(n)
    BY <1>4, <1>5, <1>6, <1>12
  <2>3. CASE \A w \in Workers : Write(w) \/ WriteFails(w) => hand[w][1].name # n
    BY <1>11, <2>1, <2>2, <2>3
  <2>4. ASSUME NEW w \in Workers, Write(w) \/ WriteFails(w), hand[w][1].name = n
        PROVE  infos'[n] = infos[n]
    <3>1. ~Writable(w, infos[n])
      BY <2>1 DEF Writable
    <3>2. QED
      BY <1>1, <2>1, <2>4, <3>1 DEF Write, WriteFails
  <2>5. QED
    BY <2>1, <2>3, <2>4
<1>13. early => early'
  BY EarlyStays
<1>14. ASSUME ~early'
       PROVE  /\ \A n \in Names : Underway(infos'[n]) => infos'[n].writer = "null"
              /\ \A k \in DOMAIN queue' : Added(infos'[queue'[k].name])
              /\ \A w \in Workers : \A k \in DOMAIN hand'[w] : Added(infos'[hand'[w][k].name])
  <2>1. /\ \A n \in Names : Underway(infos[n]) => infos[n].writer = "null"
        /\ \A k \in DOMAIN queue : Added(infos[queue[k].name])
        /\ \A w \in Workers : \A k \in DOMAIN hand[w] : Added(infos[hand[w][k].name])
    BY <1>13, <1>14 DEF AddInv
  <2>2. ASSUME NEW n \in Names, Underway(infos'[n])
        PROVE  infos'[n].writer = "null"
    <3>1. CASE Add(n)
      BY <1>1, <1>4, <3>1 DEF AddInv, LogInfo
    <3>2. CASE AddGoesOn(n)
      <4>1. infos[n].writer = "null"
        BY <1>6, <2>1, <3>2
      <4>2. Alike(infos'[n], infos[n])
        BY <1>1, <2>2, <3>2, <4>1, AddAlone DEF Underway, Adding
      <4>3. QED
        BY <4>1, <4>2 DEF Alike
    <3>3. CASE ~Add(n) /\ ~AddGoesOn(n)
      <4>1. ~AddDuplicate(n)
        BY <1>5, <2>2 DEF Underway, Adding
      <4>2. Underway(infos[n]) /\ infos[n].writer = "null"
        BY <1>3, <2>1, <2>2, <3>3, <4>1 DEF Underway
      <4>3. ASSUME NEW w \in Workers, Write(w) \/ WriteFails(w)
            PROVE  hand[w][1].name # n
        <5>1. Len(hand[w]) = 1
          BY <4>3 DEF Write, WriteFails, TypeInv
        <5>2. 1 \in DOMAIN hand[w]
          BY <1>1, <5>1
        <5>3. Added(infos[hand[w][1].name])
          BY <2>1, <5>2
        <5>4. QED
          BY <4>2, <5>3 DEF Added, Underway, Adding
      <4>4. QED
        BY <1>11, <3>3, <4>1, <4>2, <4>3
    <3>4. QED
      BY <3>1, <3>2, <3>3
  <2>3. /\ \A k \in DOMAIN queue : queue[k].name \in Names
        /\ \A w \in Workers : \A k \in DOMAIN hand[w] : hand[w][k].name \in Names
    <3>1. \A k \in DOMAIN queue : queue[k] \in Log
      BY <1>1
    <3>2. \A w \in Workers : \A k \in DOMAIN hand[w] : hand[w][k] \in Log
      BY <1>1
    <3>3. QED
      BY <3>1, <3>2 DEF Log
  <2>4. /\ \A k \in DOMAIN queue : Added(infos'[queue[k].name])
        /\ \A w \in Workers : \A k \in DOMAIN hand[w] : Added(infos'[hand[w][k].name])
    BY <1>8, <2>1, <2>3
  <2>5. CASE UNCHANGED << queue, hand >>
    BY <2>2, <2>4, <2>5
  <2>6. ASSUME NEW p \in Producers, Offer(p)
        PROVE  /\ \A k \in DOMAIN queue' : Added(infos'[queue'[k].name])
               /\ hand' = hand
    <3> DEFINE x == Head(out[p])
    <3>1. /\ queue' = Append(queue, x) /\ hand' = hand /\ infos' = infos
          /\ Added(infos[x.name])
      BY <1>14, <2>6 DEF Offer, workVars
    <3>2. \A k \in DOMAIN queue' : queue'[k] = x \/ (k \in DOMAIN queue /\ queue'[k] = queue[k])
      BY <1>1, <3>1
    <3> HIDE DEF x
    <3>3. QED
      BY <2>4, <3>1, <3>2
  <2>7. ASSUME NEW w \in Workers, Take(w)
        PROVE  /\ \A k \in DOMAIN queue' : Added(infos'[queue'[k].name])
               /\ \A v \in Workers : \A k \in DOMAIN hand'[v] : Added(infos'[hand'[v][k].name])
    <3>1. /\ queue # << >> /\ queue' = Tail(queue) /\ hand'[w] = << Head(queue) >>
          /\ \A v \in Workers : v # w => hand'[v] = hand[v]
      BY <1>1, <2>7 DEF Take
    <3>2. /\ \A k \in DOMAIN queue' : \E l \in DOMAIN queue : queue'[k] = queue[l]
          /\ 1 \in DOMAIN queue /\ Head(queue) = queue[1]
      BY <1>1, <3>1
    <3>3. \A k \in DOMAIN hand'[w] : hand'[w][k] = queue[1]
      BY <3>1, <3>2
    <3>4. QED
      BY <2>4, <3>1, <3>2, <3>3
  <2>8. ASSUME NEW w \in Workers, Write(w) \/ WriteFails(w)
        PROVE  /\ queue' = queue
               /\ \A v \in Workers : \A k \in DOMAIN hand'[v] : Added(infos'[hand'[v][k].name])
    <3>1. /\ queue' = queue /\ hand'[w] = << >>
          /\ \A v \in Workers : v # w => hand'[v] = hand[v]
      BY <1>1, <2>8 DEF Write, WriteFails
    <3>2. DOMAIN hand'[w] = {}
      BY <3>1
    <3>3. QED
      BY <2>4, <3>1, <3>2
  <2>9. QED
    BY <2>2, <2>4, <2>5, <2>6, <2>7, <2>8, QueueStep
<1>15. QED
  BY <1>9, <1>10, <1>12, <1>14 DEF AddInv

-----------------------------------------------------------------------------
(***************************************************************************)
(* A clean stop.  While nothing failed, no name was added twice and        *)
(* startup() was called once in the process, only the first worker runs,   *)
(* every log it knows is open until the worker closes it, and once it left *)
(* its loop because it was asked to, the queue stays empty unless somebody *)
(* logs or adds after the stop began.                                      *)
(***************************************************************************)
Fresh == spent.faults = 0 /\ spent.dups = 0 /\ spent.restarts = 0

InUse(a) == a.state = "ready" /\ a.writer = "open" /\ a.exists

PutAway(a) == a.buf = << >> /\ ~a.exists

FirstEnding == pc[1] \in {"closing", "dead"}

Drained ==
  /\ stop[1]
  /\ queue = << >>
  /\ \A n \in todo[1] : InUse(infos[n])
  /\ \A n \in Registered \ todo[1] : PutAway(infos[n])

StopInv ==
  /\ \A w \in Workers : w > thread => pc[w] = "none" /\ ~stop[w]
  /\ \A w \in Workers : pc[w] = "dead" => todo[w] = {}
  /\ Fresh /\ ~early =>
       /\ ~FirstEnding => \A n \in Registered : InUse(infos[n]) \/ Underway(infos[n])
       /\ FirstEnding /\ cause[1] = "stopped" /\ ~late => Drained

LEMMA StopInvClean ==
  ASSUME TypeInv, StopInv
  PROVE  CleanStop
<1> SUFFICES ASSUME NEW w \in Workers, pc[w] = "dead", cause[w] = "stopped", ~late, ~early,
                    spent.faults = 0, spent.dups = 0, spent.restarts = 0
             PROVE  /\ queue = << >>
                    /\ \A n \in Registered : infos[n].buf = << >> /\ ~infos[n].exists
  BY DEF CleanStop
<1>1. thread \in Nat /\ thread <= 1 /\ w \in Nat /\ w >= 1
  BY CsvLogAssumption DEF TypeInv, TypeOK, Workers
<1>2. w = 1
  BY <1>1 DEF StopInv
<1>3. Drained /\ todo[1] = {}
  BY <1>2 DEF StopInv, Fresh, FirstEnding
<1>4. QED
  BY <1>3 DEF Drained, PutAway

LEMMA StopInvInit == Init => StopInv
<1> SUFFICES ASSUME Init
             PROVE  StopInv
  OBVIOUS
<1>1. Registered = {}
  BY DEF Init, Registered, NewLogInfo
<1>2. 1 \in Workers
  BY CsvLogAssumption DEF Workers
<1>3. QED
  BY <1>1, <1>2 DEF Init, StopInv, FirstEnding

LEMMA InUseKept ==
  ASSUME NEW a \in LogInfo, InUse(a)
  PROVE  /\ Closeable(a)
         /\ PutAway(Closed(a, clock))
         /\ InUse(Spilled(a)) /\ InUse(SpilledHalf(a))
         /\ \A w \in Workers : InUse(Logged(w, Current(w, a)))
<1>1. /\ Closeable(a) /\ PutAway(Closed(a, clock))
      /\ InUse(Spilled(a)) /\ InUse(SpilledHalf(a))
  BY DEF LogInfo, InUse, Closeable, Converted, PutAway, Closed, Spilled, SpilledHalf
<1>2. InUse(Opened(Closed(a, clock), clock))
  BY DEF LogInfo, InUse, Closed, Opened
<1>3. \A w \in Workers : InUse(Current(w, a))
  BY <1>2 DEF InUse, Current, Reloaded
<1>4. ASSUME NEW w \in Workers
      PROVE  InUse(Logged(w, Current(w, a)))
  <2> DEFINE b == Current(w, a)
             line == [id |-> hand[w][1].id, at |-> stamp[w]]
  <2>1. InUse(b)
    BY <1>3
  <2>2. InUse(Written(b, line))
    <3> HIDE DEF line
    <3>1. QED
      BY <2>1 DEF InUse, Written
  <2>3. InUse(Flushed(b)) /\ InUse(Flushed(Written(b, line)))
    <3> HIDE DEF b, line
    <3>1. \A c : InUse(c) => InUse(Flushed(c))
      BY DEF InUse, Flushed, Emptied
    <3>2. QED
      BY <2>1, <2>2, <3>1
  <2>4. InUse(Logged(w, b))
    <3> HIDE DEF b
    <3>1. QED
      BY <2>1, <2>2, <2>3 DEF Logged
  <2>5. QED
    BY <2>4
<1>5. QED
  BY <1>1, <1>4

(***************************************************************************)
(* Only the first worker of a fresh process has been started.              *)
(***************************************************************************)
LEMMA OnlyFirst ==
  ASSUME TypeInv, StopInv, Fresh, NEW w \in Workers, pc[w] # "none"
  PROVE  w = 1
<1>1. thread \in Nat /\ thread <= 1 /\ w \in Nat /\ w >= 1
  BY CsvLogAssumption DEF TypeInv, TypeOK, Workers, Fresh
<1>2. QED
  BY <1>1 DEF StopInv

LEMMA StopInvWorker ==
  ASSUME TypeInv, AddInv, StopInv, NEW w \in Workers, Worker(w)
  PROVE  StopInv'
<1>1. /\ infos \in [Names -> LogInfo] /\ hand \in [Workers -> Seq(Log)]
      /\ pc \in [Workers -> {"none", "check", "take", "taken", "write", "closing", "dead"}]
      /\ todo \in [Workers -> SUBSET Names]
      /\ cause \in [Workers -> {"none", "stopped", "interrupted", "failed"}]
      /\ 1 \in Workers
  BY CsvLogAssumption DEF TypeInv, TypeOK, Workers
<1>2. /\ pc[w] # "none" /\ pc[w] # "dead" /\ thread' = thread /\ stop' = stop
      /\ mgr' = mgr /\ late' = late /\ early' = early
  BY DEF Worker, CheckStop, Take, TakeInterrupted, ReadClock, Write, WriteFails, CloseOne,
         mgrVars, histVars
<1>3. \A v \in Workers : v > thread => pc'[v] = "none" /\ ~stop'[v]
  <2>1. \A v \in Workers : v # w => pc'[v] = pc[v]
    BY <1>1 DEF Worker, CheckStop, Take, TakeInterrupted, ReadClock, Write, WriteFails,
                CloseOne, Leave
  <2>2. ~ (w > thread)
    BY <1>2 DEF StopInv
  <2>3. QED
    BY <1>2, <2>1, <2>2 DEF StopInv
<1>4. \A v \in Workers : pc'[v] = "dead" => todo'[v] = {}
  <2>1. \A v \in Workers : v # w => pc'[v] = pc[v] /\ todo'[v] = todo[v]
    BY <1>1 DEF Worker, CheckStop, Take, TakeInterrupted, ReadClock, Write, WriteFails,
                CloseOne, Leave
  <2>2. pc'[w] = "dead" => todo'[w] = {}
    BY <1>1, <1>2 DEF Worker, CheckStop, Take, TakeInterrupted, ReadClock, Write, WriteFails,
                      CloseOne, Leave
  <2>3. QED
    BY <2>1, <2>2 DEF StopInv
<1>5. ASSUME Fresh', ~early'
      PROVE  /\ ~FirstEnding' => \A n \in Registered' : InUse(infos'[n]) \/ Underway(infos'[n])
             /\ FirstEnding' /\ cause'[1] = "stopped" /\ ~late' => Drained'
  <2>1. Fresh /\ spent' = spent /\ spent' # [spent EXCEPT !.faults = @ + 1]
    <3>1. spent \in Budget /\ spent.faults \in Nat
      BY DEF TypeInv, TypeOK, Budget
    <3>2. [spent EXCEPT !.faults = @ + 1].faults = spent.faults + 1
      BY <3>1 DEF Budget
    <3>3. spent' # [spent EXCEPT !.faults = @ + 1]
      <4> DEFINE more == [spent EXCEPT !.faults = @ + 1]
      <4>1. more.faults = spent.faults + 1 /\ spent'.faults = 0
        BY <1>5, <3>2 DEF Fresh
      <4> HIDE DEF more
      <4>2. spent' # more
        BY <3>1, <4>1
      <4>3. QED
        BY <4>2 DEF more
    <3>4. spent' = spent
      BY <3>3 DEF Worker, CheckStop, Take, TakeInterrupted, ReadClock, Write, WriteFails,
                  CloseOne
    <3>5. QED
      BY <1>5, <3>3, <3>4 DEF Fresh
  <2>2. w = 1
    BY <1>2, <2>1, OnlyFirst
  <2>3. ~FirstEnding => \A n \in Registered : InUse(infos[n]) \/ Underway(infos[n])
    BY <1>2, <1>5, <2>1 DEF StopInv
  <2>4. CASE CheckStop(1)
    <3>1. ~FirstEnding /\ infos' = infos /\ queue' = queue
      BY <2>4 DEF CheckStop, FirstEnding
    <3>2. FirstEnding' /\ ~late' => Drained'
      <4> SUFFICES ASSUME FirstEnding', ~late'
                   PROVE  Drained'
        OBVIOUS
      <4>1. stop[1] /\ queue = << >> /\ todo'[1] = Registered
        BY <1>1, <2>4 DEF CheckStop, Leave, FirstEnding
      <4>2. \A n \in Names : ~Underway(infos[n])
        BY <1>1, <1>2, <4>1 DEF AddInv, Stopping
      <4>3. \A n \in Registered : InUse(infos[n])
        BY <2>3, <3>1, <4>2 DEF Registered
      <4>4. QED
        BY <1>2, <3>1, <4>1, <4>3 DEF Drained, Registered
    <3>3. QED
      BY <2>3, <3>1, <3>2 DEF Registered, Underway
  <2>5. CASE Take(1) \/ ReadClock(1)
    BY <1>1, <2>3, <2>5 DEF Take, ReadClock, FirstEnding, Registered, Underway
  <2>6. CASE TakeInterrupted(1)
    BY <1>1, <2>6 DEF TakeInterrupted, Leave, FirstEnding
  <2>7. CASE WriteFails(1)
    BY <1>1, <2>7 DEF WriteFails, Leave, FirstEnding
  <2>8. CASE Write(1)
    <3> DEFINE n == hand[1][1].name
    <3>1. ~FirstEnding /\ ~FirstEnding'
      BY <1>1, <2>8 DEF Write, FirstEnding
    <3>2. n \in Names
      <4>1. hand[1][1] \in Log
        BY <2>8, <1>1 DEF TypeInv, Write
      <4>2. QED
        BY <4>1 DEF Log
    <3>3. InUse(infos[n])
      <4>1. infos[n].state # "absent" /\ Len(hand[1]) = 1
        <5>1. pc[1] = "write" /\ Writable(1, infos[n])
          BY <2>8 DEF Write
        <5>2. Len(hand[1]) = 1
          BY <1>1, <5>1 DEF TypeInv
        <5>3. infos[n].state # "absent"
          BY <5>1 DEF Writable
        <5>4. QED
          BY <5>2, <5>3
      <4>2. 1 \in DOMAIN hand[1]
        BY <1>1, <4>1
      <4>3. Added(infos[n])
        BY <1>1, <1>2, <1>5, <4>2 DEF AddInv
      <4>4. ~Underway(infos[n])
        BY <4>3 DEF Added, Underway, Adding
      <4>5. QED
        BY <2>3, <3>1, <3>2, <4>1, <4>4 DEF Registered
    <3>4. InUse(infos'[n])
      BY <1>1, <2>8, <3>2, <3>3, InUseKept DEF Write
    <3>5. \A m \in Names : m # n => infos'[m] = infos[m]
      BY <1>1, <2>8 DEF Write
    <3>6. QED
      BY <2>3, <3>1, <3>4, <3>5 DEF Registered, Underway
  <2>9. ASSUME NEW n \in Names, CloseOne(1, n)
        PROVE  FirstEnding' /\ (cause'[1] = "stopped" /\ ~late' => Drained')
    <3>1. FirstEnding /\ FirstEnding' /\ cause' = cause /\ late' = late /\ queue' = queue
      BY <1>1, <1>2, <2>9 DEF CloseOne, FirstEnding
    <3>2. ASSUME cause[1] = "stopped", ~late
          PROVE  Drained'
      <4>1. Drained
        BY <1>2, <1>5, <2>1, <3>1, <3>2 DEF StopInv
      <4>2. InUse(infos[n])
        BY <2>9, <4>1 DEF CloseOne, Drained
      <4>3. Closeable(infos[n]) /\ PutAway(Closed(infos[n], clock))
        BY <1>1, <4>2, InUseKept
      <4>4. /\ infos' = [infos EXCEPT ![n] = Closed(@, clock)]
            /\ todo' = [todo EXCEPT ![1] = @ \ {n}]
        BY <1>1, <2>1, <2>9, <4>3 DEF CloseOne
      <4>5. PutAway(infos'[n]) /\ \A m \in Names : m # n => infos'[m] = infos[m]
        BY <1>1, <4>3, <4>4
      <4>6. QED
        BY <1>1, <1>2, <3>1, <4>1, <4>4, <4>5 DEF Drained, Registered
    <3>3. QED
      BY <3>1, <3>2
  <2>10. QED
    BY <2>2, <2>4, <2>5, <2>6, <2>7, <2>8, <2>9 DEF Worker
<1>6. QED
  BY <1>2, <1>3, <1>4, <1>5 DEF StopInv

LEMMA StopInvManager ==
  ASSUME TypeInv, AddInv, StopInv, Manager
  PROVE  StopInv'
<1>1. /\ infos \in [Names -> LogInfo] /\ spent \in Budget /\ thread \in Nat /\ 1 \in Workers
      /\ clock \in Nat /\ addFrom \in Nat
      /\ spent.dups \in Nat /\ spent.restarts \in Nat /\ spent.faults \in Nat
      /\ pc \in [Workers -> {"none", "check", "take", "taken", "write", "closing", "dead"}]
      /\ stop \in [Workers -> BOOLEAN] /\ intr \in [Workers -> BOOLEAN]
  <2>1. spent \in Budget /\ thread \in {0} \union Workers /\ MaxRestarts \in Nat
    BY CsvLogAssumption DEF TypeInv, TypeOK
  <2>2. spent.dups \in Nat /\ spent.restarts \in Nat /\ spent.faults \in Nat
    BY <2>1 DEF Budget
  <2>3. thread \in Nat /\ 1 \in Workers
    BY <2>1 DEF Workers
  <2>4. QED
    <3>1. clock \in Nat /\ addFrom \in Nat
      BY CsvLogAssumption DEF TypeInv, TypeOK
    <3>2. QED
      BY <2>1, <2>2, <2>3, <3>1 DEF TypeInv, TypeOK
<1>2. CASE Startup
  <2>1. /\ thread' = thread + 1 /\ pc' = [pc EXCEPT ![thread + 1] = "check"]
        /\ stop' = stop /\ todo' = todo /\ infos' = infos /\ early' = early
    BY <1>2 DEF Startup, histVars
  <2>2. \A v \in Workers : v > thread' => v > thread /\ v # thread + 1
    BY <1>1, <2>1 DEF Workers
  <2>3. \A v \in Workers : v > thread' => pc'[v] = "none" /\ ~stop'[v]
    BY <1>1, <2>1, <2>2 DEF StopInv
  <2>4. \A v \in Workers : pc'[v] = "dead" => todo'[v] = {}
    BY <1>1, <2>1 DEF StopInv
  <2>5. ASSUME Fresh', ~early'
        PROVE  /\ ~FirstEnding'
               /\ \A n \in Registered' : InUse(infos'[n]) \/ Underway(infos'[n])
    <3>1. thread = 0 /\ Fresh
      <4>1. ASSUME thread # 0
            PROVE  FALSE
        <5> DEFINE o == IF \E w \in Workers : Running(w) THEN spent.overlaps + 1
                                                        ELSE spent.overlaps
        <5>1. spent' = [spent EXCEPT !.restarts = @ + 1, !.overlaps = o]
          BY <1>2, <4>1 DEF Startup
        <5> HIDE DEF o
        <5>2. spent'.restarts = spent.restarts + 1
          BY <1>1, <5>1 DEF Budget
        <5>3. QED
          BY <1>1, <2>5, <5>2 DEF Fresh
      <4>2. QED
        BY <1>2, <2>5, <4>1 DEF Startup, Fresh
    <3>2. pc[1] = "none" /\ pc'[1] = "check"
      BY <1>1, <2>1, <3>1 DEF StopInv
    <3>3. QED
      BY <2>1, <2>5, <3>1, <3>2 DEF StopInv, FirstEnding, Registered, Underway
  <2>6. QED
    BY <2>3, <2>4, <2>5 DEF StopInv
<1>3. CASE Interrupt \/ JoinReturns
  <2>1. UNCHANGED << infos, queue, thread, pc, stop, todo, cause, late, early, spent >>
    BY <1>3 DEF Interrupt, JoinReturns, workVars, histVars, mgrVars
  <2>2. QED
    BY <2>1 DEF StopInv, Fresh, FirstEnding, Drained, Registered, Underway
<1>4. CASE Stop
  <2>1. /\ UNCHANGED << infos, queue, thread, pc, todo, cause, late, early, spent >>
        /\ stop' = [stop EXCEPT ![thread] = TRUE]
    BY <1>4 DEF Stop, histVars
  <2>2. \A v \in Workers : v > thread => ~stop'[v]
    BY <1>1, <2>1 DEF StopInv, Workers
  <2>3. Drained => Drained'
    BY <1>1, <2>1 DEF Drained, Registered
  <2>4. QED
    BY <2>1, <2>2, <2>3 DEF StopInv, Fresh, FirstEnding, Registered, Underway
<1>5. ASSUME NEW n \in Names, Add(n)
      PROVE  StopInv'
  <2>1. /\ UNCHANGED << queue, thread, pc, stop, todo, cause, early, spent >>
        /\ late' = (late \/ Stopping)
    BY <1>5 DEF Add, workVars
  <2>2. Underway(infos'[n]) /\ \A m \in Names : m # n => infos'[m] = infos[m]
    BY <1>1, <1>5 DEF Add, Underway, Adding, LogInfo
  <2>3. ASSUME Fresh', ~early', ~FirstEnding'
        PROVE  \A m \in Registered' : InUse(infos'[m]) \/ Underway(infos'[m])
    BY <2>1, <2>2, <2>3 DEF StopInv, Fresh, FirstEnding, Registered
  <2>4. ASSUME Fresh', ~early', FirstEnding', cause'[1] = "stopped", ~late'
        PROVE  Drained'
    <3>1. stop[1]
      BY <2>1, <2>4 DEF StopInv, Fresh, FirstEnding, Drained
    <3>2. QED
      BY <1>1, <2>1, <2>4, <3>1 DEF Stopping
  <2>5. QED
    BY <2>1, <2>3, <2>4 DEF StopInv
<1>6. ASSUME NEW n \in Names, AddGoesOn(n)
      PROVE  StopInv'
  <2>1. /\ UNCHANGED << queue, thread, pc, stop, todo, cause, late, early >>
        /\ Underway(infos[n]) /\ \A m \in Names : m # n => infos'[m] = infos[m]
    BY <1>1, <1>6, AddGoing DEF workVars, histVars
  <2>2. ASSUME Fresh', ~early'
        PROVE  Fresh /\ (InUse(infos'[n]) \/ Underway(infos'[n]))
    <3>1. infos[n].writer = "null"
      BY <2>1, <2>2 DEF AddInv
    <3>2. spent'.faults # spent.faults + 1 /\ Fresh
      BY <1>1, <1>6, <2>2, AddGoingSpent DEF Fresh
    <3>3. CASE Alike(infos'[n], Opened(infos[n], addFrom)) /\ infos'[n].state = "ready"
      <4>1. /\ Opened(infos[n], addFrom).writer = "open"
            /\ Opened(infos[n], addFrom).exists = TRUE
        BY <1>1 DEF Opened, LogInfo
      <4>2. /\ infos'[n].writer = "open" /\ infos'[n].exists = TRUE
            /\ infos'[n].state = "ready"
        BY <3>3, <4>1 DEF Alike
      <4>3. QED
        BY <3>2, <4>2 DEF InUse
    <3>4. QED
      BY <1>1, <1>6, <3>1, <3>2, <3>3, AddAlone
  <2>3. ASSUME Fresh', ~early', ~FirstEnding'
        PROVE  \A m \in Registered' : InUse(infos'[m]) \/ Underway(infos'[m])
    BY <2>1, <2>2, <2>3 DEF StopInv, FirstEnding, Registered
  <2>4. ASSUME Fresh', ~early', FirstEnding', cause'[1] = "stopped", ~late'
        PROVE  Drained'
    <3>1. stop[1]
      BY <2>1, <2>2, <2>4 DEF StopInv, FirstEnding, Drained
    <3>2. QED
      BY <1>1, <2>1, <2>4, <3>1 DEF AddInv, Stopping
  <2>5. QED
    BY <2>1, <2>3, <2>4 DEF StopInv
<1>7. ASSUME NEW n \in Names, AddDuplicate(n)
      PROVE  StopInv'
  <2>1. /\ UNCHANGED << thread, pc, stop, todo >>
        /\ spent' = [spent EXCEPT !.dups = @ + 1]
    BY <1>7 DEF AddDuplicate, workVars, mgrVars
  <2>2. ~Fresh'
    <3>1. spent'.dups = spent.dups + 1
      BY <1>1, <2>1 DEF Budget
    <3>2. QED
      BY <1>1, <3>1 DEF Fresh
  <2>3. QED
    BY <2>1, <2>2 DEF StopInv
<1>8. QED
  BY <1>2, <1>3, <1>4, <1>5, <1>7, <1>6 DEF Manager, AddGoesOn

LEMMA StopInvNext ==
  ASSUME TypeInv, AddInv, StopInv, [Next]_vars
  PROVE  StopInv'
<1>1. /\ infos \in [Names -> LogInfo] /\ spent \in Budget /\ 1 \in Workers
      /\ thread \in Nat
  BY CsvLogAssumption DEF TypeInv, TypeOK, Workers
<1>2. ASSUME UNCHANGED << infos, queue, thread, pc, stop, todo, cause, late, early, spent >>
      PROVE  StopInv'
  BY <1>2 DEF StopInv, Fresh, FirstEnding, Drained, Registered, Underway
<1>3. CASE Tick \/ UNCHANGED vars
  BY <1>2, <1>3 DEF Tick, vars, workVars, histVars, mgrVars
<1>4. CASE Manager
  BY <1>4, StopInvManager
<1>5. CASE Kill
  <2>1. \A n \in Names : infos'[n].state = "absent"
    BY <1>1, <1>5 DEF Kill, Forgotten, LogInfo
  <2>2. Registered' = {}
    BY <2>1 DEF Registered
  <2>3. \A v \in Workers : pc'[v] = "none" /\ ~stop'[v]
    BY <1>5 DEF Kill
  <2>4. QED
    BY <1>1, <2>2, <2>3 DEF StopInv, FirstEnding
<1>6. ASSUME NEW p \in Producers, Producer(p)
      PROVE  StopInv'
  <2>1. CASE Offer(p)
    <3>1. /\ UNCHANGED << infos, thread, pc, stop, todo, cause, spent >>
          /\ late' = (late \/ Stopping)
      BY <2>1 DEF Offer, workVars, mgrVars
    <3>2. early => early'
      BY <2>1 DEF Offer
    <3>3. ASSUME Fresh, ~early, FirstEnding, cause[1] = "stopped", ~late
          PROVE  late'
      <4>1. stop[1]
        BY <3>3 DEF StopInv, Drained
      <4>2. QED
        BY <1>1, <3>1, <4>1 DEF Stopping
    <3>4. QED
      BY <3>1, <3>3, <3>2 DEF StopInv, Fresh, FirstEnding, Registered, Underway
  <2>2. CASE ~Offer(p)
    BY <1>2, <1>6, <2>2 DEF Producer, Begin, Commit, Rollback, OfferFails, WriteLog, workVars,
                            histVars, mgrVars
  <2>3. QED
    BY <2>1, <2>2
<1>7. ASSUME NEW w \in Workers, Worker(w)
      PROVE  StopInv'
  BY <1>7, StopInvWorker
<1>8. ASSUME NEW n \in Names, Spill(n)
      PROVE  StopInv'
  <2>1. /\ UNCHANGED << queue, thread, pc, stop, todo, cause, late, early, spent >>
        /\ infos[n].buf # << >> \/ infos[n].end = "glued"
        /\ \/ infos' = [infos EXCEPT ![n] = Spilled(@)]
           \/ infos' = [infos EXCEPT ![n] = SpilledHalf(@)]
    BY <1>8 DEF Spill, workVars, histVars, mgrVars
  <2>2. /\ infos'[n] \in {Spilled(infos[n]), SpilledHalf(infos[n])}
        /\ infos'[n].state = infos[n].state
        /\ \A m \in Names : m # n => infos'[m] = infos[m]
    BY <1>1, <2>1, EndedState
  <2>3. Registered' = Registered /\ \A m \in Names : Underway(infos[m]) => Underway(infos'[m])
    BY <2>2 DEF Registered, Underway
  <2>4. \A m \in Names : InUse(infos[m]) => InUse(infos'[m])
    BY <1>1, <2>2, InUseKept
  <2>5. \A m \in Names : PutAway(infos[m]) => PutAway(infos'[m])
    <3>1. ASSUME PutAway(infos[n])
          PROVE  PutAway(infos'[n])
      <4>1. infos[n].end = "glued" /\ infos[n] \in LogInfo
        BY <1>1, <2>1, <3>1 DEF PutAway
      <4>2. CASE infos'[n] = Spilled(infos[n])
        BY <3>1, <4>1, <4>2 DEF PutAway, Spilled, LogInfo
      <4>3. CASE infos'[n] = SpilledHalf(infos[n])
        BY <3>1, <4>1, <4>3 DEF PutAway, SpilledHalf, LogInfo
      <4>4. QED
        BY <2>2, <4>2, <4>3
    <3>2. QED
      BY <2>2, <3>1
  <2>6. Drained => Drained'
    <3>1. Registered \subseteq Names /\ todo[1] \subseteq Names
      BY <1>1 DEF Registered, TypeInv, TypeOK
    <3>2. QED
      BY <2>1, <2>3, <2>4, <2>5, <3>1 DEF Drained
  <2>7. (\A m \in Registered : InUse(infos[m]) \/ Underway(infos[m]))
          => \A m \in Registered' : InUse(infos'[m]) \/ Underway(infos'[m])
    BY <2>3, <2>4 DEF Registered
  <2>8. Fresh' = Fresh /\ FirstEnding' = FirstEnding
    BY <2>1 DEF Fresh, FirstEnding
  <2>9. QED
    BY <2>1, <2>6, <2>7, <2>8 DEF StopInv
<1>9. QED
  BY <1>3, <1>4, <1>5, <1>6, <1>7, <1>8 DEF Next

(***************************************************************************)
(* stopAndjoin keeps its promise whenever the worker gets to see the stop: *)
(* with no failing file, no duplicate add, one startup() in the process,   *)
(* no log offered before its name's add() had returned and nobody logging  *)
(* after the stop began, a worker that ended because it was asked to       *)
(* leaves an empty queue and nothing outside the closed files, for every   *)
(* number of logs and threads and every capacity.                          *)
(* (CsvLogMamager.stopAndjoin, CsvLogThread.run)                           *)
(***************************************************************************)
THEOREM StopIsClean == Spec => []CleanStop
<1>1. Init => AddInv /\ StopInv
  BY AddInvInit, StopInvInit
<1>2. TypeInv /\ AddInv /\ StopInv /\ [Next]_vars => AddInv' /\ StopInv'
  BY AddInvNext, StopInvNext
<1>3. TypeInv /\ StopInv => CleanStop
  BY StopInvClean
<1>4. QED
  BY <1>1, <1>2, <1>3, TypeInvCorrect, PTL DEF Spec
=============================================================================
