----------------------------- MODULE IncrementId -----------------------------
(***************************************************************************)
(* Identifiers made from a shared sequence (erwins.util.si.idGererator).   *)
(*                                                                         *)
(* Every application has one IncrementIdGenerator.  It takes a number from *)
(* the sequence of the common database (IncrementIdRepository) and makes   *)
(* "limit" identifiers of it before it takes the next.  nextval() is       *)
(* synchronized, so an application makes one identifier at a time; the     *)
(* applications run side by side, may crash, and may call the              *)
(* unsynchronized setLimit() at any time.                                  *)
(***************************************************************************)
EXTENDS Integers, FiniteSets

CONSTANTS
  Apps,         \* applications that share the database
  Limit,        \* limit every application is configured with
  Limits,       \* what setLimit() may be called with
  Start,        \* value of the sequence before the first call
  MaxSeq,       \* bound: numbers taken from the sequence
  MaxSets,      \* bound: calls of setLimit()
  MaxCrashes    \* bound: crashes, and answers of the database that are lost

ASSUME IncrementIdAssumption ==
  /\ Limit \in Nat \ {0}
  /\ Limits \subseteq Nat \ {0}
  /\ Start \in Nat
  /\ {MaxSeq, MaxSets, MaxCrashes} \subseteq Nat

VARIABLES
  seq,            \* the sequence in the database
  limit,          \* IncrementIdGenerator.limit
  currentValue,   \* IncrementIdGenerator.currentValue
  maxValue,       \* IncrementIdGenerator.maxValue
  pc,             \* where the application's nextval() is
  oracleSeq,      \* the number it took last, 0 before the first
  issued,         \* identifiers returned by anybody (history)
  repeated,       \* those returned although they had been returned (history)
  last,           \* the last identifier each application returned (history)
  lowered,        \* applications whose limit was made smaller (history)
  spent           \* calls of setLimit, crashes and lost answers (bounds)

history == << issued, repeated, last >>
vars == << seq, limit, currentValue, maxValue, pc, oracleSeq, history, lowered, spent >>

Init ==
  /\ seq = Start
  /\ limit = [a \in Apps |-> Limit]
  /\ currentValue = [a \in Apps |-> 1]
  /\ maxValue = [a \in Apps |-> 0]
  /\ pc = [a \in Apps |-> "idle"]
  /\ oracleSeq = [a \in Apps |-> 0]
  /\ issued = {}
  /\ repeated = {}
  /\ last = [a \in Apps |-> 0]
  /\ lowered = {}
  /\ spent = [sets |-> 0, crashes |-> 0]

\* return currentValue++
Return(a) ==
  LET id == currentValue[a]
  IN  /\ currentValue' = [currentValue EXCEPT ![a] = id + 1]
      /\ issued' = issued \union {id}
      /\ repeated' = IF id \in issued THEN repeated \union {id} ELSE repeated
      /\ last' = [last EXCEPT ![a] = id]

\* nextval() with identifiers left.
Cached(a) ==
  /\ pc[a] = "idle" /\ currentValue[a] <= maxValue[a]
  /\ Return(a)
  /\ UNCHANGED << seq, limit, maxValue, pc, oracleSeq, lowered, spent >>

\* An operator marked "Variant" is not the code: it is the operator after it with a
\* plausible mistake, kept to show which property notices.  Variants: the last
\* identifier of a block is skipped; the sequence is read without being advanced.
LoadEarly(a) ==
  /\ pc[a] = "idle" /\ currentValue[a] >= maxValue[a] /\ seq < Start + MaxSeq
  /\ seq' = seq + 1
  /\ oracleSeq' = [oracleSeq EXCEPT ![a] = seq + 1]
  /\ pc' = [pc EXCEPT ![a] = "loaded"]
  /\ UNCHANGED << limit, currentValue, maxValue, history, lowered, spent >>

LoadUnsaved(a) ==
  /\ pc[a] = "idle" /\ currentValue[a] > maxValue[a] /\ seq < Start + MaxSeq
  /\ oracleSeq' = [oracleSeq EXCEPT ![a] = seq + 1]
  /\ pc' = [pc EXCEPT ![a] = "loaded"]
  /\ UNCHANGED << seq, limit, currentValue, maxValue, history, lowered, spent >>

\* nextval() without: incrementIdRepository.nextval() ...
Load(a) ==
  /\ pc[a] = "idle" /\ currentValue[a] > maxValue[a] /\ seq < Start + MaxSeq
  /\ seq' = seq + 1
  /\ oracleSeq' = [oracleSeq EXCEPT ![a] = seq + 1]
  /\ pc' = [pc EXCEPT ![a] = "loaded"]
  /\ UNCHANGED << limit, currentValue, maxValue, history, lowered, spent >>

\* ... which the database may have answered although the caller gets an exception.
LoadFails(a) ==
  /\ pc[a] = "idle" /\ currentValue[a] > maxValue[a] /\ seq < Start + MaxSeq
  /\ spent.crashes < MaxCrashes
  /\ seq' = seq + 1
  /\ spent' = [spent EXCEPT !.crashes = @ + 1]
  /\ UNCHANGED << limit, currentValue, maxValue, pc, oracleSeq, history, lowered >>

\* currentValue = oracleSeq * limit + 1
SetCurrent(a) ==
  /\ pc[a] = "loaded"
  /\ currentValue' = [currentValue EXCEPT ![a] = oracleSeq[a] * limit[a] + 1]
  /\ pc' = [pc EXCEPT ![a] = "half"]
  /\ UNCHANGED << seq, limit, maxValue, oracleSeq, history, lowered, spent >>

\* Variant: one identifier too many.
SetMaxInclusive(a) ==
  /\ pc[a] = "half"
  /\ maxValue' = [maxValue EXCEPT ![a] = (oracleSeq[a] + 1) * limit[a] + 1]
  /\ pc' = [pc EXCEPT ![a] = "idle"]
  /\ Return(a)
  /\ UNCHANGED << seq, limit, oracleSeq, lowered, spent >>

\* maxValue = (oracleSeq + 1) * limit; return currentValue++
SetMax(a) ==
  /\ pc[a] = "half"
  /\ maxValue' = [maxValue EXCEPT ![a] = (oracleSeq[a] + 1) * limit[a]]
  /\ pc' = [pc EXCEPT ![a] = "idle"]
  /\ Return(a)
  /\ UNCHANGED << seq, limit, oracleSeq, lowered, spent >>

\* setLimit() is not synchronized: it may fall between the two assignments.
SetLimit(a, n) ==
  /\ spent.sets < MaxSets
  /\ limit' = [limit EXCEPT ![a] = n]
  /\ lowered' = IF n < limit[a] THEN lowered \union {a} ELSE lowered
  /\ spent' = [spent EXCEPT !.sets = @ + 1]
  /\ UNCHANGED << seq, currentValue, maxValue, pc, oracleSeq, history >>

\* The application dies and starts again with its configuration.
Crash(a) ==
  /\ spent.crashes < MaxCrashes
  /\ limit' = [limit EXCEPT ![a] = Limit]
  /\ currentValue' = [currentValue EXCEPT ![a] = 1]
  /\ maxValue' = [maxValue EXCEPT ![a] = 0]
  /\ pc' = [pc EXCEPT ![a] = "idle"]
  /\ oracleSeq' = [oracleSeq EXCEPT ![a] = 0]
  /\ lowered' = IF Limit < limit[a] THEN lowered \union {a} ELSE lowered
  /\ spent' = [spent EXCEPT !.crashes = @ + 1]
  /\ UNCHANGED << seq, history >>

App(a) ==
  \/ Cached(a) \/ Load(a) \/ LoadFails(a) \/ SetCurrent(a) \/ SetMax(a) \/ Crash(a)
  \/ \E n \in Limits : SetLimit(a, n)

Next == \E a \in Apps : App(a)

Spec == Init /\ [][Next]_vars

-----------------------------------------------------------------------------
TypeOK ==
  /\ seq \in Start .. Start + MaxSeq
  /\ limit \in [Apps -> Nat \ {0}]
  /\ currentValue \in [Apps -> Nat]
  /\ maxValue \in [Apps -> Nat]
  /\ pc \in [Apps -> {"idle", "loaded", "half"}]
  /\ oracleSeq \in [Apps -> 0 .. seq]
  /\ issued \subseteq Nat
  /\ repeated \subseteq issued
  /\ last \in [Apps -> Nat]
  /\ lowered \subseteq Apps
  /\ spent \in [sets : 0 .. MaxSets, crashes : 0 .. MaxCrashes]

\* Nobody called setLimit().
Untuned == spent.sets = 0

\* Identifiers the application can still make of the number it took.
Reserve(a) ==
  IF pc[a] = "idle"
    THEN currentValue[a] .. maxValue[a]
    ELSE oracleSeq[a] * limit[a] + 1 .. (oracleSeq[a] + 1) * limit[a]

(***************************************************************************)
(* All applications configured with the same limit, no identifier is ever  *)
(* returned twice by any of them, whatever crashes.  ("guarantees          *)
(* integrity to all applications on the same DB", IncrementIdGenerator)    *)
(***************************************************************************)
Unique == Untuned => repeated = {}

(***************************************************************************)
(* Nothing is wasted: until something crashes, every identifier of every   *)
(* number taken from the sequence has been returned, or one application    *)
(* still has it in reserve.  (IncrementIdGenerator.nextval)                *)
(***************************************************************************)
NothingWasted ==
  Untuned /\ spent.crashes = 0 =>
    (Start + 1) * Limit + 1 .. (seq + 1) * Limit
      = issued \union UNION { Reserve(a) : a \in Apps }

(***************************************************************************)
(* As long as nobody makes an application's limit smaller, its identifiers *)
(* ascend, over restarts and also when setLimit() falls between the two    *)
(* assignments of nextval().  (IncrementIdGenerator.setLimit)              *)
(***************************************************************************)
Ascending ==
  [][\A a \in Apps : last'[a] # last[a] /\ a \notin lowered => last[a] < last'[a]]_vars

=============================================================================
