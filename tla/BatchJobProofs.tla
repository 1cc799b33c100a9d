---------------------------- MODULE BatchJobProofs ----------------------------
(***************************************************************************)
(* Proofs about executions that share the listener and their contexts, for *)
(* every set of executions, jobs, steps, threads, numbers and calls.       *)
(***************************************************************************)
EXTENDS BatchJob, FiniteSetTheorems, TLAPS

LocalType ==
  /\ stepOf \in [Threads -> Steps]
  /\ at \in [Threads -> {"idle", "getJob", "putJob", "getStep", "putStep", "newMap", "putTemp"}]
  /\ value \in [Threads -> Values \union {0}]
  /\ exist \in [Threads -> Nat]
  /\ ref \in [Threads -> Threads \union {NoOne}]
  /\ calls \in [Threads -> 0 .. MaxCalls]
  /\ \A t \in Threads : at[t] = "putTemp" => ref[t] # NoOne

SumType ==
  /\ jec \in [Executions -> Nat] /\ jobTotal \in [Executions -> Nat]
  /\ sec \in [Contexts -> Nat] /\ stepTotal \in [Contexts -> Nat]
  /\ lock \in [Contexts -> Threads \union {NoOne}]
  /\ adders \subseteq Threads

TempType ==
  /\ temp \in [Executions -> Threads \union {NoOne}]
  /\ map \in [Threads -> SUBSET Threads]
  /\ blind \subseteq Threads

ListenerType ==
  /\ currentRunnungJob \subseteq Listener!JobNames
  /\ state \in [Executions -> {"new", "running", "after", "remove", "ended"}]
  /\ status \in [Executions -> {"UNKNOWN", "COMPLETED", "FAILED"}]
  /\ refused \in [Executions -> BOOLEAN]
  /\ unbegun \subseteq Executions

LEMMA TypeParts == TypeOK <=> LocalType /\ SumType /\ TempType /\ ListenerType
  BY DEF TypeOK, LocalType, SumType, TempType, ListenerType

LEMMA Numbers ==
  ASSUME TypeOK
  PROVE  /\ \A t \in Threads : value[t] \in Nat /\ exist[t] \in Nat
         /\ \A t \in Threads : exist[t] + value[t] \in Nat
         /\ \A t \in Threads : Owner[t] \in Executions /\ Context(t) \in Contexts
         /\ \A e \in Executions, t \in Threads : jobTotal[e] + value[t] \in Nat
         /\ \A c \in Contexts, t \in Threads : stepTotal[c] + value[t] \in Nat
<1>1. \A t \in Threads : value[t] \in Nat /\ exist[t] \in Nat
  <2>1. \A t \in Threads : value[t] \in Values \union {0} /\ exist[t] \in Nat
    BY DEF TypeOK
  <2>2. \A v \in Values \union {0} : v \in Nat
    BY BatchContextAssumption
  <2>3. QED
    BY <2>1, <2>2
<1>2. \A t \in Threads : Owner[t] \in Executions
  BY BatchContextAssumption
<1>3. \A t \in Threads : stepOf[t] \in Steps
  BY DEF TypeOK
<1>4. \A t \in Threads : Context(t) \in Contexts
  BY <1>2, <1>3 DEF Context, Contexts
<1>5. /\ \A e \in Executions : jobTotal[e] \in Nat
      /\ \A c \in Contexts : stepTotal[c] \in Nat
  BY DEF TypeOK
<1>6. QED
  BY <1>1, <1>2, <1>4, <1>5

LEMMA TypeInit == Init => TypeOK
<1> SUFFICES ASSUME Init PROVE LocalType /\ SumType /\ TempType /\ ListenerType
  BY TypeParts
<1> USE DEF Init, ContextInit, Listener!ListenerInit
<1>1. LocalType
  BY BatchContextAssumption DEF LocalType
<1>2. SumType
  BY DEF SumType
<1>3. TempType
  BY DEF TempType
<1>4. ListenerType
  BY DEF ListenerType
<1>5. QED
  BY <1>1, <1>2, <1>3, <1>4

\* What the threads of an execution do keeps the types of the contexts.
LEMMA CallType ==
  ASSUME TypeOK, NEW t \in Threads, Call(t)
  PROVE  LocalType' /\ SumType' /\ TempType'
<1> USE TypeParts, Numbers, BatchContextAssumption
<1>1. ASSUME NEW v \in Values, Add(t, v)
      PROVE  LocalType' /\ SumType' /\ TempType'
  BY <1>1 DEF Add, LocalType, SumType, TempType, tempVars
<1>2. CASE GetTemp(t)
  <2>1. SumType' /\ TempType'
    BY <1>2 DEF GetTemp, SumType, TempType, sumVars
  <2>2. /\ \/ at' = [at EXCEPT ![t] = "newMap"]
           \/ at' = [at EXCEPT ![t] = "putTemp"] /\ temp[Owner[t]] # NoOne
        /\ ref' = [ref EXCEPT ![t] = temp[Owner[t]]]
        /\ temp[Owner[t]] \in Threads \union {NoOne}
        /\ UNCHANGED << stepOf, value, exist >>
    BY <1>2 DEF GetTemp, TempType
  <2>3. calls' \in [Threads -> 0 .. MaxCalls]
    BY <1>2 DEF GetTemp, LocalType
  <2>4. LocalType'
    BY <2>2, <2>3 DEF LocalType
  <2>5. QED
    BY <2>1, <2>4
<1>3. QED
  BY <1>1, <1>2 DEF Call

LEMMA WorkType ==
  ASSUME TypeOK, NEW t \in Threads, Work(t)
  PROVE  LocalType' /\ SumType' /\ TempType'
<1> USE TypeParts, Numbers DEF LocalType, SumType, TempType
<1>1. CASE GetJob(t)
  BY <1>1 DEF GetJob, sumVars, tempVars
<1>2. CASE PutJob(t)
  BY <1>2 DEF PutJob, tempVars
<1>3. CASE GetStep(t)
  BY <1>3 DEF GetStep, sumVars, tempVars
<1>4. CASE PutStep(t)
  BY <1>4 DEF PutStep, tempVars
<1>5. CASE NewMap(t)
  BY <1>5, BatchContextAssumption DEF NewMap, sumVars
<1>6. CASE PutTemp(t)
  BY <1>6 DEF PutTemp, sumVars
<1>7. QED
  BY <1>1, <1>2, <1>3, <1>4, <1>5, <1>6 DEF Work

LEMMA ContextStutters ==
  ASSUME TypeOK, UNCHANGED contextVars
  PROVE  LocalType' /\ SumType' /\ TempType'
  BY TypeParts DEF LocalType, SumType, TempType, contextVars, localVars, sumVars, tempVars

LEMMA RemoveType ==
  ASSUME TypeOK, NEW e \in Executions, RemoveJobTempData(e)
  PROVE  LocalType' /\ SumType' /\ TempType'
  BY TypeParts DEF RemoveJobTempData, LocalType, SumType, TempType, localVars, sumVars

LEMMA ListenerSteps ==
  ASSUME TypeOK, NEW e \in Executions,
         \/ Listener!BeforeJob(e) \/ Listener!EndUnbegun(e) \/ Listener!SetCurrentStepInfo(e)
         \/ Listener!EndSteps(e) \/ Listener!AfterJob(e) \/ Listener!RemoveJob(e)
  PROVE  ListenerType'
<1> USE TypeParts DEF ListenerType, Listener!JobNames
<1>1. CASE Listener!BeforeJob(e)
  BY <1>1 DEF Listener!BeforeJob
<1>2. CASE Listener!EndUnbegun(e)
  BY <1>2 DEF Listener!EndUnbegun
<1>3. CASE Listener!SetCurrentStepInfo(e)
  BY <1>3 DEF Listener!SetCurrentStepInfo
<1>4. CASE Listener!EndSteps(e)
  BY <1>4 DEF Listener!EndSteps
<1>5. CASE Listener!AfterJob(e)
  BY <1>5 DEF Listener!AfterJob
<1>6. CASE Listener!RemoveJob(e)
  BY <1>6 DEF Listener!RemoveJob
<1>7. QED
  BY <1>1, <1>2, <1>3, <1>4, <1>5, <1>6

LEMMA TypeNext ==
  ASSUME TypeOK, [Next]_vars
  PROVE  TypeOK'
<1>1. SUFFICES LocalType' /\ SumType' /\ TempType' /\ ListenerType'
  BY DEF TypeOK, LocalType, SumType, TempType, ListenerType
<1>2. ASSUME NEW e \in Executions, Launch(e)
      PROVE  LocalType' /\ SumType' /\ TempType' /\ ListenerType'
  BY <1>2, ContextStutters, ListenerSteps DEF Launch
<1>3. ASSUME NEW e \in Executions, End(e)
      PROVE  LocalType' /\ SumType' /\ TempType' /\ ListenerType'
  BY <1>3, ContextStutters, RemoveType, ListenerSteps DEF End
<1>4. ASSUME NEW t \in Threads, Step(t)
      PROVE  LocalType' /\ SumType' /\ TempType' /\ ListenerType'
  <2>1. Owner[t] \in Executions
    BY Numbers
  <2>2. UNCHANGED listenerVars => ListenerType'
    BY TypeParts DEF ListenerType, listenerVars
  <2>3. QED
    BY <1>4, <2>1, <2>2, CallType, WorkType, ContextStutters, ListenerSteps DEF Step
<1>5. CASE UNCHANGED vars
  <2>1. ListenerType'
    BY <1>5, TypeParts DEF ListenerType, vars, listenerVars
  <2>2. QED
    BY <1>5, <2>1, ContextStutters DEF vars
<1>6. QED
  BY <1>2, <1>3, <1>4, <1>5 DEF Next

(***************************************************************************)
(* The variables keep their types; in particular a thread always has a map *)
(* when it puts its data into one.  (BatchContext.putJobTempData)          *)
(***************************************************************************)
THEOREM TypeCorrect == FairSpec => []TypeOK
  BY TypeInit, TypeNext, PTL DEF FairSpec

-----------------------------------------------------------------------------
\* The sums.  A thread between get and put holds a number that is stale only if
\* another monitor, or another thread of the step, let somebody put in between.

OneStep(e) == \A t, u \in AddersOf(e) : stepOf[t] = stepOf[u]

OneAdder(c) == \A t, u \in adders : Context(t) = c /\ Context(u) = c => t = u

JobSum ==
  /\ \A e \in Executions : jec[e] <= jobTotal[e] /\ (OneStep(e) => jec[e] = jobTotal[e])
  /\ \A t \in Threads : at[t] = "putJob" =>
       /\ lock[Context(t)] = t
       /\ exist[t] <= jobTotal[Owner[t]]
       /\ OneStep(Owner[t]) => exist[t] = jec[Owner[t]]

StepSum ==
  /\ \A c \in Contexts : sec[c] <= stepTotal[c] /\ (OneAdder(c) => sec[c] = stepTotal[c])
  /\ \A t \in Threads : at[t] = "putStep" =>
       /\ exist[t] <= stepTotal[Context(t)]
       /\ OneAdder(Context(t)) => exist[t] = sec[Context(t)]

Adding == \A t \in Threads : at[t] \in {"getJob", "putJob", "getStep", "putStep"} => t \in adders

SumInv == JobSum /\ StepSum /\ Adding

LEMMA SumInit == Init => SumInv
<1> SUFFICES ASSUME Init PROVE SumInv
  OBVIOUS
<1> USE DEF Init, ContextInit
<1>1. JobSum
  BY DEF JobSum
<1>2. StepSum
  BY DEF StepSum
<1>3. QED
  BY <1>1, <1>2 DEF SumInv, Adding

LEMMA SameAdders ==
  ASSUME UNCHANGED << stepOf, adders >>
  PROVE  /\ \A t \in Threads : Context(t)' = Context(t)
         /\ \A e \in Executions : OneStep(e)' <=> OneStep(e)
         /\ \A c \in Contexts : OneAdder(c)' <=> OneAdder(c)
<1>1. \A t \in Threads : Context(t)' = Context(t)
  BY DEF Context
<1>2. \A e \in Executions : OneStep(e)' <=> OneStep(e)
  BY DEF OneStep, AddersOf, ThreadsOf
<1>3. \A c \in Contexts : OneAdder(c)' <=> OneAdder(c)
  BY DEF OneAdder, Context
<1>4. QED
  BY <1>1, <1>2, <1>3

\* Steps that neither add nor touch a sum, a monitor or a number that was read.
LEMMA SumStutters ==
  ASSUME TypeOK, SumInv, UNCHANGED << stepOf, sumVars, lock, exist >>,
         \A t \in Threads : at'[t] = at[t] \/ at'[t] \notin {"getJob", "putJob", "getStep", "putStep"}
  PROVE  SumInv'
<1> USE DEF SumInv, sumVars
<1>1. JobSum'
  BY SameAdders, Numbers DEF JobSum
<1>2. StepSum'
  BY SameAdders, Numbers DEF StepSum
<1>3. QED
  BY <1>1, <1>2 DEF Adding

LEMMA SumAdd ==
  ASSUME TypeOK, SumInv, NEW t \in Threads, NEW v \in Values, Add(t, v)
  PROVE  SumInv'
<1> USE DEF SumInv, Add
<1>1. \A u \in Threads : Context(u)' = Context(u)
  BY DEF Context
<1>2. /\ \A e \in Executions : OneStep(e)' => OneStep(e)
      /\ \A c \in Contexts : OneAdder(c)' => OneAdder(c)
  BY DEF OneStep, OneAdder, AddersOf, ThreadsOf, Context
<1>3. at'[t] = "getJob" /\ \A u \in Threads \ {t} : at'[u] = at[u]
  BY DEF TypeOK
<1>4. JobSum'
  BY <1>1, <1>2, <1>3, Numbers DEF JobSum
<1>5. StepSum'
  BY <1>1, <1>2, <1>3, Numbers DEF StepSum
<1>6. Adding'
  BY <1>3 DEF Adding
<1>7. QED
  BY <1>4, <1>5, <1>6

LEMMA SumGetJob ==
  ASSUME TypeOK, SumInv, NEW t \in Threads, GetJob(t)
  PROVE  SumInv'
<1> USE DEF SumInv, GetJob, sumVars
<1>1. \A u \in Threads : Context(u)' = Context(u) /\ Context(u) \in Contexts
  BY Numbers DEF Context
<1>2. /\ \A e \in Executions : OneStep(e)' <=> OneStep(e)
      /\ \A c \in Contexts : OneAdder(c)' <=> OneAdder(c)
  BY SameAdders
<1>3. /\ at'[t] = "putJob" /\ exist'[t] = jec[Owner[t]]
      /\ \A u \in Threads \ {t} : at'[u] = at[u] /\ exist'[u] = exist[u]
  BY DEF TypeOK
<1>4. /\ lock'[Context(t)] = t
      /\ \A u \in Threads \ {t} : at[u] = "putJob" => lock'[Context(u)] = u
  BY <1>1, BatchContextAssumption DEF TypeOK, JobSum
<1>5. JobSum'
  BY <1>1, <1>2, <1>3, <1>4, Numbers DEF JobSum
<1>6. StepSum'
  BY <1>1, <1>2, <1>3 DEF StepSum
<1>7. Adding'
  BY <1>3 DEF Adding
<1>8. QED
  BY <1>5, <1>6, <1>7

LEMMA SumPutJob ==
  ASSUME TypeOK, SumInv, NEW t \in Threads, PutJob(t)
  PROVE  SumInv'
<1> USE DEF SumInv, PutJob
<1>1. \A u \in Threads : Context(u)' = Context(u) /\ Context(u) \in Contexts /\ Owner[u] \in Executions
  BY Numbers DEF Context
<1>2. /\ \A e \in Executions : OneStep(e)' <=> OneStep(e)
      /\ \A c \in Contexts : OneAdder(c)' <=> OneAdder(c)
  BY SameAdders
<1>3. /\ at'[t] = "getStep"
      /\ \A u \in Threads \ {t} : at'[u] = at[u]
  BY DEF TypeOK
<1>4. /\ jec'[Owner[t]] = exist[t] + value[t]
      /\ jobTotal'[Owner[t]] = jobTotal[Owner[t]] + value[t]
      /\ \A e \in Executions \ {Owner[t]} : jec'[e] = jec[e] /\ jobTotal'[e] = jobTotal[e]
  BY <1>1 DEF TypeOK
<1>5. value[t] \in Nat /\ exist[t] \in Nat /\ jobTotal[Owner[t]] \in Nat
  BY <1>1, Numbers DEF TypeOK
<1>6. \A e \in Executions : jec'[e] <= jobTotal'[e] /\ (OneStep(e)' => jec'[e] = jobTotal'[e])
  BY <1>2, <1>4, <1>5 DEF JobSum
<1>7. ASSUME NEW u \in Threads, at'[u] = "putJob"
      PROVE  /\ lock'[Context(u)] = u
             /\ exist[u] <= jobTotal'[Owner[u]]
             /\ OneStep(Owner[u])' => exist[u] = jec'[Owner[u]]
  <2>1. u # t /\ at[u] = "putJob"
    BY <1>3, <1>7
  <2>2. lock[Context(u)] = u /\ lock[Context(t)] = t
    BY <2>1 DEF JobSum
  <2>3. Context(u) # Context(t)
    BY <2>1, <2>2
  <2>4. lock'[Context(u)] = u
    BY <1>1, <2>2, <2>3 DEF TypeOK
  <2>5. CASE Owner[u] = Owner[t]
    <3>1. ~OneStep(Owner[u])
      <4>1. u \in AddersOf(Owner[u]) /\ t \in AddersOf(Owner[u])
        BY <2>1, <2>5 DEF Adding, AddersOf, ThreadsOf
      <4>2. stepOf[u] # stepOf[t]
        BY <2>3, <2>5 DEF Context
      <4>3. QED
        BY <4>1, <4>2 DEF OneStep
    <3>2. exist[u] \in Nat /\ exist[u] <= jobTotal[Owner[t]]
      BY <2>1, <2>5 DEF JobSum, TypeOK
    <3>3. exist[u] <= jobTotal'[Owner[u]]
      BY <3>2, <1>4, <1>5, <2>5
    <3>4. QED
      BY <1>1, <1>2, <2>4, <3>1, <3>3
  <2>6. CASE Owner[u] # Owner[t]
    BY <1>1, <1>2, <1>4, <2>1, <2>4, <2>6 DEF JobSum
  <2>7. QED
    BY <2>5, <2>6
<1>8. JobSum'
  BY <1>1, <1>6, <1>7 DEF JobSum
<1>9. StepSum'
  BY <1>1, <1>2, <1>3 DEF StepSum
<1>10. Adding'
  BY <1>3 DEF Adding
<1>11. QED
  BY <1>8, <1>9, <1>10

LEMMA SumGetStep ==
  ASSUME TypeOK, SumInv, NEW t \in Threads, GetStep(t)
  PROVE  SumInv'
<1> USE DEF SumInv, GetStep, sumVars
<1>1. \A u \in Threads : Context(u)' = Context(u) /\ Context(u) \in Contexts
  BY Numbers DEF Context
<1>2. /\ \A e \in Executions : OneStep(e)' <=> OneStep(e)
      /\ \A c \in Contexts : OneAdder(c)' <=> OneAdder(c)
  BY SameAdders
<1>3. /\ at'[t] = "putStep" /\ exist'[t] = sec[Context(t)]
      /\ \A u \in Threads \ {t} : at'[u] = at[u] /\ exist'[u] = exist[u]
  BY DEF TypeOK
<1>4. JobSum'
  BY <1>1, <1>2, <1>3, Numbers DEF JobSum
<1>5. StepSum'
  BY <1>1, <1>2, <1>3 DEF StepSum
<1>6. Adding'
  BY <1>3 DEF Adding
<1>7. QED
  BY <1>4, <1>5, <1>6

LEMMA SumPutStep ==
  ASSUME TypeOK, SumInv, NEW t \in Threads, PutStep(t)
  PROVE  SumInv'
<1> USE DEF SumInv, PutStep
<1>1. \A u \in Threads : Context(u)' = Context(u) /\ Context(u) \in Contexts
  BY Numbers DEF Context
<1>2. /\ \A e \in Executions : OneStep(e)' <=> OneStep(e)
      /\ \A c \in Contexts : OneAdder(c)' <=> OneAdder(c)
  BY SameAdders
<1>3. /\ at'[t] = "idle"
      /\ \A u \in Threads \ {t} : at'[u] = at[u]
  BY DEF TypeOK
<1>4. /\ sec'[Context(t)] = exist[t] + value[t]
      /\ stepTotal'[Context(t)] = stepTotal[Context(t)] + value[t]
      /\ \A c \in Contexts \ {Context(t)} : sec'[c] = sec[c] /\ stepTotal'[c] = stepTotal[c]
  BY <1>1 DEF TypeOK
<1>5. value[t] \in Nat /\ exist[t] \in Nat /\ stepTotal[Context(t)] \in Nat
  BY <1>1, Numbers DEF TypeOK
<1>6. \A c \in Contexts : sec'[c] <= stepTotal'[c] /\ (OneAdder(c)' => sec'[c] = stepTotal'[c])
  BY <1>2, <1>4, <1>5 DEF StepSum
<1>7. ASSUME NEW u \in Threads, at'[u] = "putStep"
      PROVE  /\ exist[u] <= stepTotal'[Context(u)]
             /\ OneAdder(Context(u)) => exist[u] = sec'[Context(u)]
  <2>1. u # t /\ at[u] = "putStep" /\ exist[u] \in Nat
    BY <1>3, <1>7 DEF TypeOK
  <2>2. exist[u] <= stepTotal[Context(u)]
    BY <2>1 DEF StepSum
  <2>3. CASE Context(u) = Context(t)
    <3>1. ~OneAdder(Context(u))
      BY <2>1, <2>3 DEF OneAdder, Adding
    <3>2. QED
      BY <1>4, <1>5, <2>1, <2>2, <2>3, <3>1
  <2>4. CASE Context(u) # Context(t)
    BY <1>1, <1>4, <2>1, <2>4 DEF StepSum
  <2>5. QED
    BY <2>3, <2>4
<1>8. StepSum'
  BY <1>1, <1>2, <1>6, <1>7 DEF StepSum
<1>9. JobSum'
  BY <1>1, <1>2, <1>3, Numbers DEF JobSum
<1>10. Adding'
  BY <1>3 DEF Adding
<1>11. QED
  BY <1>8, <1>9, <1>10

LEMMA SumNext ==
  ASSUME TypeOK, SumInv, [Next]_vars
  PROVE  SumInv'
<1>1. ASSUME UNCHANGED contextVars
      PROVE  SumInv'
  BY <1>1, SumStutters DEF contextVars, localVars
<1>2. ASSUME NEW e \in Executions, RemoveJobTempData(e)
      PROVE  SumInv'
  BY <1>2, SumStutters DEF RemoveJobTempData, localVars
<1>3. ASSUME NEW t \in Threads, Call(t)
      PROVE  SumInv'
  <2>1. CASE GetTemp(t)
    <3>1. \A u \in Threads : at'[u] = at[u] \/ at'[u] \in {"newMap", "putTemp"}
      BY <2>1 DEF GetTemp, TypeOK
    <3>2. QED
      BY <2>1, <3>1, SumStutters DEF GetTemp
  <2>2. QED
    BY <1>3, <2>1, SumAdd DEF Call
<1>4. ASSUME NEW t \in Threads, Work(t)
      PROVE  SumInv'
  <2>1. CASE NewMap(t)
    <3>1. \A u \in Threads : at'[u] = at[u] \/ at'[u] = "putTemp"
      BY <2>1 DEF NewMap, TypeOK
    <3>2. QED
      BY <2>1, <3>1, SumStutters DEF NewMap
  <2>2. CASE PutTemp(t)
    <3>1. \A u \in Threads : at'[u] = at[u] \/ at'[u] = "idle"
      BY <2>2 DEF PutTemp, TypeOK
    <3>2. QED
      BY <2>2, <3>1, SumStutters DEF PutTemp
  <2>3. QED
    BY <1>4, <2>1, <2>2, SumGetJob, SumPutJob, SumGetStep, SumPutStep DEF Work
<1>5. QED
  BY <1>1, <1>2, <1>3, <1>4 DEF Next, Launch, Step, End, vars

(***************************************************************************)
(* What add leaves for the execution is exact when one step alone added,   *)
(* with however many threads, and never too much; in the step's own        *)
(* context when one thread added.  (BatchContext.add, addSynchronized)     *)
(***************************************************************************)
THEOREM SumsAreRight == FairSpec => []SumsHold
<1>1. Init => TypeOK /\ SumInv
  BY TypeInit, SumInit
<1>2. TypeOK /\ SumInv /\ [Next]_vars => TypeOK' /\ SumInv'
  BY TypeNext, SumNext
<1>3. TypeOK /\ SumInv => SumsHold
  BY DEF SumInv, JobSum, StepSum, OneStep, OneAdder, SumsHold
<1>4. QED
  BY <1>1, <1>2, <1>3, PTL DEF FairSpec

-----------------------------------------------------------------------------
\* The temporary data.  While at most one thread of an execution found no map,
\* the map a thread was given is the one the execution keeps.

Lone(e) == \A u, v \in blind \intersect ThreadsOf(e) : u = v

MapFound(t) ==
  /\ at[t] = "newMap" => t \in blind /\ ref[t] = NoOne
  /\ state[Owner[t]] = "new" => at[t] = "idle" /\ ref[t] = NoOne
  /\ state[Owner[t]] = "running" /\ Lone(Owner[t]) =>
       /\ at[t] = "newMap" => temp[Owner[t]] = NoOne
       /\ ref[t] # NoOne => temp[Owner[t]] = ref[t]
       /\ ref[t] # NoOne /\ at[t] # "putTemp" => t \in map[ref[t]]

OwnMap == \A e \in Executions : temp[e] # NoOne => Owner[temp[e]] = e

TempInv == OwnMap /\ \A t \in Threads : MapFound(t)

LEMMA TempInit == Init => TempInv
  BY BatchContextAssumption DEF Init, ContextInit, Listener!ListenerInit, TempInv, OwnMap, MapFound

\* Steps that change no map and at most bring an execution further.
LEMMA TempStutters ==
  ASSUME TypeOK, TempInv, UNCHANGED << tempVars, ref >>,
         \A t \in Threads : /\ at'[t] = at[t] \/ {at[t], at'[t]} \intersect {"newMap", "putTemp"} = {}
                            /\ state'[Owner[t]] = "new" => state[Owner[t]] = "new" /\ at'[t] = at[t]
                            /\ state'[Owner[t]] = "running" => state[Owner[t]] \in {"new", "running"}
  PROVE  TempInv'
<1> USE DEF TempInv, tempVars
<1>1. OwnMap'
  BY DEF OwnMap
<1>2. \A e \in Executions : Lone(e)' <=> Lone(e)
  BY DEF Lone, ThreadsOf
<1>3. ASSUME NEW t \in Threads
      PROVE  MapFound(t)'
  <2>1. Owner[t] \in Executions /\ MapFound(t)
    BY Numbers
  <2>2. CASE at'[t] = at[t]
    BY <1>2, <2>1, <2>2 DEF MapFound
  <2>3. CASE {at[t], at'[t]} \intersect {"newMap", "putTemp"} = {}
    BY <1>2, <2>1, <2>3 DEF MapFound
  <2>4. QED
    BY <2>2, <2>3
<1>4. QED
  BY <1>1, <1>3

LEMMA TempGet ==
  ASSUME TypeOK, TempInv, NEW t \in Threads, state[Owner[t]] = "running", UNCHANGED state, GetTemp(t)
  PROVE  TempInv'
<1> USE DEF TempInv
<1>1. OwnMap'
  BY DEF OwnMap, GetTemp
<1>2. /\ \A u \in Threads \ {t} : at'[u] = at[u] /\ ref'[u] = ref[u]
      /\ ref'[t] = temp[Owner[t]]
      /\ \/ at'[t] = "newMap" /\ temp[Owner[t]] = NoOne /\ t \in blind'
         \/ at'[t] = "putTemp"
      /\ blind \subseteq blind' /\ UNCHANGED << temp, map >>
  BY DEF GetTemp, TypeOK
<1>3. \A e \in Executions : Lone(e)' => Lone(e)
  BY <1>2 DEF Lone, ThreadsOf
<1>4. ASSUME NEW u \in Threads
      PROVE  MapFound(u)'
  <2>1. Owner[u] \in Executions /\ MapFound(u)
    BY Numbers
  <2>2. CASE u = t
    BY <1>2, <2>1, <2>2 DEF MapFound
  <2>3. CASE u # t
    BY <1>2, <1>3, <2>1, <2>3 DEF MapFound
  <2>4. QED
    BY <2>2, <2>3
<1>5. QED
  BY <1>1, <1>4

LEMMA TempNew ==
  ASSUME TypeOK, TempInv, NEW t \in Threads, state[Owner[t]] = "running", UNCHANGED state, NewMap(t)
  PROVE  TempInv'
<1> USE DEF TempInv
<1>1. Owner[t] \in Executions /\ t \in blind
  BY Numbers DEF NewMap, MapFound
<1>2. /\ \A u \in Threads \ {t} : at'[u] = at[u] /\ ref'[u] = ref[u] /\ map'[u] = map[u]
      /\ at'[t] = "putTemp" /\ ref'[t] = t
      /\ temp'[Owner[t]] = t /\ \A e \in Executions \ {Owner[t]} : temp'[e] = temp[e]
      /\ UNCHANGED blind
  BY <1>1 DEF NewMap, TypeOK
<1>3. OwnMap'
  BY <1>1, <1>2 DEF OwnMap
<1>4. \A e \in Executions : Lone(e)' <=> Lone(e)
  BY <1>2 DEF Lone, ThreadsOf
<1>5. ASSUME NEW u \in Threads
      PROVE  MapFound(u)'
  <2>1. Owner[u] \in Executions /\ MapFound(u) /\ MapFound(t) /\ ref[u] \in Threads \union {NoOne}
    BY Numbers DEF TypeOK
  <2>2. CASE u = t
    BY <1>1, <1>2, <2>2 DEF MapFound
  <2>3. CASE u # t /\ Owner[u] = Owner[t]
    <3>1. at[u] = "newMap" => ~Lone(Owner[t])
      BY <1>1, <2>1, <2>3 DEF MapFound, Lone, ThreadsOf
    <3>2. Lone(Owner[t]) => ref[u] = NoOne
      BY <2>1, <2>3 DEF MapFound, NewMap
    <3>3. QED
      BY <1>1, <1>2, <1>4, <2>1, <2>3, <3>1, <3>2 DEF MapFound
  <2>4. CASE Owner[u] # Owner[t]
    <3>1. state[Owner[u]] = "running" /\ Lone(Owner[u]) /\ ref[u] # NoOne => ref[u] # t
      BY <2>1, <2>4 DEF MapFound, OwnMap
    <3>2. QED
      BY <1>2, <1>4, <2>1, <2>4, <3>1 DEF MapFound
  <2>5. QED
    BY <2>2, <2>3, <2>4
<1>6. QED
  BY <1>3, <1>5

LEMMA TempPut ==
  ASSUME TypeOK, TempInv, NEW t \in Threads, state[Owner[t]] = "running", UNCHANGED state, PutTemp(t)
  PROVE  TempInv'
<1> USE DEF TempInv
<1>1. /\ \A u \in Threads \ {t} : at'[u] = at[u]
      /\ at'[t] = "idle" /\ ref[t] \in Threads /\ t \in map'[ref[t]]
      /\ \A u \in Threads : map[u] \subseteq map'[u]
      /\ UNCHANGED << temp, blind, ref >>
  BY DEF PutTemp, TypeOK
<1>2. OwnMap'
  BY <1>1 DEF OwnMap
<1>3. \A e \in Executions : Lone(e)' <=> Lone(e)
  BY <1>1 DEF Lone, ThreadsOf
<1>4. ASSUME NEW u \in Threads
      PROVE  MapFound(u)'
  <2>1. Owner[u] \in Executions /\ MapFound(u) /\ ref[u] \in Threads \union {NoOne}
    BY Numbers DEF TypeOK
  <2>2. CASE u = t
    BY <1>1, <1>3, <2>1, <2>2 DEF MapFound
  <2>3. CASE u # t
    BY <1>1, <1>3, <2>1, <2>3 DEF MapFound
  <2>4. QED
    BY <2>2, <2>3
<1>5. QED
  BY <1>2, <1>4

\* afterProcess of an execution removes its own map and no other.
LEMMA TempRemove ==
  ASSUME TypeOK, TempInv, NEW e \in Executions, state' = [state EXCEPT ![e] = "remove"],
         RemoveJobTempData(e)
  PROVE  TempInv'
<1> USE DEF TempInv
<1>1. /\ temp'[e] = NoOne /\ \A f \in Executions \ {e} : temp'[f] = temp[f]
      /\ \A t \in Threads : t # temp[e] => map'[t] = map[t]
      /\ state'[e] = "remove" /\ \A f \in Executions \ {e} : state'[f] = state[f]
      /\ UNCHANGED << blind, at, ref >>
  BY DEF RemoveJobTempData, localVars, TypeOK
<1>2. OwnMap'
  BY <1>1 DEF OwnMap
<1>3. \A f \in Executions : Lone(f)' <=> Lone(f)
  BY <1>1 DEF Lone, ThreadsOf
<1>4. ASSUME NEW t \in Threads
      PROVE  MapFound(t)'
  <2>1. Owner[t] \in Executions /\ MapFound(t) /\ ref[t] \in Threads \union {NoOne}
    BY Numbers DEF TypeOK
  <2>2. CASE Owner[t] = e
    BY <1>1, <2>1, <2>2 DEF MapFound
  <2>3. CASE Owner[t] # e
    <3>1. state[Owner[t]] = "running" /\ Lone(Owner[t]) /\ ref[t] # NoOne => ref[t] # temp[e]
      BY <2>1, <2>3 DEF MapFound, OwnMap
    <3>2. QED
      BY <1>1, <1>3, <2>1, <2>3, <3>1 DEF MapFound
  <2>4. QED
    BY <2>2, <2>3
<1>5. QED
  BY <1>2, <1>4

\* The listener lets an execution begin, and no other step makes one run.
LEMMA StatesAdvance ==
  ASSUME TypeOK, NEW e \in Executions,
         \/ Listener!BeforeJob(e) \/ Listener!EndUnbegun(e) \/ Listener!SetCurrentStepInfo(e)
         \/ Listener!EndSteps(e) \/ Listener!AfterJob(e) \/ Listener!RemoveJob(e)
  PROVE  \A f \in Executions : /\ state'[f] = "new" => state[f] = "new"
                               /\ state'[f] = "running" => state[f] \in {"new", "running"}
  BY DEF TypeOK, Listener!BeforeJob, Listener!EndUnbegun, Listener!SetCurrentStepInfo,
         Listener!EndSteps, Listener!AfterJob, Listener!RemoveJob

LEMMA TempNext ==
  ASSUME TypeOK, TempInv, [Next]_vars
  PROVE  TempInv'
<1> USE Numbers
<1>1. ASSUME UNCHANGED contextVars,
             \A f \in Executions : /\ state'[f] = "new" => state[f] = "new"
                                   /\ state'[f] = "running" => state[f] \in {"new", "running"}
      PROVE  TempInv'
  BY <1>1, TempStutters DEF contextVars, localVars
<1>2. ASSUME NEW e \in Executions, Launch(e)
      PROVE  TempInv'
  BY <1>1, <1>2, StatesAdvance DEF Launch
<1>3. ASSUME NEW e \in Executions, End(e)
      PROVE  TempInv'
  <2>1. CASE UNCHANGED contextVars
    BY <1>1, <1>3, <2>1, StatesAdvance DEF End
  <2>2. CASE Listener!AfterJob(e) /\ state'[e] = "remove" /\ RemoveJobTempData(e)
    <3>1. state' = [state EXCEPT ![e] = "remove"]
      BY <2>2 DEF TypeOK, Listener!AfterJob
    <3>2. QED
      BY <2>2, <3>1, TempRemove
  <2>3. QED
    BY <1>3, <2>1, <2>2 DEF End
<1>4. ASSUME NEW t \in Threads, Step(t)
      PROVE  TempInv'
  <2>1. CASE Call(t) /\ UNCHANGED listenerVars
    <3>1. ASSUME NEW v \in Values, Add(t, v)
          PROVE  TempInv'
      <4>1. at[t] = "idle" /\ \A u \in Threads : at'[u] = IF u = t THEN "getJob" ELSE at[u]
        BY <3>1 DEF Add, TypeOK
      <4>2. QED
        BY <1>4, <2>1, <3>1, <4>1, TempStutters DEF Step, Add, listenerVars, Listener!SetCurrentStepInfo
    <3>2. QED
      BY <1>4, <2>1, <3>1, TempGet DEF Step, Call, listenerVars, Listener!SetCurrentStepInfo
  <2>2. CASE Work(t) /\ UNCHANGED listenerVars
    <3>1. CASE GetJob(t) \/ PutJob(t) \/ GetStep(t) \/ PutStep(t)
      <4>1. /\ at[t] \in {"getJob", "putJob", "getStep", "putStep"}
            /\ at'[t] \in {"putJob", "getStep", "putStep", "idle"}
            /\ \A u \in Threads : u # t => at'[u] = at[u]
            /\ UNCHANGED << tempVars, ref >>
        BY <3>1 DEF GetJob, PutJob, GetStep, PutStep, TypeOK
      <4>2. QED
        BY <1>4, <2>2, <4>1, TempStutters DEF Step, listenerVars, Listener!SetCurrentStepInfo
    <3>2. QED
      BY <1>4, <2>2, <3>1, TempNew, TempPut DEF Step, Work, listenerVars, Listener!SetCurrentStepInfo
  <2>3. CASE Listener!SetCurrentStepInfo(Owner[t]) /\ UNCHANGED contextVars
    BY <1>1, <2>3, StatesAdvance
  <2>4. QED
    BY <1>4, <2>1, <2>2, <2>3 DEF Step
<1>5. CASE UNCHANGED vars
  BY <1>1, <1>5 DEF vars, listenerVars
<1>6. QED
  BY <1>2, <1>3, <1>4, <1>5 DEF Next

(***************************************************************************)
(* What a thread put is found under the execution's temporary data until   *)
(* the execution ends, unless two of its threads found no map.             *)
(* (BatchContext.putJobTempData)                                           *)
(***************************************************************************)
THEOREM DataIsFound == FairSpec => []TempDataKept
<1>1. Init => TypeOK /\ TempInv
  BY TypeInit, TempInit
<1>2. TypeOK /\ TempInv /\ [Next]_vars => TypeOK' /\ TempInv'
  BY TypeNext, TempNext
<1>3. TypeOK /\ TempInv => TempDataKept
  BY Numbers DEF TempInv, MapFound, Lone, TempDataKept
<1>4. QED
  BY <1>1, <1>2, <1>3, PTL DEF FairSpec

-----------------------------------------------------------------------------
\* The listener.

Clean(n) == unbegun \intersect Listener!Named(n) = {}

\* How far an execution has come when it was refused or did not begin.
Ending(e) ==
  /\ refused[e] => status[e] = "FAILED" /\ state[e] \in {"after", "ended"} /\ e \notin unbegun
  /\ e \in unbegun => state[e] \in {"after", "remove", "ended"}

LiveOf(n) == { e \in Listener!Named(n) : Listener!Live(e) }

\* Those that did not begin and whose afterJob has removed the name.
Gone(n) == { e \in unbegun \intersect Listener!Named(n) : state[e] = "ended" }

Registered(n) == IF n \in currentRunnungJob THEN 1 ELSE 0

ListenerInv ==
  /\ \A e \in Executions : Ending(e)
  /\ \A n \in currentRunnungJob : \E e \in Executions : JobName[e] = n /\ Listener!Live(e)
  /\ \A e \in Executions : Listener!Live(e) /\ Clean(JobName[e]) => JobName[e] \in currentRunnungJob
  /\ \A e, f \in Executions :
       Listener!Live(e) /\ Listener!Live(f) /\ JobName[e] = JobName[f] /\ Clean(JobName[e]) => e = f

Counted == \A n \in Listener!JobNames :
             Cardinality(LiveOf(n)) <= Registered(n) + Cardinality(Gone(n))

LEMMA ListenerInit == Init => ListenerInv /\ Counted
<1> SUFFICES ASSUME Init PROVE ListenerInv /\ Counted
  OBVIOUS
<1> USE DEF Init, Listener!ListenerInit
<1>1. ListenerInv
  BY DEF ListenerInv, Ending, Listener!Live
<1>2. ASSUME NEW n \in Listener!JobNames
      PROVE  Cardinality(LiveOf(n)) <= Registered(n) + Cardinality(Gone(n))
  <2>1. LiveOf(n) = {} /\ Gone(n) = {}
    BY DEF LiveOf, Gone, Listener!Named, Listener!Live
  <2>2. QED
    BY <2>1, FS_EmptySet DEF Registered
<1>3. QED
  BY <1>1, <1>2 DEF Counted

ListenerStep(e) ==
  \/ Listener!BeforeJob(e) \/ Listener!EndUnbegun(e) \/ Listener!SetCurrentStepInfo(e)
  \/ Listener!EndSteps(e) \/ Listener!AfterJob(e) \/ Listener!RemoveJob(e)

LEMMA ListenerInvNext ==
  ASSUME TypeOK, ListenerInv, NEW e \in Executions, ListenerStep(e)
  PROVE  ListenerInv'
<1> USE DEF TypeOK, ListenerInv, Ending, Clean, Listener!Live, Listener!Named
<1>1. CASE Listener!BeforeJob(e)
  <2>1. CASE JobName[e] \in currentRunnungJob
    <3>1. /\ state[e] = "new" /\ ~Listener!Live(e)
          /\ refused' = [refused EXCEPT ![e] = TRUE] /\ status' = [status EXCEPT ![e] = "FAILED"]
          /\ state' = [state EXCEPT ![e] = "after"]
          /\ UNCHANGED << currentRunnungJob, unbegun >>
      BY <1>1, <2>1 DEF Listener!BeforeJob
    <3>2. \A f \in Executions : Listener!Live(f)' = Listener!Live(f)
      BY <3>1
    <3>3. \A f \in Executions : Ending(f)'
      BY <3>1
    <3>4. QED
      BY <3>1, <3>2, <3>3
  <2>2. CASE JobName[e] \notin currentRunnungJob
    <3>1. /\ state[e] = "new" /\ currentRunnungJob' = currentRunnungJob \union {JobName[e]}
          /\ state' = [state EXCEPT ![e] = "running"]
          /\ UNCHANGED << status, refused, unbegun >>
      BY <1>1, <2>2 DEF Listener!BeforeJob
    <3>2. \A f \in Executions \ {e} : Listener!Live(f)' = Listener!Live(f)
      BY <3>1
    <3>3. \A f \in Executions : Ending(f)'
      BY <3>1
    <3>4. Listener!Live(e)'
      BY <3>1
    <3>5. \A f \in Executions : Listener!Live(f) /\ Clean(JobName[f]) => JobName[f] # JobName[e]
      BY <2>2
    <3>6. QED
      <4> HIDE DEF Ending, Listener!Live
      <4>1. \A n \in currentRunnungJob' : \E f \in Executions : JobName[f] = n /\ Listener!Live(f)'
        BY <2>2, <3>1, <3>2, <3>4
      <4>2. \A f \in Executions : Listener!Live(f)' /\ Clean(JobName[f])' => JobName[f] \in currentRunnungJob'
        BY <3>1, <3>2
      <4>3. ASSUME NEW f \in Executions, NEW g \in Executions,
                   Listener!Live(f)', Listener!Live(g)', JobName[f] = JobName[g], Clean(JobName[f])'
            PROVE  f = g
        <5>1. Clean(JobName[f])
          BY <3>1, <4>3
        <5>2. f # e => JobName[f] # JobName[e]
          BY <3>2, <3>5, <4>3, <5>1
        <5>3. g # e => JobName[g] # JobName[e]
          BY <3>2, <3>5, <4>3, <5>1
        <5>4. QED
          BY <3>2, <4>3, <5>1, <5>2, <5>3
      <4>4. QED
        BY <3>3, <4>1, <4>2, <4>3
  <2>3. QED
    BY <2>1, <2>2
<1>2. CASE Listener!EndUnbegun(e)
  BY <1>2 DEF Listener!EndUnbegun
<1>3. CASE Listener!SetCurrentStepInfo(e)
  BY <1>3 DEF Listener!SetCurrentStepInfo
<1>4. CASE Listener!EndSteps(e)
  BY <1>4 DEF Listener!EndSteps
<1>5. CASE Listener!AfterJob(e)
  BY <1>5 DEF Listener!AfterJob
<1>6. CASE Listener!RemoveJob(e)
  BY <1>6 DEF Listener!RemoveJob
<1>7. QED
  BY <1>1, <1>2, <1>3, <1>4, <1>5, <1>6 DEF ListenerStep

\* Sets of executions are finite, and one more or one less is counted as such.
LEMMA Counts ==
  ASSUME TypeOK, NEW n, NEW e \in Executions
  PROVE  /\ Cardinality(LiveOf(n)) \in Nat /\ Cardinality(Gone(n)) \in Nat
         /\ Cardinality(LiveOf(n) \union {e}) \in Nat
         /\ Cardinality(LiveOf(n) \union {e}) <= Cardinality(LiveOf(n)) + 1
         /\ e \in LiveOf(n) => Cardinality(LiveOf(n) \ {e}) = Cardinality(LiveOf(n)) - 1
         /\ e \notin Gone(n) => Cardinality(Gone(n) \union {e}) = Cardinality(Gone(n)) + 1
<1>1. LiveOf(n) \subseteq Executions /\ Gone(n) \subseteq Executions
  BY DEF TypeOK, LiveOf, Gone, Listener!Named
<1>2. IsFiniteSet(LiveOf(n)) /\ IsFiniteSet(Gone(n))
  BY <1>1, FS_Subset, BatchContextAssumption
<1>3. Cardinality(LiveOf(n)) \in Nat /\ Cardinality(Gone(n)) \in Nat
  BY <1>2, FS_CardinalityType
<1>4. Cardinality(LiveOf(n) \union {e}) <= Cardinality(LiveOf(n)) + 1
  <2>1. CASE e \in LiveOf(n)
    <3>1. LiveOf(n) \union {e} = LiveOf(n)
      BY <2>1
    <3>2. Cardinality(LiveOf(n) \union {e}) = Cardinality(LiveOf(n))
      BY <3>1, Zenon
    <3>3. QED
      BY <1>3, <3>2
  <2>2. CASE e \notin LiveOf(n)
    <3>1. Cardinality(LiveOf(n) \union {e}) = Cardinality(LiveOf(n)) + 1
      BY <1>2, <2>2, FS_AddElement
    <3>2. QED
      BY <1>3, <3>1
  <2>3. QED
    BY <2>1, <2>2
<1>5. ASSUME e \in LiveOf(n)
      PROVE  Cardinality(LiveOf(n) \ {e}) = Cardinality(LiveOf(n)) - 1
  BY <1>2, <1>5, FS_RemoveElement
<1>6. ASSUME e \notin Gone(n)
      PROVE  Cardinality(Gone(n) \union {e}) = Cardinality(Gone(n)) + 1
  BY <1>2, <1>6, FS_AddElement
<1>7. Cardinality(LiveOf(n) \union {e}) \in Nat
  <2>1. IsFiniteSet(LiveOf(n) \union {e})
    BY <1>2, FS_AddElement
  <2>2. QED
    BY <2>1, FS_CardinalityType
<1>8. QED
  BY <1>3, <1>4, <1>5, <1>6, <1>7

LEMMA CountedNext ==
  ASSUME TypeOK, ListenerInv, Counted, NEW e \in Executions, ListenerStep(e)
  PROVE  Counted'
<1> SUFFICES ASSUME NEW n \in Listener!JobNames
             PROVE  Cardinality(LiveOf(n)') <= Registered(n)' + Cardinality(Gone(n)')
  BY DEF Counted, Listener!JobNames
<1>1. Cardinality(LiveOf(n)) <= Registered(n) + Cardinality(Gone(n))
  BY DEF Counted
<1>2. /\ Cardinality(LiveOf(n)) \in Nat /\ Cardinality(Gone(n)) \in Nat
      /\ Cardinality(LiveOf(n) \union {e}) \in Nat
      /\ Cardinality(LiveOf(n) \union {e}) <= Cardinality(LiveOf(n)) + 1
      /\ e \in LiveOf(n) => Cardinality(LiveOf(n) \ {e}) = Cardinality(LiveOf(n)) - 1
      /\ e \notin Gone(n) => Cardinality(Gone(n) \union {e}) = Cardinality(Gone(n)) + 1
      /\ Registered(n) \in 0 .. 1
  <2>1. Registered(n) \in 0 .. 1
    BY DEF Registered
  <2>2. QED
    BY <2>1, Counts
<1>3. ASSUME LiveOf(n)' = LiveOf(n),
             Gone(n)' = Gone(n) \/ (e \notin Gone(n) /\ Gone(n)' = Gone(n) \union {e}),
             Registered(n)' = Registered(n) \/ Registered(n)' = 1
      PROVE  Cardinality(LiveOf(n)') <= Registered(n)' + Cardinality(Gone(n)')
  <2>1. Cardinality(LiveOf(n)') = Cardinality(LiveOf(n))
    BY <1>3, Zenon
  <2>2. Cardinality(Gone(n)') \in Nat /\ Cardinality(Gone(n)) <= Cardinality(Gone(n)')
    <3>1. CASE Gone(n)' = Gone(n)
      <4>1. Cardinality(Gone(n)') = Cardinality(Gone(n))
        BY <3>1, Zenon
      <4>2. QED
        BY <1>2, <4>1
    <3>2. CASE e \notin Gone(n) /\ Gone(n)' = Gone(n) \union {e}
      <4>1. Cardinality(Gone(n)') = Cardinality(Gone(n) \union {e})
        BY <3>2, Zenon
      <4>2. QED
        BY <1>2, <3>2, <4>1
    <3>3. QED
      BY <1>3, <3>1, <3>2
  <2>3. QED
    BY <1>1, <1>2, <1>3, <2>1, <2>2
<1> USE DEF TypeOK, ListenerInv, Ending, LiveOf, Gone, Listener!Live, Listener!Named
<1>4. CASE Listener!BeforeJob(e)
  <2>1. CASE JobName[e] \in currentRunnungJob
    <3>1. LiveOf(n)' = LiveOf(n) /\ Gone(n)' = Gone(n)
      BY <1>4, <2>1 DEF Listener!BeforeJob
    <3>2. Registered(n)' = Registered(n)
      BY <1>4, <2>1 DEF Listener!BeforeJob, Registered
    <3>3. QED
      BY <1>3, <3>1, <3>2
  <2>2. CASE JobName[e] \notin currentRunnungJob /\ n = JobName[e]
    <3>1. LiveOf(n)' = LiveOf(n) \union {e} /\ Gone(n)' = Gone(n)
      BY <1>4, <2>2 DEF Listener!BeforeJob
    <3>2. Registered(n) = 0 /\ Registered(n)' = 1
      BY <1>4, <2>2 DEF Listener!BeforeJob, Registered
    <3> HIDE DEF LiveOf, Gone
    <3>3. Cardinality(LiveOf(n)') <= Cardinality(LiveOf(n)) + 1
      BY <1>2, <3>1
    <3>4. Cardinality(Gone(n)') = Cardinality(Gone(n))
      BY <3>1, Zenon
    <3>5. Cardinality(LiveOf(n)') \in Nat
      BY <1>2, <3>1
    <3>6. QED
      BY <1>1, <1>2, <3>2, <3>3, <3>4, <3>5
  <2>3. CASE JobName[e] \notin currentRunnungJob /\ n # JobName[e]
    <3>1. LiveOf(n)' = LiveOf(n) /\ Gone(n)' = Gone(n)
      BY <1>4, <2>3 DEF Listener!BeforeJob
    <3>2. Registered(n)' = Registered(n)
      BY <1>4, <2>3 DEF Listener!BeforeJob, Registered
    <3>3. QED
      BY <1>3, <3>1, <3>2
  <2>4. QED
    BY <2>1, <2>2, <2>3
<1>5. CASE Listener!EndUnbegun(e)
  <2>1. LiveOf(n)' = LiveOf(n) /\ Gone(n)' = Gone(n) /\ Registered(n)' = Registered(n)
    BY <1>5 DEF Listener!EndUnbegun, Registered
  <2>2. QED
    BY <1>3, <2>1
<1>6. CASE Listener!SetCurrentStepInfo(e)
  <2>1. /\ LiveOf(n)' = LiveOf(n) /\ Gone(n)' = Gone(n)
        /\ Registered(n)' = Registered(n) \/ Registered(n)' = 1
    BY <1>6 DEF Listener!SetCurrentStepInfo, Registered
  <2>2. QED
    BY <1>3, <2>1
<1>7. CASE Listener!EndSteps(e)
  <2>1. LiveOf(n)' = LiveOf(n) /\ Gone(n)' = Gone(n) /\ Registered(n)' = Registered(n)
    BY <1>7 DEF Listener!EndSteps, Registered
  <2>2. QED
    BY <1>3, <2>1
<1>8. CASE Listener!AfterJob(e)
  <2>1. LiveOf(n)' = LiveOf(n) /\ Gone(n)' = Gone(n) /\ Registered(n)' = Registered(n)
    BY <1>8 DEF Listener!AfterJob, Registered
  <2>2. QED
    BY <1>3, <2>1
<1>9. CASE Listener!RemoveJob(e)
  <2>1. CASE n # JobName[e]
    <3>1. LiveOf(n)' = LiveOf(n) /\ Gone(n)' = Gone(n) /\ Registered(n)' = Registered(n)
      BY <1>9, <2>1 DEF Listener!RemoveJob, Registered
    <3>2. QED
      BY <1>3, <3>1
  <2>2. CASE n = JobName[e] /\ e \in unbegun
    <3>1. LiveOf(n)' = LiveOf(n) /\ e \notin Gone(n) /\ Gone(n)' = Gone(n) \union {e}
      BY <1>9, <2>2 DEF Listener!RemoveJob
    <3>2. Registered(n)' \in Nat
      BY DEF Registered
    <3> HIDE DEF LiveOf, Gone
    <3>3. QED
      BY <1>1, <1>2, <3>1, <3>2
  <2>3. CASE n = JobName[e] /\ e \notin unbegun
    <3>1. e \in LiveOf(n) /\ LiveOf(n)' = LiveOf(n) \ {e} /\ Gone(n)' = Gone(n)
      BY <1>9, <2>3 DEF Listener!RemoveJob
    <3>2. Registered(n)' \in Nat
      BY DEF Registered
    <3> HIDE DEF LiveOf, Gone
    <3>3. QED
      BY <1>1, <1>2, <3>1, <3>2
  <2>4. QED
    BY <2>1, <2>2, <2>3
<1>10. QED
  BY <1>4, <1>5, <1>6, <1>7, <1>8, <1>9 DEF ListenerStep

LEMMA ListenerNext ==
  ASSUME TypeOK, ListenerInv, Counted, [Next]_vars
  PROVE  ListenerInv' /\ Counted'
<1>1. ASSUME UNCHANGED listenerVars
      PROVE  ListenerInv' /\ Counted'
  <2>1. /\ \A e : Ending(e)' = Ending(e) /\ Listener!Live(e)' = Listener!Live(e)
        /\ \A n : Clean(n)' = Clean(n) /\ Registered(n)' = Registered(n) /\ Gone(n)' = Gone(n)
        /\ \A n : LiveOf(n)' = LiveOf(n)
    BY <1>1 DEF listenerVars, Ending, Clean, LiveOf, Gone, Registered, Listener!Live, Listener!Named
  <2>2. QED
    BY <1>1, <2>1 DEF listenerVars, ListenerInv, Counted, Listener!JobNames
<1>2. ASSUME NEW e \in Executions, ListenerStep(e)
      PROVE  ListenerInv' /\ Counted'
  BY <1>2, ListenerInvNext, CountedNext
<1>3. QED
  BY <1>1, <1>2, Numbers DEF Next, Launch, Step, End, ListenerStep, vars

(***************************************************************************)
(* isExist tells the truth: a registered name has an execution running,    *)
(* and one that runs is registered as long as no execution of its name     *)
(* ended before it began.  (UniqueExecutionListener.beforeJob, afterJob)   *)
(***************************************************************************)
THEOREM RegisteredWhileRunning == FairSpec => []ExistsIfRunning
<1>1. Init => TypeOK /\ ListenerInv /\ Counted
  BY TypeInit, ListenerInit
<1>2. TypeOK /\ ListenerInv /\ Counted /\ [Next]_vars => TypeOK' /\ ListenerInv' /\ Counted'
  BY TypeNext, ListenerNext
<1>3. ListenerInv => ExistsIfRunning
  BY DEF ListenerInv, ExistsIfRunning, Clean, Listener!JobNames, Listener!Named
<1>4. QED
  BY <1>1, <1>2, <1>3, PTL DEF FairSpec

(***************************************************************************)
(* Of one name no more executions run than one, and one for each that      *)
(* ended before it began.  (UniqueExecutionListener.beforeJob, afterJob)   *)
(***************************************************************************)
THEOREM OneOfAName == FairSpec => []OnePerName
<1>1. Init => TypeOK /\ ListenerInv /\ Counted
  BY TypeInit, ListenerInit
<1>2. TypeOK /\ ListenerInv /\ Counted /\ [Next]_vars => TypeOK' /\ ListenerInv' /\ Counted'
  BY TypeNext, ListenerNext
<1>3. ASSUME TypeOK, Counted, NEW n \in Listener!JobNames
      PROVE  Cardinality(LiveOf(n)) <= 1 + Cardinality(unbegun \intersect Listener!Named(n))
  <2>1. unbegun \intersect Listener!Named(n) \subseteq Executions
    BY DEF Listener!Named
  <2>2. IsFiniteSet(unbegun \intersect Listener!Named(n))
    BY <2>1, FS_Subset, BatchContextAssumption
  <2>3. Gone(n) \subseteq unbegun \intersect Listener!Named(n)
    BY DEF Gone
  <2>4. Cardinality(Gone(n)) <= Cardinality(unbegun \intersect Listener!Named(n))
    BY <2>2, <2>3, FS_Subset
  <2>5. /\ Cardinality(unbegun \intersect Listener!Named(n)) \in Nat /\ Cardinality(Gone(n)) \in Nat
        /\ IsFiniteSet(LiveOf(n))
    BY <2>1, <2>2, <2>3, FS_Subset, FS_CardinalityType, BatchContextAssumption DEF LiveOf, Listener!Named
  <2>6. QED
    BY <1>3, <2>4, <2>5, FS_CardinalityType DEF Counted, Registered
<1>4. TypeOK /\ Counted => OnePerName
  BY <1>3 DEF OnePerName, LiveOf
<1>5. QED
  BY <1>1, <1>2, <1>4, PTL DEF FairSpec
=============================================================================
