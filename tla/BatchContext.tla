---------------------------- MODULE BatchContext ----------------------------
(***************************************************************************)
(* BatchContext: what the threads of a job share.  Each step makes a       *)
(* BatchContext of its own (in its beforeStep), which its threads use      *)
(* together; the steps of an execution may run in parallel and share the   *)
(* execution's ExecutionContext.  The monitor that addSynchronized takes   *)
(* is that of the BatchContext.                                            *)
(*                                                                         *)
(* An ExecutionContext is a concurrent map: one get or put is atomic.      *)
(***************************************************************************)
EXTENDS Naturals, FiniteSets

CONSTANTS
  Executions,   \* JobExecutions
  Steps,        \* steps of a job
  Threads,      \* threads of the steps
  Owner,        \* the execution each thread works for
  Values,       \* what is added
  MaxCalls      \* bound: calls of a thread

NoOne == "none"

ASSUME BatchContextAssumption ==
  /\ IsFiniteSet(Executions)
  /\ Owner \in [Threads -> Executions]
  /\ Values \subseteq Nat \ {0}
  /\ MaxCalls \in Nat
  /\ NoOne \notin Threads

VARIABLES
  stepOf,    \* the step each thread works in
  jec,       \* a number under one key of each execution's ExecutionContext
  sec,       \* the same of each step's ExecutionContext
  temp,      \* JOB_TEMP_DATA_KEY: the map, known by the thread that made it, or no one's
  map,       \* what each map holds, known by the threads that put it
  lock,      \* who holds the monitor of each step's BatchContext
  at,        \* where in a method each thread is
  value,     \* its argument
  exist,     \* what it read
  ref,       \* the map it found or made
  calls,     \* how many methods it called (bound)
  jobTotal,  \* all that was added for each execution (history)
  stepTotal, \* all that was added for each step (history)
  adders,    \* threads that have called add (history)
  blind      \* threads that found no map (history)

localVars == << at, value, exist, ref, calls >>
sumVars == << jec, sec, jobTotal, stepTotal, adders >>
tempVars == << temp, map, blind >>
contextVars == << stepOf, sumVars, tempVars, lock, localVars >>

Contexts == Executions \X Steps

Context(t) == << Owner[t], stepOf[t] >>

ContextInit ==
  /\ stepOf \in [Threads -> Steps]
  /\ jec = [e \in Executions |-> 0]
  /\ sec = [c \in Contexts |-> 0]
  /\ temp = [e \in Executions |-> NoOne]
  /\ map = [t \in Threads |-> {}]
  /\ lock = [c \in Contexts |-> NoOne]
  /\ at = [t \in Threads |-> "idle"]
  /\ value = [t \in Threads |-> 0]
  /\ exist = [t \in Threads |-> 0]
  /\ ref = [t \in Threads |-> NoOne]
  /\ calls = [t \in Threads |-> 0]
  /\ jobTotal = [e \in Executions |-> 0]
  /\ stepTotal = [c \in Contexts |-> 0]
  /\ adders = {}
  /\ blind = {}

-----------------------------------------------------------------------------
\* add(key,value): addSynchronized(jec,..), then add(sec,..).

Add(t, v) ==
  /\ at[t] = "idle" /\ calls[t] < MaxCalls
  /\ calls' = [calls EXCEPT ![t] = @ + 1]
  /\ value' = [value EXCEPT ![t] = v]
  /\ adders' = adders \union {t}
  /\ at' = [at EXCEPT ![t] = "getJob"]
  /\ UNCHANGED << stepOf, jec, sec, jobTotal, stepTotal, tempVars, lock, exist, ref >>

\* Variant: add is called where addSynchronized should be.
GetJobUnlocked(t) ==
  /\ at[t] = "getJob"
  /\ exist' = [exist EXCEPT ![t] = jec[Owner[t]]]
  /\ at' = [at EXCEPT ![t] = "putJob"]
  /\ UNCHANGED << stepOf, sumVars, tempVars, lock, value, ref, calls >>

\* ex.getInt once the monitor is taken.
GetJob(t) ==
  /\ at[t] = "getJob" /\ lock[Context(t)] = NoOne
  /\ lock' = [lock EXCEPT ![Context(t)] = t]
  /\ exist' = [exist EXCEPT ![t] = jec[Owner[t]]]
  /\ at' = [at EXCEPT ![t] = "putJob"]
  /\ UNCHANGED << stepOf, sumVars, tempVars, value, ref, calls >>

\* Variant: the monitor is not given up.
PutJobLocked(t) ==
  /\ at[t] = "putJob"
  /\ jec' = [jec EXCEPT ![Owner[t]] = exist[t] + value[t]]
  /\ jobTotal' = [jobTotal EXCEPT ![Owner[t]] = @ + value[t]]
  /\ at' = [at EXCEPT ![t] = "getStep"]
  /\ UNCHANGED << stepOf, sec, stepTotal, adders, tempVars, lock, value, exist, ref, calls >>

\* ex.putInt, and the monitor is given up.
PutJob(t) ==
  /\ at[t] = "putJob"
  /\ jec' = [jec EXCEPT ![Owner[t]] = exist[t] + value[t]]
  /\ jobTotal' = [jobTotal EXCEPT ![Owner[t]] = @ + value[t]]
  /\ lock' = [lock EXCEPT ![Context(t)] = NoOne]
  /\ at' = [at EXCEPT ![t] = "getStep"]
  /\ UNCHANGED << stepOf, sec, stepTotal, adders, tempVars, value, exist, ref, calls >>

GetStep(t) ==
  /\ at[t] = "getStep"
  /\ exist' = [exist EXCEPT ![t] = sec[Context(t)]]
  /\ at' = [at EXCEPT ![t] = "putStep"]
  /\ UNCHANGED << stepOf, sumVars, tempVars, lock, value, ref, calls >>

PutStep(t) ==
  /\ at[t] = "putStep"
  /\ sec' = [sec EXCEPT ![Context(t)] = exist[t] + value[t]]
  /\ stepTotal' = [stepTotal EXCEPT ![Context(t)] = @ + value[t]]
  /\ at' = [at EXCEPT ![t] = "idle"]
  /\ UNCHANGED << stepOf, jec, jobTotal, adders, tempVars, lock, value, exist, ref, calls >>

-----------------------------------------------------------------------------
\* putJobTempData(key,value), each thread with a key of its own.

\* Variants: a map is made without looking for one; none is made.
GetTempNever(t) ==
  /\ at[t] = "idle" /\ calls[t] < MaxCalls
  /\ calls' = [calls EXCEPT ![t] = @ + 1]
  /\ at' = [at EXCEPT ![t] = "newMap"]
  /\ blind' = IF temp[Owner[t]] = NoOne THEN blind \union {t} ELSE blind
  /\ UNCHANGED << stepOf, sumVars, temp, map, lock, value, exist, ref >>

GetTempOnly(t) ==
  /\ at[t] = "idle" /\ calls[t] < MaxCalls
  /\ calls' = [calls EXCEPT ![t] = @ + 1]
  /\ ref' = [ref EXCEPT ![t] = temp[Owner[t]]]
  /\ at' = [at EXCEPT ![t] = "putTemp"]
  /\ UNCHANGED << stepOf, sumVars, tempVars, lock, value, exist >>

GetTemp(t) ==
  /\ at[t] = "idle" /\ calls[t] < MaxCalls
  /\ calls' = [calls EXCEPT ![t] = @ + 1]
  /\ ref' = [ref EXCEPT ![t] = temp[Owner[t]]]
  /\ IF temp[Owner[t]] = NoOne
       THEN at' = [at EXCEPT ![t] = "newMap"] /\ blind' = blind \union {t}
       ELSE at' = [at EXCEPT ![t] = "putTemp"] /\ UNCHANGED blind
  /\ UNCHANGED << stepOf, sumVars, temp, map, lock, value, exist >>

NewMap(t) ==
  /\ at[t] = "newMap"
  /\ temp' = [temp EXCEPT ![Owner[t]] = t]
  /\ map' = [map EXCEPT ![t] = {}]
  /\ ref' = [ref EXCEPT ![t] = t]
  /\ at' = [at EXCEPT ![t] = "putTemp"]
  /\ UNCHANGED << stepOf, sumVars, blind, lock, value, exist, calls >>

PutTemp(t) ==
  /\ at[t] = "putTemp"
  /\ map' = [map EXCEPT ![ref[t]] = @ \union {t}]
  /\ at' = [at EXCEPT ![t] = "idle"]
  /\ UNCHANGED << stepOf, sumVars, temp, blind, lock, value, exist, ref, calls >>

\* removeJobTempData, called by the execution's own thread at its end.
RemoveJobTempData(e) ==
  /\ temp' = [temp EXCEPT ![e] = NoOne]
  /\ map' = [t \in Threads |-> IF temp[e] = t THEN {} ELSE map[t]]
  /\ UNCHANGED << stepOf, sumVars, blind, lock, localVars >>

Work(t) ==
  \/ GetJob(t) \/ PutJob(t) \/ GetStep(t) \/ PutStep(t) \/ NewMap(t) \/ PutTemp(t)

Call(t) == GetTemp(t) \/ \E v \in Values : Add(t, v)
=============================================================================
