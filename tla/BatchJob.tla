------------------------------- MODULE BatchJob -------------------------------
(***************************************************************************)
(* Executions of jobs under Spring Batch with the two classes of the       *)
(* library they share: the listener that lets one execution of a name run  *)
(* at a time (UniqueExecution), and the contexts in which the parallel     *)
(* steps of an execution leave numbers and temporary data (BatchContext).  *)
(* An execution ends when the methods its threads called have returned,    *)
(* and its afterProcess removes the temporary data.                        *)
(***************************************************************************)
EXTENDS BatchContext

CONSTANT JobName   \* the name of the job each execution belongs to

VARIABLES currentRunnungJob, state, status, refused, unbegun

Listener == INSTANCE UniqueExecution

listenerVars == << currentRunnungJob, state, status, refused, unbegun >>
vars == << contextVars, listenerVars >>

Init == ContextInit /\ Listener!ListenerInit

ThreadsOf(e) == { t \in Threads : Owner[t] = e }

Launch(e) == (Listener!BeforeJob(e) \/ Listener!EndUnbegun(e)) /\ UNCHANGED contextVars

Step(t) ==
  /\ state[Owner[t]] = "running"
  /\ \/ (Call(t) \/ Work(t)) /\ UNCHANGED listenerVars
     \/ Listener!SetCurrentStepInfo(Owner[t]) /\ UNCHANGED contextVars

\* The thread of the execution: its steps are over, then the listener's afterJob.
End(e) ==
  \/ /\ \A t \in ThreadsOf(e) : at[t] = "idle"
     /\ Listener!EndSteps(e)
     /\ UNCHANGED contextVars
  \/ /\ Listener!AfterJob(e)
     /\ IF state'[e] = "remove" THEN RemoveJobTempData(e) ELSE UNCHANGED contextVars
  \/ Listener!RemoveJob(e) /\ UNCHANGED contextVars

Next ==
  \/ \E e \in Executions : Launch(e) \/ End(e)
  \/ \E t \in Threads : Step(t)

(***************************************************************************)
(* A method that was called goes on, the threads of an execution come to   *)
(* an end, and the execution with them.                                    *)
(***************************************************************************)
FairSpec ==
  /\ Init /\ [][Next]_vars
  /\ \A t \in Threads : WF_vars(state[Owner[t]] = "running" /\ Work(t) /\ UNCHANGED listenerVars)
  /\ \A e \in Executions : WF_vars(End(e))

-----------------------------------------------------------------------------
TypeOK ==
  /\ currentRunnungJob \subseteq Listener!JobNames
  /\ state \in [Executions -> {"new", "running", "after", "remove", "ended"}]
  /\ status \in [Executions -> {"UNKNOWN", "COMPLETED", "FAILED"}]
  /\ refused \in [Executions -> BOOLEAN]
  /\ unbegun \subseteq Executions
  /\ stepOf \in [Threads -> Steps]
  /\ jec \in [Executions -> Nat] /\ jobTotal \in [Executions -> Nat]
  /\ sec \in [Contexts -> Nat] /\ stepTotal \in [Contexts -> Nat]
  /\ temp \in [Executions -> Threads \union {NoOne}]
  /\ map \in [Threads -> SUBSET Threads]
  /\ lock \in [Contexts -> Threads \union {NoOne}]
  /\ at \in [Threads -> {"idle", "getJob", "putJob", "getStep", "putStep", "newMap", "putTemp"}]
  /\ value \in [Threads -> Values \union {0}]
  /\ exist \in [Threads -> Nat]
  /\ ref \in [Threads -> Threads \union {NoOne}]
  /\ calls \in [Threads -> 0 .. MaxCalls]
  /\ adders \subseteq Threads /\ blind \subseteq Threads
  /\ \A t \in Threads : at[t] = "putTemp" => ref[t] # NoOne

(***************************************************************************)
(* Of one name, no two executions run at once; each execution that ended   *)
(* before it began, whose afterJob takes the name from the one that runs,  *)
(* lets in one more.  (UniqueExecutionListener.beforeJob, afterJob)        *)
(***************************************************************************)
OnePerName ==
  \A n \in Listener!JobNames :
    Cardinality({ e \in Listener!Named(n) : Listener!Live(e) }) <= 1 + Cardinality(unbegun \intersect Listener!Named(n))

(***************************************************************************)
(* isExist tells the truth: a registered name has an execution running,    *)
(* and one that runs is registered as long as no execution of its name     *)
(* ended before it began, whatever is refused, fails, or fails in          *)
(* afterProcess.  (UniqueExecutionListener.isExist, afterJob, removeJob)   *)
(***************************************************************************)
ExistsIfRunning ==
  \A n \in Listener!JobNames :
    /\ n \in currentRunnungJob => \E e \in Listener!Named(n) : Listener!Live(e)
    /\ (unbegun \intersect Listener!Named(n) = {} /\ \E e \in Listener!Named(n) : Listener!Live(e))
         => n \in currentRunnungJob

(***************************************************************************)
(* A job that was refused can be run again some time: its name does not    *)
(* stay registered for ever.  (UniqueExecutionListener.afterJob)           *)
(***************************************************************************)
NameComesFree == \A n \in Listener!JobNames : (n \in currentRunnungJob) ~> (n \notin currentRunnungJob)

AddersOf(e) == adders \intersect ThreadsOf(e)

(***************************************************************************)
(* What add leaves under a key of the execution is never more than was     *)
(* added, and exactly that if one step alone added, with however many      *)
(* threads: only then is there one monitor for all.  What it leaves in the *)
(* step's own context, without a monitor, is exact if one thread added.    *)
(* (BatchContext.add, addSynchronized)                                     *)
(***************************************************************************)
SumsHold ==
  /\ \A e \in Executions :
       /\ jec[e] <= jobTotal[e]
       /\ (\A t, u \in AddersOf(e) : stepOf[t] = stepOf[u]) => jec[e] = jobTotal[e]
  /\ \A c \in Contexts :
       /\ sec[c] <= stepTotal[c]
       /\ (\A t, u \in adders : Context(t) = c /\ Context(u) = c => t = u)
            => sec[c] = stepTotal[c]

(***************************************************************************)
(* What a thread put is found under the execution's temporary data until   *)
(* the execution ends, unless two threads made a map because both found    *)
(* none.  (BatchContext.putJobTempData, getJobTempData)                    *)
(***************************************************************************)
TempDataKept ==
  \A t \in Threads :
    LET e == Owner[t]
    IN  /\ state[e] = "running" /\ ref[t] # NoOne /\ at[t] \notin {"newMap", "putTemp"}
        /\ (\A u, v \in blind \intersect ThreadsOf(e) : u = v)
        => temp[e] # NoOne /\ t \in map[temp[e]]
=============================================================================
