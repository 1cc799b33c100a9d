--------------------------- MODULE UniqueExecution ---------------------------
(***************************************************************************)
(* UniqueExecutionListener: one listener for all jobs, which refuses a job *)
(* while an execution of the same name runs.                               *)
(*                                                                         *)
(* Spring Batch calls beforeJob when it starts an execution and afterJob   *)
(* at its end, in the thread of the execution; afterJob also when          *)
(* beforeJob threw, and when the execution was refused its parameters or   *)
(* stopped before beforeJob was reached.  isUniqueNameSkip, which the      *)
(* application writes, is taken as the comment in the class has it: the    *)
(* exceptions of the execution are searched for a BatchExistException.     *)
(***************************************************************************)
EXTENDS Naturals, FiniteSets

CONSTANTS
  Executions,   \* JobExecutions
  JobName       \* the name of the job each belongs to

JobNames == { JobName[e] : e \in Executions }

VARIABLES
  currentRunnungJob,  \* the names registered; which step is the current one is left out
  state,              \* where each execution is
  status,             \* BatchStatus at the end of an execution
  refused,            \* a BatchExistException is among its failures
  unbegun             \* executions that ended before beforeJob was called (history)

listenerVars == << currentRunnungJob, state, status, refused, unbegun >>

ListenerInit ==
  /\ currentRunnungJob = {}
  /\ state = [e \in Executions |-> "new"]
  /\ status = [e \in Executions |-> "UNKNOWN"]
  /\ refused = [e \in Executions |-> FALSE]
  /\ unbegun = {}

\* beforeJob: check and registration under the listener's lock.
BeforeJob(e) ==
  /\ state[e] = "new"
  /\ IF JobName[e] \in currentRunnungJob
       THEN /\ refused' = [refused EXCEPT ![e] = TRUE]
            /\ status' = [status EXCEPT ![e] = "FAILED"]
            /\ state' = [state EXCEPT ![e] = "after"]
            /\ UNCHANGED currentRunnungJob
       ELSE /\ currentRunnungJob' = currentRunnungJob \union {JobName[e]}
            /\ state' = [state EXCEPT ![e] = "running"]
            /\ UNCHANGED << status, refused >>
  /\ UNCHANGED unbegun

\* The execution is stopped, or its parameters are refused, before beforeJob.
EndUnbegun(e) ==
  /\ state[e] = "new"
  /\ status' = [status EXCEPT ![e] = "FAILED"]
  /\ state' = [state EXCEPT ![e] = "after"]
  /\ unbegun' = unbegun \union {e}
  /\ UNCHANGED << currentRunnungJob, refused >>

\* Called by a step of a running execution, without the lock.
SetCurrentStepInfo(e) ==
  /\ state[e] = "running"
  /\ currentRunnungJob' = currentRunnungJob \union {JobName[e]}
  /\ UNCHANGED << state, status, refused, unbegun >>

\* Of the statuses only COMPLETED is told from the others.
EndSteps(e) ==
  /\ state[e] = "running"
  /\ \E s \in {"COMPLETED", "FAILED"} : status' = [status EXCEPT ![e] = s]
  /\ state' = [state EXCEPT ![e] = "after"]
  /\ UNCHANGED << currentRunnungJob, refused, unbegun >>

\* Variants: a refused execution is treated as any other; an exception of
\* afterProcess skips what follows it.
AfterJobOfAny(e) ==
  /\ state[e] = "after"
  /\ state' = [state EXCEPT ![e] = "remove"]
  /\ UNCHANGED << currentRunnungJob, status, refused, unbegun >>

AfterJobUnguarded(e) ==
  /\ state[e] = "after"
  /\ state' = [state EXCEPT ![e] = IF status[e] # "COMPLETED" THEN "ended" ELSE "remove"]
  /\ UNCHANGED << currentRunnungJob, status, refused, unbegun >>

\* afterJob: nothing for a refused execution, else afterProcess, which may throw.
AfterJob(e) ==
  /\ state[e] = "after"
  /\ state' = [state EXCEPT ![e] = IF status[e] # "COMPLETED" /\ refused[e] THEN "ended"
                                                                              ELSE "remove"]
  /\ UNCHANGED << currentRunnungJob, status, refused, unbegun >>

\* removeJob in the finally.
RemoveJob(e) ==
  /\ state[e] = "remove"
  /\ currentRunnungJob' = currentRunnungJob \ {JobName[e]}
  /\ state' = [state EXCEPT ![e] = "ended"]
  /\ UNCHANGED << status, refused, unbegun >>

-----------------------------------------------------------------------------
\* beforeJob let the execution in, and its afterJob has not come to its end.
Live(e) == state[e] \in {"running", "after", "remove"} /\ ~refused[e] /\ e \notin unbegun

Named(n) == { e \in Executions : JobName[e] = n }
=============================================================================
