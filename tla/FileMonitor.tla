----------------------------- MODULE FileMonitor -----------------------------
(***************************************************************************)
(* The directory monitor (package erwins.util.tools.fileMonitor): a thread *)
(* that lists the directories of its check list in turn and hands every    *)
(* file it finds to FileMonitorBatchCallback, which reads it with an item  *)
(* reader, writes its rows in chunks with an item writer (the loop of      *)
(* SpringBatchMock.run) and calls the writer's afterStep with the outcome. *)
(*                                                                         *)
(* The item reader and writer are the application's.  The writer modelled  *)
(* keeps a chunk as a whole or not at all, and its afterStep moves a file  *)
(* whose step completed out of the directory and leaves any other, as the  *)
(* comment on FileMonitorBatchCallback.itemWriter proposes.                *)
(*                                                                         *)
(* Each FileMonitorInfo watches the closed files of one log; the patterns  *)
(* do not overlap.  A file is the sequence of its rows.                    *)
(***************************************************************************)
EXTENDS Naturals, Sequences, SequencesExt, FiniteSets

CONSTANTS
  Names,            \* the logs whose files are watched, a FileMonitorInfo for each
  CommitInterval,   \* FileMonitorBatchCallback.commitInterval
  MaxFaults,        \* bound: readers, writers, moves and listings that fail
  MaxDeaths         \* bound: kills of the monitor's process

ASSUME FileMonitorAssumption ==
  /\ CommitInterval \in Nat \ {0}
  /\ {MaxFaults, MaxDeaths} \subseteq Nat

VARIABLES
  closed,     \* the files that appeared under each name, in that order
  gone,       \* those afterStep has moved away
  sink,       \* the rows the item writer has written, in order
  handlers,   \* whether the callback and the monitor have an exceptionHandler
  checkList,  \* FileMonitor.checkList
  pc,         \* where the thread is
  iter,       \* the iterator of this round: how long the list was, how much is done
  list,       \* FileList: the files listed and not handed to the callback yet
  file,       \* the file in the callback
  pos,        \* rows of it that are written
  status,     \* StepExecution.exitStatus
  intr,       \* the thread's interrupt flag
  started,    \* every file handed to the callback (history)
  spent       \* faults and kills so far (bounds), and failed listings (history)

roundVars == << pc, iter, list >>
stepVars == << file, pos, status >>
monitorVars == << closed, gone, sink, handlers, checkList, roundVars, stepVars, intr, started,
                  spent >>

\* Variant: a directory is listed once, for all rounds.
ListedEver(n) == { << n, k >> : k \in DOMAIN closed[n] }

\* A file is known by its name and its place among the files of that name.
Listed(n) == { << n, k >> : k \in DOMAIN closed[n] } \ gone

Rows == closed[file[1]][file[2]]

Left == SubSeq(Rows, pos + 1, Len(Rows))

MonitorInit ==
  /\ gone = {}
  /\ sink = << >>
  /\ handlers \in [callback : BOOLEAN, monitor : BOOLEAN]
  /\ checkList = << >>
  /\ pc = "none"
  /\ iter = [size |-> 0, done |-> 0]
  /\ list = {}
  /\ file = << >>
  /\ pos = 0
  /\ status = "UNKNOWN"
  /\ intr = FALSE
  /\ started = << >>
  /\ spent = [faults |-> 0, deaths |-> 0, unlisted |-> FALSE]

CanFail == spent.faults < MaxFaults

Fault == spent' = [spent EXCEPT !.faults = @ + 1]

-----------------------------------------------------------------------------
\* What the application does.

\* addMonitor is synchronized, but the thread takes no lock.
AddMonitor(n) ==
  /\ n \notin ToSet(checkList)
  /\ checkList' = Append(checkList, n)
  /\ UNCHANGED << closed, gone, sink, handlers, roundVars, stepVars, intr, started, spent >>

Start ==
  /\ pc = "none"
  /\ pc' = "loop"
  /\ UNCHANGED << closed, gone, sink, handlers, checkList, iter, list, stepVars, intr, started,
                  spent >>

Interrupt ==
  /\ pc \notin {"none", "dead"}
  /\ intr' = TRUE
  /\ UNCHANGED << closed, gone, sink, handlers, checkList, roundVars, stepVars, started, spent >>

\* The process is killed; another one has to add its monitors and start again.
KillMonitor ==
  /\ pc # "none" /\ spent.deaths < MaxDeaths
  /\ spent' = [spent EXCEPT !.deaths = @ + 1, !.unlisted = FALSE]
  /\ checkList' = << >> /\ pc' = "none" /\ iter' = [size |-> 0, done |-> 0]
  /\ list' = {} /\ file' = << >> /\ pos' = 0 /\ status' = "UNKNOWN" /\ intr' = FALSE
  /\ UNCHANGED << closed, gone, sink, handlers, started >>

-----------------------------------------------------------------------------
\* FileMonitor.run.

\* while(!current.isInterrupted()), and a new iterator over checkList.
BeginRound ==
  /\ pc = "loop"
  /\ IF intr THEN pc' = "dead" /\ UNCHANGED iter
             ELSE pc' = "next" /\ iter' = [size |-> Len(checkList), done |-> 0]
  /\ UNCHANGED << closed, gone, sink, handlers, checkList, list, stepVars, intr, started, spent >>

Modified == Len(checkList) # iter.size

\* next() notices that addMonitor has changed the list: the exception is thrown
\* outside the inner try.
BreakRound ==
  /\ pc = "next" /\ Modified
  /\ pc' = "dead"
  /\ UNCHANGED << closed, gone, sink, handlers, checkList, iter, list, stepVars, intr, started,
                  spent >>

\* The next of the list, and what its directory holds now.  Nothing makes another
\* thread's change of the list visible, so it may go unnoticed.
ListFiles ==
  /\ pc = "next" /\ iter.done < iter.size
  /\ iter' = [iter EXCEPT !.done = @ + 1]
  /\ list' = Listed(checkList[iter.done + 1])
  /\ pc' = "files"
  /\ UNCHANGED << closed, gone, sink, handlers, checkList, stepVars, intr, started, spent >>

\* FileList refuses a directory that is not there (any more).
ListFails ==
  /\ pc = "next" /\ iter.done < iter.size /\ CanFail
  /\ spent' = [spent EXCEPT !.faults = @ + 1, !.unlisted = TRUE]
  /\ pc' = "dead"
  /\ UNCHANGED << closed, gone, sink, handlers, checkList, iter, list, stepVars, intr, started >>

EndRound ==
  /\ pc = "next" /\ iter.done = iter.size
  /\ pc' = "sleep"
  /\ UNCHANGED << closed, gone, sink, handlers, checkList, iter, list, stepVars, intr, started,
                  spent >>

\* sleep of intervalSec, or InterruptedException.
Sleep ==
  /\ pc = "sleep"
  /\ pc' = IF intr THEN "dead" ELSE "loop"
  /\ UNCHANGED << closed, gone, sink, handlers, checkList, iter, list, stepVars, intr, started,
                  spent >>

EndFiles ==
  /\ pc = "files" /\ list = {}
  /\ pc' = "next"
  /\ UNCHANGED << closed, gone, sink, handlers, checkList, iter, list, stepVars, intr, started,
                  spent >>

-----------------------------------------------------------------------------
\* doFileCallback and SpringBatchMock.run: the directory's order is arbitrary.

OpenFile(f) ==
  /\ pc = "files" /\ f \in list
  /\ list' = list \ {f}
  /\ file' = f /\ pos' = 0 /\ status' = "UNKNOWN"
  /\ started' = Append(started, f)
  /\ pc' = "batch"
  /\ UNCHANGED << closed, gone, sink, handlers, checkList, iter, intr, spent >>

\* commitInterval rows are read and written.
WriteChunk ==
  /\ pc = "batch" /\ Len(Left) >= CommitInterval
  /\ sink' = sink \o SubSeq(Left, 1, CommitInterval)
  /\ pos' = pos + CommitInterval
  /\ UNCHANGED << closed, gone, handlers, checkList, roundVars, file, status, intr, started, spent >>

\* Variants: the rows of the last, smaller chunk are forgotten; the rows of the
\* chunks before it are still in the list.
ForgetRest ==
  /\ pc = "batch" /\ Len(Left) < CommitInterval
  /\ pos' = Len(Rows)
  /\ pc' = "written"
  /\ UNCHANGED << closed, gone, sink, handlers, checkList, iter, list, file, status, intr, started,
                  spent >>

WriteAgain ==
  /\ pc = "batch" /\ Len(Left) < CommitInterval
  /\ sink' = sink \o Rows
  /\ pos' = Len(Rows)
  /\ pc' = "written"
  /\ UNCHANGED << closed, gone, handlers, checkList, iter, list, file, status, intr, started, spent >>

\* The reader is at its end: the rest, also an empty one, is written.
WriteRest ==
  /\ pc = "batch" /\ Len(Left) < CommitInterval
  /\ sink' = sink \o Left
  /\ pos' = Len(Rows)
  /\ pc' = "written"
  /\ UNCHANGED << closed, gone, handlers, checkList, iter, list, file, status, intr, started, spent >>

\* Reader and writer are closed.
Complete ==
  /\ pc = "written"
  /\ status' = "COMPLETED"
  /\ pc' = "after"
  /\ UNCHANGED << closed, gone, sink, handlers, checkList, iter, list, file, pos, intr, started,
                  spent >>

\* Variant: the exit status does not tell of the failure.
FailCompleted ==
  /\ pc \in {"batch", "written"} /\ CanFail /\ Fault
  /\ status' = "COMPLETED"
  /\ pc' = "after"
  /\ UNCHANGED << closed, gone, sink, handlers, checkList, iter, list, file, pos, intr, started >>

\* An exception of open, read, write, update or close.
BatchFails ==
  /\ pc \in {"batch", "written"} /\ CanFail /\ Fault
  /\ status' = "FAILED"
  /\ pc' = "after"
  /\ UNCHANGED << closed, gone, sink, handlers, checkList, iter, list, file, pos, intr, started >>

\* Variant: the monitor does not catch.
ThrownOut == pc' = "dead"

\* What becomes of an exception that leaves doFileCallback.
Thrown == pc' = IF handlers.monitor THEN "files" ELSE "dead"

\* afterStep in the finally, after the callback's exceptionHandler, if any.
AfterStep ==
  /\ pc = "after"
  /\ gone' = IF status = "COMPLETED" THEN gone \union {file} ELSE gone
  /\ IF status = "COMPLETED" \/ handlers.callback THEN pc' = "files" ELSE Thrown
  /\ file' = << >> /\ pos' = 0
  /\ UNCHANGED << closed, sink, handlers, checkList, iter, list, status, intr, started, spent >>

\* An exception of afterStep is not the callback's to handle.
AfterStepFails ==
  /\ pc = "after" /\ CanFail /\ Fault
  /\ Thrown
  /\ file' = << >> /\ pos' = 0
  /\ UNCHANGED << closed, gone, sink, handlers, checkList, iter, list, status, intr, started >>

Monitor ==
  \/ BeginRound \/ BreakRound \/ ListFiles \/ EndRound \/ Sleep \/ EndFiles
  \/ \E f \in list : OpenFile(f)
  \/ WriteChunk \/ WriteRest \/ Complete \/ AfterStep
  \/ ListFails \/ BatchFails \/ AfterStepFails

MonitorNext ==
  \/ Monitor \/ Start \/ Interrupt \/ KillMonitor
  \/ \E n \in Names : AddMonitor(n)
=============================================================================
