------------------------------- MODULE CsvLog -------------------------------
(***************************************************************************)
(* The CSV logging service (package erwins.util.tools.csvLog).             *)
(*                                                                         *)
(* Application threads call CsvLogger.writeLog, which puts a log on the    *)
(* manager's bounded queue at once or, for a transactional logger, when    *)
(* the thread's transaction has committed.  One worker (CsvLogThread)      *)
(* takes logs from the queue and writes them to the rolling files of       *)
(* CsvLogInfo.  The application starts, stops and interrupts the worker    *)
(* through CsvLogMamager, and the process may be killed at any time, after *)
(* which a new one finds the files the old one left.                       *)
(***************************************************************************)
EXTENDS CsvLogInfo, FiniteSets, SequencesExt

CONSTANTS
  Producers,     \* application threads that log
  Names,         \* names of the logs (CsvLogInfo.name), one logger for each
  TxNames,       \* those whose logger was made withTransaction
  FlushMode,     \* CsvLogger.flush of each: null is "auto", true "always", false "never"
  Limit,         \* CsvLogger.limie: an auto logger flushes every Limit-th log
  Capacity,      \* CsvLogMamager.queueCapacity
  MaxRestarts,   \* bound: calls of startup() in a process that called it before
  MaxWrites,     \* bound: calls of writeLog()
  MaxTime,       \* bound: the clock
  MaxFaults,     \* bound: file operations that fail
  MaxKills,      \* bound: kills of the process
  MaxDups,       \* bound: add() calls for a name that is already there
  Spilling       \* bound: names whose encoder hands over rows before it must

ASSUME CsvLogAssumption ==
  /\ IsFiniteSet(Producers) /\ Producers # {}
  /\ TxNames \subseteq Names /\ Spilling \subseteq Names
  /\ FlushMode \in [Names -> {"auto", "always", "never"}]
  /\ Limit \in Nat \ {0}
  /\ Capacity \in Nat \ {0}
  /\ {MaxRestarts, MaxWrites, MaxTime, MaxFaults, MaxKills, MaxDups} \subseteq Nat

Workers == 1 .. MaxRestarts + 1

Budget == [ faults : 0 .. MaxFaults, kills : 0 .. MaxKills, dups : 0 .. MaxDups,
            restarts : 0 .. MaxRestarts, overlaps : 0 .. MaxRestarts, races : Nat ]

NothingSpent ==
  [faults |-> 0, kills |-> 0, dups |-> 0, restarts |-> 0, overlaps |-> 0, races |-> 0]

\* CsvLog: a roll event is a log whose data is null.  "by" is the thread that
\* logged and "via" the logger whose queue takes the log: its own, or the one
\* that first logged in the same transaction.
Log == [id : Nat, by : Producers, name : Names, via : Names, roll : BOOLEAN, flush : BOOLEAN]

VARIABLES
  clock,      \* System.currentTimeMillis, in units of dateTimeFieldType
  infos,      \* csvLogInfoMap and the files on disk
  queue,      \* CsvLogMamager.queue
  counter,    \* CsvLogger.counter of each name, modulo Limit
  nextId,     \* identity of the next log
  inTx,       \* the producer's thread has a Spring transaction
  list,       \* logs CsvLogWriterAfterCompletionAble collected for it
  out,        \* logs the producer is handing to the queue (offerLog)
  mgr,        \* who holds the manager's monitor: nobody ("free"), stopAndjoin
              \* ("joining"), or add ("adding")
  addFrom,    \* from, in the reloadWriter() that add calls
  thread,     \* the worker the manager last started, 0 when none
  pc,         \* where each worker is
  hand,       \* the log it took from the queue, none or one
  stamp,      \* the time it read for that log
  stop,       \* CsvLogThread.stop
  intr,       \* the worker's interrupt flag
  todo,       \* logs it still has to close at its end
  cause,      \* why it left its loop (history)
  accepted,   \* every log the queue accepted, in order (history)
  missed,     \* flushing logs of each name the queue refused (history)
  late,       \* something was accepted or added after stopAndjoin began (history)
  early,      \* a log was accepted for a name whose add had not returned (history)
  spent       \* faults, kills, duplicate adds and restarts so far (bounds), restarts
              \* while another worker ran, and steps of add that met the writer or
              \* the nextInterval of a worker (history)

prodVars == << counter, nextId, inTx, list, out >>
workVars == << pc, hand, stamp, stop, intr, todo, cause >>
histVars == << accepted, missed, late, early >>
mgrVars == << mgr, addFrom, thread >>
vars == << clock, infos, queue, prodVars, mgrVars, workVars, histVars, spent >>

Init ==
  /\ clock = 0
  /\ infos = [n \in Names |-> NewLogInfo]
  /\ queue = << >>
  /\ counter = [n \in Names |-> 0]
  /\ nextId = 1
  /\ inTx = [p \in Producers |-> FALSE]
  /\ list = [p \in Producers |-> << >>]
  /\ out = [p \in Producers |-> << >>]
  /\ mgr = "free"
  /\ addFrom = 0
  /\ thread = 0
  /\ pc = [w \in Workers |-> "none"]
  /\ hand = [w \in Workers |-> << >>]
  /\ stamp = [w \in Workers |-> 0]
  /\ stop = [w \in Workers |-> FALSE]
  /\ intr = [w \in Workers |-> FALSE]
  /\ todo = [w \in Workers |-> {}]
  /\ cause = [w \in Workers |-> "none"]
  /\ accepted = << >>
  /\ missed = [n \in Names |-> 0]
  /\ late = FALSE
  /\ early = FALSE
  /\ spent = NothingSpent

Registered == { n \in Names : infos[n].state # "absent" }

CanFail == spent.faults < MaxFaults

Tick ==
  /\ clock < MaxTime
  /\ clock' = clock + 1
  /\ UNCHANGED << infos, queue, prodVars, mgrVars, workVars, histVars, spent >>

-----------------------------------------------------------------------------
\* CsvLogger: what an application thread does.

Running(w) == pc[w] \notin {"none", "dead"}

\* TransactionSynchronizationManager opens a transaction for the thread.  It
\* matters to transactional loggers only.
Begin(p) ==
  /\ TxNames # {} /\ out[p] = << >> /\ ~inTx[p]
  /\ inTx' = [inTx EXCEPT ![p] = TRUE]
  /\ UNCHANGED << clock, infos, queue, counter, nextId, list, out, mgrVars,
                  workVars, histVars, spent >>

\* writeLog(item): count, build the log, then collect it or offer it.  Without a
\* transaction TransactionSynchCommit.getResource throws, after the count.
WriteLog(p, n, roll) ==
  LET count == (counter[n] + 1) % Limit
      log   == [ id |-> nextId, by |-> p, name |-> n, roll |-> roll,
                 via |-> IF n \in TxNames /\ list[p] # << >> THEN list[p][1].via ELSE n,
                 flush |-> \/ FlushMode[n] = "auto" /\ count = 0
                           \/ FlushMode[n] = "always" ]
  IN  /\ out[p] = << >> /\ nextId <= MaxWrites
      /\ nextId' = nextId + 1
      /\ counter' = [counter EXCEPT ![n] = IF FlushMode[n] = "auto" THEN count ELSE @]
      /\ IF n \in TxNames
           THEN /\ list' = IF inTx[p] THEN [list EXCEPT ![p] = Append(@, log)] ELSE list
                /\ out' = out
           ELSE /\ out' = [out EXCEPT ![p] = << log >>]
                /\ list' = list
      /\ UNCHANGED << clock, infos, queue, inTx, mgrVars, workVars, histVars, spent >>

\* Variant: hand over the last log first.
CommitBackwards(p) ==
  /\ out[p] = << >> /\ inTx[p]
  /\ inTx' = [inTx EXCEPT ![p] = FALSE]
  /\ out' = [out EXCEPT ![p] = Reverse(list[p])]
  /\ list' = [list EXCEPT ![p] = << >>]
  /\ UNCHANGED << clock, infos, queue, counter, nextId, mgrVars, workVars, histVars, spent >>

\* afterCompletionCommit starts handing over what the transaction collected.
Commit(p) ==
  /\ out[p] = << >> /\ inTx[p]
  /\ inTx' = [inTx EXCEPT ![p] = FALSE]
  /\ out' = [out EXCEPT ![p] = list[p]]
  /\ list' = [list EXCEPT ![p] = << >>]
  /\ UNCHANGED << clock, infos, queue, counter, nextId, mgrVars, workVars, histVars, spent >>

\* The transaction rolls back: afterCompletionRollback, and the resource is unbound.
Rollback(p) ==
  /\ out[p] = << >> /\ inTx[p]
  /\ inTx' = [inTx EXCEPT ![p] = FALSE]
  /\ list' = [list EXCEPT ![p] = << >>]
  /\ UNCHANGED << clock, infos, queue, counter, nextId, out, mgrVars,
                  workVars, histVars, spent >>

Stopping == \E w \in Workers : stop[w]

Linked(n) == infos[n].state # "absent"

Added(a) == a.state \in {"ready", "raw"}

\* Variant: a queue without a bound.
OfferUnbounded(p) ==
  /\ out[p] # << >> /\ Linked(Head(out[p]).via)
  /\ queue' = Append(queue, Head(out[p]))
  /\ out' = [out EXCEPT ![p] = Tail(@)]
  /\ accepted' = Append(accepted, Head(out[p]))
  /\ UNCHANGED << clock, infos, counter, nextId, inTx, list, mgrVars, workVars, missed,
                  late, early, spent >>

\* offerLog: the queue takes the log ...
Offer(p) ==
  /\ out[p] # << >> /\ Linked(Head(out[p]).via) /\ Len(queue) < Capacity
  /\ queue' = Append(queue, Head(out[p]))
  /\ out' = [out EXCEPT ![p] = Tail(@)]
  /\ accepted' = Append(accepted, Head(out[p]))
  /\ late' = (late \/ Stopping)
  /\ early' = (early \/ ~Added(infos[Head(out[p]).name]))
  /\ UNCHANGED << clock, infos, counter, nextId, inTx, list, mgrVars, workVars, missed, spent >>

\* ... or stays full for timeoutSec, or was never linked by add, or the thread is
\* interrupted: the exception also drops the rest of what the transaction collected.
OfferFails(p) ==
  /\ out[p] # << >>
  /\ out' = [out EXCEPT ![p] = << >>]
  /\ missed' = [n \in Names |-> missed[n] +
                  Cardinality({ i \in 1 .. Len(out[p]) : out[p][i].name = n /\ out[p][i].flush })]
  /\ UNCHANGED << clock, infos, queue, counter, nextId, inTx, list, mgrVars,
                  workVars, accepted, late, early, spent >>

-----------------------------------------------------------------------------
\* CsvLogMamager: every method but size() is synchronized.

\* add(info) is one call, but neither the worker nor the application threads wait
\* for the manager's monitor: they can come between any two of its steps.  First,
\* the map and the queue.
Add(n) ==
  /\ mgr = "free" /\ infos[n].state = "absent"
  /\ infos' = [infos EXCEPT ![n].state = "linked"]
  /\ mgr' = "adding"
  /\ late' = (late \/ Stopping)
  /\ UNCHANGED << clock, queue, prodVars, addFrom, thread, workVars, accepted, missed, early,
                  spent >>

AddReturns == mgr' = "free" /\ addFrom' = 0

\* init() throws if a worker with an early log has already opened the file.
AddCheck(n) ==
  /\ infos[n].state = "linked"
  /\ IF infos[n].writer = "null"
       THEN infos' = [infos EXCEPT ![n].state = "checked"] /\ UNCHANGED << mgr, addFrom >>
       ELSE infos' = [infos EXCEPT ![n].state = "raw"] /\ AddReturns
  /\ UNCHANGED << clock, queue, prodVars, thread, workVars, histVars, spent >>

Raced(met) == [spent EXCEPT !.races = IF met THEN @ + 1 ELSE @]

\* reloadWriter() reads the clock, and closes what such a worker opened since.
AddTest(n) ==
  LET a == infos[n]
  IN  /\ a.state = "checked"
      /\ \/ /\ a.writer = "null" \/ Closeable(a)
            /\ infos' = [infos EXCEPT ![n] =
                 [IF a.writer = "null" THEN a ELSE Closed(a, clock) EXCEPT !.state = "tested"]]
            /\ addFrom' = clock
            /\ spent' = Raced(a.writer # "null")
            /\ UNCHANGED mgr
         \/ /\ a.writer # "null" /\ ~Closeable(a)
            /\ infos' = [infos EXCEPT ![n] = [NotRenamed(a) EXCEPT !.state = "ready"]]
            /\ spent' = Raced(TRUE)
            /\ AddReturns
         \/ /\ CanFail /\ a.writer # "null" /\ Closeable(a)
            /\ \E b \in {NotRenamed(a), Broken(a)} :
                 infos' = [infos EXCEPT ![n] = [b EXCEPT !.state = "ready"]]
            /\ spent' = [spent EXCEPT !.faults = @ + 1]
            /\ AddReturns
      /\ UNCHANGED << clock, queue, prodVars, thread, workVars, histVars >>

AddNext(n) ==
  /\ infos[n].state = "tested"
  /\ infos' = [infos EXCEPT ![n].state = "timed", ![n].next = addFrom + Interval]
  /\ spent' = Raced(infos[n].writer # "null")
  /\ UNCHANGED << clock, queue, prodVars, mgrVars, workVars, histVars >>

\* Variant: init() does not set the default converter.
AddOpenRaw(n) ==
  /\ infos[n].state = "timed"
  /\ infos' = [infos EXCEPT ![n] = [Opened(@, addFrom) EXCEPT !.state = "raw"]]
  /\ AddReturns
  /\ UNCHANGED << clock, queue, prodVars, thread, workVars, histVars, spent >>

\* The file is opened, or cannot be.  A writer a worker set meanwhile is replaced,
\* a nextInterval it set is not.
AddOpen(n) ==
  LET a == infos[n]
      met == a.writer # "null" \/ a.next # addFrom + Interval
  IN  /\ a.state = "timed"
      /\ \/ /\ infos' = [infos EXCEPT ![n] =
                 [Opened(a, addFrom) EXCEPT !.state = "ready", !.next = a.next]]
            /\ spent' = Raced(met)
         \/ /\ CanFail
            /\ infos' = [infos EXCEPT ![n].state = "ready"]
            /\ spent' = [spent EXCEPT !.faults = @ + 1]
      /\ AddReturns
      /\ UNCHANGED << clock, queue, prodVars, thread, workVars, histVars >>

\* add(info) for a name that is there: the map already holds the new, raw info
\* when the check throws, and what the old writer buffers is out of reach.
AddDuplicate(n) ==
  /\ mgr = "free" /\ infos[n].state # "absent" /\ spent.dups < MaxDups
  /\ infos' = [infos EXCEPT ![n] = [Forgotten(@) EXCEPT !.state = "raw"]]
  /\ spent' = [spent EXCEPT !.dups = @ + 1]
  /\ UNCHANGED << clock, queue, prodVars, mgrVars, workVars, histVars >>

\* startup(): a new worker thread, whatever became of the previous one.
Startup ==
  /\ mgr = "free" /\ Registered # {}
  /\ thread = 0 \/ spent.restarts < MaxRestarts
  /\ spent' = IF thread = 0 THEN spent ELSE
                [spent EXCEPT !.restarts = @ + 1,
                              !.overlaps = IF \E w \in Workers : Running(w) THEN @ + 1 ELSE @]
  /\ thread' = thread + 1
  /\ pc' = [pc EXCEPT ![thread + 1] = "check"]
  /\ UNCHANGED << clock, infos, queue, prodVars, mgr, addFrom, hand, stamp, stop, intr, todo,
                  cause, histVars >>

\* interrupt(): without effect on a thread that has ended.
Interrupt ==
  /\ mgr = "free" /\ thread # 0 /\ Running(thread)
  /\ intr' = [intr EXCEPT ![thread] = TRUE]
  /\ UNCHANGED << clock, infos, queue, prodVars, mgrVars, pc, hand, stamp, stop, todo, cause,
                  histVars, spent >>

\* stopAndjoin(): ask the worker to stop, then wait for it at most ten seconds
\* without giving up the monitor.
Stop ==
  /\ mgr = "free" /\ thread # 0
  /\ stop' = [stop EXCEPT ![thread] = TRUE]
  /\ mgr' = "joining"
  /\ UNCHANGED << clock, infos, queue, prodVars, addFrom, thread, pc, hand, stamp, intr, todo,
                  cause, histVars, spent >>

JoinReturns ==
  /\ mgr = "joining"
  /\ mgr' = "free"
  /\ UNCHANGED << clock, infos, queue, prodVars, addFrom, thread, workVars, histVars, spent >>

-----------------------------------------------------------------------------
\* CsvLogThread.run.

Leave(w, why) ==
  /\ pc' = [pc EXCEPT ![w] = "closing"]
  /\ cause' = [cause EXCEPT ![w] = why]
  /\ todo' = [todo EXCEPT ![w] = Registered]

\* Variants: break without looking at the queue; wait for somebody to empty it.
CheckStopOnly(w) ==
  /\ pc[w] = "check"
  /\ IF stop[w]
       THEN Leave(w, "stopped")
       ELSE pc' = [pc EXCEPT ![w] = "take"] /\ UNCHANGED << todo, cause >>
  /\ UNCHANGED << clock, infos, queue, prodVars, mgrVars, hand, stamp, stop, intr,
                  histVars, spent >>

CheckStopWaiting(w) ==
  /\ pc[w] = "check"
  /\ IF stop[w]
       THEN queue = << >> /\ Leave(w, "stopped")
       ELSE pc' = [pc EXCEPT ![w] = "take"] /\ UNCHANGED << todo, cause >>
  /\ UNCHANGED << clock, infos, queue, prodVars, mgrVars, hand, stamp, stop, intr,
                  histVars, spent >>

\* if(stop && queue.size()==0) break
CheckStop(w) ==
  /\ pc[w] = "check"
  /\ IF stop[w] /\ queue = << >>
       THEN Leave(w, "stopped")
       ELSE pc' = [pc EXCEPT ![w] = "take"] /\ UNCHANGED << todo, cause >>
  /\ UNCHANGED << clock, infos, queue, prodVars, mgrVars, hand, stamp, stop, intr,
                  histVars, spent >>

\* queue.take(), and the time of this log.
Take(w) ==
  /\ pc[w] = "take" /\ ~intr[w] /\ queue # << >>
  /\ hand' = [hand EXCEPT ![w] = << Head(queue) >>]
  /\ queue' = Tail(queue)
  /\ pc' = [pc EXCEPT ![w] = "taken"]
  /\ UNCHANGED << clock, infos, prodVars, mgrVars, stamp, stop, intr, todo, cause,
                  histVars, spent >>

\* Variant: the exception is caught inside the loop.
TakeGoesOn(w) ==
  /\ pc[w] = "take" /\ intr[w]
  /\ intr' = [intr EXCEPT ![w] = FALSE]
  /\ pc' = [pc EXCEPT ![w] = "check"]
  /\ UNCHANGED << clock, infos, queue, prodVars, mgrVars, hand, stamp, stop, todo, cause,
                  histVars, spent >>

TakeInterrupted(w) ==
  /\ pc[w] = "take" /\ intr[w]
  /\ intr' = [intr EXCEPT ![w] = FALSE]
  /\ Leave(w, "interrupted")
  /\ UNCHANGED << clock, infos, queue, prodVars, mgrVars, hand, stamp, stop, histVars, spent >>

\* long current = System.currentTimeMillis()
ReadClock(w) ==
  /\ pc[w] = "taken"
  /\ stamp' = [stamp EXCEPT ![w] = clock]
  /\ pc' = [pc EXCEPT ![w] = "write"]
  /\ UNCHANGED << clock, infos, queue, prodVars, mgrVars, hand, stop, intr, todo, cause,
                  histVars, spent >>

\* Variant: off by one at the end of the interval.
NeedsReloadLate(w, a) == a.next < stamp[w]

NeedsReload(w, a) == a.next <= stamp[w]

\* The writer the log goes to, once reloadWriter() has been called if it must be.
Current(w, a) == IF NeedsReload(w, a) THEN Reloaded(a, clock) ELSE a

\* writer.writeNext(data) unless it is a roll event; writer.flush() if asked.
Logged(w, a) ==
  LET log == hand[w][1]
      b   == IF log.roll THEN a ELSE Written(a, [id |-> log.id, at |-> stamp[w]])
  IN  IF log.flush THEN Flushed(b) ELSE b

Writable(w, a) ==
  /\ a.state # "absent"
  /\ IF NeedsReload(w, a) THEN Reloadable(a)
     ELSE a.writer # "null" \/ (hand[w][1].roll /\ ~hand[w][1].flush)

Write(w) ==
  /\ pc[w] = "write"
  /\ LET n == hand[w][1].name
     IN  /\ Writable(w, infos[n])
         /\ infos' = [infos EXCEPT ![n] = Logged(w, Current(w, @))]
  /\ hand' = [hand EXCEPT ![w] = << >>]
  /\ pc' = [pc EXCEPT ![w] = "check"]
  /\ UNCHANGED << clock, queue, prodVars, mgrVars, stamp, stop, intr, todo, cause,
                  histVars, spent >>

\* An exception ends the loop; the log in hand is not written.
WriteFails(w) ==
  /\ pc[w] = "write"
  /\ LET n == hand[w][1].name
         a == infos[n]
     IN  \/ /\ ~Writable(w, a)
            /\ infos' = [infos EXCEPT ![n] = IF a.state = "absent" THEN @ ELSE
                                             IF NeedsReload(w, a) THEN NotRenamed(@) ELSE @]
            /\ UNCHANGED spent
         \/ /\ CanFail /\ Writable(w, a) /\ NeedsReload(w, a)
            /\ \E b \in FailedReloads(a, clock) : infos' = [infos EXCEPT ![n] = b]
            /\ spent' = [spent EXCEPT !.faults = @ + 1]
  /\ hand' = [hand EXCEPT ![w] = << >>]
  /\ Leave(w, "failed")
  /\ UNCHANGED << clock, queue, prodVars, mgrVars, stamp, stop, intr, histVars >>

\* finally: close every log for the interval of now.  An IOException of one is
\* logged and the next is closed; any other exception ends the thread at once.
CloseOne(w, n) ==
  /\ pc[w] = "closing" /\ n \in todo[w]
  /\ \/ /\ Closeable(infos[n])
        /\ infos' = [infos EXCEPT ![n] = Closed(@, clock)]
        /\ todo' = [todo EXCEPT ![w] = @ \ {n}]
        /\ UNCHANGED spent
     \/ /\ CanFail /\ Closeable(infos[n]) /\ infos[n].writer = "open"
        /\ infos' = [infos EXCEPT ![n] = Broken(@)]
        /\ todo' = [todo EXCEPT ![w] = @ \ {n}]
        /\ spent' = [spent EXCEPT !.faults = @ + 1]
     \/ /\ ~Closeable(infos[n])
        /\ infos' = [infos EXCEPT ![n] = NotRenamed(@)]
        /\ todo' = [todo EXCEPT ![w] = {}]
        /\ UNCHANGED spent
     \/ /\ CanFail /\ Closeable(infos[n])
        /\ infos' = [infos EXCEPT ![n] = NotRenamed(@)]
        /\ todo' = [todo EXCEPT ![w] = {}]
        /\ spent' = [spent EXCEPT !.faults = @ + 1]
  /\ pc' = [pc EXCEPT ![w] = IF todo'[w] = {} THEN "dead" ELSE @]
  /\ UNCHANGED << clock, queue, prodVars, mgrVars, hand, stamp, stop, intr, cause, histVars >>

-----------------------------------------------------------------------------
\* The writer's own buffering, and the death of the process.

\* Only what loses the writer or its buffer can tell a buffered line from one the
\* file has.
Losable(n) ==
  spent.kills < MaxKills \/ CanFail \/ spent.dups < MaxDups \/ Underway(infos[n])

Spill(n) ==
  /\ n \in Spilling /\ Losable(n)
  /\ infos[n].buf # << >> \/ infos[n].end = "glued"
  /\ \/ infos' = [infos EXCEPT ![n] = Spilled(@)]
     \/ /\ infos[n].end = "whole"
        /\ infos' = [infos EXCEPT ![n] = SpilledHalf(@)]
  /\ UNCHANGED << clock, queue, prodVars, mgrVars, workVars, histVars, spent >>

\* kill -9: only the files remain; the same program starts again.
Kill ==
  /\ spent.kills < MaxKills
  /\ spent' = [spent EXCEPT !.kills = @ + 1]
  /\ infos' = [n \in Names |-> Forgotten(infos[n])]
  /\ queue' = << >>
  /\ counter' = [n \in Names |-> 0]
  /\ inTx' = [p \in Producers |-> FALSE]
  /\ list' = [p \in Producers |-> << >>]
  /\ out' = [p \in Producers |-> << >>]
  /\ mgr' = "free"
  /\ addFrom' = 0
  /\ thread' = 0
  /\ pc' = [w \in Workers |-> "none"]
  /\ hand' = [w \in Workers |-> << >>]
  /\ stamp' = [w \in Workers |-> 0]
  /\ stop' = [w \in Workers |-> FALSE]
  /\ intr' = [w \in Workers |-> FALSE]
  /\ todo' = [w \in Workers |-> {}]
  /\ cause' = [w \in Workers |-> "none"]
  /\ missed' = [n \in Names |-> 0]
  /\ late' = FALSE
  /\ early' = FALSE
  /\ UNCHANGED << clock, nextId, accepted >>

Producer(p) ==
  \/ Begin(p) \/ Commit(p) \/ Rollback(p) \/ Offer(p) \/ OfferFails(p)
  \/ \E n \in Names, roll \in BOOLEAN : WriteLog(p, n, roll)

Manager ==
  \/ Startup \/ Interrupt \/ Stop \/ JoinReturns
  \/ \E n \in Names :
       \/ Add(n) \/ AddCheck(n) \/ AddTest(n) \/ AddNext(n) \/ AddOpen(n)
       \/ AddDuplicate(n)

Worker(w) ==
  \/ CheckStop(w) \/ Take(w) \/ TakeInterrupted(w) \/ ReadClock(w) \/ Write(w) \/ WriteFails(w)
  \/ \E n \in Names : CloseOne(w, n)

Next ==
  \/ Tick \/ Manager \/ Kill
  \/ \E p \in Producers : Producer(p)
  \/ \E w \in Workers : Worker(w)
  \/ \E n \in Names : Spill(n)

Spec == Init /\ [][Next]_vars

(***************************************************************************)
(* A running thread takes its next step, a timed offer returns and so does *)
(* a timed join.  What the application calls, and when, is left open.      *)
(***************************************************************************)
Fairness ==
  /\ \A w \in Workers : WF_vars(Worker(w))
  /\ \A p \in Producers : WF_vars(Offer(p) \/ OfferFails(p))
  /\ WF_vars(JoinReturns)

FairSpec == Spec /\ Fairness

-----------------------------------------------------------------------------
TypeOK ==
  /\ clock \in 0 .. MaxTime
  /\ infos \in [Names -> LogInfo]
  /\ queue \in Seq(Log) /\ Len(queue) <= Capacity
  /\ counter \in [Names -> 0 .. Limit - 1]
  /\ nextId \in 1 .. MaxWrites + 1
  /\ inTx \in [Producers -> BOOLEAN]
  /\ list \in [Producers -> Seq(Log)]
  /\ out \in [Producers -> Seq(Log)]
  /\ mgr \in {"free", "joining", "adding"}
  /\ addFrom \in 0 .. MaxTime
  /\ thread \in {0} \union Workers
  /\ pc \in [Workers -> {"none", "check", "take", "taken", "write", "closing", "dead"}]
  /\ hand \in [Workers -> Seq(Log)]
  /\ stamp \in [Workers -> 0 .. MaxTime]
  /\ stop \in [Workers -> BOOLEAN]
  /\ intr \in [Workers -> BOOLEAN]
  /\ todo \in [Workers -> SUBSET Names]
  /\ cause \in [Workers -> {"none", "stopped", "interrupted", "failed"}]
  /\ accepted \in Seq(Log)
  /\ missed \in [Names -> Nat]
  /\ late \in BOOLEAN
  /\ early \in BOOLEAN
  /\ spent \in Budget

\* Identities of the elements of s at the places D, in order.
Picked(s, D) ==
  LET f[i \in 0 .. Len(s)] ==
        IF i = 0 THEN << >> ELSE IF i \in D THEN Append(f[i - 1], s[i].id) ELSE f[i - 1]
  IN  f[Len(s)]

\* Identities of the logs of n that carry data, and of the data lines of a file.
Ids(logs, n) == Picked(logs, { i \in DOMAIN logs : logs[i].name = n /\ ~logs[i].roll })

LineIds(lines) == Picked(lines, { i \in DOMAIN lines : lines[i].id # HeaderId })

Lines(a) == FlattenSeq([k \in DOMAIN a.csv |-> a.csv[k].lines]) \o a.log \o a.buf

InHand == FlattenSeq(hand)

Undisturbed == spent = NothingSpent

(***************************************************************************)
(* Every log the queue accepted is, exactly once and in the order of       *)
(* acceptance, in the files and the writer of its name, or in the worker's *)
(* hand, or in the queue: as long as no file operation failed, the process *)
(* was not killed, the worker was started once and died of no exception,   *)
(* no name was added twice, and add() met no writer a worker had opened    *)
(* for an early log.  (CsvLogger.offerLog, CsvLogThread.run,               *)
(* CsvLogMamager.add beside a running worker)                              *)
(***************************************************************************)
Lossless ==
  Undisturbed /\ (\A w \in Workers : cause[w] # "failed") =>
    \A n \in Names :
      Ids(accepted, n) = LineIds(Lines(infos[n])) \o Ids(InHand, n) \o Ids(queue, n)

(***************************************************************************)
(* Kills, failing files, duplicate adds and interrupts lose logs but never *)
(* write one twice, nor two of a name in another order than the queue took *)
(* them, over all the files of all the processes.  Only two workers at     *)
(* once could.  (CsvLogThread.run, CsvLogInfo.reloadWriter appending to    *)
(* the file a killed process left)                                         *)
(***************************************************************************)
StoredInOrder ==
  spent.overlaps = 0 =>
    \A n \in Names :
      LET stored == LineIds(Lines(infos[n]))
          order  == Ids(accepted, n)
      IN  \A i, j \in DOMAIN stored : i < j =>
            \E k, l \in DOMAIN order : k < l /\ order[k] = stored[i] /\ order[l] = stored[j]

(***************************************************************************)
(* What one thread logs to one logger is accepted in the order it logged   *)
(* it, whether offered at once or collected until the commit.              *)
(* (CsvLogger.writeLog, afterCompletionCommit)                             *)
(***************************************************************************)
ProducerOrder ==
  \A i, j \in DOMAIN accepted :
    /\ i < j /\ accepted[i].by = accepted[j].by /\ accepted[i].name = accepted[j].name
    => accepted[i].id < accepted[j].id

(***************************************************************************)
(* What a kill can take from a logger that flushes every Limit-th log: one *)
(* window of Limit - 1 lines for each thread that logs (a thread holds the *)
(* flushing log back while the others fill the next window), one more for  *)
(* each flushing log the queue refused, and one line for each other thread *)
(* that comes only now with a log it counted in an earlier window.         *)
(* (CsvLogger.writeLog)                                                    *)
(***************************************************************************)
WindowBound(n) ==
  (Cardinality(Producers) + missed[n]) * (Limit - 1) + (Cardinality(Producers) - 1)

AutoFlushWindow ==
  \A n \in Names \ TxNames :
    FlushMode[n] = "auto" /\ spent.restarts = 0 =>
      Len(LineIds(infos[n].buf)) <= WindowBound(n)

Segmented(lines) ==
  \A j \in DOMAIN lines : lines[j].id # HeaderId =>
    \E h \in 1 .. j - 1 :
      /\ lines[h].id = HeaderId
      /\ \A k \in h + 1 .. j : lines[k].id # HeaderId
      /\ lines[j].at < lines[h].at + Interval

(***************************************************************************)
(* No line is written by a writer whose interval was over when the worker  *)
(* took the time: the time of every data line is within one interval of    *)
(* the start of the writer that wrote it, also where a restarted process   *)
(* continued a file or a stump; unless add() replaced a writer or met a    *)
(* nextInterval that a worker had set.  (CsvLogThread.run,                 *)
(* CsvLogInfo.reloadWriter)                                                *)
(***************************************************************************)
NoOverdueLine ==
  spent.races = 0 => \A n \in Names :
    /\ Segmented(infos[n].log \o infos[n].buf)
    /\ \A k \in DOMAIN infos[n].csv : Segmented(infos[n].csv[k].lines)

(***************************************************************************)
(* Two closed files of a log never have the same name, and the indexes of  *)
(* one interval have no gap, whatever rolls, stops and restarts happened   *)
(* in the interval.  (CsvLogInfo.close)                                    *)
(***************************************************************************)
NamesDistinct ==
  \A n \in Names : LET csv == infos[n].csv IN
    /\ \A i, j \in DOMAIN csv :
         csv[i].from = csv[j].from /\ csv[i].index = csv[j].index => i = j
    /\ \A i \in DOMAIN csv : csv[i].index > 0 =>
         \E j \in DOMAIN csv : csv[j].from = csv[i].from /\ csv[j].index = csv[i].index - 1

(***************************************************************************)
(* A worker that ended because it was asked to, with the application       *)
(* having stopped logging first as stopAndjoin demands and no log offered  *)
(* before its name's add() had returned, leaves nothing in the queue and   *)
(* nothing outside the closed files.                                       *)
(***************************************************************************)
CleanStop ==
  \A w \in Workers :
    /\ pc[w] = "dead" /\ cause[w] = "stopped" /\ ~late /\ ~early
    /\ spent.faults = 0 /\ spent.dups = 0 /\ spent.restarts = 0
    => /\ queue = << >>
       /\ \A n \in Registered : infos[n].buf = << >> /\ ~infos[n].exists

(***************************************************************************)
(* Only a failing file, a duplicate add, a second startup or a log offered *)
(* before its name's add() had returned makes the worker die of an         *)
(* exception.  (CsvLogThread.run, CsvLogMamager.add linking the queue      *)
(* before init() sets the writer)                                          *)
(***************************************************************************)
WorkerSurvives ==
  (\E w \in Workers : cause[w] = "failed") =>
    spent.faults + spent.dups + spent.restarts > 0 \/ early

(***************************************************************************)
(* After a worker has ended, startup() runs another but the log stays      *)
(* finished: its writer is closed for good, so whatever is taken from the  *)
(* queue from then on reaches no file.  Only a new process opens the log   *)
(* again.  (CsvLogMamager.startup, CsvLogInfo.close not resetting writer)  *)
(***************************************************************************)
FinishedForGood ==
  [][\A n \in Names :
       /\ infos[n].state = "ready" /\ infos'[n].state = "ready"
       /\ infos[n].writer = "closed" /\ ~infos[n].exists
       => infos'[n].csv = infos[n].csv /\ ~infos'[n].exists]_vars

-----------------------------------------------------------------------------
\* CsvLogInfo.close, line 121: a file is named for when its writing began; here
\* while no worker has come to its end, so that the files are those of the rolls.
NamedForStart ==
  (\A w \in Workers : cause[w] = "none") =>
    \A n \in Names : \A k \in DOMAIN infos[n].csv : \A j \in DOMAIN infos[n].csv[k].lines :
      infos[n].csv[k].lines[j].id # HeaderId =>
        infos[n].csv[k].from <= infos[n].csv[k].lines[j].at

\* CsvLogMamager.stopAndjoin, lines 55 to 58: the queue is drained, then the
\* thread ends.
StopEnds == \A w \in Workers : (stop[w] /\ Running(w)) ~> ~Running(w)

(***************************************************************************)
(* No log stays in the queue of a running worker: while a worker runs, the *)
(* queue is empty again and again, or logs are taken from its head again   *)
(* and again.  (CsvLogThread.run)                                          *)
(***************************************************************************)
QueueDrains ==
  \/ []<>(queue = << >> \/ \A w \in Workers : ~Running(w))
  \/ []<><<\E w \in Workers : Take(w)>>_vars

(***************************************************************************)
(* An interrupted worker ends, and closes what it can, also when it was    *)
(* asked to stop before and waits on the empty queue.                      *)
(***************************************************************************)
InterruptEnds == \A w \in Workers : (intr[w] /\ Running(w)) ~> ~Running(w)
=============================================================================
