----------------------------- MODULE LogPipeline -----------------------------
(***************************************************************************)
(* The use the comment on FileMonitor gives for it: what applications log  *)
(* to CSV files is read from the closed files and written to a database.   *)
(* The logging side is LogStore, which CsvLog implements (CsvLogStore);    *)
(* the reading side is FileMonitor on the directory of the log.  They      *)
(* share nothing but the closed files and may run in processes of their    *)
(* own, each of which can be killed.                                       *)
(***************************************************************************)
EXTENDS FileMonitor

CONSTANTS
  LogIds,         \* identities of what is logged
  MaxFiles,       \* bound: closed files of a name
  MaxFailures     \* bound: failures and crashes of the logging side

ASSUME LogPipelineAssumption == {MaxFiles, MaxFailures} \subseteq Nat

VARIABLES accepted, waiting, taken, open, failures, ok

Store == INSTANCE LogStore

storeOwn == << accepted, waiting, taken, open, failures, ok >>
vars == << storeOwn, monitorVars >>

Init == Store!StoreInit /\ MonitorInit

\* Which identities are used does not matter: they are used in order.
StoreBound ==
  /\ \E k \in 0 .. Cardinality(LogIds) : UNION { ToSet(accepted'[n]) : n \in Names } = 1 .. k
  /\ \A n \in Names : Len(closed'[n]) <= MaxFiles
  /\ failures' <= MaxFailures

Log ==
  /\ Store!StoreNext /\ StoreBound
  /\ UNCHANGED << gone, sink, handlers, checkList, roundVars, stepVars, intr, started, spent >>

Next == Log \/ (MonitorNext /\ UNCHANGED storeOwn)

(***************************************************************************)
(* The monitor's thread takes its next step.  Nothing is asked of the      *)
(* logging side nor of what the application calls.                         *)
(***************************************************************************)
FairSpec == Init /\ [][Next]_vars /\ WF_vars(Monitor /\ UNCHANGED storeOwn)

-----------------------------------------------------------------------------
FilesOf(n) == { << n, k >> : k \in DOMAIN closed[n] }

AllFiles == UNION { FilesOf(n) : n \in Names }

TypeOK ==
  /\ closed \in [Names -> Seq(Seq(LogIds))]
  /\ gone \subseteq AllFiles
  /\ sink \in Seq(LogIds)
  /\ handlers \in [callback : BOOLEAN, monitor : BOOLEAN]
  /\ checkList \in Seq(Names)
  /\ pc \in {"none", "loop", "next", "files", "batch", "written", "after", "sleep", "dead"}
  /\ iter \in [size : Nat, done : Nat] /\ iter.done <= iter.size
  /\ list \subseteq AllFiles \ gone
  /\ file # << >> => file \in AllFiles \ (gone \union list) /\ pos <= Len(Rows)
  /\ pc \in {"batch", "written", "after"} <=> file # << >>
  /\ status \in {"UNKNOWN", "COMPLETED", "FAILED"}
  /\ intr \in BOOLEAN
  /\ started \in Seq(AllFiles)
  /\ spent \in [faults : 0 .. MaxFaults, deaths : 0 .. MaxDeaths, unlisted : BOOLEAN]

(***************************************************************************)
(* Nothing that reached a closed file is lost on the reading side: a file  *)
(* is moved away only after each of its rows was written, whatever failed  *)
(* or was killed.  With a logging side on which nothing failed this holds  *)
(* of everything it accepted: it is with the service, in the open file, in *)
(* a file still to be read, or written.                                    *)
(* (CsvLogThread.run, SpringBatchMock.run, FileMonitorBatchCallback)       *)
(***************************************************************************)
NothingLost ==
  \A n \in Names :
    LET unread == UNION { ToSet(closed[n][f[2]]) : f \in Listed(n) }
        moved  == UNION { ToSet(closed[n][f[2]]) : f \in FilesOf(n) \intersect gone }
    IN  /\ moved \subseteq ToSet(sink)
        /\ ok => ToSet(accepted[n]) \subseteq
                   ToSet(waiting[n]) \union taken[n] \union ToSet(open[n]) \union unread
                     \union ToSet(sink)

Times(s, x) == Cardinality({ i \in DOMAIN s : s[i] = x })

(***************************************************************************)
(* A row is written once for each time its file was opened, at most: as    *)
(* the class comment fears, a kill or a failure before the file is moved   *)
(* writes rows again, but a file is opened again only after such an event, *)
(* so without one every row is written at most once.                       *)
(* (FileMonitor.run, FileMonitorBatchCallback.doFileCallback)              *)
(***************************************************************************)
OncePerOpening ==
  /\ \A f \in AllFiles : Times(started, f) <= 1 + spent.faults + spent.deaths
  /\ \A n \in Names : \A f \in FilesOf(n) : \A id \in ToSet(closed[n][f[2]]) :
       Times(sink, id) <= Times(started, f)

(***************************************************************************)
(* When a file is moved away as completed, what was last written is the    *)
(* whole file, in its order and with nothing between: the leavings of an   *)
(* earlier attempt do not count.  (SpringBatchMock.run)                    *)
(***************************************************************************)
MovedWhole ==
  [][\A f \in gone' \ gone :
       LET rows == closed[f[1]][f[2]]
       IN  /\ Len(rows) <= Len(sink)
           /\ SubSeq(sink, Len(sink) - Len(rows) + 1, Len(sink)) = rows]_vars

Watched(n) == n \in ToSet(checkList)

(***************************************************************************)
(* With the monitor's exceptionHandler set, every file of a watched log is *)
(* moved away in the end, however often its batch or its move fails and    *)
(* whatever the others do.  What can stop it: an interrupt, a kill, a      *)
(* directory that is gone, and addMonitor during a round.                  *)
(* (FileMonitor.run)                                                       *)
(***************************************************************************)
EveryFileMoved ==
  \A n \in Names : \A k \in 1 .. MaxFiles :
    (handlers.monitor /\ k \in DOMAIN closed[n] /\ Watched(n) /\ pc # "none")
      ~> (<< n, k >> \in gone \/ pc = "none" \/ intr \/ spent.unlisted
            \/ (pc = "dead" /\ Modified))
=============================================================================
