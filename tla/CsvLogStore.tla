----------------------------- MODULE CsvLogStore -----------------------------
(***************************************************************************)
(* The CSV logging service implements LogStore: the mapping forgets the    *)
(* clock, the queue's bound, headers and roll events, the names of files,  *)
(* the difference between a line in the writer's buffer and one in the     *)
(* file, and which thread does what.                                       *)
(***************************************************************************)
EXTENDS CsvLog

\* The logs with data in the hands of the workers.
TakenIds(n) ==
  { hand[w][1].id : w \in { v \in Workers : hand[v] # << >> /\ hand[v][1].name = n
                                             /\ ~hand[v][1].roll } }

OpenIds(a) == LineIds(a.log \o a.buf)

ClosedIds(a) == [k \in DOMAIN a.csv |-> LineIds(a.csv[k].lines)]

Intact == Undisturbed /\ \A w \in Workers : cause[w] # "failed"

Store == INSTANCE LogStore WITH
  LogIds   <- 1 .. MaxWrites,
  accepted <- [n \in Names |-> Ids(accepted, n)],
  waiting  <- [n \in Names |-> Ids(queue, n)],
  taken    <- [n \in Names |-> TakenIds(n)],
  open     <- [n \in Names |-> OpenIds(infos[n])],
  closed   <- [n \in Names |-> ClosedIds(infos[n])],
  failures <- spent.faults + spent.kills + spent.dups + spent.races,
  ok       <- Intact

(***************************************************************************)
(* The service with its threads, rolling files, failures and kills does    *)
(* nothing that LogStore forbids: in particular a closed file appears with *)
(* all its lines at once and never changes, and without a failure every    *)
(* accepted log passes through the open file exactly once, in order.       *)
(* (CsvLogger.offerLog, CsvLogThread.run, CsvLogInfo.close)                *)
(***************************************************************************)
ImplementsLogStore == Store!StoreSpec
=============================================================================
