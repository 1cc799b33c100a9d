----------------------------- MODULE CsvLogInfo -----------------------------
(***************************************************************************)
(* One rolling CSV log (erwins.util.tools.csvLog.CsvLogInfo): the fields   *)
(* the manager initialises, the writer with its buffer, and the files the  *)
(* log owns on disk.  A log writes to the fixed file <name>.log; when its  *)
(* interval is over the file is closed and renamed to                      *)
(* <name>_<from>[_<index>].csv and <name>.log is opened again in append    *)
(* mode.                                                                   *)
(*                                                                         *)
(* Time counts the units of dateTimeFieldType (a day, an hour, a minute),  *)
(* so rounding down to a unit is the identity and "interval" is a number   *)
(* of units.  A line is the identity of what was logged and the time the   *)
(* worker read before writing it.  Where a writer begins stands a mark,    *)
(* whose identity is 0 and whose time is the start of the interval: it is  *)
(* the header row, where there is one, and history where there is none.    *)
(*                                                                         *)
(* The methods are operators on the record of one log: they are called by  *)
(* the manager (CsvLogMamager.add) and by the worker (CsvLogThread.run).   *)
(* An operator marked "Variant" is not the code: it is the operator after  *)
(* it with a plausible mistake, kept to show which property notices.       *)
(***************************************************************************)
EXTENDS Naturals, Sequences

CONSTANTS
  Interval,       \* CsvLogInfo.interval, in units of dateTimeFieldType
  Header          \* CsvLogInfo.header is not null

ASSUME IntervalAssumption == Interval \in Nat \ {0}

ASSUME HeaderAssumption == Header \in BOOLEAN

Line == [id : Nat, at : Nat]

HeaderId == 0

HeaderLine(t) == [id |-> HeaderId, at |-> t]

\* A file whose writing has ended: <name>_<from>.csv when index is 0,
\* <name>_<from>_<index>.csv otherwise.
ClosedFile == [from : Nat, index : Nat, lines : Seq(Line)]

(***************************************************************************)
(* state   "absent": not in csvLogInfoMap.  Then the stages of add():      *)
(*         "linked": in the map, queue set; "checked": init() found no     *)
(*         writer and set fileNameConverter; "tested": reloadWriter() has  *)
(*         looked whether there is a writer to close; "timed": it has set  *)
(*         nextInterval.  "ready": add() has returned; "raw": it has       *)
(*         thrown before there was a converter.                            *)
(* writer  the CSVWriter: null, open, or closed (the field is not reset).  *)
(* next    nextInterval.                                                   *)
(* buf     lines inside the writer, not yet handed to the file.            *)
(* exists  <name>.log is there; log is what whole rows it holds.           *)
(* end     how it ends: "whole", after a row; "half", within the first row *)
(*         of buf; "stump", within a row whose rest is lost; "glued": the  *)
(*         writer's next row to reach the file, before those of buf, joins *)
(*         a stump and can be read no more.                                *)
(* csv     the closed files, in the order they were renamed.  The piece of *)
(*         a row one may end with is left out: nothing follows it.         *)
(***************************************************************************)
Adding == {"linked", "checked", "tested", "timed"}

LogInfo == [ state  : {"absent", "ready", "raw"} \union Adding,
             writer : {"null", "open", "closed"},
             next   : Nat,
             buf    : Seq(Line),
             exists : BOOLEAN,
             log    : Seq(Line),
             end    : {"whole", "half", "stump", "glued"},
             csv    : Seq(ClosedFile) ]

NewLogInfo == [ state |-> "absent", writer |-> "null", next |-> 0, buf |-> << >>,
                exists |-> FALSE, log |-> << >>, end |-> "whole", csv |-> << >> ]

Underway(a) == a.state \in Adding

\* fileNameConverter is set.
Converted(a) == a.state \in {"checked", "tested", "timed", "ready"}

\* The encoder hands the buffer over as it fills, in the middle of a row: without
\* its writer a row begun stays a stump.
Cut(end) == IF end = "whole" THEN "whole" ELSE "stump"

\* What a new process finds: the fields are gone, the files are not.
Forgotten(a) == [a EXCEPT !.state = "absent", !.writer = "null", !.next = 0,
                          !.buf = << >>, !.end = Cut(@)]

-----------------------------------------------------------------------------
\* close(): the first free name for the interval starting at "from".

Taken(a, from) == { i \in 0 .. Len(a.csv) :
                      \E k \in 1 .. Len(a.csv) : a.csv[k].from = from /\ a.csv[k].index = i }

\* Variant: number the closed files of the log instead of those of the interval.
IndexByCount(a, from) == Len(a.csv)

FreeIndex(a, from) ==
  CHOOSE i \in (0 .. Len(a.csv)) \ Taken(a, from) :
    \A j \in (0 .. Len(a.csv)) \ Taken(a, from) : i <= j

\* Without a converter, a writer or a <name>.log, close() throws a runtime
\* exception (NullPointerException, or FileUtil.renameTo's IllegalStateException).
Closeable(a) == Converted(a) /\ a.writer # "null" /\ a.exists

\* Variants: rename before the buffer reached the file; copy instead of renaming.
ClosedUnflushed(a, from) ==
  [a EXCEPT !.writer = "closed", !.buf = << >>, !.exists = FALSE, !.log = << >>,
            !.end = "whole",
            !.csv = Append(@, [from |-> from, index |-> FreeIndex(a, from), lines |-> a.log])]

ClosedByCopy(a, from) ==
  [a EXCEPT !.writer = "closed", !.buf = << >>, !.log = @ \o a.buf, !.end = "whole",
            !.csv = Append(@, [ from |-> from, index |-> FreeIndex(a, from),
                                lines |-> a.log \o a.buf ])]

Closed(a, from) ==
  [a EXCEPT !.writer = "closed", !.buf = << >>, !.exists = FALSE, !.log = << >>,
            !.end = "whole",
            !.csv = Append(@, [ from  |-> from,
                                index |-> FreeIndex(a, from),
                                lines |-> a.log \o a.buf ])]

\* The writer hands over all it has.
Emptied(a) ==
  [a EXCEPT !.log = @ \o a.buf, !.buf = << >>,
            !.end = IF @ = "stump" THEN "stump" ELSE "whole"]

\* close() that closed the writer and then failed to rename.
NotRenamed(a) ==
  IF Converted(a) /\ a.writer = "open" THEN [Emptied(a) EXCEPT !.writer = "closed"] ELSE a

\* close() whose CSVWriter.close() threw: the buffered lines are not in the file.
Broken(a) == [a EXCEPT !.writer = "closed", !.buf = << >>, !.end = Cut(@)]

-----------------------------------------------------------------------------
\* reloadWriter(): close the current file if there is one, then open the next.

\* Variant: the file is opened to be written from its beginning.
OpenedEmpty(a, from) ==
  [a EXCEPT !.next = from + Interval, !.writer = "open", !.exists = TRUE,
            !.buf = << HeaderLine(from) >>, !.log = << >>, !.end = "whole"]

\* A header joins the stump an earlier writer left.  What a writer that is
\* replaced had buffered is lost.
Opened(a, from) ==
  LET headed == Header /\ Cut(a.end) = "whole"
  IN  [a EXCEPT !.next = from + Interval, !.writer = "open", !.exists = TRUE,
                !.log = IF headed THEN @ ELSE Append(@, HeaderLine(from)),
                !.buf = IF headed THEN << HeaderLine(from) >> ELSE << >>,
                !.end = IF Header /\ Cut(@) = "stump" THEN "glued" ELSE Cut(@)]

\* nextInterval is assigned before the file is opened.
NotOpened(a, from) == [a EXCEPT !.next = from + Interval]

Reloaded(a, from) ==
  IF a.writer = "null" THEN Opened(a, from) ELSE Opened(Closed(a, from), from)

\* Variant: rename without looking whether there is a file to rename.
ReloadableAlways(a) == TRUE

Reloadable(a) == a.writer = "null" \/ Closeable(a)

\* What a reloadWriter() that meets a failing file operation can leave behind: a
\* file that is not renamed, a writer that is not closed, or no new file.
FailedReloads(a, from) ==
  IF a.writer = "null" THEN { NotOpened(a, from) }
  ELSE { NotRenamed(a), Broken(a), NotOpened(Closed(a, from), from) }

-----------------------------------------------------------------------------
\* CSVWriter.writeNext and flush.  A closed writer swallows both: its
\* PrintWriter only sets an error flag nobody reads.

Written(a, line) ==
  IF a.writer # "open" THEN a
  ELSE IF a.end = "stump" THEN [a EXCEPT !.end = "glued"]
  ELSE [a EXCEPT !.buf = Append(@, line)]

\* Variant: the flush is forgotten.
NotFlushed(a) == a

Flushed(a) == IF a.writer = "open" THEN Emptied(a) ELSE a

\* The encoder under the writer hands a full buffer to the file by itself, up to
\* the end of a row or within one.
Spilled(a) ==
  IF a.end = "glued" THEN [a EXCEPT !.end = "whole"]
  ELSE [a EXCEPT !.end = "whole", !.log = Append(@, Head(a.buf)), !.buf = Tail(@)]

SpilledHalf(a) == [a EXCEPT !.end = "half"]
=============================================================================
