------------------------------ MODULE MergeSort ------------------------------
(***************************************************************************)
(* The external sort (erwins.util.spring.batch.tool.MergeSortor).          *)
(*                                                                         *)
(* sort() splits its input into files of maxLineCount rows in the          *)
(* directory STEP_01, then merges the files of one step directory in pairs *)
(* into the next until one file is left, which becomes the output.  The    *)
(* merges of a pass run on a thread pool.  sort() may fail while some of   *)
(* them go on, and may be called again; the step directories are never     *)
(* emptied, and the next process begins with STEP_01 again.                *)
(***************************************************************************)
EXTENDS Integers, Sequences, FiniteSets

CONSTANTS
  Inputs,          \* what may be sorted: sequences of keys
  MaxLineCount,    \* rows of a file of the first step
  CommitInterval,  \* rows a merge writes at a time
  MaxSorts,        \* bound: calls of sort()
  MaxFaults        \* bound: failures of a file operation, kills

ASSUME MergeSortAssumption ==
  /\ Inputs \subseteq Seq(Int)
  /\ {MaxLineCount, CommitInterval} \subseteq Nat \ {0}
  /\ {MaxSorts, MaxFaults} \subseteq Nat

VARIABLES
  source,   \* the rows sort() was called with
  next,     \* how many of them step1_splitFile has taken
  file,     \* the files of tempDir: path -> rows
  step,     \* currentStepCount: writeDir is STEP_<step>
  count,    \* currentFileCount
  pc,       \* where sort() is; "done" after it returned, "idle" after it threw
  todo,     \* files of readDir that toPairFoles has not handed out
  merges,   \* Read2FileAndMerge by the path it writes
  output,   \* outputFile of the last sort() that returned
  fresh,    \* the directories sort() was to use were empty (history)
  spent     \* calls and failures (bounds)

vars == << source, next, file, step, count, pc, todo, merges, output, fresh, spent >>

\* A row; "at" tells equal keys apart: which sort() it belongs to, and where it was.
Row == [key : Int, at : Nat \X Nat]
Path == Nat \X Nat

RangeOf(s) == { s[i] : i \in DOMAIN s }
PairsBefore(r, s) == r.key < s.key \/ (r.key = s.key /\ r.at[2] < s.at[2])

\* Collections.sort is stable, and rows are read in the order of their place.
SortsOf(rows) ==
  { t \in [1 .. Len(rows) -> RangeOf(rows)] :
      /\ RangeOf(t) = RangeOf(rows)
      /\ \A i, j \in 1 .. Len(rows) : i < j => PairsBefore(t[i], t[j]) }

With(f, p, rows) == [q \in DOMAIN f \union {p} |-> IF q = p THEN rows ELSE f[q]]
Without(f, p) == [q \in DOMAIN f \ {p} |-> f[q]]

\* File.listFiles() of STEP_<n>, in no order.
Listed(n) == { p \in DOMAIN file : p[1] = n }
Orders(S) == { o \in [1 .. Cardinality(S) -> S] : RangeOf(o) = S }

Merging(p) == merges[p].state \in {"queued", "running"}
Mine == { p \in DOMAIN merges : p[1] = step }
\* The futures sort() no longer looks at, of which only the unfinished ones matter.
StillMerging == [p \in { q \in DOMAIN merges : Merging(q) } |-> merges[p]]

Fault == spent.faults < MaxFaults /\ spent' = [spent EXCEPT !.faults = @ + 1]

Init ==
  /\ source = << >> /\ next = 0
  /\ file = << >>
  /\ step = 0 /\ count = 0
  /\ pc = "idle"
  /\ todo = << >>
  /\ merges = << >>
  /\ output = << >>
  /\ fresh = TRUE
  /\ spent = [sorts |-> 0, faults |-> 0]

\* sort(): changeNextDir, and the writer of step1_splitFile opens its first file.
\* An operator marked "Variant" is not the code: it is the operator after it with a
\* plausible mistake, kept to show which property notices.  Variant: every call
\* starts with STEP_01.
StartSortAtOne(keys) ==
  /\ pc \in {"idle", "done"} /\ spent.sorts < MaxSorts
  /\ source' = [i \in 1 .. Len(keys) |-> [key |-> keys[i], at |-> << spent.sorts + 1, i >>]]
  /\ next' = 0
  /\ step' = 1 /\ count' = 1
  /\ fresh' = \A p \in DOMAIN file : p[1] < 1
  /\ file' = With(file, << 1, 1 >>, << >>)
  /\ merges' = StillMerging
  /\ pc' = "split"
  /\ spent' = [spent EXCEPT !.sorts = @ + 1]
  /\ UNCHANGED << todo, output >>

StartSort(keys) ==
  /\ pc \in {"idle", "done"} /\ spent.sorts < MaxSorts
  /\ source' = [i \in 1 .. Len(keys) |-> [key |-> keys[i], at |-> << spent.sorts + 1, i >>]]
  /\ next' = 0
  /\ step' = step + 1 /\ count' = 1
  /\ fresh' = \A p \in DOMAIN file : p[1] <= step
  /\ file' = With(file, << step + 1, 1 >>, << >>)
  /\ merges' = StillMerging
  /\ pc' = "split"
  /\ spent' = [spent EXCEPT !.sorts = @ + 1]
  /\ UNCHANGED << todo, output >>

\* maxLineCount rows were read: they are sorted and written, the next file is opened.
SplitFile ==
  /\ pc = "split" /\ next + MaxLineCount <= Len(source)
  /\ \E rows \in SortsOf(SubSeq(source, next + 1, next + MaxLineCount)) :
       file' = With(With(file, << step, count >>, rows), << step, count + 1 >>, << >>)
  /\ count' = count + 1
  /\ next' = next + MaxLineCount
  /\ UNCHANGED << source, step, pc, todo, merges, output, fresh, spent >>

\* The input ends: the rows of the last file are written as they were read.
SplitRest ==
  /\ pc = "split" /\ next + MaxLineCount > Len(source)
  /\ file' = With(file, << step, count >>, SubSeq(source, next + 1, Len(source)))
  /\ next' = Len(source)
  /\ pc' = "list"
  /\ UNCHANGED << source, step, count, todo, merges, output, fresh, spent >>

\* changeNextDir; several files are left.
NextPass ==
  /\ pc = "list" /\ Cardinality(Listed(step)) > 1
  /\ step' = step + 1 /\ count' = 0
  /\ \E order \in Orders(Listed(step)) : todo' = order
  /\ merges' = StillMerging
  /\ pc' = "pair"
  /\ UNCHANGED << source, next, file, output, fresh, spent >>

\* changeNextDir; one file is left and is renamed to outputFile.
Finish ==
  /\ pc = "list" /\ Cardinality(Listed(step)) = 1
  /\ \E p \in Listed(step) :
       /\ output' = file[p]
       /\ file' = Without(file, p)
  /\ step' = step + 1 /\ count' = 0
  /\ merges' = StillMerging
  /\ pc' = "done"
  /\ UNCHANGED << source, next, todo, fresh, spent >>

Merge(p, q) == [first |-> p, second |-> q, i |-> 0, j |-> 0, list |-> << >>, state |-> "queued"]

\* Variant: the pairs overlap (i += 1).
PairOverlapping ==
  /\ pc = "pair" /\ Len(todo) >= 2
  /\ count' = count + 1
  /\ merges' = With(merges, << step, count + 1 >>, Merge(todo[1], todo[2]))
  /\ todo' = Tail(todo)
  /\ UNCHANGED << source, next, file, step, pc, output, fresh, spent >>

\* Two files of a pass go to the pool as one merge ...
Pair ==
  /\ pc = "pair" /\ Len(todo) >= 2
  /\ count' = count + 1
  /\ merges' = With(merges, << step, count + 1 >>, Merge(todo[1], todo[2]))
  /\ todo' = Tail(Tail(todo))
  /\ UNCHANGED << source, next, file, step, pc, output, fresh, spent >>

\* ... and one that is left alone is copied by sort() itself.
CopyOdd ==
  /\ pc = "pair" /\ Len(todo) = 1
  /\ count' = count + 1
  /\ file' = With(file, << step, count + 1 >>, file[todo[1]])
  /\ todo' = << >>
  /\ UNCHANGED << source, next, step, pc, merges, output, fresh, spent >>

\* ThreadUtil.sum(): all futures have ended well ...
PassEnds ==
  /\ pc = "pair" /\ todo = << >>
  /\ \A p \in Mine : merges[p].state = "done"
  /\ pc' = "list"
  /\ UNCHANGED << source, next, file, step, count, todo, merges, output, fresh, spent >>

\* ... or it comes to one that failed.  The later ones go on unattended.
PassFails ==
  /\ pc = "pair" /\ todo = << >>
  /\ \E p \in Mine : /\ merges[p].state = "failed"
                     /\ \A q \in Mine : q[2] < p[2] => merges[q].state = "done"
  /\ pc' = "idle"
  /\ UNCHANGED << source, next, file, step, count, todo, merges, output, fresh, spent >>

\* A reader or a writer of the split fails.
SplitFails ==
  /\ pc = "split" /\ Fault
  /\ pc' = "idle"
  /\ UNCHANGED << source, next, file, step, count, todo, merges, output, fresh >>

\* FileUtil.copy fails and leaves a part of the file; the merges of the pass go on.
CopyFails ==
  /\ pc = "pair" /\ Len(todo) = 1 /\ Fault
  /\ count' = count + 1
  /\ \E n \in 0 .. Len(file[todo[1]]) :
       file' = With(file, << step, count + 1 >>, SubSeq(file[todo[1]], 1, n))
  /\ todo' = << >>
  /\ pc' = "idle"
  /\ UNCHANGED << source, next, step, merges, output, fresh >>

\* FileUtil.renameTo fails, as it does when outputFile exists.
RenameFails ==
  /\ pc = "list" /\ Cardinality(Listed(step)) = 1 /\ Fault
  /\ step' = step + 1 /\ count' = 0
  /\ merges' = StillMerging
  /\ pc' = "idle"
  /\ UNCHANGED << source, next, file, todo, output, fresh >>

Sorter ==
  \/ \E keys \in Inputs : StartSort(keys)
  \/ SplitFile \/ SplitRest \/ NextPass \/ Finish \/ Pair \/ CopyOdd
  \/ PassEnds \/ PassFails \/ SplitFails \/ CopyFails \/ RenameFails

-----------------------------------------------------------------------------
\* The merge of two files, in a thread of the pool.
FirstLeft(m) == m.i < Len(file[m.first])
SecondLeft(m) == m.j < Len(file[m.second])

\* Variant: the larger head goes first.
LargerWins(m) ==
  FirstLeft(m) /\ (SecondLeft(m) => file[m.first][m.i + 1].key >= file[m.second][m.j + 1].key)

\* item1 is taken: item2 is used up, or does not come before it.
Win(m) ==
  FirstLeft(m) /\ (SecondLeft(m) => file[m.first][m.i + 1].key <= file[m.second][m.j + 1].key)

Open(p) ==
  /\ merges[p].state = "queued"
  /\ file' = With(file, p, << >>)
  /\ merges' = [merges EXCEPT ![p].state = "running"]

\* Variant: one row late.
TakeLate(p) ==
  LET m == merges[p]
      row == IF Win(m) THEN file[m.first][m.i + 1] ELSE file[m.second][m.j + 1]
      list == Append(m.list, row)
      commit == Len(list) > CommitInterval
  IN  /\ m.state = "running"
      /\ FirstLeft(m) \/ SecondLeft(m)
      /\ merges' = [merges EXCEPT ![p].i = IF Win(m) THEN @ + 1 ELSE @,
                                  ![p].j = IF Win(m) THEN @ ELSE @ + 1,
                                  ![p].list = IF commit THEN << >> ELSE list]
      /\ file' = IF commit THEN With(file, p, file[p] \o list) ELSE file

\* One row is taken; commitInterval of them are written together.
Take(p) ==
  LET m == merges[p]
      row == IF Win(m) THEN file[m.first][m.i + 1] ELSE file[m.second][m.j + 1]
      list == Append(m.list, row)
      commit == Len(list) >= CommitInterval
  IN  /\ m.state = "running"
      /\ FirstLeft(m) \/ SecondLeft(m)
      /\ merges' = [merges EXCEPT ![p].i = IF Win(m) THEN @ + 1 ELSE @,
                                  ![p].j = IF Win(m) THEN @ ELSE @ + 1,
                                  ![p].list = IF commit THEN << >> ELSE list]
      /\ file' = IF commit THEN With(file, p, file[p] \o list) ELSE file

\* Variant: the rows after the last commit are forgotten.
EndUnwritten(p) ==
  /\ merges[p].state = "running"
  /\ ~FirstLeft(merges[p]) /\ ~SecondLeft(merges[p])
  /\ merges' = [merges EXCEPT ![p].state = "done", ![p].list = << >>]
  /\ UNCHANGED file

\* Both files are used up: the rest is written and the files are closed.
End(p) ==
  /\ merges[p].state = "running"
  /\ ~FirstLeft(merges[p]) /\ ~SecondLeft(merges[p])
  /\ file' = With(file, p, file[p] \o merges[p].list)
  /\ merges' = [merges EXCEPT ![p].state = "done", ![p].list = << >>]

\* A reader or the writer fails: what was committed stays in the file.
Fail(p) ==
  /\ Merging(p)
  /\ merges' = [merges EXCEPT ![p].state = "failed", ![p].list = << >>]
  /\ UNCHANGED file

Read2FileAndMerge(p) ==
  /\ \/ (Open(p) \/ Take(p) \/ End(p)) /\ UNCHANGED spent
     \/ Fail(p) /\ Fault
  /\ UNCHANGED << source, next, step, count, pc, todo, output, fresh >>

\* The process is killed; the next one has a new MergeSortor on the same tempDir.
Kill ==
  /\ Fault
  /\ source' = << >> /\ next' = 0
  /\ step' = 0 /\ count' = 0
  /\ pc' = "idle"
  /\ todo' = << >>
  /\ merges' = << >>
  /\ UNCHANGED << file, output, fresh >>

Next == Sorter \/ (\E p \in DOMAIN merges : Read2FileAndMerge(p)) \/ Kill

Spec == Init /\ [][Next]_vars

-----------------------------------------------------------------------------
IsFiles(f) == \A p \in DOMAIN f : p \in Path /\ f[p] \in Seq(Row)

MergeRecord ==
  [first : Path, second : Path, i : Nat, j : Nat, list : Seq(Row),
   state : {"queued", "running", "done", "failed"}]

TypeOK ==
  /\ source \in Seq(Row) /\ next \in 0 .. Len(source)
  /\ IsFiles(file) /\ IsFiniteSet(DOMAIN file)
  /\ step \in Nat /\ count \in Nat
  /\ pc \in {"idle", "split", "list", "pair", "done"}
  /\ todo \in Seq(DOMAIN file)
  /\ \A p \in DOMAIN merges :
       /\ p \in Path /\ merges[p] \in MergeRecord
       /\ {merges[p].first, merges[p].second} \subseteq DOMAIN file
       /\ merges[p].i <= Len(file[merges[p].first])
       /\ merges[p].j <= Len(file[merges[p].second])
       /\ Len(merges[p].list) < CommitInterval
  /\ output \in Seq(Row)
  /\ fresh \in BOOLEAN
  /\ spent \in [sorts : 0 .. MaxSorts, faults : 0 .. MaxFaults]

Occurrences(row, rows) == Cardinality({ i \in DOMAIN rows : rows[i] = row })

(***************************************************************************)
(* When sort() returns, every row of its input is in the output once,      *)
(* whatever earlier calls left behind and whatever merges of theirs are    *)
(* still running; and if the step directories were empty, nothing else is  *)
(* in it.  (MergeSortor.sort)                                              *)
(***************************************************************************)
Complete ==
  pc = "done" =>
    /\ \A row \in RangeOf(source) : Occurrences(row, output) = 1
    /\ fresh => Len(output) = Len(source)

InOrder(rows) == \A i, j \in DOMAIN rows : i < j => rows[i].key <= rows[j].key

\* The rows after the last full file, which SplitRest writes.
LastRows == SubSeq(source, Len(source) - (Len(source) % MaxLineCount) + 1, Len(source))

(***************************************************************************)
(* The merges keep order: if the rows that are left when the input ends    *)
(* happen to be in order, the output is, whatever order the files were     *)
(* listed in.  (MergeSortor.Read2FileAndMerge.call)                        *)
(***************************************************************************)
MergesKeepOrder == pc = "done" /\ fresh /\ InOrder(LastRows) => InOrder(output)

(***************************************************************************)
(* The output is in order ("verification" of MergeSortor_test.main, which  *)
(* prints every line that does not come after the one before).             *)
(***************************************************************************)
SortedOutput == pc = "done" /\ fresh => InOrder(output)

(***************************************************************************)
(* No merge reads a file that somebody writes: not a merge of the same     *)
(* pass, not one that a failed sort() left running, not the split of the   *)
(* next sort().  (MergeSortor.changeNextDir, getNextFile)                  *)
(***************************************************************************)
Reading == UNION { {merges[p].first, merges[p].second} : p \in DOMAIN StillMerging }
Writing == DOMAIN StillMerging
             \union (IF pc = "split" THEN {<< step, count >>} ELSE {})
NoReadOfUnwritten == Reading \intersect Writing = {}

(***************************************************************************)
(* A pass leaves half as many files as it found, rounded up, so that the   *)
(* number of passes is bounded by the logarithm of the number of files.    *)
(* (MergeSortor.toPairFoles)                                               *)
(***************************************************************************)
PassesHalve ==
  [][pc = "pair" /\ pc' = "list" /\ fresh =>
       2 * Cardinality(Listed(step)) \in
         Cardinality(Listed(step - 1)) .. Cardinality(Listed(step - 1)) + 1]_vars

=============================================================================
