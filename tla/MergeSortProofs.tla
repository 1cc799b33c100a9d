--------------------------- MODULE MergeSortProofs ---------------------------
(***************************************************************************)
(* Proofs about the external sort, for every input, every size of the      *)
(* files, every number of calls and failures: readers and writers apart    *)
(* (Places), the number of files of a pass (Paired, Counted), the order a  *)
(* merge keeps (Ordered), and that no row is lost (Tracked).               *)
(***************************************************************************)
EXTENDS MergeSort, FiniteSetTheorems, TLAPS

-----------------------------------------------------------------------------
(***************************************************************************)
(* NoReadOfUnwritten is not inductive, and TypeOK needs it: a file that a  *)
(* merge has half read must not become shorter.  What keeps readers and    *)
(* writers apart is the numbers of the directories.  A merge into STEP_n   *)
(* reads STEP_n-1; a merge that a failed sort() left running is at least   *)
(* two directories behind everything the next sort() merges, because the   *)
(* split of that sort() lies between.                                      *)
(***************************************************************************)
Places ==
  /\ pc # "pair" => todo = << >>
  /\ \A k \in DOMAIN todo : todo[k][1] = step - 1
  /\ \A p \in DOMAIN merges :
       /\ p[1] <= step
       /\ merges[p].first[1] = p[1] - 1 /\ merges[p].second[1] = p[1] - 1
       /\ merges[p].state = "running" => p \in DOMAIN file
  /\ \A p \in DOMAIN merges :
       Merging(p) =>
         /\ pc = "pair" => p[1] = step \/ p[1] < step - 1
         /\ pc \in {"split", "list", "done"} => p[1] < step
         /\ \A q \in DOMAIN merges : q[1] # p[1] + 1

IInv == TypeOK /\ Places

(***************************************************************************)
(* NoReadOfUnwritten follows: a reader's file is one directory below.      *)
(***************************************************************************)
LEMMA PlacesSeparate == IInv => NoReadOfUnwritten
<1> SUFFICES ASSUME IInv, NEW r \in Reading, r \in Writing
             PROVE  FALSE
  BY DEF NoReadOfUnwritten
<1>1. PICK p \in DOMAIN merges : Merging(p) /\ r \in {merges[p].first, merges[p].second}
  BY DEF Reading, StillMerging
<1>2. /\ p[1] \in Nat /\ r[1] = p[1] - 1 /\ step \in Nat
      /\ pc \in {"split", "list", "done"} => p[1] < step
      /\ \A q \in DOMAIN merges : q[1] # p[1] + 1
  BY <1>1 DEF IInv, TypeOK, Places, Path
<1>3. CASE r \in DOMAIN StillMerging
  <2>1. PICK q \in DOMAIN merges : Merging(q) /\ r = q
    BY <1>3 DEF StillMerging
  <2>2. q[1] \in Nat /\ p[1] # q[1] + 1
    BY <2>1, <1>1 DEF IInv, TypeOK, Places, Path
  <2>3. QED
    BY <1>2, <2>1, <2>2
<1>4. CASE pc = "split" /\ r = << step, count >>
  BY <1>2, <1>4
<1>5. QED
  BY <1>3, <1>4 DEF Writing

-----------------------------------------------------------------------------
(***************************************************************************)
(* What the operators on the files return.                                 *)
(***************************************************************************)
LEMMA WithFiles ==
  ASSUME NEW f, IsFiles(f), IsFiniteSet(DOMAIN f), NEW p \in Path, NEW rows \in Seq(Row)
  PROVE  /\ IsFiles(With(f, p, rows))
         /\ IsFiniteSet(DOMAIN With(f, p, rows))
         /\ DOMAIN With(f, p, rows) = DOMAIN f \union {p}
         /\ With(f, p, rows)[p] = rows
         /\ \A q \in DOMAIN f : q # p => With(f, p, rows)[q] = f[q]
<1>1. DOMAIN With(f, p, rows) = DOMAIN f \union {p}
  BY DEF With
<1>2. IsFiniteSet(DOMAIN f \union {p})
  BY FS_AddElement
<1>3. With(f, p, rows)[p] = rows /\ \A q \in DOMAIN f : q # p => With(f, p, rows)[q] = f[q]
  BY DEF With
<1>4. QED
  BY <1>1, <1>2, <1>3 DEF IsFiles

LEMMA SortsType ==
  ASSUME NEW rows \in Seq(Row), NEW t \in SortsOf(rows)
  PROVE  t \in Seq(Row)
<1>1. RangeOf(rows) \subseteq Row /\ Len(rows) \in Nat
  BY DEF RangeOf
<1>2. t \in [1 .. Len(rows) -> Row]
  BY <1>1 DEF SortsOf
<1>3. QED
  BY <1>1, <1>2

(***************************************************************************)
(* What TypeOK says of one merge, and of all of them, over given files.    *)
(***************************************************************************)
MergeTyped(m, f) ==
  /\ m \in MergeRecord
  /\ {m.first, m.second} \subseteq DOMAIN f
  /\ m.i <= Len(f[m.first]) /\ m.j <= Len(f[m.second])
  /\ Len(m.list) < CommitInterval

MergesTyped(ms, f) == \A p \in DOMAIN ms : p \in Path /\ MergeTyped(ms[p], f)

LEMMA WithTyped ==
  ASSUME NEW ms, NEW f, IsFiles(f), MergesTyped(ms, f), NEW p \in Path, NEW rows \in Seq(Row),
         \A q \in DOMAIN ms : ms[q].first # p /\ ms[q].second # p
  PROVE  MergesTyped(ms, With(f, p, rows))
  BY DEF MergesTyped, MergeTyped, With

LEMMA StillTyped ==
  ASSUME NEW f, MergesTyped(merges, f)
  PROVE  /\ MergesTyped(StillMerging, f)
         /\ DOMAIN StillMerging \subseteq DOMAIN merges
         /\ \A p \in DOMAIN StillMerging : StillMerging[p] = merges[p] /\ Merging(p)
  BY DEF MergesTyped, StillMerging

Basics ==
  /\ source \in Seq(Row) /\ next \in 0 .. Len(source)
  /\ IsFiles(file) /\ IsFiniteSet(DOMAIN file)
  /\ step \in Nat /\ count \in Nat
  /\ pc \in {"idle", "split", "list", "pair", "done"}
  /\ todo \in Seq(DOMAIN file)
  /\ output \in Seq(Row) /\ fresh \in BOOLEAN
  /\ spent \in [sorts : 0 .. MaxSorts, faults : 0 .. MaxFaults]

LEMMA TypeParts == TypeOK => Basics /\ MergesTyped(merges, file)
  BY DEF TypeOK, Basics, MergesTyped, MergeTyped

LEMMA PartsType ==
  ASSUME Basics', MergesTyped(merges', file')
  PROVE  TypeOK'
<1>1. \A p \in DOMAIN merges' :
         /\ p \in Path /\ merges'[p] \in MergeRecord
         /\ {merges'[p].first, merges'[p].second} \subseteq DOMAIN file'
         /\ merges'[p].i <= Len(file'[merges'[p].first])
         /\ merges'[p].j <= Len(file'[merges'[p].second])
         /\ Len(merges'[p].list) < CommitInterval
  BY DEF MergesTyped, MergeTyped
<1>2. QED
  BY <1>1 DEF TypeOK, Basics

SpentType == spent \in [sorts : 0 .. MaxSorts, faults : 0 .. MaxFaults]

LEMMA FaultSpent ==
  ASSUME SpentType, Fault
  PROVE  SpentType'
<1>1. MaxSorts \in Nat /\ MaxFaults \in Nat
  BY MergeSortAssumption
<1>2. spent' = [spent EXCEPT !.faults = spent.faults + 1] /\ spent.faults + 1 \in 0 .. MaxFaults
  BY <1>1 DEF SpentType, Fault
<1>3. QED
  BY <1>2 DEF SpentType

LEMMA SortSpent ==
  ASSUME SpentType, NEW keys, StartSort(keys)
  PROVE  SpentType' /\ spent.sorts + 1 \in Nat
<1>1. MaxSorts \in Nat /\ MaxFaults \in Nat
  BY MergeSortAssumption
<1>2. spent' = [spent EXCEPT !.sorts = spent.sorts + 1] /\ spent.sorts + 1 \in 0 .. MaxSorts
  BY <1>1 DEF SpentType, StartSort
<1>3. QED
  BY <1>2 DEF SpentType

LEMMA Init_IInv == Init => IInv
<1> SUFFICES ASSUME Init
             PROVE  IInv
  OBVIOUS
<1>1. /\ DOMAIN file = {} /\ DOMAIN merges = {} /\ IsFiniteSet({})
  BY FS_EmptySet DEF Init
<1>2. << >> \in Seq(Row) /\ << >> \in Seq(DOMAIN file) /\ Len(<< >>) = 0
  OBVIOUS
<1>3. spent \in [sorts : 0 .. MaxSorts, faults : 0 .. MaxFaults]
  BY MergeSortAssumption DEF Init
<1>4. TypeOK
  BY <1>1, <1>2, <1>3 DEF Init, TypeOK, IsFiles
<1>5. Places
  BY <1>1 DEF Init, Places
<1>6. QED
  BY <1>4, <1>5 DEF IInv

-----------------------------------------------------------------------------
(***************************************************************************)
(* The steps of sort().                                                    *)
(***************************************************************************)
LEMMA StartSort_IInv ==
  ASSUME IInv, NEW keys \in Inputs, StartSort(keys)
  PROVE  IInv'
<1> DEFINE p == << step + 1, 1 >>
<1>1. /\ step \in Nat /\ p \in Path /\ keys \in Seq(Int) /\ << >> \in Seq(Row)
      /\ IsFiles(file) /\ IsFiniteSet(DOMAIN file)
  BY MergeSortAssumption DEF IInv, TypeOK, Path
<1>2. SpentType' /\ spent.sorts + 1 \in Nat
  BY SortSpent DEF IInv, TypeOK, SpentType
<1>3. source' \in Seq(Row) /\ next' \in 0 .. Len(source')
  <2>1. \A i \in 1 .. Len(keys) : [key |-> keys[i], at |-> << spent.sorts + 1, i >>] \in Row
    BY <1>1, <1>2 DEF Row
  <2>2. Len(keys) \in Nat
    BY <1>1
  <2>3. source' \in [1 .. Len(keys) -> Row]
    BY <2>1 DEF StartSort
  <2>4. source' \in Seq(Row) /\ Len(source') = Len(keys)
    BY <2>2, <2>3
  <2>5. QED
    BY <2>2, <2>4 DEF StartSort
<1>4. /\ file' = With(file, p, << >>)
      /\ merges' = StillMerging
      /\ step' = step + 1 /\ count' = 1 /\ pc' = "split" /\ todo' = << >> /\ output' = output
      /\ fresh' \in BOOLEAN
  BY DEF StartSort, IInv, Places
<1>5. IsFiles(file') /\ IsFiniteSet(DOMAIN file') /\ DOMAIN file' = DOMAIN file \union {p}
  BY <1>1, <1>4, WithFiles
<1>6. MergesTyped(StillMerging, file)
  BY StillTyped DEF IInv, TypeOK, MergesTyped, MergeTyped
<1>7. \A q \in DOMAIN StillMerging :
         q \in DOMAIN merges /\ StillMerging[q] = merges[q] /\ Merging(q) /\ q \in Path
  BY <1>6, StillTyped DEF IInv, TypeOK, MergesTyped, MergeTyped
<1>8. MergesTyped(merges', file')
  <2>1. \A q \in DOMAIN StillMerging :
           StillMerging[q].first # p /\ StillMerging[q].second # p
    BY <1>1, <1>7 DEF IInv, Places, Path
  <2>2. QED
    BY <1>1, <1>4, <1>6, <2>1, WithTyped
<1>9. TypeOK'
  <2>1. todo' \in Seq(DOMAIN file')
    BY <1>4
  <2>2. step' \in Nat /\ count' \in Nat /\ output' \in Seq(Row)
    BY <1>1, <1>4 DEF IInv, TypeOK
  <2>3. Basics'
    BY <1>2, <1>3, <1>4, <1>5, <2>1, <2>2 DEF Basics, SpentType
  <2>4. QED
    BY <1>8, <2>3, PartsType
<1>10. Places'
  BY <1>1, <1>4, <1>5, <1>7 DEF IInv, Places, Path, Merging
<1>11. QED
  BY <1>9, <1>10 DEF IInv

(***************************************************************************)
(* A file that sort() writes in its directory is not being read.           *)
(***************************************************************************)
LEMMA WriteInStep ==
  ASSUME IInv, NEW f, IsFiles(f), IsFiniteSet(DOMAIN f), MergesTyped(merges, f),
         NEW n \in Nat, NEW rows \in Seq(Row)
  PROVE  /\ IsFiles(With(f, << step, n >>, rows))
         /\ IsFiniteSet(DOMAIN With(f, << step, n >>, rows))
         /\ MergesTyped(merges, With(f, << step, n >>, rows))
         /\ DOMAIN With(f, << step, n >>, rows) = DOMAIN f \union {<< step, n >>}
<1>1. << step, n >> \in Path
  BY DEF IInv, TypeOK, Path
<1>2. \A q \in DOMAIN merges : merges[q].first # << step, n >> /\ merges[q].second # << step, n >>
  BY DEF IInv, TypeOK, Places, Path
<1>3. MergesTyped(merges, With(f, << step, n >>, rows))
  BY <1>1, <1>2, WithTyped
<1>4. QED
  BY <1>1, <1>3, WithFiles

LEMMA SplitFile_IInv ==
  ASSUME IInv, SplitFile
  PROVE  IInv'
<1> DEFINE chunk == SubSeq(source, next + 1, next + MaxLineCount)
<1>1. /\ Basics /\ MergesTyped(merges, file)
      /\ IsFiles(file) /\ IsFiniteSet(DOMAIN file)
      /\ MaxLineCount \in Nat \ {0} /\ count \in Nat /\ count + 1 \in Nat
  BY TypeParts, MergeSortAssumption DEF IInv, Basics
<1>2. /\ UNCHANGED << source, step, pc, todo, merges, output, fresh, spent >>
      /\ count' = count + 1 /\ next' = next + MaxLineCount
      /\ next + MaxLineCount <= Len(source) /\ pc = "split"
  BY DEF SplitFile
<1>3. PICK rows \in SortsOf(chunk) :
         file' = With(With(file, << step, count >>, rows), << step, count + 1 >>, << >>)
  BY DEF SplitFile
<1>4. chunk \in Seq(Row)
  <2>1. next + 1 \in 1 .. Len(source) + 1 /\ next + MaxLineCount \in 0 .. Len(source)
    BY <1>1, <1>2 DEF Basics
  <2>2. QED
    BY <1>1, <2>1 DEF Basics
<1>5. rows \in Seq(Row) /\ << >> \in Seq(Row)
  <2> HIDE DEF chunk
  <2>1. rows \in Seq(Row)
    BY <1>4, SortsType
  <2>2. QED
    BY <2>1
<1> DEFINE f == With(file, << step, count >>, rows)
<1>6. IsFiles(f) /\ IsFiniteSet(DOMAIN f) /\ MergesTyped(merges, f) /\ DOMAIN file \subseteq DOMAIN f
  <2> HIDE DEF f
  <2>1. f = With(file, << step, count >>, rows)
    BY DEF f
  <2>2. QED
    BY <1>1, <1>5, <2>1, WriteInStep
<1>7. /\ IsFiles(file') /\ IsFiniteSet(DOMAIN file') /\ MergesTyped(merges, file')
      /\ DOMAIN file \subseteq DOMAIN file'
  <2> HIDE DEF f
  <2>1. file' = With(f, << step, count + 1 >>, << >>)
    BY <1>3 DEF f
  <2>2. /\ IsFiles(file') /\ IsFiniteSet(DOMAIN file') /\ MergesTyped(merges, file')
        /\ DOMAIN file' = DOMAIN f \union {<< step, count + 1 >>}
    BY <1>1, <1>5, <1>6, <2>1, WriteInStep
  <2>3. QED
    BY <1>6, <2>2
<1>8. todo' \in Seq(DOMAIN file')
  BY <1>2 DEF IInv, Places
<1>9. next' \in 0 .. Len(source')
  BY <1>1, <1>2 DEF Basics
<1>10. Basics'
  BY <1>1, <1>2, <1>7, <1>8, <1>9 DEF Basics
<1>11. Places'
  BY <1>2, <1>7 DEF IInv, Places, Merging
<1>12. QED
  BY <1>2, <1>7, <1>10, <1>11, PartsType DEF IInv

LEMMA SplitRest_IInv ==
  ASSUME IInv, SplitRest
  PROVE  IInv'
<1>1. /\ Basics /\ MergesTyped(merges, file) /\ count \in Nat
      /\ IsFiles(file) /\ IsFiniteSet(DOMAIN file)
  BY TypeParts DEF IInv, Basics
<1>2. /\ UNCHANGED << source, step, count, todo, merges, output, fresh, spent >>
      /\ next' = Len(source) /\ pc = "split" /\ pc' = "list"
      /\ file' = With(file, << step, count >>, SubSeq(source, next + 1, Len(source)))
  BY DEF SplitRest
<1>3. SubSeq(source, next + 1, Len(source)) \in Seq(Row)
  <2>1. next + 1 \in 1 .. Len(source) + 1 /\ source \in Seq(Row)
    BY <1>1 DEF Basics
  <2>2. QED
    BY <2>1
<1>4. /\ IsFiles(file') /\ IsFiniteSet(DOMAIN file') /\ MergesTyped(merges, file')
      /\ DOMAIN file \subseteq DOMAIN file'
  <2> DEFINE rest == SubSeq(source, next + 1, Len(source))
  <2> HIDE DEF rest
  <2>1. rest \in Seq(Row) /\ file' = With(file, << step, count >>, rest)
    BY <1>2, <1>3 DEF rest
  <2>2. /\ IsFiles(With(file, << step, count >>, rest))
        /\ IsFiniteSet(DOMAIN With(file, << step, count >>, rest))
        /\ MergesTyped(merges, With(file, << step, count >>, rest))
        /\ DOMAIN With(file, << step, count >>, rest) = DOMAIN file \union {<< step, count >>}
    BY <1>1, <2>1, WriteInStep
  <2>3. QED
    BY <2>1, <2>2
<1>5. todo' \in Seq(DOMAIN file') /\ next' \in 0 .. Len(source')
  BY <1>1, <1>2 DEF IInv, Places, Basics
<1>6. Basics'
  BY <1>1, <1>2, <1>4, <1>5 DEF Basics
<1>7. Places'
  BY <1>2, <1>4 DEF IInv, Places, Merging
<1>8. QED
  BY <1>2, <1>4, <1>6, <1>7, PartsType DEF IInv

LEMMA CopyOdd_IInv ==
  ASSUME IInv, CopyOdd \/ CopyFails
  PROVE  IInv'
<1>1. /\ Basics /\ MergesTyped(merges, file) /\ count + 1 \in Nat
      /\ IsFiles(file) /\ IsFiniteSet(DOMAIN file)
  BY TypeParts DEF IInv, Basics
<1>2. /\ UNCHANGED << source, next, step, merges, output, fresh >>
      /\ count' = count + 1 /\ todo' = << >> /\ pc = "pair" /\ pc' \in {"pair", "idle"}
      /\ SpentType'
  BY <1>1, FaultSpent DEF CopyOdd, CopyFails, Basics, SpentType
<1>3. file[todo[1]] \in Seq(Row)
  <2>1. todo[1] \in DOMAIN file
    BY <1>1 DEF Basics, CopyOdd, CopyFails
  <2>2. QED
    BY <1>1, <2>1 DEF Basics, IsFiles
<1>4. PICK rows \in Seq(Row) : file' = With(file, << step, count + 1 >>, rows)
  <2>1. CASE CopyOdd
    BY <1>3, <2>1 DEF CopyOdd
  <2>2. CASE CopyFails
    <3>1. PICK n \in 0 .. Len(file[todo[1]]) :
             file' = With(file, << step, count + 1 >>, SubSeq(file[todo[1]], 1, n))
      BY <2>2 DEF CopyFails
    <3>2. SubSeq(file[todo[1]], 1, n) \in Seq(Row)
      BY <1>3
    <3>3. QED
      BY <3>1, <3>2
  <2>3. QED
    BY <2>1, <2>2
<1>5. /\ IsFiles(file') /\ IsFiniteSet(DOMAIN file') /\ MergesTyped(merges, file')
      /\ DOMAIN file \subseteq DOMAIN file'
  <2>1. /\ IsFiles(With(file, << step, count + 1 >>, rows))
        /\ IsFiniteSet(DOMAIN With(file, << step, count + 1 >>, rows))
        /\ MergesTyped(merges, With(file, << step, count + 1 >>, rows))
        /\ DOMAIN With(file, << step, count + 1 >>, rows)
             = DOMAIN file \union {<< step, count + 1 >>}
    BY <1>1, WriteInStep
  <2>2. QED
    BY <1>4, <2>1
<1>6. Basics'
  BY <1>1, <1>2, <1>5 DEF Basics, SpentType
<1>7. Places'
  BY <1>2, <1>5 DEF IInv, Places, Merging
<1>8. QED
  BY <1>2, <1>5, <1>6, <1>7, PartsType DEF IInv

(***************************************************************************)
(* What changeNextDir keeps: the merges still running, one directory       *)
(* further behind.                                                         *)
(***************************************************************************)
LEMMA NextDir ==
  ASSUME IInv, pc = "list", merges' = StillMerging
  PROVE  /\ MergesTyped(merges', file)
         /\ DOMAIN merges' \subseteq DOMAIN merges
         /\ \A p \in DOMAIN merges' :
              /\ merges'[p] = merges[p] /\ Merging(p) /\ p \in Path /\ p[1] < step
<1>1. MergesTyped(merges, file)
  BY TypeParts DEF IInv
<1>2. QED
  BY <1>1, StillTyped DEF IInv, Places, MergesTyped

LEMMA NextPass_IInv ==
  ASSUME IInv, NextPass
  PROVE  IInv'
<1>1. Basics /\ step \in Nat
  BY TypeParts DEF IInv, Basics
<1>2. /\ UNCHANGED << source, next, file, output, fresh, spent >>
      /\ step' = step + 1 /\ count' = 0 /\ pc = "list" /\ pc' = "pair" /\ merges' = StillMerging
  BY DEF NextPass
<1>3. PICK order \in Orders(Listed(step)) : todo' = order
  BY DEF NextPass
<1>4. /\ MergesTyped(merges', file)
      /\ DOMAIN merges' \subseteq DOMAIN merges
      /\ \A p \in DOMAIN merges' : merges'[p] = merges[p] /\ Merging(p) /\ p \in Path /\ p[1] < step
  BY <1>2, NextDir
<1>5. todo' \in Seq(DOMAIN file) /\ \A k \in DOMAIN todo' : todo'[k][1] = step
  <2>1. IsFiniteSet(Listed(step)) /\ Listed(step) \subseteq DOMAIN file
    BY <1>1, FS_Subset DEF Basics, Listed
  <2>2. Cardinality(Listed(step)) \in Nat
    BY <2>1, FS_CardinalityType
  <2>3. todo' \in [1 .. Cardinality(Listed(step)) -> Listed(step)]
    BY <1>3 DEF Orders
  <2>4. \A k \in DOMAIN todo' : todo'[k][1] = step
    BY <2>3 DEF Listed
  <2>5. todo' \in [1 .. Cardinality(Listed(step)) -> DOMAIN file]
    BY <2>1, <2>3
  <2>6. QED
    BY <2>2, <2>4, <2>5
<1>6. Basics'
  BY <1>1, <1>2, <1>5 DEF Basics
<1>7. Places'
  <2>1. \A p \in DOMAIN merges' : p[1] \in Nat /\ p[1] < step
    BY <1>4 DEF Path
  <2>2. QED
    BY <1>1, <1>2, <1>4, <1>5, <2>1 DEF IInv, Places, Merging
<1>8. QED
  BY <1>2, <1>4, <1>6, <1>7, PartsType DEF IInv

LEMMA Finish_IInv ==
  ASSUME IInv, Finish
  PROVE  IInv'
<1>1. Basics /\ step \in Nat
  BY TypeParts DEF IInv, Basics
<1>2. /\ UNCHANGED << source, next, todo, fresh, spent >>
      /\ step' = step + 1 /\ count' = 0 /\ pc = "list" /\ pc' = "done" /\ merges' = StillMerging
  BY DEF Finish
<1>3. PICK p \in Listed(step) : output' = file[p] /\ file' = Without(file, p)
  BY DEF Finish
<1>4. /\ MergesTyped(merges', file)
      /\ DOMAIN merges' \subseteq DOMAIN merges
      /\ \A q \in DOMAIN merges' : merges'[q] = merges[q] /\ Merging(q) /\ q \in Path /\ q[1] < step
  BY <1>2, NextDir
<1>5. /\ DOMAIN file' = DOMAIN file \ {p}
      /\ \A q \in DOMAIN file' : file'[q] = file[q]
      /\ IsFiles(file') /\ IsFiniteSet(DOMAIN file') /\ output' \in Seq(Row) /\ p[1] = step
  <2>1. DOMAIN file' = DOMAIN file \ {p} /\ \A q \in DOMAIN file' : file'[q] = file[q]
    BY <1>3 DEF Without
  <2>2. IsFiniteSet(DOMAIN file \ {p})
    BY <1>1, FS_Subset DEF Basics
  <2>3. QED
    BY <1>1, <1>3, <2>1, <2>2 DEF Basics, IsFiles, Listed
<1>6. MergesTyped(merges', file')
  <2>1. \A q \in DOMAIN merges' : merges'[q].first # p /\ merges'[q].second # p
    BY <1>1, <1>4, <1>5 DEF IInv, Places, Path
  <2>2. QED
    BY <1>4, <1>5, <2>1 DEF MergesTyped, MergeTyped
<1>7. Basics'
  <2>1. todo' \in Seq(DOMAIN file')
    BY <1>2 DEF IInv, Places
  <2>2. QED
    BY <1>1, <1>2, <1>5, <2>1 DEF Basics
<1>8. Places'
  <2>1. \A q \in DOMAIN merges' : merges'[q].state = "running" => q \in DOMAIN file'
    BY <1>1, <1>4, <1>5 DEF IInv, Places, Path
  <2>2. QED
    BY <1>1, <1>2, <1>4, <2>1 DEF IInv, Places, Merging, Path
<1>9. QED
  BY <1>6, <1>7, <1>8, PartsType DEF IInv

LEMMA RenameFails_IInv ==
  ASSUME IInv, RenameFails
  PROVE  IInv'
<1>1. Basics /\ step \in Nat
  BY TypeParts DEF IInv, Basics
<1>2. /\ UNCHANGED << source, next, file, todo, output, fresh >>
      /\ step' = step + 1 /\ count' = 0 /\ pc = "list" /\ pc' = "idle" /\ merges' = StillMerging
      /\ SpentType'
  BY <1>1, FaultSpent DEF RenameFails, Basics, SpentType
<1>3. /\ MergesTyped(merges', file)
      /\ DOMAIN merges' \subseteq DOMAIN merges
      /\ \A q \in DOMAIN merges' : merges'[q] = merges[q] /\ Merging(q) /\ q \in Path /\ q[1] < step
  BY <1>2, NextDir
<1>4. Basics'
  BY <1>1, <1>2 DEF Basics, SpentType
<1>5. Places'
  BY <1>1, <1>2, <1>3 DEF IInv, Places, Merging, Path
<1>6. QED
  BY <1>2, <1>3, <1>4, <1>5, PartsType DEF IInv

LEMMA TwoLess ==
  ASSUME NEW S, NEW s \in Seq(S), Len(s) >= 2
  PROVE  /\ Tail(Tail(s)) \in Seq(S) /\ Len(Tail(Tail(s))) = Len(s) - 2
         /\ \A k \in 1 .. Len(s) - 2 : k + 2 \in DOMAIN s /\ Tail(Tail(s))[k] = s[k + 2]
<1> DEFINE rest == Tail(s)
<1>1. /\ rest \in Seq(S) /\ Len(rest) = Len(s) - 1 /\ Len(s) \in Nat /\ DOMAIN s = 1 .. Len(s)
      /\ \A k \in 1 .. Len(rest) : rest[k] = s[k + 1]
  OBVIOUS
<1>2. rest = Tail(s)
  OBVIOUS
<1> HIDE DEF rest
<1>3. /\ Tail(rest) \in Seq(S) /\ Len(Tail(rest)) = Len(rest) - 1
      /\ \A k \in 1 .. Len(Tail(rest)) : Tail(rest)[k] = rest[k + 1]
  BY <1>1
<1>4. ASSUME NEW k \in 1 .. Len(s) - 2
      PROVE  k + 2 \in DOMAIN s /\ Tail(rest)[k] = s[k + 2]
  <2>1. k \in 1 .. Len(Tail(rest)) /\ k + 1 \in 1 .. Len(rest) /\ (k + 1) + 1 = k + 2
    BY <1>1, <1>3
  <2>2. Tail(rest)[k] = rest[k + 1] /\ rest[k + 1] = s[(k + 1) + 1]
    BY <1>1, <1>3, <2>1
  <2>3. QED
    BY <1>1, <2>1, <2>2
<1>5. QED
  BY <1>1, <1>2, <1>3, <1>4

LEMMA Pair_IInv ==
  ASSUME IInv, Pair
  PROVE  IInv'
<1> DEFINE p == << step, count + 1 >>
           m == Merge(todo[1], todo[2])
<1>1. /\ Basics /\ MergesTyped(merges, file) /\ step \in Nat /\ count + 1 \in Nat /\ p \in Path
  BY TypeParts DEF IInv, Basics, Path
<1>2. /\ UNCHANGED << source, next, file, step, pc, output, fresh, spent >>
      /\ count' = count + 1 /\ pc = "pair" /\ Len(todo) >= 2
      /\ todo' = Tail(Tail(todo)) /\ todo \in Seq(DOMAIN file)
  BY <1>1 DEF Pair, Basics
<1>3. /\ DOMAIN merges' = DOMAIN merges \union {p}
      /\ merges'[p] = m
      /\ \A q \in DOMAIN merges : q # p => merges'[q] = merges[q]
  BY DEF Pair, With
<1>4. /\ todo[1] \in DOMAIN file /\ todo[2] \in DOMAIN file
      /\ todo[1][1] = step - 1 /\ todo[2][1] = step - 1
  BY <1>2 DEF IInv, Places
<1>5. MergeTyped(m, file)
  <2>1. todo[1] \in Path /\ todo[2] \in Path /\ file[todo[1]] \in Seq(Row) /\ file[todo[2]] \in Seq(Row)
    BY <1>1, <1>4 DEF Basics, IsFiles
  <2>2. CommitInterval \in Nat \ {0} /\ << >> \in Seq(Row) /\ Len(<< >>) = 0
    BY MergeSortAssumption
  <2>3. m \in MergeRecord
    BY <2>1, <2>2 DEF Merge, MergeRecord
  <2>4. QED
    BY <1>4, <2>1, <2>2, <2>3 DEF MergeTyped, Merge
<1>6. MergesTyped(merges', file')
  BY <1>1, <1>2, <1>3, <1>5 DEF MergesTyped
<1>7. /\ todo' \in Seq(DOMAIN file)
      /\ \A k \in DOMAIN todo' : k + 2 \in DOMAIN todo /\ todo'[k] = todo[k + 2]
  <2>1. /\ todo' \in Seq(DOMAIN file) /\ Len(todo') = Len(todo) - 2
        /\ \A k \in 1 .. Len(todo) - 2 : k + 2 \in DOMAIN todo /\ todo'[k] = todo[k + 2]
    BY <1>2, TwoLess
  <2>2. DOMAIN todo' = 1 .. Len(todo) - 2
    BY <2>1
  <2>3. QED
    BY <2>1, <2>2
<1>8. Basics'
  BY <1>1, <1>2, <1>7 DEF Basics
<1>9. Places'
  <2>1. \A k \in DOMAIN todo' : todo'[k][1] = step' - 1
    BY <1>2, <1>7 DEF IInv, Places
  <2>2. /\ p[1] = step /\ m.first[1] = step - 1 /\ m.second[1] = step - 1 /\ m.state = "queued"
    BY <1>4 DEF Merge
  <2>3. \A q \in DOMAIN merges' :
          /\ q[1] <= step' /\ q[1] \in Nat
          /\ merges'[q].first[1] = q[1] - 1 /\ merges'[q].second[1] = q[1] - 1
          /\ merges'[q].state = "running" => q \in DOMAIN file'
    <3> HIDE DEF m
    <3>1. ASSUME NEW q \in DOMAIN merges, q # p
          PROVE  /\ q[1] <= step' /\ q[1] \in Nat
                 /\ merges'[q].first[1] = q[1] - 1 /\ merges'[q].second[1] = q[1] - 1
                 /\ merges'[q].state = "running" => q \in DOMAIN file'
      <4>1. q[1] \in Nat /\ merges'[q] = merges[q]
        BY <1>1, <1>3, <3>1 DEF MergesTyped, Path
      <4>2. QED
        BY <1>2, <4>1 DEF IInv, Places
    <3>2. /\ p[1] <= step' /\ p[1] \in Nat
          /\ merges'[p].first[1] = p[1] - 1 /\ merges'[p].second[1] = p[1] - 1
          /\ merges'[p].state # "running"
      BY <1>1, <1>2, <1>3, <2>2
    <3> HIDE DEF p
    <3>3. QED
      BY <1>3, <3>1, <3>2
  <2>4. \A q \in DOMAIN merges' :
          merges'[q].state \in {"queued", "running"} => q[1] = step \/ q[1] < step - 1
    <3> HIDE DEF m
    <3>1. QED
      BY <1>2, <1>3, <2>2 DEF IInv, Places, Merging
  <2>5. \A q \in DOMAIN merges' :
          merges'[q].state \in {"queued", "running"} => \A r \in DOMAIN merges' : r[1] # q[1] + 1
    <3> HIDE DEF m
    <3>1. QED
      BY <1>1, <1>2, <1>3, <2>2, <2>3, <2>4 DEF IInv, Places, Merging
  <2>6. QED
    BY <1>2, <2>1, <2>3, <2>4, <2>5 DEF Places, Merging
<1>10. QED
  BY <1>6, <1>8, <1>9, PartsType DEF IInv

LEMMA SorterStops_IInv ==
  ASSUME IInv, PassEnds \/ PassFails \/ SplitFails
  PROVE  IInv'
<1>1. Basics /\ MergesTyped(merges, file)
  BY TypeParts DEF IInv
<1>2. /\ UNCHANGED << source, next, file, step, count, todo, merges, output, fresh >>
      /\ pc' \in {"list", "idle"} /\ SpentType' /\ todo = << >>
  BY <1>1, FaultSpent DEF PassEnds, PassFails, SplitFails, SpentType, Basics, IInv, Places
<1>3. Basics'
  BY <1>1, <1>2 DEF Basics, SpentType
<1>4. pc' = "list" => \A p \in DOMAIN merges : Merging(p) => p[1] < step
  <2>1. ASSUME pc' = "list", NEW p \in DOMAIN merges, Merging(p)
        PROVE  p[1] < step
    <3>1. pc = "pair" /\ (p[1] = step => merges[p].state = "done")
      BY <2>1 DEF PassEnds, PassFails, SplitFails, Mine
    <3>2. p[1] \in Nat /\ p[1] <= step /\ step \in Nat
      BY <1>1 DEF IInv, Places, MergesTyped, Path, Basics
    <3>3. QED
      BY <2>1, <3>1, <3>2 DEF Merging
  <2>2. QED
    BY <2>1
<1>5. Places'
  BY <1>2, <1>4 DEF IInv, Places, Merging
<1>6. QED
  BY <1>1, <1>2, <1>3, <1>5, PartsType DEF IInv

-----------------------------------------------------------------------------
(***************************************************************************)
(* The steps of a merge: it writes its own file, which nobody reads.       *)
(***************************************************************************)
LEMMA MergeStep ==
  ASSUME IInv, NEW p \in DOMAIN merges, Merging(p),
         UNCHANGED << source, next, step, count, pc, todo, output, fresh >>, SpentType',
         DOMAIN merges' = DOMAIN merges,
         \A q \in DOMAIN merges : q # p => merges'[q] = merges[q],
         merges'[p].first = merges[p].first, merges'[p].second = merges[p].second,
         MergeTyped(merges'[p], file),
         file' = file \/ \E rows \in Seq(Row) : file' = With(file, p, rows),
         merges'[p].state = "running" => p \in DOMAIN file'
  PROVE  IInv'
<1>1. Basics /\ MergesTyped(merges, file) /\ p \in Path /\ IsFiles(file) /\ IsFiniteSet(DOMAIN file)
  BY TypeParts DEF IInv, Basics, MergesTyped
<1>2. \A q \in DOMAIN merges : merges[q].first # p /\ merges[q].second # p
  BY <1>1 DEF IInv, Places, MergesTyped, Path
<1>3. MergesTyped(merges', file)
  BY <1>1 DEF MergesTyped
<1>4. \A q \in DOMAIN merges' : merges'[q].first # p /\ merges'[q].second # p
  BY <1>2
<1>5. /\ IsFiles(file') /\ IsFiniteSet(DOMAIN file') /\ MergesTyped(merges', file')
      /\ DOMAIN file \subseteq DOMAIN file'
  <2>1. CASE file' = file
    BY <1>1, <1>3, <2>1
  <2>2. ASSUME NEW rows \in Seq(Row), file' = With(file, p, rows)
        PROVE  /\ IsFiles(file') /\ IsFiniteSet(DOMAIN file') /\ MergesTyped(merges', file')
               /\ DOMAIN file \subseteq DOMAIN file'
    <3>1. /\ IsFiles(With(file, p, rows)) /\ IsFiniteSet(DOMAIN With(file, p, rows))
          /\ DOMAIN With(file, p, rows) = DOMAIN file \union {p}
      BY <1>1, WithFiles
    <3>2. MergesTyped(merges', With(file, p, rows))
      BY <1>1, <1>3, <1>4, WithTyped
    <3>3. QED
      BY <2>2, <3>1, <3>2
  <2>3. QED
    BY <2>1, <2>2
<1>6. todo' \in Seq(DOMAIN file')
  BY <1>1, <1>5 DEF Basics
<1>7. Basics'
  BY <1>1, <1>5, <1>6 DEF Basics, SpentType
<1>8. Places'
  BY <1>1, <1>5 DEF IInv, Places, Merging
<1>9. QED
  BY <1>5, <1>7, <1>8, PartsType DEF IInv

(***************************************************************************)
(* What is known of a merge before its step.                               *)
(***************************************************************************)
LEMMA MergeKnown ==
  ASSUME IInv, NEW p \in DOMAIN merges
  PROVE  /\ p \in Path /\ MergeTyped(merges[p], file) /\ SpentType
         /\ merges[p] \in MergeRecord /\ merges[p].first \in DOMAIN file
         /\ merges[p].second \in DOMAIN file
         /\ file[merges[p].first] \in Seq(Row) /\ file[merges[p].second] \in Seq(Row)
         /\ merges[p].i \in 0 .. Len(file[merges[p].first])
         /\ merges[p].j \in 0 .. Len(file[merges[p].second])
         /\ merges[p].list \in Seq(Row) /\ Len(merges[p].list) < CommitInterval
         /\ merges[p].state = "running" => p \in DOMAIN file /\ file[p] \in Seq(Row)
         /\ CommitInterval \in Nat \ {0} /\ Len(<< >>) = 0 /\ << >> \in Seq(Row)
<1>1. Basics /\ MergesTyped(merges, file)
  BY TypeParts DEF IInv
<1>2. /\ p \in Path /\ MergeTyped(merges[p], file) /\ SpentType
      /\ merges[p].state = "running" => p \in DOMAIN file
  BY <1>1 DEF MergesTyped, Basics, SpentType, IInv, Places
<1>3. merges[p] \in MergeRecord /\ merges[p].first \in DOMAIN file /\ merges[p].second \in DOMAIN file
  BY <1>2 DEF MergeTyped
<1>4. \A q \in DOMAIN file : file[q] \in Seq(Row)
  BY <1>1 DEF Basics, IsFiles
<1>5. /\ merges[p].i \in Nat /\ merges[p].j \in Nat /\ merges[p].list \in Seq(Row)
      /\ merges[p].i <= Len(file[merges[p].first]) /\ merges[p].j <= Len(file[merges[p].second])
      /\ Len(merges[p].list) < CommitInterval
  BY <1>2, <1>3 DEF MergeTyped, MergeRecord
<1>6. CommitInterval \in Nat \ {0} /\ Len(<< >>) = 0 /\ << >> \in Seq(Row)
  BY MergeSortAssumption
<1>7. QED
  BY <1>2, <1>3, <1>4, <1>5, <1>6

LEMMA Read2FileAndMerge_IInv ==
  ASSUME IInv, NEW p \in DOMAIN merges, Read2FileAndMerge(p)
  PROVE  IInv'
<1>1. /\ p \in Path /\ MergeTyped(merges[p], file) /\ SpentType
      /\ merges[p] \in MergeRecord
      /\ file[merges[p].first] \in Seq(Row) /\ file[merges[p].second] \in Seq(Row)
      /\ merges[p].i \in 0 .. Len(file[merges[p].first])
      /\ merges[p].j \in 0 .. Len(file[merges[p].second])
      /\ merges[p].list \in Seq(Row) /\ Len(merges[p].list) < CommitInterval
      /\ merges[p].state = "running" => p \in DOMAIN file /\ file[p] \in Seq(Row)
      /\ CommitInterval \in Nat \ {0} /\ Len(<< >>) = 0 /\ << >> \in Seq(Row)
  BY MergeKnown
<1>2. UNCHANGED << source, next, step, count, pc, todo, output, fresh >> /\ SpentType'
  BY <1>1, FaultSpent DEF Read2FileAndMerge, SpentType
<1>3. CASE Open(p)
  <2>1. Merging(p) /\ file' = With(file, p, << >>)
        /\ merges' = [merges EXCEPT ![p].state = "running"]
    BY <1>3 DEF Open, Merging
  <2>2. /\ DOMAIN merges' = DOMAIN merges
        /\ \A q \in DOMAIN merges : q # p => merges'[q] = merges[q]
        /\ merges'[p] = [merges[p] EXCEPT !.state = "running"]
    BY <2>1
  <2>3. MergeTyped(merges'[p], file)
    BY <1>1, <2>2 DEF MergeTyped, MergeRecord
  <2>4. merges'[p].first = merges[p].first /\ merges'[p].second = merges[p].second
    BY <1>1, <2>2 DEF MergeRecord
  <2>5. p \in DOMAIN file'
    BY <2>1 DEF With
  <2>6. QED
    BY <1>1, <1>2, <2>1, <2>2, <2>3, <2>4, <2>5, MergeStep
<1>4. CASE End(p)
  <2>1. /\ merges[p].state = "running" /\ file' = With(file, p, file[p] \o merges[p].list)
        /\ merges' = [merges EXCEPT ![p].state = "done", ![p].list = << >>]
    BY <1>4 DEF End
  <2>2. /\ DOMAIN merges' = DOMAIN merges
        /\ \A q \in DOMAIN merges : q # p => merges'[q] = merges[q]
        /\ merges'[p] = [merges[p] EXCEPT !.state = "done", !.list = << >>]
    BY <2>1
  <2>3. /\ merges'[p] \in MergeRecord
        /\ merges'[p].first = merges[p].first /\ merges'[p].second = merges[p].second
        /\ merges'[p].i = merges[p].i /\ merges'[p].j = merges[p].j
        /\ merges'[p].list = << >> /\ merges'[p].state = "done"
    BY <1>1, <2>2 DEF MergeRecord
  <2>4. MergeTyped(merges'[p], file)
    BY <1>1, <2>3 DEF MergeTyped
  <2>5. file[p] \o merges[p].list \in Seq(Row) /\ Merging(p)
    BY <1>1, <2>1 DEF Merging
  <2>6. QED
    BY <1>1, <1>2, <2>1, <2>2, <2>3, <2>4, <2>5, MergeStep
<1>5. CASE Fail(p)
  <2>1. /\ Merging(p) /\ file' = file
        /\ merges' = [merges EXCEPT ![p].state = "failed", ![p].list = << >>]
    BY <1>5 DEF Fail
  <2>2. /\ DOMAIN merges' = DOMAIN merges
        /\ \A q \in DOMAIN merges : q # p => merges'[q] = merges[q]
        /\ merges'[p] = [merges[p] EXCEPT !.state = "failed", !.list = << >>]
    BY <2>1
  <2>3. /\ merges'[p] \in MergeRecord
        /\ merges'[p].first = merges[p].first /\ merges'[p].second = merges[p].second
        /\ merges'[p].i = merges[p].i /\ merges'[p].j = merges[p].j
        /\ merges'[p].list = << >> /\ merges'[p].state = "failed"
    BY <1>1, <2>2 DEF MergeRecord
  <2>4. MergeTyped(merges'[p], file)
    BY <1>1, <2>3 DEF MergeTyped
  <2>5. QED
    BY <1>1, <1>2, <2>1, <2>2, <2>3, <2>4, MergeStep
<1>6. CASE Take(p)
  <2> DEFINE m == merges[p]
             row == IF Win(m) THEN file[m.first][m.i + 1] ELSE file[m.second][m.j + 1]
             list == Append(m.list, row)
             commit == Len(list) >= CommitInterval
             i == IF Win(m) THEN m.i + 1 ELSE m.i
             j == IF Win(m) THEN m.j ELSE m.j + 1
             rest == IF commit THEN << >> ELSE list
  <2>1. /\ m.state = "running" /\ (FirstLeft(m) \/ SecondLeft(m))
        /\ merges' = [merges EXCEPT ![p].i = i, ![p].j = j, ![p].list = rest]
        /\ file' = IF commit THEN With(file, p, file[p] \o list) ELSE file
    BY <1>6 DEF Take
  <2>2. /\ row \in Row /\ i \in Nat /\ j \in Nat
        /\ i <= Len(file[m.first]) /\ j <= Len(file[m.second])
    <3>1. CASE Win(m)
      <4>1. m.i < Len(file[m.first]) /\ m.i + 1 \in 1 .. Len(file[m.first])
        BY <1>1, <3>1 DEF Win, FirstLeft
      <4>2. QED
        BY <1>1, <3>1, <4>1
    <3>2. CASE ~Win(m)
      <4>1. m.j < Len(file[m.second])
        BY <2>1, <3>2 DEF Win, FirstLeft, SecondLeft
      <4>2. m.j + 1 \in 1 .. Len(file[m.second])
        BY <1>1, <4>1
      <4>3. QED
        BY <1>1, <3>2, <4>2
    <3>3. QED
      BY <3>1, <3>2
  <2>3. list \in Seq(Row)
    BY <1>1, <2>2
  <2>4. /\ rest \in Seq(Row) /\ Len(rest) < CommitInterval
    BY <1>1, <2>3
  <2> HIDE DEF i, j, rest, list, row
  <2>5. /\ DOMAIN merges' = DOMAIN merges
        /\ \A q \in DOMAIN merges : q # p => merges'[q] = merges[q]
        /\ merges'[p] = [m EXCEPT !.i = i, !.j = j, !.list = rest]
    BY <2>1
  <2>6. /\ merges'[p] \in MergeRecord
        /\ merges'[p].first = m.first /\ merges'[p].second = m.second
        /\ merges'[p].i = i /\ merges'[p].j = j /\ merges'[p].list = rest
    BY <1>1, <2>2, <2>4, <2>5 DEF MergeRecord
  <2>7. MergeTyped(merges'[p], file)
    BY <1>1, <2>2, <2>4, <2>6 DEF MergeTyped
  <2>8. Merging(p) /\ p \in DOMAIN file' /\ file[p] \o list \in Seq(Row)
    BY <1>1, <2>1, <2>3 DEF Merging, With
  <2>9. file' = file \/ \E rows \in Seq(Row) : file' = With(file, p, rows)
    BY <2>1, <2>8
  <2>10. QED
    BY <1>2, <2>5, <2>6, <2>7, <2>8, <2>9, MergeStep
<1>7. QED
  BY <1>3, <1>4, <1>5, <1>6 DEF Read2FileAndMerge

LEMMA Kill_IInv ==
  ASSUME IInv, Kill
  PROVE  IInv'
<1>1. Basics /\ SpentType
  BY TypeParts DEF IInv, Basics, SpentType
<1>2. /\ UNCHANGED << file, output, fresh >> /\ SpentType'
      /\ source' = << >> /\ next' = 0 /\ step' = 0 /\ count' = 0 /\ pc' = "idle"
      /\ todo' = << >> /\ merges' = << >>
  BY <1>1, FaultSpent DEF Kill
<1>3. DOMAIN merges' = {} /\ source' \in Seq(Row) /\ Len(source') = 0
  BY <1>2
<1>4. Basics'
  BY <1>1, <1>2, <1>3 DEF Basics, SpentType
<1>5. Places' /\ MergesTyped(merges', file')
  BY <1>2, <1>3 DEF Places, MergesTyped
<1>6. QED
  BY <1>4, <1>5, PartsType DEF IInv

-----------------------------------------------------------------------------
LEMMA IInv_Next ==
  ASSUME IInv, [Next]_vars
  PROVE  IInv'
<1>1. ASSUME Sorter
      PROVE  IInv'
  BY <1>1, StartSort_IInv, SplitFile_IInv, SplitRest_IInv, NextPass_IInv, Finish_IInv, Pair_IInv,
     CopyOdd_IInv, SorterStops_IInv, RenameFails_IInv DEF Sorter
<1>2. ASSUME UNCHANGED vars
      PROVE  IInv'
  BY <1>2 DEF vars, IInv, TypeOK, Places, Merging, IsFiles
<1>3. QED
  BY <1>1, <1>2, Read2FileAndMerge_IInv, Kill_IInv DEF Next

(***************************************************************************)
(* Every variable of the sort keeps its type; the positions of a merge     *)
(* stay within the files it reads, whatever runs beside it.                *)
(* (MergeSortor)                                                           *)
(***************************************************************************)
THEOREM TypeCorrect == Spec => []TypeOK
<1>1. IInv => TypeOK
  BY DEF IInv
<1>2. QED
  BY <1>1, Init_IInv, IInv_Next, PTL DEF Spec

(***************************************************************************)
(* No merge reads a file that somebody writes, for every input, every      *)
(* number of files, and whatever earlier calls of sort() left running.     *)
(* (MergeSortor.changeNextDir, getNextFile)                                *)
(***************************************************************************)
THEOREM ReadersAreAlone == Spec => []NoReadOfUnwritten
  BY PlacesSeparate, Init_IInv, IInv_Next, PTL DEF Spec

-----------------------------------------------------------------------------
(***************************************************************************)
(* What a pass knows of its files and merges: no file is handed out twice, *)
(* a finished merge has read its files to the end.                         *)
(***************************************************************************)
Feeds(p) == {merges[p].first, merges[p].second}

Handed(p) ==
  /\ p[2] \in 1 .. count
  /\ merges[p].first # merges[p].second
  /\ Feeds(p) \intersect RangeOf(todo) = {}
  /\ merges[p].state = "queued" =>
       merges[p].i = 0 /\ merges[p].j = 0 /\ merges[p].list = << >>
  /\ merges[p].state = "done" =>
       p \in DOMAIN file /\ ~FirstLeft(merges[p]) /\ ~SecondLeft(merges[p])

Paired ==
  /\ pc = "split" => Mine = {}
  /\ pc = "list" => \A p \in Mine : merges[p].state = "done" /\ p \in DOMAIN file
  /\ pc = "pair" =>
       /\ \A k, l \in DOMAIN todo : todo[k] = todo[l] => k = l
       /\ \A p \in DOMAIN merges : p[1] = step \/ p[1] < step - 1
       /\ \A p \in Mine : Handed(p)
       /\ \A p, q \in Mine : p # q => Feeds(p) \intersect Feeds(q) = {}

(***************************************************************************)
(* Nothing lies beyond the directory of a call that found its directories  *)
(* empty, and a pass has as many files as it has begun to write.           *)
(***************************************************************************)
Sorting == pc \in {"split", "list", "pair"}

Beyond == Sorting /\ fresh => \A p \in DOMAIN file : p[1] <= step

Counted ==
  pc = "pair" /\ fresh =>
    /\ Listed(step) \union Mine = { << step, k >> : k \in 1 .. count }
    /\ \/ Cardinality(Listed(step - 1)) = 2 * count + Len(todo)
       \/ todo = << >> /\ Cardinality(Listed(step - 1)) = 2 * count - 1

PassInv == IInv /\ Paired /\ Beyond /\ Counted

-----------------------------------------------------------------------------
(***************************************************************************)
(* What each step does to the files and the merges.                        *)
(***************************************************************************)
LEMMA BySort ==
  ASSUME IInv
  PROVE  /\ step \in Nat /\ count \in Nat /\ next \in 0 .. Len(source) /\ source \in Seq(Row)
         /\ \A p \in DOMAIN file : /\ p \in Path /\ p[1] \in Nat /\ p[2] \in Nat
                                   /\ p = << p[1], p[2] >> /\ file[p] \in Seq(Row)
         /\ \A p \in DOMAIN merges : /\ p \in Path /\ p[1] \in Nat /\ p[2] \in Nat
                                     /\ p = << p[1], p[2] >> /\ p[1] <= step
                                     /\ merges[p].first \in DOMAIN file
                                     /\ merges[p].second \in DOMAIN file
                                     /\ merges[p].first[1] = p[1] - 1 /\ merges[p].second[1] = p[1] - 1
         /\ todo \in Seq(DOMAIN file) /\ \A k \in DOMAIN todo : todo[k][1] = step - 1
<1>1. \A p \in Path : p[1] \in Nat /\ p[2] \in Nat /\ p = << p[1], p[2] >>
  BY DEF Path
<1>2. /\ step \in Nat /\ count \in Nat /\ next \in 0 .. Len(source) /\ source \in Seq(Row)
      /\ \A p \in DOMAIN file : p \in Path /\ file[p] \in Seq(Row)
      /\ todo \in Seq(DOMAIN file) /\ \A k \in DOMAIN todo : todo[k][1] = step - 1
  BY DEF IInv, TypeOK, Places, IsFiles
<1>3. \A p \in DOMAIN merges :
         /\ p \in Path /\ p[1] <= step
         /\ merges[p].first \in DOMAIN file /\ merges[p].second \in DOMAIN file
         /\ merges[p].first[1] = p[1] - 1 /\ merges[p].second[1] = p[1] - 1
  BY DEF IInv, TypeOK, Places
<1>4. QED
  BY <1>1, <1>2, <1>3

LEMMA StartSortDoes ==
  ASSUME IInv, NEW keys \in Inputs, StartSort(keys)
  PROVE  /\ step' = step + 1 /\ count' = 1 /\ pc' = "split" /\ next' = 0
         /\ DOMAIN file' = DOMAIN file \union {<< step + 1, 1 >>}
         /\ file'[<< step + 1, 1 >>] = << >>
         /\ \A q \in DOMAIN file : q # << step + 1, 1 >> => file'[q] = file[q]
         /\ Mine' = {}
         /\ fresh' => \A q \in DOMAIN file : q[1] <= step
<1>1. /\ step' = step + 1 /\ count' = 1 /\ pc' = "split" /\ next' = 0
      /\ file' = With(file, << step + 1, 1 >>, << >>) /\ merges' = StillMerging
      /\ fresh' => \A q \in DOMAIN file : q[1] <= step
  BY DEF StartSort
<1>2. Mine' = {}
  <2>1. \A q \in DOMAIN merges' : q \in DOMAIN merges
    BY <1>1 DEF StillMerging
  <2>2. \A q \in DOMAIN merges' : q[1] # step + 1
    BY <2>1, BySort
  <2>3. QED
    BY <1>1, <2>2 DEF Mine
<1>3. QED
  BY <1>1, <1>2 DEF With

LEMMA SplitFileDoes ==
  ASSUME IInv, SplitFile
  PROVE  /\ UNCHANGED << source, step, pc, todo, merges, output, fresh, spent >> /\ pc = "split"
         /\ count' = count + 1 /\ next' = next + MaxLineCount /\ next' <= Len(source)
         /\ DOMAIN file' = DOMAIN file \union {<< step, count >>, << step, count + 1 >>}
         /\ file'[<< step, count >>] \in SortsOf(SubSeq(source, next + 1, next + MaxLineCount))
         /\ file'[<< step, count + 1 >>] = << >>
         /\ \A q \in DOMAIN file :
              q # << step, count >> /\ q # << step, count + 1 >> => file'[q] = file[q]
<1>1. PICK rows \in SortsOf(SubSeq(source, next + 1, next + MaxLineCount)) :
         file' = With(With(file, << step, count >>, rows), << step, count + 1 >>, << >>)
  BY DEF SplitFile
<1> DEFINE f == With(file, << step, count >>, rows)
<1>2. /\ DOMAIN f = DOMAIN file \union {<< step, count >>} /\ f[<< step, count >>] = rows
      /\ \A q \in DOMAIN file : q # << step, count >> => f[q] = file[q]
  BY DEF With
<1>3. file' = With(f, << step, count + 1 >>, << >>)
  BY <1>1
<1> HIDE DEF f
<1>4. /\ DOMAIN file' = DOMAIN f \union {<< step, count + 1 >>} /\ file'[<< step, count + 1 >>] = << >>
      /\ \A q \in DOMAIN f : q # << step, count + 1 >> => file'[q] = f[q]
  BY <1>3 DEF With
<1>5. << step, count >> # << step, count + 1 >>
  BY BySort
<1>6. file'[<< step, count >>] = rows
  BY <1>2, <1>4, <1>5
<1>7. /\ UNCHANGED << source, step, pc, todo, merges, output, fresh, spent >> /\ pc = "split"
      /\ count' = count + 1 /\ next' = next + MaxLineCount /\ next' <= Len(source)
  BY DEF SplitFile
<1>8. QED
  BY <1>1, <1>2, <1>4, <1>6, <1>7

LEMMA SplitRestDoes ==
  ASSUME IInv, SplitRest
  PROVE  /\ UNCHANGED << source, step, count, todo, merges, output, fresh, spent >>
         /\ pc = "split" /\ pc' = "list" /\ next' = Len(source) /\ next + MaxLineCount > Len(source)
         /\ DOMAIN file' = DOMAIN file \union {<< step, count >>}
         /\ file'[<< step, count >>] = SubSeq(source, next + 1, Len(source))
         /\ \A q \in DOMAIN file : q # << step, count >> => file'[q] = file[q]
  BY DEF SplitRest, With

(***************************************************************************)
(* An order of a finite set lists each of its elements once.               *)
(***************************************************************************)
LEMMA OrdersOnce ==
  ASSUME NEW S, IsFiniteSet(S), NEW o \in Orders(S)
  PROVE  /\ o \in Seq(S) /\ Len(o) = Cardinality(S) /\ DOMAIN o = 1 .. Len(o) /\ RangeOf(o) = S
         /\ \A k, l \in DOMAIN o : o[k] = o[l] => k = l
<1> DEFINE n == Cardinality(S)
<1>1. n \in Nat
  BY FS_CardinalityType
<1>2. o \in [1 .. n -> S] /\ RangeOf(o) = S
  BY DEF Orders
<1>3. o \in Surjection(1 .. n, S)
  BY <1>2 DEF Surjection, RangeOf
<1>4. IsFiniteSet(1 .. n) /\ Cardinality(1 .. n) = n
  <2>1. IF 1 > n THEN Cardinality(1 .. n) = 0 ELSE Cardinality(1 .. n) = n - 1 + 1
    BY <1>1, FS_Interval
  <2>2. IsFiniteSet(1 .. n)
    BY <1>1, FS_Interval
  <2> HIDE DEF n
  <2>3. QED
    BY <1>1, <2>1, <2>2
<1>5. o \in Injection(1 .. n, S)
  BY <1>3, <1>4, FS_Surjection
<1>6. QED
  <2> HIDE DEF n
  <2>1. o \in Seq(S) /\ Len(o) = n /\ DOMAIN o = 1 .. Len(o) /\ RangeOf(o) = S
    BY <1>1, <1>2
  <2>2. \A k, l \in DOMAIN o : o[k] = o[l] => k = l
    BY <1>2, <1>5 DEF Injection, IsInjective
  <2>3. QED
    BY <2>1, <2>2 DEF n

LEMMA ListedFinite ==
  ASSUME IInv, NEW n
  PROVE  IsFiniteSet(Listed(n)) /\ Cardinality(Listed(n)) \in Nat
<1>1. IsFiniteSet(DOMAIN file) /\ Listed(n) \subseteq DOMAIN file
  BY DEF IInv, TypeOK, Listed
<1>2. IsFiniteSet(Listed(n))
  BY <1>1, FS_Subset
<1>3. QED
  BY <1>2, FS_CardinalityType

LEMMA NextPassDoes ==
  ASSUME IInv, NextPass
  PROVE  /\ UNCHANGED << source, next, file, output, fresh, spent >>
         /\ step' = step + 1 /\ count' = 0 /\ pc = "list" /\ pc' = "pair"
         /\ Len(todo') = Cardinality(Listed(step)) /\ RangeOf(todo') = Listed(step)
         /\ \A k, l \in DOMAIN todo' : todo'[k] = todo'[l] => k = l
         /\ \A p \in DOMAIN merges' : p[1] < step
         /\ Mine' = {}
<1>1. /\ UNCHANGED << source, next, file, output, fresh, spent >>
      /\ step' = step + 1 /\ count' = 0 /\ pc = "list" /\ pc' = "pair" /\ merges' = StillMerging
      /\ todo' \in Orders(Listed(step))
  BY DEF NextPass
<1>2. \A p \in DOMAIN merges' : p \in DOMAIN merges /\ p[1] < step
  BY <1>1, NextDir
<1>3. Mine' = {}
  <2>1. \A p \in DOMAIN merges' : p[1] # step + 1
    BY <1>2, BySort
  <2>2. QED
    BY <1>1, <2>1 DEF Mine
<1>4. /\ Len(todo') = Cardinality(Listed(step)) /\ RangeOf(todo') = Listed(step)
      /\ \A k, l \in DOMAIN todo' : todo'[k] = todo'[l] => k = l
  <2>1. IsFiniteSet(Listed(step))
    BY ListedFinite
  <2>2. QED
    BY <1>1, <2>1, OrdersOnce
<1>5. QED
  BY <1>1, <1>2, <1>3, <1>4

LEMMA PairDoes ==
  ASSUME IInv, Paired, Pair
  PROVE  /\ UNCHANGED << source, next, file, step, pc, output, fresh, spent >>
         /\ pc = "pair" /\ count' = count + 1
         /\ Len(todo) >= 2 /\ Len(todo') = Len(todo) - 2
         /\ todo[1] # todo[2] /\ {todo[1], todo[2]} \subseteq RangeOf(todo) \intersect Listed(step - 1)
         /\ RangeOf(todo') = RangeOf(todo) \ {todo[1], todo[2]}
         /\ \A k, l \in DOMAIN todo' : todo'[k] = todo'[l] => k = l
         /\ << step, count + 1 >> \notin DOMAIN merges
         /\ DOMAIN merges' = DOMAIN merges \union {<< step, count + 1 >>}
         /\ merges'[<< step, count + 1 >>] = Merge(todo[1], todo[2])
         /\ \A q \in DOMAIN merges : merges'[q] = merges[q]
         /\ Mine' = Mine \union {<< step, count + 1 >>}
<1>1. /\ UNCHANGED << source, next, file, step, pc, output, fresh, spent >>
      /\ pc = "pair" /\ count' = count + 1 /\ Len(todo) >= 2 /\ todo' = Tail(Tail(todo))
      /\ merges' = With(merges, << step, count + 1 >>, Merge(todo[1], todo[2]))
  BY DEF Pair
<1>2. /\ step \in Nat /\ count \in Nat /\ todo \in Seq(DOMAIN file) /\ Len(todo) \in Nat
      /\ \A k \in DOMAIN todo : todo[k][1] = step - 1
      /\ \A k, l \in DOMAIN todo : todo[k] = todo[l] => k = l
      /\ \A q \in Mine : q[2] \in 1 .. count
  BY <1>1, BySort DEF Paired, Handed
<1>3. DOMAIN todo = 1 .. Len(todo) /\ \A k \in DOMAIN todo : todo[k] \in DOMAIN file
  BY <1>2
<1>4. 1 \in DOMAIN todo /\ 2 \in DOMAIN todo
  BY <1>1, <1>2, <1>3
<1>5. todo[1] # todo[2] /\ {todo[1], todo[2]} \subseteq RangeOf(todo) \intersect Listed(step - 1)
  BY <1>2, <1>3, <1>4 DEF RangeOf, Listed
<1>6. /\ todo' \in Seq(DOMAIN file) /\ Len(todo') = Len(todo) - 2
      /\ \A k \in 1 .. Len(todo) - 2 : k + 2 \in DOMAIN todo /\ todo'[k] = todo[k + 2]
  BY <1>1, <1>2, TwoLess
<1>7. DOMAIN todo' = 1 .. Len(todo) - 2
  BY <1>6
<1>8. \A k, l \in DOMAIN todo' : todo'[k] = todo'[l] => k = l
  <2>1. ASSUME NEW k \in DOMAIN todo', NEW l \in DOMAIN todo', todo'[k] = todo'[l]
        PROVE  k = l
    <3>1. /\ k \in Int /\ l \in Int /\ k + 2 \in DOMAIN todo /\ l + 2 \in DOMAIN todo
          /\ todo[k + 2] = todo[l + 2]
      BY <1>2, <1>6, <1>7, <2>1
    <3>2. k + 2 = l + 2
      BY <1>2, <3>1
    <3>3. QED
      BY <3>1, <3>2
  <2>2. QED
    BY <2>1
<1>9. RangeOf(todo') = RangeOf(todo) \ {todo[1], todo[2]}
  <2>1. ASSUME NEW q \in RangeOf(todo')
        PROVE  q \in RangeOf(todo) /\ q # todo[1] /\ q # todo[2]
    <3>1. PICK k \in DOMAIN todo' : q = todo'[k]
      BY DEF RangeOf
    <3>2. k \in Int /\ k + 2 # 1 /\ k + 2 # 2 /\ k + 2 \in DOMAIN todo /\ q = todo[k + 2]
      BY <1>2, <1>6, <1>7, <3>1
    <3>3. QED
      BY <1>2, <1>4, <3>2 DEF RangeOf
  <2>2. ASSUME NEW q \in RangeOf(todo), q # todo[1], q # todo[2]
        PROVE  q \in RangeOf(todo')
    <3>1. PICK k \in DOMAIN todo : q = todo[k]
      BY DEF RangeOf
    <3>2. k # 1 /\ k # 2
      BY <2>2, <3>1
    <3>3. k - 2 \in 1 .. Len(todo) - 2 /\ (k - 2) + 2 = k
      BY <1>2, <1>3, <3>2
    <3>4. QED
      BY <1>6, <1>7, <3>1, <3>3 DEF RangeOf
  <2>3. QED
    BY <2>1, <2>2
<1>10. << step, count + 1 >> \notin DOMAIN merges
  <2>1. << step, count + 1 >> \notin Mine
    BY <1>2
  <2>2. QED
    BY <2>1 DEF Mine
<1>11. /\ DOMAIN merges' = DOMAIN merges \union {<< step, count + 1 >>}
       /\ merges'[<< step, count + 1 >>] = Merge(todo[1], todo[2])
       /\ \A q \in DOMAIN merges : merges'[q] = merges[q]
  BY <1>1, <1>10 DEF With
<1>12. Mine' = Mine \union {<< step, count + 1 >>}
  BY <1>1, <1>11 DEF Mine
<1>13. QED
  BY <1>1, <1>5, <1>6, <1>8, <1>9, <1>10, <1>11, <1>12

LEMMA CopyOddDoes ==
  ASSUME IInv, CopyOdd
  PROVE  /\ UNCHANGED << source, next, step, pc, merges, output, fresh, spent >>
         /\ pc = "pair" /\ count' = count + 1 /\ Len(todo) = 1 /\ todo' = << >>
         /\ RangeOf(todo) = {todo[1]} /\ RangeOf(todo') = {} /\ todo[1] \in Listed(step - 1)
         /\ DOMAIN file' = DOMAIN file \union {<< step, count + 1 >>}
         /\ file'[<< step, count + 1 >>] = file[todo[1]]
         /\ \A q \in DOMAIN file : q # << step, count + 1 >> => file'[q] = file[q]
<1>1. /\ UNCHANGED << source, next, step, pc, merges, output, fresh, spent >>
      /\ pc = "pair" /\ count' = count + 1 /\ Len(todo) = 1 /\ todo' = << >>
      /\ file' = With(file, << step, count + 1 >>, file[todo[1]])
  BY DEF CopyOdd
<1>2. DOMAIN todo = {1} /\ todo[1] \in DOMAIN file /\ todo[1][1] = step - 1
  <2>1. todo \in Seq(DOMAIN file) /\ \A k \in DOMAIN todo : todo[k][1] = step - 1
    BY BySort
  <2>2. QED
    BY <1>1, <2>1
<1>3. RangeOf(todo) = {todo[1]} /\ RangeOf(todo') = {} /\ todo[1] \in Listed(step - 1)
  BY <1>1, <1>2 DEF RangeOf, Listed
<1>4. QED
  BY <1>1, <1>3 DEF With

LEMMA MergeDoes ==
  ASSUME IInv, NEW p \in DOMAIN merges, Read2FileAndMerge(p)
  PROVE  /\ UNCHANGED << source, next, step, count, pc, todo, output, fresh >>
         /\ spent'.sorts = spent.sorts
         /\ Merging(p) /\ DOMAIN merges' = DOMAIN merges /\ Mine' = Mine
         /\ \A q \in DOMAIN merges : q # p => merges'[q] = merges[q]
         /\ \A q \in DOMAIN merges :
              merges'[q].first = merges[q].first /\ merges'[q].second = merges[q].second
         /\ DOMAIN file \subseteq DOMAIN file' /\ DOMAIN file' \subseteq DOMAIN file \union {p}
         /\ \A q \in DOMAIN file : q # p => file'[q] = file[q]
         /\ merges'[p].state \in {"running", "done", "failed"}
         /\ merges'[p].state = "done" =>
              /\ p \in DOMAIN file' /\ ~FirstLeft(merges[p]) /\ ~SecondLeft(merges[p])
              /\ merges'[p].i = merges[p].i /\ merges'[p].j = merges[p].j
<1>1. merges[p] \in MergeRecord
  BY MergeKnown
<1>2. /\ UNCHANGED << source, next, step, count, pc, todo, output, fresh >>
      /\ spent'.sorts = spent.sorts /\ Merging(p)
  <2>1. Fault => spent'.sorts = spent.sorts
    BY DEF Fault, IInv, TypeOK
  <2>2. Merging(p)
    BY DEF Read2FileAndMerge, Open, Take, End, Fail, Merging
  <2>3. QED
    BY <2>1, <2>2 DEF Read2FileAndMerge
<1>3. /\ DOMAIN file \subseteq DOMAIN file' /\ DOMAIN file' \subseteq DOMAIN file \union {p}
      /\ \A q \in DOMAIN file : q # p => file'[q] = file[q]
  BY DEF Read2FileAndMerge, Open, Take, End, Fail, With
<1>4. /\ DOMAIN merges' = DOMAIN merges
      /\ \A q \in DOMAIN merges : q # p => merges'[q] = merges[q]
  BY DEF Read2FileAndMerge, Open, Take, End, Fail
<1>5. /\ merges'[p].first = merges[p].first /\ merges'[p].second = merges[p].second
      /\ merges'[p].state \in {"running", "done", "failed"}
      /\ merges'[p].state = "done" =>
           /\ p \in DOMAIN file' /\ ~FirstLeft(merges[p]) /\ ~SecondLeft(merges[p])
           /\ merges'[p].i = merges[p].i /\ merges'[p].j = merges[p].j
  <2>1. CASE Open(p)
    BY <1>1, <2>1 DEF Open, MergeRecord
  <2>2. CASE Take(p)
    <3>1. merges[p].state = "running"
          /\ \E i, j, list : merges' = [merges EXCEPT ![p].i = i, ![p].j = j, ![p].list = list]
      BY <2>2 DEF Take
    <3>2. merges'[p].first = merges[p].first /\ merges'[p].second = merges[p].second
          /\ merges'[p].state = "running"
      BY <1>1, <3>1 DEF MergeRecord
    <3>3. QED
      BY <3>2
  <2>3. CASE End(p)
    BY <1>1, <2>3 DEF End, MergeRecord, With
  <2>4. CASE Fail(p)
    BY <1>1, <2>4 DEF Fail, MergeRecord
  <2>5. QED
    BY <2>1, <2>2, <2>3, <2>4 DEF Read2FileAndMerge
<1>6. Mine' = Mine
  BY <1>2, <1>4 DEF Mine
<1>7. QED
  BY <1>2, <1>3, <1>4, <1>5, <1>6

-----------------------------------------------------------------------------
(***************************************************************************)
(* The steps preserve PassInv.                                             *)
(***************************************************************************)
LEMMA StartSort_Pass ==
  ASSUME IInv, NEW keys \in Inputs, StartSort(keys)
  PROVE  Paired' /\ Beyond' /\ Counted'
<1>1. /\ step' = step + 1 /\ pc' = "split" /\ Mine' = {}
      /\ DOMAIN file' = DOMAIN file \union {<< step + 1, 1 >>}
      /\ fresh' => \A q \in DOMAIN file : q[1] <= step
  BY StartSortDoes
<1>2. /\ step \in Nat /\ \A q \in DOMAIN file : q[1] \in Nat
  BY BySort
<1>3. fresh' => \A q \in DOMAIN file' : q[1] <= step'
  BY <1>1, <1>2
<1>4. QED
  BY <1>1, <1>3 DEF Paired, Beyond, Counted

LEMMA SplitFile_Pass ==
  ASSUME PassInv, SplitFile
  PROVE  Paired' /\ Beyond' /\ Counted'
<1>1. /\ UNCHANGED << step, pc, merges, fresh >> /\ pc = "split"
      /\ DOMAIN file' = DOMAIN file \union {<< step, count >>, << step, count + 1 >>}
  BY SplitFileDoes DEF PassInv
<1>2. step \in Nat
  BY BySort DEF PassInv
<1>3. Mine' = Mine
  BY <1>1 DEF Mine
<1>4. QED
  BY <1>1, <1>2, <1>3 DEF PassInv, Paired, Beyond, Counted, Sorting

LEMMA SplitRest_Pass ==
  ASSUME PassInv, SplitRest
  PROVE  Paired' /\ Beyond' /\ Counted'
<1>1. /\ UNCHANGED << step, merges, fresh >> /\ pc = "split" /\ pc' = "list"
      /\ DOMAIN file' = DOMAIN file \union {<< step, count >>}
  BY SplitRestDoes DEF PassInv
<1>2. step \in Nat
  BY BySort DEF PassInv
<1>3. Mine' = {}
  BY <1>1 DEF Mine, PassInv, Paired
<1>4. QED
  BY <1>1, <1>2, <1>3 DEF PassInv, Paired, Beyond, Counted, Sorting

LEMMA NextPass_Pass ==
  ASSUME PassInv, NextPass
  PROVE  Paired' /\ Beyond' /\ Counted'
<1>1. /\ UNCHANGED << source, next, file, output, fresh, spent >>
      /\ step' = step + 1 /\ count' = 0 /\ pc = "list" /\ pc' = "pair"
      /\ Len(todo') = Cardinality(Listed(step)) /\ RangeOf(todo') = Listed(step)
      /\ \A k, l \in DOMAIN todo' : todo'[k] = todo'[l] => k = l
      /\ \A p \in DOMAIN merges' : p[1] < step
      /\ Mine' = {}
  BY NextPassDoes DEF PassInv
<1>2. step \in Nat /\ \A p \in DOMAIN file : p[1] \in Nat
  BY BySort DEF PassInv
<1>3. Paired'
  <2>1. \A p \in DOMAIN merges' : p[1] < step' - 1
    BY <1>1, <1>2
  <2>2. QED
    BY <1>1, <2>1 DEF Paired
<1>4. fresh => \A p \in DOMAIN file : p[1] <= step
  BY <1>1 DEF PassInv, Beyond, Sorting
<1>5. Beyond'
  BY <1>1, <1>2, <1>4 DEF Beyond
<1>6. Counted'
  <2>1. SUFFICES ASSUME fresh'
                 PROVE  /\ Listed(step)' \union Mine' = { << step', k >> : k \in 1 .. count' }
                        /\ Cardinality(Listed(step - 1)') = 2 * count' + Len(todo')
    BY DEF Counted
  <2>2. Listed(step)' = {}
    BY <1>1, <1>2, <1>4, <2>1 DEF Listed
  <2>3. { << step', k >> : k \in 1 .. count' } = {}
    BY <1>1
  <2>4. Listed(step - 1)' = Listed(step)
    BY <1>1, <1>2 DEF Listed
  <2>5. Cardinality(Listed(step)) \in Nat
    BY ListedFinite DEF PassInv
  <2>6. QED
    BY <1>1, <2>2, <2>3, <2>4, <2>5
<1>7. QED
  BY <1>3, <1>5, <1>6

LEMMA Pair_Pass ==
  ASSUME PassInv, Pair
  PROVE  Paired' /\ Beyond' /\ Counted'
<1>0. PICK p : p = << step, count + 1 >>
  OBVIOUS
<1>1. /\ UNCHANGED << source, next, file, step, pc, output, fresh, spent >>
      /\ pc = "pair" /\ count' = count + 1
      /\ Len(todo) >= 2 /\ Len(todo') = Len(todo) - 2
      /\ todo[1] # todo[2] /\ {todo[1], todo[2]} \subseteq RangeOf(todo) \intersect Listed(step - 1)
      /\ RangeOf(todo') = RangeOf(todo) \ {todo[1], todo[2]}
      /\ \A k, l \in DOMAIN todo' : todo'[k] = todo'[l] => k = l
      /\ p \notin DOMAIN merges /\ DOMAIN merges' = DOMAIN merges \union {p}
      /\ merges'[p] = Merge(todo[1], todo[2])
      /\ \A q \in DOMAIN merges : merges'[q] = merges[q]
      /\ Mine' = Mine \union {p}
  BY <1>0, PairDoes DEF PassInv
<1>2. step \in Nat /\ count \in Nat /\ p[1] = step /\ p[2] = count + 1 /\ Len(todo) \in Nat
  BY <1>0, BySort DEF PassInv
<1>3. Paired'
  <2>1. \A q \in DOMAIN merges' : q[1] = step' \/ q[1] < step' - 1
    BY <1>1, <1>2 DEF PassInv, Paired
  <2>2. \A q \in Mine : Feeds(q)' = Feeds(q) /\ q \in DOMAIN merges
    BY <1>1 DEF Feeds, Mine
  <2>3. Feeds(p)' = {todo[1], todo[2]} /\ merges'[p].first # merges'[p].second
    BY <1>1 DEF Feeds, Merge
  <2>4. ASSUME NEW q \in Mine
        PROVE  Handed(q)'
    <3>1. Handed(q) /\ merges'[q] = merges[q]
      BY <1>1, <2>2 DEF PassInv, Paired
    <3>2. q[2] \in 1 .. count'
      BY <1>1, <1>2, <3>1 DEF Handed
    <3>3. QED
      BY <1>1, <2>2, <3>1, <3>2 DEF Handed, FirstLeft, SecondLeft
  <2>5. Handed(p)'
    <3>1. p[2] \in 1 .. count'
      BY <1>1, <1>2
    <3>2. QED
      BY <1>1, <2>3, <3>1 DEF Handed, Merge
  <2>6. ASSUME NEW q \in Mine', NEW r \in Mine', q # r
        PROVE  Feeds(q)' \intersect Feeds(r)' = {}
    <3>1. \A u \in Mine : Feeds(u) \intersect {todo[1], todo[2]} = {}
      BY <1>1 DEF PassInv, Paired, Handed
    <3>2. CASE q \in Mine /\ r \in Mine
      BY <1>1, <2>2, <2>6, <3>2 DEF PassInv, Paired
    <3>3. CASE q = p /\ r \in Mine
      BY <2>2, <2>3, <3>1, <3>3
    <3>4. CASE q \in Mine /\ r = p
      BY <2>2, <2>3, <3>1, <3>4
    <3>5. QED
      BY <1>1, <2>6, <3>2, <3>3, <3>4
  <2>7. QED
    BY <1>1, <2>1, <2>4, <2>5, <2>6 DEF Paired
<1>4. Beyond'
  BY <1>1 DEF PassInv, Beyond, Sorting
<1>5. Counted'
  <2>1. SUFFICES ASSUME fresh
                 PROVE  /\ Listed(step)' \union Mine' = { << step', k >> : k \in 1 .. count' }
                        /\ Cardinality(Listed(step - 1)') = 2 * count' + Len(todo')
    BY <1>1 DEF Counted
  <2>2. Listed(step) \union Mine = { << step, k >> : k \in 1 .. count }
        /\ Cardinality(Listed(step - 1)) = 2 * count + Len(todo)
    BY <1>1, <2>1 DEF PassInv, Counted
  <2>3. Listed(step)' = Listed(step) /\ Listed(step - 1)' = Listed(step - 1)
    BY <1>1 DEF Listed
  <2>4. { << step', k >> : k \in 1 .. count' } = { << step, k >> : k \in 1 .. count } \union {p}
    BY <1>0, <1>1, <1>2
  <2>5. QED
    BY <1>1, <1>2, <2>2, <2>3, <2>4
<1>6. QED
  BY <1>3, <1>4, <1>5

LEMMA CopyOdd_Pass ==
  ASSUME PassInv, CopyOdd
  PROVE  Paired' /\ Beyond' /\ Counted'
<1> DEFINE p == << step, count + 1 >>
<1>1. /\ UNCHANGED << source, next, step, pc, merges, output, fresh, spent >>
      /\ pc = "pair" /\ count' = count + 1 /\ Len(todo) = 1 /\ todo' = << >>
      /\ RangeOf(todo') = {}
      /\ DOMAIN file' = DOMAIN file \union {p}
      /\ \A q \in DOMAIN file : q # p => file'[q] = file[q]
  BY CopyOddDoes DEF PassInv
<1>2. step \in Nat /\ count \in Nat /\ p[1] = step /\ p[2] = count + 1
  BY BySort DEF PassInv
<1> HIDE DEF p
<1>3. Mine' = Mine /\ \A q \in Mine : Feeds(q)' = Feeds(q)
  BY <1>1 DEF Mine, Feeds
<1>4. Paired'
  <2>1. ASSUME NEW q \in Mine
        PROVE  Handed(q)'
    <3>1. Handed(q) /\ q[2] \in 1 .. count
      BY <1>1 DEF PassInv, Paired, Handed
    <3>2. /\ merges[q].first \in DOMAIN file /\ merges[q].first[1] = step - 1
          /\ merges[q].second \in DOMAIN file /\ merges[q].second[1] = step - 1
      BY BySort DEF PassInv, Mine
    <3>3. file'[merges[q].first] = file[merges[q].first] /\ file'[merges[q].second] = file[merges[q].second]
      BY <1>1, <1>2, <3>2
    <3>4. q[2] \in 1 .. count'
      BY <1>1, <1>2, <3>1
    <3>5. QED
      BY <1>1, <1>3, <3>1, <3>3, <3>4 DEF Handed, FirstLeft, SecondLeft
  <2>2. QED
    BY <1>1, <1>3, <2>1 DEF PassInv, Paired
<1>5. Beyond'
  BY <1>1, <1>2 DEF PassInv, Beyond, Sorting
<1>6. Counted'
  <2>1. SUFFICES ASSUME fresh
                 PROVE  /\ Listed(step)' \union Mine' = { << step', k >> : k \in 1 .. count' }
                        /\ Cardinality(Listed(step - 1)') = 2 * count' - 1
    BY <1>1 DEF Counted
  <2>2. Listed(step) \union Mine = { << step, k >> : k \in 1 .. count }
        /\ Cardinality(Listed(step - 1)) = 2 * count + Len(todo)
    BY <1>1, <2>1 DEF PassInv, Counted
  <2>3. Listed(step)' = Listed(step) \union {p} /\ Listed(step - 1)' = Listed(step - 1)
    BY <1>1, <1>2 DEF Listed
  <2>4. { << step', k >> : k \in 1 .. count' } = { << step, k >> : k \in 1 .. count } \union {p}
    BY <1>1, <1>2 DEF p
  <2>5. QED
    BY <1>1, <1>2, <1>3, <2>2, <2>3, <2>4
<1>7. QED
  BY <1>4, <1>5, <1>6

LEMMA PassEnds_Pass ==
  ASSUME PassInv, PassEnds
  PROVE  Paired' /\ Beyond' /\ Counted'
<1>1. /\ UNCHANGED << file, step, merges, fresh >> /\ pc = "pair" /\ pc' = "list"
      /\ \A p \in Mine : merges[p].state = "done"
  BY DEF PassEnds
<1>2. Mine' = Mine
  BY <1>1 DEF Mine
<1>3. QED
  BY <1>1, <1>2 DEF PassInv, Paired, Handed, Beyond, Counted, Sorting

LEMMA SortStops_Pass ==
  ASSUME PassInv, PassFails \/ SplitFails \/ CopyFails \/ RenameFails \/ Finish \/ Kill
  PROVE  Paired' /\ Beyond' /\ Counted'
<1>1. pc' \in {"idle", "done"}
  BY DEF PassFails, SplitFails, CopyFails, RenameFails, Finish, Kill
<1>2. QED
  BY <1>1 DEF Paired, Beyond, Counted, Sorting

(***************************************************************************)
(* A merge writes in the directory of the pass, or two or more behind.     *)
(***************************************************************************)
LEMMA MergePlace ==
  ASSUME PassInv, NEW p \in DOMAIN merges, Merging(p)
  PROVE  /\ p[1] \in Nat /\ p[1] <= step
         /\ pc \in {"split", "list"} => p[1] < step
         /\ pc = "pair" => p[1] # step - 1 /\ (p[1] = step => p \in Mine)
<1>1. step \in Nat /\ p[1] \in Nat /\ p[1] <= step
  BY BySort DEF PassInv
<1>2. pc \in {"split", "list"} => p[1] < step
  BY DEF PassInv, IInv, Places
<1>3. pc = "pair" => p[1] = step \/ p[1] < step - 1
  BY DEF PassInv, Paired
<1>4. QED
  BY <1>1, <1>2, <1>3 DEF Mine

LEMMA Read2FileAndMerge_Pass ==
  ASSUME PassInv, NEW p \in DOMAIN merges, Read2FileAndMerge(p)
  PROVE  Paired' /\ Beyond' /\ Counted'
<1>1. /\ UNCHANGED << source, next, step, count, pc, todo, output, fresh >>
      /\ Merging(p) /\ DOMAIN merges' = DOMAIN merges /\ Mine' = Mine
      /\ \A q \in DOMAIN merges : q # p => merges'[q] = merges[q]
      /\ \A q \in DOMAIN merges :
           merges'[q].first = merges[q].first /\ merges'[q].second = merges[q].second
      /\ DOMAIN file \subseteq DOMAIN file' /\ DOMAIN file' \subseteq DOMAIN file \union {p}
      /\ \A q \in DOMAIN file : q # p => file'[q] = file[q]
      /\ merges'[p].state \in {"running", "done", "failed"}
      /\ merges'[p].state = "done" =>
           /\ p \in DOMAIN file' /\ ~FirstLeft(merges[p]) /\ ~SecondLeft(merges[p])
           /\ merges'[p].i = merges[p].i /\ merges'[p].j = merges[p].j
  BY MergeDoes DEF PassInv
<1>2. /\ p[1] \in Nat /\ step \in Nat /\ p[1] <= step
      /\ pc \in {"split", "list"} => p[1] < step
      /\ pc = "pair" => p[1] # step - 1 /\ (p[1] = step => p \in Mine)
  BY <1>1, MergePlace, BySort DEF PassInv
<1>3. pc = "list" => Paired'
  <2>1. SUFFICES ASSUME pc = "list", NEW q \in Mine
                 PROVE  merges'[q].state = "done" /\ q \in DOMAIN file'
    BY <1>1 DEF Paired
  <2>2. q # p /\ q \in DOMAIN merges
    BY <1>2, <2>1 DEF Mine
  <2>3. QED
    BY <1>1, <2>1, <2>2 DEF PassInv, Paired
<1>4. pc = "pair" => Paired'
  <2>1. SUFFICES ASSUME pc = "pair"
                 PROVE  Paired'
    OBVIOUS
  <2>2. ASSUME NEW q \in Mine
        PROVE  Handed(q)' /\ Feeds(q)' = Feeds(q)
    <3>1. q \in DOMAIN merges /\ q[1] = step /\ Handed(q)
      BY <2>1 DEF Mine, PassInv, Paired
    <3>2. /\ merges[q].first \in DOMAIN file /\ merges[q].first[1] = step - 1
          /\ merges[q].second \in DOMAIN file /\ merges[q].second[1] = step - 1
      BY <3>1, BySort DEF PassInv
    <3>3. /\ file'[merges[q].first] = file[merges[q].first]
          /\ file'[merges[q].second] = file[merges[q].second]
      BY <1>1, <1>2, <2>1, <3>2
    <3>4. Feeds(q)' = Feeds(q)
      BY <1>1, <3>1 DEF Feeds
    <3>5. CASE q # p
      BY <1>1, <3>1, <3>3, <3>4, <3>5 DEF Handed, FirstLeft, SecondLeft
    <3>6. CASE q = p
      <4>1. merges'[p].state = "done" => ~FirstLeft(merges[p])' /\ ~SecondLeft(merges[p])'
        BY <1>1, <3>3, <3>6 DEF FirstLeft, SecondLeft
      <4>2. QED
        BY <1>1, <3>1, <3>4, <3>6, <4>1 DEF Handed
    <3>7. QED
      BY <3>4, <3>5, <3>6
  <2>3. QED
    BY <1>1, <2>1, <2>2 DEF PassInv, Paired
<1>5. Paired'
  BY <1>1, <1>3, <1>4 DEF PassInv, Paired
<1>6. Beyond'
  BY <1>1, <1>2 DEF PassInv, Beyond, Sorting
<1>7. Counted'
  <2>1. SUFFICES ASSUME pc = "pair", fresh
                 PROVE  /\ Listed(step)' \union Mine' = { << step', k >> : k \in 1 .. count' }
                        /\ \/ Cardinality(Listed(step - 1)') = 2 * count' + Len(todo')
                           \/ todo' = << >> /\ Cardinality(Listed(step - 1)') = 2 * count' - 1
    BY <1>1 DEF Counted
  <2>2. Listed(step)' \union Mine' = Listed(step) \union Mine
    BY <1>1, <1>2, <2>1 DEF Listed
  <2>3. Listed(step - 1)' = Listed(step - 1)
    BY <1>1, <1>2, <2>1 DEF Listed
  <2>4. QED
    BY <1>1, <2>1, <2>2, <2>3 DEF PassInv, Counted
<1>8. QED
  BY <1>5, <1>6, <1>7

LEMMA Init_PassInv == Init => PassInv
<1>1. Init => Paired /\ Beyond /\ Counted
  BY DEF Init, Paired, Beyond, Counted, Sorting
<1>2. QED
  BY <1>1, Init_IInv DEF PassInv

LEMMA PassInv_Next ==
  ASSUME PassInv, [Next]_vars
  PROVE  PassInv'
<1>1. IInv'
  BY IInv_Next DEF PassInv
<1>2. ASSUME Sorter
      PROVE  Paired' /\ Beyond' /\ Counted'
  <2>1. ASSUME NEW keys \in Inputs, StartSort(keys)
        PROVE  Paired' /\ Beyond' /\ Counted'
    BY <2>1, StartSort_Pass DEF PassInv
  <2>2. QED
    BY <1>2, <2>1, SplitFile_Pass, SplitRest_Pass, NextPass_Pass, Pair_Pass, CopyOdd_Pass,
       PassEnds_Pass, SortStops_Pass DEF Sorter
<1>3. ASSUME UNCHANGED vars
      PROVE  Paired' /\ Beyond' /\ Counted'
  BY <1>3 DEF vars, PassInv, Paired, Beyond, Counted, Sorting, Mine, Handed, Feeds, Listed,
     FirstLeft, SecondLeft
<1>4. QED
  BY <1>1, <1>2, <1>3, Read2FileAndMerge_Pass, SortStops_Pass DEF Next, PassInv

(***************************************************************************)
(* The files of a pass that has ended are the numbers it gave out.         *)
(***************************************************************************)
LEMMA NumbersCardinality ==
  ASSUME NEW n \in Nat, NEW d
  PROVE  Cardinality({ << d, k >> : k \in 1 .. n }) = n
<1> DEFINE S == { << d, k >> : k \in 1 .. n }
           f == [k \in 1 .. n |-> << d, k >>]
<1>1. f \in Bijection(1 .. n, S)
  <2>1. f \in [1 .. n -> S]
    OBVIOUS
  <2>2. \A k, l \in 1 .. n : f[k] = f[l] => k = l
    OBVIOUS
  <2>3. \A s \in S : \E k \in 1 .. n : f[k] = s
    OBVIOUS
  <2>4. QED
    BY <2>1, <2>2, <2>3 DEF Bijection, Injection, IsInjective, Surjection
<1>2. ExistsBijection(1 .. n, S)
  BY <1>1 DEF ExistsBijection
<1>3. QED
  BY <1>2, FS_CountingElements

LEMMA PassHalves ==
  ASSUME PassInv, [Next]_vars, pc = "pair", pc' = "list", fresh
  PROVE  2 * Cardinality(Listed(step)) \in
           Cardinality(Listed(step - 1)) .. Cardinality(Listed(step - 1)) + 1
<1>1. PassEnds
  <2>1. ~UNCHANGED vars
    BY DEF vars
  <2>2. \A p \in DOMAIN merges : ~Read2FileAndMerge(p)
    BY DEF Read2FileAndMerge
  <2>3. ~Kill /\ \A keys \in Inputs : ~StartSort(keys)
    BY DEF Kill, StartSort
  <2>4. QED
    BY <2>1, <2>2, <2>3 DEF Next, Sorter, SplitFile, SplitRest, NextPass, Finish, Pair, CopyOdd,
       PassFails, SplitFails, CopyFails, RenameFails
<1>2. todo = << >> /\ Mine \subseteq Listed(step)
  BY <1>1 DEF PassEnds, PassInv, Paired, Handed, Mine, Listed
<1>3. /\ Listed(step) = { << step, k >> : k \in 1 .. count }
      /\ \/ Cardinality(Listed(step - 1)) = 2 * count + Len(todo)
         \/ Cardinality(Listed(step - 1)) = 2 * count - 1
  BY <1>2 DEF PassInv, Counted
<1>4. count \in Nat /\ Len(todo) = 0
  BY <1>2, BySort DEF PassInv
<1>5. Cardinality(Listed(step)) = count
  <2>1. \A n \in Nat : Cardinality({ << step, k >> : k \in 1 .. n }) = n
    BY NumbersCardinality
  <2>2. QED
    BY <1>3, <1>4, <2>1
<1> DEFINE n == Cardinality(Listed(step - 1))
<1>6. n = 2 * count \/ n = 2 * count - 1
  BY <1>3, <1>4
<1> HIDE DEF n
<1>7. 2 * count \in n .. n + 1
  BY <1>4, <1>6
<1>8. QED
  BY <1>5, <1>7 DEF n

(***************************************************************************)
(* A pass leaves half as many files as it found, rounded up, for every     *)
(* number of files and every order of the merges.                          *)
(* (MergeSortor.toPairFoles)                                               *)
(***************************************************************************)
THEOREM PassesAreLogarithmic == Spec => PassesHalve
<1>1. PassInv /\ [Next]_vars =>
        [pc = "pair" /\ pc' = "list" /\ fresh =>
           2 * Cardinality(Listed(step)) \in
             Cardinality(Listed(step - 1)) .. Cardinality(Listed(step - 1)) + 1]_vars
  BY PassHalves
<1>2. QED
  BY <1>1, Init_PassInv, PassInv_Next, PTL DEF Spec, PassesHalve


-----------------------------------------------------------------------------
(***************************************************************************)
(* What a path of the present directory has received: the rows its merge   *)
(* has written and those it has not committed yet, none if the merge has   *)
(* not begun or has failed.                                                *)
(***************************************************************************)
Received(p) ==
  IF p \in Mine /\ merges[p].state # "done"
  THEN IF merges[p].state = "running" THEN file[p] \o merges[p].list ELSE << >>
  ELSE file[p]

(***************************************************************************)
(* What a merge has received is in order and does not come after anything  *)
(* it has yet to read.                                                     *)
(***************************************************************************)
Before(rows, from, n) ==
  \A i \in DOMAIN rows : \A k \in DOMAIN from : k > n => rows[i].key <= from[k].key

Merged(p) ==
  /\ Before(Received(p), file[merges[p].first], merges[p].i)
  /\ Before(Received(p), file[merges[p].second], merges[p].j)

Ordered ==
  Sorting /\ fresh /\ InOrder(LastRows) =>
    /\ \A p \in Listed(step) \union Mine : InOrder(Received(p))
    /\ pc = "split" => next % MaxLineCount = 0
    /\ pc = "pair" => /\ \A q \in Listed(step - 1) : InOrder(file[q])
                      /\ \A p \in Mine : Merged(p)

OrderInv == PassInv /\ Ordered /\ MergesKeepOrder

LEMMA NoneInOrder == InOrder(<< >>)
  BY DEF InOrder

LEMMA ReceivedType ==
  ASSUME PassInv, Sorting, NEW p \in Listed(step) \union Mine
  PROVE  Received(p) \in Seq(Row)
<1>1. \A q \in DOMAIN file : file[q] \in Seq(Row)
  BY BySort DEF PassInv
<1>2. CASE p \in Mine
  <2>1. /\ merges[p].list \in Seq(Row) /\ (merges[p].state = "running" => file[p] \in Seq(Row))
        /\ << >> \in Seq(Row)
    BY <1>2, MergeKnown DEF Mine, PassInv
  <2>2. merges[p].state = "done" => p \in DOMAIN file
    BY <1>2 DEF PassInv, Paired, Handed, Sorting
  <2>3. CASE merges[p].state = "done"
    BY <1>1, <2>2, <2>3 DEF Received
  <2>4. CASE merges[p].state # "done"
    BY <1>2, <2>1, <2>4 DEF Received
  <2>5. QED
    BY <2>3, <2>4
<1>3. CASE p \notin Mine
  BY <1>1, <1>3 DEF Received, Listed
<1>4. QED
  BY <1>2, <1>3

LEMMA ConcatAppend ==
  ASSUME NEW s \in Seq(Row), NEW t \in Seq(Row), NEW row \in Row
  PROVE  s \o Append(t, row) = Append(s \o t, row)
  OBVIOUS

LEMMA SameReceived ==
  ASSUME PassInv, Sorting, NEW q \in Listed(step) \union Mine, q \in Mine' <=> q \in Mine,
         q \in Mine => merges'[q] = merges[q], q \in DOMAIN file => file'[q] = file[q]
  PROVE  Received(q)' = Received(q)
<1>1. CASE q \in Mine /\ merges[q].state \in {"queued", "failed"}
  BY <1>1 DEF Received
<1>2. CASE q \notin Mine
  BY <1>2 DEF Received, Listed
<1>3. CASE q \in Mine /\ merges[q].state = "running"
  <2>1. q \in DOMAIN file
    BY <1>3, MergeKnown DEF Mine, PassInv
  <2>2. QED
    BY <1>3, <2>1 DEF Received
<1>4. CASE q \in Mine /\ merges[q].state = "done"
  <2>1. q \in DOMAIN file
    BY <1>4 DEF Sorting, PassInv, Paired, Handed
  <2>2. QED
    BY <1>4, <2>1 DEF Received
<1>5. merges[q].state \in {"queued", "running", "done", "failed"} \/ q \notin Mine
  BY MergeKnown DEF Mine, PassInv, MergeRecord
<1>6. QED
  BY <1>1, <1>2, <1>3, <1>4, <1>5

(***************************************************************************)
(* A step of a merge leaves the other paths as they are ...                *)
(***************************************************************************)
LEMMA OthersReceive ==
  ASSUME PassInv, NEW p \in DOMAIN merges, Read2FileAndMerge(p)
  PROVE  /\ Sorting => /\ (Listed(step) \union Mine)' = Listed(step) \union Mine
                       /\ \A q \in Listed(step) \union Mine : q # p => Received(q)' = Received(q)
                       /\ p \in Listed(step) \union Mine => p \in Mine /\ pc = "pair"
         /\ pc = "pair" => /\ Listed(step - 1)' = Listed(step - 1)
                           /\ \A q \in Listed(step - 1) : file'[q] = file[q]
<1>1. /\ UNCHANGED << source, next, step, count, pc, todo, output, fresh >>
      /\ Merging(p) /\ DOMAIN merges' = DOMAIN merges /\ Mine' = Mine
      /\ \A q \in DOMAIN merges : q # p => merges'[q] = merges[q]
      /\ DOMAIN file \subseteq DOMAIN file' /\ DOMAIN file' \subseteq DOMAIN file \union {p}
      /\ \A q \in DOMAIN file : q # p => file'[q] = file[q]
  BY MergeDoes DEF PassInv
<1>2. /\ p[1] \in Nat /\ step \in Nat /\ p[1] <= step
      /\ pc \in {"split", "list"} => p[1] < step
      /\ pc = "pair" => p[1] # step - 1 /\ (p[1] = step => p \in Mine)
  BY <1>1, MergePlace, BySort DEF PassInv
<1>3. ASSUME Sorting
      PROVE  (Listed(step) \union Mine)' = Listed(step) \union Mine
  <2>1. p[1] = step => p \in Mine
    BY <1>2, <1>3 DEF Sorting
  <2>2. QED
    BY <1>1, <2>1 DEF Listed
<1>4. ASSUME Sorting, NEW q \in Listed(step) \union Mine, q # p
      PROVE  Received(q)' = Received(q)
  <2>1. q \in Mine => merges'[q] = merges[q]
    BY <1>1, <1>4 DEF Mine
  <2>2. QED
    BY <1>1, <1>4, <2>1, SameReceived
<1>5. Sorting /\ p \in Listed(step) \union Mine => p \in Mine /\ pc = "pair"
  BY <1>2 DEF Listed, Mine, Sorting
<1>6. pc = "pair" => /\ Listed(step - 1)' = Listed(step - 1)
                     /\ \A q \in Listed(step - 1) : file'[q] = file[q]
  BY <1>1, <1>2 DEF Listed
<1>7. QED
  BY <1>3, <1>4, <1>5, <1>6

(***************************************************************************)
(* ... and of its own path, takes the head of one of its files, or changes *)
(* nothing, or drops all when it fails.                                    *)
(***************************************************************************)
Takes(p) ==
  LET m == merges[p]
  IN  \/ /\ Win(m) /\ merges'[p].i = m.i + 1 /\ merges'[p].j = m.j
         /\ Received(p)' = Append(Received(p), file[m.first][m.i + 1])
      \/ /\ ~Win(m) /\ SecondLeft(m) /\ merges'[p].i = m.i /\ merges'[p].j = m.j + 1
         /\ Received(p)' = Append(Received(p), file[m.second][m.j + 1])

Settles(p) == merges'[p].i = merges[p].i /\ merges'[p].j = merges[p].j /\ Received(p)' = Received(p)

Drops(p) ==
  /\ merges'[p].i = merges[p].i /\ merges'[p].j = merges[p].j
  /\ merges'[p].state = "failed" /\ Received(p)' = << >>

LEMMA MergeReceives ==
  ASSUME PassInv, NEW p \in DOMAIN merges, Read2FileAndMerge(p), p \in Mine, pc = "pair"
  PROVE  \/ merges[p].state = "running" /\ merges'[p].state # "failed" /\ Takes(p)
         \/ merges'[p].state # "failed" /\ Settles(p)
         \/ Drops(p)
<1>1. /\ p \in Path /\ MergeTyped(merges[p], file) /\ SpentType
      /\ merges[p] \in MergeRecord
      /\ file[merges[p].first] \in Seq(Row) /\ file[merges[p].second] \in Seq(Row)
      /\ merges[p].i \in 0 .. Len(file[merges[p].first])
      /\ merges[p].j \in 0 .. Len(file[merges[p].second])
      /\ merges[p].list \in Seq(Row) /\ Len(merges[p].list) < CommitInterval
      /\ merges[p].state = "running" => p \in DOMAIN file /\ file[p] \in Seq(Row)
      /\ CommitInterval \in Nat \ {0} /\ Len(<< >>) = 0 /\ << >> \in Seq(Row)
  BY MergeKnown DEF PassInv
<1>2. Mine' = Mine
  BY MergeDoes DEF PassInv
<1>3. CASE Open(p)
  <2>1. /\ merges[p].state = "queued" /\ file'[p] = << >>
        /\ merges'[p] = [merges[p] EXCEPT !.state = "running"]
    BY <1>3 DEF Open, With
  <2>2. merges[p].list = << >>
    BY <2>1 DEF PassInv, Paired, Handed
  <2>3. /\ merges'[p].state = "running" /\ merges'[p].list = << >>
        /\ merges'[p].i = merges[p].i /\ merges'[p].j = merges[p].j
    BY <1>1, <2>1, <2>2 DEF MergeRecord
  <2>4. Received(p) = << >> /\ Received(p)' = << >> \o << >>
    BY <1>2, <2>1, <2>3 DEF Received
  <2>5. QED
    BY <2>3, <2>4 DEF Settles
<1>4. CASE End(p)
  <2>1. /\ merges[p].state = "running" /\ file'[p] = file[p] \o merges[p].list
        /\ merges'[p] = [merges[p] EXCEPT !.state = "done", !.list = << >>]
    BY <1>4 DEF End, With
  <2>2. /\ merges'[p].state = "done"
        /\ merges'[p].i = merges[p].i /\ merges'[p].j = merges[p].j
    BY <1>1, <2>1 DEF MergeRecord
  <2>3. Received(p)' = Received(p)
    BY <1>2, <2>1, <2>2 DEF Received
  <2>4. QED
    BY <2>2, <2>3 DEF Settles
<1>5. CASE Fail(p)
  <2>1. merges'[p] = [merges[p] EXCEPT !.state = "failed", !.list = << >>]
    BY <1>5 DEF Fail
  <2>2. /\ merges'[p].state = "failed"
        /\ merges'[p].i = merges[p].i /\ merges'[p].j = merges[p].j
    BY <1>1, <2>1 DEF MergeRecord
  <2>3. Received(p)' = << >>
    BY <1>2, <2>2 DEF Received
  <2>4. QED
    BY <2>2, <2>3 DEF Drops
<1>6. CASE Take(p)
  <2> DEFINE m == merges[p]
             row == IF Win(m) THEN file[m.first][m.i + 1] ELSE file[m.second][m.j + 1]
             list == Append(m.list, row)
             commit == Len(list) >= CommitInterval
             i == IF Win(m) THEN m.i + 1 ELSE m.i
             j == IF Win(m) THEN m.j ELSE m.j + 1
             rest == IF commit THEN << >> ELSE list
  <2>1. /\ m.state = "running" /\ (FirstLeft(m) \/ SecondLeft(m))
        /\ merges' = [merges EXCEPT ![p].i = i, ![p].j = j, ![p].list = rest]
        /\ file' = IF commit THEN With(file, p, file[p] \o list) ELSE file
    BY <1>6 DEF Take
  <2>2. row \in Row /\ (~Win(m) => SecondLeft(m))
    <3>1. CASE Win(m)
      <4>1. m.i + 1 \in 1 .. Len(file[m.first])
        BY <1>1, <3>1 DEF Win, FirstLeft
      <4>2. QED
        BY <1>1, <3>1, <4>1
    <3>2. CASE ~Win(m)
      <4>1. m.j < Len(file[m.second]) /\ SecondLeft(m)
        BY <2>1, <3>2 DEF Win, FirstLeft, SecondLeft
      <4>2. m.j + 1 \in 1 .. Len(file[m.second])
        BY <1>1, <4>1
      <4>3. QED
        BY <1>1, <3>2, <4>1, <4>2
    <3>3. QED
      BY <3>1, <3>2
  <2>3. file[p] \o list = Append(file[p] \o m.list, row) /\ file[p] \o list \in Seq(Row)
    <3> HIDE DEF row
    <3>1. QED
      BY <1>1, <2>1, <2>2, ConcatAppend
  <2>4. merges'[p] = [m EXCEPT !.i = i, !.j = j, !.list = rest]
    BY <2>1
  <2>5. merges'[p].i = i /\ merges'[p].j = j /\ merges'[p].list = rest /\ merges'[p].state = "running"
    <3> HIDE DEF i, j, rest
    <3>1. QED
      BY <1>1, <2>1, <2>4 DEF MergeRecord
  <2>6. Received(p) = file[p] \o m.list /\ Received(p)' = file'[p] \o merges'[p].list
    BY <1>2, <2>1, <2>5 DEF Received
  <2>7. file'[p] \o merges'[p].list = file[p] \o list
    <3> HIDE DEF list
    <3>1. CASE commit
      <4>1. file'[p] = file[p] \o list /\ merges'[p].list = << >>
        BY <2>1, <2>5, <3>1 DEF With
      <4>2. QED
        BY <2>3, <4>1
    <3>2. CASE ~commit
      BY <2>1, <2>5, <3>2
    <3>3. QED
      BY <3>1, <3>2
  <2>8. Received(p)' = Append(Received(p), row)
    BY <2>3, <2>6, <2>7
  <2>9. Takes(p)
    <3>1. CASE Win(m)
      BY <2>5, <2>8, <3>1 DEF Takes
    <3>2. CASE ~Win(m)
      BY <2>2, <2>5, <2>8, <3>2 DEF Takes
    <3>3. QED
      BY <3>1, <3>2
  <2>10. QED
    BY <2>1, <2>5, <2>9
<1>7. QED
  BY <1>3, <1>4, <1>5, <1>6 DEF Read2FileAndMerge

-----------------------------------------------------------------------------
(***************************************************************************)
(* The steps preserve the order.                                           *)
(***************************************************************************)
LEMMA Remainder ==
  ASSUME NEW b \in Nat \ {0}, NEW q \in Nat, NEW r \in 0 .. b - 1
  PROVE  (q * b + r) % b = r
<1> DEFINE n == q * b + r
<1>1. n \in Nat
  OBVIOUS
<1>2. n = q * b + r
  OBVIOUS
<1> HIDE DEF n
<1>3. PICK p \in Nat, s \in 0 .. b - 1 : n = p * b + s /\ n % b = s
  <2>1. n = (n \div b) * b + (n % b) /\ n \div b \in Nat /\ n % b \in 0 .. b - 1
    BY <1>1
  <2>2. QED
    BY <2>1
<1>4. CASE q > p
  <2>1. (q - p) * b >= b
    BY <1>4
  <2>2. (q - p) * b = q * b - p * b
    OBVIOUS
  <2>3. QED
    BY <1>2, <1>3, <2>1, <2>2
<1>5. CASE q < p
  <2>1. (p - q) * b >= b
    BY <1>5
  <2>2. (p - q) * b = p * b - q * b
    OBVIOUS
  <2>3. QED
    BY <1>2, <1>3, <2>1, <2>2
<1>6. CASE q = p
  BY <1>2, <1>3, <1>6 DEF n
<1>7. QED
  BY <1>4, <1>5, <1>6

LEMMA Quotient ==
  ASSUME NEW k \in Nat, NEW b \in Nat \ {0}, k % b = 0
  PROVE  \E q \in Nat : k = q * b
<1>1. k = (k \div b) * b + (k % b) /\ k \div b \in Nat
  OBVIOUS
<1>2. QED
  BY <1>1

LEMMA SplitEnds ==
  ASSUME NEW n \in Nat, NEW k \in Nat, NEW b \in Nat \ {0}, k % b = 0, k <= n, n < k + b
  PROVE  n - (n % b) = k
<1>1. PICK q \in Nat : k = q * b
  BY Quotient
<1>2. n = q * b + (n - k) /\ n - k \in 0 .. b - 1
  BY <1>1
<1>3. (q * b + (n - k)) % b = n - k
  BY <1>2, Remainder
<1>4. QED
  BY <1>2, <1>3

LEMMA SplitGoesOn ==
  ASSUME NEW k \in Nat, NEW b \in Nat \ {0}, k % b = 0
  PROVE  (k + b) % b = 0
<1>1. PICK q \in Nat : k = q * b
  BY Quotient
<1>2. k + b = (q + 1) * b + 0 /\ q + 1 \in Nat /\ 0 \in 0 .. b - 1
  BY <1>1
<1>3. ((q + 1) * b + 0) % b = 0
  BY <1>2, Remainder
<1>4. QED
  BY <1>2, <1>3

LEMMA SortedRows ==
  ASSUME NEW rows \in Seq(Row), NEW t \in SortsOf(rows)
  PROVE  InOrder(t)
<1>1. t \in Seq(Row) /\ DOMAIN t = 1 .. Len(rows)
  BY SortsType DEF SortsOf
<1>2. \A i, j \in DOMAIN t : i < j => PairsBefore(t[i], t[j])
  BY <1>1 DEF SortsOf
<1>3. \A i \in DOMAIN t : t[i].key \in Int
  <2>1. \A r \in Row : r.key \in Int
    BY DEF Row
  <2>2. QED
    BY <1>1, <2>1
<1>4. QED
  BY <1>2, <1>3 DEF InOrder, PairsBefore

(***************************************************************************)
(* A head that is not after the other head keeps the order.                *)
(***************************************************************************)
LEMMA TakeInOrder ==
  ASSUME NEW rows \in Seq(Row), NEW a \in Seq(Row), NEW b \in Seq(Row), NEW i \in Nat, NEW j \in Nat,
         InOrder(rows), InOrder(a), InOrder(b), Before(rows, a, i), Before(rows, b, j),
         i < Len(a), j < Len(b) => a[i + 1].key <= b[j + 1].key
  PROVE  /\ InOrder(Append(rows, a[i + 1]))
         /\ Before(Append(rows, a[i + 1]), a, i + 1)
         /\ Before(Append(rows, a[i + 1]), b, j)
<1> DEFINE row == a[i + 1]
           out == Append(rows, row)
<1>1. i + 1 \in DOMAIN a /\ row \in Row
  OBVIOUS
<1>2. \A r \in Row : r.key \in Int
  BY DEF Row
<1>3. row.key \in Int /\ \A k \in DOMAIN a : a[k].key \in Int
  BY <1>1, <1>2
<1>4. /\ \A k \in DOMAIN b : b[k].key \in Int
      /\ \A k \in DOMAIN rows : rows[k].key \in Int
  BY <1>2
<1>5. \A k \in DOMAIN rows : rows[k].key <= row.key
  BY <1>1 DEF Before
<1>6. \A k \in DOMAIN a : k > i => row.key <= a[k].key
  BY <1>1, <1>3 DEF InOrder
<1>7. \A k \in DOMAIN b : k > j => row.key <= b[k].key
  <2>1. SUFFICES ASSUME NEW k \in DOMAIN b, k > j
                 PROVE  row.key <= b[k].key
    OBVIOUS
  <2>2. j + 1 \in DOMAIN b /\ j < Len(b)
    BY <2>1
  <2>3. b[j + 1].key <= b[k].key
    BY <1>4, <2>1, <2>2 DEF InOrder
  <2>4. QED
    BY <1>3, <1>4, <2>2, <2>3
<1> HIDE DEF row
<1>8. /\ out \in Seq(Row) /\ DOMAIN out = DOMAIN rows \union {Len(rows) + 1}
      /\ out[Len(rows) + 1] = row /\ \A k \in DOMAIN rows : out[k] = rows[k] /\ k \in 1 .. Len(rows)
      /\ Len(rows) \in Nat
  BY <1>1 DEF row
<1> HIDE DEF out
<1>9. InOrder(out)
  BY <1>3, <1>4, <1>5, <1>8 DEF InOrder
<1>10. Before(out, a, i + 1)
  <2>1. \A k \in DOMAIN a : k > i + 1 => k > i
    OBVIOUS
  <2>2. QED
    BY <1>6, <1>8, <2>1 DEF Before
<1>11. Before(out, b, j)
  BY <1>7, <1>8 DEF Before
<1>12. QED
  BY <1>9, <1>10, <1>11 DEF out, row

LEMMA WinnerFirst ==
  ASSUME PassInv, NEW p \in Mine, pc = "pair", Takes(p), InOrder(Received(p)), Merged(p),
         InOrder(file[merges[p].first]), InOrder(file[merges[p].second])
  PROVE  /\ InOrder(Received(p)')
         /\ Before(Received(p)', file[merges[p].first], merges'[p].i)
         /\ Before(Received(p)', file[merges[p].second], merges'[p].j)
<1> DEFINE m == merges[p]
           a == file[m.first]
           b == file[m.second]
           rows == Received(p)
<1>1. /\ a \in Seq(Row) /\ b \in Seq(Row) /\ m.i \in Nat /\ m.j \in Nat
  BY MergeKnown DEF PassInv, Mine
<1>2. rows \in Seq(Row)
  BY ReceivedType DEF Sorting
<1>3. InOrder(rows) /\ InOrder(a) /\ InOrder(b) /\ Before(rows, a, m.i) /\ Before(rows, b, m.j)
  BY DEF Merged
<1>4. CASE Win(m)
  <2>1. /\ merges'[p].i = m.i + 1 /\ merges'[p].j = m.j
        /\ Received(p)' = Append(rows, a[m.i + 1])
    BY <1>4 DEF Takes
  <2>2. m.i < Len(a) /\ (m.j < Len(b) => a[m.i + 1].key <= b[m.j + 1].key)
    BY <1>4 DEF Win, FirstLeft, SecondLeft
  <2> HIDE DEF a, b, rows
  <2>3. /\ InOrder(Append(rows, a[m.i + 1]))
        /\ Before(Append(rows, a[m.i + 1]), a, m.i + 1)
        /\ Before(Append(rows, a[m.i + 1]), b, m.j)
    BY <1>1, <1>2, <1>3, <2>2, TakeInOrder
  <2>4. QED
    BY <2>1, <2>3 DEF a, b
<1>5. CASE ~Win(m)
  <2>1. /\ merges'[p].i = m.i /\ merges'[p].j = m.j + 1 /\ SecondLeft(m)
        /\ Received(p)' = Append(rows, b[m.j + 1])
    BY <1>5 DEF Takes
  <2>2. m.j < Len(b) /\ (m.i < Len(a) => ~(a[m.i + 1].key <= b[m.j + 1].key))
    BY <1>5, <2>1 DEF Win, FirstLeft, SecondLeft
  <2> HIDE DEF a, b, rows
  <2>3. m.i < Len(a) => b[m.j + 1].key <= a[m.i + 1].key
    <3>1. SUFFICES ASSUME m.i < Len(a)
                   PROVE  b[m.j + 1].key <= a[m.i + 1].key
      OBVIOUS
    <3>2. a[m.i + 1] \in Row /\ b[m.j + 1] \in Row
      BY <1>1, <2>2, <3>1
    <3>3. a[m.i + 1].key \in Int /\ b[m.j + 1].key \in Int
      BY <3>2 DEF Row
    <3>4. QED
      BY <2>2, <3>1, <3>3
  <2>4. /\ InOrder(Append(rows, b[m.j + 1]))
        /\ Before(Append(rows, b[m.j + 1]), b, m.j + 1)
        /\ Before(Append(rows, b[m.j + 1]), a, m.i)
    BY <1>1, <1>2, <1>3, <2>2, <2>3, TakeInOrder
  <2>5. QED
    BY <2>1, <2>4 DEF a, b
<1>6. QED
  BY <1>4, <1>5

LEMMA StartSort_Order ==
  ASSUME OrderInv, NEW keys \in Inputs, StartSort(keys)
  PROVE  Ordered' /\ MergesKeepOrder'
<1>1. /\ step' = step + 1 /\ pc' = "split" /\ next' = 0 /\ Mine' = {}
      /\ DOMAIN file' = DOMAIN file \union {<< step + 1, 1 >>}
      /\ file'[<< step + 1, 1 >>] = << >>
      /\ fresh' => \A q \in DOMAIN file : q[1] <= step
  BY StartSortDoes DEF OrderInv, PassInv
<1>2. step \in Nat /\ MaxLineCount \in Nat \ {0}
  BY BySort, MergeSortAssumption DEF OrderInv, PassInv
<1>3. ASSUME fresh', NEW p \in Listed(step)' \union Mine'
      PROVE  InOrder(Received(p)')
  <2>1. p = << step + 1, 1 >>
    BY <1>1, <1>2, <1>3 DEF Listed
  <2>2. Received(p)' = << >>
    BY <1>1, <2>1 DEF Received
  <2>3. QED
    BY <2>2, NoneInOrder
<1>4. next' % MaxLineCount = 0
  <2>1. (0 * MaxLineCount + 0) % MaxLineCount = 0
    BY <1>2, Remainder
  <2>2. QED
    BY <1>1, <1>2, <2>1
<1>5. QED
  BY <1>1, <1>3, <1>4 DEF Ordered, MergesKeepOrder

LEMMA SplitFile_Order ==
  ASSUME OrderInv, SplitFile
  PROVE  Ordered' /\ MergesKeepOrder'
<1>1. /\ UNCHANGED << source, step, pc, todo, merges, output, fresh, spent >> /\ pc = "split"
      /\ count' = count + 1 /\ next' = next + MaxLineCount /\ next' <= Len(source)
      /\ DOMAIN file' = DOMAIN file \union {<< step, count >>, << step, count + 1 >>}
      /\ file'[<< step, count >>] \in SortsOf(SubSeq(source, next + 1, next + MaxLineCount))
      /\ file'[<< step, count + 1 >>] = << >>
      /\ \A q \in DOMAIN file :
           q # << step, count >> /\ q # << step, count + 1 >> => file'[q] = file[q]
  BY SplitFileDoes DEF OrderInv, PassInv
<1>2. next \in Nat /\ source \in Seq(Row) /\ MaxLineCount \in Nat \ {0}
  BY BySort, MergeSortAssumption DEF OrderInv, PassInv
<1>3. Mine = {} /\ Mine' = {}
  BY <1>1 DEF OrderInv, PassInv, Paired, Mine
<1>4. SUFFICES ASSUME fresh, InOrder(LastRows)
               PROVE  /\ \A p \in Listed(step)' : InOrder(Received(p)')
                      /\ next' % MaxLineCount = 0
  BY <1>1, <1>3 DEF Ordered, MergesKeepOrder, LastRows
<1>5. ASSUME NEW p \in Listed(step)'
      PROVE  InOrder(Received(p)')
  <2>1. Received(p)' = file'[p]
    BY <1>3 DEF Received
  <2>2. CASE p = << step, count >>
    <3> DEFINE chunk == SubSeq(source, next + 1, next + MaxLineCount)
    <3>1. chunk \in Seq(Row)
      BY <1>1, <1>2
    <3>2. file'[p] \in SortsOf(chunk)
      BY <1>1, <2>2
    <3> HIDE DEF chunk
    <3>3. QED
      BY <2>1, <3>1, <3>2, SortedRows
  <2>3. CASE p = << step, count + 1 >>
    BY <1>1, <2>1, <2>3, NoneInOrder
  <2>4. CASE p # << step, count >> /\ p # << step, count + 1 >>
    <3>1. p \in Listed(step) /\ file'[p] = file[p]
      BY <1>1, <2>4 DEF Listed
    <3>2. InOrder(Received(p)) /\ Received(p) = file[p]
      BY <1>1, <1>3, <1>4, <3>1 DEF OrderInv, Ordered, Received, Sorting
    <3>3. QED
      BY <2>1, <3>1, <3>2
  <2>5. QED
    BY <2>2, <2>3, <2>4
<1>6. next' % MaxLineCount = 0
  BY <1>1, <1>2, <1>4, SplitGoesOn DEF OrderInv, Ordered, Sorting
<1>7. QED
  BY <1>5, <1>6

LEMMA SplitRest_Order ==
  ASSUME OrderInv, SplitRest
  PROVE  Ordered' /\ MergesKeepOrder'
<1>1. /\ UNCHANGED << source, step, count, todo, merges, output, fresh, spent >>
      /\ pc = "split" /\ pc' = "list" /\ next' = Len(source) /\ next + MaxLineCount > Len(source)
      /\ DOMAIN file' = DOMAIN file \union {<< step, count >>}
      /\ file'[<< step, count >>] = SubSeq(source, next + 1, Len(source))
      /\ \A q \in DOMAIN file : q # << step, count >> => file'[q] = file[q]
  BY SplitRestDoes DEF OrderInv, PassInv
<1>2. next \in 0 .. Len(source) /\ Len(source) \in Nat /\ MaxLineCount \in Nat \ {0}
  BY BySort, MergeSortAssumption DEF OrderInv, PassInv
<1>3. Mine = {} /\ Mine' = {}
  BY <1>1 DEF OrderInv, PassInv, Paired, Mine
<1>4. SUFFICES ASSUME fresh, InOrder(LastRows)
               PROVE  \A p \in Listed(step)' : InOrder(Received(p)')
  BY <1>1, <1>3 DEF Ordered, MergesKeepOrder, LastRows
<1>5. file'[<< step, count >>] = LastRows
  <2>1. next % MaxLineCount = 0
    BY <1>1, <1>4 DEF OrderInv, Ordered, Sorting
  <2>2. next \in Nat /\ next <= Len(source) /\ Len(source) < next + MaxLineCount
    BY <1>1, <1>2
  <2>3. Len(source) - (Len(source) % MaxLineCount) = next
    BY <1>2, <2>1, <2>2, SplitEnds
  <2>4. QED
    BY <1>1, <2>3 DEF LastRows
<1>6. ASSUME NEW p \in Listed(step)'
      PROVE  InOrder(Received(p)')
  <2>1. Received(p)' = file'[p]
    BY <1>3 DEF Received
  <2>2. CASE p = << step, count >>
    BY <1>4, <1>5, <2>1, <2>2
  <2>3. CASE p # << step, count >>
    <3>1. p \in Listed(step) /\ file'[p] = file[p]
      BY <1>1, <2>3 DEF Listed
    <3>2. InOrder(Received(p)) /\ Received(p) = file[p]
      BY <1>1, <1>3, <1>4, <3>1 DEF OrderInv, Ordered, Received, Sorting
    <3>3. QED
      BY <2>1, <3>1, <3>2
  <2>4. QED
    BY <2>2, <2>3
<1>7. QED
  BY <1>6

(***************************************************************************)
(* When a pass has ended, a path has received what its file holds.         *)
(***************************************************************************)
LEMMA ListReceived ==
  ASSUME PassInv, pc = "list", NEW p \in Listed(step)
  PROVE  Received(p) = file[p]
  BY DEF PassInv, Paired, Received

LEMMA NextPass_Order ==
  ASSUME OrderInv, NextPass
  PROVE  Ordered' /\ MergesKeepOrder'
<1>1. /\ UNCHANGED << source, next, file, output, fresh, spent >>
      /\ step' = step + 1 /\ pc = "list" /\ pc' = "pair" /\ Mine' = {}
  BY NextPassDoes DEF OrderInv, PassInv
<1>2. step \in Nat /\ \A p \in DOMAIN file : p[1] \in Nat
  BY BySort DEF OrderInv, PassInv
<1>3. SUFFICES ASSUME fresh, InOrder(LastRows)
               PROVE  /\ \A p \in Listed(step)' : InOrder(Received(p)')
                      /\ \A q \in Listed(step - 1)' : InOrder(file[q])
  BY <1>1 DEF Ordered, MergesKeepOrder, LastRows
<1>4. Listed(step)' = {} /\ Listed(step - 1)' = Listed(step)
  BY <1>1, <1>2, <1>3 DEF OrderInv, PassInv, Beyond, Sorting, Listed
<1>5. \A q \in Listed(step) : InOrder(file[q])
  BY <1>1, <1>3, ListReceived DEF OrderInv, Ordered, Sorting
<1>6. QED
  BY <1>4, <1>5

LEMMA Finish_Order ==
  ASSUME OrderInv, Finish
  PROVE  Ordered' /\ MergesKeepOrder'
<1>1. PICK p \in Listed(step) : output' = file[p]
  BY DEF Finish
<1>2. pc = "list" /\ pc' = "done" /\ UNCHANGED << source, fresh >>
  BY DEF Finish
<1>3. fresh /\ InOrder(LastRows) => InOrder(output')
  <2>1. Received(p) = file[p]
    BY <1>2, ListReceived DEF OrderInv
  <2>2. QED
    BY <1>1, <1>2, <2>1 DEF OrderInv, Ordered, Sorting
<1>4. QED
  BY <1>2, <1>3 DEF Ordered, MergesKeepOrder, LastRows, Sorting

LEMMA Pair_Order ==
  ASSUME OrderInv, Pair
  PROVE  Ordered' /\ MergesKeepOrder'
<1>0. PICK p : p = << step, count + 1 >>
  OBVIOUS
<1>1. /\ UNCHANGED << source, next, file, step, pc, output, fresh, spent >> /\ pc = "pair"
      /\ p \notin DOMAIN merges /\ DOMAIN merges' = DOMAIN merges \union {p}
      /\ merges'[p] = Merge(todo[1], todo[2])
      /\ \A q \in DOMAIN merges : merges'[q] = merges[q]
      /\ Mine' = Mine \union {p}
  BY <1>0, PairDoes DEF OrderInv, PassInv
<1>2. SUFFICES ASSUME fresh, InOrder(LastRows)
               PROVE  /\ \A q \in Listed(step)' \union Mine' : InOrder(Received(q)')
                      /\ \A q \in Listed(step - 1)' : InOrder(file[q])
                      /\ \A q \in Mine' : Merged(q)'
  BY <1>1 DEF Ordered, MergesKeepOrder, LastRows
<1>3. Listed(step)' = Listed(step) /\ Listed(step - 1)' = Listed(step - 1)
  BY <1>1 DEF Listed
<1>4. ASSUME NEW q \in Listed(step) \union Mine, q # p
      PROVE  Received(q)' = Received(q)
  <2>1. q \in Mine => merges'[q] = merges[q]
    BY <1>1 DEF Mine
  <2>2. QED
    BY <1>1, <1>4, <2>1, SameReceived DEF OrderInv, Sorting
<1>5. Received(p)' = << >>
  BY <1>1 DEF Received, Merge
<1>6. ASSUME NEW q \in Mine
      PROVE  Merged(q)'
  <2>1. q \in DOMAIN merges /\ q # p /\ Merged(q)
    BY <1>1, <1>2 DEF OrderInv, Ordered, Sorting, Mine
  <2>2. QED
    BY <1>1, <1>4, <2>1 DEF Merged
<1>7. Merged(p)'
  BY <1>5 DEF Merged, Before
<1>8. \A q \in Listed(step)' \union Mine' : InOrder(Received(q)')
  BY <1>1, <1>2, <1>3, <1>4, <1>5, NoneInOrder DEF OrderInv, Ordered, Sorting
<1>9. \A q \in Listed(step - 1)' : InOrder(file[q])
  BY <1>1, <1>2, <1>3 DEF OrderInv, Ordered, Sorting
<1>10. QED
  BY <1>1, <1>6, <1>7, <1>8, <1>9

LEMMA CopyOdd_Order ==
  ASSUME OrderInv, CopyOdd
  PROVE  Ordered' /\ MergesKeepOrder'
<1>0. PICK p : p = << step, count + 1 >>
  OBVIOUS
<1>1. /\ UNCHANGED << source, next, step, pc, merges, output, fresh, spent >> /\ pc = "pair"
      /\ todo[1] \in Listed(step - 1)
      /\ DOMAIN file' = DOMAIN file \union {p} /\ file'[p] = file[todo[1]]
      /\ \A q \in DOMAIN file : q # p => file'[q] = file[q]
  BY <1>0, CopyOddDoes DEF OrderInv, PassInv
<1>2. SUFFICES ASSUME fresh, InOrder(LastRows)
               PROVE  /\ \A q \in Listed(step)' \union Mine' : InOrder(Received(q)')
                      /\ \A q \in Listed(step - 1)' : InOrder(file'[q])
                      /\ \A q \in Mine' : Merged(q)'
  BY <1>1 DEF Ordered, MergesKeepOrder, LastRows
<1>3. step \in Nat /\ count \in Nat /\ p[1] = step
  BY <1>0, BySort DEF OrderInv, PassInv
<1>4. /\ Listed(step)' = Listed(step) \union {p} /\ Listed(step - 1)' = Listed(step - 1)
      /\ \A q \in Listed(step - 1) : file'[q] = file[q]
      /\ Mine' = Mine /\ p \notin Mine
  <2>1. p \notin Mine
    BY <1>0, <1>1, <1>3 DEF OrderInv, PassInv, Paired, Handed
  <2>2. QED
    BY <1>1, <1>3, <2>1 DEF Listed, Mine
<1>5. ASSUME NEW q \in Listed(step) \union Mine, q # p
      PROVE  Received(q)' = Received(q)
  <2>1. q \in DOMAIN file => file'[q] = file[q]
    BY <1>1, <1>5
  <2>2. QED
    BY <1>1, <1>4, <2>1, SameReceived DEF OrderInv, Sorting
<1>6. InOrder(Received(p)')
  <2>1. Received(p)' = file[todo[1]]
    BY <1>1, <1>4 DEF Received
  <2>2. QED
    BY <1>1, <1>2, <2>1 DEF OrderInv, Ordered, Sorting
<1>7. ASSUME NEW q \in Mine
      PROVE  Merged(q)'
  <2>1. q \in DOMAIN merges /\ q # p /\ Merged(q) /\ q[1] = step
    BY <1>1, <1>2, <1>4 DEF OrderInv, Ordered, Sorting, Mine
  <2>2. merges[q].first \in Listed(step - 1) /\ merges[q].second \in Listed(step - 1)
    BY <2>1, BySort DEF OrderInv, PassInv, Listed
  <2>3. QED
    BY <1>1, <1>4, <1>5, <2>1, <2>2 DEF Merged
<1>8. \A q \in Listed(step)' \union Mine' : InOrder(Received(q)')
  BY <1>1, <1>2, <1>4, <1>5, <1>6 DEF OrderInv, Ordered, Sorting
<1>9. \A q \in Listed(step - 1)' : InOrder(file'[q])
  BY <1>1, <1>2, <1>4 DEF OrderInv, Ordered, Sorting
<1>10. QED
  BY <1>4, <1>7, <1>8, <1>9

LEMMA PassEnds_Order ==
  ASSUME OrderInv, PassEnds
  PROVE  Ordered' /\ MergesKeepOrder'
<1>1. UNCHANGED << source, file, step, merges, fresh >> /\ pc = "pair" /\ pc' = "list"
  BY DEF PassEnds
<1>2. Mine' = Mine /\ Listed(step)' = Listed(step)
  BY <1>1 DEF Mine, Listed
<1>3. \A q \in Listed(step) \union Mine : Received(q)' = Received(q)
  BY <1>1, <1>2 DEF Received
<1>4. QED
  BY <1>1, <1>2, <1>3 DEF OrderInv, Ordered, MergesKeepOrder, LastRows, Sorting

LEMMA SortStops_Order ==
  ASSUME PassFails \/ SplitFails \/ CopyFails \/ RenameFails \/ Kill
  PROVE  Ordered' /\ MergesKeepOrder'
<1>1. pc' = "idle"
  BY DEF PassFails, SplitFails, CopyFails, RenameFails, Kill
<1>2. QED
  BY <1>1 DEF Ordered, MergesKeepOrder, Sorting

LEMMA Read2FileAndMerge_Order ==
  ASSUME OrderInv, NEW p \in DOMAIN merges, Read2FileAndMerge(p)
  PROVE  Ordered' /\ MergesKeepOrder'
<1>1. /\ UNCHANGED << source, next, step, count, pc, todo, output, fresh >>
      /\ DOMAIN merges' = DOMAIN merges /\ Mine' = Mine
      /\ \A q \in DOMAIN merges : q # p => merges'[q] = merges[q]
      /\ \A q \in DOMAIN merges :
           merges'[q].first = merges[q].first /\ merges'[q].second = merges[q].second
  BY MergeDoes DEF OrderInv, PassInv
<1>2. MergesKeepOrder'
  BY <1>1 DEF OrderInv, MergesKeepOrder, LastRows
<1>3. Ordered'
  <2>1. SUFFICES ASSUME Sorting, fresh, InOrder(LastRows)
                 PROVE  /\ \A q \in (Listed(step) \union Mine)' : InOrder(Received(q)')
                        /\ pc = "pair" => /\ \A q \in Listed(step - 1)' : InOrder(file'[q])
                                          /\ \A q \in Mine : Merged(q)'
    BY <1>1 DEF OrderInv, Ordered, LastRows, Sorting
  <2>2. /\ (Listed(step) \union Mine)' = Listed(step) \union Mine
        /\ \A q \in Listed(step) \union Mine : q # p => Received(q)' = Received(q)
        /\ p \in Listed(step) \union Mine => p \in Mine /\ pc = "pair"
        /\ pc = "pair" => /\ Listed(step - 1)' = Listed(step - 1)
                          /\ \A q \in Listed(step - 1) : file'[q] = file[q]
    BY <2>1, OthersReceive DEF OrderInv
  <2>3. /\ \A q \in Listed(step) \union Mine : InOrder(Received(q))
        /\ pc = "pair" => /\ \A q \in Listed(step - 1) : InOrder(file[q])
                          /\ \A q \in Mine : Merged(q)
    BY <2>1 DEF OrderInv, Ordered
  <2>4. \A q \in Mine : /\ q \in DOMAIN merges
                        /\ merges[q].first \in Listed(step - 1)
                        /\ merges[q].second \in Listed(step - 1)
    BY BySort DEF OrderInv, PassInv, Listed, Mine
  <2>5. ASSUME pc = "pair", p \in Mine
        PROVE  InOrder(Received(p)') /\ Merged(p)'
    <3>1. /\ file'[merges'[p].first] = file[merges[p].first]
          /\ file'[merges'[p].second] = file[merges[p].second]
          /\ InOrder(file[merges[p].first]) /\ InOrder(file[merges[p].second])
          /\ InOrder(Received(p)) /\ Merged(p)
      BY <1>1, <2>2, <2>3, <2>4, <2>5
    <3>2. CASE Takes(p)
      <4>1. /\ InOrder(Received(p)')
            /\ Before(Received(p)', file[merges[p].first], merges'[p].i)
            /\ Before(Received(p)', file[merges[p].second], merges'[p].j)
        BY <2>5, <3>1, <3>2, WinnerFirst DEF OrderInv
      <4>2. QED
        BY <3>1, <4>1 DEF Merged
    <3>3. CASE Settles(p)
      BY <3>1, <3>3 DEF Settles, Merged
    <3>4. CASE Drops(p)
      BY <3>4, NoneInOrder DEF Drops, Merged, Before
    <3>5. QED
      BY <2>5, <3>2, <3>3, <3>4, MergeReceives DEF OrderInv
  <2>6. \A q \in (Listed(step) \union Mine)' : InOrder(Received(q)')
    BY <2>2, <2>3, <2>5
  <2>7. ASSUME pc = "pair", NEW q \in Mine
        PROVE  Merged(q)'
    <3>1. CASE q = p
      BY <2>5, <2>7, <3>1
    <3>2. CASE q # p
      <4>1. /\ merges'[q] = merges[q] /\ Received(q)' = Received(q) /\ Merged(q)
            /\ file'[merges[q].first] = file[merges[q].first]
            /\ file'[merges[q].second] = file[merges[q].second]
        BY <1>1, <2>2, <2>3, <2>4, <2>7, <3>2
      <4>2. QED
        BY <4>1 DEF Merged
    <3>3. QED
      BY <3>1, <3>2
  <2>8. QED
    BY <2>2, <2>3, <2>6, <2>7
<1>4. QED
  BY <1>2, <1>3

LEMMA Init_OrderInv == Init => OrderInv
<1>1. Init => Ordered /\ MergesKeepOrder
  BY DEF Init, Ordered, MergesKeepOrder, Sorting
<1>2. QED
  BY <1>1, Init_PassInv DEF OrderInv

LEMMA OrderInv_Next ==
  ASSUME OrderInv, [Next]_vars
  PROVE  OrderInv'
<1>1. PassInv'
  BY PassInv_Next DEF OrderInv
<1>2. ASSUME Sorter
      PROVE  Ordered' /\ MergesKeepOrder'
  BY <1>2, StartSort_Order, SplitFile_Order, SplitRest_Order, NextPass_Order, Finish_Order,
     Pair_Order, CopyOdd_Order, PassEnds_Order, SortStops_Order DEF Sorter
<1>3. ASSUME UNCHANGED vars
      PROVE  Ordered' /\ MergesKeepOrder'
  BY <1>3 DEF vars, OrderInv, Ordered, MergesKeepOrder, Sorting, LastRows, Listed, Mine, Received,
     Merged
<1>4. QED
  BY <1>1, <1>2, <1>3, Read2FileAndMerge_Order, SortStops_Order DEF Next, OrderInv

(***************************************************************************)
(* The merges keep order, for every input, every size of the files, every  *)
(* order in which files are listed and merges are interleaved.             *)
(* (MergeSortor.Read2FileAndMerge.call)                                    *)
(***************************************************************************)
THEOREM OrderIsKept == Spec => []MergesKeepOrder
<1>1. OrderInv => MergesKeepOrder
  BY DEF OrderInv
<1>2. QED
  BY <1>1, Init_OrderInv, OrderInv_Next, PTL DEF Spec

-----------------------------------------------------------------------------
(***************************************************************************)
(* Rows are told apart by the call of sort() they belong to: no file and   *)
(* no merge holds a row of a call that is yet to come.                     *)
(***************************************************************************)
RowsUntil(rows, n) == \A i \in DOMAIN rows : rows[i].at[1] <= n

Dated ==
  /\ \A k \in DOMAIN source : source[k].at = << spent.sorts, k >>
  /\ \A p \in DOMAIN file : RowsUntil(file[p], spent.sorts)
  /\ \A p \in DOMAIN merges : RowsUntil(merges[p].list, spent.sorts)

LEMMA SortsNat == IInv => spent.sorts \in Nat /\ MaxSorts \in Nat
  BY MergeSortAssumption DEF IInv, TypeOK

LEMMA FaultSorts == IInv /\ Fault => spent'.sorts = spent.sorts
  BY DEF Fault, IInv, TypeOK

LEMMA UntilConcat ==
  ASSUME NEW s \in Seq(Row), NEW t \in Seq(Row), NEW n, RowsUntil(s, n), RowsUntil(t, n)
  PROVE  RowsUntil(s \o t, n)
<1> SUFFICES ASSUME NEW i \in DOMAIN (s \o t)
             PROVE  (s \o t)[i].at[1] <= n
  BY DEF RowsUntil
<1>1. i \in DOMAIN s \/ i - Len(s) \in DOMAIN t
  OBVIOUS
<1>2. (s \o t)[i] = IF i \in DOMAIN s THEN s[i] ELSE t[i - Len(s)]
  OBVIOUS
<1>3. QED
  BY <1>1, <1>2 DEF RowsUntil

LEMMA UntilAppend ==
  ASSUME NEW s \in Seq(Row), NEW row \in Row, NEW n, RowsUntil(s, n), row.at[1] <= n
  PROVE  RowsUntil(Append(s, row), n)
  BY DEF RowsUntil

LEMMA UntilPart ==
  ASSUME NEW s \in Seq(Row), NEW a \in Nat, NEW b \in 0 .. Len(s), NEW n, RowsUntil(s, n)
  PROVE  RowsUntil(SubSeq(s, a + 1, b), n)
<1> SUFFICES ASSUME NEW i \in DOMAIN SubSeq(s, a + 1, b)
             PROVE  SubSeq(s, a + 1, b)[i].at[1] <= n
  BY DEF RowsUntil
<1>1. SubSeq(s, a + 1, b)[i] = s[a + i] /\ a + i \in DOMAIN s
  OBVIOUS
<1>2. QED
  BY <1>1 DEF RowsUntil

LEMMA UntilSorts ==
  ASSUME NEW s \in Seq(Row), NEW t \in SortsOf(s), NEW n, RowsUntil(s, n)
  PROVE  RowsUntil(t, n)
<1>1. \A i \in DOMAIN t : \E j \in DOMAIN s : t[i] = s[j]
  BY DEF SortsOf, RangeOf
<1>2. QED
  BY <1>1 DEF RowsUntil

LEMMA UntilSource ==
  ASSUME IInv, Dated
  PROVE  RowsUntil(source, spent.sorts)
<1>1. spent.sorts \in Nat
  BY SortsNat
<1>2. \A k \in DOMAIN source : source[k].at[1] = spent.sorts
  BY DEF Dated
<1>3. QED
  BY <1>1, <1>2 DEF RowsUntil

LEMMA StartSort_Dated ==
  ASSUME IInv, Dated, NEW keys \in Inputs, StartSort(keys)
  PROVE  Dated'
<1>1. /\ DOMAIN file' = DOMAIN file \union {<< step + 1, 1 >>}
      /\ file'[<< step + 1, 1 >>] = << >>
      /\ \A q \in DOMAIN file : q # << step + 1, 1 >> => file'[q] = file[q]
  BY StartSortDoes
<1>2. /\ source' = [i \in 1 .. Len(keys) |-> [key |-> keys[i], at |-> << spent.sorts + 1, i >>]]
      /\ spent' = [spent EXCEPT !.sorts = spent.sorts + 1] /\ merges' = StillMerging
  BY DEF StartSort
<1>3. spent'.sorts = spent.sorts + 1 /\ spent.sorts \in Nat
  BY <1>2, SortsNat DEF IInv, TypeOK
<1>4. \A k \in DOMAIN source' : source'[k].at = << spent'.sorts, k >>
  BY <1>2, <1>3
<1>5. \A r \in Row : r.at[1] \in Nat
  BY DEF Row
<1>6. ASSUME NEW rows \in Seq(Row), RowsUntil(rows, spent.sorts)
      PROVE  RowsUntil(rows, spent'.sorts)
  <2>1. \A i \in DOMAIN rows : rows[i] \in Row
    OBVIOUS
  <2>2. QED
    BY <1>3, <1>5, <1>6, <2>1 DEF RowsUntil
<1>7. \A p \in DOMAIN file' : RowsUntil(file'[p], spent'.sorts)
  <2>1. RowsUntil(<< >>, spent'.sorts)
    BY DEF RowsUntil
  <2>2. \A p \in DOMAIN file : RowsUntil(file[p], spent'.sorts)
    BY <1>6, BySort DEF Dated
  <2>3. QED
    BY <1>1, <2>1, <2>2
<1>8. \A p \in DOMAIN merges' : RowsUntil(merges'[p].list, spent'.sorts)
  <2>1. \A p \in DOMAIN merges' : p \in DOMAIN merges /\ merges'[p] = merges[p]
    BY <1>2 DEF StillMerging
  <2>2. \A p \in DOMAIN merges : merges[p].list \in Seq(Row)
    BY MergeKnown
  <2>3. QED
    BY <1>6, <2>1, <2>2 DEF Dated
<1>9. QED
  BY <1>4, <1>7, <1>8 DEF Dated

LEMMA Split_Dated ==
  ASSUME IInv, Dated, SplitFile \/ SplitRest
  PROVE  Dated'
<1>1. next \in Nat /\ source \in Seq(Row) /\ Len(source) \in Nat /\ MaxLineCount \in Nat \ {0}
  BY BySort, MergeSortAssumption
<1>2. RowsUntil(source, spent.sorts) /\ RowsUntil(<< >>, spent.sorts)
  BY UntilSource DEF RowsUntil
<1>3. CASE SplitFile
  <2> DEFINE chunk == SubSeq(source, next + 1, next + MaxLineCount)
  <2>1. /\ UNCHANGED << source, merges, spent >> /\ next + MaxLineCount \in 0 .. Len(source)
        /\ DOMAIN file' = DOMAIN file \union {<< step, count >>, << step, count + 1 >>}
        /\ file'[<< step, count >>] \in SortsOf(chunk)
        /\ file'[<< step, count + 1 >>] = << >>
        /\ \A q \in DOMAIN file :
             q # << step, count >> /\ q # << step, count + 1 >> => file'[q] = file[q]
    BY <1>1, <1>3, SplitFileDoes
  <2>2. chunk \in Seq(Row)
    BY <1>1, <2>1
  <2>3. RowsUntil(chunk, spent.sorts)
    BY <1>1, <1>2, <2>1, UntilPart
  <2> HIDE DEF chunk
  <2>4. RowsUntil(file'[<< step, count >>], spent.sorts)
    BY <2>1, <2>2, <2>3, UntilSorts
  <2>5. QED
    BY <1>2, <2>1, <2>4 DEF Dated
<1>4. CASE SplitRest
  <2>1. /\ UNCHANGED << source, merges, spent >>
        /\ DOMAIN file' = DOMAIN file \union {<< step, count >>}
        /\ file'[<< step, count >>] = SubSeq(source, next + 1, Len(source))
        /\ \A q \in DOMAIN file : q # << step, count >> => file'[q] = file[q]
    BY <1>4, SplitRestDoes
  <2>2. RowsUntil(SubSeq(source, next + 1, Len(source)), spent.sorts)
    BY <1>1, <1>2, UntilPart
  <2>3. QED
    BY <2>1, <2>2 DEF Dated
<1>5. QED
  BY <1>3, <1>4

LEMMA Sort_Dated ==
  ASSUME IInv, Dated,
         NextPass \/ Finish \/ PassEnds \/ PassFails \/ SplitFails \/ RenameFails \/ UNCHANGED vars
  PROVE  Dated'
<1>1. source' = source /\ spent'.sorts = spent.sorts
  BY FaultSorts DEF NextPass, Finish, PassEnds, PassFails, SplitFails, RenameFails, vars
<1>2. \A p \in DOMAIN file' : p \in DOMAIN file /\ file'[p] = file[p]
  BY DEF NextPass, Finish, PassEnds, PassFails, SplitFails, RenameFails, vars, Without
<1>3. \A p \in DOMAIN merges' : p \in DOMAIN merges /\ merges'[p] = merges[p]
  BY DEF NextPass, Finish, PassEnds, PassFails, SplitFails, RenameFails, vars, StillMerging
<1>4. QED
  BY <1>1, <1>2, <1>3 DEF Dated

LEMMA Pair_Dated ==
  ASSUME IInv, Dated, Pair
  PROVE  Dated'
<1>1. /\ UNCHANGED << source, file, spent >>
      /\ merges' = With(merges, << step, count + 1 >>, Merge(todo[1], todo[2]))
  BY DEF Pair
<1>2. Merge(todo[1], todo[2]).list = << >> /\ RowsUntil(<< >>, spent.sorts)
  BY DEF Merge, RowsUntil
<1>3. QED
  BY <1>1, <1>2 DEF Dated, With

LEMMA Copy_Dated ==
  ASSUME IInv, Dated, CopyOdd \/ CopyFails
  PROVE  Dated'
<1>1. UNCHANGED << source, merges >> /\ spent'.sorts = spent.sorts /\ Len(todo) = 1
  BY FaultSorts DEF CopyOdd, CopyFails
<1>2. todo[1] \in DOMAIN file /\ file[todo[1]] \in Seq(Row)
  <2>1. todo \in Seq(DOMAIN file)
    BY BySort
  <2>2. todo[1] \in DOMAIN file
    BY <1>1, <2>1
  <2>3. QED
    BY <2>2, BySort
<1>3. PICK rows : file' = With(file, << step, count + 1 >>, rows) /\ RowsUntil(rows, spent.sorts)
  <2>1. RowsUntil(file[todo[1]], spent.sorts)
    BY <1>2 DEF Dated
  <2>2. CASE CopyOdd
    BY <2>1, <2>2 DEF CopyOdd
  <2>3. CASE CopyFails
    <3>1. PICK n \in 0 .. Len(file[todo[1]]) :
             file' = With(file, << step, count + 1 >>, SubSeq(file[todo[1]], 1, n))
      BY <2>3 DEF CopyFails
    <3>2. RowsUntil(SubSeq(file[todo[1]], 0 + 1, n), spent.sorts)
      BY <1>2, <2>1, UntilPart
    <3>3. QED
      BY <3>1, <3>2
  <2>4. QED
    BY <2>2, <2>3
<1>4. QED
  BY <1>1, <1>3 DEF Dated, With

LEMMA Read2FileAndMerge_Dated ==
  ASSUME IInv, Dated, NEW p \in DOMAIN merges, Read2FileAndMerge(p)
  PROVE  Dated'
<1> DEFINE n == spent.sorts
<1>1. /\ UNCHANGED << source >> /\ spent'.sorts = spent.sorts
      /\ DOMAIN merges' = DOMAIN merges
      /\ \A q \in DOMAIN merges : q # p => merges'[q] = merges[q]
      /\ DOMAIN file' \subseteq DOMAIN file \union {p}
      /\ \A q \in DOMAIN file : q # p => file'[q] = file[q]
  BY MergeDoes
<1>2. /\ merges[p] \in MergeRecord
      /\ merges[p].first \in DOMAIN file /\ merges[p].second \in DOMAIN file
      /\ file[merges[p].first] \in Seq(Row) /\ file[merges[p].second] \in Seq(Row)
      /\ merges[p].i \in 0 .. Len(file[merges[p].first])
      /\ merges[p].j \in 0 .. Len(file[merges[p].second])
      /\ merges[p].list \in Seq(Row)
      /\ merges[p].state = "running" => p \in DOMAIN file /\ file[p] \in Seq(Row)
      /\ RowsUntil(<< >>, n)
  BY MergeKnown DEF RowsUntil
<1>3. /\ RowsUntil(merges[p].list, n)
      /\ RowsUntil(file[merges[p].first], n) /\ RowsUntil(file[merges[p].second], n)
      /\ p \in DOMAIN file => RowsUntil(file[p], n)
  BY <1>2 DEF Dated
<1>4. RowsUntil(merges'[p].list, n) /\ (p \in DOMAIN file' => RowsUntil(file'[p], n))
  <2>1. CASE Open(p)
    <3>1. merges'[p] = [merges[p] EXCEPT !.state = "running"] /\ file'[p] = << >>
      BY <2>1 DEF Open, With
    <3>2. QED
      BY <1>2, <1>3, <3>1 DEF MergeRecord
  <2>2. CASE End(p)
    <3>1. /\ merges'[p] = [merges[p] EXCEPT !.state = "done", !.list = << >>]
          /\ file'[p] = file[p] \o merges[p].list /\ merges[p].state = "running"
      BY <2>2 DEF End, With
    <3>2. RowsUntil(file[p] \o merges[p].list, n)
      BY <1>2, <1>3, <3>1, UntilConcat
    <3>3. QED
      BY <1>2, <3>1, <3>2 DEF MergeRecord
  <2>3. CASE Fail(p)
    <3>1. merges'[p] = [merges[p] EXCEPT !.state = "failed", !.list = << >>] /\ file' = file
      BY <2>3 DEF Fail
    <3>2. QED
      BY <1>2, <1>3, <3>1 DEF MergeRecord
  <2>4. CASE Take(p)
    <3> DEFINE m == merges[p]
               row == IF Win(m) THEN file[m.first][m.i + 1] ELSE file[m.second][m.j + 1]
               list == Append(m.list, row)
               commit == Len(list) >= CommitInterval
               i == IF Win(m) THEN m.i + 1 ELSE m.i
               j == IF Win(m) THEN m.j ELSE m.j + 1
               rest == IF commit THEN << >> ELSE list
    <3>1. /\ m.state = "running" /\ (FirstLeft(m) \/ SecondLeft(m))
          /\ merges' = [merges EXCEPT ![p].i = i, ![p].j = j, ![p].list = rest]
          /\ file' = IF commit THEN With(file, p, file[p] \o list) ELSE file
      BY <2>4 DEF Take
    <3>2. row \in Row /\ row.at[1] <= n
      <4>1. CASE Win(m)
        <5>1. m.i + 1 \in DOMAIN file[m.first]
          BY <1>2, <4>1 DEF Win, FirstLeft
        <5>2. QED
          BY <1>2, <1>3, <4>1, <5>1 DEF RowsUntil
      <4>2. CASE ~Win(m)
        <5>1. m.j < Len(file[m.second])
          BY <3>1, <4>2 DEF Win, FirstLeft, SecondLeft
        <5>2. m.j + 1 \in DOMAIN file[m.second]
          BY <1>2, <5>1
        <5>3. QED
          BY <1>2, <1>3, <4>2, <5>2 DEF RowsUntil
      <4>3. QED
        BY <4>1, <4>2
    <3> HIDE DEF row
    <3>3. list \in Seq(Row) /\ RowsUntil(list, n)
      BY <1>2, <1>3, <3>2, UntilAppend
    <3> HIDE DEF list, i, j, n
    <3>4. RowsUntil(file[p] \o list, n)
      BY <1>2, <1>3, <3>1, <3>3, UntilConcat
    <3>5. merges'[p].list = rest
      BY <1>2, <3>1 DEF MergeRecord
    <3>6. commit \/ file' = file
      BY <3>1
    <3>7. commit => file'[p] = file[p] \o list
      BY <3>1 DEF With
    <3>8. QED
      BY <1>2, <1>3, <3>3, <3>4, <3>5, <3>6, <3>7
  <2>5. QED
    BY <2>1, <2>2, <2>3, <2>4 DEF Read2FileAndMerge
<1>5. QED
  BY <1>1, <1>4 DEF Dated

LEMMA Kill_Dated ==
  ASSUME IInv, Dated, Kill
  PROVE  Dated'
<1>1. /\ file' = file /\ spent'.sorts = spent.sorts
      /\ source' = << >> /\ merges' = << >>
  BY FaultSorts DEF Kill
<1>2. QED
  BY <1>1 DEF Dated

LEMMA Dated_Next ==
  ASSUME IInv, Dated, [Next]_vars
  PROVE  Dated'
  BY StartSort_Dated, Split_Dated, Sort_Dated, Pair_Dated, Copy_Dated, Read2FileAndMerge_Dated,
     Kill_Dated DEF Next, Sorter

LEMMA Init_Dated == Init => Dated
  BY DEF Init, Dated

-----------------------------------------------------------------------------
(***************************************************************************)
(* Where a row is: put in a path of the present directory, or left unread  *)
(* in a file of the directory before.  A place is a path and a position.   *)
(***************************************************************************)
Place == Path \X Nat

Put(row) ==
  { s \in Place : /\ s[1] \in Listed(step) \union Mine
                  /\ s[2] \in DOMAIN Received(s[1]) /\ Received(s[1])[s[2]] = row }

Unread(q, i) ==
  \/ q \in RangeOf(todo)
  \/ \E p \in Mine : \/ merges[p].first = q /\ i > merges[p].i
                     \/ merges[p].second = q /\ i > merges[p].j

Left(row) ==
  { s \in Place : /\ pc = "pair" /\ s[1] \in Listed(step - 1)
                  /\ s[2] \in DOMAIN file[s[1]] /\ file[s[1]][s[2]] = row
                  /\ Unread(s[1], s[2]) }

At(row) == Put(row) \union Left(row)

Single(S) == \A s, t \in S : s = t

(***************************************************************************)
(* Every row that has been taken from the input is in one place, unless a  *)
(* merge of the pass has failed; the rows yet to be taken are nowhere, and *)
(* the files to be written hold no row of this input.                      *)
(***************************************************************************)
Mislaid == \E p \in Mine : merges[p].state = "failed"

Clear(p) == \A i \in DOMAIN file[p] : file[p][i] \notin RangeOf(source)

Unused(p) ==
  \/ p[1] > step
  \/ p[1] = step /\ pc = "split" /\ p[2] >= count
  \/ p[1] = step /\ pc = "pair" /\ p[2] > count

OnePlace(row) == Single(At(row))
Found == \A k \in 1 .. next : Mislaid \/ At(source[k]) # {}
Pending == \A k \in DOMAIN source : k > next => At(source[k]) = {}
Foreign == fresh => \A row \in Row : At(row) # {} => row \in RangeOf(source)
Clean == \A p \in DOMAIN file : Unused(p) => Clear(p)

Tracked ==
  Sorting =>
    /\ \A k \in DOMAIN source : OnePlace(source[k])
    /\ Found /\ Pending /\ Foreign /\ Clean
    /\ pc # "split" => next = Len(source)

TrackInv == PassInv /\ Dated /\ Tracked /\ Complete

LEMMA SourceOnce ==
  ASSUME Dated, NEW k \in DOMAIN source, NEW l \in DOMAIN source, source[k] = source[l]
  PROVE  k = l
<1>1. source[k].at = << spent.sorts, k >> /\ source[l].at = << spent.sorts, l >>
  BY DEF Dated
<1>2. QED
  BY <1>1

LEMMA StartSort_Tracked ==
  ASSUME TrackInv, NEW keys \in Inputs, StartSort(keys)
  PROVE  Tracked'
<1>1. /\ step' = step + 1 /\ count' = 1 /\ pc' = "split" /\ next' = 0
      /\ DOMAIN file' = DOMAIN file \union {<< step + 1, 1 >>}
      /\ file'[<< step + 1, 1 >>] = << >>
      /\ \A q \in DOMAIN file : q # << step + 1, 1 >> => file'[q] = file[q]
      /\ Mine' = {}
      /\ fresh' => \A q \in DOMAIN file : q[1] <= step
  BY StartSortDoes DEF TrackInv, PassInv
<1>2. /\ DOMAIN source' \in SUBSET Nat
      /\ \A k \in DOMAIN source' : source'[k].at = << spent.sorts + 1, k >>
      /\ spent.sorts \in Nat /\ step \in Nat
  <2>1. source' = [i \in 1 .. Len(keys) |-> [key |-> keys[i], at |-> << spent.sorts + 1, i >>]]
    BY DEF StartSort
  <2>2. QED
    BY <2>1, SortsNat, BySort DEF TrackInv, PassInv
<1>3. \A p \in DOMAIN file' : \A i \in DOMAIN file'[p] : file'[p][i] \notin RangeOf(source)'
  <2>1. SUFFICES ASSUME NEW p \in DOMAIN file', NEW i \in DOMAIN file'[p],
                        NEW k \in DOMAIN source', file'[p][i] = source'[k]
                 PROVE  FALSE
    BY DEF RangeOf
  <2>2. p \in DOMAIN file /\ file'[p] = file[p]
    BY <1>1, <2>1
  <2>3. file[p][i].at[1] <= spent.sorts
    BY <2>1, <2>2 DEF TrackInv, Dated, RowsUntil
  <2>4. file[p][i].at[1] = spent.sorts + 1
    BY <1>2, <2>1, <2>2
  <2>5. QED
    BY <1>2, <2>3, <2>4
<1>4. \A row : Left(row)' = {}
  BY <1>1 DEF Left
<1>5. \A row : Put(row)' = { s \in Place : /\ s[1] \in Listed(step)'
                                           /\ s[2] \in DOMAIN file'[s[1]] /\ file'[s[1]][s[2]] = row }
  BY <1>1 DEF Put, Received
<1>6. \A k \in DOMAIN source' : At(source[k])' = {}
  BY <1>3, <1>4, <1>5 DEF At, Listed, RangeOf
<1>7. Foreign'
  <2>1. SUFFICES ASSUME fresh', NEW row \in Row
                 PROVE  At(row)' = {}
    BY DEF Foreign
  <2>2. Listed(step)' = {<< step + 1, 1 >>}
    BY <1>1, <1>2, <2>1 DEF Listed
  <2>3. QED
    BY <1>1, <1>4, <1>5, <2>2 DEF At
<1>8. Clean'
  BY <1>3 DEF Clean, Clear
<1>9. Found' /\ Pending'
  BY <1>1, <1>6 DEF Found, Pending
<1>10. \A k \in DOMAIN source' : OnePlace(source[k])'
  BY <1>6 DEF OnePlace, Single
<1>11. QED
  BY <1>1, <1>7, <1>8, <1>9, <1>10 DEF Tracked

(***************************************************************************)
(* The split puts the next rows into its file, in whatever order.          *)
(***************************************************************************)
LEMMA SplitWrites ==
  ASSUME TrackInv, pc = "split", pc' \in {"split", "list"}, UNCHANGED << source, step, fresh >>,
         Mine' = {}, pc' = "list" => next' = Len(source),
         next' \in next .. Len(source),
         NEW p \in Path, p[1] = step, Unused(p), NEW rows \in Seq(Row),
         p \in DOMAIN file', file'[p] = rows,
         RangeOf(rows) = { source[k] : k \in next + 1 .. next' },
         \A i, j \in DOMAIN rows : rows[i] = rows[j] => i = j,
         \A q \in DOMAIN file' : q = p \/ (q \in DOMAIN file /\ file'[q] = file[q]) \/ file'[q] = << >>,
         \A q \in DOMAIN file : q \in DOMAIN file' /\ (Unused(q) \/ file'[q] = file[q]),
         \A q \in DOMAIN file' : Unused(q)' => Unused(q) /\ q # p
  PROVE  Tracked'
<1>1. Mine = {} /\ Sorting
  BY DEF TrackInv, PassInv, Paired, Sorting
<1>2. /\ \A k \in DOMAIN source : OnePlace(source[k])
      /\ Found /\ Pending /\ Foreign /\ Clean
  BY <1>1 DEF TrackInv, Tracked
<1>3. /\ next \in Nat /\ next' \in Nat /\ next' >= next /\ next' <= Len(source)
      /\ DOMAIN source = 1 .. Len(source) /\ Len(source) \in Nat
  BY BySort DEF TrackInv, PassInv
<1>4. /\ \A row : Left(row) = {} /\ Left(row)' = {}
      /\ \A row : At(row) = { s \in Place : /\ s[1] \in Listed(step) /\ s[2] \in DOMAIN file[s[1]]
                                            /\ file[s[1]][s[2]] = row }
      /\ \A row : At(row)' = { s \in Place : /\ s[1] \in Listed(step)' /\ s[2] \in DOMAIN file'[s[1]]
                                             /\ file'[s[1]][s[2]] = row }
  BY <1>1 DEF Left, At, Put, Received
<1>5. \A q \in DOMAIN file' : Listed(step)' = { r \in DOMAIN file' : r[1] = step }
  BY DEF Listed
\* The places of a row of the input: those it had, and those in the new file.
<1>6. ASSUME NEW k \in DOMAIN source
      PROVE  At(source[k])' = At(source[k]) \union { << p, i >> : i \in { j \in DOMAIN rows : rows[j] = source[k] } }
  <2> DEFINE row == source[k]
  <2>1. row \in RangeOf(source)
    BY DEF RangeOf
  <2>2. ASSUME NEW s \in At(row)'
        PROVE  s \in At(row) \/ \E i \in DOMAIN rows : rows[i] = row /\ s = << p, i >>
    <3>1. s \in Place /\ s = << s[1], s[2] >>
      BY <1>4 DEF Place
    <3>2. s[1] \in DOMAIN file' /\ s[1][1] = step /\ s[2] \in DOMAIN file'[s[1]] /\ file'[s[1]][s[2]] = row
      BY <1>4 DEF Listed
    <3>3. CASE s[1] = p
      BY <3>1, <3>2, <3>3
    <3>4. CASE s[1] # p
      BY <1>4, <3>1, <3>2, <3>4 DEF Listed
    <3>5. QED
      BY <3>3, <3>4
  <2>3. ASSUME NEW s \in At(row)
        PROVE  s \in At(row)'
    <3>1. /\ s \in Place /\ s[1] \in DOMAIN file /\ s[1][1] = step
          /\ s[2] \in DOMAIN file[s[1]] /\ file[s[1]][s[2]] = row
      BY <1>4 DEF Listed
    <3>2. ~Unused(s[1])
      BY <1>2, <2>1, <3>1 DEF Clean, Clear
    <3>3. s[1] \in DOMAIN file' /\ file'[s[1]] = file[s[1]]
      BY <3>1, <3>2
    <3>4. QED
      BY <1>4, <3>1, <3>3 DEF Listed
  <2>4. ASSUME NEW i \in DOMAIN rows, rows[i] = row
        PROVE  << p, i >> \in At(row)'
    <3>1. << p, i >> \in Place /\ p \in Listed(step)'
      BY DEF Place, Listed
    <3>2. QED
      BY <1>4, <2>4, <3>1
  <2>5. QED
    BY <2>2, <2>3, <2>4
<1>7. ASSUME NEW k \in DOMAIN source, ~(k > next /\ k <= next')
      PROVE  At(source[k])' = At(source[k])
  <2>1. ASSUME NEW j \in DOMAIN rows, rows[j] = source[k]
        PROVE  FALSE
    <3>0. rows[j] \in RangeOf(rows)
      BY DEF RangeOf
    <3>1. PICK l \in next + 1 .. next' : source[k] = source[l]
      BY <2>1, <3>0
    <3>2. l \in DOMAIN source
      BY <1>3
    <3>3. l = k
      BY <3>1, <3>2, SourceOnce DEF TrackInv
    <3>4. QED
      BY <1>3, <1>7, <3>1, <3>3
  <2>2. { j \in DOMAIN rows : rows[j] = source[k] } = {}
    BY <2>1
  <2>3. { << p, i >> : i \in { j \in DOMAIN rows : rows[j] = source[k] } } = {}
    BY <2>2
  <2>4. QED
    BY <1>6, <2>3
<1>8. ASSUME NEW k \in DOMAIN source, k > next, k <= next'
      PROVE  \E i \in DOMAIN rows : At(source[k])' = {<< p, i >>}
  <2>1. At(source[k]) = {}
    BY <1>2, <1>8 DEF Pending
  <2>2. source[k] \in RangeOf(rows)
    BY <1>3, <1>8
  <2>3. PICK i \in DOMAIN rows : rows[i] = source[k]
    BY <2>2 DEF RangeOf
  <2>4. QED
    BY <1>6, <2>1, <2>3
<1>9. \A k \in DOMAIN source : OnePlace(source[k])'
  BY <1>2, <1>7, <1>8 DEF OnePlace, Single
<1>10. Found'
  <2>1. ASSUME NEW k \in 1 .. next'
        PROVE  At(source[k])' # {}
    <3>1. k \in DOMAIN source /\ k <= next'
      BY <1>3
    <3>2. CASE k > next
      BY <1>8, <3>1, <3>2
    <3>3. CASE ~(k > next)
      <4>1. k \in 1 .. next
        BY <1>3, <3>3
      <4>2. At(source[k]) # {}
        BY <1>1, <1>2, <4>1 DEF Found, Mislaid
      <4>3. QED
        BY <1>7, <3>1, <3>3, <4>2
    <3>4. QED
      BY <3>2, <3>3
  <2>2. QED
    BY <2>1 DEF Found
<1>11. Pending'
  <2>1. ASSUME NEW k \in DOMAIN source, k > next'
        PROVE  At(source[k])' = {}
    <3>1. k > next /\ ~(k <= next')
      BY <1>3, <2>1
    <3>2. QED
      BY <1>2, <1>7, <3>1 DEF Pending
  <2>2. QED
    BY <2>1 DEF Pending
<1>12. Foreign'
  <2>1. SUFFICES ASSUME fresh, NEW row \in Row, NEW s \in At(row)'
                 PROVE  row \in RangeOf(source)
    BY DEF Foreign
  <2>2. /\ s \in Place /\ s[1] \in DOMAIN file' /\ s[1][1] = step
        /\ s[2] \in DOMAIN file'[s[1]] /\ file'[s[1]][s[2]] = row
    BY <1>4, <2>1 DEF Listed
  <2>3. CASE s[1] = p
    <3>1. row \in RangeOf(rows)
      BY <2>2, <2>3 DEF RangeOf
    <3>2. PICK k \in next + 1 .. next' : row = source[k]
      BY <3>1
    <3>3. k \in DOMAIN source
      BY <1>3
    <3>4. QED
      BY <3>2, <3>3 DEF RangeOf
  <2>4. CASE s[1] # p
    <3>1. s \in At(row)
      BY <1>4, <2>2, <2>4 DEF Listed
    <3>2. QED
      BY <1>2, <2>1, <3>1 DEF Foreign
  <2>5. QED
    BY <2>3, <2>4
<1>13. Clean'
  <2>1. SUFFICES ASSUME NEW q \in DOMAIN file', Unused(q)'
                 PROVE  Clear(q)'
    BY DEF Clean
  <2>2. Unused(q) /\ q # p
    BY <2>1
  <2>3. QED
    BY <1>2, <2>2 DEF Clean, Clear
<1>14. QED
  BY <1>9, <1>10, <1>11, <1>12, <1>13 DEF Tracked

LEMMA PartOfSource ==
  ASSUME IInv, NEW a \in Nat, NEW b \in a .. Len(source)
  PROVE  /\ SubSeq(source, a + 1, b) \in Seq(Row)
         /\ DOMAIN SubSeq(source, a + 1, b) = 1 .. b - a
         /\ \A i \in 1 .. b - a : SubSeq(source, a + 1, b)[i] = source[a + i] /\ a + i \in DOMAIN source
         /\ RangeOf(SubSeq(source, a + 1, b)) = { source[k] : k \in a + 1 .. b }
<1> DEFINE part == SubSeq(source, a + 1, b)
<1>1. source \in Seq(Row) /\ Len(source) \in Nat /\ DOMAIN source = 1 .. Len(source) /\ b \in Nat
  BY BySort
<1>2. /\ part \in Seq(Row) /\ DOMAIN part = 1 .. b - a
      /\ \A i \in 1 .. b - a : part[i] = source[a + i] /\ a + i \in DOMAIN source
  BY <1>1
<1> HIDE DEF part
<1>3. ASSUME NEW i \in DOMAIN part
      PROVE  part[i] \in { source[k] : k \in a + 1 .. b }
  <2>1. a + i \in a + 1 .. b
    BY <1>1, <1>2
  <2>2. QED
    BY <1>2, <2>1
<1>4. ASSUME NEW k \in a + 1 .. b
      PROVE  source[k] \in RangeOf(part)
  <2>1. k - a \in 1 .. b - a /\ a + (k - a) = k
    BY <1>1
  <2>2. k - a \in DOMAIN part /\ part[k - a] = source[k]
    BY <1>2, <2>1
  <2>3. QED
    BY <2>2 DEF RangeOf
<1>5. RangeOf(part) = { source[k] : k \in a + 1 .. b }
  BY <1>3, <1>4 DEF RangeOf
<1>6. QED
  BY <1>2, <1>5 DEF part

LEMMA SplitFile_Tracked ==
  ASSUME TrackInv, SplitFile
  PROVE  Tracked'
<1>0. PICK p, r : p = << step, count >> /\ r = << step, count + 1 >>
  OBVIOUS
<1> DEFINE chunk == SubSeq(source, next + 1, next + MaxLineCount)
<1>1. /\ UNCHANGED << source, step, pc, todo, merges, output, fresh, spent >> /\ pc = "split"
      /\ count' = count + 1 /\ next' = next + MaxLineCount /\ next' <= Len(source)
      /\ DOMAIN file' = DOMAIN file \union {p, r}
      /\ file'[p] \in SortsOf(chunk) /\ file'[r] = << >>
      /\ \A q \in DOMAIN file : q # p /\ q # r => file'[q] = file[q]
  BY <1>0, SplitFileDoes DEF TrackInv, PassInv
<1>2. /\ step \in Nat /\ count \in Nat /\ next \in Nat /\ Len(source) \in Nat /\ MaxLineCount \in Nat \ {0}
      /\ \A q \in DOMAIN file : q[2] \in Nat
  BY BySort, MergeSortAssumption DEF TrackInv, PassInv
<1>3. next + MaxLineCount \in next .. Len(source)
  BY <1>1, <1>2
<1>4. chunk \in Seq(Row) /\ RangeOf(chunk) = { source[k] : k \in next + 1 .. next + MaxLineCount }
  BY <1>2, <1>3, PartOfSource DEF TrackInv, PassInv
<1> HIDE DEF chunk
<1>5. PICK rows \in SortsOf(chunk) : file'[p] = rows
  BY <1>1
<1>6. rows \in Seq(Row) /\ RangeOf(rows) = RangeOf(chunk)
  BY <1>4, SortsType DEF SortsOf
<1>7. \A i, j \in DOMAIN rows : rows[i] = rows[j] => i = j
  <2>1. SUFFICES ASSUME NEW i \in DOMAIN rows, NEW j \in DOMAIN rows, i < j
                 PROVE  rows[i] # rows[j]
    BY <1>6
  <2>2. PairsBefore(rows[i], rows[j])
    BY <1>4, <2>1 DEF SortsOf
  <2>3. rows[i] \in Row
    BY <1>6
  <2>4. rows[i].key \in Int /\ rows[i].at[2] \in Nat
    BY <2>3 DEF Row
  <2>5. ~PairsBefore(rows[i], rows[i])
    BY <2>4 DEF PairsBefore
  <2>6. QED
    BY <2>2, <2>5
<1>8. Mine' = {}
  BY <1>1 DEF TrackInv, PassInv, Paired, Mine
<1>9. p \in Path /\ p[1] = step /\ Unused(p) /\ Unused(r) /\ r # p
  BY <1>0, <1>1, <1>2 DEF Path, Unused
<1>10. \A q \in DOMAIN file' : Unused(q)' => Unused(q) /\ q # p
  <2>1. SUFFICES ASSUME NEW q \in DOMAIN file', Unused(q)'
                 PROVE  Unused(q) /\ q # p
    OBVIOUS
  <2>2. q[1] > step \/ (q[1] = step /\ q[2] >= count + 1)
    BY <1>1, <2>1 DEF Unused
  <2>3. q # p
    BY <1>0, <1>2, <2>2
  <2>4. CASE q[1] > step
    BY <2>3, <2>4 DEF Unused
  <2>5. CASE q[1] = step /\ q[2] >= count + 1
    <3>1. q[2] \in Nat
      BY <1>0, <1>1, <1>2
    <3>2. QED
      BY <1>1, <1>2, <2>3, <2>5, <3>1 DEF Unused
  <2>6. QED
    BY <2>2, <2>4, <2>5
<1>11. /\ \A q \in DOMAIN file' : q = p \/ (q \in DOMAIN file /\ file'[q] = file[q]) \/ file'[q] = << >>
       /\ \A q \in DOMAIN file : q \in DOMAIN file' /\ (Unused(q) \/ file'[q] = file[q])
       /\ p \in DOMAIN file'
  BY <1>1, <1>9
<1>12. RangeOf(rows) = { source[k] : k \in next + 1 .. next' } /\ next' \in next .. Len(source)
  BY <1>1, <1>3, <1>4, <1>6
<1>13. QED
  BY <1>1, <1>5, <1>6, <1>7, <1>8, <1>9, <1>10, <1>11, <1>12, SplitWrites

LEMMA SplitRest_Tracked ==
  ASSUME TrackInv, SplitRest
  PROVE  Tracked'
<1>0. PICK p : p = << step, count >>
  OBVIOUS
<1> DEFINE rows == SubSeq(source, next + 1, Len(source))
<1>1. /\ UNCHANGED << source, step, count, todo, merges, output, fresh, spent >>
      /\ pc = "split" /\ pc' = "list" /\ next' = Len(source)
      /\ DOMAIN file' = DOMAIN file \union {p} /\ file'[p] = rows
      /\ \A q \in DOMAIN file : q # p => file'[q] = file[q]
  BY <1>0, SplitRestDoes DEF TrackInv, PassInv
<1>2. /\ step \in Nat /\ count \in Nat /\ next \in Nat /\ Len(source) \in next .. Len(source)
      /\ DOMAIN source = 1 .. Len(source)
  BY BySort DEF TrackInv, PassInv
<1>3. /\ rows \in Seq(Row) /\ DOMAIN rows = 1 .. Len(source) - next
      /\ \A i \in 1 .. Len(source) - next : rows[i] = source[next + i] /\ next + i \in DOMAIN source
      /\ RangeOf(rows) = { source[k] : k \in next + 1 .. Len(source) }
  BY <1>2, PartOfSource DEF TrackInv, PassInv
<1> HIDE DEF rows
<1>4. \A i, j \in DOMAIN rows : rows[i] = rows[j] => i = j
  <2>1. SUFFICES ASSUME NEW i \in DOMAIN rows, NEW j \in DOMAIN rows, rows[i] = rows[j]
                 PROVE  i = j
    OBVIOUS
  <2>2. /\ next + i \in DOMAIN source /\ next + j \in DOMAIN source
        /\ source[next + i] = source[next + j]
    BY <1>3, <2>1
  <2>3. next + i = next + j
    BY <2>2, SourceOnce DEF TrackInv
  <2>4. QED
    BY <1>2, <1>3, <2>3
<1>5. Mine' = {}
  BY <1>1 DEF TrackInv, PassInv, Paired, Mine
<1>6. p \in Path /\ p[1] = step /\ Unused(p)
  BY <1>0, <1>1, <1>2 DEF Path, Unused
<1>7. \A q \in DOMAIN file' : Unused(q)' => Unused(q) /\ q # p
  BY <1>0, <1>1, <1>2 DEF Unused
<1>8. /\ \A q \in DOMAIN file' : q = p \/ (q \in DOMAIN file /\ file'[q] = file[q]) \/ file'[q] = << >>
      /\ \A q \in DOMAIN file : q \in DOMAIN file' /\ (Unused(q) \/ file'[q] = file[q])
      /\ p \in DOMAIN file'
  BY <1>1, <1>6
<1>9. RangeOf(rows) = { source[k] : k \in next + 1 .. next' } /\ next' \in next .. Len(source)
  BY <1>1, <1>2, <1>3
<1>10. QED
  BY <1>1, <1>3, <1>4, <1>5, <1>6, <1>7, <1>8, <1>9, SplitWrites

(***************************************************************************)
(* A step that leaves a row where it is, takes it from one place to        *)
(* another or, when a merge fails, loses it, and brings in no other row.   *)
(***************************************************************************)
LEMMA RowsMove ==
  ASSUME TrackInv, Sorting, Sorting', UNCHANGED << source, next, fresh >>,
         pc' = "split" <=> pc = "split",
         Mislaid => Mislaid',
         \A k \in DOMAIN source :
           \/ At(source[k])' \subseteq At(source[k])
           \/ At(source[k]) # {} /\ \E t : At(source[k])' = {t},
         \A k \in DOMAIN source : Mislaid' \/ At(source[k]) = {} \/ At(source[k])' # {},
         fresh => \A row \in Row : At(row) = {} => At(row)' = {},
         \A q \in DOMAIN file' : Unused(q)' => Unused(q) /\ q \in DOMAIN file /\ file'[q] = file[q]
  PROVE  Tracked'
<1>1. /\ \A k \in DOMAIN source : OnePlace(source[k])
      /\ Found /\ Pending /\ Foreign /\ Clean
      /\ pc # "split" => next = Len(source)
  BY DEF TrackInv, Tracked
<1>2. \A k \in DOMAIN source : OnePlace(source[k])'
  BY <1>1 DEF OnePlace, Single
<1>3. Found'
  <2>1. \A k \in 1 .. next : k \in DOMAIN source
    BY BySort DEF TrackInv, PassInv
  <2>2. QED
    BY <1>1, <2>1 DEF Found
<1>4. Pending'
  BY <1>1 DEF Pending
<1>5. Foreign'
  BY <1>1 DEF Foreign
<1>6. Clean'
  BY <1>1 DEF Clean, Clear
<1>7. QED
  BY <1>1, <1>2, <1>3, <1>4, <1>5, <1>6 DEF Tracked

(***************************************************************************)
(* Between the passes, all that counts is in the files of the directory.   *)
(***************************************************************************)
LEMMA ListPlaces ==
  ASSUME PassInv, pc = "list"
  PROVE  /\ ~Mislaid
         /\ \A row : Left(row) = {}
         /\ \A row : At(row) = { s \in Place : /\ s[1] \in Listed(step)
                                               /\ s[2] \in DOMAIN file[s[1]] /\ file[s[1]][s[2]] = row }
<1>1. Mine \subseteq Listed(step) /\ \A p \in Mine : merges[p].state = "done"
  BY DEF PassInv, Paired, Mine, Listed
<1>2. ~Mislaid
  BY <1>1 DEF Mislaid
<1>3. \A row : Left(row) = {}
  BY DEF Left
<1>4. \A p \in Listed(step) : Received(p) = file[p]
  BY ListReceived
<1>5. QED
  BY <1>1, <1>2, <1>3, <1>4 DEF At, Put

LEMMA NextPass_Tracked ==
  ASSUME TrackInv, NextPass
  PROVE  Tracked'
<1>1. /\ UNCHANGED << source, next, file, output, fresh, spent >>
      /\ step' = step + 1 /\ count' = 0 /\ pc = "list" /\ pc' = "pair"
      /\ RangeOf(todo') = Listed(step) /\ Mine' = {}
  BY NextPassDoes DEF TrackInv, PassInv
<1>2. step \in Nat /\ \A q \in DOMAIN file : q[1] \in Nat /\ q[2] \in Nat
  BY BySort DEF TrackInv, PassInv
<1>3. /\ ~Mislaid
      /\ \A row : At(row) = { s \in Place : /\ s[1] \in Listed(step)
                                            /\ s[2] \in DOMAIN file[s[1]] /\ file[s[1]][s[2]] = row }
  BY <1>1, ListPlaces DEF TrackInv
<1>4. Listed(step - 1)' = Listed(step)
  BY <1>1, <1>2 DEF Listed
<1>5. \A row : Left(row)' = At(row)
  <2>1. \A i : \A q \in Listed(step) : Unread(q, i)'
    BY <1>1 DEF Unread
  <2>2. QED
    BY <1>1, <1>3, <1>4, <2>1 DEF Left
<1>6. \A row : Put(row)' = { s \in Place : /\ s[1] \in Listed(step)'
                                           /\ s[2] \in DOMAIN file[s[1]] /\ file[s[1]][s[2]] = row }
  BY <1>1 DEF Put, Received
<1>7. \A row \in RangeOf(source) : Put(row)' = {}
  <2>1. \A q \in Listed(step)' : q \in DOMAIN file /\ Clear(q)
    BY <1>1, <1>2 DEF Listed, Unused, TrackInv, Tracked, Clean, Sorting
  <2>2. QED
    BY <1>6, <2>1 DEF Clear
<1>8. fresh => \A row \in Row : Put(row)' = {}
  <2>1. fresh => Listed(step)' = {}
    BY <1>1, <1>2 DEF Listed, TrackInv, PassInv, Beyond, Sorting
  <2>2. QED
    BY <1>6, <2>1
<1>9. \A row : At(row)' = Put(row)' \union Left(row)'
  BY DEF At
<1>10. Sorting /\ Sorting' /\ pc # "split" /\ pc' # "split"
  BY <1>1 DEF Sorting
<1>11. \A q \in DOMAIN file' : Unused(q)' => Unused(q) /\ q \in DOMAIN file /\ file'[q] = file[q]
  BY <1>1, <1>2 DEF Unused
<1>12. \A k \in DOMAIN source : At(source[k])' = At(source[k])
  <2>1. ASSUME NEW k \in DOMAIN source
        PROVE  At(source[k])' = At(source[k])
    <3>1. PICK row : row = source[k]
      OBVIOUS
    <3>2. source'[k] = row
      BY <1>1, <3>1
    <3>3. row \in RangeOf(source) /\ Put(row)' = {}
      BY <1>7, <3>1 DEF RangeOf
    <3>4. At(row)' = At(row)
      BY <1>5, <1>9, <3>3
    <3>5. QED
      BY <1>1, <3>1, <3>4
  <2>2. QED
    BY <2>1
<1>13. fresh => \A row \in Row : At(row) = {} => At(row)' = {}
  BY <1>5, <1>8, <1>9
<1>14. QED
  BY <1>1, <1>3, <1>10, <1>11, <1>12, <1>13, RowsMove

LEMMA PassEnds_Tracked ==
  ASSUME TrackInv, PassEnds
  PROVE  Tracked'
<1>1. /\ UNCHANGED << source, next, file, step, count, todo, merges, output, fresh, spent >>
      /\ pc = "pair" /\ pc' = "list" /\ todo = << >>
      /\ \A p \in Mine : merges[p].state = "done"
  BY DEF PassEnds
<1>2. Sorting /\ Sorting' /\ pc # "split" /\ pc' # "split" /\ Mine' = Mine /\ Listed(step)' = Listed(step)
  BY <1>1 DEF Sorting, Mine, Listed
<1>3. ~Mislaid
  BY <1>1 DEF Mislaid
<1>4. \A row : Put(row)' = Put(row)
  BY <1>1, <1>2 DEF Put, Received
<1>5. ASSUME NEW q \in DOMAIN file, NEW i \in DOMAIN file[q]
      PROVE  ~Unread(q, i)
  <2>1. q \notin RangeOf(todo)
    BY <1>1 DEF RangeOf
  <2>2. ASSUME NEW p \in Mine
        PROVE  ~(merges[p].first = q /\ i > merges[p].i) /\ ~(merges[p].second = q /\ i > merges[p].j)
    <3>1. ~FirstLeft(merges[p]) /\ ~SecondLeft(merges[p])
      BY <1>1 DEF TrackInv, PassInv, Paired, Handed
    <3>2. /\ merges[p].i \in 0 .. Len(file[merges[p].first])
          /\ merges[p].j \in 0 .. Len(file[merges[p].second])
          /\ file[merges[p].first] \in Seq(Row) /\ file[merges[p].second] \in Seq(Row)
      BY MergeKnown DEF TrackInv, PassInv, Mine
    <3>3. /\ merges[p].i = Len(file[merges[p].first])
          /\ merges[p].j = Len(file[merges[p].second])
      BY <3>1, <3>2 DEF FirstLeft, SecondLeft
    <3>4. file[q] \in Seq(Row)
      BY BySort DEF TrackInv, PassInv
    <3>5. i \in 1 .. Len(file[q]) /\ Len(file[q]) \in Nat
      BY <3>4
    <3>6. QED
      BY <3>2, <3>3, <3>5
  <2>3. QED
    BY <2>1, <2>2 DEF Unread
<1>6. \A row : Left(row) = {} /\ Left(row)' = {}
  <2>1. \A row : Left(row) = {}
    BY <1>5 DEF Left, Listed
  <2>2. QED
    BY <1>1, <2>1 DEF Left
<1>7. \A row : At(row)' = At(row)
  BY <1>4, <1>6 DEF At
<1>8. \A q \in DOMAIN file' : Unused(q)' => Unused(q) /\ q \in DOMAIN file /\ file'[q] = file[q]
  BY <1>1 DEF Unused
<1>9. \A k \in DOMAIN source : At(source[k])' = At(source[k])
  BY <1>1, <1>7
<1>10. fresh => \A row \in Row : At(row) = {} => At(row)' = {}
  BY <1>7
<1>11. QED
  BY <1>1, <1>2, <1>3, <1>8, <1>9, <1>10, RowsMove

LEMMA Pair_Tracked ==
  ASSUME TrackInv, Pair
  PROVE  Tracked'
<1>0. PICK p : p = << step, count + 1 >>
  OBVIOUS
<1>1. /\ UNCHANGED << source, next, file, step, pc, output, fresh, spent >> /\ pc = "pair"
      /\ count' = count + 1
      /\ {todo[1], todo[2]} \subseteq RangeOf(todo)
      /\ RangeOf(todo') = RangeOf(todo) \ {todo[1], todo[2]}
      /\ p \notin DOMAIN merges /\ DOMAIN merges' = DOMAIN merges \union {p}
      /\ merges'[p] = Merge(todo[1], todo[2])
      /\ \A q \in DOMAIN merges : merges'[q] = merges[q]
      /\ Mine' = Mine \union {p}
  BY <1>0, PairDoes DEF TrackInv, PassInv
<1>2. step \in Nat /\ count \in Nat /\ \A q \in DOMAIN file : q[2] \in Nat /\ file[q] \in Seq(Row)
  BY BySort DEF TrackInv, PassInv
<1>3. Sorting /\ Sorting' /\ pc # "split" /\ pc' # "split"
  BY <1>1 DEF Sorting
<1>4. Mislaid => Mislaid'
  BY <1>1 DEF Mislaid, Mine
<1>5. p \in DOMAIN file => Clear(p)
  <2>1. Unused(p)
    BY <1>0, <1>1, <1>2 DEF Unused
  <2>2. QED
    BY <1>3, <2>1 DEF TrackInv, Tracked, Clean
<1>6. /\ Listed(step)' = Listed(step) /\ Listed(step - 1)' = Listed(step - 1)
      /\ p \notin Mine
  BY <1>1 DEF Listed, Mine
<1>7. Received(p)' = << >>
  BY <1>1 DEF Received, Merge
<1>8. ASSUME NEW q \in Listed(step) \union Mine, q # p
      PROVE  Received(q)' = Received(q)
  <2>1. q \in Mine => merges'[q] = merges[q]
    BY <1>1 DEF Mine
  <2>2. QED
    BY <1>1, <1>3, <1>8, <2>1, SameReceived DEF TrackInv
<1>9. \A row : Put(row)' = { s \in Put(row) : s[1] # p }
  <2>1. \A row : Put(row)' = { s \in Place : /\ s[1] \in Listed(step) \union Mine \union {p}
                                             /\ s[2] \in DOMAIN Received(s[1])'
                                             /\ Received(s[1])'[s[2]] = row }
    BY <1>1, <1>6 DEF Put
  <2>2. ASSUME NEW row, NEW s \in Put(row)'
        PROVE  s \in Put(row) /\ s[1] # p
    <3>1. s[1] # p
      BY <1>7, <2>1, <2>2
    <3>2. QED
      BY <1>8, <2>1, <2>2, <3>1 DEF Put
  <2>3. ASSUME NEW row, NEW s \in Put(row), s[1] # p
        PROVE  s \in Put(row)'
    BY <1>8, <2>1, <2>3 DEF Put
  <2>4. QED
    BY <2>2, <2>3
<1>10. \A k \in DOMAIN source : \A s \in Put(source[k]) : s[1] # p
  <2>1. SUFFICES ASSUME NEW k \in DOMAIN source, NEW s \in Put(source[k]), s[1] = p
                 PROVE  FALSE
    OBVIOUS
  <2>2. p \in Listed(step) /\ Received(p) = file[p] /\ s[2] \in DOMAIN Received(p) /\ Received(p)[s[2]] = source[k]
    BY <1>6, <2>1 DEF Put, Received
  <2>3. Clear(p)
    BY <1>5, <2>2 DEF Listed
  <2>4. QED
    BY <2>2, <2>3 DEF Clear, RangeOf
<1>11. ASSUME NEW q \in DOMAIN file, NEW i \in Nat, i > 0
       PROVE  Unread(q, i)' <=> Unread(q, i)
  <2>1. \A r \in Mine : r \in DOMAIN merges /\ merges'[r] = merges[r]
    BY <1>1 DEF Mine
  <2>2. (\E r \in Mine' : \/ merges'[r].first = q /\ i > merges'[r].i
                          \/ merges'[r].second = q /\ i > merges'[r].j)
        <=> \/ \E r \in Mine : \/ merges[r].first = q /\ i > merges[r].i
                               \/ merges[r].second = q /\ i > merges[r].j
            \/ q \in {todo[1], todo[2]}
    BY <1>1, <1>11, <2>1 DEF Merge
  <2>3. QED
    BY <1>1, <2>2 DEF Unread
<1>12. \A row : Left(row)' = Left(row)
  <2>1. \A q \in Listed(step - 1) : \A i \in DOMAIN file[q] : Unread(q, i)' <=> Unread(q, i)
    BY <1>2, <1>11 DEF Listed
  <2>2. QED
    BY <1>1, <1>6, <2>1 DEF Left
<1>13. \A row : At(row)' = Put(row)' \union Left(row)' /\ At(row) = Put(row) \union Left(row)
  BY DEF At
<1>14. \A k \in DOMAIN source : At(source[k])' = At(source[k])
  <2>1. ASSUME NEW k \in DOMAIN source
        PROVE  At(source[k])' = At(source[k])
    <3>1. PICK row : row = source[k]
      OBVIOUS
    <3>2. Put(row)' = Put(row)
      BY <1>9, <1>10, <3>1
    <3>3. At(row)' = At(row)
      BY <1>12, <1>13, <3>2
    <3>4. QED
      BY <1>1, <3>1, <3>3
  <2>2. QED
    BY <2>1
<1>15. fresh => \A row \in Row : At(row) = {} => At(row)' = {}
  BY <1>9, <1>12, <1>13
<1>16. \A q \in DOMAIN file' : Unused(q)' => Unused(q) /\ q \in DOMAIN file /\ file'[q] = file[q]
  BY <1>1, <1>2 DEF Unused
<1>17. QED
  BY <1>1, <1>3, <1>4, <1>14, <1>15, <1>16, RowsMove

LEMMA CopyOdd_Tracked ==
  ASSUME TrackInv, CopyOdd
  PROVE  Tracked'
<1>0. PICK p, t : p = << step, count + 1 >> /\ t = todo[1]
  OBVIOUS
<1>1. /\ UNCHANGED << source, next, step, pc, merges, output, fresh, spent >> /\ pc = "pair"
      /\ count' = count + 1 /\ RangeOf(todo) = {t} /\ RangeOf(todo') = {} /\ t \in Listed(step - 1)
      /\ DOMAIN file' = DOMAIN file \union {p} /\ file'[p] = file[t]
      /\ \A q \in DOMAIN file : q # p => file'[q] = file[q]
  BY <1>0, CopyOddDoes DEF TrackInv, PassInv
<1>2. /\ step \in Nat /\ count \in Nat /\ p \in Path /\ p[1] = step /\ p[2] = count + 1
      /\ \A q \in DOMAIN file : q[2] \in Nat /\ file[q] \in Seq(Row)
  BY <1>0, BySort DEF TrackInv, PassInv, Path
<1>3. Sorting /\ Sorting' /\ pc # "split" /\ pc' # "split" /\ t \in DOMAIN file /\ t[1] = step - 1
  BY <1>1 DEF Sorting, Listed
<1>4. /\ Listed(step)' = Listed(step) \union {p} /\ Listed(step - 1)' = Listed(step - 1)
      /\ \A q \in Listed(step - 1) : file'[q] = file[q] /\ q # p
      /\ Mine' = Mine /\ p \notin Mine
  <2>1. p \notin Mine
    BY <1>1, <1>2 DEF TrackInv, PassInv, Paired, Handed
  <2>2. QED
    BY <1>1, <1>2, <2>1 DEF Listed, Mine
<1>5. Mislaid => Mislaid'
  BY <1>1, <1>4 DEF Mislaid
<1>6. p \in DOMAIN file => Clear(p)
  <2>1. Unused(p)
    BY <1>1, <1>2 DEF Unused
  <2>2. QED
    BY <1>3, <2>1 DEF TrackInv, Tracked, Clean
<1>7. ASSUME NEW q \in Listed(step) \union Mine, q # p
      PROVE  Received(q)' = Received(q)
  <2>1. q \in DOMAIN file => file'[q] = file[q]
    BY <1>1, <1>7
  <2>2. QED
    BY <1>1, <1>3, <1>4, <2>1, SameReceived DEF TrackInv
<1>8. Received(p)' = file[t] /\ (p \in Listed(step) => Received(p) = file[p])
  BY <1>1, <1>4 DEF Received
<1>9. \A row : \A s \in Put(row)' : (s[1] # p /\ s \in Put(row)) \/ (s[1] = p /\ s[2] \in DOMAIN file[t] /\ file[t][s[2]] = row)
  BY <1>4, <1>7, <1>8 DEF Put
<1>10. \A row : \A s \in Put(row) : s[1] # p => s \in Put(row)'
  BY <1>4, <1>7 DEF Put
<1>11. \A row : \A i \in DOMAIN file[t] : file[t][i] = row => << p, i >> \in Put(row)'
  <2>1. \A i \in DOMAIN file[t] : << p, i >> \in Place
    BY <1>2, <1>3 DEF Place
  <2>2. QED
    BY <1>4, <1>8, <2>1 DEF Put
<1>12. \A row \in RangeOf(source) : \A s \in Put(row) : s[1] # p
  <2>1. SUFFICES ASSUME NEW row \in RangeOf(source), NEW s \in Put(row), s[1] = p
                 PROVE  FALSE
    OBVIOUS
  <2>2. p \in Listed(step) /\ s[2] \in DOMAIN file[p] /\ file[p][s[2]] = row
    BY <1>4, <1>8, <2>1 DEF Put
  <2>3. Clear(p)
    BY <1>6, <2>2 DEF Listed
  <2>4. QED
    BY <2>2, <2>3 DEF Clear
\* The odd file was unread as a whole, and is read as a whole.
<1>13. \A q \in DOMAIN file : \A i : Unread(q, i)' <=> Unread(q, i) /\ q # t
  <2>1. \A r \in Mine : merges[r].first # t /\ merges[r].second # t
    BY <1>1 DEF TrackInv, PassInv, Paired, Handed, Feeds
  <2>2. QED
    BY <1>1, <1>4, <2>1 DEF Unread
<1>14. \A row : Left(row)' = { s \in Left(row) : s[1] # t }
  BY <1>1, <1>4, <1>13 DEF Left, Listed
<1>15. \A row : \A i \in DOMAIN file[t] : file[t][i] = row => << t, i >> \in Left(row)
  <2>1. \A i \in DOMAIN file[t] : << t, i >> \in Place
    <3>1. t \in Path
      BY <1>3, BySort DEF TrackInv, PassInv
    <3>2. QED
      BY <1>2, <1>3, <3>1 DEF Place
  <2>2. QED
    BY <1>1, <2>1 DEF Left, Unread
<1>16. /\ \A row : \A s \in Left(row) : s \in Place /\ s = << s[1], s[2] >>
                                         /\ s[2] \in DOMAIN file[s[1]] /\ file[s[1]][s[2]] = row
       /\ \A row : \A s \in Put(row) : s[1] # t
       /\ \A row : \A s \in Put(row)' : s = << s[1], s[2] >>
  <2>1. t \notin Listed(step) \union Mine
    BY <1>2, <1>3 DEF Listed, Mine
  <2>2. QED
    BY <2>1 DEF Left, Put, Place
<1>17. \A row : At(row)' = Put(row)' \union Left(row)' /\ At(row) = Put(row) \union Left(row)
  BY DEF At
<1>18. ASSUME NEW row \in RangeOf(source), Single(At(row))
       PROVE  At(row)' = At(row) \/ (At(row) # {} /\ \E s : At(row)' = {s})
  <2>1. CASE \E i \in DOMAIN file[t] : file[t][i] = row
    <3>1. PICK i \in DOMAIN file[t] : file[t][i] = row
      BY <2>1
    <3>2. << t, i >> \in At(row) /\ << p, i >> \in At(row)'
      BY <1>11, <1>15, <1>17, <3>1
    <3>3. At(row) = {<< t, i >>}
      BY <1>18, <3>2 DEF Single
    <3>4. ASSUME NEW s \in At(row)'
          PROVE  s = << p, i >>
      <4>1. CASE s \in Left(row)'
        BY <1>14, <1>17, <3>3, <4>1
      <4>2. CASE s \in Put(row)' /\ s[1] # p
        BY <1>9, <1>16, <1>17, <3>3, <4>2
      <4>3. CASE s \in Put(row)' /\ s[1] = p
        <5>1. << t, s[2] >> \in At(row)
          BY <1>9, <1>15, <1>17, <4>3
        <5>2. s[2] = i /\ s = << p, s[2] >>
          BY <1>16, <3>3, <4>3, <5>1
        <5>3. QED
          BY <5>2
      <4>4. QED
        BY <1>17, <4>1, <4>2, <4>3
    <3>5. QED
      BY <3>2, <3>4
  <2>2. CASE ~ \E i \in DOMAIN file[t] : file[t][i] = row
    <3>1. Put(row)' = Put(row)
      BY <1>9, <1>10, <1>12, <2>2
    <3>2. Left(row)' = Left(row)
      BY <1>14, <1>16, <2>2
    <3>3. QED
      BY <1>17, <3>1, <3>2
  <2>3. QED
    BY <2>1, <2>2
<1>19. ASSUME NEW k \in DOMAIN source
       PROVE  /\ \/ At(source[k])' \subseteq At(source[k])
                 \/ At(source[k]) # {} /\ \E s : At(source[k])' = {s}
              /\ At(source[k]) = {} \/ At(source[k])' # {}
  <2>1. PICK row : row = source[k]
    OBVIOUS
  <2>2. row \in RangeOf(source) /\ Single(At(row)) /\ source'[k] = row
    BY <1>1, <1>3, <2>1 DEF RangeOf, TrackInv, Tracked, OnePlace
  <2>3. At(row)' = At(row) \/ (At(row) # {} /\ \E s : At(row)' = {s})
    BY <1>18, <2>2
  <2>4. QED
    BY <2>1, <2>2, <2>3
<1>20. fresh => \A row \in Row : At(row) = {} => At(row)' = {}
  <2>1. ASSUME NEW row \in Row, NEW s \in At(row)'
        PROVE  At(row) # {}
    <3>1. CASE s \in Left(row)'
      BY <1>14, <1>17, <3>1
    <3>2. CASE s \in Put(row)' /\ s[1] # p
      BY <1>9, <1>17, <3>2
    <3>3. CASE s \in Put(row)' /\ s[1] = p
      <4>1. s[2] \in DOMAIN file[t] /\ file[t][s[2]] = row
        BY <1>9, <3>3
      <4>2. << t, s[2] >> \in Left(row)
        BY <1>15, <4>1
      <4>3. QED
        BY <1>17, <4>2
    <3>4. QED
      BY <1>17, <3>1, <3>2, <3>3
  <2>2. QED
    BY <2>1
<1>21. \A q \in DOMAIN file' : Unused(q)' => Unused(q) /\ q \in DOMAIN file /\ file'[q] = file[q]
  BY <1>1, <1>2 DEF Unused
<1>22. QED
  BY <1>1, <1>3, <1>5, <1>19, <1>20, <1>21, RowsMove

(***************************************************************************)
(* A merge that takes a row reads one place and no other.                  *)
(***************************************************************************)
LEMMA UnreadAfter ==
  ASSUME PassInv, NEW p \in Mine, pc = "pair", Mine' = Mine, todo' = todo,
         \A q \in Mine : q # p => merges'[q] = merges[q],
         \A q \in Mine : merges'[q].first = merges[q].first /\ merges'[q].second = merges[q].second,
         NEW t, NEW n,
         \/ /\ t = merges[p].first /\ n = merges[p].i + 1
            /\ merges'[p].i = merges[p].i + 1 /\ merges'[p].j = merges[p].j
         \/ /\ t = merges[p].second /\ n = merges[p].j + 1
            /\ merges'[p].i = merges[p].i /\ merges'[p].j = merges[p].j + 1
  PROVE  /\ \A q, i : i \in Nat => (Unread(q, i)' <=> Unread(q, i) /\ ~(q = t /\ i = n))
         /\ Unread(t, n)
<1>1. /\ merges[p].i \in Nat /\ merges[p].j \in Nat /\ merges[p].first # merges[p].second
      /\ t \in Feeds(p) /\ t \notin RangeOf(todo) /\ n \in Nat
      /\ \A q \in Mine : q # p => merges[q].first # t /\ merges[q].second # t
  <2>1. merges[p].i \in Nat /\ merges[p].j \in Nat
    BY MergeKnown DEF PassInv, Mine
  <2>2. t \in Feeds(p) /\ n \in Nat
    BY <2>1 DEF Feeds
  <2>3. /\ merges[p].first # merges[p].second /\ t \notin RangeOf(todo)
        /\ \A q \in Mine : q # p => t \notin Feeds(q)
    BY <2>2 DEF PassInv, Paired, Handed
  <2>4. QED
    BY <2>1, <2>2, <2>3 DEF Feeds
<1>2. Unread(t, n)
  BY <1>1 DEF Unread
<1> DEFINE By(r, q, i) == \/ merges[r].first = q /\ i > merges[r].i
                          \/ merges[r].second = q /\ i > merges[r].j
           ByNow(r, q, i) == \/ merges'[r].first = q /\ i > merges'[r].i
                             \/ merges'[r].second = q /\ i > merges'[r].j
<1>3. ASSUME NEW q, NEW i \in Nat
      PROVE  Unread(q, i)' <=> Unread(q, i) /\ ~(q = t /\ i = n)
  <2>1. \A r \in Mine : r # p => (ByNow(r, q, i) <=> By(r, q, i))
    OBVIOUS
  <2>2. ByNow(p, q, i) <=> By(p, q, i) /\ ~(q = t /\ i = n)
    BY <1>1
  <2>3. \A r \in Mine : r # p /\ q = t => ~By(r, q, i)
    BY <1>1
  <2>4. Unread(q, i) <=> q \in RangeOf(todo) \/ \E r \in Mine : By(r, q, i)
    BY DEF Unread
  <2>5. Unread(q, i)' <=> q \in RangeOf(todo) \/ \E r \in Mine : ByNow(r, q, i)
    BY DEF Unread, RangeOf
  <2> HIDE DEF By, ByNow
  <2>6. QED
    BY <1>1, <2>1, <2>2, <2>3, <2>4, <2>5
<1>4. QED
  BY <1>2, <1>3

LEMMA Take_Tracked ==
  ASSUME TrackInv, NEW p \in DOMAIN merges, Read2FileAndMerge(p), p \in Mine, pc = "pair",
         Takes(p), merges'[p].state # "failed", merges[p].state = "running"
  PROVE  Tracked'
<1>1. /\ UNCHANGED << source, next, step, count, pc, todo, output, fresh >>
      /\ Merging(p) /\ DOMAIN merges' = DOMAIN merges /\ Mine' = Mine
      /\ \A q \in DOMAIN merges : q # p => merges'[q] = merges[q]
      /\ \A q \in DOMAIN merges :
           merges'[q].first = merges[q].first /\ merges'[q].second = merges[q].second
      /\ DOMAIN file \subseteq DOMAIN file' /\ DOMAIN file' \subseteq DOMAIN file \union {p}
      /\ \A q \in DOMAIN file : q # p => file'[q] = file[q]
  BY MergeDoes DEF TrackInv, PassInv
<1>2. /\ (Listed(step) \union Mine)' = Listed(step) \union Mine
      /\ \A q \in Listed(step) \union Mine : q # p => Received(q)' = Received(q)
      /\ Listed(step - 1)' = Listed(step - 1)
      /\ \A q \in Listed(step - 1) : file'[q] = file[q]
  BY OthersReceive DEF TrackInv, Sorting
<1>3. Sorting /\ Sorting' /\ pc # "split" /\ pc' # "split"
  BY <1>1 DEF Sorting
<1>4. PICK t, n :
        /\ \/ /\ t = merges[p].first /\ n = merges[p].i + 1 /\ n <= Len(file[t])
              /\ merges'[p].i = merges[p].i + 1 /\ merges'[p].j = merges[p].j
           \/ /\ t = merges[p].second /\ n = merges[p].j + 1 /\ n <= Len(file[t])
              /\ merges'[p].i = merges[p].i /\ merges'[p].j = merges[p].j + 1
        /\ Received(p)' = Append(Received(p), file[t][n])
  <2>1. merges[p].i \in Nat /\ merges[p].j \in Nat
        /\ Len(file[merges[p].first]) \in Nat /\ Len(file[merges[p].second]) \in Nat
    BY MergeKnown DEF TrackInv, PassInv
  <2>2. CASE Win(merges[p])
    <3>1. merges[p].i + 1 <= Len(file[merges[p].first])
      BY <2>1, <2>2 DEF Win, FirstLeft
    <3>2. QED
      BY <2>2, <3>1 DEF Takes
  <2>3. CASE ~Win(merges[p])
    <3>1. merges[p].j + 1 <= Len(file[merges[p].second])
      BY <2>1, <2>3 DEF Takes, SecondLeft
    <3>2. QED
      BY <2>3, <3>1 DEF Takes
  <2>4. QED
    BY <2>2, <2>3
<1>5. /\ t \in Listed(step - 1) /\ t \in Path /\ n \in DOMAIN file[t] /\ n \in Nat /\ file[t][n] \in Row
      /\ p \in Path /\ step \in Nat
  <2>1. /\ merges[p].i \in Nat /\ merges[p].j \in Nat
        /\ merges[p].first \in Listed(step - 1) /\ merges[p].second \in Listed(step - 1)
    BY MergeKnown, BySort DEF TrackInv, PassInv, Mine, Listed
  <2>2. t \in DOMAIN file /\ t \in Listed(step - 1)
    BY <1>4, <2>1 DEF Listed
  <2>3. file[t] \in Seq(Row) /\ t \in Path
    BY <2>2, BySort DEF TrackInv, PassInv
  <2>4. n \in 1 .. Len(file[t]) /\ Len(file[t]) \in Nat
    BY <1>4, <2>1, <2>3
  <2>5. QED
    BY <2>2, <2>3, <2>4, BySort DEF TrackInv, PassInv
<1>6. /\ \A q, i : i \in Nat => (Unread(q, i)' <=> Unread(q, i) /\ ~(q = t /\ i = n))
      /\ Unread(t, n)
  <2>1. \A q \in Mine : q # p => merges'[q] = merges[q]
    BY <1>1 DEF Mine
  <2>2. \A q \in Mine : merges'[q].first = merges[q].first /\ merges'[q].second = merges[q].second
    BY <1>1 DEF Mine
  <2>3. QED
    BY <1>1, <1>4, <2>1, <2>2, UnreadAfter DEF TrackInv
<1> DEFINE row0 == file[t][n]
           src == << t, n >>
           dst == << p, Len(Received(p)) + 1 >>
<1>7. PICK old : old = Received(p)
  OBVIOUS
<1>8. /\ old \in Seq(Row) /\ Received(p)' = Append(old, row0)
      /\ Received(p) = old
  BY <1>3, <1>4, <1>7, ReceivedType DEF TrackInv
<1>9. PICK r0, from, to : r0 = row0 /\ from = src /\ to = << p, Len(old) + 1 >>
  OBVIOUS
<1>10. /\ DOMAIN Append(old, r0) = DOMAIN old \union {Len(old) + 1} /\ Len(old) + 1 \in Nat
       /\ Len(old) + 1 \notin DOMAIN old /\ Append(old, r0)[Len(old) + 1] = r0
       /\ \A i \in DOMAIN old : Append(old, r0)[i] = old[i]
  BY <1>5, <1>8, <1>9
<1>11. \A row : Left(row)' = Left(row) \ {from}
  <2>1. ASSUME NEW row, NEW s \in Place
        PROVE  s \in Left(row)' <=> s \in Left(row) /\ s # from
    <3>1. s = << s[1], s[2] >> /\ s[2] \in Nat
      BY DEF Place
    <3>2. s # from <=> ~(s[1] = t /\ s[2] = n)
      BY <1>9, <3>1
    <3>3. Unread(s[1], s[2])' <=> Unread(s[1], s[2]) /\ ~(s[1] = t /\ s[2] = n)
      BY <1>6, <3>1
    <3>4. QED
      BY <1>1, <1>2, <3>2, <3>3 DEF Left
  <2>2. QED
    BY <2>1 DEF Left
<1>12. /\ from \in Left(r0) /\ \A row : from \in Left(row) => row = r0
       /\ \A row : from \notin Put(row)
  <2>1. from \in Place /\ from[1] = t /\ from[2] = n
    BY <1>5, <1>9 DEF Place
  <2>2. t[1] = step - 1
    BY <1>5 DEF Listed
  <2>3. t \notin Listed(step) \union Mine
    BY <1>5, <2>2 DEF Listed, Mine
  <2>4. QED
    BY <1>5, <1>6, <1>9, <2>1, <2>3 DEF Left, Put
<1>13. \A row : Put(row)' = Put(row) \union { s \in {to} : row = r0 }
  <2>1. to \in Place /\ to[1] = p /\ to[2] = Len(old) + 1
    BY <1>5, <1>9, <1>10 DEF Place
  <2>2. ASSUME NEW row, NEW s \in Place
        PROVE  s \in Put(row)' <=> s \in Put(row) \/ (s = to /\ row = r0)
    <3>1. s = << s[1], s[2] >>
      BY DEF Place
    <3>2. CASE s[1] # p
      BY <1>2, <2>1, <3>2 DEF Put
    <3>3. CASE s[1] = p
      <4>1. s \in Put(row)' <=> s[2] \in DOMAIN Append(old, r0) /\ Append(old, r0)[s[2]] = row
        BY <1>2, <1>8, <1>9, <3>3 DEF Put
      <4>2. s \in Put(row) <=> s[2] \in DOMAIN old /\ old[s[2]] = row
        BY <1>8, <3>3 DEF Put
      <4>3. s = to <=> s[2] = Len(old) + 1
        BY <1>9, <3>1, <3>3
      <4>4. QED
        BY <1>10, <4>1, <4>2, <4>3
    <3>4. QED
      BY <3>2, <3>3
  <2>3. QED
    BY <2>1, <2>2 DEF Put
<1>14. \A row : At(row)' = Put(row)' \union Left(row)' /\ At(row) = Put(row) \union Left(row)
  BY DEF At
<1>15. ASSUME NEW k \in DOMAIN source
       PROVE  /\ \/ At(source[k])' \subseteq At(source[k])
                 \/ At(source[k]) # {} /\ \E s : At(source[k])' = {s}
              /\ At(source[k]) = {} \/ At(source[k])' # {}
  <2>1. PICK row : row = source[k]
    OBVIOUS
  <2>2. Single(At(row)) /\ source'[k] = row
    BY <1>1, <1>3, <2>1 DEF TrackInv, Tracked, OnePlace
  <2>3. CASE row = r0
    <3>1. At(row) = {from}
      BY <1>12, <1>14, <2>2, <2>3 DEF Single
    <3>2. At(row)' = {to}
      BY <1>11, <1>12, <1>13, <1>14, <2>3, <3>1
    <3>3. QED
      BY <2>1, <2>2, <3>1, <3>2
  <2>4. CASE row # r0
    <3>1. At(row)' = At(row)
      BY <1>11, <1>12, <1>13, <1>14, <2>4
    <3>2. QED
      BY <2>1, <2>2, <3>1
  <2>5. QED
    BY <2>3, <2>4
<1>16. fresh => \A row \in Row : At(row) = {} => At(row)' = {}
  BY <1>11, <1>12, <1>13, <1>14
<1>17. Mislaid => Mislaid'
  BY <1>1 DEF Mislaid, Merging, Mine
<1>18. \A q \in DOMAIN file' : Unused(q)' => Unused(q) /\ q \in DOMAIN file /\ file'[q] = file[q]
  <2>1. ~Unused(p) /\ \A q : Unused(q)' => Unused(q)
    <3>1. p[1] = step /\ p[2] \in 1 .. count /\ count \in Nat
      BY BySort DEF TrackInv, PassInv, Paired, Handed, Mine
    <3>2. ~Unused(p)
      BY <1>3, <1>5, <3>1 DEF Unused
    <3>3. QED
      BY <1>1, <3>2 DEF Unused
  <2>2. QED
    BY <1>1, <2>1
<1>19. QED
  BY <1>1, <1>3, <1>15, <1>16, <1>17, <1>18, RowsMove

(***************************************************************************)
(* Every other step of a merge moves no row.                               *)
(***************************************************************************)
LEMMA Read2FileAndMerge_Tracked ==
  ASSUME TrackInv, NEW p \in DOMAIN merges, Read2FileAndMerge(p)
  PROVE  Tracked'
<1>1. /\ UNCHANGED << source, next, step, count, pc, todo, output, fresh >>
      /\ Merging(p) /\ DOMAIN merges' = DOMAIN merges /\ Mine' = Mine
      /\ \A q \in DOMAIN merges : q # p => merges'[q] = merges[q]
      /\ \A q \in DOMAIN merges :
           merges'[q].first = merges[q].first /\ merges'[q].second = merges[q].second
      /\ DOMAIN file \subseteq DOMAIN file' /\ DOMAIN file' \subseteq DOMAIN file \union {p}
      /\ \A q \in DOMAIN file : q # p => file'[q] = file[q]
  BY MergeDoes DEF TrackInv, PassInv
<1>2. SUFFICES ASSUME Sorting
               PROVE  Tracked'
  BY <1>1 DEF Tracked, Sorting
<1>3. /\ (Listed(step) \union Mine)' = Listed(step) \union Mine
      /\ \A q \in Listed(step) \union Mine : q # p => Received(q)' = Received(q)
      /\ p \in Listed(step) \union Mine => p \in Mine /\ pc = "pair"
      /\ pc = "pair" => /\ Listed(step - 1)' = Listed(step - 1)
                        /\ \A q \in Listed(step - 1) : file'[q] = file[q]
  BY <1>2, OthersReceive DEF TrackInv
<1>4. Sorting' /\ (pc' = "split" <=> pc = "split")
  BY <1>1, <1>2 DEF Sorting
<1>5. \A q \in DOMAIN file' : Unused(q)' => Unused(q) /\ q \in DOMAIN file /\ file'[q] = file[q]
  <2>1. ~Unused(p)
    <3>1. /\ p[1] \in Nat /\ step \in Nat /\ p[1] <= step
          /\ pc \in {"split", "list"} => p[1] < step
          /\ pc = "pair" => (p[1] = step => p \in Mine)
      BY <1>1, MergePlace, BySort DEF TrackInv, PassInv
    <3>2. pc = "pair" /\ p \in Mine => p[2] \in 1 .. count /\ count \in Nat
      BY BySort DEF TrackInv, PassInv, Paired, Handed
    <3>3. QED
      BY <3>1, <3>2 DEF Unused
  <2>2. \A q : Unused(q)' => Unused(q)
    BY <1>1 DEF Unused
  <2>3. QED
    BY <1>1, <2>1, <2>2
<1>6. Mislaid => Mislaid'
  BY <1>1 DEF Mislaid, Merging, Mine
\* If the merge reads nothing, what is unread stays unread.
<1>7. ASSUME \/ p \notin Mine
             \/ merges'[p].i = merges[p].i /\ merges'[p].j = merges[p].j
      PROVE  \A row : Left(row)' = Left(row)
  <2>1. \A q \in Mine : /\ q \in DOMAIN merges
                        /\ merges'[q].first = merges[q].first /\ merges'[q].second = merges[q].second
                        /\ merges'[q].i = merges[q].i /\ merges'[q].j = merges[q].j
    BY <1>1, <1>7 DEF Mine
  <2>2. \A q, i : Unread(q, i)' <=> Unread(q, i)
    BY <1>1, <2>1 DEF Unread
  <2>3. QED
    BY <1>1, <1>3, <2>2 DEF Left
<1>8. ASSUME \A row : At(row)' \subseteq At(row), Mislaid' \/ \A row : At(row)' = At(row)
      PROVE  Tracked'
  <2>1. ASSUME NEW k \in DOMAIN source
        PROVE  /\ At(source[k])' \subseteq At(source[k])
               /\ Mislaid' \/ At(source[k]) = {} \/ At(source[k])' # {}
    <3>1. PICK row : row = source[k]
      OBVIOUS
    <3>2. At(row)' \subseteq At(row) /\ (Mislaid' \/ At(row)' = At(row)) /\ source'[k] = row
      BY <1>1, <1>8, <3>1
    <3>3. QED
      BY <3>1, <3>2
  <2>2. fresh => \A row \in Row : At(row) = {} => At(row)' = {}
    BY <1>8
  <2>3. QED
    BY <1>1, <1>2, <1>4, <1>5, <1>6, <2>1, <2>2, RowsMove
<1>9. CASE p \notin Mine
  <2>1. \A q \in Listed(step) \union Mine : Received(q)' = Received(q)
    BY <1>3, <1>9
  <2>2. \A row : Put(row)' = Put(row)
    BY <1>3, <2>1 DEF Put
  <2>3. QED
    BY <1>7, <1>8, <1>9, <2>2 DEF At
<1>10. CASE p \in Mine
  <2>1. pc = "pair"
    BY <1>3, <1>10
  <2>2. CASE merges'[p].state # "failed" /\ Settles(p)
    <3>1. \A q \in Listed(step) \union Mine : Received(q)' = Received(q)
      BY <1>3, <2>2 DEF Settles
    <3>2. \A row : Put(row)' = Put(row)
      BY <1>3, <3>1 DEF Put
    <3>3. \A row : Left(row)' = Left(row)
      BY <1>7, <2>2 DEF Settles
    <3>4. QED
      BY <1>8, <3>2, <3>3 DEF At
  <2>3. CASE Drops(p)
    <3>1. Received(p)' = << >> /\ Mislaid'
      BY <1>1, <1>10, <2>3 DEF Drops, Mislaid
    <3>2. \A row : Put(row)' \subseteq Put(row)
      BY <1>3, <3>1 DEF Put
    <3>3. \A row : Left(row)' = Left(row)
      BY <1>7, <2>3 DEF Drops
    <3>4. \A row : At(row)' \subseteq At(row)
      BY <3>2, <3>3 DEF At
    <3>5. QED
      BY <1>8, <3>1, <3>4
  <2>4. CASE merges[p].state = "running" /\ merges'[p].state # "failed" /\ Takes(p)
    BY <1>10, <2>1, <2>4, Take_Tracked
  <2>5. QED
    BY <1>10, <2>1, <2>2, <2>3, <2>4, MergeReceives DEF TrackInv
<1>11. QED
  BY <1>9, <1>10

LEMMA SortStops_Tracked ==
  ASSUME PassFails \/ SplitFails \/ CopyFails \/ RenameFails \/ Finish \/ Kill
  PROVE  Tracked'
<1>1. pc' \in {"idle", "done"}
  BY DEF PassFails, SplitFails, CopyFails, RenameFails, Finish, Kill
<1>2. QED
  BY <1>1 DEF Tracked, Sorting

(***************************************************************************)
(* When one file is left, the rows are in it.                              *)
(***************************************************************************)
LEMMA Finish_Complete ==
  ASSUME TrackInv, Finish
  PROVE  Complete'
<1>1. /\ pc = "list" /\ pc' = "done" /\ UNCHANGED << source, fresh >> /\ Cardinality(Listed(step)) = 1
  BY DEF Finish
<1>2. PICK p \in Listed(step) : output' = file[p]
  BY DEF Finish
<1>3. Listed(step) = {p}
  <2>1. IsFiniteSet(Listed(step))
    BY ListedFinite DEF TrackInv, PassInv
  <2>2. PICK q : Listed(step) = {q}
    BY <1>1, <2>1, FS_Singleton
  <2>3. QED
    BY <2>2
<1>4. /\ ~Mislaid
      /\ \A row : At(row) = { s \in Place : /\ s[1] \in Listed(step)
                                            /\ s[2] \in DOMAIN file[s[1]] /\ file[s[1]][s[2]] = row }
  BY <1>1, ListPlaces DEF TrackInv
<1>5. /\ p \in Path /\ output' \in Seq(Row) /\ DOMAIN output' = 1 .. Len(output') /\ Len(output') \in Nat
      /\ source \in Seq(Row) /\ DOMAIN source = 1 .. Len(source) /\ Len(source) \in Nat
  BY <1>2, BySort DEF TrackInv, PassInv, Listed
<1>6. PICK out : out = output'
  OBVIOUS
<1>7. \A row : At(row) = { << p, i >> : i \in { j \in DOMAIN out : out[j] = row } }
  <2>1. \A i \in DOMAIN out : << p, i >> \in Place
    BY <1>5, <1>6 DEF Place
  <2>2. \A s \in Place : s = << s[1], s[2] >>
    BY DEF Place
  <2>3. \A row : \A s \in At(row) : s = << p, s[2] >> /\ s[2] \in DOMAIN out /\ out[s[2]] = row
    BY <1>2, <1>3, <1>4, <1>6, <2>2
  <2>4. \A row : \A i \in DOMAIN out : out[i] = row => << p, i >> \in At(row)
    BY <1>2, <1>4, <1>6, <2>1
  <2>5. QED
    BY <2>3, <2>4
<1>8. ASSUME NEW k \in DOMAIN source
      PROVE  \E i \in DOMAIN out : { j \in DOMAIN out : out[j] = source[k] } = {i}
  <2>1. Single(At(source[k])) /\ At(source[k]) # {}
    <3>1. next = Len(source)
      BY <1>1 DEF TrackInv, Tracked, Sorting
    <3>2. k \in 1 .. next
      BY <1>5, <3>1
    <3>3. QED
      BY <1>1, <1>4, <3>2 DEF TrackInv, Tracked, Sorting, OnePlace, Found
  <2>2. PICK i \in DOMAIN out : out[i] = source[k]
    BY <1>7, <2>1
  <2>3. ASSUME NEW j \in DOMAIN out, out[j] = source[k]
        PROVE  j = i
    <3>1. << p, i >> \in At(source[k]) /\ << p, j >> \in At(source[k])
      BY <1>7, <2>2, <2>3
    <3>2. << p, i >> = << p, j >>
      BY <2>1, <3>1 DEF Single
    <3>3. QED
      BY <3>2
  <2>4. QED
    BY <2>2, <2>3
<1>9. \A row \in RangeOf(source) : Occurrences(row, out) = 1
  <2>1. SUFFICES ASSUME NEW k \in DOMAIN source
                 PROVE  Cardinality({ j \in DOMAIN out : out[j] = source[k] }) = 1
    BY DEF RangeOf, Occurrences
  <2>2. PICK i \in DOMAIN out : { j \in DOMAIN out : out[j] = source[k] } = {i}
    BY <1>8
  <2>3. Cardinality({i}) = 1
    BY FS_Singleton
  <2>4. QED
    BY <2>2, <2>3
<1>10. ASSUME fresh
       PROVE  Len(out) = Len(source)
  <2>1. \A i \in DOMAIN out : \E k \in DOMAIN source : out[i] = source[k]
    <3>1. SUFFICES ASSUME NEW i \in DOMAIN out
                   PROVE  out[i] \in RangeOf(source)
      BY DEF RangeOf
    <3>2. out[i] \in Row
      BY <1>5, <1>6
    <3>3. << p, i >> \in At(out[i])
      BY <1>7
    <3>4. QED
      BY <1>1, <1>10, <3>2, <3>3 DEF TrackInv, Tracked, Sorting, Foreign
  <2> DEFINE f == [k \in DOMAIN source |-> CHOOSE i \in DOMAIN out : out[i] = source[k]]
  <2>2. \A k \in DOMAIN source : f[k] \in DOMAIN out /\ out[f[k]] = source[k]
    BY <1>8
  <2>3. f \in [DOMAIN source -> DOMAIN out]
    BY <2>2
  <2> HIDE DEF f
  <2>4. \A k, l \in DOMAIN source : f[k] = f[l] => k = l
    <3>1. SUFFICES ASSUME NEW k \in DOMAIN source, NEW l \in DOMAIN source, f[k] = f[l]
                   PROVE  k = l
      OBVIOUS
    <3>2. source[k] = source[l]
      BY <2>2, <3>1
    <3>3. QED
      BY <3>2, SourceOnce DEF TrackInv
  <2>5. \A i \in DOMAIN out : \E k \in DOMAIN source : f[k] = i
    <3>1. SUFFICES ASSUME NEW i \in DOMAIN out
                   PROVE  \E k \in DOMAIN source : f[k] = i
      OBVIOUS
    <3>2. PICK k \in DOMAIN source : out[i] = source[k]
      BY <2>1
    <3>3. f[k] = i
      BY <1>8, <2>2, <3>2
    <3>4. QED
      BY <3>3
  <2>6. f \in Bijection(1 .. Len(source), DOMAIN out)
    BY <1>5, <2>3, <2>4, <2>5 DEF Bijection, Injection, IsInjective, Surjection
  <2>7. ExistsBijection(1 .. Len(source), DOMAIN out)
    BY <2>6 DEF ExistsBijection
  <2>8. Cardinality(DOMAIN out) = Len(source)
    BY <1>5, <2>7, FS_CountingElements
  <2>9. Cardinality(1 .. Len(out)) = Len(out)
    <3>1. Len(out) \in Nat
      BY <1>5, <1>6
    <3>2. IF 1 > Len(out) THEN Cardinality(1 .. Len(out)) = 0
                          ELSE Cardinality(1 .. Len(out)) = Len(out) - 1 + 1
      BY <3>1, FS_Interval
    <3>3. QED
      BY <3>1, <3>2
  <2>10. QED
    BY <1>5, <1>6, <2>8, <2>9
<1>11. QED
  BY <1>1, <1>6, <1>9, <1>10 DEF Complete

LEMMA Complete_Next ==
  ASSUME TrackInv, [Next]_vars
  PROVE  Complete'
<1>1. CASE Finish
  BY <1>1, Finish_Complete
<1>2. ASSUME NEW p \in DOMAIN merges, Read2FileAndMerge(p)
      PROVE  Complete'
  BY <1>2 DEF Read2FileAndMerge, TrackInv, Complete
<1>3. CASE UNCHANGED vars
  BY <1>3 DEF vars, TrackInv, Complete
<1>4. CASE Kill
  BY <1>4 DEF Kill, Complete
<1>5. CASE Sorter /\ ~Finish
  <2>1. pc' # "done"
    BY <1>5 DEF Sorter, StartSort, SplitFile, SplitRest, NextPass, Pair, CopyOdd, PassEnds,
       PassFails, SplitFails, CopyFails, RenameFails
  <2>2. QED
    BY <2>1 DEF Complete
<1>6. QED
  BY <1>1, <1>2, <1>3, <1>4, <1>5 DEF Next

LEMMA Init_TrackInv == Init => TrackInv
<1>1. Init => Tracked /\ Complete
  BY DEF Init, Tracked, Sorting, Complete
<1>2. QED
  BY <1>1, Init_PassInv, Init_Dated DEF TrackInv

LEMMA Tracked_Stutter ==
  ASSUME TrackInv, UNCHANGED vars
  PROVE  Tracked'
<1>1. \A row : At(row)' = At(row)
  BY DEF vars, At, Put, Left, Listed, Mine, Received, Unread, RangeOf
<1>2. Tracked
  BY DEF TrackInv
<1>3. Mislaid' <=> Mislaid
  BY DEF vars, Mislaid, Mine
<1>4. Clean' <=> Clean
  BY DEF vars, Clean, Clear, Unused, RangeOf
<1>5. \A k \in DOMAIN source : At(source[k])' = At(source[k])
  BY <1>1 DEF vars
<1>6. QED
  BY <1>1, <1>2, <1>3, <1>4, <1>5
     DEF vars, Tracked, Sorting, OnePlace, Found, Pending, Foreign, RangeOf

LEMMA TrackInv_Next ==
  ASSUME TrackInv, [Next]_vars
  PROVE  TrackInv'
<1>1. PassInv' /\ Dated'
  BY PassInv_Next, Dated_Next DEF TrackInv, PassInv
<1>2. Tracked'
  <2>1. ASSUME Sorter
        PROVE  Tracked'
    BY <2>1, StartSort_Tracked, SplitFile_Tracked, SplitRest_Tracked, NextPass_Tracked, Pair_Tracked,
       CopyOdd_Tracked, PassEnds_Tracked, SortStops_Tracked DEF Sorter
  <2>2. QED
    BY <2>1, Read2FileAndMerge_Tracked, SortStops_Tracked, Tracked_Stutter DEF Next
<1>3. Complete'
  BY Complete_Next
<1>4. QED
  BY <1>1, <1>2, <1>3 DEF TrackInv

(***************************************************************************)
(* When sort() returns, every row of its input is in the output once, and  *)
(* nothing else if its directories were empty: for every input, whatever   *)
(* earlier calls left behind, and whatever merges of theirs still run.     *)
(* (MergeSortor.sort)                                                      *)
(***************************************************************************)
THEOREM NoRowIsLost == Spec => []Complete
<1>1. TrackInv => Complete
  BY DEF TrackInv
<1>2. QED
  BY <1>1, Init_TrackInv, TrackInv_Next, PTL DEF Spec

=============================================================================
