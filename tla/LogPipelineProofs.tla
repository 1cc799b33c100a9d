-------------------------- MODULE LogPipelineProofs --------------------------
(***************************************************************************)
(* Proofs about logging, closed files and the monitor that reads them, for *)
(* every set of logs, size of chunks, number of files, failures and kills. *)
(***************************************************************************)
EXTENDS LogPipeline, FiniteSetTheorems, SequenceTheorems, TLAPS

\* What is known of a file: where it is, and its rows.
RowsOf(f) == closed[f[1]][f[2]]

StoreType ==
  /\ closed \in [Names -> Seq(Seq(LogIds))]
  /\ accepted \in [Names -> Seq(LogIds)] /\ waiting \in [Names -> Seq(LogIds)]
  /\ open \in [Names -> Seq(LogIds)] /\ taken \in [Names -> SUBSET LogIds]
  /\ failures \in Nat /\ ok \in BOOLEAN

MonitorType ==
  /\ gone \subseteq AllFiles
  /\ sink \in Seq(LogIds)
  /\ handlers \in [callback : BOOLEAN, monitor : BOOLEAN]
  /\ checkList \in Seq(Names)
  /\ pc \in {"none", "loop", "next", "files", "batch", "written", "after", "sleep", "dead"}
  /\ iter \in [size : Nat, done : Nat] /\ iter.done <= iter.size /\ iter.size <= Len(checkList)
  /\ list \subseteq AllFiles \ gone
  /\ file # << >> => file \in AllFiles \ (gone \union list) /\ pos <= Len(RowsOf(file))
  /\ pc \in {"batch", "written", "after"} <=> file # << >>
  /\ pos \in Nat
  /\ status \in {"UNKNOWN", "COMPLETED", "FAILED"}
  /\ intr \in BOOLEAN
  /\ started \in Seq(AllFiles)
  /\ spent \in [faults : 0 .. MaxFaults, deaths : 0 .. MaxDeaths, unlisted : BOOLEAN]

-----------------------------------------------------------------------------
\* Sequences.

LEMMA Prefixed ==
  ASSUME NEW S, NEW s \in Seq(S), NEW p \in Prefixes(s)
  PROVE  p \in Seq(S)
<1>1. PICK l \in 0 .. Len(s) : p = SubSeq(s, 1, l)
  BY DEF Prefixes
<1>2. \A i \in 1 .. l : s[i] \in S
  BY LenProperties
<1>3. QED
  BY <1>1, <1>2, SubSeqProperties

\* The instance of LogStore has its own names for the library's operators.
LEMMA SamePrefixes == \A s : Store!Prefixes(s) = Prefixes(s)
  BY DEF Store!Prefixes, Prefixes

LEMMA ToSetType ==
  ASSUME NEW S, NEW s \in Seq(S)
  PROVE  ToSet(s) \subseteq S /\ ToSet(s) = { s[i] : i \in 1 .. Len(s) }
  BY LenProperties DEF ToSet

LEMMA ToSetAppend ==
  ASSUME NEW S, NEW s \in Seq(S), NEW x \in S
  PROVE  ToSet(Append(s, x)) = ToSet(s) \union {x}
<1>1. Append(s, x) \in Seq(S) /\ Len(Append(s, x)) = Len(s) + 1
  BY AppendProperties
<1>2. \A i \in 1 .. Len(s) + 1 : Append(s, x)[i] = IF i <= Len(s) THEN s[i] ELSE x
  BY AppendProperties, LenProperties
<1>3. ToSet(Append(s, x)) = { Append(s, x)[i] : i \in 1 .. Len(s) + 1 }
  BY <1>1, ToSetType
<1>4. Len(s) \in Nat /\ ToSet(s) = { s[i] : i \in 1 .. Len(s) }
  BY ToSetType, LenProperties
<1>5. QED
  BY <1>2, <1>3, <1>4

LEMMA ToSetTail ==
  ASSUME NEW S, NEW s \in Seq(S), s # << >>
  PROVE  ToSet(s) \subseteq ToSet(Tail(s)) \union {Head(s)}
<1>1. ASSUME NEW i \in 1 .. Len(s), i # 1
      PROVE  s[i] \in ToSet(Tail(s))
  <2>1. i - 1 \in 1 .. Len(Tail(s)) /\ Tail(s)[i - 1] = s[i] /\ Tail(s) \in Seq(S)
    BY <1>1, HeadTailProperties, LenProperties
  <2>2. ToSet(Tail(s)) = { Tail(s)[j] : j \in 1 .. Len(Tail(s)) }
    BY <2>1, ToSetType
  <2>3. QED
    BY <2>1, <2>2
<1>2. s[1] = Head(s)
  OBVIOUS
<1>3. QED
  BY <1>1, <1>2, ToSetType

-----------------------------------------------------------------------------
\* The logging side: files appear, and none changes.

Grown ==
  \A n \in Names : /\ Len(closed[n]) <= Len(closed'[n])
                   /\ \A k \in 1 .. Len(closed[n]) : closed'[n][k] = closed[n][k]

LEMMA RolledGrows ==
  ASSUME StoreType, NEW n \in Names, NEW x \in Seq(LogIds), x = open[n],
         closed' = [closed EXCEPT ![n] = Append(@, x)]
  PROVE  closed' \in [Names -> Seq(Seq(LogIds))] /\ Grown
<1>1. closed[n] \in Seq(Seq(LogIds)) /\ Append(closed[n], x) \in Seq(Seq(LogIds))
  BY AppendProperties DEF StoreType
<1>2. /\ Len(Append(closed[n], x)) = Len(closed[n]) + 1 /\ Len(closed[n]) \in Nat
      /\ \A k \in 1 .. Len(closed[n]) : Append(closed[n], x)[k] = closed[n][k]
  BY <1>1, AppendProperties, LenProperties
<1>3. \A m \in Names : closed'[m] = IF m = n THEN Append(closed[n], x) ELSE closed[m]
  BY DEF StoreType
<1>4. closed' \in [Names -> Seq(Seq(LogIds))]
  BY <1>1 DEF StoreType
<1>5. \A m \in Names : Len(closed[m]) \in Nat
  BY LenProperties DEF StoreType
<1>6. QED
  BY <1>2, <1>3, <1>4, <1>5 DEF Grown

LEMMA NotRolled ==
  ASSUME StoreType, UNCHANGED closed
  PROVE  closed' \in [Names -> Seq(Seq(LogIds))] /\ Grown
<1>1. \A m \in Names : Len(closed[m]) \in Nat
  BY LenProperties DEF StoreType
<1>2. QED
  BY <1>1 DEF StoreType, Grown

LEMMA StoreInitType == Init => StoreType
<1> SUFFICES ASSUME Init PROVE StoreType
  OBVIOUS
<1>1. << >> \in Seq(LogIds) /\ << >> \in Seq(Seq(LogIds))
  BY EmptySeq
<1>2. QED
  BY <1>1 DEF Init, Store!StoreInit, StoreType

LEMMA StoreNextType ==
  ASSUME StoreType, Store!StoreNext
  PROVE  StoreType' /\ Grown
<1>1. ASSUME NEW n \in Names, Store!TakeNext(n)
      PROVE  StoreType' /\ Grown
  <2>1. Head(waiting[n]) \in LogIds /\ Tail(waiting[n]) \in Seq(LogIds)
    BY <1>1, HeadTailProperties DEF Store!TakeNext, StoreType
  <2>2. taken' \in [Names -> SUBSET LogIds] /\ waiting' \in [Names -> Seq(LogIds)]
    BY <1>1, <2>1 DEF Store!TakeNext, StoreType
  <2>3. QED
    BY <1>1, <2>2, NotRolled DEF Store!TakeNext, Store!files, StoreType
<1>2. ASSUME NEW n \in Names, Store!Rolled(n)
      PROVE  open' \in [Names -> Seq(LogIds)] /\ closed' \in [Names -> Seq(Seq(LogIds))] /\ Grown
  <2>1. << >> \in Seq(LogIds) /\ open[n] \in Seq(LogIds)
    BY EmptySeq DEF StoreType
  <2>2. QED
    BY <1>2, <2>1, RolledGrows DEF Store!Rolled, StoreType
<1>3. ASSUME NEW n \in Names, Store!Roll(n)
      PROVE  StoreType' /\ Grown
  BY <1>2, <1>3 DEF Store!Roll, StoreType
<1>4. ASSUME NEW n \in Names, taken' = taken \/ \E id \in taken[n] : taken' = [taken EXCEPT ![n] = @ \ {id}]
      PROVE  taken' \in [Names -> SUBSET LogIds]
  BY <1>4 DEF StoreType
<1>5. ASSUME NEW n \in Names, Store!Drop(n)
      PROVE  StoreType' /\ Grown
  BY <1>4, <1>5, NotRolled DEF Store!Drop, Store!files, StoreType
<1>6. ASSUME NEW n \in Names, Store!Fail(n)
      PROVE  StoreType' /\ Grown
  <2>1. taken' = taken \/ \E id \in taken[n] : taken' = [taken EXCEPT ![n] = @ \ {id}]
    BY <1>6 DEF Store!Fail
  <2>2. failures' = failures + 1 /\ ok' = FALSE /\ UNCHANGED << accepted, waiting >>
    BY <1>6 DEF Store!Fail
  <2>3. failures' \in Nat
    BY <2>2 DEF StoreType
  <2>4. ok' \in BOOLEAN
    BY <2>2
  <2>5. taken' \in [Names -> SUBSET LogIds]
    BY <1>4, <2>1
  <2>6. CASE Store!Rolled(n)
    BY <1>2, <2>2, <2>3, <2>4, <2>5, <2>6 DEF StoreType
  <2>7. CASE /\ \E s \in Prefixes(open[n]) : open' = [open EXCEPT ![n] = s]
             /\ UNCHANGED closed
    <3>1. PICK s \in Prefixes(open[n]) : open' = [open EXCEPT ![n] = s]
      BY <2>7
    <3>2. s \in Seq(LogIds)
      BY Prefixed DEF StoreType
    <3>3. open' \in [Names -> Seq(LogIds)]
      BY <3>1, <3>2 DEF StoreType
    <3>4. QED
      BY <2>2, <2>3, <2>4, <2>5, <2>7, <3>3, NotRolled DEF StoreType
  <2>8. QED
    BY <1>6, <2>6, <2>7, SamePrefixes DEF Store!Fail
<1>7. ASSUME NEW n \in Names, NEW id \in LogIds, Store!Accept(n, id)
      PROVE  StoreType' /\ Grown
  <2>1. Append(accepted[n], id) \in Seq(LogIds) /\ Append(waiting[n], id) \in Seq(LogIds)
    BY AppendProperties DEF StoreType
  <2>2. accepted' \in [Names -> Seq(LogIds)] /\ waiting' \in [Names -> Seq(LogIds)]
    BY <1>7, <2>1 DEF Store!Accept, StoreType
  <2>3. QED
    BY <1>7, <2>2, NotRolled DEF Store!Accept, Store!files, StoreType
<1>8. ASSUME NEW n \in Names, NEW id \in LogIds, Store!Store(n, id)
      PROVE  StoreType' /\ Grown
  <2>1. /\ taken' \in [Names -> SUBSET LogIds] /\ UNCHANGED << accepted, waiting, failures, ok >>
        /\ open[n] \in Seq(LogIds)
    BY <1>8 DEF Store!Store, StoreType
  <2>2. Append(open[n], id) \in Seq(LogIds) /\ << id >> \in Seq(LogIds)
    BY <2>1, AppendProperties
  <2>3. open' \in [Names -> Seq(LogIds)]
    BY <1>8, <2>2 DEF Store!Store, StoreType
  <2>4. closed' \in [Names -> Seq(Seq(LogIds))] /\ Grown
    BY <1>8, <2>1, NotRolled, RolledGrows DEF Store!Store
  <2>5. QED
    BY <2>1, <2>3, <2>4 DEF StoreType
<1>9. ASSUME Store!Crash
      PROVE  StoreType' /\ Grown
  <2>1. << >> \in Seq(LogIds)
    BY EmptySeq
  <2>2. waiting' \in [Names -> Seq(LogIds)] /\ taken' \in [Names -> SUBSET LogIds]
    BY <1>9, <2>1 DEF Store!Crash
  <2>3. PICK f \in [Names -> UNION { Prefixes(open[n]) : n \in Names }] :
          open' = f /\ \A n \in Names : f[n] \in Prefixes(open[n])
    BY <1>9, SamePrefixes DEF Store!Crash
  <2>4. \A n \in Names : f[n] \in Seq(LogIds)
    BY <2>3, Prefixed DEF StoreType
  <2>5. open' \in [Names -> Seq(LogIds)]
    BY <2>3, <2>4
  <2>6. failures' = failures + 1 /\ ok' = FALSE /\ UNCHANGED << accepted, closed >>
    BY <1>9 DEF Store!Crash
  <2>7. failures' \in Nat
    BY <2>6 DEF StoreType
  <2>8. ok' \in BOOLEAN /\ accepted' \in [Names -> Seq(LogIds)]
    BY <2>6 DEF StoreType
  <2>9. QED
    BY <2>2, <2>5, <2>6, <2>7, <2>8, NotRolled DEF StoreType
<1>10. QED
  BY <1>1, <1>3, <1>5, <1>6, <1>7, <1>8, <1>9 DEF Store!StoreNext

-----------------------------------------------------------------------------
\* Files.

LEMMA FileFacts ==
  ASSUME StoreType, NEW f \in AllFiles
  PROVE  /\ f[1] \in Names /\ f[2] \in 1 .. Len(closed[f[1]]) /\ f = << f[1], f[2] >> /\ f # << >>
         /\ RowsOf(f) \in Seq(LogIds) /\ Len(RowsOf(f)) \in Nat
<1>1. PICK n \in Names : f \in FilesOf(n)
  BY DEF AllFiles
<1>2. PICK k \in DOMAIN closed[n] : f = << n, k >>
  BY <1>1 DEF FilesOf
<1>3. closed[n] \in Seq(Seq(LogIds))
  BY DEF StoreType
<1>4. k \in 1 .. Len(closed[n]) /\ closed[n][k] \in Seq(LogIds)
  BY <1>2, <1>3, LenProperties
<1>5. f[1] = n /\ f[2] = k
  BY <1>2
<1>6. f # << >>
  BY <1>2
<1>7. QED
  BY <1>2, <1>4, <1>5, <1>6, LenProperties DEF RowsOf

LEMMA ListedFiles ==
  ASSUME StoreType, NEW n \in Names
  PROVE  Listed(n) = FilesOf(n) \ gone /\ Listed(n) \subseteq AllFiles \ gone
  BY DEF Listed, FilesOf, AllFiles

LEMMA GrownFiles ==
  ASSUME StoreType, StoreType', Grown
  PROVE  AllFiles \subseteq AllFiles' /\ \A f \in AllFiles : closed'[f[1]][f[2]] = RowsOf(f)
<1>1. ASSUME NEW f \in AllFiles
      PROVE  f \in AllFiles' /\ closed'[f[1]][f[2]] = RowsOf(f)
  <2>1. /\ f[1] \in Names /\ f[2] \in 1 .. Len(closed[f[1]]) /\ f = << f[1], f[2] >>
    BY FileFacts
  <2>2. closed[f[1]] \in Seq(Seq(LogIds)) /\ closed'[f[1]] \in Seq(Seq(LogIds))
    BY <2>1 DEF StoreType
  <2>3. f[2] \in DOMAIN closed'[f[1]]
    BY <2>1, <2>2, LenProperties DEF Grown
  <2>4. f \in FilesOf(f[1])'
    BY <2>1, <2>3 DEF FilesOf
  <2>5. QED
    BY <2>1, <2>4 DEF AllFiles, Grown, RowsOf
<1>2. QED
  BY <1>1

LEMMA MonitorInitType == Init => MonitorType
<1> SUFFICES ASSUME Init PROVE MonitorType
  OBVIOUS
<1>1. << >> \in Seq(LogIds) /\ << >> \in Seq(Names) /\ << >> \in Seq(AllFiles) /\ Len(<< >>) = 0
  BY EmptySeq
<1>2. /\ iter = [size |-> 0, done |-> 0] /\ checkList = << >>
      /\ spent = [faults |-> 0, deaths |-> 0, unlisted |-> FALSE]
  BY DEF Init, MonitorInit
<1>3. spent \in [faults : 0 .. MaxFaults, deaths : 0 .. MaxDeaths, unlisted : BOOLEAN]
  BY <1>2, FileMonitorAssumption
<1>4. iter \in [size : Nat, done : Nat] /\ iter.done <= iter.size /\ iter.size <= Len(checkList)
  BY <1>1, <1>2
<1>5. QED
  BY <1>1, <1>3, <1>4 DEF Init, MonitorInit, MonitorType

\* A step of the logging side.
LEMMA LogKeepsType ==
  ASSUME StoreType, MonitorType, Log
  PROVE  MonitorType'
<1>1. /\ UNCHANGED << gone, sink, handlers, checkList, pc, iter, list, file, pos, status, intr, started, spent >>
  BY DEF Log, roundVars, stepVars
<1>2. StoreType' /\ Grown
  BY StoreNextType DEF Log
<1>3. AllFiles \subseteq AllFiles' /\ \A f \in AllFiles : closed'[f[1]][f[2]] = RowsOf(f)
  BY <1>2, GrownFiles
<1>4. started \in Seq(AllFiles')
  <2>1. started \in [1 .. Len(started) -> AllFiles] /\ Len(started) \in Nat
    BY LenProperties DEF MonitorType
  <2>2. \A i \in 1 .. Len(started) : started[i] \in AllFiles'
    BY <1>3, <2>1
  <2>3. QED
    BY <2>1, <2>2
<1>5. file # << >> => RowsOf(file)' = RowsOf(file)
  BY <1>1, <1>3 DEF MonitorType, RowsOf
<1>6. QED
  BY <1>1, <1>3, <1>4, <1>5 DEF MonitorType

\* What is written of a file is in it.
LEMMA LeftFacts ==
  ASSUME StoreType, MonitorType, file # << >>
  PROVE  /\ Rows = RowsOf(file) /\ Rows \in Seq(LogIds) /\ Len(Rows) \in Nat /\ pos \in 0 .. Len(Rows)
         /\ Left \in Seq(LogIds) /\ Len(Left) = Len(Rows) - pos
         /\ \A i \in 1 .. Len(Rows) - pos : Left[i] = Rows[pos + i]
<1>1. file \in AllFiles /\ pos \in Nat /\ pos <= Len(RowsOf(file))
  BY DEF MonitorType
<1>2. Rows = RowsOf(file) /\ Rows \in Seq(LogIds) /\ Len(Rows) \in Nat
  BY <1>1, FileFacts DEF Rows, RowsOf
<1>3. pos \in 0 .. Len(Rows)
  BY <1>1, <1>2
<1>4. \A i \in pos + 1 .. Len(Rows) : Rows[i] \in LogIds
  BY <1>2, <1>3, LenProperties
<1>5. /\ Left \in Seq(LogIds) /\ Len(Left) = (IF pos + 1 <= Len(Rows) THEN Len(Rows) - (pos + 1) + 1 ELSE 0)
      /\ \A i \in 1 .. Len(Rows) - (pos + 1) + 1 : Left[i] = Rows[pos + 1 + i - 1]
  BY <1>2, <1>3, <1>4, SubSeqProperties DEF Left
<1>6. Len(Left) = Len(Rows) - pos
  BY <1>2, <1>3, <1>5
<1>7. ASSUME NEW i \in 1 .. Len(Rows) - pos
      PROVE  Left[i] = Rows[pos + i]
  BY <1>2, <1>3, <1>5, <1>7
<1>8. QED
  BY <1>2, <1>3, <1>5, <1>6, <1>7

LEMMA ChunkFacts ==
  ASSUME StoreType, MonitorType, file # << >>, Len(Left) >= CommitInterval
  PROVE  /\ SubSeq(Left, 1, CommitInterval) \in Seq(LogIds)
         /\ Len(SubSeq(Left, 1, CommitInterval)) = CommitInterval
         /\ \A i \in 1 .. CommitInterval : SubSeq(Left, 1, CommitInterval)[i] = Rows[pos + i]
         /\ pos + CommitInterval \in 0 .. Len(Rows)
<1>1. CommitInterval \in Nat /\ CommitInterval >= 1
  BY FileMonitorAssumption
<1>2. \A i \in 1 .. CommitInterval : Left[i] \in LogIds
  BY <1>1, LeftFacts, LenProperties
<1>3. /\ SubSeq(Left, 1, CommitInterval) \in Seq(LogIds)
      /\ Len(SubSeq(Left, 1, CommitInterval)) = CommitInterval - 1 + 1
      /\ \A i \in 1 .. CommitInterval - 1 + 1 : SubSeq(Left, 1, CommitInterval)[i] = Left[1 + i - 1]
  BY <1>1, <1>2, SubSeqProperties
<1>4. /\ Len(SubSeq(Left, 1, CommitInterval)) = CommitInterval
      /\ pos + CommitInterval \in 0 .. Len(Rows)
  BY <1>1, <1>3, LeftFacts
<1>5. ASSUME NEW i \in 1 .. CommitInterval
      PROVE  SubSeq(Left, 1, CommitInterval)[i] = Rows[pos + i]
  <2>1. SubSeq(Left, 1, CommitInterval)[i] = Left[i]
    BY <1>1, <1>3
  <2>2. i \in 1 .. Len(Rows) - pos
    BY <1>1, LeftFacts
  <2>3. QED
    BY <2>1, <2>2, LeftFacts
<1>6. QED
  BY <1>3, <1>4, <1>5

LEMMA FaultType ==
  ASSUME MonitorType, CanFail, NEW u \in BOOLEAN,
         spent' = [spent EXCEPT !.faults = @ + 1] \/ spent' = [spent EXCEPT !.faults = @ + 1, !.unlisted = u]
  PROVE  spent' \in [faults : 0 .. MaxFaults, deaths : 0 .. MaxDeaths, unlisted : BOOLEAN]
<1>1. spent.faults + 1 \in 0 .. MaxFaults
  BY FileMonitorAssumption DEF MonitorType, CanFail
<1>2. QED
  BY <1>1 DEF MonitorType

LEMMA MonitorKeepsType ==
  ASSUME StoreType, MonitorType, MonitorNext
  PROVE  MonitorType'
<1> USE DEF MonitorType
<1>1. UNCHANGED closed
  BY DEF MonitorNext, Monitor, Start, Interrupt, KillMonitor, AddMonitor, BeginRound, BreakRound,
     ListFiles, EndRound, Sleep, EndFiles, OpenFile, WriteChunk, WriteRest, Complete, AfterStep,
     ListFails, BatchFails, AfterStepFails
<1>2. AllFiles' = AllFiles
  BY <1>1 DEF AllFiles, FilesOf
<1>3. /\ UNCHANGED file => RowsOf(file)' = RowsOf(file)
      /\ \A f : file' = f => RowsOf(file)' = RowsOf(f)
  BY <1>1 DEF RowsOf
<1>4. ASSUME NEW n \in Names, AddMonitor(n)
      PROVE  MonitorType'
  <2>1. checkList' \in Seq(Names) /\ Len(checkList') = Len(checkList) + 1 /\ Len(checkList) \in Nat
    BY <1>4, AppendProperties, LenProperties DEF AddMonitor
  <2>2. QED
    BY <1>2, <1>3, <1>4, <2>1 DEF AddMonitor, roundVars, stepVars
<1>5. CASE Start \/ Interrupt
  BY <1>2, <1>3, <1>5 DEF Start, Interrupt, stepVars, roundVars
<1>6. CASE KillMonitor
  <2>1. << >> \in Seq(Names) /\ Len(<< >>) = 0
    BY EmptySeq
  <2>2. spent' = [spent EXCEPT !.deaths = @ + 1, !.unlisted = FALSE]
    BY <1>6 DEF KillMonitor
  <2>3. spent.deaths + 1 \in 0 .. MaxDeaths
    BY <1>6, FileMonitorAssumption DEF KillMonitor
  <2>4. spent' \in [faults : 0 .. MaxFaults, deaths : 0 .. MaxDeaths, unlisted : BOOLEAN]
    BY <2>2, <2>3
  <2>5. /\ iter' = [size |-> 0, done |-> 0] /\ checkList' = << >> /\ file' = << >> /\ list' = {}
        /\ pc' = "none" /\ pos' = 0 /\ status' = "UNKNOWN" /\ intr' = FALSE
        /\ UNCHANGED << gone, sink, handlers, started >>
    BY <1>6 DEF KillMonitor
  <2>6. iter' \in [size : Nat, done : Nat] /\ iter'.done <= iter'.size /\ iter'.size <= Len(checkList')
    BY <2>1, <2>5
  <2>7. QED
    BY <1>2, <2>1, <2>4, <2>5, <2>6
<1>7. CASE BeginRound
  <2>1. Len(checkList) \in Nat
    BY LenProperties
  <2>2. /\ iter' \in [size : Nat, done : Nat] /\ iter'.done <= iter'.size /\ iter'.size <= Len(checkList')
    BY <1>7, <2>1 DEF BeginRound
  <2>3. QED
    BY <1>2, <1>3, <1>7, <2>2 DEF BeginRound, stepVars
<1>8. CASE BreakRound \/ EndRound \/ Sleep \/ EndFiles
  BY <1>2, <1>3, <1>8 DEF BreakRound, EndRound, Sleep, EndFiles, stepVars
<1>9. CASE ListFiles
  <2>1. iter.done + 1 \in 1 .. Len(checkList) /\ Len(checkList) \in Nat
    BY <1>9, LenProperties DEF ListFiles
  <2>2. checkList[iter.done + 1] \in Names
    BY <2>1, LenProperties
  <2>3. list' \subseteq AllFiles \ gone
    BY <1>9, <2>2, ListedFiles DEF ListFiles
  <2>4. iter' \in [size : Nat, done : Nat] /\ iter'.done <= iter'.size /\ iter'.size <= Len(checkList')
    BY <1>9 DEF ListFiles
  <2>5. pc = "next" /\ pc' = "files" /\ file = << >>
    BY <1>9 DEF ListFiles
  <2>6. QED
    BY <1>2, <1>9, <2>3, <2>4, <2>5 DEF ListFiles, stepVars
<1>10. CASE ListFails
  <2>1. spent' \in [faults : 0 .. MaxFaults, deaths : 0 .. MaxDeaths, unlisted : BOOLEAN]
    BY <1>10, FaultType DEF ListFails
  <2>2. QED
    BY <1>2, <1>3, <1>10, <2>1 DEF ListFails, stepVars
<1>11. ASSUME NEW f \in list, OpenFile(f)
       PROVE  MonitorType'
  <2>1. f \in AllFiles \ gone /\ f # << >> /\ Len(RowsOf(f)) \in Nat
    BY FileFacts
  <2>2. started' \in Seq(AllFiles)
    BY <1>11, <2>1, AppendProperties DEF OpenFile
  <2>3. QED
    BY <1>2, <1>3, <1>11, <2>1, <2>2 DEF OpenFile
<1>12. CASE WriteChunk
  <2>1. file # << >>
    BY <1>12 DEF WriteChunk
  <2>2. sink' \in Seq(LogIds)
    BY <1>12, <2>1, ChunkFacts, ConcatProperties DEF WriteChunk
  <2>3. pos' \in Nat /\ pos' <= Len(RowsOf(file))
    <3>1. Len(Left) >= CommitInterval /\ pos' = pos + CommitInterval
      BY <1>12 DEF WriteChunk
    <3>2. pos + CommitInterval \in 0 .. Len(Rows) /\ Rows = RowsOf(file) /\ Len(Rows) \in Nat
      BY <2>1, <3>1, ChunkFacts, LeftFacts
    <3>3. QED
      BY <3>1, <3>2
  <2>4. QED
    BY <1>2, <1>3, <1>12, <2>2, <2>3 DEF WriteChunk, roundVars
<1>13. CASE WriteRest
  <2>1. file # << >>
    BY <1>13 DEF WriteRest
  <2>2. sink' \in Seq(LogIds)
    BY <1>13, <2>1, LeftFacts, ConcatProperties DEF WriteRest
  <2>3. pos' \in Nat /\ pos' <= Len(RowsOf(file))
    BY <1>13, <2>1, LeftFacts DEF WriteRest
  <2>4. QED
    BY <1>2, <1>3, <1>13, <2>2, <2>3 DEF WriteRest
<1>14. CASE Complete
  BY <1>2, <1>3, <1>14 DEF Complete
<1>15. CASE BatchFails
  <2>1. spent' \in [faults : 0 .. MaxFaults, deaths : 0 .. MaxDeaths, unlisted : BOOLEAN]
    BY <1>15, FaultType DEF BatchFails, Fault
  <2>2. QED
    BY <1>2, <1>3, <1>15, <2>1 DEF BatchFails
<1>16. CASE AfterStep
  <2>1. pc' \in {"files", "dead"} /\ file' = << >> /\ file # << >>
    BY <1>16 DEF AfterStep, Thrown
  <2>2. gone' \subseteq AllFiles /\ list' \subseteq AllFiles \ gone'
    BY <1>16, <2>1 DEF AfterStep
  <2>3. QED
    BY <1>2, <1>16, <2>1, <2>2 DEF AfterStep
<1>17. CASE AfterStepFails
  <2>1. spent' \in [faults : 0 .. MaxFaults, deaths : 0 .. MaxDeaths, unlisted : BOOLEAN]
    BY <1>17, FaultType DEF AfterStepFails, Fault
  <2>2. pc' \in {"files", "dead"}
    BY <1>17 DEF AfterStepFails, Thrown
  <2>3. QED
    BY <1>2, <1>17, <2>1, <2>2 DEF AfterStepFails
<1>18. QED
  BY <1>4, <1>5, <1>6, <1>7, <1>8, <1>9, <1>10, <1>11, <1>12, <1>13, <1>14, <1>15, <1>16, <1>17
     DEF MonitorNext, Monitor

LEMMA TypesNext ==
  ASSUME StoreType, MonitorType, [Next]_vars
  PROVE  StoreType' /\ MonitorType'
<1>1. CASE Log
  BY <1>1, LogKeepsType, StoreNextType DEF Log
<1>2. CASE MonitorNext /\ UNCHANGED storeOwn
  <2>1. UNCHANGED closed
    BY <1>2 DEF MonitorNext, Monitor, Start, Interrupt, KillMonitor, AddMonitor, BeginRound, BreakRound,
       ListFiles, EndRound, Sleep, EndFiles, OpenFile, WriteChunk, WriteRest, Complete, AfterStep,
       ListFails, BatchFails, AfterStepFails
  <2>2. QED
    BY <1>2, <2>1, MonitorKeepsType DEF storeOwn, StoreType
<1>3. CASE UNCHANGED vars
  <2>1. /\ UNCHANGED << closed, gone, sink, handlers, checkList, pc, iter, list, file, pos, status, intr,
                         started, spent >>
        /\ UNCHANGED << accepted, waiting, taken, open, failures, ok >>
    BY <1>3 DEF vars, storeOwn, monitorVars, roundVars, stepVars
  <2>2. AllFiles' = AllFiles /\ RowsOf(file)' = RowsOf(file)
    BY <2>1 DEF AllFiles, FilesOf, RowsOf
  <2>3. QED
    BY <2>1, <2>2 DEF StoreType, MonitorType
<1>4. QED
  BY <1>1, <1>2, <1>3 DEF Next

(***************************************************************************)
(* The variables keep their types; in particular the monitor never handles *)
(* a file that was moved away, nor one it still has in its list.           *)
(* (FileMonitor.run)                                                       *)
(***************************************************************************)
THEOREM TypeCorrect == FairSpec => []TypeOK
<1>1. Init => StoreType /\ MonitorType
  BY StoreInitType, MonitorInitType
<1>2. StoreType /\ MonitorType /\ [Next]_vars => (StoreType /\ MonitorType)'
  BY TypesNext
<1>3. StoreType /\ MonitorType => TypeOK
  BY DEF StoreType, MonitorType, TypeOK, Rows, RowsOf
<1>4. QED
  BY <1>1, <1>2, <1>3, PTL DEF FairSpec

-----------------------------------------------------------------------------
\* What the rows written last have to do with the file in the callback.
Tailed ==
  file # << >> =>
    /\ pos <= Len(sink)
    /\ \A i \in 1 .. pos : sink[Len(sink) - pos + i] = RowsOf(file)[i]

Whole == pc = "written" \/ (pc = "after" /\ status = "COMPLETED") => pos = Len(RowsOf(file))

MovedWritten == \A f \in gone : ToSet(RowsOf(f)) \subseteq ToSet(sink)

WrittenInv == Tailed /\ Whole /\ MovedWritten

LEMMA SinkGrows ==
  ASSUME StoreType, MonitorType, Tailed, file # << >>, NEW x \in Seq(LogIds),
         pos + Len(x) <= Len(Rows), \A i \in 1 .. Len(x) : x[i] = Rows[pos + i]
  PROVE  /\ ToSet(sink) \subseteq ToSet(sink \o x)
         /\ pos + Len(x) <= Len(sink \o x)
         /\ \A i \in 1 .. pos + Len(x) : (sink \o x)[Len(sink \o x) - (pos + Len(x)) + i] = RowsOf(file)[i]
<1>1. /\ sink \in Seq(LogIds) /\ Len(sink) \in Nat /\ Len(x) \in Nat /\ pos \in Nat
      /\ Rows = RowsOf(file)
  BY LeftFacts, LenProperties DEF MonitorType
<1>2. /\ sink \o x \in Seq(LogIds) /\ Len(sink \o x) = Len(sink) + Len(x)
      /\ \A i \in 1 .. Len(sink) + Len(x) : (sink \o x)[i] = IF i <= Len(sink) THEN sink[i] ELSE x[i - Len(sink)]
  BY <1>1, ConcatProperties
<1>3. ToSet(sink) \subseteq ToSet(sink \o x)
  <2>1. /\ ToSet(sink) = { sink[i] : i \in 1 .. Len(sink) }
        /\ ToSet(sink \o x) = { (sink \o x)[i] : i \in 1 .. Len(sink) + Len(x) }
    BY <1>1, <1>2, ToSetType
  <2>2. \A i \in 1 .. Len(sink) : i \in 1 .. Len(sink) + Len(x) /\ sink[i] = (sink \o x)[i]
    BY <1>1, <1>2
  <2>3. QED
    BY <2>1, <2>2
<1>4. ASSUME NEW i \in 1 .. pos + Len(x)
      PROVE  (sink \o x)[Len(sink) - pos + i] = Rows[i]
  <2>1. pos <= Len(sink)
    BY DEF Tailed
  <2>2. CASE i <= pos
    <3>1. i \in 1 .. pos /\ Len(sink) - pos + i \in 1 .. Len(sink)
      BY <1>1, <2>1, <2>2
    <3>2. sink[Len(sink) - pos + i] = Rows[i]
      BY <1>1, <3>1 DEF Tailed
    <3>3. (sink \o x)[Len(sink) - pos + i] = sink[Len(sink) - pos + i]
      BY <1>1, <1>2, <3>1
    <3>4. QED
      BY <3>2, <3>3
  <2>3. CASE i > pos
    <3>1. i - pos \in 1 .. Len(x) /\ Len(sink) - pos + i \in Len(sink) + 1 .. Len(sink) + Len(x)
      BY <1>1, <1>4, <2>1, <2>3
    <3>2. (sink \o x)[Len(sink) - pos + i] = x[Len(sink) - pos + i - Len(sink)]
      BY <1>1, <1>2, <2>1, <3>1
    <3>3. Len(sink) - pos + i - Len(sink) = i - pos /\ pos + (i - pos) = i
      BY <1>1, <1>4
    <3>4. QED
      BY <3>1, <3>2, <3>3
  <2>4. i <= pos \/ i > pos
    BY <1>1, <1>4
  <2>5. QED
    BY <2>2, <2>3, <2>4
<1>5. pos + Len(x) <= Len(sink \o x)
  BY <1>1, <1>2 DEF Tailed
<1>6. ASSUME NEW i \in 1 .. pos + Len(x)
      PROVE  (sink \o x)[Len(sink \o x) - (pos + Len(x)) + i] = RowsOf(file)[i]
  <2>1. Len(sink \o x) - (pos + Len(x)) + i = Len(sink) - pos + i
    BY <1>1, <1>2, <1>6
  <2>2. QED
    BY <1>1, <1>4, <2>1
<1>7. QED
  BY <1>3, <1>5, <1>6

LEMMA WrittenInit == Init => WrittenInv
  BY DEF Init, MonitorInit, WrittenInv, Tailed, Whole, MovedWritten

LEMMA WrittenNext ==
  ASSUME StoreType, MonitorType, WrittenInv, [Next]_vars
  PROVE  WrittenInv'
<1> USE DEF WrittenInv
<1>1. CASE Log
  <2>1. UNCHANGED << gone, sink, pc, file, pos, status >>
    BY <1>1 DEF Log, roundVars, stepVars
  <2>2. \A f \in AllFiles : closed'[f[1]][f[2]] = RowsOf(f)
    BY <1>1, StoreNextType, GrownFiles DEF Log
  <2>3. file # << >> => RowsOf(file)' = RowsOf(file)
    BY <2>1, <2>2 DEF MonitorType, RowsOf
  <2>4. \A f \in gone : RowsOf(f)' = RowsOf(f)
    BY <2>2 DEF MonitorType, RowsOf
  <2>5. Tailed' /\ MovedWritten'
    BY <2>1, <2>3, <2>4 DEF Tailed, MovedWritten
  <2>6. Whole'
    BY <2>1, <2>3 DEF Whole, MonitorType
  <2>7. QED
    BY <2>5, <2>6
<1>2. ASSUME UNCHANGED << closed, gone, sink, file, pos >>,
             Whole'
      PROVE  WrittenInv'
  BY <1>2 DEF Tailed, MovedWritten, RowsOf
<1>3. CASE MonitorNext /\ UNCHANGED storeOwn
  <2>1. CASE \/ \E n \in Names : AddMonitor(n)
             \/ Start \/ Interrupt \/ BeginRound \/ BreakRound \/ EndRound \/ Sleep \/ EndFiles
             \/ ListFiles \/ ListFails
    <3>1. UNCHANGED << closed, gone, sink, file, pos, status >>
      BY <2>1 DEF AddMonitor, Start, Interrupt, BeginRound, BreakRound, EndRound, Sleep, EndFiles,
         ListFiles, ListFails, roundVars, stepVars
    <3>2. pc' = pc \/ pc' \in {"loop", "next", "files", "dead", "sleep"}
      BY <2>1 DEF AddMonitor, Start, Interrupt, BeginRound, BreakRound, EndRound, Sleep, EndFiles,
         ListFiles, ListFails, roundVars
    <3>3. Whole'
      BY <3>1, <3>2 DEF Whole, RowsOf
    <3>4. QED
      BY <1>2, <3>1, <3>3
  <2>2. CASE Complete \/ BatchFails
    <3>1. /\ UNCHANGED << closed, gone, sink, file, pos >>
          /\ (pc = "written" /\ pc' = "after") \/ (pc' = "after" /\ status' = "FAILED")
      BY <2>2 DEF Complete, BatchFails
    <3>2. Whole'
      BY <3>1 DEF Whole, RowsOf
    <3>3. QED
      BY <1>2, <3>1, <3>2
  <2>3. ASSUME NEW f \in list, OpenFile(f)
        PROVE  WrittenInv'
    <3>1. Len(sink) \in Nat
      BY LenProperties DEF MonitorType
    <3>2. pos' = 0 /\ pc' = "batch" /\ UNCHANGED << closed, gone, sink >>
      BY <2>3 DEF OpenFile
    <3>3. QED
      BY <3>1, <3>2 DEF Tailed, Whole, MovedWritten, RowsOf
  <2>4. CASE KillMonitor
    BY <2>4 DEF KillMonitor, Tailed, Whole, MovedWritten, RowsOf
  <2>5. CASE WriteChunk
    <3>1. file # << >>
      BY <2>5 DEF WriteChunk, MonitorType
    <3> DEFINE x == SubSeq(Left, 1, CommitInterval)
    <3>2. /\ x \in Seq(LogIds) /\ Len(x) = CommitInterval /\ pos + Len(x) <= Len(Rows)
          /\ \A i \in 1 .. Len(x) : x[i] = Rows[pos + i]
      BY <2>5, <3>1, ChunkFacts, FileMonitorAssumption DEF WriteChunk
    <3>3. /\ sink' = sink \o x /\ pos' = pos + Len(x) /\ pc' = "batch"
          /\ UNCHANGED << closed, gone, file >>
      BY <2>5, <3>2 DEF WriteChunk, roundVars
    <3> HIDE DEF x
    <3>4. Tailed' /\ MovedWritten'
      BY <3>1, <3>2, <3>3, SinkGrows DEF Tailed, MovedWritten, RowsOf
    <3>5. QED
      BY <3>3, <3>4 DEF Whole
  <2>6. CASE WriteRest
    <3>1. file # << >>
      BY <2>6 DEF WriteRest, MonitorType
    <3>2. /\ Left \in Seq(LogIds) /\ pos + Len(Left) <= Len(Rows) /\ pos + Len(Left) = Len(Rows)
          /\ \A i \in 1 .. Len(Left) : Left[i] = Rows[pos + i]
      BY <3>1, LeftFacts
    <3>3. /\ sink' = sink \o Left /\ pos' = pos + Len(Left)
          /\ UNCHANGED << closed, gone, file >> /\ Rows = RowsOf(file)
      BY <2>6, <3>1, <3>2, LeftFacts DEF WriteRest
    <3> HIDE DEF Left
    <3>4. Tailed' /\ MovedWritten'
      BY <3>1, <3>2, <3>3, SinkGrows DEF Tailed, MovedWritten, RowsOf
    <3>5. Whole'
      BY <3>2, <3>3 DEF Whole, RowsOf
    <3>6. QED
      BY <3>4, <3>5
  <2>7. CASE AfterStep
    <3>1. /\ file # << >> /\ file' = << >> /\ pc' \in {"files", "dead"} /\ UNCHANGED << closed, sink >>
          /\ \/ gone' = gone
             \/ gone' = gone \union {file} /\ status = "COMPLETED" /\ pc = "after"
      BY <2>7 DEF AfterStep, Thrown, MonitorType
    <3>2. ASSUME status = "COMPLETED", pc = "after"
          PROVE  ToSet(RowsOf(file)) \subseteq ToSet(sink)
      <4>1. /\ pos = Len(RowsOf(file)) /\ RowsOf(file) \in Seq(LogIds) /\ sink \in Seq(LogIds)
            /\ pos \in Nat /\ Len(sink) \in Nat
        BY <3>1, <3>2, LeftFacts, LenProperties DEF Whole, MonitorType
      <4>2. /\ ToSet(RowsOf(file)) = { RowsOf(file)[i] : i \in 1 .. pos }
            /\ ToSet(sink) = { sink[i] : i \in 1 .. Len(sink) }
        BY <4>1, ToSetType
      <4>3. \A i \in 1 .. pos : /\ Len(sink) - pos + i \in 1 .. Len(sink)
                                /\ RowsOf(file)[i] = sink[Len(sink) - pos + i]
        BY <3>1, <4>1 DEF Tailed
      <4>4. QED
        BY <4>2, <4>3
    <3>3. QED
      BY <3>1, <3>2 DEF Tailed, Whole, MovedWritten, RowsOf
  <2>8. CASE AfterStepFails
    <3>1. file' = << >> /\ pc' \in {"files", "dead"} /\ UNCHANGED << closed, gone, sink >>
      BY <2>8 DEF AfterStepFails, Thrown
    <3>2. QED
      BY <3>1 DEF Tailed, Whole, MovedWritten, RowsOf
  <2>9. QED
    BY <1>3, <2>1, <2>2, <2>3, <2>4, <2>5, <2>6, <2>7, <2>8 DEF MonitorNext, Monitor
<1>4. CASE UNCHANGED vars
  <2>1. UNCHANGED << closed, gone, sink, file, pos, pc, status >>
    BY <1>4 DEF vars, monitorVars, roundVars, stepVars
  <2>2. Whole'
    BY <2>1 DEF Whole, RowsOf
  <2>3. QED
    BY <1>2, <2>1, <2>2
<1>5. QED
  BY <1>1, <1>3, <1>4 DEF Next

\* What was accepted is somewhere, as long as nothing failed on the logging side.
InFiles(n) == UNION { ToSet(closed[n][k]) : k \in DOMAIN closed[n] }

Kept == ok => \A n \in Names : ToSet(accepted[n]) \subseteq
                ToSet(waiting[n]) \union taken[n] \union ToSet(open[n]) \union InFiles(n)

LEMMA KeptInit == Init => Kept
  BY DEF Init, Store!StoreInit, Kept, ToSet

LEMMA RolledKeeps ==
  ASSUME StoreType, NEW n \in Names, closed' = [closed EXCEPT ![n] = Append(@, open[n])]
  PROVE  /\ InFiles(n) \union ToSet(open[n]) \subseteq InFiles(n)'
         /\ \A m \in Names \ {n} : InFiles(m)' = InFiles(m)
<1>1. open[n] \in Seq(LogIds) /\ closed[n] \in Seq(Seq(LogIds))
  BY DEF StoreType
<1>2. /\ Append(closed[n], open[n]) \in Seq(Seq(LogIds))
      /\ Len(Append(closed[n], open[n])) = Len(closed[n]) + 1 /\ Len(closed[n]) \in Nat
      /\ \A k \in 1 .. Len(closed[n]) : Append(closed[n], open[n])[k] = closed[n][k]
      /\ Append(closed[n], open[n])[Len(closed[n]) + 1] = open[n]
  BY <1>1, AppendProperties, LenProperties
<1>3. closed'[n] = Append(closed[n], open[n]) /\ \A m \in Names \ {n} : closed'[m] = closed[m]
  BY DEF StoreType
<1>4. DOMAIN closed[n] = 1 .. Len(closed[n]) /\ DOMAIN closed'[n] = 1 .. Len(closed[n]) + 1
  BY <1>1, <1>2, <1>3, LenProperties
<1>5. \A k \in 1 .. Len(closed[n]) : k \in 1 .. Len(closed[n]) + 1 /\ closed'[n][k] = closed[n][k]
  BY <1>2, <1>3
<1>6. Len(closed[n]) + 1 \in 1 .. Len(closed[n]) + 1 /\ closed'[n][Len(closed[n]) + 1] = open[n]
  BY <1>2, <1>3
<1>7. InFiles(n) \subseteq InFiles(n)'
  BY <1>4, <1>5 DEF InFiles
<1>8. ToSet(open[n]) \subseteq InFiles(n)'
  BY <1>4, <1>6 DEF InFiles
<1>9. QED
  BY <1>3, <1>7, <1>8 DEF InFiles

LEMMA KeptNext ==
  ASSUME StoreType, Kept, [Next]_vars
  PROVE  Kept'
<1>1. ASSUME ~ok'
      PROVE  Kept'
  BY <1>1 DEF Kept
<1>2. ASSUME UNCHANGED << accepted, waiting, taken, open, closed, ok >>
      PROVE  Kept'
  BY <1>2 DEF Kept, InFiles
<1>3. ASSUME NEW n \in Names, Store!TakeNext(n)
      PROVE  Kept'
  <2>1. waiting[n] \in Seq(LogIds) /\ waiting[n] # << >>
    BY <1>3 DEF Store!TakeNext, StoreType
  <2>2. ToSet(waiting[n]) \subseteq ToSet(Tail(waiting[n])) \union {Head(waiting[n])}
    BY <2>1, ToSetTail
  <2>3. \A m \in Names : /\ waiting'[m] = IF m = n THEN Tail(waiting[n]) ELSE waiting[m]
                         /\ taken'[m] = IF m = n THEN taken[n] \union {Head(waiting[n])} ELSE taken[m]
    BY <1>3 DEF Store!TakeNext, StoreType
  <2>4. UNCHANGED << accepted, open, closed, ok >>
    BY <1>3 DEF Store!TakeNext, Store!files
  <2>5. QED
    BY <2>2, <2>3, <2>4 DEF Kept, InFiles
<1>4. ASSUME NEW n \in Names, Store!Roll(n)
      PROVE  Kept'
  <2>1. /\ closed' = [closed EXCEPT ![n] = Append(@, open[n])]
        /\ UNCHANGED << accepted, waiting, taken, ok >>
        /\ \A m \in Names \ {n} : open'[m] = open[m]
    BY <1>4 DEF Store!Roll, Store!Rolled, StoreType
  <2>2. QED
    BY <2>1, RolledKeeps DEF Kept
<1>5. ASSUME NEW n \in Names, NEW id \in LogIds, Store!Accept(n, id)
      PROVE  Kept'
  <2>1. /\ ToSet(Append(accepted[n], id)) = ToSet(accepted[n]) \union {id}
        /\ ToSet(Append(waiting[n], id)) = ToSet(waiting[n]) \union {id}
    BY ToSetAppend DEF StoreType
  <2>2. \A m \in Names : /\ accepted'[m] = IF m = n THEN Append(accepted[n], id) ELSE accepted[m]
                         /\ waiting'[m] = IF m = n THEN Append(waiting[n], id) ELSE waiting[m]
    BY <1>5 DEF Store!Accept, StoreType
  <2>3. UNCHANGED << taken, open, closed, ok >>
    BY <1>5 DEF Store!Accept, Store!files
  <2>4. QED
    BY <2>1, <2>2, <2>3 DEF Kept, InFiles
<1>6. ASSUME NEW n \in Names, NEW id \in LogIds, Store!Store(n, id)
      PROVE  Kept'
  <2>1. /\ \A m \in Names : taken'[m] = IF m = n THEN taken[n] \ {id} ELSE taken[m]
        /\ UNCHANGED << accepted, waiting, ok >>
    BY <1>6 DEF Store!Store, StoreType
  <2>2. CASE open' = [open EXCEPT ![n] = Append(@, id)] /\ UNCHANGED closed
    <3>1. ToSet(Append(open[n], id)) = ToSet(open[n]) \union {id}
      BY ToSetAppend DEF StoreType
    <3>2. \A m \in Names : open'[m] = IF m = n THEN Append(open[n], id) ELSE open[m]
      BY <2>2 DEF StoreType
    <3>3. QED
      BY <2>1, <2>2, <3>1, <3>2 DEF Kept, InFiles
  <2>3. CASE open' = [open EXCEPT ![n] = << id >>] /\ closed' = [closed EXCEPT ![n] = Append(@, open[n])]
    <3>1. ToSet(<< id >>) = {id}
      BY DEF ToSet
    <3>2. \A m \in Names : open'[m] = IF m = n THEN << id >> ELSE open[m]
      BY <2>3 DEF StoreType
    <3>3. QED
      BY <2>1, <2>3, <3>1, <3>2, RolledKeeps DEF Kept
  <2>4. QED
    BY <1>6, <2>2, <2>3 DEF Store!Store
<1>7. CASE Log
  BY <1>1, <1>3, <1>4, <1>5, <1>6, <1>7
     DEF Log, Store!StoreNext, Store!Drop, Store!Fail, Store!Crash
<1>8. CASE MonitorNext /\ UNCHANGED storeOwn
  <2>1. UNCHANGED closed
    BY <1>8 DEF MonitorNext, Monitor, Start, Interrupt, KillMonitor, AddMonitor, BeginRound, BreakRound,
       ListFiles, EndRound, Sleep, EndFiles, OpenFile, WriteChunk, WriteRest, Complete, AfterStep,
       ListFails, BatchFails, AfterStepFails
  <2>2. QED
    BY <1>2, <1>8, <2>1 DEF storeOwn
<1>9. CASE UNCHANGED vars
  BY <1>2, <1>9 DEF vars, storeOwn, monitorVars
<1>10. QED
  BY <1>7, <1>8, <1>9 DEF Next

PipelineInv == StoreType /\ MonitorType /\ WrittenInv /\ Kept

LEMMA PipelineAlways == FairSpec => []PipelineInv
<1>1. Init => PipelineInv
  BY StoreInitType, MonitorInitType, WrittenInit, KeptInit DEF PipelineInv
<1>2. PipelineInv /\ [Next]_vars => PipelineInv'
  BY TypesNext, WrittenNext, KeptNext DEF PipelineInv
<1>3. QED
  BY <1>1, <1>2, PTL DEF FairSpec

(***************************************************************************)
(* Every row of a file that was moved away was written, and everything the *)
(* logging side accepted is, as long as nothing failed there, with the     *)
(* service, in a file still to be read, or written.                        *)
(* (FileMonitorBatchCallback, SpringBatchMock.run, CsvLogThread.run)       *)
(***************************************************************************)
THEOREM NothingIsLost == FairSpec => []NothingLost
<1>1. ASSUME PipelineInv, NEW n \in Names
      PROVE  LET unread == UNION { ToSet(closed[n][f[2]]) : f \in Listed(n) }
                 moved  == UNION { ToSet(closed[n][f[2]]) : f \in FilesOf(n) \intersect gone }
             IN  /\ moved \subseteq ToSet(sink)
                 /\ ok => ToSet(accepted[n]) \subseteq
                            ToSet(waiting[n]) \union taken[n] \union ToSet(open[n]) \union unread
                              \union ToSet(sink)
  <2> DEFINE unread == UNION { ToSet(closed[n][f[2]]) : f \in Listed(n) }
             moved  == UNION { ToSet(closed[n][f[2]]) : f \in FilesOf(n) \intersect gone }
  <2>1. Listed(n) = FilesOf(n) \ gone
    BY <1>1, ListedFiles DEF PipelineInv
  <2>2. \A f \in FilesOf(n) : f[1] = n /\ f[2] \in DOMAIN closed[n]
    BY DEF FilesOf
  <2>3. moved \subseteq ToSet(sink)
    BY <1>1, <2>2 DEF PipelineInv, WrittenInv, MovedWritten, RowsOf
  <2>4. ASSUME NEW k \in DOMAIN closed[n]
        PROVE  ToSet(closed[n][k]) \subseteq unread \union moved
    <3>1. << n, k >> \in FilesOf(n)
      BY <2>4 DEF FilesOf
    <3>2. << n, k >> \in Listed(n) \/ << n, k >> \in FilesOf(n) \intersect gone
      BY <2>1, <3>1
    <3>3. << n, k >>[2] = k
      OBVIOUS
    <3>4. QED
      BY <3>2, <3>3
  <2>5. InFiles(n) \subseteq unread \union moved
    BY <2>4 DEF InFiles
  <2> HIDE DEF unread, moved
  <2>6. ok => ToSet(accepted[n]) \subseteq
          ToSet(waiting[n]) \union taken[n] \union ToSet(open[n]) \union unread \union ToSet(sink)
    BY <1>1, <2>3, <2>5 DEF PipelineInv, Kept
  <2>7. QED
    BY <2>3, <2>6 DEF unread, moved
<1>2. PipelineInv => NothingLost
  BY <1>1 DEF NothingLost
<1>3. QED
  BY <1>2, PipelineAlways, PTL

LEMMA MoveStep ==
  ASSUME PipelineInv, [Next]_vars, NEW f \in gone' \ gone
  PROVE  /\ Len(closed[f[1]][f[2]]) <= Len(sink)
         /\ SubSeq(sink, Len(sink) - Len(closed[f[1]][f[2]]) + 1, Len(sink)) = closed[f[1]][f[2]]
<1>1. AfterStep
  BY DEF Next, Log, vars, monitorVars, MonitorNext, Monitor, Start, Interrupt, KillMonitor, AddMonitor,
     BeginRound, BreakRound, ListFiles, EndRound, Sleep, EndFiles, OpenFile, WriteChunk, WriteRest,
     Complete, ListFails, BatchFails, AfterStepFails
<1>2. f = file /\ file # << >> /\ status = "COMPLETED" /\ pc = "after"
  BY <1>1 DEF AfterStep, PipelineInv, MonitorType
<1> DEFINE rows == RowsOf(file)
<1>3. /\ rows = closed[f[1]][f[2]] /\ rows \in Seq(LogIds) /\ Len(rows) \in Nat /\ pos = Len(rows)
      /\ sink \in Seq(LogIds) /\ Len(sink) \in Nat
  BY <1>2, LeftFacts, LenProperties DEF PipelineInv, WrittenInv, Whole, MonitorType, RowsOf
<1>4. /\ Len(rows) <= Len(sink)
      /\ \A i \in 1 .. Len(rows) : sink[Len(sink) - Len(rows) + i] = rows[i]
  BY <1>2, <1>3 DEF PipelineInv, WrittenInv, Tailed
<1> HIDE DEF rows
<1> DEFINE m == Len(sink) - Len(rows) + 1
           tail == SubSeq(sink, m, Len(sink))
<1>5. m \in Int /\ m >= 1 /\ Len(sink) \in Int
  BY <1>3, <1>4
<1>6. \A i \in m .. Len(sink) : sink[i] \in LogIds
  <2>1. \A i \in 1 .. Len(sink) : sink[i] \in LogIds
    BY <1>3, LenProperties
  <2>2. \A i \in m .. Len(sink) : i \in 1 .. Len(sink)
    BY <1>5
  <2>3. QED
    BY <2>1, <2>2
<1> HIDE DEF m
<1>7. /\ tail \in Seq(LogIds) /\ Len(tail) = (IF m <= Len(sink) THEN Len(sink) - m + 1 ELSE 0)
      /\ \A i \in 1 .. Len(sink) - m + 1 : tail[i] = sink[m + i - 1]
  BY <1>5, <1>6, SubSeqProperties
<1> HIDE DEF tail
<1>8. Len(tail) = Len(rows)
  BY <1>3, <1>4, <1>7 DEF m
<1>9. ASSUME NEW i \in 1 .. Len(tail)
      PROVE  tail[i] = rows[i]
  <2>1. i \in 1 .. Len(sink) - m + 1 /\ m + i - 1 = Len(sink) - Len(rows) + i
    BY <1>3, <1>8, <1>9 DEF m
  <2>2. QED
    BY <1>4, <1>7, <1>8, <2>1
<1>10. tail = rows
  BY <1>3, <1>7, <1>8, <1>9, SeqEqual
<1>11. QED
  BY <1>3, <1>4, <1>10 DEF tail, m

(***************************************************************************)
(* When a file is moved away, what was last written is the whole file in   *)
(* its order with nothing between.  (SpringBatchMock.run)                  *)
(***************************************************************************)
THEOREM WholeFilesMove == FairSpec => MovedWhole
<1>1. PipelineInv /\ [Next]_vars =>
        [\A f \in gone' \ gone :
           LET rows == closed[f[1]][f[2]]
           IN  /\ Len(rows) <= Len(sink)
               /\ SubSeq(sink, Len(sink) - Len(rows) + 1, Len(sink)) = rows]_vars
  BY MoveStep
<1>2. QED
  BY <1>1, PipelineAlways, PTL DEF FairSpec, MovedWhole

-----------------------------------------------------------------------------
\* Sequences without repetitions.

LEMMA SameToSet == \A s : Store!ToSet(s) = ToSet(s)
  BY DEF Store!ToSet, ToSet

LEMMA InjectiveAppend ==
  ASSUME NEW S, NEW s \in Seq(S), NEW x \in S, IsInjective(s), x \notin ToSet(s)
  PROVE  IsInjective(Append(s, x))
<1>1. /\ Append(s, x) \in Seq(S) /\ Len(Append(s, x)) = Len(s) + 1 /\ Len(s) \in Nat
      /\ \A i \in 1 .. Len(s) + 1 : Append(s, x)[i] = IF i <= Len(s) THEN s[i] ELSE x
  BY AppendProperties, LenProperties
<1>2. DOMAIN Append(s, x) = 1 .. Len(s) + 1 /\ DOMAIN s = 1 .. Len(s)
  BY <1>1, LenProperties
<1>3. \A i \in 1 .. Len(s) : s[i] \in ToSet(s)
  BY ToSetType
<1>4. ASSUME NEW i \in 1 .. Len(s) + 1, NEW j \in 1 .. Len(s) + 1, Append(s, x)[i] = Append(s, x)[j]
      PROVE  i = j
  <2>1. /\ i <= Len(s) => i \in 1 .. Len(s) /\ Append(s, x)[i] = s[i]
        /\ j <= Len(s) => j \in 1 .. Len(s) /\ Append(s, x)[j] = s[j]
        /\ ~(i <= Len(s)) => i = Len(s) + 1 /\ Append(s, x)[i] = x
        /\ ~(j <= Len(s)) => j = Len(s) + 1 /\ Append(s, x)[j] = x
    BY <1>1, <1>4
  <2>2. QED
    BY <1>2, <1>3, <1>4, <2>1 DEF IsInjective
<1>5. QED
  BY <1>2, <1>4 DEF IsInjective

LEMMA InjectiveTail ==
  ASSUME NEW S, NEW s \in Seq(S), s # << >>, IsInjective(s)
  PROVE  /\ IsInjective(Tail(s)) /\ ToSet(Tail(s)) \subseteq ToSet(s)
         /\ Head(s) \in ToSet(s) /\ Head(s) \notin ToSet(Tail(s))
<1>1. /\ Tail(s) \in Seq(S) /\ Len(Tail(s)) = Len(s) - 1 /\ Len(s) \in Nat /\ Len(s) > 0
      /\ \A i \in 1 .. Len(s) - 1 : Tail(s)[i] = s[i + 1]
  BY HeadTailProperties, LenProperties, EmptySeq
<1>2. /\ DOMAIN Tail(s) = 1 .. Len(s) - 1 /\ DOMAIN s = 1 .. Len(s)
      /\ ToSet(s) = { s[i] : i \in 1 .. Len(s) }
      /\ ToSet(Tail(s)) = { Tail(s)[i] : i \in 1 .. Len(s) - 1 }
  BY <1>1, LenProperties, ToSetType
<1>3. \A i \in 1 .. Len(s) - 1 : i + 1 \in 1 .. Len(s) /\ i + 1 # 1
  BY <1>1
<1>4. 1 \in 1 .. Len(s) /\ Head(s) = s[1]
  BY <1>1
<1>5. ToSet(Tail(s)) \subseteq ToSet(s)
  BY <1>1, <1>2, <1>3
<1>6. Head(s) \in ToSet(s)
  BY <1>2, <1>4
<1>7. Head(s) \notin ToSet(Tail(s))
  BY <1>1, <1>2, <1>3, <1>4 DEF IsInjective
<1>8. ASSUME NEW i \in 1 .. Len(s) - 1, NEW j \in 1 .. Len(s) - 1, Tail(s)[i] = Tail(s)[j]
      PROVE  i = j
  <2>1. s[i + 1] = s[j + 1]
    BY <1>1, <1>8
  <2>2. i + 1 = j + 1
    BY <1>2, <1>3, <2>1 DEF IsInjective
  <2>3. QED
    BY <1>1, <2>2
<1>9. QED
  BY <1>2, <1>5, <1>6, <1>7, <1>8 DEF IsInjective

LEMMA InjectivePrefix ==
  ASSUME NEW S, NEW s \in Seq(S), NEW p \in Prefixes(s), IsInjective(s)
  PROVE  IsInjective(p) /\ ToSet(p) \subseteq ToSet(s)
<1>1. PICK l \in 0 .. Len(s) : p = SubSeq(s, 1, l)
  BY DEF Prefixes
<1>2. Len(s) \in Nat /\ \A i \in 1 .. l : i \in 1 .. Len(s) /\ s[i] \in S
  BY LenProperties
<1>3. /\ p \in Seq(S) /\ Len(p) = (IF 1 <= l THEN l - 1 + 1 ELSE 0)
      /\ \A i \in 1 .. l - 1 + 1 : p[i] = s[1 + i - 1]
  BY <1>1, <1>2, SubSeqProperties
<1>4. Len(p) = l /\ \A i \in 1 .. l : p[i] = s[i]
  BY <1>1, <1>2, <1>3
<1>5. /\ DOMAIN p = 1 .. l /\ DOMAIN s = 1 .. Len(s)
      /\ ToSet(s) = { s[i] : i \in 1 .. Len(s) } /\ ToSet(p) = { p[i] : i \in 1 .. l }
  BY <1>3, <1>4, LenProperties, ToSetType
<1>6. QED
  BY <1>2, <1>4, <1>5 DEF IsInjective

LEMMA InjectiveEmpty == IsInjective(<< >>) /\ ToSet(<< >>) = {}
  BY DEF IsInjective, ToSet

LEMMA InjectiveOne == \A x : IsInjective(<< x >>) /\ ToSet(<< x >>) = {x}
  BY DEF IsInjective, ToSet

-----------------------------------------------------------------------------
\* How often a value occurs in a sequence.

LEMMA TimesType ==
  ASSUME NEW S, NEW s \in Seq(S), NEW x
  PROVE  /\ Times(s, x) \in Nat /\ IsFiniteSet({ i \in DOMAIN s : s[i] = x })
         /\ x \notin ToSet(s) => Times(s, x) = 0
<1>1. DOMAIN s = 1 .. Len(s) /\ Len(s) \in Nat /\ 1 \in Int
  BY LenProperties
<1>2. IsFiniteSet(1 .. Len(s))
  BY <1>1, FS_Interval
<1>3. { i \in DOMAIN s : s[i] = x } \subseteq 1 .. Len(s)
  BY <1>1
<1>4. IsFiniteSet({ i \in DOMAIN s : s[i] = x })
  BY <1>2, <1>3, FS_Subset
<1>5. ASSUME x \notin ToSet(s)
      PROVE  { i \in DOMAIN s : s[i] = x } = {}
  BY <1>1, <1>5, ToSetType
<1>6. QED
  BY <1>4, <1>5, FS_CardinalityType, FS_EmptySet DEF Times

LEMMA TimesAppend ==
  ASSUME NEW S, NEW s \in Seq(S), NEW x \in S, NEW v
  PROVE  Times(Append(s, x), v) = IF v = x THEN Times(s, v) + 1 ELSE Times(s, v)
<1> DEFINE A == { i \in DOMAIN s : s[i] = v }
           B == { i \in DOMAIN Append(s, x) : Append(s, x)[i] = v }
           m == Len(s) + 1
<1>1. /\ Append(s, x) \in Seq(S) /\ Len(Append(s, x)) = m /\ Len(s) \in Nat
      /\ \A i \in 1 .. m : Append(s, x)[i] = IF i <= Len(s) THEN s[i] ELSE x
  BY AppendProperties, LenProperties
<1>2. DOMAIN Append(s, x) = 1 .. m /\ DOMAIN s = 1 .. Len(s)
  BY <1>1, LenProperties
<1>3. m \notin 1 .. Len(s) /\ 1 .. m = (1 .. Len(s)) \union {m} /\ ~(m <= Len(s))
      /\ \A i \in 1 .. Len(s) : i <= Len(s)
  BY <1>1
<1>4. B = IF v = x THEN A \union {m} ELSE A
  BY <1>1, <1>2, <1>3
<1>5. m \notin A /\ IsFiniteSet(A) /\ Cardinality(A) = Times(s, v)
      /\ Times(Append(s, x), v) = Cardinality(B)
  BY <1>2, <1>3, TimesType DEF Times
<1> HIDE DEF A, B, m
<1>6. QED
  BY <1>4, <1>5, FS_AddElement

LEMMA TimesConcat ==
  ASSUME NEW S, NEW s \in Seq(S), NEW x \in Seq(S), IsInjective(x), NEW v
  PROVE  Times(s \o x, v) <= (IF v \in ToSet(x) THEN Times(s, v) + 1 ELSE Times(s, v))
<1> DEFINE A == { i \in DOMAIN s : s[i] = v }
           B == { i \in DOMAIN (s \o x) : (s \o x)[i] = v }
<1>1. /\ s \o x \in Seq(S) /\ Len(s \o x) = Len(s) + Len(x) /\ Len(s) \in Nat /\ Len(x) \in Nat
      /\ \A i \in 1 .. Len(s) + Len(x) : (s \o x)[i] = IF i <= Len(s) THEN s[i] ELSE x[i - Len(s)]
  BY ConcatProperties, LenProperties
<1>2. DOMAIN (s \o x) = 1 .. Len(s) + Len(x) /\ DOMAIN s = 1 .. Len(s) /\ DOMAIN x = 1 .. Len(x)
  BY <1>1, LenProperties
<1>3. IsFiniteSet(A) /\ Cardinality(A) = Times(s, v) /\ Times(s, v) \in Nat
      /\ Times(s \o x, v) = Cardinality(B)
  BY TimesType DEF Times
<1>4. ASSUME NEW i \in B
      PROVE  i \in A \/ \E j \in 1 .. Len(x) : i = Len(s) + j /\ x[j] = v
  <2>1. i \in 1 .. Len(s) + Len(x) /\ (s \o x)[i] = v
    BY <1>2
  <2>2. CASE i <= Len(s)
    BY <1>1, <1>2, <2>1, <2>2
  <2>3. CASE ~(i <= Len(s))
    <3>1. i - Len(s) \in 1 .. Len(x) /\ i = Len(s) + (i - Len(s))
      BY <1>1, <2>1, <2>3
    <3>2. x[i - Len(s)] = v
      BY <1>1, <2>1, <2>3
    <3>3. QED
      BY <3>1, <3>2
  <2>4. QED
    BY <2>2, <2>3
<1>5. CASE v \notin ToSet(x)
  <2>1. \A j \in 1 .. Len(x) : x[j] # v
    BY <1>5, ToSetType
  <2>2. B \subseteq A
    BY <1>4, <2>1
  <2> HIDE DEF A, B
  <2>3. Cardinality(B) <= Cardinality(A)
    BY <1>3, <2>2, FS_Subset
  <2>4. QED
    BY <1>3, <1>5, <2>3
<1>6. CASE v \in ToSet(x)
  <2>1. PICK j \in 1 .. Len(x) : x[j] = v
    BY <1>6, ToSetType
  <2>2. \A k \in 1 .. Len(x) : x[k] = v => k = j
    BY <1>2, <2>1 DEF IsInjective
  <2>3. B \subseteq A \union {Len(s) + j}
    BY <1>4, <2>2
  <2> HIDE DEF A, B
  <2>4. /\ IsFiniteSet(A \union {Len(s) + j})
        /\ Cardinality(A \union {Len(s) + j}) = (IF Len(s) + j \in A THEN Cardinality(A) ELSE Cardinality(A) + 1)
    BY <1>3, FS_AddElement
  <2>5. Cardinality(B) <= Cardinality(A \union {Len(s) + j})
        /\ IsFiniteSet(B)
    BY <2>3, <2>4, FS_Subset
  <2>6. Cardinality(B) \in Nat
    BY <2>5, FS_CardinalityType
  <2> DEFINE u == Cardinality(A \union {Len(s) + j})
  <2>7. u = Cardinality(A) \/ u = Cardinality(A) + 1
    BY <2>4
  <2>8. Cardinality(B) <= u
    BY <2>5
  <2> HIDE DEF u
  <2>9. QED
    BY <1>3, <1>6, <2>6, <2>7, <2>8
<1>7. QED
  BY <1>5, <1>6

-----------------------------------------------------------------------------
(***************************************************************************)
(* Each accepted log is in at most one place: waiting, taken, in the open  *)
(* file or in a closed file, there on one line only.                       *)
(***************************************************************************)
OneEach(a, w, t, o, c) ==
  /\ IsInjective(w) /\ IsInjective(o)
  /\ ToSet(w) \subseteq a /\ t \subseteq a /\ ToSet(o) \subseteq a
  /\ ToSet(w) \intersect t = {} /\ ToSet(w) \intersect ToSet(o) = {} /\ t \intersect ToSet(o) = {}
  /\ \A k \in DOMAIN c :
       /\ IsInjective(c[k]) /\ ToSet(c[k]) \subseteq a
       /\ ToSet(c[k]) \intersect ToSet(w) = {}
       /\ ToSet(c[k]) \intersect t = {}
       /\ ToSet(c[k]) \intersect ToSet(o) = {}
       /\ \A l \in DOMAIN c : l # k => ToSet(c[k]) \intersect ToSet(c[l]) = {}

OnePlace ==
  /\ \A n, m \in Names : n # m => ToSet(accepted[n]) \intersect ToSet(accepted[m]) = {}
  /\ \A n \in Names : OneEach(ToSet(accepted[n]), waiting[n], taken[n], open[n], closed[n])

(***************************************************************************)
(* Openings and rows are counted together.  A file that may be opened      *)
(* again has been opened once for each fault and kill at most.  The rows   *)
(* of the file in the callback that are not written yet have been written  *)
(* once less than the file was opened.                                     *)
(***************************************************************************)
Trouble == spent.faults + spent.deaths

Settled(f) == f \in gone \/ (f = file /\ ~(pc = "after" /\ status = "FAILED"))

Opened ==
  /\ pc = "after" => status \in {"COMPLETED", "FAILED"}
  /\ \A f \in AllFiles : Times(started, f) <= (IF Settled(f) THEN 1 + Trouble ELSE Trouble)

SinkFromFiles == \A x \in ToSet(sink) : \E f \in AllFiles : x \in ToSet(RowsOf(f))

Ahead(f, i) == f = file /\ i > pos

Counted ==
  \A f \in AllFiles : \A i \in DOMAIN RowsOf(f) :
    (IF Ahead(f, i) THEN Times(sink, RowsOf(f)[i]) + 1 ELSE Times(sink, RowsOf(f)[i])) <= Times(started, f)

\* The open file becomes one more closed file.
LEMMA OneRolled ==
  ASSUME NEW a, NEW w, NEW t, NEW o \in Seq(LogIds), NEW c \in Seq(Seq(LogIds)),
         OneEach(a, w, t, o, c)
  PROVE  /\ OneEach(a, w, t, << >>, Append(c, o))
         /\ \A x : x \in a /\ x \notin ToSet(w) /\ x \notin t
                    /\ (\A k \in DOMAIN c : x \notin ToSet(c[k])) /\ x \notin ToSet(o)
                      => OneEach(a, w, t, << x >>, Append(c, o))
<1> DEFINE d == Append(c, o)
           m == Len(c) + 1
<1>1. /\ DOMAIN c = 1 .. Len(c) /\ DOMAIN d = 1 .. m /\ Len(c) \in Nat
      /\ \A k \in 1 .. Len(c) : d[k] = c[k]
      /\ d[m] = o
  BY AppendProperties, LenProperties
<1>2. \A k \in 1 .. m : (k \in DOMAIN c /\ d[k] = c[k]) \/ (k \notin DOMAIN c /\ k = m /\ d[k] = o)
  BY <1>1
<1>3. /\ IsInjective(w) /\ IsInjective(o)
      /\ ToSet(w) \subseteq a /\ t \subseteq a /\ ToSet(o) \subseteq a
      /\ ToSet(w) \intersect t = {} /\ ToSet(w) \intersect ToSet(o) = {} /\ t \intersect ToSet(o) = {}
      /\ \A k \in DOMAIN c :
           /\ IsInjective(c[k]) /\ ToSet(c[k]) \subseteq a
           /\ ToSet(c[k]) \intersect ToSet(w) = {}
           /\ ToSet(c[k]) \intersect t = {}
           /\ ToSet(c[k]) \intersect ToSet(o) = {}
           /\ \A l \in DOMAIN c : l # k => ToSet(c[k]) \intersect ToSet(c[l]) = {}
  BY DEF OneEach
<1> HIDE DEF d, m
<1>4. ASSUME NEW k \in DOMAIN d
      PROVE  /\ IsInjective(d[k]) /\ ToSet(d[k]) \subseteq a
             /\ ToSet(d[k]) \intersect ToSet(w) = {} /\ ToSet(d[k]) \intersect t = {}
             /\ \A l \in DOMAIN d : l # k => ToSet(d[k]) \intersect ToSet(d[l]) = {}
  <2>1. CASE k \in DOMAIN c /\ d[k] = c[k]
    <3>1. ASSUME NEW l \in DOMAIN d, l # k
          PROVE  ToSet(d[k]) \intersect ToSet(d[l]) = {}
      <4>1. (l \in DOMAIN c /\ d[l] = c[l]) \/ d[l] = o
        BY <1>1, <1>2
      <4>2. QED
        BY <1>3, <2>1, <3>1, <4>1
    <3>2. QED
      BY <1>3, <2>1, <3>1
  <2>2. CASE k \notin DOMAIN c /\ k = m /\ d[k] = o
    <3>1. ASSUME NEW l \in DOMAIN d, l # k
          PROVE  ToSet(d[k]) \intersect ToSet(d[l]) = {}
      <4>1. l \in DOMAIN c /\ d[l] = c[l]
        BY <1>1, <1>2, <2>2, <3>1
      <4>2. QED
        BY <1>3, <2>2, <4>1
    <3>2. QED
      BY <1>3, <2>2, <3>1
  <2>3. QED
    BY <1>1, <1>2, <2>1, <2>2
<1>5. OneEach(a, w, t, << >>, d)
  BY <1>3, <1>4, InjectiveEmpty DEF OneEach
<1>6. ASSUME NEW x, x \in a, x \notin ToSet(w), x \notin t, \A k \in DOMAIN c : x \notin ToSet(c[k]),
             x \notin ToSet(o)
      PROVE  OneEach(a, w, t, << x >>, d)
  <2>1. IsInjective(<< x >>) /\ ToSet(<< x >>) = {x}
    BY InjectiveOne
  <2>2. \A k \in DOMAIN d : x \notin ToSet(d[k])
    BY <1>1, <1>2, <1>6
  <2>3. QED
    BY <1>3, <1>4, <1>6, <2>1, <2>2 DEF OneEach
<1>7. QED
  BY <1>5, <1>6 DEF d

\* What a name has can shrink, and a log can pass from one place to the next.
LEMMA OneMoves ==
  ASSUME NEW a, NEW w \in Seq(LogIds), NEW t \in SUBSET LogIds, NEW o \in Seq(LogIds),
         NEW c \in Seq(Seq(LogIds)), OneEach(a, w, t, o, c)
  PROVE  /\ w # << >> => OneEach(a, Tail(w), t \union {Head(w)}, o, c)
         /\ \A u \in SUBSET t : OneEach(a, w, u, o, c)
         /\ \A p \in Prefixes(o) : OneEach(a, w, t, p, c) /\ OneEach(a, << >>, {}, p, c)
         /\ \A x \in t : /\ OneEach(a, w, t \ {x}, Append(o, x), c)
                         /\ OneEach(a, w, t \ {x}, << x >>, Append(c, o))
         /\ \A x \in LogIds : x \notin a => OneEach(a \union {x}, Append(w, x), t, o, c)
<1>1. /\ IsInjective(w) /\ IsInjective(o)
      /\ ToSet(w) \subseteq a /\ t \subseteq a /\ ToSet(o) \subseteq a
      /\ ToSet(w) \intersect t = {} /\ ToSet(w) \intersect ToSet(o) = {} /\ t \intersect ToSet(o) = {}
      /\ \A k \in DOMAIN c :
           /\ IsInjective(c[k]) /\ ToSet(c[k]) \subseteq a
           /\ ToSet(c[k]) \intersect ToSet(w) = {}
           /\ ToSet(c[k]) \intersect t = {}
           /\ ToSet(c[k]) \intersect ToSet(o) = {}
           /\ \A l \in DOMAIN c : l # k => ToSet(c[k]) \intersect ToSet(c[l]) = {}
  BY DEF OneEach
<1>2. ASSUME w # << >>
      PROVE  OneEach(a, Tail(w), t \union {Head(w)}, o, c)
  <2>1. /\ IsInjective(Tail(w)) /\ ToSet(Tail(w)) \subseteq ToSet(w)
        /\ Head(w) \in ToSet(w) /\ Head(w) \notin ToSet(Tail(w))
    BY <1>1, <1>2, InjectiveTail
  <2> DEFINE v == Tail(w)
             x == Head(w)
  <2> HIDE DEF v, x
  <2>2. OneEach(a, v, t \union {x}, o, c)
    BY <1>1, <2>1 DEF v, x, OneEach
  <2>3. QED
    BY <2>2 DEF v, x
<1>3. ASSUME NEW u \in SUBSET t
      PROVE  OneEach(a, w, u, o, c)
  BY <1>1, <1>3 DEF OneEach
<1>4. ASSUME NEW p \in Prefixes(o)
      PROVE  OneEach(a, w, t, p, c) /\ OneEach(a, << >>, {}, p, c)
  <2>1. IsInjective(p) /\ ToSet(p) \subseteq ToSet(o)
    BY <1>1, InjectivePrefix
  <2>2. OneEach(a, w, t, p, c)
    BY <1>1, <2>1 DEF OneEach
  <2>3. OneEach(a, << >>, {}, p, c)
    BY <1>1, <2>1, InjectiveEmpty DEF OneEach
  <2>4. QED
    BY <2>2, <2>3
<1>5. ASSUME NEW x \in t
      PROVE  /\ OneEach(a, w, t \ {x}, Append(o, x), c)
             /\ OneEach(a, w, t \ {x}, << x >>, Append(c, o))
  <2>1. x \notin ToSet(o) /\ x \in a /\ x \notin ToSet(w) /\ \A k \in DOMAIN c : x \notin ToSet(c[k])
    BY <1>1
  <2>2. IsInjective(Append(o, x)) /\ ToSet(Append(o, x)) = ToSet(o) \union {x}
    BY <1>1, <2>1, InjectiveAppend, ToSetAppend
  <2> DEFINE q == Append(o, x)
  <2> HIDE DEF q
  <2>3. OneEach(a, w, t \ {x}, q, c)
    BY <1>1, <2>1, <2>2 DEF q, OneEach
  <2>4. OneEach(a, w, t \ {x}, o, c)
    BY <1>3
  <2>5. OneEach(a, w, t \ {x}, << x >>, Append(c, o))
    BY <2>1, <2>4, OneRolled
  <2>6. QED
    BY <2>3, <2>5 DEF q
<1>6. ASSUME NEW x \in LogIds, x \notin a
      PROVE  OneEach(a \union {x}, Append(w, x), t, o, c)
  <2>1. IsInjective(Append(w, x)) /\ ToSet(Append(w, x)) = ToSet(w) \union {x}
    BY <1>1, <1>6, InjectiveAppend, ToSetAppend
  <2> DEFINE q == Append(w, x)
  <2> HIDE DEF q
  <2>2. OneEach(a \union {x}, q, t, o, c)
    BY <1>1, <1>6, <2>1 DEF q, OneEach
  <2>3. QED
    BY <2>2 DEF q
<1>7. QED
  BY <1>2, <1>3, <1>4, <1>5, <1>6

LEMMA OnePlaceInit == Init => OnePlace
  BY InjectiveEmpty DEF Init, Store!StoreInit, OnePlace, OneEach

\* A step that changes one name at most.
LEMMA OnePlaceStep ==
  ASSUME StoreType, OnePlace, NEW n \in Names,
         \A m \in Names \ {n} : /\ waiting'[m] = waiting[m] /\ taken'[m] = taken[m]
                                /\ open'[m] = open[m] /\ closed'[m] = closed[m],
         accepted' = accepted,
         OneEach(ToSet(accepted[n]), waiting'[n], taken'[n], open'[n], closed'[n])
  PROVE  OnePlace'
BY DEF OnePlace

LEMMA OnePlaceStore ==
  ASSUME StoreType, OnePlace, Store!StoreNext
  PROVE  OnePlace'
<1>1. ASSUME NEW n \in Names
      PROVE  /\ waiting[n] \in Seq(LogIds) /\ taken[n] \in SUBSET LogIds /\ open[n] \in Seq(LogIds)
             /\ closed[n] \in Seq(Seq(LogIds)) /\ accepted[n] \in Seq(LogIds)
             /\ OneEach(ToSet(accepted[n]), waiting[n], taken[n], open[n], closed[n])
  BY DEF StoreType, OnePlace
<1>2. ASSUME NEW n \in Names, Store!TakeNext(n)
      PROVE  OnePlace'
  <2>1. /\ waiting[n] # << >> /\ UNCHANGED << accepted, open, closed >>
        /\ waiting'[n] = Tail(waiting[n]) /\ taken'[n] = taken[n] \union {Head(waiting[n])}
        /\ \A m \in Names \ {n} : waiting'[m] = waiting[m] /\ taken'[m] = taken[m]
    BY <1>2 DEF Store!TakeNext, Store!files, StoreType
  <2>2. OneEach(ToSet(accepted[n]), Tail(waiting[n]), taken[n] \union {Head(waiting[n])}, open[n], closed[n])
    BY <1>1, <2>1, OneMoves
  <2>3. QED
    BY <2>1, <2>2, OnePlaceStep
<1>3. ASSUME NEW n \in Names, Store!Roll(n)
      PROVE  OnePlace'
  <2>1. /\ UNCHANGED << accepted, waiting, taken >>
        /\ open'[n] = << >> /\ closed'[n] = Append(closed[n], open[n])
        /\ \A m \in Names \ {n} : open'[m] = open[m] /\ closed'[m] = closed[m]
    BY <1>3 DEF Store!Roll, Store!Rolled, StoreType
  <2>2. OneEach(ToSet(accepted[n]), waiting[n], taken[n], << >>, Append(closed[n], open[n]))
    BY <1>1, OneRolled
  <2>3. QED
    BY <2>1, <2>2, OnePlaceStep
<1>4. ASSUME NEW n \in Names, taken' = taken \/ \E id \in taken[n] : taken' = [taken EXCEPT ![n] = @ \ {id}]
      PROVE  /\ \A m \in Names \ {n} : taken'[m] = taken[m]
             /\ taken'[n] \in SUBSET taken[n]
             /\ OneEach(ToSet(accepted[n]), waiting[n], taken'[n], open[n], closed[n])
  <2>1. /\ \A m \in Names \ {n} : taken'[m] = taken[m]
        /\ taken'[n] \in SUBSET taken[n]
    BY <1>1, <1>4 DEF StoreType
  <2>2. \A u \in SUBSET taken[n] : OneEach(ToSet(accepted[n]), waiting[n], u, open[n], closed[n])
    BY <1>1, OneMoves
  <2>3. QED
    BY <2>1, <2>2
<1>5. ASSUME NEW n \in Names, Store!Drop(n)
      PROVE  OnePlace'
  <2>1. /\ UNCHANGED << accepted, waiting, open, closed >>
        /\ taken' = taken \/ \E id \in taken[n] : taken' = [taken EXCEPT ![n] = @ \ {id}]
    BY <1>5 DEF Store!Drop, Store!files
  <2>2. QED
    BY <1>4, <2>1, OnePlaceStep
<1>6. ASSUME NEW n \in Names, Store!Fail(n)
      PROVE  OnePlace'
  <2>1. /\ UNCHANGED << accepted, waiting >>
        /\ taken' = taken \/ \E id \in taken[n] : taken' = [taken EXCEPT ![n] = @ \ {id}]
    BY <1>6 DEF Store!Fail
  <2>2. PICK u \in SUBSET LogIds :
          /\ u = taken'[n] /\ OneEach(ToSet(accepted[n]), waiting[n], u, open[n], closed[n])
          /\ \A m \in Names \ {n} : taken'[m] = taken[m]
    BY <1>1, <1>4, <2>1
  <2>3. CASE Store!Rolled(n)
    <3>1. /\ open'[n] = << >> /\ closed'[n] = Append(closed[n], open[n])
          /\ \A m \in Names \ {n} : open'[m] = open[m] /\ closed'[m] = closed[m]
      BY <2>3 DEF Store!Rolled, StoreType
    <3>2. OneEach(ToSet(accepted[n]), waiting[n], u, << >>, Append(closed[n], open[n]))
      BY <1>1, <2>2, OneRolled
    <3>3. QED
      BY <2>1, <2>2, <3>1, <3>2, OnePlaceStep
  <2>4. ASSUME NEW p \in Prefixes(open[n]), open' = [open EXCEPT ![n] = p], closed' = closed
        PROVE  OnePlace'
    <3>1. open'[n] = p /\ \A m \in Names \ {n} : open'[m] = open[m]
      BY <2>4 DEF StoreType
    <3>2. OneEach(ToSet(accepted[n]), waiting[n], u, p, closed[n])
      BY <1>1, <2>2, OneMoves
    <3>3. QED
      BY <2>1, <2>2, <2>4, <3>1, <3>2, OnePlaceStep
  <2>5. QED
    BY <1>6, <2>3, <2>4, SamePrefixes DEF Store!Fail
<1>7. ASSUME NEW n \in Names, NEW id \in LogIds, Store!Accept(n, id)
      PROVE  OnePlace'
  <2>1. /\ \A m \in Names : id \notin ToSet(accepted[m])
        /\ accepted'[n] = Append(accepted[n], id) /\ waiting'[n] = Append(waiting[n], id)
        /\ \A m \in Names \ {n} : accepted'[m] = accepted[m] /\ waiting'[m] = waiting[m]
        /\ UNCHANGED << taken, open, closed >>
    BY <1>7, SameToSet DEF Store!Accept, Store!files, StoreType
  <2>2. ToSet(accepted'[n]) = ToSet(accepted[n]) \union {id}
    BY <1>1, <2>1, ToSetAppend
  <2>3. OneEach(ToSet(accepted[n]) \union {id}, Append(waiting[n], id), taken[n], open[n], closed[n])
    BY <1>1, <2>1, OneMoves
  <2>4. OneEach(ToSet(accepted'[n]), waiting'[n], taken'[n], open'[n], closed'[n])
    BY <2>1, <2>2, <2>3
  <2>5. \A m \in Names : ToSet(accepted'[m]) = IF m = n THEN ToSet(accepted[n]) \union {id} ELSE ToSet(accepted[m])
    BY <2>1, <2>2
  <2>6. \A m \in Names \ {n} : OneEach(ToSet(accepted'[m]), waiting'[m], taken'[m], open'[m], closed'[m])
    BY <1>1, <2>1
  <2>7. \A m \in Names : OneEach(ToSet(accepted'[m]), waiting'[m], taken'[m], open'[m], closed'[m])
    BY <2>4, <2>6
  <2>8. \A m, k \in Names : m # k => ToSet(accepted'[m]) \intersect ToSet(accepted'[k]) = {}
    BY <2>1, <2>5 DEF OnePlace
  <2>9. QED
    BY <2>7, <2>8 DEF OnePlace
<1>8. ASSUME NEW n \in Names, NEW id \in LogIds, Store!Store(n, id)
      PROVE  OnePlace'
  <2>1. /\ id \in taken[n] /\ taken'[n] = taken[n] \ {id}
        /\ \A m \in Names \ {n} : taken'[m] = taken[m]
        /\ UNCHANGED << accepted, waiting >>
    BY <1>8 DEF Store!Store, StoreType
  <2>2. /\ OneEach(ToSet(accepted[n]), waiting[n], taken[n] \ {id}, Append(open[n], id), closed[n])
        /\ OneEach(ToSet(accepted[n]), waiting[n], taken[n] \ {id}, << id >>, Append(closed[n], open[n]))
    BY <1>1, <2>1, OneMoves
  <2>3. CASE open' = [open EXCEPT ![n] = Append(@, id)] /\ UNCHANGED closed
    <3>1. open'[n] = Append(open[n], id) /\ \A m \in Names \ {n} : open'[m] = open[m]
      BY <2>3 DEF StoreType
    <3>2. QED
      BY <2>1, <2>2, <2>3, <3>1, OnePlaceStep
  <2>4. CASE open' = [open EXCEPT ![n] = << id >>] /\ closed' = [closed EXCEPT ![n] = Append(@, open[n])]
    <3>1. /\ open'[n] = << id >> /\ closed'[n] = Append(closed[n], open[n])
          /\ \A m \in Names \ {n} : open'[m] = open[m] /\ closed'[m] = closed[m]
      BY <2>4 DEF StoreType
    <3>2. QED
      BY <2>1, <2>2, <3>1, OnePlaceStep
  <2>5. QED
    BY <1>8, <2>3, <2>4 DEF Store!Store
<1>9. ASSUME Store!Crash
      PROVE  OnePlace'
  <2>1. /\ UNCHANGED << accepted, closed >>
        /\ \A n \in Names : waiting'[n] = << >> /\ taken'[n] = {}
    BY <1>9 DEF Store!Crash
  <2>2. \A n \in Names : open'[n] \in Prefixes(open[n])
    BY <1>9, SamePrefixes DEF Store!Crash
  <2>3. ASSUME NEW n \in Names
        PROVE  OneEach(ToSet(accepted[n]), << >>, {}, open'[n], closed[n])
    <3>1. \A p \in Prefixes(open[n]) : OneEach(ToSet(accepted[n]), << >>, {}, p, closed[n])
      BY <1>1, OneMoves
    <3>2. QED
      BY <2>2, <3>1
  <2>4. QED
    BY <2>1, <2>3 DEF OnePlace
<1>10. QED
  BY <1>2, <1>3, <1>5, <1>6, <1>7, <1>8, <1>9 DEF Store!StoreNext

-----------------------------------------------------------------------------
\* No row is in two files, nor in a file and in the open one.

LEMMA FilesApart ==
  ASSUME StoreType, OnePlace, NEW f \in AllFiles
  PROVE  /\ IsInjective(RowsOf(f))
         /\ \A g \in AllFiles : g # f => ToSet(RowsOf(f)) \intersect ToSet(RowsOf(g)) = {}
         /\ \A n \in Names : ToSet(RowsOf(f)) \intersect ToSet(open[n]) = {}
<1>1. \A g \in AllFiles : /\ g[1] \in Names /\ g[2] \in DOMAIN closed[g[1]] /\ g = << g[1], g[2] >>
                          /\ RowsOf(g) = closed[g[1]][g[2]]
  BY FileFacts, LenProperties DEF StoreType, RowsOf
<1>2. \A n \in Names : OneEach(ToSet(accepted[n]), waiting[n], taken[n], open[n], closed[n])
  BY DEF OnePlace
<1>3. \A g \in AllFiles : IsInjective(RowsOf(g)) /\ ToSet(RowsOf(g)) \subseteq ToSet(accepted[g[1]])
  BY <1>1, <1>2 DEF OneEach
<1>4. ASSUME NEW g \in AllFiles, g # f
      PROVE  ToSet(RowsOf(f)) \intersect ToSet(RowsOf(g)) = {}
  <2>1. CASE f[1] = g[1]
    <3>1. f[2] # g[2]
      BY <1>1, <1>4, <2>1
    <3>2. QED
      BY <1>1, <1>2, <2>1, <3>1 DEF OneEach
  <2>2. CASE f[1] # g[1]
    <3>1. ToSet(accepted[f[1]]) \intersect ToSet(accepted[g[1]]) = {}
      BY <1>1, <2>2 DEF OnePlace
    <3>2. QED
      BY <1>3, <3>1
  <2>3. QED
    BY <2>1, <2>2
<1>5. ASSUME NEW n \in Names
      PROVE  ToSet(RowsOf(f)) \intersect ToSet(open[n]) = {}
  <2>1. CASE f[1] = n
    BY <1>1, <1>2, <2>1 DEF OneEach
  <2>2. CASE f[1] # n
    <3>1. ToSet(accepted[f[1]]) \intersect ToSet(accepted[n]) = {}
      BY <1>1, <2>2 DEF OnePlace
    <3>2. ToSet(open[n]) \subseteq ToSet(accepted[n])
      BY <1>2 DEF OneEach
    <3>3. QED
      BY <1>3, <3>1, <3>2
  <2>3. QED
    BY <2>1, <2>2
<1>6. QED
  BY <1>3, <1>4, <1>5

\* A file that appears is what was open until then.
LEMMA NewFiles ==
  ASSUME StoreType, Store!StoreNext, NEW f \in AllFiles', f \notin AllFiles
  PROVE  f[1] \in Names /\ RowsOf(f)' = open[f[1]]
<1>1. \/ closed' = closed
      \/ \E n \in Names : closed' = [closed EXCEPT ![n] = Append(@, open[n])]
  BY DEF Store!StoreNext, Store!TakeNext, Store!Roll, Store!Rolled, Store!Drop, Store!Fail, Store!Accept,
         Store!Store, Store!Crash, Store!files
<1>2. CASE closed' = closed
  BY <1>2 DEF AllFiles, FilesOf
<1>3. ASSUME NEW n \in Names, closed' = [closed EXCEPT ![n] = Append(@, open[n])]
      PROVE  f[1] \in Names /\ RowsOf(f)' = open[f[1]]
  <2>1. /\ closed'[n] = Append(closed[n], open[n]) /\ \A m \in Names \ {n} : closed'[m] = closed[m]
    BY <1>3 DEF StoreType
  <2>2. /\ DOMAIN closed[n] = 1 .. Len(closed[n]) /\ DOMAIN closed'[n] = 1 .. Len(closed[n]) + 1
        /\ closed'[n][Len(closed[n]) + 1] = open[n] /\ Len(closed[n]) \in Nat
    BY <2>1, AppendProperties, LenProperties DEF StoreType
  <2>3. PICK m \in Names : \E k \in DOMAIN closed'[m] : f = << m, k >>
    BY DEF AllFiles, FilesOf
  <2>8. PICK k \in DOMAIN closed'[m] : f = << m, k >>
    BY <2>3
  <2>4. k \notin DOMAIN closed[m]
    BY <2>8 DEF AllFiles, FilesOf
  <2>5. m = n /\ k = Len(closed[n]) + 1
    BY <2>1, <2>2, <2>8, <2>4
  <2>6. f[1] = n /\ f[2] = Len(closed[n]) + 1
    BY <2>8, <2>5
  <2>7. QED
    BY <2>2, <2>6 DEF RowsOf
<1>4. QED
  BY <1>1, <1>2, <1>3

LEMMA TroubleType == MonitorType => Trouble \in Nat
  BY FileMonitorAssumption DEF MonitorType, Trouble

\* A step that opens no file.
LEMMA OpenedKeeps ==
  ASSUME StoreType, MonitorType, MonitorType', Opened, closed' = closed, started' = started,
         Trouble' >= Trouble, pc' = "after" => status' \in {"COMPLETED", "FAILED"},
         \A f \in AllFiles : Settled(f) => Settled(f)' \/ Trouble' >= Trouble + 1
  PROVE  Opened'
<1>1. AllFiles' = AllFiles /\ Trouble \in Nat /\ Trouble' \in Nat
  <2>1. Trouble' \in Nat
    BY FileMonitorAssumption DEF MonitorType, Trouble
  <2>2. QED
    BY <2>1, TroubleType DEF AllFiles, FilesOf
<1>2. ASSUME NEW f \in AllFiles
      PROVE  Times(started', f) <= (IF Settled(f)' THEN 1 + Trouble' ELSE Trouble')
  <2>1. Times(started, f) \in Nat
    BY TimesType DEF MonitorType
  <2>2. Times(started, f) <= (IF Settled(f) THEN 1 + Trouble ELSE Trouble)
    BY DEF Opened
  <2> DEFINE t == Times(started, f)
             a == Trouble
             b == Trouble'
  <2>3. t \in Nat /\ a \in Nat /\ b \in Nat /\ b >= a
    BY <1>1, <2>1
  <2>4. t <= 1 + a /\ (~Settled(f) => t <= a) /\ (Settled(f) => Settled(f)' \/ b >= a + 1)
    <3>1. t <= (IF Settled(f) THEN 1 + a ELSE a)
      BY <2>2
    <3>2. Settled(f) => Settled(f)' \/ b >= a + 1
      OBVIOUS
    <3> HIDE DEF t, a, b
    <3>3. QED
      BY <2>3, <3>1, <3>2
  <2> HIDE DEF t, a, b
  <2>5. t <= (IF Settled(f)' THEN 1 + b ELSE b)
    BY <2>3, <2>4
  <2>6. QED
    BY <2>5 DEF t, b
<1>3. QED
  BY <1>1, <1>2 DEF Opened

LEMMA OpenedNext ==
  ASSUME StoreType, MonitorType, MonitorType', Opened, MonitorNext
  PROVE  Opened'
<1>1. closed' = closed
  BY DEF MonitorNext, Monitor, Start, Interrupt, KillMonitor, AddMonitor, BeginRound, BreakRound,
     ListFiles, EndRound, Sleep, EndFiles, OpenFile, WriteChunk, WriteRest, Complete, AfterStep,
     ListFails, BatchFails, AfterStepFails
<1>2. Trouble \in Nat /\ Trouble >= Trouble
  BY TroubleType
<1>3. ASSUME UNCHANGED << started, gone, spent, file >>,
             \/ UNCHANGED << pc, status >>
             \/ pc' # "after" \/ status' = "COMPLETED"
      PROVE  Opened'
  <2>1. Trouble' = Trouble
    BY <1>3 DEF Trouble
  <2>2. \A f \in AllFiles : Settled(f) => Settled(f)'
    BY <1>3 DEF Settled
  <2>3. pc' = "after" => status' \in {"COMPLETED", "FAILED"}
    BY <1>3 DEF Opened
  <2>4. QED
    BY <1>1, <1>2, <1>3, <2>1, <2>2, <2>3, OpenedKeeps
<1>4. CASE \/ Start \/ Interrupt \/ BeginRound \/ BreakRound \/ ListFiles \/ EndRound \/ Sleep \/ EndFiles
           \/ WriteChunk \/ WriteRest \/ Complete
           \/ \E n \in Names : AddMonitor(n)
  BY <1>3, <1>4 DEF Start, Interrupt, AddMonitor, BeginRound, BreakRound, ListFiles, EndRound, Sleep,
     EndFiles, WriteChunk, WriteRest, Complete, stepVars, roundVars
<1>5. ASSUME started' = started, Trouble' = Trouble + 1,
             pc' = "after" => status' \in {"COMPLETED", "FAILED"}
      PROVE  Opened'
  <2>1. Trouble' >= Trouble /\ Trouble' >= Trouble + 1
    BY <1>2, <1>5
  <2>2. QED
    BY <1>1, <1>5, <2>1, OpenedKeeps
<1>6. ASSUME \/ spent' = [spent EXCEPT !.faults = @ + 1]
             \/ spent' = [spent EXCEPT !.faults = @ + 1, !.unlisted = TRUE]
             \/ spent' = [spent EXCEPT !.deaths = @ + 1, !.unlisted = FALSE]
      PROVE  Trouble' = Trouble + 1
  <2>1. spent.faults \in Nat /\ spent.deaths \in Nat
    BY FileMonitorAssumption DEF MonitorType
  <2>2. \/ spent'.faults = spent.faults + 1 /\ spent'.deaths = spent.deaths
        \/ spent'.faults = spent.faults /\ spent'.deaths = spent.deaths + 1
    BY <1>6 DEF MonitorType
  <2>3. QED
    BY <2>1, <2>2 DEF Trouble
<1>7. CASE ListFails \/ BatchFails \/ AfterStepFails \/ KillMonitor
  <2>1. /\ started' = started
        /\ \/ spent' = [spent EXCEPT !.faults = @ + 1]
           \/ spent' = [spent EXCEPT !.faults = @ + 1, !.unlisted = TRUE]
           \/ spent' = [spent EXCEPT !.deaths = @ + 1, !.unlisted = FALSE]
        /\ pc' = "after" => status' = "FAILED"
    BY <1>7 DEF ListFails, BatchFails, AfterStepFails, KillMonitor, Fault, Thrown
  <2>2. QED
    BY <1>5, <1>6, <2>1
<1>8. CASE AfterStep
  <2>1. /\ UNCHANGED << started, spent, status >> /\ pc' # "after" /\ pc = "after"
        /\ gone' = IF status = "COMPLETED" THEN gone \union {file} ELSE gone
    BY <1>8 DEF AfterStep, Thrown
  <2>2. \A f \in AllFiles : Settled(f) => Settled(f)'
    BY <2>1 DEF Settled, Opened
  <2>3. Trouble' = Trouble
    BY <2>1 DEF Trouble
  <2>4. QED
    BY <1>1, <1>2, <2>1, <2>2, <2>3, OpenedKeeps
<1>9. ASSUME NEW g \in list, OpenFile(g)
      PROVE  Opened'
  <2>1. /\ started' = Append(started, g) /\ file' = g /\ pc' = "batch" /\ pc = "files"
        /\ UNCHANGED << gone, spent >>
    BY <1>9 DEF OpenFile
  <2>2. g \in AllFiles /\ g \notin gone /\ file = << >> /\ started \in Seq(AllFiles)
    BY <2>1 DEF MonitorType
  <2>3. AllFiles' = AllFiles /\ Trouble' = Trouble
    BY <1>1, <2>1 DEF AllFiles, FilesOf, Trouble
  <2>4. ASSUME NEW f \in AllFiles
        PROVE  Times(started', f) <= (IF Settled(f)' THEN 1 + Trouble ELSE Trouble)
    <3>1. /\ Times(started, f) \in Nat
          /\ Times(started', f) = IF f = g THEN Times(started, f) + 1 ELSE Times(started, f)
      <4>1. Times(started, f) \in Nat
        BY <2>2, TimesType
      <4>2. Times(Append(started, g), f) = IF f = g THEN Times(started, f) + 1 ELSE Times(started, f)
        BY <2>2, TimesAppend
      <4>3. QED
        BY <2>1, <4>1, <4>2
    <3>2. f # << >>
      BY FileFacts
    <3>3. CASE f = g
      <4>1. ~Settled(f) /\ Settled(f)'
        BY <2>1, <2>2, <3>2, <3>3 DEF Settled
      <4>2. Times(started, f) <= Trouble
        BY <4>1 DEF Opened
      <4>3. \A a, b \in Nat : a <= b => a + 1 <= 1 + b
        OBVIOUS
      <4>4. QED
        BY <1>2, <3>1, <3>3, <4>1, <4>2, <4>3
    <3>4. CASE f # g
      <4>1. Settled(f)' <=> Settled(f)
        BY <2>1, <2>2, <3>2, <3>4 DEF Settled
      <4>2. QED
        BY <3>1, <3>4, <4>1 DEF Opened
    <3>5. QED
      BY <3>3, <3>4
  <2>5. QED
    BY <2>1, <2>3, <2>4 DEF Opened
<1>10. QED
  BY <1>4, <1>7, <1>8, <1>9 DEF MonitorNext, Monitor

LEMMA OpenedLog ==
  ASSUME StoreType, MonitorType, Opened, Log
  PROVE  Opened'
<1>1. UNCHANGED << gone, file, pc, status, started, spent >>
  BY DEF Log, roundVars, stepVars
<1>2. started \in Seq(AllFiles) /\ Trouble \in Nat /\ Trouble' = Trouble
  BY <1>1, TroubleType DEF MonitorType, Trouble
<1>3. ASSUME NEW f \in AllFiles'
      PROVE  Times(started, f) <= (IF Settled(f) THEN 1 + Trouble ELSE Trouble)
  <2>1. CASE f \in AllFiles
    BY <2>1 DEF Opened
  <2>2. CASE f \notin AllFiles
    <3>1. ToSet(started) \subseteq AllFiles
      BY <1>2, ToSetType
    <3>2. Times(started, f) = 0
      BY <1>2, <2>2, <3>1, TimesType
    <3>3. QED
      BY <1>2, <3>2
  <2>3. QED
    BY <2>1, <2>2
<1>4. \A f : Settled(f)' <=> Settled(f)
  BY <1>1 DEF Settled
<1>5. QED
  BY <1>1, <1>2, <1>3, <1>4 DEF Opened

-----------------------------------------------------------------------------
\* Rows that are written.

LEMMA CountedWrites ==
  ASSUME StoreType, MonitorType, OnePlace, SinkFromFiles, Counted, file # << >>, NEW x \in Seq(LogIds),
         pos + Len(x) <= Len(Rows), \A i \in 1 .. Len(x) : x[i] = Rows[pos + i],
         sink' = sink \o x, pos' = pos + Len(x), UNCHANGED << closed, file, started >>
  PROVE  SinkFromFiles' /\ Counted'
<1>1. /\ file \in AllFiles /\ Rows = RowsOf(file) /\ Rows \in Seq(LogIds) /\ pos \in Nat
      /\ Len(Rows) \in Nat /\ Len(x) \in Nat /\ sink \in Seq(LogIds) /\ started \in Seq(AllFiles)
  BY LeftFacts, LenProperties DEF MonitorType
<1>2. AllFiles' = AllFiles /\ \A f : RowsOf(f)' = RowsOf(f)
  BY DEF AllFiles, FilesOf, RowsOf
<1>3. /\ DOMAIN x = 1 .. Len(x) /\ DOMAIN Rows = 1 .. Len(Rows)
      /\ ToSet(x) = { x[i] : i \in 1 .. Len(x) } /\ ToSet(Rows) = { Rows[i] : i \in 1 .. Len(Rows) }
  BY <1>1, LenProperties, ToSetType
<1>4. \A i \in 1 .. Len(x) : pos + i \in 1 .. Len(Rows)
  BY <1>1
<1>5. IsInjective(Rows)
  BY <1>1, FilesApart
<1>6. IsInjective(x)
  <2>1. ASSUME NEW i \in 1 .. Len(x), NEW j \in 1 .. Len(x), x[i] = x[j]
        PROVE  i = j
    <3>1. Rows[pos + i] = Rows[pos + j]
      BY <2>1
    <3>2. pos + i = pos + j
      BY <1>3, <1>4, <1>5, <3>1 DEF IsInjective
    <3>3. QED
      BY <1>1, <3>2
  <2>2. QED
    BY <1>3, <2>1 DEF IsInjective
<1>7. ToSet(x) \subseteq ToSet(Rows)
  BY <1>3, <1>4
<1>8. SinkFromFiles'
  <2>1. ToSet(sink \o x) \subseteq ToSet(sink) \union ToSet(x)
    <3>1. /\ sink \o x \in Seq(LogIds) /\ Len(sink \o x) = Len(sink) + Len(x) /\ Len(sink) \in Nat
          /\ \A i \in 1 .. Len(sink) + Len(x) : (sink \o x)[i] = IF i <= Len(sink) THEN sink[i] ELSE x[i - Len(sink)]
      BY <1>1, ConcatProperties, LenProperties
    <3>2. /\ ToSet(sink) = { sink[i] : i \in 1 .. Len(sink) }
          /\ ToSet(sink \o x) = { (sink \o x)[i] : i \in 1 .. Len(sink) + Len(x) }
      BY <1>1, <3>1, ToSetType
    <3>3. \A i \in 1 .. Len(sink) + Len(x) : i \in 1 .. Len(sink) \/ (~(i <= Len(sink)) /\ i - Len(sink) \in 1 .. Len(x))
      BY <1>1, <3>1
    <3>4. QED
      BY <1>3, <3>1, <3>2, <3>3
  <2>2. ASSUME NEW v \in ToSet(sink \o x)
        PROVE  \E f \in AllFiles : v \in ToSet(RowsOf(f))
    BY <1>1, <1>7, <2>1, <2>2 DEF SinkFromFiles
  <2>3. QED
    BY <1>2, <2>2 DEF SinkFromFiles
<1>9. ASSUME NEW f \in AllFiles, NEW i \in DOMAIN RowsOf(f)
      PROVE  (IF Ahead(f, i)' THEN Times(sink \o x, RowsOf(f)[i]) + 1 ELSE Times(sink \o x, RowsOf(f)[i]))
               <= Times(started, f)
  <2> DEFINE v == RowsOf(f)[i]
             a == Times(sink, v)
             b == Times(sink \o x, v)
             t == Times(started, f)
  <2>1. a \in Nat /\ b \in Nat /\ t \in Nat /\ b <= (IF v \in ToSet(x) THEN a + 1 ELSE a)
    <3>1. a \in Nat
      BY <1>1, TimesType
    <3>2. b \in Nat
      BY <1>1, ConcatProperties, TimesType
    <3>3. t \in Nat
      BY <1>1, TimesType
    <3>4. QED
      BY <1>1, <1>6, <3>1, <3>2, <3>3, TimesConcat
  <2>2. (IF Ahead(f, i) THEN a + 1 ELSE a) <= t
    BY DEF Counted
  <2>3. RowsOf(f) \in Seq(LogIds) /\ i \in 1 .. Len(RowsOf(f)) /\ Len(RowsOf(f)) \in Nat /\ v \in ToSet(RowsOf(f))
    <3>1. RowsOf(f) \in Seq(LogIds) /\ Len(RowsOf(f)) \in Nat
      BY FileFacts
    <3>2. QED
      BY <1>9, <3>1, LenProperties, ToSetType
  <2>4. CASE v \in ToSet(x)
    <3>1. f = file
      BY <1>1, <1>7, <2>3, <2>4, FilesApart
    <3>2. PICK j \in 1 .. Len(x) : v = Rows[pos + j]
      BY <1>3, <2>4
    <3>3. i = pos + j
      BY <1>1, <1>3, <1>4, <1>5, <2>3, <3>1, <3>2 DEF IsInjective
    <3>4. i > pos /\ ~(i > pos + Len(x))
      BY <1>1, <3>3
    <3>5. Ahead(f, i) /\ ~Ahead(f, i)'
      BY <3>1, <3>4 DEF Ahead
    <3> HIDE DEF a, b, t, v
    <3>6. QED
      BY <2>1, <2>2, <2>4, <3>5 DEF b, v, t
  <2>5. CASE v \notin ToSet(x)
    <3>1. Ahead(f, i)' => Ahead(f, i)
      <4>1. \A p, l, k \in Nat : k > p + l => k > p
        OBVIOUS
      <4>2. i \in Nat
        BY <2>3
      <4>3. QED
        BY <1>1, <4>1, <4>2 DEF Ahead
    <3>2. b <= a
      BY <2>1, <2>5
    <3> HIDE DEF a, b, t, v
    <3>3. (IF Ahead(f, i)' THEN b + 1 ELSE b) <= t
      BY <2>1, <2>2, <3>1, <3>2
    <3>4. QED
      BY <3>3 DEF b, v, t
  <2>6. QED
    BY <2>4, <2>5
<1>10. QED
  BY <1>2, <1>8, <1>9 DEF Counted

LEMMA CountedNext ==
  ASSUME StoreType, MonitorType, OnePlace, SinkFromFiles, Counted, MonitorNext
  PROVE  SinkFromFiles' /\ Counted'
<1>1. closed' = closed
  BY DEF MonitorNext, Monitor, Start, Interrupt, KillMonitor, AddMonitor, BeginRound, BreakRound,
     ListFiles, EndRound, Sleep, EndFiles, OpenFile, WriteChunk, WriteRest, Complete, AfterStep,
     ListFails, BatchFails, AfterStepFails
<1>2. AllFiles' = AllFiles /\ \A f : RowsOf(f)' = RowsOf(f)
  BY <1>1 DEF AllFiles, FilesOf, RowsOf
<1>3. /\ started \in Seq(AllFiles) /\ sink \in Seq(LogIds)
      /\ \A f \in AllFiles : f # << >> /\ Times(started, f) \in Nat
      /\ \A v : Times(sink, v) \in Nat
  <2>1. started \in Seq(AllFiles) /\ sink \in Seq(LogIds)
    BY DEF MonitorType
  <2>2. \A f \in AllFiles : f # << >> /\ Times(started, f) \in Nat
    BY <2>1, FileFacts, TimesType
  <2>3. \A v : Times(sink, v) \in Nat
    BY <2>1, TimesType
  <2>4. QED
    BY <2>1, <2>2, <2>3
<1>4. \A f \in AllFiles : \A i \in DOMAIN RowsOf(f) :
        /\ Times(sink, RowsOf(f)[i]) <= Times(started, f)
        /\ Ahead(f, i) => Times(sink, RowsOf(f)[i]) + 1 <= Times(started, f)
  <2>1. ASSUME NEW f \in AllFiles, NEW i \in DOMAIN RowsOf(f)
        PROVE  /\ Times(sink, RowsOf(f)[i]) <= Times(started, f)
               /\ Ahead(f, i) => Times(sink, RowsOf(f)[i]) + 1 <= Times(started, f)
    <3>1. (IF Ahead(f, i) THEN Times(sink, RowsOf(f)[i]) + 1 ELSE Times(sink, RowsOf(f)[i])) <= Times(started, f)
      BY DEF Counted
    <3>2. Times(started, f) \in Nat /\ Times(sink, RowsOf(f)[i]) \in Nat
      BY <1>3
    <3>3. QED
      BY <3>1, <3>2
  <2>2. QED
    BY <2>1
<1>5. ASSUME UNCHANGED << sink, started >>, file' = << >> \/ UNCHANGED << file, pos >>
      PROVE  SinkFromFiles' /\ Counted'
  <2>1. \A f \in AllFiles : \A i : Ahead(f, i)' => Ahead(f, i)
    BY <1>3, <1>5 DEF Ahead
  <2>2. QED
    BY <1>2, <1>4, <1>5, <2>1 DEF Counted, SinkFromFiles
<1>6. CASE \/ Start \/ Interrupt \/ BeginRound \/ BreakRound \/ ListFiles \/ EndRound \/ Sleep \/ EndFiles
           \/ Complete \/ AfterStep \/ ListFails \/ BatchFails \/ AfterStepFails \/ KillMonitor
           \/ \E n \in Names : AddMonitor(n)
  BY <1>5, <1>6 DEF Start, Interrupt, AddMonitor, BeginRound, BreakRound, ListFiles, EndRound, Sleep,
     EndFiles, Complete, AfterStep, ListFails, BatchFails, AfterStepFails, KillMonitor, stepVars, roundVars
<1>7. ASSUME NEW g \in list, OpenFile(g)
      PROVE  SinkFromFiles' /\ Counted'
  <2>1. /\ started' = Append(started, g) /\ sink' = sink /\ file' = g /\ g \in AllFiles
    BY <1>7 DEF OpenFile, MonitorType
  <2>2. ASSUME NEW f \in AllFiles, NEW i \in DOMAIN RowsOf(f)
        PROVE  (IF Ahead(f, i)' THEN Times(sink, RowsOf(f)[i]) + 1 ELSE Times(sink, RowsOf(f)[i]))
                 <= Times(started', f)
    <3>1. Times(Append(started, g), f) = IF f = g THEN Times(started, f) + 1 ELSE Times(started, f)
      BY <1>3, <2>1, TimesAppend
    <3>2. f # g => ~Ahead(f, i)'
      BY <2>1 DEF Ahead
    <3> DEFINE a == Times(sink, RowsOf(f)[i])
               t == Times(started, f)
               u == Times(Append(started, g), f)
    <3>3. a \in Nat /\ t \in Nat /\ a <= t /\ u = IF f = g THEN t + 1 ELSE t
      BY <1>3, <1>4, <3>1
    <3> HIDE DEF a, t, u
    <3>4. (IF Ahead(f, i)' THEN a + 1 ELSE a) <= u
      BY <3>2, <3>3
    <3>5. QED
      BY <2>1, <3>4 DEF a, u
  <2>3. QED
    BY <1>2, <2>1, <2>2 DEF Counted, SinkFromFiles
<1>8. CASE WriteChunk
  <2>1. file # << >>
    BY <1>8 DEF WriteChunk, MonitorType
  <2> DEFINE x == SubSeq(Left, 1, CommitInterval)
  <2>2. /\ x \in Seq(LogIds) /\ Len(x) = CommitInterval /\ pos + Len(x) <= Len(Rows)
        /\ \A i \in 1 .. Len(x) : x[i] = Rows[pos + i]
    BY <1>8, <2>1, ChunkFacts, FileMonitorAssumption DEF WriteChunk
  <2>3. /\ sink' = sink \o x /\ pos' = pos + Len(x) /\ UNCHANGED << file, started >>
    BY <1>8, <2>2 DEF WriteChunk
  <2> HIDE DEF x
  <2>4. QED
    BY <1>1, <2>1, <2>2, <2>3, CountedWrites
<1>9. CASE WriteRest
  <2>1. file # << >>
    BY <1>9 DEF WriteRest, MonitorType
  <2>2. /\ Left \in Seq(LogIds) /\ pos + Len(Left) <= Len(Rows) /\ pos + Len(Left) = Len(Rows)
        /\ \A i \in 1 .. Len(Left) : Left[i] = Rows[pos + i]
    BY <2>1, LeftFacts
  <2>3. /\ sink' = sink \o Left /\ pos' = pos + Len(Left) /\ UNCHANGED << file, started >>
    BY <1>9, <2>1, <2>2 DEF WriteRest
  <2>4. QED
    BY <1>1, <2>1, <2>2, <2>3, CountedWrites
<1>10. QED
  BY <1>6, <1>7, <1>8, <1>9 DEF MonitorNext, Monitor

LEMMA CountedLog ==
  ASSUME StoreType, MonitorType, OnePlace, SinkFromFiles, Counted, Log
  PROVE  SinkFromFiles' /\ Counted'
<1>1. UNCHANGED << sink, file, pos, started >> /\ StoreType' /\ Grown
  BY StoreNextType DEF Log, roundVars, stepVars
<1>2. AllFiles \subseteq AllFiles' /\ \A f \in AllFiles : RowsOf(f)' = RowsOf(f)
  BY <1>1, GrownFiles DEF RowsOf
<1>3. /\ started \in Seq(AllFiles) /\ sink \in Seq(LogIds)
      /\ file # << >> => file \in AllFiles
      /\ \A n \in Names : open[n] \in Seq(LogIds)
  BY DEF MonitorType, StoreType
<1>4. SinkFromFiles'
  BY <1>1, <1>2 DEF SinkFromFiles
<1>5. ASSUME NEW f \in AllFiles', NEW i \in DOMAIN RowsOf(f)'
      PROVE  (IF Ahead(f, i)' THEN Times(sink, RowsOf(f)'[i]) + 1 ELSE Times(sink, RowsOf(f)'[i])) <= Times(started, f)
  <2>1. Ahead(f, i)' <=> Ahead(f, i)
    BY <1>1 DEF Ahead
  <2>2. CASE f \in AllFiles
    BY <1>2, <2>1, <2>2 DEF Counted
  <2>3. CASE f \notin AllFiles
    <3>1. f[1] \in Names /\ RowsOf(f)' = open[f[1]]
      BY <2>3, NewFiles DEF Log
    <3>2. open[f[1]][i] \in ToSet(open[f[1]])
      BY <1>3, <1>5, <3>1, LenProperties, ToSetType
    <3>3. open[f[1]][i] \notin ToSet(sink)
      BY <3>1, <3>2, FilesApart DEF SinkFromFiles
    <3>4. Times(sink, open[f[1]][i]) = 0
      BY <1>3, <3>3, TimesType
    <3>5. Times(started, f) \in Nat
      BY <1>3, TimesType
    <3>6. f # << >>
      BY DEF AllFiles, FilesOf
    <3>7. ~Ahead(f, i)
      BY <1>3, <2>3, <3>6 DEF Ahead
    <3>8. QED
      BY <2>1, <3>1, <3>4, <3>5, <3>7
  <2>4. QED
    BY <2>2, <2>3
<1>6. QED
  BY <1>1, <1>4, <1>5 DEF Counted

CountInv == OnePlace /\ Opened /\ SinkFromFiles /\ Counted

LEMMA CountInit == Init => CountInv
<1> SUFFICES ASSUME Init PROVE CountInv
  OBVIOUS
<1>1. /\ \A n \in Names : closed[n] = << >>
      /\ sink = << >> /\ pc = "none"
  BY DEF Init, Store!StoreInit, MonitorInit
<1>2. AllFiles = {}
  BY <1>1 DEF AllFiles, FilesOf
<1>3. QED
  BY <1>1, <1>2, OnePlaceInit, InjectiveEmpty DEF CountInv, Opened, SinkFromFiles, Counted

LEMMA CountNext ==
  ASSUME StoreType, MonitorType, CountInv, [Next]_vars
  PROVE  CountInv'
<1>1. StoreType' /\ MonitorType'
  BY TypesNext
<1>2. CASE Log
  BY <1>2, OnePlaceStore, OpenedLog, CountedLog DEF CountInv, Log
<1>3. CASE MonitorNext /\ UNCHANGED storeOwn
  <2>1. closed' = closed
    BY <1>3 DEF MonitorNext, Monitor, Start, Interrupt, KillMonitor, AddMonitor, BeginRound, BreakRound,
       ListFiles, EndRound, Sleep, EndFiles, OpenFile, WriteChunk, WriteRest, Complete, AfterStep,
       ListFails, BatchFails, AfterStepFails
  <2>2. OnePlace'
    BY <1>3, <2>1 DEF CountInv, OnePlace, storeOwn
  <2>3. QED
    BY <1>1, <1>3, <2>2, OpenedNext, CountedNext DEF CountInv
<1>4. CASE UNCHANGED vars
  <2>1. UNCHANGED << closed, gone, sink, file, pos, pc, status, started, spent, accepted, waiting, taken, open >>
    BY <1>4 DEF vars, storeOwn, monitorVars, roundVars, stepVars
  <2>2. AllFiles' = AllFiles /\ (\A f : RowsOf(f)' = RowsOf(f)) /\ Trouble' = Trouble
    BY <2>1 DEF AllFiles, FilesOf, RowsOf, Trouble
  <2>3. OnePlace'
    BY <2>1 DEF CountInv, OnePlace
  <2>4. Opened'
    BY <2>1, <2>2 DEF CountInv, Opened, Settled
  <2>5. SinkFromFiles' /\ Counted'
    BY <2>1, <2>2 DEF CountInv, SinkFromFiles, Counted, Ahead
  <2>6. QED
    BY <2>3, <2>4, <2>5 DEF CountInv
<1>5. QED
  BY <1>2, <1>3, <1>4 DEF Next

(***************************************************************************)
(* For every number of names and files, every size of chunks and any       *)
(* faults and kills on both sides: a row is written once for each time its *)
(* file was opened at most, and a file is opened again only after a fault  *)
(* or a kill.  (FileMonitor.run, FileMonitorBatchCallback.doFileCallback)  *)
(***************************************************************************)
THEOREM RowsAreWrittenOnce == FairSpec => []OncePerOpening
<1>1. ASSUME StoreType, MonitorType, CountInv
      PROVE  OncePerOpening
  <2>1. ASSUME NEW f \in AllFiles
        PROVE  Times(started, f) <= 1 + spent.faults + spent.deaths
    <3>1. Times(started, f) <= (IF Settled(f) THEN 1 + Trouble ELSE Trouble)
      BY <1>1 DEF CountInv, Opened
    <3>2. started \in Seq(AllFiles) /\ spent.faults \in Nat /\ spent.deaths \in Nat
      BY <1>1, FileMonitorAssumption DEF MonitorType
    <3>3. Times(started, f) \in Nat
      BY <3>2, TimesType
    <3>4. QED
      BY <3>1, <3>2, <3>3 DEF Trouble
  <2>2. ASSUME NEW n \in Names, NEW f \in FilesOf(n), NEW id \in ToSet(closed[n][f[2]])
        PROVE  Times(sink, id) <= Times(started, f)
    <3>1. f \in AllFiles /\ f[1] = n
      BY DEF AllFiles, FilesOf
    <3>2. RowsOf(f) = closed[n][f[2]] /\ RowsOf(f) \in Seq(LogIds)
      BY <1>1, <3>1, FileFacts DEF RowsOf
    <3>3. PICK i \in DOMAIN RowsOf(f) : id = RowsOf(f)[i]
      BY <3>2, LenProperties, ToSetType
    <3>4. (IF Ahead(f, i) THEN Times(sink, id) + 1 ELSE Times(sink, id)) <= Times(started, f)
      BY <1>1, <3>1, <3>3 DEF CountInv, Counted
    <3>5. started \in Seq(AllFiles) /\ sink \in Seq(LogIds)
      BY <1>1 DEF MonitorType
    <3>6. Times(started, f) \in Nat
      BY <3>5, TimesType
    <3>7. Times(sink, id) \in Nat
      BY <3>5, TimesType
    <3>8. QED
      BY <3>4, <3>6, <3>7
  <2>3. QED
    BY <2>1, <2>2 DEF OncePerOpening
<1>2. Init => CountInv
  BY CountInit
<1>3. StoreType /\ MonitorType /\ CountInv /\ [Next]_vars => CountInv'
  BY CountNext
<1>4. FairSpec => [](StoreType /\ MonitorType)
  BY PipelineAlways, PTL DEF PipelineInv
<1>5. StoreType /\ MonitorType /\ CountInv => OncePerOpening
  BY <1>1
<1>6. QED
  BY <1>2, <1>3, <1>4, <1>5, PTL DEF FairSpec

=============================================================================
