----------------------- MODULE HistoricalBackfillProofs -----------------------
(***************************************************************************)
(* Proofs about HistoricalBackfill, for any rows, tables, requests and     *)
(* chunk sizes.                                                            *)
(*                                                                         *)
(* The paging argument: a row without a tie has a rank, the number of      *)
(* matching rows before it, and a page is the rows of its ranks.  Rows     *)
(* committed meanwhile can only raise a rank, so the page that reaches it  *)
(* is still to come (nothing is missed); and a row that nothing was        *)
(* committed in front of keeps its rank, which is in one page only.        *)
(***************************************************************************)
EXTENDS HistoricalBackfill, TLAPS, FiniteSetTheorems, WellFoundedInduction

-----------------------------------------------------------------------------
(* Type correctness.                                                       *)

PCs == {"none", "validate", "select", "put", "trigger", "success", "failed",
        "silverFailed"}

RunsType ==
  /\ pc \in PCs
  /\ runs \in Seq(Confs) /\ Len(runs) <= MaxRuns
  /\ pc # "none" => runs # <<>>

PagingType ==
  /\ table \in Nat \ {0}
  /\ pc \in {"select", "put"} => table <= Len(conf.tables)
  /\ chunk \in Nat

RowsType ==
  /\ db \subseteq Rows
  /\ page \in SUBSET db
  /\ before \in SUBSET db
  /\ \A k \in DOMAIN bronze : bronze[k] \in SUBSET db

CountsType ==
  /\ exported \in [Rows -> 0..2]
  /\ saved \in [Rows -> 0..Len(runs)]

\* TypeOK is the conjunction of its named parts, now and after a step.
LEMMA TypeParts ==
  /\ TypeOK <=> RunsType /\ PagingType /\ RowsType /\ CountsType
  /\ TypeOK' <=> RunsType' /\ PagingType' /\ RowsType' /\ CountsType'
BY DEF TypeOK, RunsType, PagingType, RowsType, CountsType, PCs

\* The conf of the run in progress is one of Confs.
LEMMA ConfType ==
  ASSUME RunsType, pc # "none"
  PROVE  /\ conf \in Confs /\ Len(conf.tables) \in Nat \ {0}
         /\ conf.start \in Nat /\ conf.end \in Nat
         /\ \A i, j \in 1..Len(conf.tables) : conf.tables[i] = conf.tables[j] => i = j
         /\ Len(runs) \in Nat \ {0}
<1>1. Len(runs) \in Nat \ {0} /\ runs[Len(runs)] \in Confs
  BY DEF RunsType
<1> QED
  BY <1>1, BackfillAssumption DEF conf

\* Nothing has run.
LEMMA BackfillInit == Init => TypeOK
<1> SUFFICES ASSUME Init PROVE TypeOK
  OBVIOUS
<1>1. RunsType
  BY BackfillAssumption DEF Init, RunsType, PCs
<1>2. PagingType
  BY DEF Init, PagingType
<1>3. RowsType
  BY DEF Init, RowsType
<1>4. CountsType
  BY DEF Init, CountsType, Zero
<1> QED
  BY <1>1, <1>2, <1>3, <1>4, TypeParts

\* What an export begins with.
LEMMA BeginExportType ==
  ASSUME TypeOK, BeginExport, UNCHANGED <<db, bronze>>
  PROVE  /\ table' = 1 /\ chunk' = 0
         /\ RowsType'
         /\ exported' \in [Rows -> 0..2]
BY TypeParts DEF BeginExport, RowsType, CountsType, Zero

\* A page is made of committed rows that the SELECT matches.
LEMMA PageRows ==
  ASSUME NEW P \in Pages
  PROVE  P \subseteq Matching /\ P \subseteq db
BY DEF Pages, Matching

\* Every action keeps the types.
LEMMA BackfillStep ==
  ASSUME TypeOK, [Next]_vars
  PROVE  TypeOK'
<1> USE TypeParts
<1>1. ASSUME NEW r \in Rows, CommitRow(r) PROVE TypeOK'
  <2>1. db' = db \cup {r} /\ UNCHANGED <<pc, runs, table, chunk, page, bronze, before, exported, saved>>
    BY <1>1 DEF CommitRow, task, history
  <2>2. RunsType' /\ PagingType' /\ CountsType'
    BY <2>1 DEF RunsType, PagingType, CountsType, conf
  <2>3. RowsType'
    BY <2>1 DEF RowsType
  <2> QED
    BY <2>2, <2>3
<1>2. ASSUME NEW c \in Confs, TriggerRun(c) PROVE TypeOK'
  <2>1. /\ runs' = Append(runs, c) /\ pc' = "validate" /\ Len(runs) < MaxRuns
        /\ UNCHANGED <<db, table, chunk, page, bronze, before, exported, saved>>
    BY <1>2 DEF TriggerRun, source, history
  <2>2. runs' \in Seq(Confs) /\ Len(runs') = Len(runs) + 1 /\ Len(runs) \in Nat
    BY <2>1 DEF RunsType
  <2>3. RunsType'
    BY <2>1, <2>2, BackfillAssumption DEF RunsType, PCs
  <2>4. PagingType' /\ RowsType'
    BY <2>1 DEF PagingType, RowsType
  <2>5. CountsType'
    BY <2>1, <2>2 DEF CountsType
  <2> QED
    BY <2>3, <2>4, <2>5
<1>3. CASE Validate
  <2>1. pc = "validate" /\ UNCHANGED <<db, runs, bronze, saved>>
    BY <1>3 DEF Validate, source
  <2>2. CASE pc' = "select" /\ BeginExport
    <3>1. RunsType'
      BY <2>1, <2>2 DEF RunsType, PCs
    <3>2. PagingType'
      BY <2>1, <2>2, ConfType DEF PagingType, BeginExport, conf
    <3>3. RowsType' /\ CountsType'
      BY <2>1, <2>2, BeginExportType DEF CountsType
    <3> QED
      BY <3>1, <3>2, <3>3
  <2>3. CASE pc' = "failed" /\ UNCHANGED <<table, chunk, page, before, exported>>
    BY <2>1, <2>3 DEF RunsType, PagingType, RowsType, CountsType, PCs
  <2> QED
    BY <1>3, <2>2, <2>3 DEF Validate
<1>4. CASE SelectPage
  <2>1. pc = "select" /\ UNCHANGED <<db, runs, bronze, before, exported, saved>>
    BY <1>4 DEF SelectPage, source, history
  <2>2. PICK P \in Pages : IF P = {} THEN NextTable /\ UNCHANGED page
                                     ELSE pc' = "put" /\ page' = P /\ UNCHANGED <<table, chunk>>
    BY <1>4 DEF SelectPage
  <2>3. P \subseteq db
    BY PageRows
  <2>4. Len(conf.tables) \in Nat /\ conf' = conf
    BY <2>1, ConfType DEF conf
  <2>5. RunsType' /\ PagingType'
    BY <2>1, <2>2, <2>4 DEF RunsType, PagingType, NextTable, PCs
  <2>6. RowsType'
    BY <2>1, <2>2, <2>3 DEF RowsType
  <2>7. CountsType'
    BY <2>1 DEF CountsType
  <2> QED
    BY <2>5, <2>6, <2>7
<1>5. CASE PutChunk
  <2>1. pc = "put" /\ page' = {} /\ UNCHANGED <<db, runs, before>>
    BY <1>5 DEF PutChunk, source
  <2>2. Len(conf.tables) \in Nat /\ conf' = conf
    BY <2>1, ConfType DEF conf
  <2>3. RunsType' /\ PagingType'
    BY <1>5, <2>1, <2>2 DEF PutChunk, RunsType, PagingType, NextTable, NextChunk, PCs
  <2>4. RowsType'
    BY <1>5, <2>1 DEF PutChunk, RowsType
  <2>5. CountsType'
    BY <1>5, <2>1 DEF PutChunk, CountsType, AddOnce, RunsType
  <2> QED
    BY <2>3, <2>4, <2>5
<1>6. CASE ExportFails
  <2>1. /\ pc' = "failed" /\ page' = {} /\ pc # "none"
        /\ UNCHANGED <<db, runs, table, chunk, bronze, before, exported, saved>>
    BY <1>6 DEF ExportFails, source, history
  <2>2. RunsType' /\ PagingType' /\ RowsType'
    BY <2>1 DEF RunsType, PagingType, RowsType, PCs
  <2>3. CountsType'
    BY <2>1 DEF CountsType
  <2> QED
    BY <2>2, <2>3
<1>7. CASE TriggerSilver \/ ClearTrigger
  <2>1. /\ pc' \in {"trigger", "success", "silverFailed"} /\ pc # "none"
        /\ UNCHANGED <<db, runs, table, chunk, page, bronze, before, exported, saved>>
    BY <1>7 DEF TriggerSilver, ClearTrigger, source, history
  <2>2. RunsType' /\ PagingType' /\ RowsType'
    BY <2>1 DEF RunsType, PagingType, RowsType, PCs
  <2>3. CountsType'
    BY <2>1 DEF CountsType
  <2> QED
    BY <2>2, <2>3
<1>8. CASE ClearExport
  <2>1. /\ runs' = Append(runs, conf) /\ pc' = "select" /\ Len(runs) < MaxRuns
        /\ pc # "none" /\ BeginExport /\ UNCHANGED <<db, bronze, saved>>
    BY <1>8 DEF ClearExport, source
  <2>2. conf \in Confs /\ Len(conf.tables) \in Nat \ {0} /\ Len(runs) \in Nat
    BY <2>1, ConfType
  <2>3. /\ runs' \in Seq(Confs) /\ Len(runs') = Len(runs) + 1
        /\ runs'[Len(runs')] = conf
    BY <2>1, <2>2 DEF RunsType
  <2>4. RunsType'
    BY <2>1, <2>2, <2>3, BackfillAssumption DEF RunsType, PCs
  <2>5. conf' = conf
    BY <2>3 DEF conf
  <2>6. table' = 1 /\ chunk' = 0 /\ RowsType' /\ exported' \in [Rows -> 0..2]
    BY <2>1, BeginExportType
  <2>7. PagingType'
    BY <2>2, <2>5, <2>6 DEF PagingType
  <2>8. CountsType'
    BY <2>1, <2>2, <2>3, <2>6 DEF CountsType
  <2> QED
    BY <2>4, <2>6, <2>7, <2>8
<1>9. CASE UNCHANGED vars
  BY <1>9 DEF vars, source, task, history, RunsType, PagingType, RowsType, CountsType, conf
<1> QED
  BY <1>1, <1>2, <1>3, <1>4, <1>5, <1>6, <1>7, <1>8, <1>9 DEF Next, Task

\* The variables keep their types; the export never runs past its last table.
THEOREM BackfillTypeCorrect == Spec => []TypeOK
BY BackfillInit, BackfillStep, PTL DEF Spec

-----------------------------------------------------------------------------
(* Chunk files.                                                            *)

\* A later run exports the table of r for a range that starts in the same year.
Redone(r) ==
  \E n \in saved[r] + 1..Len(runs) :
    /\ Covers(runs[n], TableOf[r])
    /\ YearOf[runs[n].start] = YearOf[runs[saved[r]].start]

InExport == pc \in {"select", "put"}

\* k names a file of the run that saved r last; while that run is in progress, a
\* file whose name it has behind it.
FileOf(r, k) ==
  /\ k \in DOMAIN bronze
  /\ r \in bronze[k]
  /\ k[1] = TableOf[r]
  /\ k[2] = YearOf[runs[saved[r]].start]
  /\ k[3] \in Nat
  /\ InExport /\ saved[r] = Len(runs) =>
       \E i \in 1..table : /\ conf.tables[i] = k[1]
                           /\ i = table => k[3] < chunk

\* A run that has yet to begin its export has saved nothing.
FilesInv ==
  /\ pc = "validate" => \A r \in Rows : saved[r] < Len(runs)
  /\ \A r \in Rows : saved[r] > 0 => Redone(r) \/ \E k : FileOf(r, k)

\* A page is made of rows of the table in hand.
PageInv == pc = "put" => page \subseteq Matching

\* Pages stay within what the SELECT matched, whatever is committed meanwhile.
LEMMA PageInvStep ==
  ASSUME TypeOK, PageInv, [Next]_vars
  PROVE  PageInv'
<1>1. ASSUME NEW r \in Rows, CommitRow(r) PROVE PageInv'
  BY <1>1 DEF CommitRow, task, history, PageInv, Matching, InRange, TableName, conf
<1>2. ASSUME SelectPage, pc' = "put" PROVE PageInv'
  <2>1. PICK P \in Pages : page' = P /\ UNCHANGED <<db, table, runs>>
    BY <1>2 DEF SelectPage, NextTable, source
  <2>2. Matching' = Matching
    BY <2>1 DEF Matching, InRange, TableName, conf
  <2> QED
    BY <2>1, <2>2, PageRows DEF PageInv
<1>3. ASSUME UNCHANGED vars PROVE PageInv'
  BY <1>3 DEF vars, source, task, history, PageInv, Matching, InRange, TableName, conf
<1>4. ASSUME pc' # "put" PROVE PageInv'
  BY <1>4 DEF PageInv
<1>5. CASE \/ \E c \in Confs : TriggerRun(c)
           \/ Validate \/ PutChunk \/ ExportFails \/ TriggerSilver
           \/ ClearExport \/ ClearTrigger
  <2>1. pc' # "put"
    BY <1>5 DEF TriggerRun, Validate, PutChunk, NextTable, ExportFails, TriggerSilver,
                ClearExport, ClearTrigger
  <2> QED
    BY <2>1, <1>4
<1> QED
  BY <1>1, <1>2, <1>3, <1>4, <1>5 DEF Next, Task

\* A run that begins leaves every file where it is, and has none of its own yet.
LEMMA NewRunKeepsFiles ==
  ASSUME TypeOK, FilesInv, NEW c \in Confs, runs' = Append(runs, c),
         UNCHANGED <<bronze, saved>>
  PROVE  FilesInv'
<1>1. /\ Len(runs) \in Nat /\ Len(runs') = Len(runs) + 1
      /\ \A n \in 1..Len(runs) : runs'[n] = runs[n]
  BY TypeParts DEF RunsType
<1>2. \A r \in Rows : saved[r] \in 0..Len(runs) /\ saved'[r] = saved[r]
  BY TypeParts DEF CountsType
<1>3. \A r \in Rows : saved'[r] < Len(runs')
  BY <1>1, <1>2
<1>4. ASSUME NEW r \in Rows, saved[r] > 0
      PROVE  Redone(r)' \/ \E k : FileOf(r, k)'
  <2>1. saved[r] \in 1..Len(runs) /\ runs'[saved'[r]] = runs[saved[r]]
    BY <1>1, <1>2, <1>4
  <2>2. CASE Redone(r)
    <3>1. PICK n \in saved[r] + 1..Len(runs) :
            /\ Covers(runs[n], TableOf[r])
            /\ YearOf[runs[n].start] = YearOf[runs[saved[r]].start]
      BY <2>2 DEF Redone
    <3>2. n \in saved'[r] + 1..Len(runs') /\ runs'[n] = runs[n]
      BY <1>1, <1>2, <2>1, <3>1
    <3>3. Covers(runs'[n], TableOf[r]) /\ YearOf[runs'[n].start] = YearOf[runs'[saved'[r]].start]
      BY <2>1, <3>1, <3>2
    <3> QED
      BY <3>2, <3>3 DEF Redone, Covers
  <2>3. ASSUME NEW k, FileOf(r, k) PROVE FileOf(r, k)'
    BY <1>2, <1>3, <2>1, <2>3 DEF FileOf
  <2> QED
    BY <1>4, <2>2, <2>3 DEF FilesInv
<1> QED
  BY <1>2, <1>3, <1>4 DEF FilesInv

\* A step without a write keeps every file; one that goes on within the export
\* has at least the names behind it that it had.
LEMMA QuietKeepsFiles ==
  ASSUME TypeOK, FilesInv, UNCHANGED <<runs, bronze, saved>>,
         pc' = "validate" => pc = "validate",
         \/ ~InExport'
         \/ pc = "validate"
         \/ /\ InExport
            /\ \/ UNCHANGED <<table, chunk>>
               \/ table' = table + 1 /\ table < Len(conf.tables)
  PROVE  FilesInv'
<1>1. /\ Len(runs) \in Nat /\ table \in Nat \ {0}
      /\ \A r \in Rows : saved[r] \in 0..Len(runs)
  BY TypeParts DEF RunsType, CountsType, PagingType
<1>2. conf' = conf /\ \A r \in Rows : Redone(r)' <=> Redone(r)
  BY DEF conf, Redone
<1>3. ASSUME NEW r \in Rows, NEW k, saved[r] > 0, FileOf(r, k) PROVE FileOf(r, k)'
  <2>1. /\ k \in DOMAIN bronze' /\ r \in bronze'[k] /\ k[1] = TableOf[r]
        /\ k[2] = YearOf[runs'[saved'[r]].start] /\ k[3] \in Nat
    BY <1>3 DEF FileOf
  <2>2. ASSUME InExport', saved[r] = Len(runs)
        PROVE  \E i \in 1..table' : conf.tables[i] = k[1] /\ (i = table' => k[3] < chunk')
    <3>1. pc # "validate"
      BY <1>1, <2>2 DEF FilesInv
    <3>2. PICK i \in 1..table : conf.tables[i] = k[1] /\ (i = table => k[3] < chunk)
      BY <1>3, <2>2, <3>1 DEF FileOf
    <3>3. CASE UNCHANGED <<table, chunk>>
      BY <3>2, <3>3
    <3>4. CASE table' = table + 1
      <4>1. i \in 1..table' /\ i # table'
        BY <1>1, <3>4
      <4> QED
        BY <3>2, <4>1
    <3> QED
      BY <2>2, <3>1, <3>3, <3>4
  <2> QED
    BY <1>2, <2>1, <2>2 DEF FileOf
<1> QED
  BY <1>2, <1>3 DEF FilesInv

\* A written chunk replaces a file of the same name: what was in it is in the new
\* one too, or belonged to an earlier run and is now redone.
LEMMA PutKeepsFiles ==
  ASSUME TypeOK, FilesInv, PageInv, PutChunk
  PROVE  FilesInv'
<1>1. /\ pc = "put" /\ pc' # "validate" /\ conf' = conf
      /\ runs' = runs
      /\ bronze' = [k \in DOMAIN bronze \cup {Key} |-> IF k = Key THEN page ELSE bronze[k]]
      /\ saved' = [r \in Rows |-> IF r \in page THEN Len(runs) ELSE saved[r]]
      /\ \/ pc' = "select" /\ table' = table /\ chunk' = chunk + 1
         \/ pc' = "select" /\ table' = table + 1 /\ table < Len(conf.tables)
         \/ pc' = "trigger"
  BY DEF PutChunk, NextTable, NextChunk, conf
<1>2. /\ Len(runs) \in Nat \ {0} /\ table \in Nat \ {0} /\ chunk \in Nat
      /\ table <= Len(conf.tables) /\ Len(conf.tables) \in Nat
      /\ \A i, j \in 1..Len(conf.tables) : conf.tables[i] = conf.tables[j] => i = j
      /\ \A r \in Rows : saved[r] \in 0..Len(runs)
  BY <1>1, ConfType, TypeParts DEF RunsType, CountsType, PagingType
<1>3. \A r \in page : r \in Rows /\ TableOf[r] = TableName
  BY <1>1, TypeParts DEF PageInv, Matching, RowsType
<1>4. Key[1] = TableName /\ Key[2] = YearOf[conf.start] /\ Key[3] = chunk
  BY DEF Key
<1>5. ASSUME NEW r \in page PROVE \E k : FileOf(r, k)'
  <2>1. saved'[r] = Len(runs) /\ runs'[saved'[r]] = conf
    BY <1>1, <1>3 DEF conf
  <2>2. Key \in DOMAIN bronze' /\ bronze'[Key] = page
    BY <1>1
  <2>3. InExport' => \E i \in 1..table' : conf.tables[i] = TableName /\ (i = table' => chunk < chunk')
    <3>1. CASE table' = table /\ chunk' = chunk + 1
      <4>1. table \in 1..table' /\ chunk < chunk'
        BY <1>2, <3>1
      <4> QED
        BY <4>1 DEF TableName
    <3>2. CASE table' = table + 1
      <4>1. table \in 1..table' /\ table # table'
        BY <1>2, <3>2
      <4> QED
        BY <4>1 DEF TableName
    <3> QED
      BY <1>1, <3>1, <3>2 DEF InExport
  <2>4. /\ Key[1] = TableOf[r] /\ Key[2] = YearOf[runs'[saved'[r]].start]
        /\ Key[3] \in Nat /\ conf' = conf
    BY <1>1, <1>2, <1>3, <1>4, <2>1
  <2>5. PICK k : k = Key
    OBVIOUS
  <2>6. /\ k \in DOMAIN bronze' /\ r \in bronze'[k] /\ k[1] = TableOf[r]
        /\ k[2] = YearOf[runs'[saved'[r]].start] /\ k[3] \in Nat
    BY <2>2, <2>4, <2>5
  <2>7. InExport' => \E i \in 1..table' : conf'.tables[i] = k[1] /\ (i = table' => k[3] < chunk')
    BY <1>3, <1>4, <2>3, <2>4, <2>5
  <2>8. FileOf(r, k)'
    BY <2>6, <2>7 DEF FileOf
  <2> QED
    BY <2>5, <2>8
<1>6. ASSUME NEW r \in Rows, r \notin page, saved[r] > 0
      PROVE  Redone(r)' \/ \E k : FileOf(r, k)'
  <2>1. saved'[r] = saved[r]
    BY <1>1, <1>6
  <2>2. Redone(r) => Redone(r)'
    BY <1>1, <2>1 DEF Redone
  <2>3. ASSUME NEW k, FileOf(r, k), k # Key PROVE FileOf(r, k)'
    <3>1. /\ k \in DOMAIN bronze' /\ r \in bronze'[k] /\ k[1] = TableOf[r]
          /\ k[2] = YearOf[runs'[saved'[r]].start] /\ k[3] \in Nat
      BY <1>1, <2>1, <2>3 DEF FileOf
    <3>2. ASSUME InExport', saved[r] = Len(runs)
          PROVE  \E i \in 1..table' : conf.tables[i] = k[1] /\ (i = table' => k[3] < chunk')
      <4>1. PICK i \in 1..table : conf.tables[i] = k[1] /\ (i = table => k[3] < chunk)
        BY <1>1, <2>3, <3>2 DEF FileOf, InExport
      <4>2. CASE table' = table /\ chunk' = chunk + 1
        <5>1. i = table => k[3] < chunk'
          BY <1>2, <3>1, <4>1, <4>2
        <5> QED
          BY <4>1, <4>2, <5>1
      <4>3. CASE table' = table + 1
        <5>1. i \in 1..table' /\ i # table'
          BY <1>2, <4>3
        <5> QED
          BY <4>1, <5>1
      <4> QED
        BY <1>1, <3>2, <4>2, <4>3 DEF InExport
    <3> QED
      BY <1>1, <2>1, <3>1, <3>2 DEF FileOf
  <2>4. ASSUME FileOf(r, Key) PROVE Redone(r)'
    <3>1. TableOf[r] = TableName /\ YearOf[runs[saved[r]].start] = YearOf[conf.start]
      BY <1>4, <2>4 DEF FileOf
    <3>2. saved[r] # Len(runs)
      <4> SUFFICES ASSUME saved[r] = Len(runs) PROVE FALSE
        OBVIOUS
      <4>1. PICK i \in 1..table : conf.tables[i] = TableName /\ (i = table => chunk < chunk)
        BY <1>1, <1>4, <2>4 DEF FileOf, InExport
      <4>2. i \in 1..Len(conf.tables) /\ table \in 1..Len(conf.tables)
        BY <1>2
      <4>3. i = table
        BY <1>2, <4>1, <4>2 DEF TableName
      <4> QED
        BY <1>2, <4>1, <4>3
    <3>3. Len(runs) \in saved[r] + 1..Len(runs) /\ runs[Len(runs)] = conf
      BY <1>2, <3>2 DEF conf
    <3>4. Covers(conf, TableOf[r])
      <4>1. table \in 1..Len(conf.tables) /\ conf.tables[table] = TableOf[r]
        BY <1>2, <3>1 DEF TableName
      <4> QED
        BY <4>1 DEF Covers
    <3> QED
      BY <1>1, <2>1, <3>1, <3>3, <3>4 DEF Redone
  <2> QED
    BY <1>6, <2>2, <2>3, <2>4 DEF FilesInv
<1>7. \A r \in Rows : saved'[r] > 0 => r \in page \/ saved[r] > 0
  BY <1>1
<1> QED
  BY <1>1, <1>5, <1>6, <1>7 DEF FilesInv

\* Every action keeps the files' invariant.
LEMMA FilesStep ==
  ASSUME TypeOK, FilesInv, PageInv, [Next]_vars
  PROVE  FilesInv'
<1>1. CASE UNCHANGED vars \/ \E r \in Rows : CommitRow(r)
  <2>1. UNCHANGED <<runs, bronze, saved, pc, table, chunk>>
    BY <1>1 DEF CommitRow, vars, task, history
  <2> QED
    BY <2>1, QuietKeepsFiles DEF InExport
<1>2. ASSUME NEW c \in Confs, TriggerRun(c) PROVE FilesInv'
  <2>1. runs' = Append(runs, c) /\ UNCHANGED <<bronze, saved>>
    BY <1>2 DEF TriggerRun, history
  <2> QED
    BY <2>1, NewRunKeepsFiles
<1>3. CASE Validate
  <2>1. pc = "validate" /\ pc' # "validate" /\ UNCHANGED <<runs, bronze, saved>>
    BY <1>3 DEF Validate
  <2> QED
    BY <2>1, QuietKeepsFiles
<1>4. CASE SelectPage
  <2>1. /\ pc = "select" /\ UNCHANGED <<runs, bronze, saved>>
        /\ \/ pc' = "put" /\ UNCHANGED <<table, chunk>>
           \/ pc' = "select" /\ table' = table + 1 /\ table < Len(conf.tables)
           \/ pc' = "trigger"
    BY <1>4 DEF SelectPage, NextTable, history
  <2> QED
    BY <2>1, QuietKeepsFiles DEF InExport
<1>5. CASE PutChunk
  BY <1>5, PutKeepsFiles
<1>6. CASE ExportFails \/ TriggerSilver \/ ClearTrigger
  <2>1. /\ pc' \in {"failed", "success", "silverFailed", "trigger"}
        /\ UNCHANGED <<runs, bronze, saved>>
    BY <1>6 DEF ExportFails, TriggerSilver, ClearTrigger, history
  <2> QED
    BY <2>1, QuietKeepsFiles DEF InExport
<1>7. CASE ClearExport
  <2>1. /\ pc # "none" /\ runs' = Append(runs, conf) /\ UNCHANGED <<bronze, saved>>
    BY <1>7 DEF ClearExport
  <2>2. conf \in Confs
    BY <2>1, ConfType, TypeParts
  <2> QED
    BY <2>1, <2>2, NewRunKeepsFiles
<1> QED
  BY <1>1, <1>2, <1>3, <1>4, <1>5, <1>6, <1>7 DEF Next, Task

\* What a run has put into Bronze stays until a later run exports the same table
\* for a range that starts in the same year.
THEOREM ChunksKept == Spec => []KeptUnlessRedone
<1>1. Init => FilesInv /\ PageInv
  BY DEF Init, FilesInv, PageInv, Zero
<1>2. FilesInv => KeptUnlessRedone
  BY DEF FilesInv, FileOf, Redone, KeptUnlessRedone
<1> QED
  BY <1>1, <1>2, FilesStep, PageInvStep, BackfillTypeCorrect, PTL DEF Spec

-----------------------------------------------------------------------------
(* Pages.                                                                  *)

\* The matching rows that sort before r; how many there are is the rank of r.
Front(r) == {s \in db : TableOf[s] = TableOf[r] /\ InRange(s) /\ CreatedAt[s] < CreatedAt[r]}
Rank(r) == Cardinality(Front(r))

\* Sets of rows are finite.
LEMMA RowsFinite ==
  ASSUME RowsType
  PROVE  /\ IsFiniteSet(db) /\ \A S \in SUBSET db : IsFiniteSet(S) /\ Cardinality(S) \in Nat
         /\ \A r : Rank(r) \in Nat
<1>1. IsFiniteSet(db)
  BY BackfillAssumption, FS_Subset DEF RowsType
<1>2. \A S \in SUBSET db : IsFiniteSet(S) /\ Cardinality(S) \in Nat
  BY <1>1, FS_Subset, FS_CardinalityType
<1>3. \A r : Front(r) \in SUBSET db
  BY DEF Front
<1> QED
  BY <1>1, <1>2, <1>3 DEF Rank

\* A page holds a row without a tie if and only if the row's rank is one of the page's.
LEMMA PageOfRank ==
  ASSUME RowsType, PagingType, NEW P \in Pages, NEW r \in Matching, ~Tied(r)
  PROVE  /\ r \in P => Offset <= Rank(r) /\ Rank(r) < Offset + ChunkSize
         /\ r \notin P /\ Offset <= Rank(r) =>
              Cardinality(P) = ChunkSize /\ Offset + ChunkSize <= Rank(r)
<1> DEFINE M == Matching
           n == Cardinality(M)
           F == Front(r)
           k == Rank(r)
           off == Offset
           skipped == Smaller(off, n)
           taken == Smaller(ChunkSize, n - skipped)
<1>1. /\ P \in SUBSET M /\ Cardinality(P) = taken
      /\ \E X \in SUBSET (M \ P) : /\ Cardinality(X) = skipped
                                   /\ IsPrefix(X, M) /\ IsPrefix(X \cup P, M)
  BY DEF Pages
<1>2. PICK X \in SUBSET (M \ P) : /\ Cardinality(X) = skipped
                                  /\ IsPrefix(X, M) /\ IsPrefix(X \cup P, M)
  BY <1>1
<1>3. M \in SUBSET db /\ r \in M /\ r \in db
  BY DEF Matching
<1>4. /\ IsFiniteSet(M) /\ n \in Nat /\ k \in Nat /\ IsFiniteSet(F)
  BY <1>3, RowsFinite DEF Front
<1>5. off \in Nat /\ ChunkSize \in Nat \ {0}
  BY BackfillAssumption DEF Offset, PagingType
<1>6. \A s \in M : CreatedAt[s] \in Nat
  BY <1>3, BackfillAssumption DEF RowsType
<1>7. \A s \in M : s # r => CreatedAt[s] # CreatedAt[r]
  BY DEF Tied, Matching
<1>8. F = {s \in M : CreatedAt[s] < CreatedAt[r]} /\ r \notin F
  BY <1>3, <1>6 DEF Front, Matching
<1>9. IsFiniteSet(F \cup {r}) /\ Cardinality(F \cup {r}) = k + 1
  BY <1>4, <1>8, FS_AddElement DEF Rank
<1>10. k + 1 <= n
  BY <1>3, <1>4, <1>8, <1>9, FS_Subset
<1>11. ASSUME NEW Z \in SUBSET M, IsPrefix(Z, M)
       PROVE  /\ Cardinality(Z) \in Nat
              /\ r \in Z => k + 1 <= Cardinality(Z)
              /\ r \notin Z => Cardinality(Z) <= k
  <2>1. IsFiniteSet(Z) /\ Cardinality(Z) \in Nat
    BY <1>4, FS_Subset, FS_CardinalityType
  <2>2. ASSUME r \in Z PROVE k + 1 <= Cardinality(Z)
    <3>1. F \cup {r} \in SUBSET Z
      BY <1>8, <1>11, <2>2 DEF IsPrefix
    <3> QED
      BY <1>9, <2>1, <3>1, FS_Subset
  <2>3. ASSUME r \notin Z PROVE Cardinality(Z) <= k
    <3>1. ASSUME NEW a \in Z PROVE a \in F
      <4>1. a \in M /\ a # r /\ ~(CreatedAt[r] < CreatedAt[a])
        BY <1>3, <1>11, <2>3 DEF IsPrefix
      <4> QED
        BY <1>3, <1>6, <1>7, <1>8, <4>1
    <3> QED
      BY <1>4, <3>1, FS_Subset DEF Rank
  <2> QED
    BY <2>1, <2>2, <2>3
<1>12. /\ X \in SUBSET M /\ X \cup P \in SUBSET M /\ P \in SUBSET M
       /\ Cardinality(X) = skipped /\ Cardinality(P) = taken
  BY <1>1, <1>2
<1>13. Cardinality(X \cup P) = skipped + taken /\ skipped \in Nat /\ taken \in Nat
  <2>1. IsFiniteSet(X) /\ IsFiniteSet(P) /\ X \cap P = {}
    BY <1>1, <1>2, <1>4, <1>12, FS_Subset
  <2>2. Cardinality(X) \in Nat /\ Cardinality(P) \in Nat
    BY <2>1, FS_CardinalityType
  <2>3. Cardinality(X \cup P) = Cardinality(X) + Cardinality(P) - Cardinality(X \cap P)
    BY <2>1, FS_Union
  <2>4. Cardinality(X \cap P) = 0
    BY <2>1, FS_EmptySet
  <2> HIDE DEF skipped, taken
  <2> QED
    BY <1>12, <2>2, <2>3, <2>4
<1>14. /\ r \in X => k + 1 <= skipped
       /\ r \notin X => skipped <= k
       /\ r \in X \cup P => k + 1 <= skipped + taken
       /\ r \notin X \cup P => skipped + taken <= k
  BY <1>2, <1>11, <1>12, <1>13
<1>15. /\ skipped = IF off < n THEN off ELSE n
       /\ taken = IF ChunkSize < n - skipped THEN ChunkSize ELSE n - skipped
  BY DEF Smaller
<1>16. ASSUME r \in P PROVE off <= k /\ k < off + ChunkSize
  <2>1. r \notin X
    BY <1>2, <1>16
  <2> HIDE DEF skipped, taken, n, k, off
  <2>2. skipped <= k /\ k + 1 <= skipped + taken
    BY <1>14, <1>16, <2>1
  <2> QED
    BY <1>4, <1>5, <1>10, <1>13, <1>15, <2>2
<1>17. ASSUME r \notin P, off <= k PROVE taken = ChunkSize /\ off + ChunkSize <= k
  <2> HIDE DEF skipped, taken, n, k, off
  <2>1. skipped = off
    BY <1>4, <1>5, <1>10, <1>15, <1>17
  <2>2. r \notin X
    BY <1>4, <1>5, <1>14, <1>17, <2>1
  <2>3. skipped + taken <= k
    BY <1>14, <1>17, <2>2
  <2> QED
    BY <1>4, <1>5, <1>10, <1>13, <1>15, <2>1, <2>3
<1> QED
  BY <1>12, <1>16, <1>17

\* The next chunk's offset.
LEMMA NextOffset ==
  ASSUME PagingType
  PROVE  /\ Offset \in Nat /\ ChunkSize \in Nat \ {0}
         /\ chunk' = chunk + 1 => Offset' = Offset + ChunkSize
         /\ chunk' = 0 => Offset' = 0
<1>1. chunk \in Nat /\ ChunkSize \in Nat \ {0}
  BY BackfillAssumption DEF PagingType
<1>2. (chunk + 1) * ChunkSize = chunk * ChunkSize + ChunkSize
  BY <1>1
<1> QED
  BY <1>1, <1>2 DEF Offset

\* While rows are committed, a rank may rise and a tie may appear; a row that is not
\* overtaken keeps its rank.
LEMMA CommitRanks ==
  ASSUME TypeOK, NEW s \in Rows, CommitRow(s), NEW r
  PROVE  /\ Rank(r) <= Rank(r)'
         /\ Tied(r) => Tied(r)'
         /\ Overtaken(r) => Overtaken(r)'
         /\ ~Overtaken(r)' /\ r \in db => Rank(r)' = Rank(r)
<1>1. /\ db' = db \cup {s} /\ s \notin db /\ UNCHANGED <<runs, before>> /\ conf' = conf
  BY DEF CommitRow, task, history, conf
<1>2. /\ RowsType /\ RowsType' /\ before \subseteq db
  BY BackfillStep, TypeParts DEF Next, RowsType
<1>3. Front(r) \subseteq Front(r)' /\ IsFiniteSet(Front(r)')
  <2>1. IsFiniteSet(db')
    BY <1>1, <1>2, BackfillAssumption, FS_Subset DEF RowsType
  <2>2. Front(r)' \in SUBSET db'
    BY DEF Front
  <2>3. Front(r) \subseteq Front(r)'
    BY <1>1 DEF Front, InRange
  <2> QED
    BY <2>1, <2>2, <2>3, FS_Subset
<1>4. Rank(r) <= Rank(r)'
  BY <1>3, FS_Subset DEF Rank
<1>5. Tied(r) => Tied(r)'
  BY <1>1 DEF Tied
<1>6. Overtaken(r) => Overtaken(r)'
  BY <1>1 DEF Overtaken
<1>7. ASSUME ~Overtaken(r)', r \in db PROVE Rank(r)' = Rank(r)
  <2>1. CreatedAt[s] \in Nat /\ CreatedAt[r] \in Nat
    BY <1>2, <1>7, BackfillAssumption DEF RowsType
  <2>2. ~(TableOf[s] = TableOf[r] /\ CreatedAt[s] <= CreatedAt[r])
    BY <1>1, <1>2, <1>7 DEF Overtaken
  <2>3. s \notin Front(r)'
    BY <2>1, <2>2 DEF Front
  <2>4. Front(r)' = Front(r)
    BY <1>1, <2>3 DEF Front, InRange
  <2> QED
    BY <2>4 DEF Rank
<1> QED
  BY <1>4, <1>5, <1>6, <1>7

\* Steps that leave the rows and the request alone leave ranks and ties alone.
LEMMA SameRanks ==
  ASSUME db' = db, conf' = conf, NEW r
  PROVE  (InRange(r)' <=> InRange(r)) /\ Rank(r)' = Rank(r) /\ (Tied(r)' <=> Tied(r))
<1>1. InRange(r)' <=> InRange(r)
  BY DEF InRange
<1>2. Front(r)' = Front(r)
  BY DEF Front, InRange
<1>3. Tied(r)' <=> Tied(r)
  BY DEF Tied
<1> QED
  BY <1>1, <1>2, <1>3 DEF Rank

\* What the export still owes: rows that were there when it began, in the range, of a
\* table of the request and without a tie.
Owed(r) ==
  r \in before /\ InRange(r) /\ Covers(conf, TableOf[r]) /\ ~Tied(r) /\ exported[r] = 0

\* The pages to come hold every row that is owed.
ToCome(r) ==
  \E i \in table..Len(conf.tables) :
    /\ conf.tables[i] = TableOf[r]
    /\ i = table /\ pc = "select" => Offset <= Rank(r)
    /\ i = table /\ pc = "put" =>
         r \in page \/ (Cardinality(page) = ChunkSize /\ Offset + ChunkSize <= Rank(r))

MissInv ==
  /\ InExport => \A r : Owed(r) => ToCome(r)
  /\ Exported => \A r : ~Owed(r)

\* An export that begins owes every row from its first page on.
LEMMA MissBegin ==
  ASSUME TypeOK, BeginExport, pc' = "select", db' = db, conf' = conf,
         Len(conf.tables) \in Nat
  PROVE  MissInv'
<1>1. table' = 1 /\ chunk' = 0
  BY DEF BeginExport
<1>2. Offset' = 0 /\ \A r : Rank(r) \in Nat
  BY <1>1, NextOffset, RowsFinite, TypeParts
<1>3. ASSUME NEW r, Owed(r)' PROVE ToCome(r)'
  <2>1. PICK i \in 1..Len(conf.tables) : conf.tables[i] = TableOf[r]
    BY <1>3 DEF Owed, Covers
  <2>2. Offset' <= Rank(r)'
    BY <1>2, SameRanks
  <2> QED
    BY <1>1, <2>1, <2>2 DEF ToCome
<1> QED
  BY <1>3 DEF MissInv, Exported, InExport

\* Within an export, what is owed was owed before.
LEMMA StillOwed ==
  ASSUME db' = db, conf' = conf, before' = before, NEW r, Owed(r)',
         exported'[r] = 0 => exported[r] = 0
  PROVE  Owed(r)
BY SameRanks DEF Owed, Covers

\* The table in hand is done: what is owed belongs to a later one.
LEMMA MissLaterTables ==
  ASSUME TypeOK, NextTable, db' = db, conf' = conf, Len(conf.tables) \in Nat,
         \A r : Owed(r)' => \E i \in table + 1..Len(conf.tables) : conf.tables[i] = TableOf[r]
  PROVE  MissInv'
<1>1. table \in Nat \ {0}
  BY TypeParts DEF PagingType
<1>2. CASE table < Len(conf.tables)
  <2>1. pc' = "select" /\ table' = table + 1 /\ chunk' = 0
    BY <1>2 DEF NextTable
  <2>2. Offset' = 0 /\ \A r : Rank(r) \in Nat
    BY <2>1, NextOffset, RowsFinite, TypeParts
  <2>3. ASSUME NEW r, Owed(r)' PROVE ToCome(r)'
    <3>1. PICK i \in table + 1..Len(conf.tables) : conf.tables[i] = TableOf[r]
      BY <2>3
    <3>2. Offset' <= Rank(r)'
      BY <2>2, SameRanks
    <3> QED
      BY <2>1, <3>1, <3>2 DEF ToCome
  <2> QED
    BY <2>1, <2>3 DEF MissInv, Exported, InExport
<1>3. CASE ~(table < Len(conf.tables))
  <2>1. pc' = "trigger"
    BY <1>3 DEF NextTable
  <2>2. ASSUME NEW r, Owed(r)' PROVE FALSE
    BY <1>1, <1>3, <2>2
  <2> QED
    BY <2>1, <2>2 DEF MissInv, Exported, InExport
<1> QED
  BY <1>2, <1>3

\* A page is fetched, or the table is done.
LEMMA MissSelect ==
  ASSUME TypeOK, MissInv, SelectPage
  PROVE  MissInv'
<1>1. pc = "select" /\ UNCHANGED <<db, runs, bronze, before, exported, saved>> /\ conf' = conf
  BY DEF SelectPage, source, history, conf
<1>2. PICK P \in Pages : IF P = {} THEN NextTable /\ UNCHANGED page
                                   ELSE pc' = "put" /\ page' = P /\ UNCHANGED <<table, chunk>>
  BY DEF SelectPage
<1>3. /\ Len(conf.tables) \in Nat /\ table \in Nat \ {0} /\ RowsType /\ PagingType
      /\ ChunkSize \in Nat \ {0}
      /\ \A i, j \in 1..Len(conf.tables) : conf.tables[i] = conf.tables[j] => i = j
  BY <1>1, ConfType, TypeParts, BackfillAssumption DEF PagingType
<1>4. ASSUME NEW r, Owed(r), TableOf[r] = TableName
      PROVE  /\ r \in Matching /\ Offset <= Rank(r)
             /\ r \in P \/ (Cardinality(P) = ChunkSize /\ Offset + ChunkSize <= Rank(r))
  <2>1. r \in Matching
    BY <1>3, <1>4 DEF Owed, Matching, RowsType
  <2>2. PICK i \in table..Len(conf.tables) :
          /\ conf.tables[i] = TableOf[r]
          /\ i = table => Offset <= Rank(r)
    BY <1>1, <1>4 DEF MissInv, InExport, ToCome
  <2>3. i = table
    <3>1. i \in 1..Len(conf.tables) /\ table \in 1..Len(conf.tables)
      BY <1>3, <2>2
    <3> QED
      BY <1>3, <1>4, <2>2, <3>1 DEF TableName
  <2>4. ~Tied(r)
    BY <1>4 DEF Owed
  <2> QED
    BY <1>3, <2>1, <2>2, <2>3, <2>4, PageOfRank
<1>5. CASE P = {}
  <2>1. ASSUME NEW r, Owed(r)'
        PROVE  \E i \in table + 1..Len(conf.tables) : conf.tables[i] = TableOf[r]
    <3>1. Owed(r)
      BY <1>1, <2>1, StillOwed
    <3>2. TableOf[r] # TableName
      BY <1>3, <1>4, <1>5, <3>1, FS_EmptySet
    <3>3. PICK i \in table..Len(conf.tables) : conf.tables[i] = TableOf[r]
      BY <1>1, <3>1 DEF MissInv, InExport, ToCome
    <3>4. i # table
      BY <3>2, <3>3 DEF TableName
    <3> QED
      BY <1>3, <3>3, <3>4
  <2> QED
    BY <1>1, <1>2, <1>3, <1>5, <2>1, MissLaterTables
<1>6. CASE P # {}
  <2>1. pc' = "put" /\ page' = P /\ UNCHANGED <<table, chunk>> /\ Offset' = Offset
    BY <1>2, <1>6 DEF Offset
  <2>2. ASSUME NEW r, Owed(r)' PROVE ToCome(r)'
    <3>1. Owed(r)
      BY <1>1, <2>2, StillOwed
    <3>2. PICK i \in table..Len(conf.tables) : conf.tables[i] = TableOf[r]
      BY <1>1, <3>1 DEF MissInv, InExport, ToCome
    <3>3. i = table => P = page' /\ (r \in P \/ (Cardinality(P) = ChunkSize /\ Offset + ChunkSize <= Rank(r)))
      BY <1>4, <2>1, <3>1, <3>2 DEF TableName
    <3>4. Rank(r)' = Rank(r)
      BY <1>1, SameRanks
    <3> QED
      BY <1>1, <2>1, <3>2, <3>3, <3>4 DEF ToCome
  <2> QED
    BY <2>1, <2>2 DEF MissInv, Exported, InExport
<1> QED
  BY <1>5, <1>6

\* A page is written.
LEMMA MissPut ==
  ASSUME TypeOK, MissInv, PutChunk
  PROVE  MissInv'
<1>1. /\ pc = "put" /\ UNCHANGED <<db, runs, before>> /\ conf' = conf
      /\ exported' = [r \in Rows |-> IF r \in page THEN AddOnce(exported[r]) ELSE exported[r]]
      /\ IF LastPage THEN NextTable ELSE pc' = "select" /\ chunk' = chunk + 1 /\ table' = table
  BY DEF PutChunk, source, conf, NextChunk
<1>2. /\ Len(conf.tables) \in Nat /\ table \in Nat \ {0} /\ RowsType /\ PagingType
      /\ table <= Len(conf.tables)
      /\ \A i, j \in 1..Len(conf.tables) : conf.tables[i] = conf.tables[j] => i = j
  BY <1>1, ConfType, TypeParts DEF PagingType
<1>3. \A r \in Rows : exported[r] \in 0..2
  BY TypeParts DEF CountsType
<1>4. ASSUME NEW r, Owed(r)' PROVE r \notin page /\ Owed(r)
  <2>1. r \in Rows
    BY <1>1, <1>2, <1>4 DEF Owed, RowsType
  <2>2. exported'[r] = 0
    BY <1>4 DEF Owed
  <2>3. exported[r] = 0 /\ r \notin page
    BY <1>1, <1>3, <2>1, <2>2 DEF AddOnce
  <2> QED
    BY <1>1, <1>4, <2>3, StillOwed
<1>5. ASSUME NEW r, Owed(r)'
      PROVE  \E i \in table..Len(conf.tables) :
               /\ conf.tables[i] = TableOf[r]
               /\ i = table => Cardinality(page) = ChunkSize /\ Offset + ChunkSize <= Rank(r)
  BY <1>1, <1>4, <1>5 DEF MissInv, InExport, ToCome
<1>6. CASE LastPage
  <2>1. NextTable
    BY <1>1, <1>6
  <2>2. ASSUME NEW r, Owed(r)', TableOf[r] = TableName PROVE FALSE
    <3>1. PICK i \in table..Len(conf.tables) :
               /\ conf.tables[i] = TableOf[r]
               /\ i = table => Cardinality(page) = ChunkSize
      BY <1>5, <2>2
    <3>2. i \in 1..Len(conf.tables) /\ table \in 1..Len(conf.tables)
      BY <1>2, <3>1
    <3>3. i = table
      BY <1>2, <2>2, <3>1, <3>2 DEF TableName
    <3> QED
      BY <1>6, <3>1, <3>3, BackfillAssumption DEF LastPage
  <2>3. ASSUME NEW r, Owed(r)'
        PROVE  \E i \in table + 1..Len(conf.tables) : conf.tables[i] = TableOf[r]
    <3>1. PICK i \in table..Len(conf.tables) : conf.tables[i] = TableOf[r]
      BY <1>5, <2>3
    <3>2. i # table
      BY <2>2, <2>3, <3>1 DEF TableName
    <3> QED
      BY <1>2, <3>1, <3>2
  <2> QED
    BY <1>1, <1>2, <2>1, <2>3, MissLaterTables
<1>7. CASE ~LastPage
  <2>1. pc' = "select" /\ chunk' = chunk + 1 /\ table' = table
    BY <1>1, <1>7
  <2>2. Offset' = Offset + ChunkSize
    BY <1>2, <2>1, NextOffset
  <2>3. ASSUME NEW r, Owed(r)' PROVE ToCome(r)'
    <3>1. PICK i \in table..Len(conf.tables) :
               /\ conf.tables[i] = TableOf[r]
               /\ i = table => Offset + ChunkSize <= Rank(r)
      BY <1>5, <2>3
    <3>2. Rank(r)' = Rank(r)
      BY <1>1, SameRanks
    <3> QED
      BY <1>1, <2>1, <2>2, <3>1, <3>2 DEF ToCome
  <2> QED
    BY <2>1, <2>3 DEF MissInv, Exported, InExport
<1> QED
  BY <1>6, <1>7

\* Every action keeps what is owed in the pages to come.
LEMMA MissStep ==
  ASSUME TypeOK, MissInv, [Next]_vars
  PROVE  MissInv'
<1>1. ASSUME NEW s \in Rows, CommitRow(s) PROVE MissInv'
  <2>1. /\ UNCHANGED <<runs, pc, table, chunk, page, before, exported>> /\ conf' = conf
        /\ Offset' = Offset
    BY <1>1 DEF CommitRow, task, history, conf, Offset
  <2>2. \A r : InRange(r)' <=> InRange(r)
    BY <2>1 DEF InRange
  <2>3. ASSUME NEW r, Owed(r)' PROVE Owed(r) /\ (ToCome(r) => ToCome(r)')
    <3>1. Owed(r)
      BY <1>1, <2>1, <2>2, <2>3, CommitRanks DEF Owed, Covers
    <3>2. Rank(r) <= Rank(r)' /\ Rank(r) \in Nat /\ Rank(r)' \in Nat
      <4>1. RowsType /\ RowsType'
        BY <1>1, BackfillStep, TypeParts DEF Next
      <4>2. Rank(r) \in Nat
        BY <4>1, RowsFinite
      <4>3. IsFiniteSet(Front(r)')
        <5>1. IsFiniteSet(db')
          BY <4>1, BackfillAssumption, FS_Subset DEF RowsType
        <5>2. Front(r)' \in SUBSET db'
          BY DEF Front
        <5> QED
          BY <5>1, <5>2, FS_Subset
      <4>4. Rank(r)' \in Nat
        BY <4>3, FS_CardinalityType DEF Rank
      <4> QED
        BY <1>1, <4>2, <4>4, CommitRanks
    <3>3. Offset \in Nat /\ ChunkSize \in Nat
      BY NextOffset, TypeParts
    <3>4. ASSUME ToCome(r) PROVE ToCome(r)'
      <4>1. PICK i \in table..Len(conf.tables) :
              /\ conf.tables[i] = TableOf[r]
              /\ i = table /\ pc = "select" => Offset <= Rank(r)
              /\ i = table /\ pc = "put" =>
                   r \in page \/ (Cardinality(page) = ChunkSize /\ Offset + ChunkSize <= Rank(r))
        BY <3>4 DEF ToCome
      <4>2. /\ i = table /\ pc = "select" => Offset <= Rank(r)'
            /\ i = table /\ pc = "put" =>
                 r \in page \/ (Cardinality(page) = ChunkSize /\ Offset + ChunkSize <= Rank(r)')
        BY <3>2, <3>3, <4>1
      <4> QED
        BY <2>1, <4>1, <4>2 DEF ToCome
    <3> QED
      BY <3>1, <3>4
  <2> QED
    BY <2>1, <2>3 DEF MissInv, InExport, Exported
<1>2. ASSUME NEW c \in Confs, TriggerRun(c) PROVE MissInv'
  BY <1>2 DEF TriggerRun, MissInv, InExport, Exported
<1>3. CASE Validate
  <2>1. pc = "validate" /\ db' = db /\ conf' = conf
    BY <1>3 DEF Validate, source, conf
  <2>2. Len(conf.tables) \in Nat
    BY <2>1, ConfType, TypeParts
  <2>3. CASE pc' = "select" /\ BeginExport
    BY <2>1, <2>2, <2>3, MissBegin
  <2>4. CASE pc' = "failed"
    BY <2>4 DEF MissInv, InExport, Exported
  <2> QED
    BY <1>3, <2>3, <2>4 DEF Validate
<1>4. CASE SelectPage
  BY <1>4, MissSelect
<1>5. CASE PutChunk
  BY <1>5, MissPut
<1>6. CASE ExportFails
  BY <1>6 DEF ExportFails, MissInv, InExport, Exported
<1>7. CASE TriggerSilver \/ ClearTrigger
  <2>1. /\ Exported /\ Exported' /\ ~InExport'
        /\ UNCHANGED <<db, runs, before, exported>> /\ conf' = conf
    BY <1>7 DEF TriggerSilver, ClearTrigger, Exported, InExport, source, history, conf
  <2>2. \A r : Owed(r)' => Owed(r)
    BY <2>1, StillOwed
  <2> QED
    BY <2>1, <2>2 DEF MissInv
<1>8. CASE ClearExport
  <2>1. /\ pc # "none" /\ pc' = "select" /\ BeginExport /\ db' = db /\ runs' = Append(runs, conf)
    BY <1>8 DEF ClearExport, source
  <2>2. conf \in Confs /\ Len(conf.tables) \in Nat
    BY <2>1, ConfType, TypeParts
  <2>3. conf' = conf
    BY <2>1, <2>2, TypeParts DEF RunsType, conf
  <2> QED
    BY <2>1, <2>2, <2>3, MissBegin
<1>9. CASE UNCHANGED vars
  <2>1. /\ UNCHANGED <<db, runs, pc, table, chunk, page, before, exported>> /\ conf' = conf
        /\ Offset' = Offset
    BY <1>9 DEF vars, source, task, history, conf, Offset
  <2>2. \A r : (Owed(r)' => Owed(r)) /\ Rank(r)' = Rank(r)
    BY <2>1, StillOwed, SameRanks
  <2>3. \A r : ToCome(r) => ToCome(r)'
    BY <2>1, <2>2 DEF ToCome
  <2> QED
    BY <2>1, <2>2, <2>3 DEF MissInv, InExport, Exported
<1> QED
  BY <1>1, <1>2, <1>3, <1>4, <1>5, <1>6, <1>7, <1>8, <1>9 DEF Next, Task

\* An export writes what its WHERE clause matches.
WrittenInv ==
  InExport \/ Exported =>
    \A r \in Rows : exported[r] > 0 => InRange(r) /\ Covers(conf, TableOf[r])

\* The rows of a page match, and exported starts anew with the request.
LEMMA WrittenStep ==
  ASSUME TypeOK, PageInv, WrittenInv, [Next]_vars
  PROVE  WrittenInv'
<1>1. ASSUME conf' = conf, exported' = exported, (InExport \/ Exported)' => InExport \/ Exported
      PROVE  WrittenInv'
  BY <1>1 DEF WrittenInv, InRange
<1>2. ASSUME exported' = Zero PROVE WrittenInv'
  BY <1>2 DEF WrittenInv, Zero
<1>3. CASE PutChunk
  <2>1. /\ pc = "put" /\ InExport /\ conf' = conf
        /\ \A r \in Rows : r \notin page => exported'[r] = exported[r]
    BY <1>3 DEF PutChunk, InExport, conf
  <2>2. ASSUME NEW r \in page PROVE InRange(r) /\ Covers(conf, TableOf[r])
    <3>1. InRange(r) /\ TableOf[r] = conf.tables[table]
      BY <2>1 DEF PageInv, Matching, TableName
    <3>2. table \in 1..Len(conf.tables)
      BY <2>1, TypeParts, ConfType DEF PagingType
    <3> QED
      BY <3>1, <3>2 DEF Covers
  <2>3. ASSUME NEW r \in Rows, exported'[r] > 0 PROVE InRange(r) /\ Covers(conf, TableOf[r])
    BY <2>1, <2>2, <2>3 DEF WrittenInv
  <2> QED
    BY <2>1, <2>3 DEF WrittenInv, InRange
<1>4. CASE (\E c \in Confs : TriggerRun(c)) \/ ExportFails
  <2>1. ~(InExport \/ Exported)'
    BY <1>4 DEF TriggerRun, ExportFails, InExport, Exported
  <2> QED
    BY <2>1 DEF WrittenInv
<1>5. CASE Validate \/ ClearExport
  <2>1. exported' = Zero \/ ~(InExport \/ Exported)'
    BY <1>5 DEF Validate, ClearExport, BeginExport, InExport, Exported
  <2> QED
    BY <1>2, <2>1 DEF WrittenInv
<1>6. CASE \/ \E r \in Rows : CommitRow(r)
           \/ SelectPage \/ TriggerSilver \/ ClearTrigger \/ UNCHANGED vars
  <2>1. /\ UNCHANGED <<runs, exported>>
        /\ (InExport \/ Exported)' => InExport \/ Exported
    BY <1>6 DEF CommitRow, SelectPage, NextTable, TriggerSilver, ClearTrigger, vars, task,
                history, InExport, Exported
  <2>2. conf' = conf
    BY <2>1 DEF conf
  <2> QED
    BY <1>1, <2>1, <2>2
<1> QED
  BY <1>3, <1>4, <1>5, <1>6 DEF Next, Task

\* A successful export has written every row that was there when it began, apart from
\* ties, and of the last day after midnight, as of other days and tables, nothing.
THEOREM ExportComplete == Spec => []ExportAccounted
<1>1. Init => MissInv /\ PageInv /\ WrittenInv
  BY DEF Init, MissInv, PageInv, WrittenInv, InExport, Exported
<1>2. ASSUME TypeOK, MissInv, WrittenInv PROVE ExportAccounted
  <2> SUFFICES ASSUME Exported
               PROVE  /\ \A r \in before : Wanted(r) /\ ~OnLastDay(r) => exported[r] > 0 \/ Tied(r)
                      /\ \A r \in Rows : exported[r] > 0 => Wanted(r) /\ ~OnLastDay(r)
    BY DEF ExportAccounted
  <2>1. conf.start \in Nat /\ conf.end \in Nat
    BY <1>2, ConfType, TypeParts DEF Exported
  <2>2. ASSUME NEW r \in before, Wanted(r), ~OnLastDay(r) PROVE exported[r] > 0 \/ Tied(r)
    <3>1. r \in Rows /\ exported[r] \in 0..2 /\ CreatedAt[r] \in Nat
      BY <1>2, TypeParts, BackfillAssumption DEF RowsType, CountsType
    <3>2. InRange(r)
      BY <2>1, <2>2, <3>1 DEF Wanted, OnLastDay, InRange
    <3>3. ~Owed(r)
      BY <1>2 DEF MissInv
    <3> QED
      BY <2>2, <3>1, <3>2, <3>3 DEF Owed, Wanted
  <2>3. ASSUME NEW r \in Rows, exported[r] > 0 PROVE Wanted(r) /\ ~OnLastDay(r)
    <3>1. InRange(r) /\ Covers(conf, TableOf[r]) /\ CreatedAt[r] \in Nat
      BY <1>2, <2>3, BackfillAssumption DEF WrittenInv
    <3> QED
      BY <2>1, <3>1 DEF InRange, Wanted, OnLastDay
  <2> QED
    BY <2>2, <2>3
<1> QED
  BY <1>1, <1>2, MissStep, PageInvStep, WrittenStep, BackfillTypeCorrect, PTL DEF Spec

-----------------------------------------------------------------------------
(* Nothing twice.                                                          *)

\* Nothing has disturbed the rank of r since the export began.
Steady(r) == ~Tied(r) /\ ~Overtaken(r)

\* A row that was written is behind the page in hand.
Behind(r) ==
  \E i \in 1..table :
    conf.tables[i] = TableOf[r] /\ (i = table => Rank(r) < Offset)

RepInv ==
  /\ RepeatedOnlyByRace
  /\ InExport => \A r \in Rows : exported[r] = 1 /\ Steady(r) => Behind(r)
  /\ pc = "put" => \A r \in page :
       Steady(r) => Offset <= Rank(r) /\ Rank(r) < Offset + ChunkSize
  /\ \A r \in Rows : exported[r] > 0 => r \in db

\* An export that begins has written nothing.
LEMMA RepBegin ==
  ASSUME BeginExport, pc' = "select"
  PROVE  RepInv'
BY DEF BeginExport, Zero, RepInv, RepeatedOnlyByRace

\* The history of the rows as it is, outside of a page.
LEMMA RepQuiet ==
  ASSUME RepInv, ~InExport', UNCHANGED <<db, before, exported>>
  PROVE  RepInv'
<1>1. \A r : (Tied(r)' <=> Tied(r)) /\ (Overtaken(r)' <=> Overtaken(r))
  BY DEF Tied, Overtaken
<1> QED
  BY <1>1 DEF RepInv, RepeatedOnlyByRace, InExport

\* Rows committed meanwhile.
LEMMA RepCommit ==
  ASSUME TypeOK, RepInv, NEW s \in Rows, CommitRow(s)
  PROVE  RepInv'
<1>1. /\ UNCHANGED <<runs, pc, table, chunk, page, before, exported>> /\ conf' = conf
      /\ Offset' = Offset /\ db \subseteq db' /\ page \subseteq db
  BY TypeParts DEF CommitRow, task, history, conf, Offset, RowsType
<1>2. ASSUME NEW r PROVE (Steady(r)' => Steady(r)) /\ (Steady(r)' /\ r \in db => Rank(r)' = Rank(r))
  BY CommitRanks DEF Steady
<1>3. RepeatedOnlyByRace'
  BY <1>1, CommitRanks DEF RepInv, RepeatedOnlyByRace
<1>4. ASSUME InExport', NEW r \in Rows, exported'[r] = 1, Steady(r)' PROVE Behind(r)'
  <2>1. Behind(r) /\ Rank(r)' = Rank(r)
    BY <1>1, <1>2, <1>4 DEF RepInv, InExport
  <2> QED
    BY <1>1, <2>1 DEF Behind
<1>5. ASSUME pc' = "put", NEW r \in page, Steady(r)'
      PROVE  Offset <= Rank(r)' /\ Rank(r)' < Offset + ChunkSize
  BY <1>1, <1>2, <1>5 DEF RepInv
<1> QED
  BY <1>1, <1>3, <1>4, <1>5 DEF RepInv

\* A fetched page holds the ranks of its offset.
LEMMA RepSelect ==
  ASSUME TypeOK, RepInv, SelectPage
  PROVE  RepInv'
<1>1. pc = "select" /\ UNCHANGED <<db, runs, before, exported>> /\ conf' = conf
  BY DEF SelectPage, source, history, conf
<1>2. PICK P \in Pages : IF P = {} THEN NextTable /\ UNCHANGED page
                                   ELSE pc' = "put" /\ page' = P /\ UNCHANGED <<table, chunk>>
  BY DEF SelectPage
<1>3. \A r : (Steady(r)' <=> Steady(r)) /\ Rank(r)' = Rank(r)
  BY <1>1, SameRanks DEF Steady, Overtaken
<1>4. RepeatedOnlyByRace' /\ \A r \in Rows : exported'[r] > 0 => r \in db'
  BY <1>1 DEF RepInv, RepeatedOnlyByRace, Tied, Overtaken
<1>5. table \in Nat \ {0} /\ RowsType /\ PagingType
  BY TypeParts DEF PagingType
<1>6. CASE P = {}
  <2>1. \/ pc' = "select" /\ table' = table + 1
        \/ pc' = "trigger"
    BY <1>2, <1>6 DEF NextTable
  <2>2. ASSUME InExport', NEW r \in Rows, exported'[r] = 1, Steady(r)' PROVE Behind(r)'
    <3>1. table' = table + 1
      BY <2>1, <2>2 DEF InExport
    <3>2. PICK i \in 1..table : conf.tables[i] = TableOf[r]
      BY <1>1, <1>3, <2>2 DEF RepInv, InExport, Behind
    <3>3. i \in 1..table' /\ i # table'
      BY <1>5, <3>1, <3>2
    <3> QED
      BY <1>1, <3>2, <3>3 DEF Behind
  <2> QED
    BY <1>4, <2>1, <2>2 DEF RepInv
<1>7. CASE P # {}
  <2>1. pc' = "put" /\ page' = P /\ UNCHANGED <<table, chunk>> /\ Offset' = Offset
    BY <1>2, <1>7 DEF Offset
  <2>2. ASSUME NEW r \in Rows, exported'[r] = 1, Steady(r)' PROVE Behind(r)'
    <3>1. Behind(r)
      BY <1>1, <1>3, <2>2 DEF RepInv, InExport
    <3> QED
      BY <1>1, <1>3, <2>1, <3>1 DEF Behind
  <2>3. ASSUME NEW r \in P, Steady(r)' PROVE Offset <= Rank(r) /\ Rank(r) < Offset + ChunkSize
    <3>1. r \in Matching /\ ~Tied(r)
      BY <1>3, <2>3, PageRows DEF Steady
    <3> QED
      BY <1>5, <2>3, <3>1, PageOfRank
  <2> QED
    BY <1>3, <1>4, <2>1, <2>2, <2>3 DEF RepInv
<1> QED
  BY <1>6, <1>7

\* A written page holds nothing that was written before it, races aside.
LEMMA RepPut ==
  ASSUME TypeOK, RepInv, PageInv, PutChunk
  PROVE  RepInv'
<1>1. /\ pc = "put" /\ UNCHANGED <<db, runs, before>> /\ conf' = conf
      /\ exported' = [r \in Rows |-> IF r \in page THEN AddOnce(exported[r]) ELSE exported[r]]
      /\ \/ pc' = "select" /\ table' = table + 1
         \/ pc' = "trigger"
         \/ pc' = "select" /\ chunk' = chunk + 1 /\ table' = table
  BY DEF PutChunk, NextTable, source, conf, NextChunk
<1>2. /\ Len(conf.tables) \in Nat /\ table \in Nat \ {0} /\ RowsType /\ PagingType
      /\ table <= Len(conf.tables)
      /\ \A i, j \in 1..Len(conf.tables) : conf.tables[i] = conf.tables[j] => i = j
  BY <1>1, ConfType, TypeParts DEF PagingType
<1>3. \A r \in Rows : exported[r] \in 0..2
  BY TypeParts DEF CountsType
<1>4. \A r : (Steady(r)' <=> Steady(r)) /\ Rank(r)' = Rank(r)
  BY <1>1, SameRanks DEF Steady, Overtaken
<1>5. \A r : Rank(r) \in Nat
  BY <1>2, RowsFinite
<1>6. Offset \in Nat /\ ChunkSize \in Nat \ {0}
  BY <1>2, NextOffset
<1>7. ASSUME NEW r \in page, Steady(r)
      PROVE  /\ r \in Rows /\ r \in db /\ conf.tables[table] = TableOf[r]
             /\ Offset <= Rank(r) /\ Rank(r) < Offset + ChunkSize
             /\ exported[r] # 1 /\ ~(exported[r] > 1)
  <2>1. r \in Rows /\ r \in db /\ conf.tables[table] = TableOf[r]
    BY <1>1, <1>2 DEF PageInv, Matching, TableName, RowsType
  <2>2. Offset <= Rank(r) /\ Rank(r) < Offset + ChunkSize
    BY <1>1, <1>7 DEF RepInv
  <2>3. exported[r] # 1
    <3> SUFFICES ASSUME exported[r] = 1 PROVE FALSE
      OBVIOUS
    <3>1. PICK i \in 1..table : conf.tables[i] = TableOf[r] /\ (i = table => Rank(r) < Offset)
      BY <1>1, <1>7, <2>1 DEF RepInv, InExport, Behind
    <3>2. i \in 1..Len(conf.tables) /\ table \in 1..Len(conf.tables)
      BY <1>2, <3>1
    <3>3. i = table
      BY <1>2, <2>1, <3>1, <3>2
    <3> QED
      BY <1>5, <1>6, <2>2, <3>1, <3>3
  <2>4. ~(exported[r] > 1)
    BY <1>7, <2>1 DEF RepInv, RepeatedOnlyByRace, Steady
  <2> QED
    BY <2>1, <2>2, <2>3, <2>4
<1>8. ASSUME NEW r \in Rows, exported'[r] > 1 PROVE ~Steady(r)
  <2>1. CASE r \in page
    <3> SUFFICES ASSUME Steady(r) PROVE FALSE
      OBVIOUS
    <3>1. exported[r] = 0
      BY <1>3, <1>7, <2>1
    <3> QED
      BY <1>1, <1>8, <2>1, <3>1 DEF AddOnce
  <2>2. CASE r \notin page
    BY <1>1, <1>8, <2>2 DEF RepInv, RepeatedOnlyByRace, Steady
  <2> QED
    BY <2>1, <2>2
<1>9. RepeatedOnlyByRace'
  BY <1>4, <1>8 DEF RepeatedOnlyByRace, Steady
<1>10. ASSUME NEW r \in Rows, exported'[r] = 1, Steady(r)
       PROVE  \E i \in 1..table : /\ conf.tables[i] = TableOf[r]
                                  /\ i = table => Rank(r) < Offset + ChunkSize
  <2>1. CASE r \in page
    BY <1>2, <1>7, <1>10, <2>1
  <2>2. CASE r \notin page
    <3>1. Behind(r)
      BY <1>1, <1>10, <2>2 DEF RepInv, InExport
    <3> QED
      BY <1>5, <1>6, <3>1 DEF Behind
  <2> QED
    BY <2>1, <2>2
<1>11. ASSUME InExport', NEW r \in Rows, exported'[r] = 1, Steady(r)' PROVE Behind(r)'
  <2>1. Steady(r)
    BY <1>4, <1>11
  <2>2. PICK i \in 1..table : /\ conf.tables[i] = TableOf[r]
                              /\ i = table => Rank(r) < Offset + ChunkSize
    BY <1>10, <1>11, <2>1
  <2>3. conf' = conf /\ conf.tables[i] = TableOf[r] /\ Rank(r)' = Rank(r)
    BY <1>1, <1>4, <2>2
  <2>4. CASE table' = table + 1
    <3>1. i \in 1..table' /\ i # table'
      BY <1>2, <2>2, <2>4
    <3> QED
      BY <2>3, <3>1 DEF Behind
  <2>5. CASE chunk' = chunk + 1 /\ table' = table
    <3>1. i = table' => Rank(r)' < Offset'
      BY <1>2, <2>2, <2>3, <2>5, NextOffset
    <3> QED
      BY <2>3, <2>5, <3>1 DEF Behind
  <2> QED
    BY <1>1, <1>11, <2>4, <2>5 DEF InExport
<1>12. ASSUME NEW r \in Rows, exported'[r] > 0 PROVE r \in db'
  <2>1. CASE r \in page
    BY <1>1, <2>1, TypeParts DEF RowsType
  <2>2. CASE r \notin page
    BY <1>1, <1>12, <2>2 DEF RepInv
  <2> QED
    BY <2>1, <2>2
<1> QED
  BY <1>1, <1>9, <1>11, <1>12 DEF RepInv

\* Every action keeps the written rows behind the page in hand.
LEMMA RepStep ==
  ASSUME TypeOK, RepInv, PageInv, [Next]_vars
  PROVE  RepInv'
<1>1. ASSUME NEW s \in Rows, CommitRow(s) PROVE RepInv'
  BY <1>1, RepCommit
<1>2. ASSUME NEW c \in Confs, TriggerRun(c) PROVE RepInv'
  <2>1. ~InExport' /\ UNCHANGED <<db, before, exported>>
    BY <1>2 DEF TriggerRun, InExport, source, history
  <2> QED
    BY <2>1, RepQuiet
<1>3. CASE Validate
  <2>1. CASE pc' = "select" /\ BeginExport
    BY <2>1, RepBegin
  <2>2. CASE pc' = "failed" /\ UNCHANGED <<before, exported>>
    <3>1. ~InExport' /\ db' = db
      BY <1>3, <2>2 DEF Validate, InExport, source
    <3> QED
      BY <2>2, <3>1, RepQuiet
  <2> QED
    BY <1>3, <2>1, <2>2 DEF Validate
<1>4. CASE SelectPage
  BY <1>4, RepSelect
<1>5. CASE PutChunk
  BY <1>5, RepPut
<1>6. CASE ExportFails \/ TriggerSilver \/ ClearTrigger
  <2>1. ~InExport' /\ UNCHANGED <<db, before, exported>>
    BY <1>6 DEF ExportFails, TriggerSilver, ClearTrigger, InExport, source, history
  <2> QED
    BY <2>1, RepQuiet
<1>7. CASE ClearExport
  BY <1>7, RepBegin DEF ClearExport
<1>8. CASE UNCHANGED vars
  <2>1. UNCHANGED <<db, runs, pc, table, chunk, page, before, exported>> /\ conf' = conf
    BY <1>8 DEF vars, source, task, history, conf
  <2>2. \A r : (Steady(r)' <=> Steady(r)) /\ Rank(r)' = Rank(r)
    BY <2>1, SameRanks DEF Steady, Overtaken
  <2>3. \A r : Behind(r) => Behind(r)'
    BY <2>1, <2>2 DEF Behind, Offset
  <2>4. RepeatedOnlyByRace'
    BY <2>1 DEF RepInv, RepeatedOnlyByRace, Tied, Overtaken
  <2> QED
    BY <2>1, <2>2, <2>3, <2>4 DEF RepInv, InExport, Offset
<1> QED
  BY <1>1, <1>2, <1>3, <1>4, <1>5, <1>6, <1>7, <1>8 DEF Next, Task

\* A row is written twice only because of a tie or of a row committed late in front
\* of it.
THEOREM RepeatsAreRaces == Spec => []RepeatedOnlyByRace
<1>1. Init => RepInv /\ PageInv
  BY DEF Init, RepInv, RepeatedOnlyByRace, PageInv, InExport, Zero
<1>2. RepInv => RepeatedOnlyByRace
  BY DEF RepInv
<1> QED
  BY <1>1, <1>2, RepStep, PageInvStep, BackfillTypeCorrect, PTL DEF Spec
-----------------------------------------------------------------------------
(* Exactly once.                                                           *)

\* A row that was there, is asked for before the last midnight, has no tie and
\* is not overtaken is in exactly one chunk of a successful export.
ExactUnlessRaced ==
  Exported => \A r \in before :
    Wanted(r) /\ ~OnLastDay(r) /\ Steady(r) => exported[r] = 1

\* Ties, late rows in front and the last midnight are all that stands between
\* LIMIT/OFFSET paging and an exact copy.
THEOREM ExportExact == Spec => []ExactUnlessRaced
<1>1. TypeOK /\ ExportAccounted /\ RepeatedOnlyByRace => ExactUnlessRaced
  <2> SUFFICES ASSUME TypeOK, ExportAccounted, RepeatedOnlyByRace, Exported,
                      NEW r \in before, Wanted(r), ~OnLastDay(r), Steady(r)
               PROVE  exported[r] = 1
    BY DEF ExactUnlessRaced
  <2>1. r \in Rows /\ exported[r] \in 0..2
    BY TypeParts DEF RowsType, CountsType
  <2>2. exported[r] > 0 /\ ~(exported[r] > 1)
    BY <2>1 DEF ExportAccounted, RepeatedOnlyByRace, Steady
  <2> QED
    BY <2>1, <2>2
<1> QED
  BY <1>1, ExportComplete, RepeatsAreRaces, BackfillTypeCorrect, PTL
-----------------------------------------------------------------------------
(* The paging loop without its fairness.                                   *)

\* The order of the natural numbers as a set of pairs.
LessThan == {p \in Nat \X Nat : p[1] < p[2]}

\* A set of numbers has a least one: the induction of the next lemmas.
LEMMA LeastNumber ==
  ASSUME NEW T \in SUBSET Nat, T # {}
  PROVE  \E n \in T : \A m \in T : n <= m
<1>1. OpToRel(<, Nat) = LessThan
  BY DEF OpToRel, LessThan
<1>2. IsWellFoundedOn(LessThan, Nat)
  BY <1>1, NatLessThanWellFounded, Zenon
<1>3. PICK n \in T : \A m \in T : <<m, n>> \notin LessThan
  BY <1>2, WFMin
<1>4. ASSUME NEW m \in T PROVE n <= m
  <2>1. <<m, n>> \in Nat \X Nat /\ <<m, n>> \notin LessThan
    BY <1>3
  <2>2. ~(m < n)
    BY <2>1 DEF LessThan
  <2> QED
    BY <2>2
<1> QED
  BY <1>4

\* What comes first in some order by created_at can be continued by one row: an
\* oldest one of those that are left.
LEMMA PrefixGrows ==
  ASSUME NEW S \in SUBSET Rows, NEW X \in SUBSET S, IsPrefix(X, S), X # S
  PROVE  \E b \in S \ X : IsPrefix(X \cup {b}, S)
<1> DEFINE T == {CreatedAt[b] : b \in S \ X}
<1>1. \A b \in S : CreatedAt[b] \in Nat
  BY BackfillAssumption
<1>2. T \in SUBSET Nat /\ T # {}
  BY <1>1
<1> HIDE DEF T
<1>3. PICK n \in T : \A m \in T : n <= m
  BY <1>2, LeastNumber
<1>4. PICK b \in S \ X : CreatedAt[b] = n
  BY <1>3 DEF T
<1>5. \A c \in S \ X : CreatedAt[b] <= CreatedAt[c]
  BY <1>3, <1>4 DEF T
<1>6. ASSUME NEW a \in X \cup {b}, NEW c \in S, CreatedAt[c] < CreatedAt[a]
      PROVE  c \in X
  <2>1. CASE a \in X
    BY <1>6, <2>1 DEF IsPrefix
  <2>2. CASE a = b
    BY <1>1, <1>4, <1>5, <1>6, <2>2
  <2> QED
    BY <2>1, <2>2
<1>7. X \cup {b} \subseteq S
  OBVIOUS
<1> QED
  BY <1>4, <1>6, <1>7 DEF IsPrefix

\* It can be continued to any size.
LEMMA PrefixOfSize ==
  ASSUME NEW S \in SUBSET Rows, NEW X \in SUBSET S, IsPrefix(X, S),
         NEW m \in Nat, Cardinality(X) <= m, m <= Cardinality(S)
  PROVE  \E Y \in SUBSET S : X \subseteq Y /\ IsPrefix(Y, S) /\ Cardinality(Y) = m
<1> DEFINE Reached(k) == \E Y \in SUBSET S :
                           X \subseteq Y /\ IsPrefix(Y, S) /\ Cardinality(Y) = k
           T == {k \in Nat : /\ Cardinality(X) <= k /\ k <= Cardinality(S)
                             /\ ~Reached(k)}
<1>1. /\ IsFiniteSet(S) /\ Cardinality(S) \in Nat
      /\ \A Y \in SUBSET S : IsFiniteSet(Y) /\ Cardinality(Y) \in Nat
  BY BackfillAssumption, FS_Subset, FS_CardinalityType
<1>2. SUFFICES ASSUME T # {} PROVE FALSE
  OBVIOUS
<1>3. T \in SUBSET Nat
  OBVIOUS
<1>4. PICK n \in T : \A k \in T : n <= k
  BY <1>2, <1>3, LeastNumber
<1>5. n \in Nat /\ Cardinality(X) <= n /\ n <= Cardinality(S) /\ ~Reached(n)
  BY <1>4
<1>6. n # Cardinality(X)
  <2>1. Reached(Cardinality(X))
    OBVIOUS
  <2> QED
    BY <1>5, <2>1
<1>7. /\ n - 1 \in Nat /\ Cardinality(X) <= n - 1 /\ n - 1 <= Cardinality(S)
      /\ n - 1 < Cardinality(S) /\ ~(n <= n - 1)
  BY <1>1, <1>5, <1>6
<1>8. Reached(n - 1)
  BY <1>4, <1>7
<1>9. PICK Y \in SUBSET S : X \subseteq Y /\ IsPrefix(Y, S) /\ Cardinality(Y) = n - 1
  BY <1>8
<1>10. PICK b \in S \ Y : IsPrefix(Y \cup {b}, S)
  BY <1>1, <1>7, <1>9, PrefixGrows
<1>11. Cardinality(Y \cup {b}) = n
  BY <1>1, <1>5, <1>9, <1>10, FS_AddElement
<1>12. Reached(n)
  BY <1>9, <1>10, <1>11
<1> QED
  BY <1>5, <1>12

\* LIMIT and OFFSET always cut out some page.
LEMMA SomePage ==
  ASSUME TypeOK
  PROVE  Pages # {}
<1> DEFINE M == Matching
           n == Cardinality(M)
           skipped == Smaller(Offset, n)
           taken == Smaller(ChunkSize, n - skipped)
<1>1. M \in SUBSET db /\ M \in SUBSET Rows
  BY TypeParts DEF Matching, RowsType
<1>2. n \in Nat /\ IsFiniteSet(M) /\ \A Y \in SUBSET M : IsFiniteSet(Y) /\ Cardinality(Y) \in Nat
  BY <1>1, BackfillAssumption, FS_Subset, FS_CardinalityType
<1>3. Offset \in Nat /\ ChunkSize \in Nat \ {0}
  BY TypeParts, NextOffset
<1>4. skipped \in Nat /\ skipped <= n /\ taken \in Nat /\ skipped + taken <= n
  BY <1>2, <1>3 DEF Smaller
<1> HIDE DEF M, n, skipped, taken
<1>5. {} \in SUBSET M /\ IsPrefix({}, M) /\ Cardinality({}) = 0
  BY FS_EmptySet DEF IsPrefix
<1>6. PICK X \in SUBSET M : IsPrefix(X, M) /\ Cardinality(X) = skipped
  BY <1>1, <1>4, <1>5, PrefixOfSize DEF n
<1>7. PICK Y \in SUBSET M : X \subseteq Y /\ IsPrefix(Y, M) /\ Cardinality(Y) = skipped + taken
  BY <1>1, <1>4, <1>6, PrefixOfSize DEF n
<1>8. Cardinality(Y \ X) = taken
  <2>1. Y \cap X = X
    BY <1>7
  <2>2. Cardinality(Y \ X) = Cardinality(Y) - Cardinality(X)
    BY <1>2, <2>1, FS_Difference
  <2> QED
    BY <1>4, <1>6, <1>7, <2>2
<1>9. Y \ X \in SUBSET M /\ X \in SUBSET (M \ (Y \ X)) /\ X \cup (Y \ X) = Y
  BY <1>7
<1>10. Y \ X \in Pages
  BY <1>6, <1>7, <1>8, <1>9 DEF Pages, M, n, skipped, taken
<1> QED
  BY <1>10

\* What is behind the page in hand are rows that match, a full chunk for each file.
PagesInv ==
  /\ pc = "select" => Offset <= Cardinality(Matching)
  /\ pc = "put" => /\ page # {} /\ page \subseteq Matching
                   /\ Offset + Cardinality(page) <= Cardinality(Matching)

\* A page is cut out behind the offset.
LEMMA PageFits ==
  ASSUME TypeOK, NEW P \in Pages, P # {}
  PROVE  Offset + Cardinality(P) <= Cardinality(Matching)
<1> DEFINE n == Cardinality(Matching)
           skipped == Smaller(Offset, n)
<1>1. n \in Nat /\ IsFiniteSet(P) /\ Cardinality(P) \in Nat
  <2>1. Matching \in SUBSET db /\ P \in SUBSET db
    BY PageRows DEF Matching
  <2> QED
    BY <2>1, RowsFinite, TypeParts
<1>2. Offset \in Nat /\ ChunkSize \in Nat \ {0}
  BY TypeParts, NextOffset
<1>3. Cardinality(P) = Smaller(ChunkSize, n - skipped) /\ Cardinality(P) # 0
  BY <1>1, FS_EmptySet DEF Pages
<1> HIDE DEF n
<1> QED
  BY <1>1, <1>2, <1>3 DEF Smaller, n

\* Rows that are committed meanwhile can only add to what matches.
LEMMA PagesInvStep ==
  ASSUME TypeOK, TypeOK', PagesInv, [Next]_vars
  PROVE  PagesInv'
<1>1. ASSUME UNCHANGED <<pc, runs, table, chunk, page>>, db \subseteq db' PROVE PagesInv'
  <2>1. Matching \subseteq Matching' /\ Offset' = Offset
    BY <1>1 DEF Matching, InRange, TableName, conf, Offset
  <2>2. /\ IsFiniteSet(Matching') /\ Cardinality(Matching') \in Nat /\ Cardinality(Matching) \in Nat
        /\ IsFiniteSet(page) /\ Cardinality(page) \in Nat
    <3>1. Matching' \in SUBSET Rows /\ Matching \in SUBSET Rows /\ page \in SUBSET Rows
      BY TypeParts DEF Matching, RowsType
    <3> QED
      BY <3>1, BackfillAssumption, FS_Subset, FS_CardinalityType
  <2>3. Cardinality(Matching) <= Cardinality(Matching')
    BY <2>1, <2>2, FS_Subset
  <2>4. Offset \in Nat
    BY TypeParts, NextOffset
  <2> QED
    BY <1>1, <2>1, <2>2, <2>3, <2>4 DEF PagesInv
<1>2. ASSUME pc' = "select", chunk' = 0 PROVE PagesInv'
  <2>1. Offset' = 0
    BY <1>2, TypeParts, NextOffset
  <2>2. Cardinality(Matching') \in Nat
    <3>1. Matching' \in SUBSET Rows
      BY TypeParts DEF Matching, RowsType
    <3> QED
      BY <3>1, BackfillAssumption, FS_Subset, FS_CardinalityType
  <2> QED
    BY <1>2, <2>1, <2>2 DEF PagesInv
<1>3. ASSUME pc' \notin {"select", "put"} PROVE PagesInv'
  BY <1>3 DEF PagesInv
<1>4. CASE SelectPage
  <2>1. PICK P \in Pages : IF P = {} THEN NextTable /\ UNCHANGED page
                                     ELSE pc' = "put" /\ page' = P /\ UNCHANGED <<table, chunk>>
    BY <1>4 DEF SelectPage
  <2>2. CASE P = {}
    BY <1>2, <1>3, <2>1, <2>2 DEF NextTable
  <2>3. CASE P # {}
    <3>1. UNCHANGED <<db, runs, table, chunk>> /\ pc' = "put" /\ page' = P
      BY <1>4, <2>1, <2>3 DEF SelectPage, source
    <3>2. Matching' = Matching /\ Offset' = Offset
      BY <3>1 DEF Matching, InRange, TableName, conf, Offset
    <3> QED
      BY <2>3, <3>1, <3>2, PageFits, PageRows DEF PagesInv
  <2> QED
    BY <2>2, <2>3
<1>5. CASE PutChunk
  <2>1. pc = "put" /\ UNCHANGED <<db, runs>>
    BY <1>5 DEF PutChunk, source
  <2>2. CASE LastPage
    BY <1>2, <1>3, <1>5, <2>2 DEF PutChunk, NextTable
  <2>3. CASE ~LastPage
    <3>1. pc' = "select" /\ chunk' = chunk + 1 /\ table' = table
      BY <1>5, <2>3 DEF PutChunk, NextChunk
    <3>2. Matching' = Matching /\ Offset' = Offset + ChunkSize
      BY <2>1, <3>1, TypeParts, NextOffset DEF Matching, InRange, TableName, conf
    <3>3. Cardinality(page) \in Nat /\ Cardinality(Matching) \in Nat /\ Offset \in Nat
          /\ ChunkSize \in Nat
      <4>1. Matching \in SUBSET db /\ page \in SUBSET db
        BY TypeParts DEF Matching, RowsType
      <4> QED
        BY <4>1, RowsFinite, TypeParts, NextOffset
    <3>4. Offset + Cardinality(page) <= Cardinality(Matching) /\ ~(Cardinality(page) < ChunkSize)
      BY <2>1, <2>3 DEF PagesInv, LastPage
    <3>5. Offset + ChunkSize <= Cardinality(Matching)
      BY <3>3, <3>4
    <3> QED
      BY <3>1, <3>2, <3>5 DEF PagesInv
  <2> QED
    BY <2>2, <2>3
<1>6. CASE Validate \/ ClearExport
  BY <1>2, <1>3, <1>6 DEF Validate, ClearExport, BeginExport
<1>7. CASE (\E c \in Confs : TriggerRun(c)) \/ ExportFails \/ TriggerSilver \/ ClearTrigger
  BY <1>3, <1>7 DEF TriggerRun, ExportFails, TriggerSilver, ClearTrigger
<1>8. CASE (\E r \in Rows : CommitRow(r)) \/ UNCHANGED vars
  BY <1>1, <1>8 DEF CommitRow, vars, source, task
<1> QED
  BY <1>4, <1>5, <1>6, <1>7, <1>8 DEF Next, Task

\* The loop never gets past the rows there are, and no SELECT leaves it without a page.
LoopBounded ==
  InExport => /\ table <= Len(conf.tables)
              /\ chunk <= Cardinality(Rows)
              /\ pc = "select" => Pages # {}

\* A step of the task brings the loop to a page of its own, the next page or the next
\* table, or out of it; nothing else moves it, or takes it back.
LoopGoesForward ==
  InExport =>
    /\ \/ UNCHANGED <<pc, table, chunk>> /\ ~Task
       \/ ~InExport'
       \/ table < table'
       \/ table' = table /\ chunk < chunk'
       \/ table' = table /\ chunk' = chunk /\ pc = "select" /\ pc' = "put"

\* ExportEnds without fairness: table and chunk only go up, and they are bounded
\* although rows keep arriving, so that the task's steps come to an end.
THEOREM ExportIsFinite == Spec => []LoopBounded /\ [][LoopGoesForward]_vars
<1>1. Init => PagesInv
  BY DEF Init, PagesInv
<1>2. TypeOK /\ PagesInv => LoopBounded
  <2> SUFFICES ASSUME TypeOK, PagesInv, InExport
               PROVE  table <= Len(conf.tables) /\ chunk <= Cardinality(Rows) /\ Pages # {}
    BY DEF LoopBounded
  <2>1. table <= Len(conf.tables) /\ chunk \in Nat /\ ChunkSize \in Nat \ {0}
    BY TypeParts, BackfillAssumption DEF PagingType, InExport
  <2>2. /\ Cardinality(Matching) \in Nat /\ Cardinality(Rows) \in Nat
        /\ Cardinality(Matching) <= Cardinality(Rows)
    <3>1. Matching \in SUBSET Rows
      BY TypeParts DEF Matching, RowsType
    <3> QED
      BY <3>1, BackfillAssumption, FS_Subset, FS_CardinalityType
  <2>3. Offset \in Nat /\ Offset <= Cardinality(Matching)
    <3>1. Offset \in Nat
      BY TypeParts, NextOffset
    <3>2. pc = "put" => Cardinality(page) \in Nat
      BY TypeParts, RowsFinite DEF RowsType
    <3> QED
      BY <2>2, <3>1, <3>2 DEF PagesInv, InExport
  <2>4. chunk <= chunk * ChunkSize
    <3>1. ChunkSize - 1 \in Nat
      BY <2>1
    <3>2. chunk * ChunkSize = chunk + chunk * (ChunkSize - 1)
      BY <2>1
    <3>3. chunk * (ChunkSize - 1) \in Nat
      BY <2>1, <3>1
    <3> QED
      BY <2>1, <3>2, <3>3
  <2>5. chunk <= Cardinality(Rows)
    <3>1. chunk <= Offset
      BY <2>4 DEF Offset
    <3> QED
      BY <2>1, <2>2, <2>3, <3>1
  <2> QED
    BY <2>1, <2>5, SomePage
<1>3. TypeOK /\ [Next]_vars => [LoopGoesForward]_vars
  <2> SUFFICES ASSUME TypeOK, Next, InExport
               PROVE  \/ UNCHANGED <<pc, table, chunk>> /\ ~Task
                      \/ ~InExport'
                      \/ table < table'
                      \/ table' = table /\ chunk < chunk'
                      \/ table' = table /\ chunk' = chunk /\ pc = "select" /\ pc' = "put"
    BY DEF LoopGoesForward
  <2> USE DEF InExport
  <2>1. table \in Nat /\ chunk \in Nat
    BY TypeParts DEF PagingType
  <2>2. CASE SelectPage
    <3>1. pc = "select"
      BY <2>2 DEF SelectPage
    <3>2. \/ NextTable
          \/ pc' = "put" /\ UNCHANGED <<table, chunk>>
      BY <2>2 DEF SelectPage
    <3> QED
      BY <2>1, <3>1, <3>2 DEF NextTable
  <2>3. CASE PutChunk
    <3>1. NextTable \/ (pc' = "select" /\ chunk' = chunk + 1 /\ table' = table)
      BY <2>3 DEF PutChunk, NextChunk
    <3> QED
      BY <2>1, <3>1 DEF NextTable
  <2>4. CASE ExportFails
    BY <2>4 DEF ExportFails
  <2>5. CASE \/ \E c \in Confs : TriggerRun(c)
             \/ Validate \/ TriggerSilver \/ ClearExport \/ ClearTrigger
    BY <2>5 DEF TriggerRun, Validate, TriggerSilver, ClearExport, ClearTrigger
  <2>6. ASSUME NEW r \in Rows, CommitRow(r) PROVE UNCHANGED <<pc, table, chunk>>
    BY <2>6 DEF CommitRow, task
  <2> QED
    BY <2>2, <2>3, <2>4, <2>5, <2>6 DEF Next, Task
<1> QED
  BY <1>1, <1>2, <1>3, PagesInvStep, BackfillTypeCorrect, PTL DEF Spec
=============================================================================
