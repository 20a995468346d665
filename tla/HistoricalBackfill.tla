------------------------- MODULE HistoricalBackfill -------------------------
(***************************************************************************)
(* airflow/dags/historical_backfill.py: a DAG started by hand that copies  *)
(* a range of days of PostgreSQL tables into parquet chunks under          *)
(* s3a://bronze, page by page, and then triggers bronze_to_silver.         *)
(*                                                                         *)
(* The tables are in use meanwhile.  Each page is a SELECT of its own with *)
(* ORDER BY created_at LIMIT .. OFFSET ..: it sees what is committed by    *)
(* then (READ COMMITTED), and rows of equal created_at come in any order,  *)
(* another one each time.                                                  *)
(*                                                                         *)
(* Time is counted in half days: 2*d is midnight of day d, 2*d + 1 the     *)
(* rest of it.  Rows are never deleted and created_at never changes        *)
(* (cdc_simulator.py inserts and updates only).                            *)
(***************************************************************************)
EXTENDS Naturals, Sequences, FiniteSets

CONSTANTS
  Rows,        \* rows that the source tables ever hold
  TableOf,     \* the table of a row
  CreatedAt,   \* created_at of a row, in half days
  Confs,       \* dag_run.conf of the runs: [start, end : days, tables : sequence]; a
               \* conf without dates fails like one with an empty range; one that
               \* names a table twice, which the code does not refuse, is left out
  YearOf,      \* the calendar year of a day
  ChunkSize,   \* CHUNK_SIZE
  MaxDays,     \* the longest range that is accepted: 90 days
  MaxRuns      \* bound: runs of the DAG, cleared ones included

ASSUME BackfillAssumption ==
  /\ ChunkSize \in Nat \ {0}
  /\ MaxRuns \in Nat
  /\ CreatedAt \in [Rows -> Nat]
  /\ IsFiniteSet(Rows)
  /\ \A c \in Confs :
       /\ c.start \in Nat /\ c.end \in Nat
       /\ Len(c.tables) \in Nat \ {0}
       /\ \A i, j \in 1..Len(c.tables) : c.tables[i] = c.tables[j] => i = j

VARIABLES
  db,        \* committed rows
  pc,        \* the run: "none", "validate", "select", "put", "trigger",
             \* "success", "failed",
             \* "silverFailed"
  table,     \* index of the table in hand
  chunk,     \* chunk_idx; offset is chunk * CHUNK_SIZE
  page,      \* the rows fetched and not yet written
  bronze,    \* chunk files: [key -> set of rows], key = <<table, year, index>>
  runs,      \* the dag_run.conf of each run so far, a cleared one counted again
  before,    \* history: rows committed when the export began
  exported,  \* history: did this execution write a row never, once, or more often
  saved      \* history: the last run that wrote each row, 0 for none

source  == <<db>>
task    == <<pc, runs, table, chunk, page>>
history == <<before, exported, saved>>
vars    == <<source, task, bronze, history>>

Zero == [r \in Rows |-> 0]
conf == runs[Len(runs)]   \* context["dag_run"].conf of the run in progress

Init ==
  /\ db \in SUBSET Rows
  /\ pc = "none"
  /\ table = 1
  /\ chunk = 0
  /\ page = {}
  /\ bronze = [k \in {} |-> {}]
  /\ runs = <<>>
  /\ before = {}
  /\ exported = Zero
  /\ saved = Zero

-----------------------------------------------------------------------------
\* Another session commits a row.  Its created_at is when its transaction began.
CommitRow(r) ==
  /\ r \notin db
  /\ db' = db \cup {r}
  /\ UNCHANGED <<task, bronze, history>>

\* A run is triggered by hand; max_active_runs=1.
TriggerRun(c) ==
  /\ pc \in {"none", "success", "failed", "silverFailed"}
  /\ Len(runs) < MaxRuns
  /\ runs' = Append(runs, c)
  /\ pc' = "validate"
  /\ UNCHANGED <<source, table, chunk, page, bronze, history>>

\* What _export_postgres_to_bronze begins with: nothing read, chunk 0 of the
\* first table.
BeginExport ==
  /\ table' = 1
  /\ chunk' = 0
  /\ page' = {}
  /\ before' = db
  /\ exported' = Zero

Valid == conf.start < conf.end /\ conf.end - conf.start <= MaxDays

\* _validate_backfill_params, and the start of the next task.
Validate ==
  /\ pc = "validate"
  /\ \/ /\ Valid
        /\ pc' = "select"
        /\ BeginExport
     \/ /\ ~Valid
        /\ pc' = "failed"
        /\ UNCHANGED <<table, chunk, page, before, exported>>
  /\ UNCHANGED <<source, runs, bronze, saved>>

TableName == conf.tables[table]

InRange_HalfOpen(r) ==   \* mutant: created_at > start
  2 * conf.start < CreatedAt[r] /\ CreatedAt[r] <= 2 * conf.end

\* WHERE created_at BETWEEN start AND end: both dates taken as midnight.
InRange(r) == 2 * conf.start <= CreatedAt[r] /\ CreatedAt[r] <= 2 * conf.end

Matching == {r \in db : TableOf[r] = TableName /\ InRange(r)}

\* X is what comes first in some order of S by created_at.
IsPrefix(X, S) ==
  X \subseteq S /\ \A a \in X, b \in S : CreatedAt[b] < CreatedAt[a] => b \in X

Smaller(a, b) == IF a < b THEN a ELSE b

Offset_ChunkIndex == chunk   \* mutant: the index of the chunk is taken for the offset

Offset == chunk * ChunkSize

\* The pages that LIMIT and OFFSET may cut out of the matching rows.
Pages ==
  LET n == Cardinality(Matching)
      skipped == Smaller(Offset, n)
      taken == Smaller(ChunkSize, n - skipped)
  IN  {P \in SUBSET Matching :
         /\ Cardinality(P) = taken
         /\ \E X \in SUBSET (Matching \ P) :
              /\ Cardinality(X) = skipped
              /\ IsPrefix(X, Matching)
              /\ IsPrefix(X \cup P, Matching)}

NextTable_PastLast ==   \* mutant: one table too many
  IF table <= Len(conf.tables)
  THEN pc' = "select" /\ table' = table + 1 /\ chunk' = 0
  ELSE pc' = "trigger" /\ UNCHANGED <<table, chunk>>

\* The loop goes on to the next table, or the task ends.
NextTable ==
  IF table < Len(conf.tables)
  THEN pc' = "select" /\ table' = table + 1 /\ chunk' = 0
  ELSE pc' = "trigger" /\ UNCHANGED <<table, chunk>>

\* cur.execute, fetchall; no row ends the table.
SelectPage ==
  /\ pc = "select"
  /\ \E P \in Pages :
       IF P = {} THEN NextTable /\ UNCHANGED page
                 ELSE pc' = "put" /\ page' = P /\ UNCHANGED <<table, chunk>>
  /\ UNCHANGED <<source, runs, bronze, history>>

Key_NoTable == <<"backfill", YearOf[conf.start], chunk>>   \* mutant: one directory for all tables

\* <table>/backfill/year=<year of the start date>/chunk_<index>.parquet
Key == <<TableName, YearOf[conf.start], chunk>>

\* A page that is not full is the last one.
LastPage == Cardinality(page) < ChunkSize

AddOnce(n) == IF n < 2 THEN n + 1 ELSE n

NextChunk_Same == chunk   \* mutant: chunk_idx and offset are not advanced

NextChunk == chunk + 1

\* put_object, which replaces an object of the same name.
PutChunk ==
  /\ pc = "put"
  /\ bronze' = [k \in DOMAIN bronze \cup {Key} |->
                  IF k = Key THEN page ELSE bronze[k]]
  /\ saved' = [r \in Rows |-> IF r \in page THEN Len(runs) ELSE saved[r]]
  /\ exported' = [r \in Rows |-> IF r \in page THEN AddOnce(exported[r]) ELSE exported[r]]
  /\ page' = {}
  /\ IF LastPage
     THEN NextTable
     ELSE pc' = "select" /\ chunk' = NextChunk /\ UNCHANGED table
  /\ UNCHANGED <<source, runs, before>>

\* PostgreSQL, MinIO or the worker fails; retries is 0.
ExportFails ==
  /\ pc \in {"select", "put"}
  /\ pc' = "failed"
  /\ page' = {}
  /\ UNCHANGED <<source, runs, table, chunk, bronze, history>>

\* trigger_silver_refresh waits for the bronze_to_silver run and takes over
\* how it ended.
TriggerSilver ==
  /\ pc = "trigger"
  /\ pc' \in {"success", "silverFailed"}
  /\ UNCHANGED <<source, runs, table, chunk, page, bronze, history>>

\* The failed export is cleared and runs again with the same conf.
ClearExport ==
  /\ pc \in {"failed", "silverFailed"}
  /\ Valid
  /\ Len(runs) < MaxRuns
  /\ runs' = Append(runs, conf)
  /\ pc' = "select"
  /\ BeginExport
  /\ UNCHANGED <<source, bronze, saved>>

\* The failed trigger task alone is cleared.
ClearTrigger ==
  /\ pc = "silverFailed"
  /\ pc' = "trigger"
  /\ UNCHANGED <<source, runs, table, chunk, page, bronze, history>>

Task == Validate \/ SelectPage \/ PutChunk \/ TriggerSilver

Next ==
  \/ \E r \in Rows : CommitRow(r)
  \/ \E c \in Confs : TriggerRun(c)
  \/ Task
  \/ ExportFails
  \/ ClearExport
  \/ ClearTrigger

Spec == Init /\ [][Next]_vars

\* A task that Airflow has started goes on.
FairSpec == Spec /\ WF_vars(Task)
-----------------------------------------------------------------------------
(* Properties.                                                             *)

TypeOK ==
  /\ db \subseteq Rows
  /\ pc \in {"none", "validate", "select", "put", "trigger", "success",
            "failed", "silverFailed"}
  /\ runs \in Seq(Confs) /\ Len(runs) <= MaxRuns
  /\ pc # "none" => runs # <<>>
  /\ table \in Nat \ {0}
  /\ pc \in {"select", "put"} => table <= Len(conf.tables)
  /\ chunk \in Nat
  /\ page \in SUBSET db
  /\ \A k \in DOMAIN bronze : bronze[k] \in SUBSET db
  /\ before \in SUBSET db
  /\ exported \in [Rows -> 0..2]
  /\ saved \in [Rows -> 0..Len(runs)]

\* The export task of the latest run has succeeded.
Exported == pc \in {"trigger", "success", "silverFailed"}

\* Another row of the same table and the same created_at.
Tied(r) == \E s \in db \ {r} : TableOf[s] = TableOf[r] /\ CreatedAt[s] = CreatedAt[r]

\* A row that was committed during the export and sorts before r.
Overtaken(r) ==
  \E s \in db \ before : TableOf[s] = TableOf[r] /\ CreatedAt[s] <= CreatedAt[r]

Covers(c, t) == \E i \in 1..Len(c.tables) : c.tables[i] = t

\* The rows of the days that the conf names, the last one included.
Wanted(r) ==
  /\ Covers(conf, TableOf[r])
  /\ 2 * conf.start <= CreatedAt[r] /\ CreatedAt[r] <= 2 * conf.end + 1

\* Rows of the last day that the conf names, apart from its first instant.
OnLastDay(r) == CreatedAt[r] = 2 * conf.end + 1

\* historical_backfill.py:103-106: a successful export has written every row that was
\* there when it began and belongs to the days asked for, except rows that share
\* their created_at with another one, which can fall between two pages, and except
\* the last day: of that it has written nothing behind midnight, and nothing either
\* that was not asked for, whatever is committed in the meantime.
ExportAccounted ==
  Exported =>
    /\ \A r \in before : Wanted(r) /\ ~OnLastDay(r) => exported[r] > 0 \/ Tied(r)
    /\ \A r \in Rows : exported[r] > 0 => Wanted(r) /\ ~OnLastDay(r)

\* A row is written twice only because of a tie or of a row committed late
\* in front of it, which pushes it over a page border.
RepeatedOnlyByRace ==
  \A r \in Rows : exported[r] > 1 => Tied(r) \/ Overtaken(r)

\* A row that some run has put into Bronze stays there until a later run exports
\* the same table for a range that starts in the same year: chunk names hold
\* no more than that, and no page replaces another one of its own run.
KeptUnlessRedone ==
  \A r \in Rows :
    saved[r] > 0 =>
      \/ \E k \in DOMAIN bronze : r \in bronze[k]
      \/ \E n \in saved[r] + 1..Len(runs) :
           /\ Covers(runs[n], TableOf[r])
           /\ YearOf[runs[n].start] = YearOf[runs[saved[r]].start]

\* The paging loop ends: with rows still arriving, every export that is not
\* cut short gets to an end.
ExportEnds == (pc = "select") ~> (pc \notin {"select", "put"})
=============================================================================
