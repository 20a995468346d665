--------------------------- MODULE OrdersToBronze ---------------------------
(***************************************************************************)
(* The Spark Structured Streaming job spark_jobs/streaming/                *)
(* orders_to_bronze.py: one driver process that runs two micro-batch       *)
(* queries over the Kafka topic "orders",                                  *)
(*                                                                         *)
(*   "bronze"    appends every decodable record to the Delta table         *)
(*               s3a://bronze/orders (the delta sink),                     *)
(*   "realtime"  appends the valid records to the ClickHouse table         *)
(*               orders_realtime through JDBC in a foreachBatch callback.  *)
(*                                                                         *)
(* Each query has a checkpoint of its own: an offset log, written before a *)
(* batch runs, and a commit log, written after it.  The engine (offset     *)
(* log, commit log, Delta transaction versions, task retries) is external; *)
(* it is modelled as far as the job's options and callbacks rely on it.    *)
(*                                                                         *)
(* Abstractions: one Kafka partition; a record is its kind; offsets start  *)
(* at 1, so that "position p" means offsets 1..p are behind the query; one *)
(* boolean for the schema caches of the Python workers.                    *)
(***************************************************************************)
EXTENDS Naturals, Sequences, FiniteSets

CONSTANTS
  Queries,          \* the queries started: both in the program, one to study it alone
  Kinds,            \* the kinds of records that producers put on the topic
  MaxOffset,        \* bound: records ever produced to the topic
  MaxBatch,         \* option maxOffsetsPerTrigger
  MaxTaskFailures,  \* spark.task.maxFailures: attempts of the JDBC write task
  MaxRuns,          \* bound: submissions of the job
  MaxResets         \* bound: deletions of the checkpoint directory

\* "valid": decodes, and _validate sets is_valid; "invalid": decodes, is_valid is
\* false; "foreign": not in the Confluent wire format (too short, or magic # 0).
AllKinds == {"valid", "invalid", "foreign"}

ASSUME ConstantsAssumption ==
  /\ Queries \subseteq {"bronze", "realtime"}
  /\ Kinds \subseteq AllKinds
  /\ MaxOffset \in Nat
  /\ MaxBatch \in Nat \ {0}
  /\ MaxTaskFailures \in Nat \ {0}
  /\ MaxRuns \in Nat
  /\ MaxResets \in Nat

QueryNames == {"bronze", "realtime"}
Offsets == 1..MaxOffset
Epochs  == 1..MaxResets + 1

VARIABLES
  log,         \* the topic: sequence of record kinds, never shortened
  lo,          \* offsets 1..lo have been deleted by Kafka's retention
  registryUp,  \* does the schema registry answer?
  warm,        \* the schema is in _schema_cache of the Python workers
  status,      \* the driver: "down", "up", "stopping", "halfStopped"
  phase,       \* per query: "down", "idle", "running", "executed"
  attempt,     \* failed attempts of the JDBC write in the current batch
  epoch,       \* 1 + deletions of the checkpoint directory
  plan,        \* checkpoint, offset log: last batch planned and its range
  commit,      \* checkpoint, commit log: last batch committed
  txn,         \* Delta log: last batch applied, per query id (one per epoch)
  bronze,      \* Delta table: copies of each offset
  realtime,    \* orders_realtime: copies of each offset
  runs,        \* submissions so far
  undecoded,   \* history: offsets a query dropped for want of a schema
  swallowed    \* history: offsets of batches whose JDBC write was given up

kafka    == <<log, lo>>
registry == <<registryUp, warm>>
driver   == <<status, phase, attempt, runs>>
ckpt     == <<epoch, plan, commit>>
tables   == <<txn, bronze, realtime>>
history  == <<undecoded, swallowed>>
vars     == <<kafka, registry, driver, ckpt, tables, history>>

NoPlan == [batch |-> 0, from |-> 0, to |-> 0]

Init ==
  /\ log = <<>>
  /\ lo = 0
  /\ registryUp = TRUE
  /\ warm = FALSE
  /\ status = "down"
  /\ phase = [q \in QueryNames |-> "down"]
  /\ attempt = 0
  /\ epoch = 1
  /\ plan = [q \in QueryNames |-> NoPlan]
  /\ commit = [q \in QueryNames |-> 0]
  /\ txn = [e \in Epochs |-> 0]
  /\ bronze = [o \in Offsets |-> 0]
  /\ realtime = [o \in Offsets |-> 0]
  /\ runs = 0
  /\ undecoded = [q \in QueryNames |-> {}]
  /\ swallowed = {}

-----------------------------------------------------------------------------
(* The outside world: Kafka and the schema registry.                       *)

Produce(k) ==
  /\ Len(log) < MaxOffset
  /\ log' = Append(log, k)
  /\ UNCHANGED <<lo, registry, driver, ckpt, tables, history>>

Expire_PastEnd ==   \* mutant: retention runs past the end of the log
  /\ lo <= Len(log)
  /\ lo' = lo + 1
  /\ UNCHANGED <<log, registry, driver, ckpt, tables, history>>

\* retention.ms of the topic: the oldest record is deleted, read or not.
Expire ==
  /\ lo < Len(log)
  /\ lo' = lo + 1
  /\ UNCHANGED <<log, registry, driver, ckpt, tables, history>>

RegistryOutage ==
  /\ registryUp
  /\ registryUp' = FALSE
  /\ UNCHANGED <<kafka, warm, driver, ckpt, tables, history>>

RegistryRecovers ==
  /\ ~registryUp
  /\ registryUp' = TRUE
  /\ UNCHANGED <<kafka, warm, driver, ckpt, tables, history>>

\* An executor's Python worker is replaced: module state starts empty again.
WorkerReplaced ==
  /\ warm
  /\ warm' = FALSE
  /\ UNCHANGED <<kafka, registryUp, driver, ckpt, tables, history>>

-----------------------------------------------------------------------------
(* Evaluating the stream's plan on a batch.                                *)

Readable_EndExclusive(q) ==   \* mutant: the batch's last record is left out
  {o \in Offsets : plan[q].from < o /\ o < plan[q].to /\ lo < o}
Readable_FromStart(q) ==      \* mutant: the batch's start is ignored
  {o \in Offsets : o <= plan[q].to /\ lo < o}

\* The offsets of q's planned batch that Kafka still has.  With
\* failOnDataLoss=false the ones that expired are skipped silently.
Readable(q) ==
  {o \in Offsets : plan[q].from < o /\ o <= plan[q].to /\ lo < o}

\* The ones that are in the Confluent wire format.
Framed(q) == {o \in Readable(q) : log[o] # "foreign"}

\* The sets of offsets that the UDF may turn into NULL although they are well
\* formed: with no cached schema and no registry, every record up to the first
\* one for which the registry answers again.
DecodeFailures(S) ==
  IF warm \/ registryUp \/ S = {}
  THEN {{}}
  ELSE {L \in SUBSET S : L # {} /\ \A o \in L : \A p \in S \ L : o < p}

\* One evaluation of build_stream on q's batch in which `lost' is dropped by
\* filter(json_str IS NOT NULL).
Evaluate(q, lost) ==
  /\ lost \in DecodeFailures(Framed(q))
  /\ warm' = (warm \/ Framed(q) \ lost # {})
  /\ undecoded' = [undecoded EXCEPT ![q] = @ \cup lost]

AddCopies(table, S) ==
  [o \in Offsets |-> IF o \in S THEN table[o] + 1 ELSE table[o]]

-----------------------------------------------------------------------------
(* The driver: run() and its end.                                          *)

ResumePhase_Forgets(q) == "idle"   \* mutant: the unfinished batch is dropped

ResumePhase(q) == IF commit[q] < plan[q].batch THEN "running" ELSE "idle"

\* spark-submit (runbook, Procedure 1): both queries start from their
\* checkpoints; a batch planned but not committed is run again.
SubmitJob ==
  /\ status = "down"
  /\ runs < MaxRuns
  /\ runs' = runs + 1
  /\ status' = "up"
  /\ phase' = [q \in QueryNames |->
                 IF q \in Queries THEN ResumePhase(q) ELSE "down"]
  /\ UNCHANGED <<kafka, registry, attempt, ckpt, tables, history>>

\* The driver is killed or the machine fails: whatever was not written is gone.
Crash ==
  /\ status # "down"
  /\ status' = "down"
  /\ phase' = [q \in QueryNames |-> "down"]
  /\ attempt' = 0
  /\ warm' = FALSE
  /\ UNCHANGED <<kafka, registryUp, runs, ckpt, tables, history>>

EndsJob_FirstOnly(q) == status = "up" /\ q = "bronze"  \* mutant: waits for one query

\* awaitAnyTermination: whichever query ends first ends the wait.
EndsJob(q) == status = "up"

\* A query ends with an exception (Kafka, MinIO or Delta fail): it makes
\* awaitAnyTermination raise, and run() enters its finally block.
QueryFails(q) ==
  /\ phase[q] # "down"
  /\ phase' = [phase EXCEPT ![q] = "down"]
  /\ status' = IF EndsJob(q) THEN "stopping" ELSE status
  /\ attempt' = IF q = "realtime" THEN 0 ELSE attempt
  /\ UNCHANGED <<kafka, registry, runs, ckpt, tables, history>>

\* KeyboardInterrupt in awaitAnyTermination.
Interrupt ==
  /\ status = "up"
  /\ status' = "stopping"
  /\ UNCHANGED <<kafka, registry, phase, attempt, runs, ckpt, tables, history>>

\* finally: delta_query.stop()
StopBronze ==
  /\ status = "stopping"
  /\ status' = "halfStopped"
  /\ phase' = [phase EXCEPT !["bronze"] = "down"]
  /\ UNCHANGED <<kafka, registry, attempt, runs, ckpt, tables, history>>

\* finally: ch_query.stop(), spark.stop(), and the process ends.
StopRealtime ==
  /\ status = "halfStopped"
  /\ status' = "down"
  /\ phase' = [phase EXCEPT !["realtime"] = "down"]
  /\ attempt' = 0
  /\ warm' = FALSE
  /\ UNCHANGED <<kafka, registryUp, runs, ckpt, tables, history>>

\* runbook, Procedure 3: with the job stopped, checkpoints/orders-bronze/ is
\* deleted.  CHECKPOINT_PATH ends in "/", so CHECKPOINT_PATH + "-ch" lies inside
\* that directory and the other query's checkpoint goes with it.  The next
\* start draws a new query id.
DeleteCheckpoint ==
  /\ status = "down"
  /\ epoch <= MaxResets
  /\ epoch' = epoch + 1
  /\ plan' = [q \in QueryNames |-> NoPlan]
  /\ commit' = [q \in QueryNames |-> 0]
  /\ UNCHANGED <<kafka, registry, driver, tables, history>>

-----------------------------------------------------------------------------
(* A micro-batch: plan, run the sink, commit.                              *)

BatchStart_Earliest(q) == lo   \* mutant: startingOffsets wins over the checkpoint

\* A fresh checkpoint starts at the earliest offset (startingOffsets), any
\* other one where its last batch ended.
BatchStart(q) == IF plan[q].batch = 0 THEN lo ELSE plan[q].to

HasInput_AfterNext(q) ==   \* mutant: the newest record waits for another one
  BatchStart(q) + 1 < Len(log)

HasInput(q) == BatchStart(q) < Len(log)

\* maxOffsetsPerTrigger caps the batch.  The range is in the offset log before
\* anything is read.
PlanBatch(q) ==
  LET from == BatchStart(q)
      to   == IF from + MaxBatch < Len(log) THEN from + MaxBatch ELSE Len(log)
  IN  /\ phase[q] = "idle"
      /\ HasInput(q)
      /\ plan' = [plan EXCEPT ![q] = [batch |-> plan[q].batch + 1,
                                      from  |-> from,
                                      to    |-> to]]
      /\ phase' = [phase EXCEPT ![q] = "running"]
      /\ UNCHANGED <<kafka, registry, status, attempt, runs, epoch, commit,
                     tables, history>>

AlreadyApplied == txn[epoch] >= plan["bronze"].batch

\* The delta sink skips a batch whose number its table already has for this
\* query id; otherwise rows and number become visible in one table commit.
AppendToDelta ==
  /\ phase["bronze"] = "running"
  /\ phase' = [phase EXCEPT !["bronze"] = "executed"]
  /\ \/ /\ AlreadyApplied
        /\ UNCHANGED <<warm, tables, history>>
     \/ /\ ~AlreadyApplied
        /\ \E lost \in SUBSET Framed("bronze") :
             /\ Evaluate("bronze", lost)
             /\ bronze' = AddCopies(bronze, Framed("bronze") \ lost)
        /\ txn' = [txn EXCEPT ![epoch] = plan["bronze"].batch]
        /\ UNCHANGED <<realtime, swallowed>>
  /\ UNCHANGED <<kafka, registryUp, status, attempt, runs, ckpt>>

\* The rows that filter(is_valid) keeps in _write_to_clickhouse.
ValidRows(q, lost) == {o \in Framed(q) \ lost : log[o] = "valid"}

\* _write_to_clickhouse: the JDBC append succeeds.
WriteToClickhouse ==
  /\ phase["realtime"] = "running"
  /\ \E lost \in SUBSET Framed("realtime") :
       /\ Evaluate("realtime", lost)
       /\ realtime' = AddCopies(realtime, ValidRows("realtime", lost))
  /\ phase' = [phase EXCEPT !["realtime"] = "executed"]
  /\ attempt' = 0
  /\ UNCHANGED <<kafka, registryUp, status, runs, ckpt, txn, bronze, swallowed>>

RetriesLeft == attempt + 1 < MaxTaskFailures

\* The JDBC append fails after ClickHouse stored some of the rows.  Spark
\* retries the task; after the last attempt the exception reaches the callback,
\* which logs "skipping" and returns, so the batch counts as done.
ClickhouseWriteFails ==
  /\ phase["realtime"] = "running"
  /\ \E lost \in SUBSET Framed("realtime") :
       /\ Evaluate("realtime", lost)
       /\ \E stored \in SUBSET ValidRows("realtime", lost) :
            realtime' = AddCopies(realtime, stored)
  /\ \/ /\ RetriesLeft
        /\ attempt' = attempt + 1
        /\ UNCHANGED <<phase, swallowed>>
     \/ /\ ~RetriesLeft
        /\ attempt' = 0
        /\ phase' = [phase EXCEPT !["realtime"] = "executed"]
        /\ swallowed' = swallowed \cup Readable("realtime")
  /\ UNCHANGED <<kafka, registryUp, status, runs, ckpt, txn, bronze>>

\* Only a batch whose sink has returned is committed.
CommitReady(q) == phase[q] = "executed"

\* The engine writes the batch number to the commit log.
CommitBatch(q) ==
  /\ CommitReady(q)
  /\ commit' = [commit EXCEPT ![q] = plan[q].batch]
  /\ phase' = [phase EXCEPT ![q] = "idle"]
  /\ UNCHANGED <<kafka, registry, status, attempt, runs, epoch, plan, tables,
                 history>>

RunSink(q) ==
  \/ q = "bronze" /\ AppendToDelta
  \/ q = "realtime" /\ (WriteToClickhouse \/ ClickhouseWriteFails)

Next ==
  \/ \E k \in Kinds : Produce(k)
  \/ Expire
  \/ RegistryOutage
  \/ RegistryRecovers
  \/ WorkerReplaced
  \/ SubmitJob
  \/ Crash
  \/ Interrupt
  \/ StopBronze
  \/ StopRealtime
  \/ DeleteCheckpoint
  \/ \E q \in Queries : QueryFails(q) \/ PlanBatch(q) \/ RunSink(q) \/ CommitBatch(q)

Spec == Init /\ [][Next]_vars

\* The driver's main thread and each query's trigger thread keep running while
\* the process does; nothing obliges anybody to submit the job, to produce, or
\* the registry to recover.
Fairness ==
  /\ WF_vars(StopBronze)
  /\ WF_vars(StopRealtime)
  /\ \A q \in Queries : /\ WF_vars(PlanBatch(q))
                        /\ WF_vars(RunSink(q))
                        /\ WF_vars(CommitBatch(q))

FairSpec == Spec /\ Fairness
-----------------------------------------------------------------------------
(* Properties.                                                             *)

TypeOK ==
  /\ log \in Seq(Kinds) /\ Len(log) <= MaxOffset
  /\ lo \in 0..Len(log)
  /\ registryUp \in BOOLEAN
  /\ warm \in BOOLEAN
  /\ status \in {"down", "up", "stopping", "halfStopped"}
  /\ phase \in [QueryNames -> {"down", "idle", "running", "executed"}]
  /\ attempt \in Nat
  /\ epoch \in Epochs
  /\ plan \in [QueryNames -> [batch : Nat, from : Nat, to : Nat]]
  /\ commit \in [QueryNames -> Nat]
  /\ txn \in [Epochs -> Nat]
  /\ bronze \in [Offsets -> Nat]
  /\ realtime \in [Offsets -> Nat]
  /\ runs \in Nat
  /\ undecoded \in [QueryNames -> SUBSET Offsets]
  /\ swallowed \in SUBSET Offsets

\* How far the Bronze table reflects the topic in this epoch: the end of the
\* last planned batch once the table has its number, its start before that.
Covered ==
  IF txn[epoch] = plan["bronze"].batch THEN plan["bronze"].to
                                       ELSE plan["bronze"].from

\* The position of q that the commit log vouches for.
Committed(q) ==
  IF commit[q] = plan[q].batch THEN plan[q].to ELSE plan[q].from

\* The offset log runs ahead of the table and the table ahead of the commit
\* log, by one batch at most, whatever crashes in between: the order README
\* "Exactly-Once Semantics" relies on.
WriteAheadOrder ==
  /\ commit["bronze"] <= txn[epoch]
  /\ txn[epoch] <= plan["bronze"].batch
  /\ \A q \in QueryNames : plan[q].batch \in {commit[q], commit[q] + 1}

\* Whatever crashes, restarts and replays happen, a record is at most once in
\* Bronze for each checkpoint the job ever had (runbook, Procedure 1:
\* deleting the checkpoint is what duplicates).
BronzeAtMostOncePerEpoch == \A o \in Offsets : bronze[o] <= epoch

\* A record behind the Bronze query is in the table, unless it was not Avro,
\* its schema could not be fetched, or Kafka's retention took it: there is no
\* fourth way to lose one.
BronzeAccounted ==
  \A o \in Offsets :
    o <= Covered => \/ bronze[o] >= 1
                    \/ log[o] = "foreign"
                    \/ o \in undecoded["bronze"]
                    \/ o <= lo

\* A valid order behind the ClickHouse query is in orders_realtime, unless its
\* schema could not be fetched, retention took it, or the write of its batch
\* was given up and skipped.
RealtimeAccounted ==
  \A o \in Offsets :
    o <= Committed("realtime") /\ log[o] = "valid"
      => \/ realtime[o] >= 1
         \/ o \in undecoded["realtime"]
         \/ o \in swallowed
         \/ o <= lo

\* orders_realtime has valid orders only, and an order is there at most once
\* per attempt that task retries and submissions of the job allow.
RealtimeCopiesBounded ==
  \A o \in Offsets :
    realtime[o] <= IF o <= Len(log) /\ log[o] = "valid"
                   THEN runs * MaxTaskFailures ELSE 0

\* A planned batch that is not committed keeps its number and range over any
\* crash or restart, and the next one starts where it ended: only then is the
\* batch number a sound key for skipping a replayed batch.
PlansNextOnly ==
  \A q \in QueryNames :
    plan'[q] # plan[q] =>
      \/ epoch' # epoch
      \/ /\ commit[q] = plan[q].batch
         /\ plan'[q].batch = plan[q].batch + 1
         /\ plan[q].batch > 0 => plan'[q].from = plan[q].to

ReplaySameRange == [][PlansNextOnly]_vars

\* Bronze never falls back behind a record it has passed, except when the
\* checkpoint is deleted.
CoveredMonotone == [][epoch' = epoch => Covered <= Covered']_vars

\* The Bronze side implements OrderedIngest: batches, write-ahead logs,
\* crashes and replays are invisible in the table.
Ingest == INSTANCE OrderedIngest WITH
            MaxGeneration <- MaxResets + 1,
            end <- Len(log), position <- Covered,
            copies <- bronze, generation <- epoch

ImplementsOrderedIngest == Ingest!IngestSpec

\* One query dying never leaves the other one running alone: run() waits for
\* any termination and stops everything.
NoHalfJob ==
  (status # "down" /\ \E q \in Queries : phase[q] = "down") ~> (status = "down")

\* While the job stays up, every record produced gets behind both queries or is
\* taken by retention, also with the registry or ClickHouse failing: nothing blocks a query.
RunningJobCatchesUp ==
  <>[](status = "up") =>
    \A q \in Queries : \A o \in Offsets :
      (Len(log) >= o) ~> (Committed(q) >= o \/ lo >= o)

\* README.md "Exactly-Once Semantics": "no records are lost or duplicated",
\* for the Avro records Kafka still has.
NoRecordLost ==
  \A o \in Offsets :
    o <= Covered /\ lo < o /\ log[o] # "foreign" => bronze[o] >= 1
=============================================================================
