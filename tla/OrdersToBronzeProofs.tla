------------------------ MODULE OrdersToBronzeProofs ------------------------
(***************************************************************************)
(* Proofs about OrdersToBronze, for every value of its constants.          *)
(*                                                                         *)
(* The safety properties of the Bronze side rest on one inductive          *)
(* invariant, BronzeInv: what the phase of a query says about its two      *)
(* logs and the table, which numbers the table can have, and how often an  *)
(* offset on either side of Covered can be in it.                          *)
(***************************************************************************)
EXTENDS OrdersToBronze, Integers, TLAPS

\* A driver that is down has no live query, and one half-way through its finally
\* block has no live delta query; a query that waits has committed
\* its batch; one that runs or has run its sink has a batch to commit.
PhaseInv ==
  /\ status = "down" => \A q \in QueryNames : phase[q] = "down"
  /\ status = "halfStopped" => phase["bronze"] = "down"
  /\ \A q \in QueryNames :
       /\ phase[q] = "idle" => commit[q] = plan[q].batch
       /\ phase[q] \in {"running", "executed"} => commit[q] + 1 = plan[q].batch
  /\ phase["bronze"] = "executed" => txn[epoch] = plan["bronze"].batch

\* Ranges lie within the topic, and a checkpoint without a batch is empty.
RangeInv ==
  \A q \in QueryNames :
    /\ plan[q].from <= plan[q].to
    /\ plan[q].to <= Len(log)
    /\ plan[q].batch = 0 => plan[q].to = 0

\* The table has no number yet for a query id that is still to be drawn.
FreshTxn == \A e \in Epochs : e > epoch => txn[e] = 0

\* In front of Covered, the current epoch has added nothing.
BronzeOnce == \A o \in Offsets :
  /\ bronze[o] <= epoch
  /\ o > Covered => bronze[o] <= epoch - 1

BronzeInv ==
  /\ WriteAheadOrder
  /\ PhaseInv
  /\ RangeInv
  /\ FreshTxn
  /\ BronzeOnce
  /\ BronzeAccounted
-----------------------------------------------------------------------------
(* Type correctness.                                                       *)

\* AddCopies keeps a table a table.
LEMMA AddCopiesType ==
  ASSUME NEW table \in [Offsets -> Nat], NEW S
  PROVE  AddCopies(table, S) \in [Offsets -> Nat]
BY DEF AddCopies

\* An evaluation of the stream's plan changes warm and undecoded within types.
LEMMA EvaluateType ==
  ASSUME warm \in BOOLEAN, undecoded \in [QueryNames -> SUBSET Offsets],
         NEW q \in QueryNames, NEW lost \in SUBSET Framed(q), Evaluate(q, lost)
  PROVE  undecoded' \in [QueryNames -> SUBSET Offsets] /\ warm' \in BOOLEAN
<1>1. lost \subseteq Offsets
  BY DEF Framed, Readable
<1>2. undecoded[q] \cup lost \in SUBSET Offsets
  BY <1>1
<1> QED
  BY <1>2, Zenon DEF Evaluate

\* The variables have their types in every reachable state; in particular the
\* log stays within its bound and retention never overtakes its end.
THEOREM TypeCorrect == Spec => []TypeOK
<1>1. Init => TypeOK
  <2> SUFFICES ASSUME Init PROVE TypeOK
    OBVIOUS
  <2> USE DEF Init
  <2>1. log \in Seq(Kinds) /\ Len(log) = 0 /\ lo \in 0..Len(log)
    OBVIOUS
  <2>2. plan \in [QueryNames -> [batch : Nat, from : Nat, to : Nat]]
    BY DEF NoPlan
  <2>3. 1 \in Epochs
    BY ConstantsAssumption DEF Epochs
  <2>4. bronze \in [Offsets -> Nat] /\ realtime \in [Offsets -> Nat]
    OBVIOUS
  <2>5. /\ phase \in [QueryNames -> {"down", "idle", "running", "executed"}]
        /\ commit \in [QueryNames -> Nat]
        /\ txn \in [Epochs -> Nat]
        /\ undecoded \in [QueryNames -> SUBSET Offsets]
    OBVIOUS
  <2>6. /\ registryUp \in BOOLEAN /\ warm \in BOOLEAN
        /\ status \in {"down", "up", "stopping", "halfStopped"}
        /\ attempt \in Nat /\ runs \in Nat /\ swallowed \in SUBSET Offsets
    OBVIOUS
  <2> HIDE DEF Init
  <2>7. epoch \in Epochs
    BY <2>3 DEF Init
  <2>8. Len(log) <= MaxOffset
    BY <2>1, ConstantsAssumption
  <2> QED
    BY <2>1, <2>2, <2>4, <2>5, <2>6, <2>7, <2>8 DEF TypeOK
<1>2. TypeOK /\ [Next]_vars => TypeOK'
  <2> SUFFICES ASSUME TypeOK, [Next]_vars PROVE TypeOK'
    OBVIOUS
  <2>0. /\ \A q \in Queries : q \in QueryNames
        /\ "bronze" \in QueryNames /\ "realtime" \in QueryNames
    BY ConstantsAssumption DEF QueryNames
  <2> USE <2>0 DEF TypeOK, kafka, registry, driver, ckpt, tables, history
  <2>1. ASSUME NEW k \in Kinds, Produce(k) PROVE TypeOK'
    <3>1. log' \in Seq(Kinds) /\ Len(log') = Len(log) + 1
      BY <2>1 DEF Produce
    <3>2. Len(log') <= MaxOffset /\ lo \in 0..Len(log')
      BY <2>1, <3>1, ConstantsAssumption DEF Produce
    <3> QED
      BY <2>1, <3>1, <3>2 DEF Produce
  <2>2. ASSUME Expire PROVE TypeOK'
    BY <2>2 DEF Expire
  <2>3. CASE RegistryOutage \/ RegistryRecovers \/ WorkerReplaced
    <3>1. /\ registryUp' \in BOOLEAN /\ warm' \in BOOLEAN
          /\ UNCHANGED <<kafka, driver, ckpt, tables, history>>
      BY <2>3 DEF RegistryOutage, RegistryRecovers, WorkerReplaced
    <3> QED
      BY <3>1
  <2>4. ASSUME SubmitJob PROVE TypeOK'
    BY <2>4 DEF SubmitJob, ResumePhase
  <2>5. CASE Crash \/ Interrupt \/ StopBronze \/ StopRealtime
    <3>1. ASSUME Crash PROVE TypeOK'
      BY <3>1 DEF Crash
    <3>2. ASSUME Interrupt PROVE TypeOK'
      BY <3>2 DEF Interrupt
    <3>3. ASSUME StopBronze PROVE TypeOK'
      BY <3>3 DEF StopBronze
    <3>4. ASSUME StopRealtime PROVE TypeOK'
      BY <3>4 DEF StopRealtime
    <3> QED
      BY <2>5, <3>1, <3>2, <3>3, <3>4
  <2>6. ASSUME DeleteCheckpoint PROVE TypeOK'
    <3>1. NoPlan \in [batch : Nat, from : Nat, to : Nat]
      BY DEF NoPlan
    <3>2. plan' \in [QueryNames -> [batch : Nat, from : Nat, to : Nat]]
      BY <2>6, <3>1 DEF DeleteCheckpoint
    <3>3. epoch' \in Epochs
      BY <2>6, ConstantsAssumption DEF DeleteCheckpoint, Epochs
    <3> QED
      BY <2>6, <3>2, <3>3 DEF DeleteCheckpoint
  <2>7. ASSUME NEW q \in Queries, QueryFails(q) PROVE TypeOK'
    BY <2>7 DEF QueryFails
  <2>8. ASSUME NEW q \in Queries, PlanBatch(q) PROVE TypeOK'
    <3> DEFINE from == BatchStart(q)
               to   == IF from + MaxBatch < Len(log) THEN from + MaxBatch
                                                     ELSE Len(log)
               new  == [batch |-> plan[q].batch + 1, from |-> from, to |-> to]
    <3>1. q \in QueryNames /\ plan[q] \in [batch : Nat, from : Nat, to : Nat]
      OBVIOUS
    <3>2. from \in Nat /\ Len(log) \in Nat
      BY <3>1 DEF BatchStart
    <3>3. to \in Nat
      BY <3>2, ConstantsAssumption
    <3>4. new \in [batch : Nat, from : Nat, to : Nat]
      BY <3>1, <3>2, <3>3
    <3>5. plan' = [plan EXCEPT ![q] = new]
      BY <2>8 DEF PlanBatch
    <3> HIDE DEF new
    <3>6. plan' \in [QueryNames -> [batch : Nat, from : Nat, to : Nat]]
      BY <3>4, <3>5
    <3> QED
      BY <2>8, <3>6 DEF PlanBatch
  <2>9. ASSUME AppendToDelta PROVE TypeOK'
    <3>1. CASE AlreadyApplied
      BY <2>9, <3>1 DEF AppendToDelta
    <3>2. CASE ~AlreadyApplied
      <4>1. PICK lost \in SUBSET Framed("bronze") :
              /\ Evaluate("bronze", lost)
              /\ bronze' = AddCopies(bronze, Framed("bronze") \ lost)
        BY <2>9, <3>2 DEF AppendToDelta
      <4>2. bronze' \in [Offsets -> Nat]
        BY <4>1, AddCopiesType
      <4>3. undecoded' \in [QueryNames -> SUBSET Offsets] /\ warm' \in BOOLEAN
        BY <4>1, EvaluateType
      <4> QED
        BY <2>9, <3>2, <4>2, <4>3 DEF AppendToDelta
    <3> QED
      BY <3>1, <3>2
  <2>10. ASSUME WriteToClickhouse PROVE TypeOK'
    <3>1. PICK lost \in SUBSET Framed("realtime") :
            /\ Evaluate("realtime", lost)
            /\ realtime' = AddCopies(realtime, ValidRows("realtime", lost))
      BY <2>10 DEF WriteToClickhouse
    <3>2. realtime' \in [Offsets -> Nat]
      BY <3>1, AddCopiesType
    <3>3. undecoded' \in [QueryNames -> SUBSET Offsets] /\ warm' \in BOOLEAN
      BY <3>1, EvaluateType
    <3> QED
      BY <2>10, <3>2, <3>3 DEF WriteToClickhouse
  <2>11. ASSUME ClickhouseWriteFails PROVE TypeOK'
    <3>1. PICK lost \in SUBSET Framed("realtime") :
            /\ Evaluate("realtime", lost)
            /\ \E stored \in SUBSET ValidRows("realtime", lost) :
                 realtime' = AddCopies(realtime, stored)
      BY <2>11 DEF ClickhouseWriteFails
    <3>2. realtime' \in [Offsets -> Nat]
      <4>1. PICK stored : realtime' = AddCopies(realtime, stored)
        BY <3>1
      <4> QED
        BY <4>1, AddCopiesType
    <3>3. undecoded' \in [QueryNames -> SUBSET Offsets] /\ warm' \in BOOLEAN
      BY <3>1, EvaluateType
    <3>4. Readable("realtime") \subseteq Offsets
      BY DEF Readable
    <3>5. attempt' \in Nat
      BY <2>11 DEF ClickhouseWriteFails
    <3>6. phase' \in [QueryNames -> {"down", "idle", "running", "executed"}]
      BY <2>11 DEF ClickhouseWriteFails
    <3>7. swallowed' \in SUBSET Offsets
      BY <2>11, <3>4 DEF ClickhouseWriteFails
    <3> QED
      BY <2>11, <3>2, <3>3, <3>5, <3>6, <3>7 DEF ClickhouseWriteFails
  <2>12. ASSUME NEW q \in Queries, CommitBatch(q) PROVE TypeOK'
    BY <2>12 DEF CommitBatch
  <2>13. CASE UNCHANGED vars
    BY <2>13 DEF vars
  <2> QED
    BY <2>1, <2>2, <2>3, <2>4, <2>5, <2>6, <2>7, <2>8, <2>9, <2>10, <2>11,
       <2>12, <2>13 DEF Next, RunSink
<1> QED
  BY <1>1, <1>2, PTL DEF Spec
-----------------------------------------------------------------------------
(* The inductive invariant of the Bronze side.                             *)

\* What a step must leave alone to disturb nothing but PhaseInv.
DataVars == <<log, lo, epoch, plan, commit, txn, bronze, undecoded["bronze"]>>

\* Every conjunct of BronzeInv but PhaseInv is about DataVars only.
LEMMA DataFrame ==
  ASSUME BronzeInv, UNCHANGED DataVars
  PROVE  /\ WriteAheadOrder' /\ RangeInv' /\ FreshTxn'
         /\ BronzeOnce' /\ BronzeAccounted'
<1> USE DEF DataVars, BronzeInv
<1>1. Covered' = Covered
  BY DEF Covered
<1>2. WriteAheadOrder' /\ RangeInv' /\ FreshTxn'
  BY DEF WriteAheadOrder, RangeInv, FreshTxn
<1>3. BronzeOnce' /\ BronzeAccounted'
  BY <1>1 DEF BronzeOnce, BronzeAccounted
<1> QED
  BY <1>2, <1>3

\* The query names, as facts that keep QueryNames unexpanded.
LEMMA QueriesAreNamed ==
  /\ \A q \in Queries : q \in QueryNames
  /\ "bronze" \in QueryNames
  /\ "realtime" \in QueryNames
  /\ QueryNames = {"bronze", "realtime"}
BY ConstantsAssumption DEF QueryNames

\* The job that was never submitted satisfies the inductive invariant.
LEMMA BronzeInit == Init => BronzeInv
<1> SUFFICES ASSUME Init PROVE BronzeInv
  OBVIOUS
<1>1. 1 \in Epochs /\ "bronze" \in QueryNames
  BY ConstantsAssumption DEF Epochs, QueryNames
<1>2. WriteAheadOrder /\ PhaseInv /\ RangeInv /\ FreshTxn
  BY <1>1 DEF Init, WriteAheadOrder, PhaseInv, RangeInv, FreshTxn, NoPlan
<1>3. Covered = 0
  BY <1>1 DEF Init, Covered, NoPlan
<1>4. BronzeOnce /\ BronzeAccounted
  BY <1>3 DEF Init, BronzeOnce, BronzeAccounted, Offsets
<1> QED
  BY <1>2, <1>4 DEF BronzeInv

\* Kafka: the log grows at its end and shrinks at its front.
LEMMA KafkaPreserves ==
  ASSUME TypeOK, BronzeInv, (\E k \in Kinds : Produce(k)) \/ Expire
  PROVE  BronzeInv'
<1>1. /\ Len(log) <= Len(log') /\ lo <= lo' /\ lo' \in Nat
      /\ Len(log) \in Nat /\ Len(log') \in Nat
      /\ \A o \in 1..Len(log) : log'[o] = log[o]
  BY DEF TypeOK, Produce, Expire
<1>2. UNCHANGED <<driver, ckpt, tables, history>>
  BY DEF Produce, Expire
<1>3. WriteAheadOrder' /\ PhaseInv' /\ FreshTxn' /\ BronzeOnce' /\ Covered' = Covered
  BY <1>2 DEF BronzeInv, WriteAheadOrder, PhaseInv, FreshTxn, BronzeOnce, Covered,
       driver, ckpt, tables, history
<1>4. RangeInv'
  BY <1>1, <1>2 DEF BronzeInv, TypeOK, RangeInv, ckpt
<1>5. Covered \in Nat /\ Covered <= Len(log)
  BY <1>1, QueriesAreNamed DEF BronzeInv, RangeInv, TypeOK, Covered
<1>6. BronzeAccounted'
  <2> SUFFICES ASSUME NEW o \in Offsets, o <= Covered
               PROVE  \/ bronze[o] >= 1 \/ log'[o] = "foreign"
                      \/ o \in undecoded["bronze"] \/ o <= lo'
    BY <1>2, <1>3 DEF BronzeAccounted, tables, history
  <2>1. o \in 1..Len(log) /\ lo \in Nat
    BY <1>1, <1>5 DEF Offsets, TypeOK
  <2>2. \/ bronze[o] >= 1 \/ log[o] = "foreign"
        \/ o \in undecoded["bronze"] \/ o <= lo
    BY DEF BronzeInv, BronzeAccounted
  <2> QED
    BY <1>1, <2>1, <2>2
<1> QED
  BY <1>3, <1>4, <1>6 DEF BronzeInv

\* The driver's life: starting, stopping and dying touch phases only.
LEMMA DriverPreserves ==
  ASSUME TypeOK, BronzeInv,
         \/ RegistryOutage \/ RegistryRecovers \/ WorkerReplaced
         \/ SubmitJob \/ Crash \/ Interrupt \/ StopBronze \/ StopRealtime
         \/ \E q \in Queries : QueryFails(q)
  PROVE  BronzeInv'
<1>1. UNCHANGED DataVars
  BY DEF DataVars, kafka, ckpt, tables, history, RegistryOutage, RegistryRecovers,
       WorkerReplaced, SubmitJob, Crash, Interrupt, StopBronze, StopRealtime, QueryFails
<1>2. UNCHANGED <<epoch, plan, commit, txn>>
  BY <1>1 DEF DataVars
<1>3. PhaseInv'
  <2> USE <1>2, QueriesAreNamed DEF BronzeInv, PhaseInv, TypeOK
  <2>1. CASE RegistryOutage \/ RegistryRecovers \/ WorkerReplaced
    BY <2>1 DEF RegistryOutage, RegistryRecovers, WorkerReplaced, driver
  <2>2. CASE SubmitJob
    BY <2>2 DEF SubmitJob, ResumePhase, WriteAheadOrder
  <2>3. CASE Crash
    BY <2>3 DEF Crash
  <2>4. CASE Interrupt
    BY <2>4 DEF Interrupt
  <2>5. CASE StopBronze
    BY <2>5 DEF StopBronze
  <2>6. CASE StopRealtime
    BY <2>6 DEF StopRealtime
  <2>7. ASSUME NEW q \in Queries, QueryFails(q) PROVE PhaseInv'
    <3>1. /\ phase' = [phase EXCEPT ![q] = "down"]
          /\ status' # "down"
          /\ status' = "halfStopped" => status = "halfStopped"
      BY <2>7 DEF QueryFails, EndsJob
    <3> QED
      BY <3>1
  <2> HIDE DEF BronzeInv, PhaseInv, TypeOK
  <2> QED
    BY <2>1, <2>2, <2>3, <2>4, <2>5, <2>6, <2>7
<1> QED
  BY <1>1, <1>3, DataFrame DEF BronzeInv

\* Deleting the checkpoint opens an epoch in which nothing is covered.
LEMMA DeletePreserves ==
  ASSUME TypeOK, BronzeInv, DeleteCheckpoint
  PROVE  BronzeInv'
<1> USE QueriesAreNamed DEF TypeOK, BronzeInv, DeleteCheckpoint, NoPlan
<1>1. epoch' \in Epochs /\ epoch' = epoch + 1 /\ epoch \in Nat
  BY ConstantsAssumption DEF Epochs
<1>2. txn'[epoch'] = 0 /\ FreshTxn' /\ UNCHANGED <<bronze, txn, log, lo, status, phase>>
  BY <1>1 DEF FreshTxn, kafka, driver, tables, Epochs
<1>3. \A q \in QueryNames : commit'[q] = 0 /\ plan'[q].batch = 0
                            /\ plan'[q].from = 0 /\ plan'[q].to = 0
  OBVIOUS
<1>4. Covered' = 0
  BY <1>2, <1>3 DEF Covered
<1>5. WriteAheadOrder'
  BY <1>2, <1>3 DEF WriteAheadOrder
<1>6. PhaseInv'
  BY <1>2, <1>3 DEF PhaseInv
<1>7. RangeInv'
  BY <1>2, <1>3 DEF RangeInv
<1> HIDE DEF DeleteCheckpoint, TypeOK, BronzeInv
<1>8. \A o \in Offsets : bronze[o] \in Nat /\ bronze[o] <= epoch /\ o > 0
  BY DEF BronzeInv, BronzeOnce, Offsets, TypeOK
<1>9. BronzeOnce'
  BY <1>1, <1>2, <1>8 DEF BronzeOnce
<1>10. BronzeAccounted'
  BY <1>4, <1>8 DEF BronzeAccounted, Offsets
<1> QED
  BY <1>2, <1>5, <1>6, <1>7, <1>9, <1>10 DEF BronzeInv

\* Planning writes the range of the next batch; Covered moves only over what
\* retention took before a fresh checkpoint began.
LEMMA PlanPreserves ==
  ASSUME TypeOK, BronzeInv, NEW q \in Queries, PlanBatch(q)
  PROVE  BronzeInv'
<1> DEFINE from == BatchStart(q)
           to   == IF from + MaxBatch < Len(log) THEN from + MaxBatch ELSE Len(log)
<1>1. /\ q \in QueryNames
      /\ plan[q] \in [batch : Nat, from : Nat, to : Nat]
      /\ Len(log) \in Nat /\ lo \in Nat /\ MaxBatch \in Nat
      /\ commit[q] \in Nat
  BY QueriesAreNamed, ConstantsAssumption DEF TypeOK
<1>2. /\ plan' = [plan EXCEPT ![q] = [batch |-> plan[q].batch + 1,
                                     from |-> from, to |-> to]]
      /\ phase' = [phase EXCEPT ![q] = "running"]
      /\ phase[q] = "idle" /\ from < Len(log)
      /\ UNCHANGED <<kafka, registry, status, epoch, commit, tables, history>>
  BY DEF PlanBatch, HasInput
<1>3. from \in Nat /\ to \in Nat /\ from <= to /\ to <= Len(log)
  BY <1>1, <1>2 DEF BatchStart
<1> HIDE DEF from, to
<1>4. /\ plan'[q].batch = plan[q].batch + 1 /\ plan'[q].from = from /\ plan'[q].to = to
      /\ \A r \in QueryNames : r # q => plan'[r] = plan[r]
  BY <1>1, <1>2 DEF TypeOK
<1>5. commit[q] = plan[q].batch /\ status # "down"
  BY <1>1, <1>2 DEF BronzeInv, PhaseInv
<1>6. UNCHANGED <<log, lo, epoch, commit, txn, bronze, undecoded, status>>
  BY <1>2 DEF kafka, tables, history
<1>7. WriteAheadOrder' /\ PhaseInv' /\ RangeInv' /\ FreshTxn'
  <2> USE <1>1, <1>3, <1>4, <1>5, <1>6, QueriesAreNamed DEF BronzeInv, TypeOK
  <2>1. WriteAheadOrder'
    BY DEF WriteAheadOrder
  <2>2. PhaseInv'
    BY <1>2 DEF PhaseInv
  <2>3. RangeInv' /\ FreshTxn'
    BY DEF RangeInv, FreshTxn
  <2> QED
    BY <2>1, <2>2, <2>3
<1>8. BronzeOnce' /\ BronzeAccounted'
  <2>1. CASE q # "bronze"
    <3>1. Covered' = Covered
      BY <2>1, <1>4, <1>6, QueriesAreNamed DEF Covered
    <3> QED
      BY <3>1, <1>6 DEF BronzeInv, BronzeOnce, BronzeAccounted
  <2>2. CASE q = "bronze"
    <3>1. txn[epoch] = plan["bronze"].batch /\ txn[epoch] \in Nat
      BY <2>2, <1>1, <1>5 DEF BronzeInv, WriteAheadOrder, TypeOK
    <3>2. Covered' = from /\ Covered = plan["bronze"].to
      BY <2>2, <3>1, <1>1, <1>4, <1>6 DEF Covered
    <3>3. Covered <= from /\ (from = Covered \/ from = lo)
      BY <2>2, <3>2, <1>1 DEF BatchStart, from, BronzeInv, RangeInv
    <3>4. Covered \in Nat
      BY <2>2, <3>2, <1>1
    <3>5. BronzeOnce'
      BY <1>3, <1>6, <3>2, <3>3, <3>4 DEF BronzeInv, BronzeOnce, Offsets
    <3>6. BronzeAccounted'
      BY <1>3, <1>6, <3>2, <3>3, <3>4 DEF BronzeInv, BronzeAccounted, Offsets
    <3> QED
      BY <3>5, <3>6
  <2> QED
    BY <2>1, <2>2
<1> QED
  BY <1>7, <1>8 DEF BronzeInv

\* The delta sink: the batch's rows and its number enter the table together.
LEMMA AppendPreserves ==
  ASSUME TypeOK, BronzeInv, AppendToDelta
  PROVE  BronzeInv'
<1>1. /\ phase["bronze"] = "running"
      /\ phase' = [phase EXCEPT !["bronze"] = "executed"]
      /\ UNCHANGED <<log, lo, status, epoch, plan, commit>>
  BY DEF AppendToDelta, kafka, ckpt
<1>2. /\ epoch \in Epochs /\ epoch \in Nat
      /\ txn[epoch] \in Nat /\ commit["bronze"] \in Nat
      /\ plan["bronze"] \in [batch : Nat, from : Nat, to : Nat]
  BY QueriesAreNamed, ConstantsAssumption DEF TypeOK, Epochs
<1>3. commit["bronze"] + 1 = plan["bronze"].batch
  BY <1>1, QueriesAreNamed DEF BronzeInv, PhaseInv
<1>4. commit["bronze"] <= txn[epoch] /\ txn[epoch] <= plan["bronze"].batch
  BY DEF BronzeInv, WriteAheadOrder
<1>5. CASE AlreadyApplied
  <2>1. UNCHANGED tables /\ UNCHANGED history
    BY <1>5 DEF AppendToDelta
  <2>2. UNCHANGED DataVars
    BY <1>1, <2>1 DEF DataVars, tables, history
  <2>3. txn[epoch] = plan["bronze"].batch
    BY <1>2, <1>4, <1>5 DEF AlreadyApplied
  <2>4. PhaseInv'
    BY <1>1, <2>2, <2>3, QueriesAreNamed DEF DataVars, BronzeInv, PhaseInv, TypeOK
  <2> QED
    BY <2>2, <2>4, DataFrame DEF BronzeInv
<1>6. CASE ~AlreadyApplied
  <2>1. PICK lost \in SUBSET Framed("bronze") :
          /\ Evaluate("bronze", lost)
          /\ bronze' = AddCopies(bronze, Framed("bronze") \ lost)
    BY <1>6 DEF AppendToDelta
  <2>2. txn' = [txn EXCEPT ![epoch] = plan["bronze"].batch]
    BY <1>6 DEF AppendToDelta
  <2>3. txn[epoch] < plan["bronze"].batch
    BY <1>2, <1>6 DEF AlreadyApplied
  <2>4. undecoded'["bronze"] = undecoded["bronze"] \cup lost
    BY <2>1, QueriesAreNamed DEF Evaluate, TypeOK
  <2>5. txn'[epoch] = plan["bronze"].batch
    BY <1>2, <2>2 DEF TypeOK
  <2>6. Covered = plan["bronze"].from /\ Covered' = plan["bronze"].to
    BY <1>1, <1>2, <2>3, <2>5 DEF Covered
  <2>7. WriteAheadOrder'
    BY <1>1, <1>2, <1>3, <2>5 DEF BronzeInv, WriteAheadOrder
  <2>8. PhaseInv'
    BY <1>1, <2>5, QueriesAreNamed DEF BronzeInv, PhaseInv, TypeOK
  <2>9. RangeInv'
    BY <1>1 DEF BronzeInv, RangeInv
  <2>10. FreshTxn'
    BY <1>1, <1>2, <2>2 DEF BronzeInv, FreshTxn, TypeOK, Epochs
  <2>11. plan["bronze"].from <= plan["bronze"].to
    BY QueriesAreNamed DEF BronzeInv, RangeInv
  <2>12. \A o \in Offsets :
           o \in Framed("bronze") <=> /\ plan["bronze"].from < o
                                      /\ o <= plan["bronze"].to
                                      /\ lo < o /\ log[o] # "foreign"
    BY DEF Framed, Readable
  <2>13. \A o \in Offsets :
           bronze'[o] = IF o \in Framed("bronze") \ lost THEN bronze[o] + 1 ELSE bronze[o]
    BY <2>1 DEF AddCopies
  <2>14. \A o \in Offsets : o \in Nat /\ bronze[o] \in Nat
    <3>1. \A o \in Offsets : bronze[o] \in Nat
      BY DEF TypeOK
    <3> QED
      BY <3>1, ConstantsAssumption DEF Offsets
  <2>15. BronzeOnce'
    BY <1>1, <1>2, <2>6, <2>11, <2>12, <2>13, <2>14 DEF BronzeInv, BronzeOnce
  <2>16. BronzeAccounted'
    <3> SUFFICES ASSUME NEW o \in Offsets, o <= plan["bronze"].to
                 PROVE  \/ bronze'[o] >= 1 \/ log[o] = "foreign"
                        \/ o \in undecoded'["bronze"] \/ o <= lo
      BY <1>1, <2>6 DEF BronzeAccounted
    <3>1. CASE o <= plan["bronze"].from
      <4>1. \/ bronze[o] >= 1 \/ log[o] = "foreign"
            \/ o \in undecoded["bronze"] \/ o <= lo
        BY <2>6, <3>1 DEF BronzeInv, BronzeAccounted
      <4> QED
        BY <4>1, <2>4, <2>13, <2>14
    <3>2. CASE plan["bronze"].from < o
      <4>1. lo \in Nat
        BY DEF TypeOK
      <4> QED
        BY <3>2, <4>1, <2>4, <2>12, <2>13, <2>14
    <3> QED
      BY <1>2, <2>14, <3>1, <3>2
  <2> QED
    BY <2>7, <2>8, <2>9, <2>10, <2>15, <2>16 DEF BronzeInv
<1> QED
  BY <1>5, <1>6

\* The ClickHouse side leaves the Bronze side's data alone.
LEMMA ClickhousePreserves ==
  ASSUME TypeOK, BronzeInv, WriteToClickhouse \/ ClickhouseWriteFails
  PROVE  BronzeInv'
<1>1. /\ phase["realtime"] = "running"
      /\ \/ phase' = phase
         \/ phase' = [phase EXCEPT !["realtime"] = "executed"]
      /\ UNCHANGED <<kafka, status, ckpt, txn, bronze>>
  BY DEF WriteToClickhouse, ClickhouseWriteFails
<1>2. undecoded'["bronze"] = undecoded["bronze"]
  BY QueriesAreNamed DEF WriteToClickhouse, ClickhouseWriteFails, Evaluate, TypeOK
<1>3. UNCHANGED DataVars /\ status' = status
  BY <1>1, <1>2 DEF DataVars, kafka, ckpt
<1>4. PhaseInv'
  BY <1>1, <1>3, QueriesAreNamed DEF DataVars, BronzeInv, PhaseInv, TypeOK
<1> QED
  BY <1>3, <1>4, DataFrame DEF BronzeInv

\* Committing closes the gap between the two logs.
LEMMA CommitPreserves ==
  ASSUME TypeOK, BronzeInv, NEW q \in Queries, CommitBatch(q)
  PROVE  BronzeInv'
<1>1. /\ phase[q] = "executed"
      /\ commit' = [commit EXCEPT ![q] = plan[q].batch]
      /\ phase' = [phase EXCEPT ![q] = "idle"]
      /\ UNCHANGED <<log, lo, status, epoch, plan, txn, bronze, undecoded>>
  BY DEF CommitBatch, CommitReady, kafka, tables, history
<1>2. q \in QueryNames /\ plan[q].batch \in Nat
  BY QueriesAreNamed DEF TypeOK
<1>3. WriteAheadOrder'
  BY <1>1, <1>2, QueriesAreNamed DEF BronzeInv, WriteAheadOrder, PhaseInv, TypeOK
<1>4. PhaseInv'
  BY <1>1, <1>2, QueriesAreNamed DEF BronzeInv, PhaseInv, TypeOK
<1>5. RangeInv' /\ FreshTxn' /\ Covered' = Covered
  BY <1>1 DEF BronzeInv, RangeInv, FreshTxn, Covered
<1>6. BronzeOnce' /\ BronzeAccounted'
  BY <1>1, <1>5 DEF BronzeInv, BronzeOnce, BronzeAccounted
<1> QED
  BY <1>3, <1>4, <1>5, <1>6 DEF BronzeInv

\* The inductive invariant holds: no action of Kafka, of the driver or of either
\* query breaks the correspondence of offset log, Delta log and commit log.
THEOREM BronzeInvariant == Spec => []BronzeInv
<1>1. TypeOK /\ BronzeInv /\ [Next]_vars => BronzeInv'
  <2> SUFFICES ASSUME TypeOK, BronzeInv, [Next]_vars PROVE BronzeInv'
    OBVIOUS
  <2>1. CASE UNCHANGED vars
    <3>1. UNCHANGED DataVars /\ UNCHANGED <<status, phase, epoch, plan, commit, txn>>
      BY <2>1 DEF vars, DataVars, kafka, driver, ckpt, tables, history
    <3>2. PhaseInv'
      BY <3>1 DEF BronzeInv, PhaseInv
    <3> QED
      BY <3>1, <3>2, DataFrame DEF BronzeInv
  <2>2. CASE Next
    BY <2>2, KafkaPreserves, DriverPreserves, DeletePreserves, PlanPreserves,
       AppendPreserves, ClickhousePreserves, CommitPreserves DEF Next, RunSink
  <2> QED
    BY <2>1, <2>2
<1> QED
  BY <1>1, BronzeInit, TypeCorrect, PTL DEF Spec

\* Whatever crashes, restarts and replays happen: offset log, then table, then
\* commit log, one batch apart at most.
THEOREM WriteAhead == Spec => []WriteAheadOrder
<1>1. BronzeInv => WriteAheadOrder
  BY DEF BronzeInv
<1> QED
  BY <1>1, BronzeInvariant, PTL

\* Bronze has a record at most once per checkpoint the job ever had.
THEOREM AtMostOncePerEpoch == Spec => []BronzeAtMostOncePerEpoch
<1>1. BronzeInv => BronzeAtMostOncePerEpoch
  BY DEF BronzeInv, BronzeOnce, BronzeAtMostOncePerEpoch
<1> QED
  BY <1>1, BronzeInvariant, PTL

\* Non-Avro bytes, a schema that could not be fetched and Kafka's retention are
\* the only ways for a record behind the Bronze query not to be in the table.
THEOREM AllRecordsAccounted == Spec => []BronzeAccounted
<1>1. BronzeInv => BronzeAccounted
  BY DEF BronzeInv
<1> QED
  BY <1>1, BronzeInvariant, PTL

-----------------------------------------------------------------------------
(* Steps: replay, progress and refinement.                                 *)

\* A planned batch keeps its number and range until it is committed.
THEOREM ReplayKeepsRange == Spec => ReplaySameRange
<1>1. TypeOK /\ BronzeInv /\ [Next]_vars => [PlansNextOnly]_vars
  <2> SUFFICES ASSUME TypeOK, BronzeInv, Next,
                      NEW q \in QueryNames, plan'[q] # plan[q], epoch' = epoch
               PROVE  /\ commit[q] = plan[q].batch
                      /\ plan'[q].batch = plan[q].batch + 1
                      /\ plan[q].batch > 0 => plan'[q].from = plan[q].to
    BY DEF PlansNextOnly
  <2>1. plan' = plan \/ DeleteCheckpoint \/ \E r \in Queries : PlanBatch(r)
    BY DEF Next, RunSink, Produce, Expire, RegistryOutage, RegistryRecovers,
         WorkerReplaced, SubmitJob, Crash, Interrupt, StopBronze, StopRealtime,
         QueryFails, AppendToDelta, WriteToClickhouse, ClickhouseWriteFails,
         CommitBatch, ckpt
  <2>2. ~DeleteCheckpoint
    <3>1. epoch \in Nat
      BY ConstantsAssumption DEF TypeOK, Epochs
    <3> QED
      BY <3>1 DEF DeleteCheckpoint
  <2>3. PICK r \in Queries : PlanBatch(r)
    BY <2>1, <2>2
  <2>4. r = q /\ phase[q] = "idle"
    BY <2>3 DEF PlanBatch, TypeOK
  <2>5. /\ plan'[q].batch = plan[q].batch + 1
        /\ plan'[q].from = BatchStart(q)
    BY <2>3, <2>4 DEF PlanBatch, TypeOK
  <2> QED
    BY <2>4, <2>5 DEF BronzeInv, PhaseInv, BatchStart
<1> QED
  BY <1>1, TypeCorrect, BronzeInvariant, PTL DEF Spec, ReplaySameRange

\* How Covered and the table move in one step: as in OrderedIngest.
LEMMA StepMapsToIngest ==
  ASSUME TypeOK, BronzeInv, TypeOK', BronzeInv', [Next]_vars
  PROVE  [Ingest!IngestNext]_(Ingest!ingestVars)
<1> USE DEF Ingest!ingestVars
<1>1. CASE UNCHANGED <<Len(log), epoch, plan, txn, bronze>>
  BY <1>1 DEF Covered
<1>2. ASSUME NEW k \in Kinds, Produce(k) PROVE Ingest!Publish
  <2>1. Len(log') = Len(log) + 1 /\ Len(log) < MaxOffset
    BY <1>2 DEF Produce, TypeOK
  <2>2. Covered' = Covered /\ bronze' = bronze /\ epoch' = epoch
    BY <1>2 DEF Produce, Covered, ckpt, tables
  <2> QED
    BY <2>1, <2>2 DEF Ingest!Publish
<1>3. ASSUME DeleteCheckpoint PROVE Ingest!StartOver
  <2>1. epoch' = epoch + 1 /\ epoch < MaxResets + 1 /\ UNCHANGED <<log, bronze>>
    BY <1>3, ConstantsAssumption DEF DeleteCheckpoint, TypeOK, Epochs, kafka, tables
  <2>2. plan'["bronze"] = NoPlan
    BY <1>3, QueriesAreNamed DEF DeleteCheckpoint
  <2>3. Covered' = 0
    BY <2>2 DEF Covered, NoPlan
  <2> QED
    BY <2>1, <2>3 DEF Ingest!StartOver
<1>4. \A o \in Nat : o \in 1..MaxOffset <=> 1 <= o /\ o <= MaxOffset
  BY ConstantsAssumption
<1>5. /\ plan["bronze"] \in [batch : Nat, from : Nat, to : Nat]
      /\ Len(log) \in Nat /\ Len(log) <= MaxOffset /\ lo \in Nat /\ lo <= Len(log)
      /\ txn[epoch] \in Nat /\ Covered \in Nat
      /\ plan["bronze"].to <= Len(log) /\ plan["bronze"].from <= plan["bronze"].to
  <2>1. plan["bronze"] \in [batch : Nat, from : Nat, to : Nat]
    BY QueriesAreNamed DEF TypeOK
  <2>2. Len(log) \in Nat /\ Len(log) <= MaxOffset /\ lo \in Nat /\ lo <= Len(log)
    BY DEF TypeOK
  <2>3. txn[epoch] \in Nat
    BY DEF TypeOK
  <2>4. plan["bronze"].to <= Len(log) /\ plan["bronze"].from <= plan["bronze"].to
    BY QueriesAreNamed DEF BronzeInv, RangeInv
  <2>5. Covered \in Nat
    BY <2>1 DEF Covered
  <2> QED
    BY <2>1, <2>2, <2>3, <2>4, <2>5
<1>6. ASSUME NEW q \in Queries, PlanBatch(q)
      PROVE  [Ingest!IngestNext]_(Ingest!ingestVars)
  <2>1. UNCHANGED <<log, epoch, txn, bronze>>
    BY <1>6 DEF PlanBatch, kafka, tables
  <2>2. CASE q # "bronze"
    <3>1. plan'["bronze"] = plan["bronze"]
      BY <1>6, <2>2 DEF PlanBatch, TypeOK
    <3> QED
      BY <2>1, <3>1 DEF Covered
  <2>3. CASE q = "bronze"
    <3>1. /\ plan'["bronze"].batch = plan["bronze"].batch + 1
          /\ plan'["bronze"].from = BatchStart("bronze")
          /\ BatchStart("bronze") < Len(log)
      BY <1>6, <2>3, QueriesAreNamed DEF PlanBatch, HasInput, TypeOK
    <3>2. txn[epoch] = plan["bronze"].batch
      BY <1>5, <1>6, <2>3, QueriesAreNamed
         DEF PlanBatch, BronzeInv, PhaseInv, WriteAheadOrder, TypeOK
    <3>3. Covered' = BatchStart("bronze") /\ Covered = plan["bronze"].to
      BY <1>5, <2>1, <3>1, <3>2 DEF Covered
    <3>4. BatchStart("bronze") \in Nat /\ Covered <= BatchStart("bronze")
      BY <1>5, <3>3, QueriesAreNamed DEF BatchStart, BronzeInv, RangeInv
    <3>5. CASE Covered = BatchStart("bronze")
      BY <2>1, <3>3, <3>5
    <3>6. CASE Covered < BatchStart("bronze")
      <4>1. bronze' = [o \in 1..MaxOffset |-> IF o \in {} THEN bronze[o] + 1 ELSE bronze[o]]
        BY <2>1 DEF TypeOK, Offsets
      <4>2. BatchStart("bronze") \in 1..MaxOffset
        <5>1. 1 <= BatchStart("bronze") /\ BatchStart("bronze") <= MaxOffset
          BY <1>5, <3>1, <3>4, <3>6, ConstantsAssumption
        <5> QED
          BY <1>4, <3>4, <5>1
      <4>3. Ingest!CopyUpTo(BatchStart("bronze"), {})
        BY <1>5, <2>1, <3>1, <3>3, <3>4, <3>6, <4>1 DEF Ingest!CopyUpTo
      <4> QED
        BY <4>2, <4>3 DEF Ingest!IngestNext
    <3> QED
      BY <1>5, <3>4, <3>5, <3>6
  <2> QED
    BY <2>2, <2>3
<1>7. ASSUME AppendToDelta PROVE [Ingest!IngestNext]_(Ingest!ingestVars)
  <2>1. UNCHANGED <<log, epoch, plan>>
    BY <1>7 DEF AppendToDelta, kafka, ckpt
  <2>2. CASE AlreadyApplied
    BY <1>7, <2>1, <2>2 DEF AppendToDelta, tables, Covered
  <2>3. CASE ~AlreadyApplied
    <3>1. PICK lost \in SUBSET Framed("bronze") :
            bronze' = AddCopies(bronze, Framed("bronze") \ lost)
      BY <1>7, <2>3 DEF AppendToDelta
    <3>2. txn'[epoch] = plan["bronze"].batch
      BY <1>7, <2>3 DEF AppendToDelta, TypeOK
    <3>3. txn[epoch] # plan["bronze"].batch
      BY <1>5, <2>3 DEF AlreadyApplied
    <3> DEFINE to == plan["bronze"].to
               S  == Framed("bronze") \ lost
    <3>4. Covered = plan["bronze"].from /\ Covered' = to
      BY <2>1, <3>2, <3>3 DEF Covered
    <3>5. S \in SUBSET (Covered + 1 .. to)
      <4> SUFFICES ASSUME NEW o \in S PROVE o \in Covered + 1 .. to
        OBVIOUS
      <4>1. o \in Offsets /\ plan["bronze"].from < o /\ o <= to
        BY DEF Framed, Readable
      <4>2. o \in Int
        BY <4>1 DEF Offsets
      <4> QED
        BY <1>5, <3>4, <4>1, <4>2
    <3>6. bronze' = [o \in 1..MaxOffset |-> IF o \in S THEN bronze[o] + 1 ELSE bronze[o]]
      BY <3>1 DEF AddCopies, Offsets
    <3> HIDE DEF S
    <3>7. CASE Covered < to
      <4>1. to \in 1..MaxOffset
        BY <1>4, <1>5, <3>7, ConstantsAssumption
      <4>2. Ingest!CopyUpTo(to, S)
        BY <1>5, <2>1, <3>4, <3>6, <3>7 DEF Ingest!CopyUpTo
      <4> QED
        BY <3>5, <4>1, <4>2 DEF Ingest!IngestNext
    <3>8. CASE Covered = to
      <4>1. S = {}
        BY <1>5, <3>5, <3>8
      <4>2. bronze' = bronze
        BY <3>6, <4>1 DEF TypeOK, Offsets
      <4> QED
        BY <2>1, <3>4, <3>8, <4>2
    <3> QED
      BY <1>5, <3>4, <3>7, <3>8
  <2> QED
    BY <2>2, <2>3
<1>8. CASE \/ Expire \/ RegistryOutage \/ RegistryRecovers \/ WorkerReplaced
           \/ SubmitJob \/ Crash \/ Interrupt \/ StopBronze \/ StopRealtime
           \/ WriteToClickhouse \/ ClickhouseWriteFails
           \/ \E q \in Queries : QueryFails(q) \/ CommitBatch(q)
  <2>1. UNCHANGED <<log, epoch, plan, txn, bronze>>
    BY <1>8 DEF Expire, RegistryOutage, RegistryRecovers, WorkerReplaced, SubmitJob,
       Crash, Interrupt, StopBronze, StopRealtime, WriteToClickhouse,
       ClickhouseWriteFails, QueryFails, CommitBatch, kafka, ckpt, tables
  <2> QED
    BY <1>1, <2>1
<1>9. CASE UNCHANGED vars
  BY <1>1, <1>9 DEF vars, kafka, ckpt, tables
<1> QED
  BY <1>2, <1>3, <1>6, <1>7, <1>8, <1>9 DEF Next, RunSink, Ingest!IngestNext

\* Seen through Covered and the Bronze table, the job is OrderedIngest.
THEOREM BronzeRefinement == Spec => ImplementsOrderedIngest
<1>1. Init => Ingest!IngestInit
  BY QueriesAreNamed, ConstantsAssumption
     DEF Init, Ingest!IngestInit, Covered, NoPlan, Epochs, Offsets
<1> QED
  BY <1>1, StepMapsToIngest, TypeCorrect, BronzeInvariant, PTL
     DEF Spec, ImplementsOrderedIngest, Ingest!IngestSpec

\* Bronze never falls back behind a record it has passed while the checkpoint lives.
THEOREM CoveredNeverFallsBack == Spec => CoveredMonotone
<1>1. TypeOK /\ BronzeInv /\ TypeOK' /\ BronzeInv' /\ [Next]_vars
        => [epoch' = epoch => Covered <= Covered']_vars
  <2> SUFFICES ASSUME TypeOK, BronzeInv, TypeOK', BronzeInv', [Next]_vars,
                      epoch' = epoch
               PROVE  Covered <= Covered'
    OBVIOUS
  <2>1. Covered \in Nat /\ epoch \in Nat
    <3>1. plan["bronze"] \in [batch : Nat, from : Nat, to : Nat]
      BY QueriesAreNamed DEF TypeOK
    <3>2. epoch \in Nat
      BY ConstantsAssumption DEF TypeOK, Epochs
    <3> QED
      BY <3>1, <3>2 DEF Covered
  <2>2. [Ingest!IngestNext]_(Ingest!ingestVars)
    BY StepMapsToIngest
  <2>3. CASE UNCHANGED Ingest!ingestVars
    BY <2>1, <2>3 DEF Ingest!ingestVars
  <2>4. CASE Ingest!IngestNext
    BY <2>1, <2>4 DEF Ingest!IngestNext, Ingest!Publish, Ingest!CopyUpTo,
                      Ingest!StartOver
  <2> QED
    BY <2>2, <2>3, <2>4
<1> QED
  BY <1>1, TypeCorrect, BronzeInvariant, PTL DEF Spec, CoveredMonotone
-----------------------------------------------------------------------------
(* The ClickHouse side.                                                    *)

\* How far the ClickHouse sink has got: to the end of the planned batch once it
\* has returned, or the batch is committed, and to its start before that.
Passed == IF phase["realtime"] = "executed" THEN plan["realtime"].to
                                            ELSE Committed("realtime")

\* All copies that the submissions so far may have made.
Allowed == runs * MaxTaskFailures

\* A task is retried within its bound, and only while its batch runs.
AttemptInv ==
  /\ attempt < MaxTaskFailures
  /\ attempt > 0 => phase["realtime"] = "running"

\* The sink leaves no valid order behind but for the three known reasons.
PassedAccounted ==
  \A o \in Offsets :
    o <= Passed /\ log[o] = "valid" => \/ realtime[o] >= 1
                                       \/ o \in undecoded["realtime"]
                                       \/ o \in swallowed
                                       \/ o <= lo

\* Only valid orders are stored.  In front of the sink, a live query has not yet
\* drawn on the copies of its own submission, but for the attempts on the batch
\* in hand.
CopiesInv ==
  \A o \in Offsets :
    /\ realtime[o] > 0 => o <= Len(log) /\ log[o] = "valid"
    /\ realtime[o] <= Allowed
    /\ phase["realtime"] # "down" /\ o > Passed
         => realtime[o] + MaxTaskFailures <= Allowed + attempt
    /\ phase["realtime"] # "down" /\ o > plan["realtime"].to
         => realtime[o] + MaxTaskFailures <= Allowed

RealtimeInv == AttemptInv /\ PassedAccounted /\ CopiesInv

\* What RealtimeInv is about.
RealtimeVars == <<log, lo, phase["realtime"], attempt, runs, plan["realtime"],
                  commit["realtime"], realtime, undecoded["realtime"], swallowed>>

\* A step that leaves those alone keeps it.
LEMMA RealtimeFrame ==
  ASSUME RealtimeInv, UNCHANGED RealtimeVars PROVE RealtimeInv'
<1> USE DEF RealtimeVars
<1>1. Passed' = Passed /\ Allowed' = Allowed
  BY DEF Passed, Committed, Allowed
<1> QED
  BY <1>1 DEF RealtimeInv, AttemptInv, PassedAccounted, CopiesInv

\* The types that the arithmetic below needs.
LEMMA RealtimeTypes ==
  ASSUME TypeOK, BronzeInv
  PROVE  /\ plan["realtime"] \in [batch : Nat, from : Nat, to : Nat]
         /\ commit["realtime"] \in Nat
         /\ plan["realtime"].from <= plan["realtime"].to
         /\ plan["realtime"].to <= Len(log)
         /\ Len(log) \in Nat /\ lo \in Nat
         /\ attempt \in Nat /\ runs \in Nat /\ MaxTaskFailures \in Nat \ {0}
         /\ Allowed \in Nat /\ Passed \in Nat /\ Passed <= plan["realtime"].to
         /\ \A o \in Offsets : o \in Nat /\ o > 0 /\ realtime[o] \in Nat
<1>1. /\ plan["realtime"] \in [batch : Nat, from : Nat, to : Nat]
      /\ commit["realtime"] \in Nat
      /\ Len(log) \in Nat /\ lo \in Nat
      /\ attempt \in Nat /\ runs \in Nat /\ MaxTaskFailures \in Nat \ {0}
  BY QueriesAreNamed, ConstantsAssumption DEF TypeOK
<1>2. plan["realtime"].from <= plan["realtime"].to /\ plan["realtime"].to <= Len(log)
  BY QueriesAreNamed DEF BronzeInv, RangeInv
<1>3. Allowed \in Nat
  BY <1>1 DEF Allowed
<1>4. Passed \in Nat /\ Passed <= plan["realtime"].to
  BY <1>1, <1>2 DEF Passed, Committed
<1>5. \A o \in Offsets : realtime[o] \in Nat
  BY DEF TypeOK
<1>6. \A o \in Offsets : o \in Nat /\ o > 0
  BY ConstantsAssumption DEF Offsets
<1> QED
  BY <1>1, <1>2, <1>3, <1>4, <1>5, <1>6

\* Nothing is stored before the first submission.
LEMMA RealtimeInit == Init => RealtimeInv
<1> SUFFICES ASSUME Init PROVE RealtimeInv
  OBVIOUS
<1>1. "realtime" \in QueryNames /\ MaxTaskFailures \in Nat \ {0}
  BY QueriesAreNamed, ConstantsAssumption
<1>2. Passed = 0 /\ Allowed = 0 /\ attempt = 0 /\ phase["realtime"] = "down"
  BY <1>1 DEF Init, Passed, Committed, NoPlan, Allowed
<1>3. AttemptInv /\ CopiesInv
  BY <1>1, <1>2 DEF Init, AttemptInv, CopiesInv
<1>4. \A o \in Offsets : ~(o <= 0)
  BY ConstantsAssumption DEF Offsets
<1>5. PassedAccounted
  BY <1>2, <1>4 DEF PassedAccounted
<1> QED
  BY <1>3, <1>5 DEF RealtimeInv

\* Kafka: records that are there keep their kind, and what expires is excused.
LEMMA KafkaKeepsRealtime ==
  ASSUME TypeOK, BronzeInv, RealtimeInv, (\E k \in Kinds : Produce(k)) \/ Expire
  PROVE  RealtimeInv'
<1>1. /\ Len(log) <= Len(log') /\ lo <= lo' /\ lo' \in Nat /\ Len(log') \in Nat
      /\ \A o \in 1..Len(log) : log'[o] = log[o]
  <2>1. CASE \E k \in Kinds : Produce(k)
    BY <2>1 DEF TypeOK, Produce
  <2>2. CASE Expire
    BY <2>2 DEF TypeOK, Expire
  <2> QED
    BY <2>1, <2>2
<1>2. UNCHANGED <<driver, ckpt, tables, history>>
  <2>1. ASSUME NEW k \in Kinds, Produce(k) PROVE UNCHANGED <<driver, ckpt, tables, history>>
    BY <2>1 DEF Produce
  <2>2. ASSUME Expire PROVE UNCHANGED <<driver, ckpt, tables, history>>
    BY <2>2 DEF Expire
  <2> QED
    BY <2>1, <2>2
<1>3. UNCHANGED <<phase, attempt, runs, plan, commit, realtime, undecoded, swallowed>>
  BY <1>2 DEF driver, ckpt, tables, history
<1>4. Passed' = Passed /\ Allowed' = Allowed
  BY <1>3 DEF Passed, Committed, Allowed
<1>5. AttemptInv'
  BY <1>3 DEF RealtimeInv, AttemptInv
<1>6. PassedAccounted'
  <2> SUFFICES ASSUME NEW o \in Offsets, o <= Passed, log'[o] = "valid"
               PROVE  \/ realtime[o] >= 1 \/ o \in undecoded["realtime"]
                      \/ o \in swallowed \/ o <= lo'
    BY <1>3, <1>4 DEF PassedAccounted
  <2>1. o \in 1..Len(log) /\ lo \in Nat
    BY RealtimeTypes
  <2>2. \/ realtime[o] >= 1 \/ o \in undecoded["realtime"]
        \/ o \in swallowed \/ o <= lo
    BY <1>1, <2>1 DEF RealtimeInv, PassedAccounted
  <2> QED
    BY <1>1, <2>1, <2>2, RealtimeTypes
<1>7. CopiesInv'
  <2> SUFFICES ASSUME NEW o \in Offsets
               PROVE  realtime[o] > 0 => o <= Len(log') /\ log'[o] = "valid"
    BY <1>3, <1>4 DEF RealtimeInv, CopiesInv
  <2> SUFFICES ASSUME realtime[o] > 0 PROVE o <= Len(log') /\ log'[o] = "valid"
    OBVIOUS
  <2>1. o <= Len(log) /\ log[o] = "valid"
    BY DEF RealtimeInv, CopiesInv
  <2>2. o \in 1..Len(log)
    BY <2>1, RealtimeTypes
  <2> QED
    BY <1>1, <2>1, <2>2, RealtimeTypes
<1> QED
  BY <1>5, <1>6, <1>7 DEF RealtimeInv

\* A query that goes down leaves its sink where the commit log says, and the
\* attempts on its batch are over.
LEMMA EndKeepsRealtime ==
  ASSUME TypeOK, BronzeInv, RealtimeInv, phase'["realtime"] = "down", attempt' = 0,
         UNCHANGED <<log, lo, runs, plan, commit, realtime, undecoded, swallowed>>
  PROVE  RealtimeInv'
<1> USE RealtimeTypes
<1>1. Allowed' = Allowed
  BY DEF Allowed
<1>2. Passed' \in Nat /\ Passed' <= Passed
  BY DEF Passed, Committed
<1>3. AttemptInv'
  BY DEF AttemptInv
<1>4. PassedAccounted'
  BY <1>2 DEF RealtimeInv, PassedAccounted
<1>5. CopiesInv'
  BY <1>1 DEF RealtimeInv, CopiesInv
<1> QED
  BY <1>3, <1>4, <1>5 DEF RealtimeInv

\* The driver's life.  A submission adds the copies of its own attempts.
LEMMA DriverKeepsRealtime ==
  ASSUME TypeOK, BronzeInv, RealtimeInv,
         \/ RegistryOutage \/ RegistryRecovers \/ WorkerReplaced
         \/ SubmitJob \/ Crash \/ Interrupt \/ StopBronze \/ StopRealtime
         \/ \E q \in Queries : QueryFails(q)
  PROVE  RealtimeInv'
<1> USE QueriesAreNamed
<1>1. CASE RegistryOutage \/ RegistryRecovers \/ WorkerReplaced \/ Interrupt
  <2>1. UNCHANGED <<log, lo, phase, attempt, runs, ckpt, tables, history>>
    BY <1>1 DEF RegistryOutage, RegistryRecovers, WorkerReplaced, Interrupt, kafka, driver
  <2> QED
    BY <2>1, RealtimeFrame DEF RealtimeVars, ckpt, tables, history
<1>2. CASE StopBronze
  <2>1. phase'["realtime"] = phase["realtime"]
    BY <1>2 DEF StopBronze, TypeOK
  <2> QED
    BY <1>2, <2>1, RealtimeFrame DEF RealtimeVars, StopBronze, kafka, ckpt, tables, history
<1>3. CASE Crash \/ StopRealtime
  <2>1. phase'["realtime"] = "down" /\ attempt' = 0
    BY <1>3 DEF Crash, StopRealtime, TypeOK
  <2>2. UNCHANGED <<kafka, runs, ckpt, tables, history>>
    BY <1>3 DEF Crash, StopRealtime
  <2> QED
    BY <2>1, <2>2, EndKeepsRealtime DEF kafka, ckpt, tables, history
<1>4. ASSUME NEW q \in Queries, QueryFails(q) PROVE RealtimeInv'
  <2>1. /\ phase' = [phase EXCEPT ![q] = "down"]
        /\ attempt' = IF q = "realtime" THEN 0 ELSE attempt
        /\ UNCHANGED <<kafka, runs, ckpt, tables, history>>
    BY <1>4 DEF QueryFails
  <2>2. CASE q = "realtime"
    <3>1. phase'["realtime"] = "down" /\ attempt' = 0
      BY <2>1, <2>2 DEF TypeOK
    <3> QED
      BY <2>1, <3>1, EndKeepsRealtime DEF kafka, ckpt, tables, history
  <2>3. CASE q # "realtime"
    <3>1. phase'["realtime"] = phase["realtime"] /\ attempt' = attempt
      BY <2>1, <2>3 DEF TypeOK
    <3> QED
      BY <2>1, <3>1, RealtimeFrame DEF RealtimeVars, kafka, ckpt, tables, history
  <2> QED
    BY <2>2, <2>3
<1>5. CASE SubmitJob
  <2>1. /\ status = "down" /\ runs' = runs + 1
        /\ phase'["realtime"] \in {"down", "idle", "running"}
        /\ phase'["realtime"] = "idle" => ~(commit["realtime"] < plan["realtime"].batch)
        /\ UNCHANGED <<kafka, attempt, ckpt, tables, history>>
    BY <1>5 DEF SubmitJob, ResumePhase
  <2>2. phase["realtime"] = "down" /\ attempt = 0
    BY <2>1, RealtimeTypes DEF BronzeInv, PhaseInv, RealtimeInv, AttemptInv
  <2>3. UNCHANGED <<log, lo, attempt, plan, commit, realtime, undecoded, swallowed>>
    BY <2>1 DEF kafka, ckpt, tables, history
  <2>4. Passed' = Passed
    BY <2>1, <2>2, <2>3 DEF Passed, Committed
  <2>5. Allowed' = Allowed + MaxTaskFailures
    BY <2>1, RealtimeTypes DEF Allowed
  <2>6. AttemptInv' /\ PassedAccounted'
    BY <2>2, <2>3, <2>4, RealtimeTypes DEF RealtimeInv, AttemptInv, PassedAccounted
  <2>7. CopiesInv'
    BY <2>2, <2>3, <2>5, RealtimeTypes DEF RealtimeInv, CopiesInv
  <2> QED
    BY <2>6, <2>7 DEF RealtimeInv
<1> QED
  BY <1>1, <1>2, <1>3, <1>4, <1>5

\* A new checkpoint has passed nothing, and no query is alive to draw on copies.
LEMMA DeleteKeepsRealtime ==
  ASSUME TypeOK, BronzeInv, RealtimeInv, DeleteCheckpoint
  PROVE  RealtimeInv'
<1>1. /\ status = "down" /\ UNCHANGED <<kafka, driver, tables, history>>
      /\ plan'["realtime"] = NoPlan /\ commit'["realtime"] = 0
  BY QueriesAreNamed DEF DeleteCheckpoint
<1>2. phase["realtime"] = "down"
  BY <1>1, QueriesAreNamed DEF BronzeInv, PhaseInv
<1>3. UNCHANGED <<log, lo, phase, attempt, runs, realtime, undecoded, swallowed>>
  BY <1>1 DEF kafka, driver, tables, history
<1>4. Passed' = 0 /\ Allowed' = Allowed
  BY <1>1, <1>2, <1>3 DEF Passed, Committed, NoPlan, Allowed
<1>5. AttemptInv'
  BY <1>3 DEF RealtimeInv, AttemptInv
<1>6. PassedAccounted'
  BY <1>4, RealtimeTypes DEF PassedAccounted
<1>7. CopiesInv'
  BY <1>2, <1>3, <1>4 DEF RealtimeInv, CopiesInv
<1> QED
  BY <1>5, <1>6, <1>7 DEF RealtimeInv

\* Planning moves the sink at most over what retention took.
LEMMA PlanKeepsRealtime ==
  ASSUME TypeOK, BronzeInv, RealtimeInv, NEW q \in Queries, PlanBatch(q)
  PROVE  RealtimeInv'
<1> DEFINE from == BatchStart(q)
           to   == IF from + MaxBatch < Len(log) THEN from + MaxBatch ELSE Len(log)
<1>1. /\ plan' = [plan EXCEPT ![q] = [batch |-> plan[q].batch + 1,
                                     from |-> from, to |-> to]]
      /\ phase' = [phase EXCEPT ![q] = "running"]
      /\ phase[q] = "idle" /\ from < Len(log)
      /\ UNCHANGED <<kafka, attempt, runs, commit, tables, history>>
  BY DEF PlanBatch, HasInput
<1>2. UNCHANGED <<log, lo, attempt, runs, commit, realtime, undecoded, swallowed>>
  BY <1>1 DEF kafka, tables, history
<1>3. CASE q # "realtime"
  <2>1. plan'["realtime"] = plan["realtime"] /\ phase'["realtime"] = phase["realtime"]
    BY <1>1, <1>3, QueriesAreNamed DEF TypeOK
  <2> QED
    BY <1>2, <2>1, RealtimeFrame DEF RealtimeVars
<1>4. CASE q = "realtime"
  <2>1. /\ plan'["realtime"].batch = plan["realtime"].batch + 1
        /\ plan'["realtime"].from = from /\ plan'["realtime"].to = to
        /\ phase'["realtime"] = "running"
    BY <1>1, <1>4, QueriesAreNamed DEF TypeOK
  <2>2. /\ commit["realtime"] = plan["realtime"].batch
        /\ plan["realtime"].batch = 0 => plan["realtime"].to = 0
    BY <1>1, <1>4, QueriesAreNamed DEF BronzeInv, PhaseInv, RangeInv
  <2>3. Passed = plan["realtime"].to
    BY <2>2 DEF Passed, Committed
  <2>4. from = IF plan["realtime"].batch = 0 THEN lo ELSE plan["realtime"].to
    BY <1>4 DEF BatchStart
  <2>5. /\ from \in Nat /\ to \in Nat /\ from <= to
        /\ Passed <= from /\ (from = Passed \/ from = lo)
    BY <1>1, <2>2, <2>3, <2>4, RealtimeTypes, ConstantsAssumption
  <2> HIDE DEF from, to
  <2>6. Passed' = from
    BY <1>2, <2>1, <2>2, RealtimeTypes DEF Passed, Committed
  <2>7. Allowed' = Allowed /\ attempt = 0
    BY <1>1, <1>2, <1>4, RealtimeTypes DEF Allowed, RealtimeInv, AttemptInv
  <2>8. AttemptInv'
    BY <1>2, <2>7 DEF RealtimeInv, AttemptInv
  <2>9. PassedAccounted'
    BY <1>2, <2>5, <2>6, RealtimeTypes DEF RealtimeInv, PassedAccounted
  <2>10. CopiesInv'
    BY <1>1, <1>2, <1>4, <2>1, <2>3, <2>5, <2>6, <2>7, RealtimeTypes
       DEF RealtimeInv, CopiesInv
  <2> QED
    BY <2>8, <2>9, <2>10 DEF RealtimeInv
<1> QED
  BY <1>3, <1>4

\* The delta sink leaves the ClickHouse side alone.
LEMMA AppendKeepsRealtime ==
  ASSUME TypeOK, BronzeInv, RealtimeInv, AppendToDelta
  PROVE  RealtimeInv'
<1>1. /\ phase' = [phase EXCEPT !["bronze"] = "executed"]
      /\ UNCHANGED <<kafka, attempt, runs, ckpt, realtime, swallowed>>
  BY DEF AppendToDelta, tables, history
<1>2. phase'["realtime"] = phase["realtime"]
  BY <1>1, QueriesAreNamed DEF TypeOK
<1>3. undecoded'["realtime"] = undecoded["realtime"]
  BY QueriesAreNamed DEF AppendToDelta, history, Evaluate, TypeOK
<1> QED
  BY <1>1, <1>2, <1>3, RealtimeFrame DEF RealtimeVars, kafka, ckpt

\* AddCopies adds one copy to each member of S.
LEMMA AddCopiesValue ==
  ASSUME NEW table, NEW S, NEW o \in Offsets
  PROVE  AddCopies(table, S)[o] = IF o \in S THEN table[o] + 1 ELSE table[o]
BY DEF AddCopies

\* One attempt of the JDBC write on the batch in hand, complete or not: what it
\* stores are valid orders of the batch's range, and what it may lack are the
\* ones that were dropped or that it did not store.
LEMMA AttemptFacts ==
  ASSUME TypeOK, BronzeInv, RealtimeInv, phase["realtime"] = "running",
         NEW lost \in SUBSET Framed("realtime"), Evaluate("realtime", lost),
         NEW stored \in SUBSET ValidRows("realtime", lost),
         realtime' = AddCopies(realtime, stored),
         UNCHANGED <<log, plan, runs, lo>>
  PROVE  /\ Passed = plan["realtime"].from
         /\ Allowed' = Allowed
         /\ undecoded'["realtime"] = undecoded["realtime"] \cup lost
         /\ \A o \in Offsets :
              /\ o \in stored \/ realtime'[o] = realtime[o]
              /\ o \in stored => /\ realtime'[o] = realtime[o] + 1
                                 /\ Passed < o /\ o <= plan["realtime"].to
                                 /\ o <= Len(log) /\ log[o] = "valid"
              /\ Passed < o /\ o <= plan["realtime"].to /\ log[o] = "valid" /\ ~(o <= lo)
                   => o \in Readable("realtime") /\ (o \in ValidRows("realtime", lost) \/ o \in lost)
<1>1. commit["realtime"] + 1 = plan["realtime"].batch
  BY QueriesAreNamed DEF BronzeInv, PhaseInv
<1>2. Passed = plan["realtime"].from
  BY <1>1, RealtimeTypes DEF Passed, Committed
<1>3. Allowed' = Allowed
  BY DEF Allowed
<1>4. undecoded'["realtime"] = undecoded["realtime"] \cup lost
  BY QueriesAreNamed DEF Evaluate, TypeOK
<1>5. \A o \in Offsets :
        /\ o \in stored \/ realtime'[o] = realtime[o]
        /\ o \in stored => realtime'[o] = realtime[o] + 1
  BY AddCopiesValue
<1>6. \A o \in stored : /\ plan["realtime"].from < o /\ o <= plan["realtime"].to
                        /\ log[o] = "valid"
  BY DEF ValidRows, Framed, Readable
<1>7. ASSUME NEW o \in Offsets, Passed < o, o <= plan["realtime"].to,
             log[o] = "valid", ~(o <= lo)
      PROVE  o \in Readable("realtime") /\ (o \in ValidRows("realtime", lost) \/ o \in lost)
  <2>1. o \in Readable("realtime")
    BY <1>2, <1>7, RealtimeTypes DEF Readable
  <2>2. o \in Framed("realtime")
    BY <1>7, <2>1 DEF Framed
  <2> QED
    BY <1>7, <2>1, <2>2 DEF ValidRows
<1>8. \A o \in Offsets : o <= plan["realtime"].to => o <= Len(log)
  BY RealtimeTypes
<1> QED
  BY <1>2, <1>3, <1>4, <1>5, <1>6, <1>7, <1>8

\* A write of the batch that comes to its end, or is given up, moves the sink to
\* the end of the batch; a failed one that is retried uses up one attempt.
LEMMA ClickhouseKeepsRealtime ==
  ASSUME TypeOK, BronzeInv, RealtimeInv, WriteToClickhouse \/ ClickhouseWriteFails
  PROVE  RealtimeInv'
<1>1. /\ phase["realtime"] = "running"
      /\ UNCHANGED <<log, lo, runs, plan, commit>>
  BY DEF WriteToClickhouse, ClickhouseWriteFails, kafka, ckpt
<1>2. PICK lost \in SUBSET Framed("realtime") :
        /\ Evaluate("realtime", lost)
        /\ \E stored \in SUBSET ValidRows("realtime", lost) :
             /\ realtime' = AddCopies(realtime, stored)
             /\ WriteToClickhouse => stored = ValidRows("realtime", lost)
  <2>1. CASE WriteToClickhouse
    BY <2>1 DEF WriteToClickhouse
  <2>2. CASE ClickhouseWriteFails /\ ~WriteToClickhouse
    BY <2>2 DEF ClickhouseWriteFails
  <2> QED
    BY <2>1, <2>2
<1>3. PICK stored \in SUBSET ValidRows("realtime", lost) :
        /\ realtime' = AddCopies(realtime, stored)
        /\ WriteToClickhouse => stored = ValidRows("realtime", lost)
  BY <1>2
<1>4. /\ Passed = plan["realtime"].from /\ Allowed' = Allowed
      /\ undecoded'["realtime"] = undecoded["realtime"] \cup lost
      /\ \A o \in Offsets :
           /\ o \in stored \/ realtime'[o] = realtime[o]
           /\ o \in stored => /\ realtime'[o] = realtime[o] + 1
                              /\ Passed < o /\ o <= plan["realtime"].to
                              /\ o <= Len(log) /\ log[o] = "valid"
           /\ Passed < o /\ o <= plan["realtime"].to /\ log[o] = "valid" /\ ~(o <= lo)
                => o \in Readable("realtime") /\ (o \in ValidRows("realtime", lost) \/ o \in lost)
  BY <1>1, <1>2, <1>3, AttemptFacts
<1> DEFINE P == plan["realtime"]
<1>7. ASSUME NEW o \in Offsets
      PROVE  /\ realtime'[o] > 0 => o <= Len(log) /\ log[o] = "valid"
             /\ realtime'[o] <= Allowed
             /\ o > Passed => realtime'[o] + MaxTaskFailures <= Allowed + attempt + 1
             /\ o > P.to => realtime'[o] + MaxTaskFailures <= Allowed
  <2>1. /\ realtime[o] > 0 => o <= Len(log) /\ log[o] = "valid"
        /\ realtime[o] <= Allowed
        /\ o > Passed => realtime[o] + MaxTaskFailures <= Allowed + attempt
        /\ o > P.to => realtime[o] + MaxTaskFailures <= Allowed
        /\ attempt < MaxTaskFailures
    BY <1>1 DEF RealtimeInv, CopiesInv, AttemptInv
  <2>2. CASE o \in stored
    <3>1. /\ realtime'[o] = realtime[o] + 1 /\ Passed < o /\ o <= P.to
          /\ o <= Len(log) /\ log[o] = "valid"
      BY <1>4, <2>2
    <3>2. /\ P.to \in Nat /\ Passed \in Nat /\ o \in Nat /\ realtime[o] \in Nat
          /\ Allowed \in Nat /\ attempt \in Nat /\ MaxTaskFailures \in Nat
      BY RealtimeTypes
    <3> HIDE DEF P
    <3> QED
      BY <2>1, <3>1, <3>2
  <2>3. CASE realtime'[o] = realtime[o]
    BY <2>1, <2>3, RealtimeTypes
  <2> QED
    BY <1>4, <2>2, <2>3
<1>5. CASE phase'["realtime"] = "executed" /\ attempt' = 0
  <2>1. Passed' = P.to
    BY <1>1, <1>5 DEF Passed
  <2>2. swallowed' = swallowed \/ swallowed' = swallowed \cup Readable("realtime")
    BY DEF WriteToClickhouse, ClickhouseWriteFails
  <2>3. stored = ValidRows("realtime", lost) \/ swallowed' = swallowed \cup Readable("realtime")
    <3>1. CASE WriteToClickhouse
      BY <1>3, <3>1
    <3>2. CASE ClickhouseWriteFails
      BY <1>1, <1>5, <3>2, RealtimeTypes DEF ClickhouseWriteFails
    <3> QED
      BY <3>1, <3>2
  <2>4. AttemptInv'
    BY <1>5, RealtimeTypes DEF AttemptInv
  <2>5. PassedAccounted'
    <3> SUFFICES ASSUME NEW o \in Offsets, o <= P.to, log[o] = "valid", ~(o <= lo)
                 PROVE  \/ realtime'[o] >= 1 \/ o \in undecoded'["realtime"]
                        \/ o \in swallowed'
      BY <1>1, <2>1 DEF PassedAccounted
    <3>1. CASE o <= Passed
      <4>1. realtime[o] >= 1 \/ o \in undecoded["realtime"] \/ o \in swallowed
        BY <3>1 DEF RealtimeInv, PassedAccounted
      <4>2. realtime'[o] = realtime[o]
        BY <1>4, <3>1, RealtimeTypes
      <4> QED
        BY <1>4, <2>2, <4>1, <4>2
    <3>2. CASE ~(o <= Passed)
      <4>1. o \in Readable("realtime") /\ (o \in ValidRows("realtime", lost) \/ o \in lost)
        BY <1>4, <3>2, RealtimeTypes
      <4>2. o \in stored => realtime'[o] >= 1
        BY <1>4, RealtimeTypes
      <4> QED
        BY <1>4, <2>3, <4>1, <4>2
    <3> QED
      BY <3>1, <3>2
  <2>6. CopiesInv'
    <3>1. ASSUME NEW o \in Offsets
          PROVE  /\ realtime'[o] > 0 => o <= Len(log) /\ log[o] = "valid"
                 /\ realtime'[o] <= Allowed
                 /\ o > P.to => realtime'[o] + MaxTaskFailures <= Allowed
      BY <1>7, RealtimeTypes
    <3>2. Allowed' = Allowed /\ P' = P
      BY <1>1, <1>4
    <3> HIDE DEF P
    <3> QED
      BY <1>1, <1>5, <2>1, <3>1, <3>2, RealtimeTypes DEF CopiesInv, P
  <2> QED
    BY <2>4, <2>5, <2>6 DEF RealtimeInv
<1>6. CASE phase' = phase /\ attempt' = attempt + 1 /\ swallowed' = swallowed
           /\ attempt + 1 < MaxTaskFailures
  <2>1. Passed' = Passed
    BY <1>1, <1>6 DEF Passed, Committed
  <2>2. AttemptInv'
    BY <1>1, <1>6 DEF AttemptInv
  <2>3. PassedAccounted'
    BY <1>1, <1>4, <1>6, <2>1, RealtimeTypes DEF RealtimeInv, PassedAccounted
  <2>4. CopiesInv'
    <3>1. ASSUME NEW o \in Offsets
          PROVE  /\ realtime'[o] > 0 => o <= Len(log) /\ log[o] = "valid"
                 /\ realtime'[o] <= Allowed
                 /\ o > Passed => realtime'[o] + MaxTaskFailures <= Allowed + attempt + 1
                 /\ o > P.to => realtime'[o] + MaxTaskFailures <= Allowed
      BY <1>7, RealtimeTypes
    <3>2. Allowed' = Allowed /\ P' = P
      BY <1>1, <1>4
    <3>3. Allowed + attempt + 1 = Allowed + attempt'
      BY <1>6, RealtimeTypes
    <3>4. log' = log
      BY <1>1
    <3> QED
      BY <2>1, <3>1, <3>2, <3>3, <3>4 DEF CopiesInv
  <2> QED
    BY <2>2, <2>3, <2>4 DEF RealtimeInv
<1> QED
  <2>1. CASE WriteToClickhouse
    BY <1>5, <2>1, QueriesAreNamed DEF WriteToClickhouse, TypeOK
  <2>2. CASE ClickhouseWriteFails
    BY <1>5, <1>6, <2>2, QueriesAreNamed DEF ClickhouseWriteFails, RetriesLeft, TypeOK
  <2> QED
    BY <2>1, <2>2

\* A commit vouches for what the sink has passed already.
LEMMA CommitKeepsRealtime ==
  ASSUME TypeOK, BronzeInv, RealtimeInv, NEW q \in Queries, CommitBatch(q)
  PROVE  RealtimeInv'
<1>1. /\ phase[q] = "executed"
      /\ commit' = [commit EXCEPT ![q] = plan[q].batch]
      /\ phase' = [phase EXCEPT ![q] = "idle"]
      /\ UNCHANGED <<log, lo, attempt, runs, plan, realtime, undecoded, swallowed>>
  BY DEF CommitBatch, CommitReady, kafka, tables, history
<1>2. CASE q # "realtime"
  <2>1. phase'["realtime"] = phase["realtime"] /\ commit'["realtime"] = commit["realtime"]
    BY <1>1, <1>2, QueriesAreNamed DEF TypeOK
  <2> QED
    BY <1>1, <2>1, RealtimeFrame DEF RealtimeVars
<1>3. CASE q = "realtime"
  <2>1. phase'["realtime"] = "idle" /\ commit'["realtime"] = plan["realtime"].batch
    BY <1>1, <1>3, QueriesAreNamed DEF TypeOK
  <2>2. Passed' = Passed /\ Allowed' = Allowed
    BY <1>1, <1>3, <2>1 DEF Passed, Committed, Allowed
  <2>3. attempt = 0
    BY <1>1, <1>3, RealtimeTypes DEF RealtimeInv, AttemptInv
  <2> QED
    BY <1>1, <1>3, <2>1, <2>2, <2>3, RealtimeTypes
       DEF RealtimeInv, AttemptInv, PassedAccounted, CopiesInv
<1> QED
  BY <1>2, <1>3

\* No action of Kafka, the driver or either query breaks the ClickHouse side.
THEOREM RealtimeInvariant == Spec => []RealtimeInv
<1>1. TypeOK /\ BronzeInv /\ RealtimeInv /\ [Next]_vars => RealtimeInv'
  <2> SUFFICES ASSUME TypeOK, BronzeInv, RealtimeInv, [Next]_vars PROVE RealtimeInv'
    OBVIOUS
  <2>1. CASE UNCHANGED vars
    BY <2>1, RealtimeFrame DEF vars, RealtimeVars, kafka, driver, ckpt, tables, history
  <2>2. CASE Next
    BY <2>2, KafkaKeepsRealtime, DriverKeepsRealtime, DeleteKeepsRealtime,
       PlanKeepsRealtime, AppendKeepsRealtime, ClickhouseKeepsRealtime,
       CommitKeepsRealtime DEF Next, RunSink
  <2> QED
    BY <2>1, <2>2
<1> QED
  BY <1>1, RealtimeInit, TypeCorrect, BronzeInvariant, PTL DEF Spec

\* A schema that could not be fetched, a write that was given up and retention
\* are the only ways for a valid order behind the ClickHouse query to be missing.
THEOREM OrdersRealtimeAccounted == Spec => []RealtimeAccounted
<1>1. TypeOK /\ BronzeInv /\ RealtimeInv => RealtimeAccounted
  <2> SUFFICES ASSUME TypeOK, BronzeInv, RealtimeInv PROVE RealtimeAccounted
    OBVIOUS
  <2>1. Committed("realtime") \in Nat /\ Committed("realtime") <= Passed
    BY RealtimeTypes DEF Passed, Committed
  <2> QED
    BY <2>1, RealtimeTypes DEF RealtimeInv, PassedAccounted, RealtimeAccounted
<1> QED
  BY <1>1, TypeCorrect, BronzeInvariant, RealtimeInvariant, PTL

\* An order is in orders_realtime at most once per attempt and submission, and
\* nothing else is in it.
THEOREM CopiesBounded == Spec => []RealtimeCopiesBounded
<1>1. TypeOK /\ BronzeInv /\ RealtimeInv => RealtimeCopiesBounded
  <2> SUFFICES ASSUME TypeOK, BronzeInv, RealtimeInv PROVE RealtimeCopiesBounded
    OBVIOUS
  <2>1. \A o \in Offsets : /\ realtime[o] > 0 => o <= Len(log) /\ log[o] = "valid"
                           /\ realtime[o] <= Allowed
    BY DEF RealtimeInv, CopiesInv
  <2>2. \A o \in Offsets : realtime[o] \in Nat
    BY RealtimeTypes
  <2> QED
    BY <2>1, <2>2 DEF RealtimeCopiesBounded, Allowed
<1> QED
  BY <1>1, TypeCorrect, BronzeInvariant, RealtimeInvariant, PTL
-----------------------------------------------------------------------------
(* The promise of README "Exactly-Once Semantics", with the two conditions *)
(* under which the job keeps it.                                           *)

\* No record that the Bronze query read was dropped for want of a schema.
AllDecoded == undecoded["bronze"] = {}

\* With a registry that answers, none ever is.
LEMMA NothingUndecoded ==
  Spec /\ []registryUp => []AllDecoded
<1>1. Init => AllDecoded
  BY QueriesAreNamed DEF Init, AllDecoded
<1>2. TypeOK /\ registryUp /\ AllDecoded /\ [Next]_vars => AllDecoded'
  <2> SUFFICES ASSUME TypeOK, registryUp, AllDecoded, [Next]_vars
               PROVE  AllDecoded'
    OBVIOUS
  <2>1. ASSUME NEW q \in Queries, NEW lost, Evaluate(q, lost)
        PROVE  undecoded' = undecoded
    <3>1. lost = {}
      BY <2>1 DEF Evaluate, DecodeFailures
    <3> QED
      BY <2>1, <3>1, QueriesAreNamed DEF Evaluate, TypeOK
  <2>2. "bronze" \in Queries => (AppendToDelta => undecoded' = undecoded)
    BY <2>1 DEF AppendToDelta, history
  <2>3. "realtime" \in Queries
          => (WriteToClickhouse \/ ClickhouseWriteFails => undecoded' = undecoded)
    BY <2>1 DEF WriteToClickhouse, ClickhouseWriteFails
  <2>4. ASSUME NEW q \in Queries, RunSink(q) PROVE undecoded' = undecoded
    BY <2>2, <2>3, <2>4 DEF RunSink
  <2>5. undecoded' = undecoded \/ \E q \in Queries : RunSink(q)
    BY DEF Next, vars, history, Produce, Expire, RegistryOutage, RegistryRecovers,
       WorkerReplaced, SubmitJob, Crash, Interrupt, StopBronze, StopRealtime,
       DeleteCheckpoint, QueryFails, PlanBatch, CommitBatch
  <2> QED
    BY <2>4, <2>5 DEF AllDecoded
<1> QED
  BY <1>1, <1>2, TypeCorrect, PTL DEF Spec

\* The README's "no records are lost" holds of Avro records that Kafka still
\* has, in spite of crashes, restarts, replays and worker replacements, as long
\* as the schema registry answers; the outage run shows what happens otherwise.
THEOREM RegistryUpLosesNothing == Spec /\ []registryUp => []NoRecordLost
<1>1. TypeOK /\ BronzeInv /\ AllDecoded => NoRecordLost
  <2> SUFFICES ASSUME TypeOK, BronzeInv, AllDecoded,
                      NEW o \in Offsets, o <= Covered, lo < o, log[o] # "foreign"
               PROVE  bronze[o] >= 1
    BY DEF NoRecordLost
  <2>1. lo \in Nat /\ o \in Nat
    BY ConstantsAssumption DEF TypeOK, Offsets
  <2> QED
    BY <2>1 DEF BronzeInv, BronzeAccounted, AllDecoded
<1> QED
  BY <1>1, NothingUndecoded, TypeCorrect, BronzeInvariant, PTL

\* What Kafka still has of the Avro records behind the query is once in Bronze.
ExactlyOnce ==
  \A o \in Offsets :
    o <= Covered /\ lo < o /\ log[o] # "foreign" => bronze[o] = 1

\* "Exactly-once" (README): it takes a registry that answers and a checkpoint
\* that nobody deletes, and nothing else.
THEOREM ExactlyOnceHolds == Spec /\ []registryUp /\ [](epoch = 1) => []ExactlyOnce
<1>1. TypeOK /\ BronzeInv /\ NoRecordLost /\ epoch = 1 => ExactlyOnce
  <2> SUFFICES ASSUME TypeOK, BronzeInv, NoRecordLost, epoch = 1,
                      NEW o \in Offsets, o <= Covered, lo < o, log[o] # "foreign"
               PROVE  bronze[o] = 1
    BY DEF ExactlyOnce
  <2>1. bronze[o] \in Nat /\ bronze[o] <= 1
    BY DEF TypeOK, BronzeInv, BronzeOnce
  <2>2. bronze[o] >= 1
    BY DEF NoRecordLost
  <2> QED
    BY <2>1, <2>2
<1> QED
  BY <1>1, RegistryUpLosesNothing, TypeCorrect, BronzeInvariant, PTL
-----------------------------------------------------------------------------
(* The two liveness properties without their fairness.                     *)

\* run() waits for both queries: while the job is up, none of them is down.
BothAlive == status = "up" => \A q \in Queries : phase[q] # "down"

\* The finally block goes on to the end of the process, never back.
StoppingGoesOn ==
  /\ status = "stopping" => status' \in {"stopping", "halfStopped", "down"}
  /\ status = "halfStopped" => status' \in {"halfStopped", "down"}

\* NoHalfJob without fairness: with a query down, the job is in its finally block,
\* from which the two stop() calls lead to its end.
THEOREM HalfJobIsStopping == Spec => []BothAlive /\ [][StoppingGoesOn]_vars
<1>1. Init => BothAlive
  BY DEF Init, BothAlive
<1>2. TypeOK /\ BothAlive /\ [Next]_vars => BothAlive' /\ [StoppingGoesOn]_vars
  <2> SUFFICES ASSUME TypeOK, BothAlive, [Next]_vars
               PROVE  BothAlive' /\ StoppingGoesOn
    OBVIOUS
  <2> USE QueriesAreNamed DEF TypeOK, BothAlive, StoppingGoesOn
  <2>1. CASE UNCHANGED <<status, phase>>
    BY <2>1
  <2>2. CASE SubmitJob
    BY <2>2 DEF SubmitJob, ResumePhase
  <2>3. CASE Crash \/ Interrupt
    BY <2>3 DEF Crash, Interrupt
  <2>4. CASE StopBronze \/ StopRealtime
    BY <2>4 DEF StopBronze, StopRealtime
  <2>5. ASSUME NEW q \in Queries, QueryFails(q) PROVE BothAlive' /\ StoppingGoesOn
    BY <2>5 DEF QueryFails, EndsJob
  <2>6. ASSUME NEW q \in Queries, NEW p,
               status' = status /\ p # "down" /\ phase' = [phase EXCEPT ![q] = p]
        PROVE  BothAlive' /\ StoppingGoesOn
    BY <2>6
  <2>7. ASSUME NEW q \in Queries, PlanBatch(q) \/ CommitBatch(q)
        PROVE  BothAlive' /\ StoppingGoesOn
    <3>1. status' = status /\ \E p \in {"running", "idle"} : phase' = [phase EXCEPT ![q] = p]
      BY <2>7 DEF PlanBatch, CommitBatch
    <3> QED
      BY <2>6, <3>1
  <2>8. ASSUME NEW q \in Queries, RunSink(q) PROVE BothAlive' /\ StoppingGoesOn
    <3>1. /\ status' = status
          /\ phase' = phase \/ phase' = [phase EXCEPT ![q] = "executed"]
      BY <2>8 DEF RunSink, AppendToDelta, WriteToClickhouse, ClickhouseWriteFails
    <3> QED
      BY <2>1, <2>6, <3>1
  <2>9. CASE \/ UNCHANGED vars \/ \E k \in Kinds : Produce(k)
             \/ Expire \/ RegistryOutage \/ RegistryRecovers \/ WorkerReplaced
             \/ DeleteCheckpoint
    BY <2>1, <2>9 DEF vars, driver, Produce, Expire, RegistryOutage, RegistryRecovers,
       WorkerReplaced, DeleteCheckpoint
  <2> QED
    BY <2>2, <2>3, <2>4, <2>5, <2>7, <2>8, <2>9 DEF Next
<1> QED
  BY <1>1, <1>2, TypeCorrect, PTL DEF Spec

\* A planned batch has records.
NonEmpty == \A q \in QueryNames : plan[q].batch > 0 => plan[q].from < plan[q].to

\* Planning happens only when there is something to read.
LEMMA NonEmptyKept == Spec => []NonEmpty
<1>1. Init => NonEmpty
  BY DEF Init, NonEmpty, NoPlan
<1>2. TypeOK /\ NonEmpty /\ [Next]_vars => NonEmpty'
  <2> SUFFICES ASSUME TypeOK, NonEmpty, [Next]_vars PROVE NonEmpty'
    OBVIOUS
  <2>1. plan' = plan \/ DeleteCheckpoint \/ \E r \in Queries : PlanBatch(r)
    BY DEF Next, vars, RunSink, Produce, Expire, RegistryOutage, RegistryRecovers,
         WorkerReplaced, SubmitJob, Crash, Interrupt, StopBronze, StopRealtime,
         QueryFails, AppendToDelta, WriteToClickhouse, ClickhouseWriteFails,
         CommitBatch, ckpt
  <2>2. CASE DeleteCheckpoint
    BY <2>2 DEF DeleteCheckpoint, NonEmpty, NoPlan
  <2>3. ASSUME NEW r \in Queries, PlanBatch(r) PROVE NonEmpty'
    <3> DEFINE from == BatchStart(r)
               to   == IF from + MaxBatch < Len(log) THEN from + MaxBatch ELSE Len(log)
    <3>1. /\ plan' = [plan EXCEPT ![r] = [batch |-> plan[r].batch + 1,
                                         from |-> from, to |-> to]]
          /\ from < Len(log)
      BY <2>3 DEF PlanBatch, HasInput
    <3>2. from \in Nat /\ Len(log) \in Nat /\ MaxBatch \in Nat \ {0}
      BY QueriesAreNamed, ConstantsAssumption DEF TypeOK, BatchStart
    <3>3. from < to
      BY <3>1, <3>2
    <3> HIDE DEF from, to
    <3>4. ASSUME NEW q \in QueryNames
          PROVE  plan'[q] = plan[q] \/ (plan'[q].from = from /\ plan'[q].to = to)
      BY <3>1, QueriesAreNamed DEF TypeOK
    <3> QED
      BY <3>3, <3>4 DEF NonEmpty
  <2> QED
    BY <2>1, <2>2, <2>3 DEF NonEmpty
<1> QED
  BY <1>1, <1>2, TypeCorrect, PTL DEF Spec

\* An idle query has a batch to plan as long as Kafka has a record it has not
\* passed, and an evaluation of its plan always has an outcome.
NothingBlocks ==
  \A q \in Queries :
    /\ phase[q] = "idle" => \A o \in Offsets :
         Committed(q) < o /\ lo < o /\ o <= Len(log) => HasInput(q)
    /\ phase[q] = "running" => \E lost \in SUBSET Framed(q) : lost \in DecodeFailures(Framed(q))

\* What brings a query forward: a run of the sink ends it or uses up one of the
\* attempts, a commit moves the position on, and nothing takes it back but a
\* deleted checkpoint.
GetsForward ==
  \A q \in Queries :
    /\ epoch' = epoch => Committed(q) <= Committed(q)'
    /\ CommitBatch(q) => Committed(q) < Committed(q)'
    /\ RunSink(q) => \/ phase'[q] = "executed"
                     \/ attempt < attempt' /\ attempt' < MaxTaskFailures

\* RunningJobCatchesUp without fairness: a failing registry or ClickHouse cannot
\* block a query, and every batch strictly advances it, after a bounded number of
\* attempts.
THEOREM BatchesAdvance == Spec => []NothingBlocks /\ [][GetsForward]_vars
<1>1. TypeOK /\ BronzeInv => NothingBlocks
  <2> SUFFICES ASSUME TypeOK, BronzeInv, NEW q \in Queries
               PROVE  /\ phase[q] = "idle" => \A o \in Offsets :
                           Committed(q) < o /\ lo < o /\ o <= Len(log) => HasInput(q)
                      /\ \E lost \in SUBSET Framed(q) : lost \in DecodeFailures(Framed(q))
    BY DEF NothingBlocks
  <2>1. /\ q \in QueryNames /\ plan[q] \in [batch : Nat, from : Nat, to : Nat]
        /\ lo \in Nat /\ Len(log) \in Nat
    BY QueriesAreNamed DEF TypeOK
  <2>2. ASSUME phase[q] = "idle", NEW o \in Offsets,
               Committed(q) < o, lo < o, o <= Len(log)
        PROVE  HasInput(q)
    <3>1. commit[q] = plan[q].batch
      BY <2>1, <2>2 DEF BronzeInv, PhaseInv
    <3>2. o \in Nat
      BY ConstantsAssumption DEF Offsets
    <3> QED
      BY <2>1, <2>2, <3>1, <3>2 DEF HasInput, BatchStart, Committed
  <2>3. ASSUME NEW S PROVE \E lost \in SUBSET S : lost \in DecodeFailures(S)
    <3>1. CASE warm \/ registryUp \/ S = {}
      <4>1. {} \in SUBSET S /\ {} \in DecodeFailures(S)
        BY <3>1 DEF DecodeFailures
      <4> QED
        BY <4>1
    <3>2. CASE ~(warm \/ registryUp \/ S = {})
      <4>1. S \in SUBSET S /\ S # {} /\ \A o \in S : \A p \in S \ S : o < p
        BY <3>2
      <4>2. S \in DecodeFailures(S)
        BY <3>2, <4>1 DEF DecodeFailures
      <4> QED
        BY <4>1, <4>2
    <3> QED
      BY <3>1, <3>2
  <2> QED
    BY <2>2, <2>3
<1>2. TypeOK /\ BronzeInv /\ RealtimeInv /\ NonEmpty /\ [Next]_vars => [GetsForward]_vars
  <2> SUFFICES ASSUME TypeOK, BronzeInv, RealtimeInv, NonEmpty, Next, NEW q \in Queries
               PROVE  /\ epoch' = epoch => Committed(q) <= Committed(q)'
                      /\ CommitBatch(q) => Committed(q) < Committed(q)'
                      /\ RunSink(q) => \/ phase'[q] = "executed"
                                       \/ attempt < attempt' /\ attempt' < MaxTaskFailures
    BY DEF GetsForward
  <2>1. /\ q \in QueryNames /\ plan[q] \in [batch : Nat, from : Nat, to : Nat]
        /\ commit[q] \in Nat /\ lo \in Nat /\ epoch \in Nat /\ attempt \in Nat
        /\ MaxTaskFailures \in Nat \ {0}
    BY QueriesAreNamed, ConstantsAssumption DEF TypeOK, Epochs
  <2>2. plan[q].from <= plan[q].to /\ (plan[q].batch = 0 => plan[q].to = 0)
    BY <2>1 DEF BronzeInv, RangeInv
  <2>3. CommitBatch(q) => Committed(q) < Committed(q)'
    <3> SUFFICES ASSUME CommitBatch(q) PROVE Committed(q) < Committed(q)'
      OBVIOUS
    <3>1. /\ phase[q] = "executed" /\ commit'[q] = plan[q].batch /\ plan' = plan
      BY <2>1 DEF CommitBatch, CommitReady, TypeOK
    <3>2. commit[q] + 1 = plan[q].batch
      BY <2>1, <3>1 DEF BronzeInv, PhaseInv
    <3>3. plan[q].from < plan[q].to
      BY <2>1, <3>2 DEF NonEmpty
    <3> QED
      BY <2>1, <3>1, <3>2, <3>3 DEF Committed
  <2>4. RunSink(q) => \/ phase'[q] = "executed"
                      \/ attempt < attempt' /\ attempt' < MaxTaskFailures
    <3>1. CASE q = "bronze" /\ AppendToDelta
      BY <2>1, <3>1 DEF AppendToDelta, TypeOK
    <3>2. CASE q = "realtime" /\ WriteToClickhouse
      BY <2>1, <3>2 DEF WriteToClickhouse, TypeOK
    <3>3. CASE q = "realtime" /\ ClickhouseWriteFails
      BY <2>1, <3>3 DEF ClickhouseWriteFails, RetriesLeft, TypeOK
    <3> QED
      BY <3>1, <3>2, <3>3 DEF RunSink
  <2>5. ASSUME epoch' = epoch PROVE Committed(q) <= Committed(q)'
    <3>1. Committed(q) \in Nat
      BY <2>1 DEF Committed
    <3>2. CASE UNCHANGED <<plan, commit>>
      BY <3>1, <3>2 DEF Committed
    <3>3. ~DeleteCheckpoint
      BY <2>1, <2>5 DEF DeleteCheckpoint
    <3>4. \/ UNCHANGED <<plan, commit>>
          \/ \E r \in Queries : PlanBatch(r) \/ CommitBatch(r)
      BY <3>3 DEF Next, RunSink, Produce, Expire, RegistryOutage, RegistryRecovers,
         WorkerReplaced, SubmitJob, Crash, Interrupt, StopBronze, StopRealtime,
         QueryFails, AppendToDelta, WriteToClickhouse, ClickhouseWriteFails, ckpt
    <3>5. ASSUME NEW r \in Queries, r # q, PlanBatch(r) \/ CommitBatch(r)
          PROVE  Committed(q) <= Committed(q)'
      <4>1. plan'[q] = plan[q] /\ commit'[q] = commit[q]
        BY <2>1, <3>5 DEF PlanBatch, CommitBatch, TypeOK
      <4> QED
        BY <3>1, <4>1 DEF Committed
    <3>6. ASSUME CommitBatch(q) PROVE Committed(q) <= Committed(q)'
      <4>1. commit'[q] = plan[q].batch /\ plan' = plan
        BY <2>1, <3>6 DEF CommitBatch, TypeOK
      <4> QED
        BY <2>1, <2>2, <4>1 DEF Committed
    <3>7. ASSUME PlanBatch(q) PROVE Committed(q) <= Committed(q)'
      <4>1. /\ phase[q] = "idle" /\ commit' = commit
            /\ plan'[q].batch = plan[q].batch + 1 /\ plan'[q].from = BatchStart(q)
        BY <2>1, <3>7 DEF PlanBatch, TypeOK
      <4>2. commit[q] = plan[q].batch
        BY <2>1, <4>1 DEF BronzeInv, PhaseInv
      <4>3. Committed(q)' = BatchStart(q) /\ Committed(q) = plan[q].to
        BY <2>1, <4>1, <4>2 DEF Committed
      <4> QED
        BY <2>1, <2>2, <4>3 DEF BatchStart
    <3> QED
      BY <3>2, <3>4, <3>5, <3>6, <3>7
  <2> QED
    BY <2>3, <2>4, <2>5
<1> QED
  BY <1>1, <1>2, TypeCorrect, BronzeInvariant, RealtimeInvariant, NonEmptyKept, PTL DEF Spec
=============================================================================
