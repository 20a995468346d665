----------------------- MODULE CheckpointRunnerProofs -----------------------
(* Proof that the gate's verdict is the checkpoints', for any numbers of      *)
(* failed expectations.                                                       *)
EXTENDS CheckpointRunner, SequenceTheorems, TLAPS

\* A checkpoint fails the gate.
Bad(o) == o.raised \/ \E j \in DOMAIN o.failed : o.failed[j] > 0

\* What is asked for once a program runs.
Requests == {CHECKPOINTS} \cup {<<a>> : a \in Aliases}

GateTypes ==
  /\ program \in {"none", "main", "task"}
  /\ asked \in Seq({"bronze", "silver", "gold"})
  /\ strict \in BOOLEAN
  /\ came \in Seq(Outcomes)
  /\ Len(came) <= Len(asked)
  /\ anyFailed \in BOOLEAN
  /\ program = "none" => came = <<>> /\ verdict = "running"

\* any_failed, the results shown and stored tell of the checkpoints run so far.
ToldSoFar ==
  /\ anyFailed <=> \E i \in 1..Len(came) : Bad(came[i])
  /\ shown = {asked[i] : i \in {k \in 1..Len(came) : ~came[k].raised}}
  /\ stored \subseteq shown

\* The verdict is given behind the last checkpoint.
AtTheEnd ==
  verdict # "running" =>
    /\ Len(came) = Len(asked)
    /\ verdict = "bad" <=> strict /\ anyFailed

GateInv == GateTypes /\ ToldSoFar /\ AtTheEnd

-----------------------------------------------------------------------------
(* _parse_results adds up the failed expectations of the suites.             *)

\* A function on an interval that starts at 0 and adds the next count is the sum.
LEMMA TotalIsLast ==
  ASSUME NEW counts, Len(counts) \in Nat, NEW g,
         g = [i \in 0..Len(counts) |-> IF i = 0 THEN 0 ELSE g[i - 1] + counts[i]],
         \A f : f = [i \in 0..Len(counts) |-> IF i = 0 THEN 0 ELSE f[i - 1] + counts[i]]
                  => f[Len(counts)] = g[Len(counts)]
  PROVE  Total(counts) = g[Len(counts)]
<1> DEFINE sum == CHOOSE f : f = [i \in 0..Len(counts) |->
                                    IF i = 0 THEN 0 ELSE f[i - 1] + counts[i]]
<1>1. sum = [i \in 0..Len(counts) |-> IF i = 0 THEN 0 ELSE sum[i - 1] + counts[i]]
  OBVIOUS
<1>2. sum[Len(counts)] = g[Len(counts)]
  BY <1>1
<1> QED
  BY <1>2 DEF Total

\* The total of no suite.
LEMMA TotalOfNone == Total(<<>>) = 0
<1> DEFINE g == [i \in 0..0 |-> 0]
<1>1. Len(<<>>) = 0
  OBVIOUS
<1>2. g = [i \in 0..0 |-> IF i = 0 THEN 0 ELSE g[i - 1] + <<>>[i]]
  OBVIOUS
<1>3. \A f : f = [i \in 0..0 |-> IF i = 0 THEN 0 ELSE f[i - 1] + <<>>[i]] => f[0] = g[0]
  OBVIOUS
<1> HIDE DEF g
<1>4. Total(<<>>) = g[0]
  BY <1>1, <1>2, <1>3, TotalIsLast
<1> QED
  BY <1>4 DEF g

\* The total of one suite.
LEMMA TotalOfOne ==
  ASSUME NEW counts \in [1..1 -> Suites]
  PROVE  Total(counts) = counts[1]
<1> DEFINE g == [i \in 0..1 |-> IF i = 0 THEN 0 ELSE counts[1]]
<1>1. Len(counts) = 1 /\ counts[1] \in Nat
  <2>1. counts \in Seq(Suites) /\ DOMAIN counts = 1..1
    BY SeqDef
  <2>2. DOMAIN counts = 1..Len(counts) /\ Len(counts) \in Nat
    BY <2>1, LenProperties
  <2>3. Len(counts) = 1
    BY <2>1, <2>2
  <2>4. \A i \in 1..1 : counts[i] \in Suites
    OBVIOUS
  <2>5. \A i \in 1..1 : counts[i] \in Nat
    BY <2>4, SuitesAssumption
  <2> QED
    BY <2>3, <2>5
<1>2. g = [i \in 0..1 |-> IF i = 0 THEN 0 ELSE g[i - 1] + counts[i]]
  BY <1>1
<1>3. \A f : f = [i \in 0..1 |-> IF i = 0 THEN 0 ELSE f[i - 1] + counts[i]] => f[1] = g[1]
  BY <1>1
<1> HIDE DEF g
<1>4. Total(counts) = g[1]
  BY <1>1, <1>2, <1>3, TotalIsLast
<1> QED
  BY <1>4 DEF g

\* The total of two suites.
LEMMA TotalOfTwo ==
  ASSUME NEW counts \in [1..2 -> Suites]
  PROVE  Total(counts) = counts[1] + counts[2]
<1> DEFINE g == [i \in 0..2 |-> IF i = 0 THEN 0
                                ELSE IF i = 1 THEN counts[1] ELSE counts[1] + counts[2]]
<1>1. Len(counts) = 2 /\ counts[1] \in Nat /\ counts[2] \in Nat
  <2>1. counts \in Seq(Suites) /\ DOMAIN counts = 1..2
    BY SeqDef
  <2>2. DOMAIN counts = 1..Len(counts) /\ Len(counts) \in Nat
    BY <2>1, LenProperties
  <2>3. Len(counts) = 2
    BY <2>1, <2>2
  <2>4. \A i \in 1..2 : counts[i] \in Suites
    OBVIOUS
  <2>5. \A i \in 1..2 : counts[i] \in Nat
    BY <2>4, SuitesAssumption
  <2> QED
    BY <2>3, <2>5
<1>2. g = [i \in 0..2 |-> IF i = 0 THEN 0 ELSE g[i - 1] + counts[i]]
  BY <1>1
<1>3. \A f : f = [i \in 0..2 |-> IF i = 0 THEN 0 ELSE f[i - 1] + counts[i]] => f[2] = g[2]
  <2> TAKE f
  <2> HAVE f = [i \in 0..2 |-> IF i = 0 THEN 0 ELSE f[i - 1] + counts[i]]
  <2>1. f[0] = 0
    OBVIOUS
  <2>2. f[1] = counts[1]
    BY <2>1, <1>1
  <2>3. f[2] = f[1] + counts[2]
    OBVIOUS
  <2> QED
    BY <2>2, <2>3
<1> HIDE DEF g
<1>4. Total(counts) = g[2]
  BY <1>1, <1>2, <1>3, TotalIsLast
<1> QED
  BY <1>4 DEF g

\* One verdict on all suites: _parse_results says success exactly when no suite
\* holds a failed expectation.
LEMMA SuccessMeansNoFailure ==
  ASSUME NEW o \in Outcomes
  PROVE  /\ o.raised \in BOOLEAN
         /\ Success(o.failed) <=> ~\E j \in DOMAIN o.failed : o.failed[j] > 0
<1>1. /\ o.raised \in BOOLEAN
      /\ o.failed = <<>> \/ o.failed \in [1..1 -> Suites] \/ o.failed \in [1..2 -> Suites]
  BY DEF Outcomes
<1>2. CASE o.failed = <<>>
  BY <1>1, <1>2, TotalOfNone DEF Success
<1>3. CASE o.failed \in [1..1 -> Suites]
  <2>1. Total(o.failed) = o.failed[1]
    BY <1>3, TotalOfOne
  <2>2. DOMAIN o.failed = 1..1 /\ o.failed[1] \in Nat
    BY <1>3, SuitesAssumption
  <2> QED
    BY <1>1, <2>1, <2>2 DEF Success
<1>4. CASE o.failed \in [1..2 -> Suites]
  <2>1. Total(o.failed) = o.failed[1] + o.failed[2]
    BY <1>4, TotalOfTwo
  <2>2. DOMAIN o.failed = 1..2 /\ o.failed[1] \in Nat /\ o.failed[2] \in Nat
    BY <1>4, SuitesAssumption
  <2> QED
    BY <1>1, <2>1, <2>2 DEF Success
<1> QED
  BY <1>1, <1>2, <1>3, <1>4

-----------------------------------------------------------------------------
(* The loop over the checkpoints and the verdict behind it.                  *)

\* A program that has not begun has run and told nothing.
LEMMA InitGateInv == GateInit => GateInv
<1> SUFFICES ASSUME GateInit PROVE GateInv
  OBVIOUS
<1>1. /\ program = "none" /\ asked = <<>> /\ strict = FALSE /\ came = <<>>
      /\ anyFailed = FALSE /\ shown = {} /\ stored = {} /\ verdict = "running"
  BY DEF GateInit
<1>2. GateTypes
  <2>1. came \in Seq(Outcomes) /\ Len(came) = 0
    BY <1>1
  <2>2. asked \in Seq({"bronze", "silver", "gold"}) /\ Len(asked) = 0
    BY <1>1
  <2>3. strict \in BOOLEAN /\ anyFailed \in BOOLEAN
    BY <1>1
  <2>4. program \in {"none", "main", "task"} /\ verdict = "running" /\ came = <<>>
    BY <1>1
  <2>5. Len(came) <= Len(asked)
    BY <2>1, <2>2
  <2> QED
    BY <2>1, <2>2, <2>3, <2>4, <2>5 DEF GateTypes
<1>3. Len(came) = 0 /\ 1..Len(came) = {}
  BY <1>1
<1>4. ToldSoFar
  BY <1>1, <1>3 DEF ToldSoFar
<1> QED
  BY <1>1, <1>2, <1>4 DEF GateInv, AtTheEnd

\* Both programs begin with their list of checkpoints and nothing run.
LEMMA StartKeeps ==
  ASSUME GateInv, StartMain \/ StartTask
  PROVE  GateInv'
<1>1. /\ program = "none" /\ program' \in {"main", "task"}
      /\ asked' \in Requests /\ strict' \in BOOLEAN
      /\ UNCHANGED <<came, anyFailed, shown, stored, verdict>>
  BY DEF StartMain, StartTask, Requests
<1>2. asked' \in Seq({"bronze", "silver", "gold"})
  <2>1. CHECKPOINTS \in Seq({"bronze", "silver", "gold"})
    BY DEF CHECKPOINTS
  <2>2. Aliases \subseteq {"bronze", "silver", "gold"}
    <3>1. \A i \in DOMAIN CHECKPOINTS : CHECKPOINTS[i] \in {"bronze", "silver", "gold"}
      BY <2>1, LenProperties
    <3> QED
      BY <3>1 DEF Aliases
  <2>3. CASE asked' = CHECKPOINTS
    BY <2>1, <2>3
  <2>4. CASE \E a \in Aliases : asked' = <<a>>
    <3>1. PICK a \in Aliases : asked' = <<a>>
      BY <2>4
    <3>2. a \in {"bronze", "silver", "gold"}
      BY <2>2
    <3> QED
      BY <3>1, <3>2
  <2> QED
    BY <1>1, <2>3, <2>4 DEF Requests
<1>3. came = <<>> /\ verdict = "running" /\ Len(came) = 0
  BY <1>1 DEF GateInv, GateTypes
<1>4. GateTypes'
  BY <1>1, <1>2, <1>3 DEF GateInv, GateTypes
<1>5. ToldSoFar'
  BY <1>1, <1>3 DEF GateInv, ToldSoFar, Bad
<1> QED
  BY <1>1, <1>3, <1>4, <1>5 DEF GateInv, AtTheEnd

\* One more checkpoint: what is told includes it.
LEMMA RunNextKeeps ==
  ASSUME GateInv, RunNext
  PROVE  GateInv'
<1> DEFINE n == Len(came) + 1
<1>1. /\ program # "none" /\ verdict = "running" /\ Len(came) < Len(asked)
      /\ UNCHANGED <<program, asked, strict, verdict>>
  BY DEF RunNext, More
<1>2. PICK o \in Outcomes :
        /\ came' = Append(came, o)
        /\ anyFailed' = (anyFailed \/ o.raised \/ ~Success(o.failed))
        /\ shown' = IF o.raised THEN shown ELSE shown \cup {asked[n]}
        /\ IF program = "main" /\ ~o.raised
           THEN stored' \in {stored, stored \cup {asked[n]}}
           ELSE UNCHANGED stored
  BY DEF RunNext
<1>3. /\ came \in Seq(Outcomes) /\ Len(came) \in Nat /\ Len(asked) \in Nat
      /\ asked \in Seq({"bronze", "silver", "gold"}) /\ anyFailed \in BOOLEAN
  BY DEF GateInv, GateTypes
<1>4. /\ came' \in Seq(Outcomes) /\ Len(came') = n /\ n \in Nat /\ came'[n] = o
      /\ \A i \in 1..Len(came) : came'[i] = came[i]
  BY <1>2, <1>3
<1>5. o.raised \in BOOLEAN /\ (anyFailed' <=> anyFailed \/ Bad(o))
  BY <1>2, <1>3, SuccessMeansNoFailure DEF Bad
<1>6. GateTypes'
  <2>1. anyFailed' \in BOOLEAN
    BY <1>2, <1>3, <1>5 DEF Success
  <2> QED
    BY <2>1, <1>1, <1>3, <1>4 DEF GateInv, GateTypes
<1>7. anyFailed' <=> \E i \in 1..Len(came') : Bad(came'[i])
  <2>1. anyFailed <=> \E i \in 1..Len(came) : Bad(came[i])
    BY DEF GateInv, ToldSoFar
  <2>2. 1..Len(came') = (1..Len(came)) \cup {n}
    BY <1>3, <1>4
  <2>3. (\E i \in 1..Len(came) : Bad(came'[i])) <=> \E i \in 1..Len(came) : Bad(came[i])
    BY <1>4
  <2>4. Bad(came'[n]) <=> Bad(o)
    BY <1>4
  <2> QED
    BY <1>5, <2>1, <2>2, <2>3, <2>4
<1>8. shown' = {asked'[i] : i \in {k \in 1..Len(came') : ~came'[k].raised}}
  <2>1. shown = {asked[i] : i \in {k \in 1..Len(came) : ~came[k].raised}}
    BY DEF GateInv, ToldSoFar
  <2>2. {k \in 1..Len(came') : ~came'[k].raised} =
          {k \in 1..Len(came) : ~came[k].raised} \cup (IF o.raised THEN {} ELSE {n})
    BY <1>3, <1>4, <1>5
  <2>3. asked' = asked
    BY <1>1
  <2>4. CASE o.raised
    BY <1>2, <2>1, <2>2, <2>3, <2>4
  <2>5. CASE ~o.raised
    BY <1>2, <2>1, <2>2, <2>3, <2>5
  <2> QED
    BY <1>5, <2>4, <2>5
<1>9. stored' \subseteq shown'
  BY <1>2, <1>5 DEF GateInv, ToldSoFar
<1> QED
  BY <1>1, <1>6, <1>7, <1>8, <1>9 DEF GateInv, ToldSoFar, AtTheEnd

\* The verdict is any_failed's if the caller asked for it.
LEMMA FinishKeeps ==
  ASSUME GateInv, Finish
  PROVE  GateInv'
<1>1. /\ program # "none" /\ verdict = "running" /\ ~(Len(came) < Len(asked))
      /\ verdict' = IF strict /\ anyFailed THEN "bad" ELSE "good"
      /\ UNCHANGED <<program, asked, strict, came, anyFailed, shown, stored>>
  BY DEF Finish, More
<1>2. Len(came) = Len(asked)
  BY <1>1 DEF GateInv, GateTypes
<1>3. GateTypes' /\ ToldSoFar'
  BY <1>1 DEF GateInv, GateTypes, ToldSoFar, Bad
<1> QED
  BY <1>1, <1>2, <1>3 DEF GateInv, AtTheEnd

\* Every step keeps the gate's invariant.
LEMMA GateStepKeeps == GateInv /\ [GateNext]_gate => GateInv'
<1> SUFFICES ASSUME GateInv, [GateNext]_gate PROVE GateInv'
  OBVIOUS
<1>1. CASE GateNext
  BY <1>1, StartKeeps, RunNextKeeps, FinishKeeps DEF GateNext
<1>2. CASE UNCHANGED gate
  BY <1>2 DEF gate, GateInv, GateTypes, ToldSoFar, AtTheEnd, Bad
<1> QED
  BY <1>1, <1>2

\* The verdict stops the caller exactly when it asked for that and a checkpoint
\* raised or holds a failed expectation (run_checkpoints.py:157-180,
\* airflow_integration.py:10-77), for any numbers of failed expectations.
THEOREM GateIsTruthful == GateSpec => []GateTruthful
<1>1. GateInv => GateTruthful
  <2> SUFFICES ASSUME GateInv, verdict # "running"
               PROVE  GateTruthful
    BY DEF GateTruthful
  <2>1. Len(came) = Len(asked) /\ (verdict = "bad" <=> strict /\ anyFailed)
    BY DEF GateInv, AtTheEnd
  <2>2. DOMAIN asked = 1..Len(came)
    BY <2>1 DEF GateInv, GateTypes
  <2>3. anyFailed <=> \E i \in DOMAIN asked : Bad(came[i])
    BY <2>2 DEF GateInv, ToldSoFar
  <2>4. shown = {asked[i] : i \in {k \in DOMAIN asked : ~came[k].raised}}
    BY <2>2 DEF GateInv, ToldSoFar
  <2> QED
    BY <2>1, <2>3, <2>4 DEF GateInv, ToldSoFar, GateTruthful, Bad
<1> QED
  BY <1>1, InitGateInv, GateStepKeeps, PTL DEF GateSpec
=============================================================================
