-------------------------- MODULE CheckpointRunner --------------------------
(***************************************************************************)
(* data_quality/run_checkpoints.py and airflow_integration.py: the Great   *)
(* Expectations checkpoints as a gate, run from the command line (main)    *)
(* and from a task (run_all_quality_checks).  Both go through the          *)
(* checkpoints one after the other and give their verdict at the end.      *)
(*                                                                         *)
(* A checkpoint comes to an exception, or to the validated suites, each    *)
(* with the number of expectations that failed.                            *)
(***************************************************************************)
EXTENDS Naturals, Sequences

CONSTANT Suites   \* numbers of failed expectations of a suite

ASSUME SuitesAssumption == Suites \subseteq Nat

VARIABLES
  program,    \* "none", "main", "task"
  asked,      \* to_run
  strict,     \* --fail-on-error
  came,       \* what the checkpoints run so far came to
  anyFailed,  \* any_failed
  shown,      \* checkpoints whose result was printed, or pushed as an XCom
  stored,     \* checkpoints with their suites in gx_validation_results
  verdict     \* "running", then the exit code or how the task ended

gate == <<program, asked, strict, came, anyFailed, shown, stored, verdict>>

CHECKPOINTS == <<"bronze", "silver", "gold">>
Aliases     == {CHECKPOINTS[i] : i \in DOMAIN CHECKPOINTS}

Outcomes ==
  [raised : {TRUE}, failed : {<<>>}] \cup
  [raised : {FALSE}, failed : {<<>>} \cup [1..1 -> Suites] \cup [1..2 -> Suites]]

GateInit ==
  /\ program = "none"
  /\ asked = <<>>
  /\ strict = FALSE
  /\ came = <<>>
  /\ anyFailed = FALSE
  /\ shown = {}
  /\ stored = {}
  /\ verdict = "running"

\* main: argparse; a checkpoint by name, or all of them.
StartMain ==
  /\ program = "none"
  /\ program' = "main"
  /\ asked' \in {CHECKPOINTS} \cup {<<a>> : a \in Aliases}
  /\ strict' \in BOOLEAN
  /\ UNCHANGED <<came, anyFailed, shown, stored, verdict>>

\* run_all_quality_checks, and the tasks for one checkpoint.
StartTask ==
  /\ program = "none"
  /\ program' = "task"
  /\ asked' \in {CHECKPOINTS} \cup {<<a>> : a \in Aliases}
  /\ strict' = TRUE
  /\ UNCHANGED <<came, anyFailed, shown, stored, verdict>>

Total(counts) ==
  LET sum[i \in 0..Len(counts)] == IF i = 0 THEN 0 ELSE sum[i - 1] + counts[i]
  IN  sum[Len(counts)]

Success_LastSuite(failed) == failed = <<>> \/ failed[Len(failed)] = 0   \* mutant: failed = fail_count

\* _parse_results: one verdict on all suites; with none evaluated it is a success.
Success(failed) == Total(failed) = 0

More_UnlessFailed == Len(came) < Len(asked) /\ ~anyFailed   \* mutant: the loop breaks at a failure

More == Len(came) < Len(asked)

\* run_checkpoint, then print and persist, or _execute, for the next alias.
\* _execute pushes before it raises.  _persist_results logs what PostgreSQL
\* does not take; only main calls it.
RunNext ==
  /\ program # "none"
  /\ verdict = "running"
  /\ More
  /\ LET alias == asked[Len(came) + 1]
     IN  \E o \in Outcomes :
           /\ came' = Append(came, o)
           /\ anyFailed' = (anyFailed \/ o.raised \/ ~Success(o.failed))
           /\ shown' = IF o.raised THEN shown ELSE shown \cup {alias}
           /\ IF program = "main" /\ ~o.raised
              THEN stored' \in {stored, stored \cup {alias}}
              ELSE UNCHANGED stored
  /\ UNCHANGED <<program, asked, strict, verdict>>

\* The exit code; AirflowException, or the task's return.
Finish ==
  /\ program # "none"
  /\ verdict = "running"
  /\ ~More
  /\ verdict' = IF strict /\ anyFailed THEN "bad" ELSE "good"
  /\ UNCHANGED <<program, asked, strict, came, anyFailed, shown, stored>>

GateNext == StartMain \/ StartTask \/ RunNext \/ Finish

GateSpec == GateInit /\ [][GateNext]_gate
-----------------------------------------------------------------------------
\* The verdict stops the caller exactly when it asked to be stopped and one of
\* the checkpoints it asked for raised or holds a failed expectation in any
\* suite, the first or the last; every checkpoint asked for has been run, and the
\* result of each that gave one was shown, a failed one before it or not.
GateTruthful ==
  verdict # "running" =>
    /\ verdict = "bad" <=>
         /\ strict
         /\ \E i \in DOMAIN asked :
              \/ came[i].raised
              \/ \E j \in DOMAIN came[i].failed : came[i].failed[j] > 0
    /\ Len(came) = Len(asked)
    /\ shown = {asked[i] : i \in {k \in DOMAIN asked : ~came[k].raised}}
    /\ stored \subseteq shown
=============================================================================
