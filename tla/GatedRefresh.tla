---------------------------- MODULE GatedRefresh ----------------------------
(***************************************************************************)
(* What a DAG of refresh tasks promises about its tables, without tasks,   *)
(* trigger rules, retries or Clears: each table holds the number of the    *)
(* run that last wrote it.  Every run has a gate, which it passes at most  *)
(* once; only behind it are tables written, with the run's own number, and *)
(* a table not before all tables of the layers it is built from.           *)
(***************************************************************************)
EXTENDS Naturals

CONSTANTS
  Tables,       \* the tables
  Layer(_)      \* their layers: a table is built from those of lower ones

VARIABLES
  current,      \* number of the latest run, 0 before the first
  open,         \* has the latest run passed its gate
  version       \* per table: number of the run that last wrote it

refreshVars == <<current, open, version>>

RefreshInit ==
  /\ current = 0
  /\ open = FALSE
  /\ version = [t \in Tables |-> 0]

NewRun ==
  /\ current' = current + 1
  /\ open' = FALSE
  /\ UNCHANGED version

PassGate ==
  /\ ~open
  /\ open' = TRUE
  /\ UNCHANGED <<current, version>>

Refresh(t) ==
  /\ open
  /\ \A u \in Tables : Layer(u) < Layer(t) => version[u] = current
  /\ version' = [version EXCEPT ![t] = current]
  /\ UNCHANGED <<current, open>>

RefreshNext == NewRun \/ PassGate \/ \E t \in Tables : Refresh(t)

RefreshSpec == RefreshInit /\ [][RefreshNext]_refreshVars
=============================================================================
