------------------------- MODULE MCMedallionPipeline -------------------------
(* Instances of MedallionPipeline for TLC; the .cfg files give the constants, *)
(* this module the sets and functions that a .cfg cannot write.               *)
EXTENDS MedallionPipeline

\* a task of each kind that matters to the tables
Suspects == {"check_bronze_freshness", "run_dbt_silver_orders",
             "run_gold_users", "run_marts"}

OneRetry == [d \in Dags |-> 1]
AsCoded  == [d \in Dags |-> IF d = B2S THEN 2 ELSE 1]

\* runs per DAG: one of each, two of one of them
OneEach   == [d \in Dags |-> 1]
TwoSilver == [d \in Dags |-> IF d = B2S THEN 2 ELSE 1]
TwoGold   == [d \in Dags |-> IF d = B2S THEN 1 ELSE 2]
=============================================================================
