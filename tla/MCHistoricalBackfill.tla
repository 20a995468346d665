------------------------ MODULE MCHistoricalBackfill ------------------------
(* Instances of HistoricalBackfill for TLC: two tables, two years, and the    *)
(* rows' created_at, which a .cfg cannot write.                               *)
EXTENDS HistoricalBackfill

\* b and c are tied; e lies behind midnight of the last day asked for.
Created == [r \in Rows |->
              CASE r = "a" -> 0 [] r = "b" -> 1 [] r = "c" -> 1
                [] r = "d" -> 2 [] r = "e" -> 3 [] r = "u" -> 1]

Table == [r \in Rows |-> IF r = "u" THEN "users" ELSE "orders"]

\* day 1 is the first of a new year
Year == [d \in 0..2 |-> IF d < 1 THEN 2023 ELSE 2024]

Requests == {[start |-> 1, end |-> 2, tables |-> <<"orders">>],
             [start |-> 0, end |-> 1, tables |-> <<"users", "orders">>],
             [start |-> 1, end |-> 1, tables |-> <<"orders">>]}
=============================================================================
