--------------------------- MODULE MCOrdersIngest ---------------------------
(* An instance of OrdersToBronze for TLC.  The two queries write to different   *)
(* tables from checkpoints of their own and meet in the driver only, so       *)
(* StudySpec follows the batches of one of them at a time, to greater depth;  *)
(* the other is started, stopped and may fail, but has no batch.              *)
EXTENDS OrdersToBronze

VARIABLE studied   \* the query that has batches

KindsFor == [bronze |-> {"valid", "foreign"}, realtime |-> {"valid", "invalid"}]
DepthFor == [bronze |-> 3, realtime |-> 2]

Within ==
  /\ Len(log') <= DepthFor[studied]
  /\ log' # log => log'[Len(log')] \in KindsFor[studied]
  /\ \A q \in QueryNames \ {studied} : plan'[q] = plan[q]

StudySpec == /\ Init /\ studied \in QueryNames
             /\ [][Next /\ Within /\ UNCHANGED studied]_<<vars, studied>>
=============================================================================
