------------------------ MODULE ProducerQueueProofs ------------------------
(***************************************************************************)
(* Proofs about ProducerQueue: the local queue keeps its bound, once it is *)
(* full nothing but the flush at the end of run() makes room again, and a  *)
(* stop signal ends the process within a bounded number of steps, none of  *)
(* which is blocked, for every size of the queue and number of attempts.   *)
(***************************************************************************)
EXTENDS ProducerQueue, Integers, TLAPS

\* The variables have their types; messages in flight and unserved delivery
\* reports together never exceed the local queue's limit.
THEOREM QueueTypeCorrect == Spec => []TypeOK
<1>1. Init => TypeOK
  <2> SUFFICES ASSUME Init PROVE TypeOK
    OBVIOUS
  <2>1. round \in 1..Rounds /\ failures \in 0..Attempts - 1
    BY ProducerAssumption DEF Init
  <2>2. queued \in Nat /\ reports \in Nat /\ queued + reports <= QueueLimit
    BY ProducerAssumption DEF Init
  <2>3. stop \in BOOLEAN /\ cached \subseteq Topics
    BY DEF Init
  <2> QED
    BY <2>1, <2>2, <2>3 DEF Init, TypeOK
<1>2. TypeOK /\ [Next]_vars => TypeOK'
  <2> SUFFICES ASSUME TypeOK, [Next]_vars PROVE TypeOK'
    OBVIOUS
  <2> USE DEF TypeOK
  <2>1. CASE Signal
    BY <2>1 DEF Signal, thread, local, services
  <2>2. CASE ServicesChange
    BY <2>2 DEF ServicesChange, thread, local
  <2>3. CASE BrokerAcknowledges \/ MessageTimesOut
    BY <2>3 DEF BrokerAcknowledges, MessageTimesOut, Answered, thread, services
  <2>4. CASE LoadReferenceData
    BY <2>4 DEF LoadReferenceData, local, services
  <2>5. CASE NextEvent
    BY <2>5, ProducerAssumption DEF NextEvent, local, services
  <2>6. CASE LeaveLoop
    BY <2>6 DEF LeaveLoop, local, services
  <2>7. CASE SendEvent
    <3>1. queued' \in Nat /\ reports' \in Nat /\ queued' + reports' <= QueueLimit
      BY <2>7, ProducerAssumption DEF SendEvent, Enqueue, HasRoom
    <3>2. cached' \subseteq Topics
      BY <2>7 DEF SendEvent
    <3> QED
      BY <2>7, <3>1, <3>2 DEF SendEvent, Enqueue, services
  <2>8. CASE AttemptFails
    <3>1. failures' \in 0..Attempts - 1
      BY <2>8, ProducerAssumption DEF AttemptFails
    <3>2. pc' \in {"deadLetter", "try"}
      BY <2>8 DEF AttemptFails
    <3>3. cached' \subseteq Topics
      BY <2>8 DEF AttemptFails
    <3> QED
      BY <2>8, <3>1, <3>2, <3>3 DEF AttemptFails, local, services
  <2>9. CASE DeadLetter
    <3>1. queued' \in Nat /\ reports' \in Nat /\ queued' + reports' <= QueueLimit
      BY <2>9, ProducerAssumption DEF DeadLetter, Enqueue, HasRoom
    <3> QED
      BY <2>9, <3>1 DEF DeadLetter, Enqueue, services
  <2>10. CASE Drop
    BY <2>10 DEF Drop, local, services
  <2>11. CASE FlushServes
    <3>1. reports' \in Nat /\ queued' = queued /\ queued' + reports' <= QueueLimit
      BY <2>11, ProducerAssumption DEF FlushServes
    <3> QED
      BY <2>11, <3>1 DEF FlushServes, thread, services
  <2>12. CASE FlushEnds
    <3>1. round' \in 1..Rounds
      BY <2>12, ProducerAssumption DEF FlushEnds, AfterFlush
    <3>2. pc' \in {"load", "exited"}
      BY <2>12 DEF FlushEnds, AfterFlush
    <3> QED
      BY <2>12, <3>1, <3>2 DEF FlushEnds, local, services
  <2>13. CASE UNCHANGED vars
    BY <2>13 DEF vars, thread, local, services
  <2> QED
    BY <2>1, <2>2, <2>3, <2>4, <2>5, <2>6, <2>7, <2>8, <2>9, <2>10, <2>11,
       <2>12, <2>13 DEF Next, Main
<1> QED
  BY <1>1, <1>2, PTL DEF Spec

\* What FullUntilFlush says of one step.
RoomNeedsFlush == Full /\ ~Full' => pc = "flush"

\* A full local queue stays full until the flush: neither Kafka coming back nor
\* further events, dead letters or drops make room.
THEOREM FullStaysFull == Spec => FullUntilFlush
<1>1. TypeOK /\ [Next]_vars => [RoomNeedsFlush]_vars
  <2> SUFFICES ASSUME TypeOK, Next, Full, ~Full' PROVE pc = "flush"
    BY DEF RoomNeedsFlush
  <2>1. ~(BrokerAcknowledges \/ MessageTimesOut)
    BY DEF BrokerAcknowledges, MessageTimesOut, Answered, Full, TypeOK
  <2>2. ~SendEvent /\ ~DeadLetter
    BY ProducerAssumption DEF SendEvent, DeadLetter, HasRoom, Full, TypeOK
  <2>3. ~(\/ Signal \/ ServicesChange \/ LoadReferenceData \/ NextEvent
          \/ LeaveLoop \/ AttemptFails \/ Drop)
    BY DEF Signal, ServicesChange, LoadReferenceData, NextEvent, LeaveLoop,
           AttemptFails, Drop, Full, local
  <2>4. FlushServes \/ FlushEnds
    BY <2>1, <2>2, <2>3 DEF Next, Main
  <2> QED
    BY <2>4 DEF FlushServes, FlushEnds
<1>2. [RoomNeedsFlush]_vars <=> [Full /\ ~Full' => pc = "flush"]_vars
  BY DEF RoomNeedsFlush
<1> QED
  BY <1>1, <1>2, QueueTypeCorrect, PTL DEF Spec, FullUntilFlush

-----------------------------------------------------------------------------
(* What StopTerminates needs besides fairness: behind a stop signal the main *)
(* thread has a bounded number of steps left.                                *)

\* A bound on the steps that the main thread takes until it exits, once it is told
\* to stop: the attempts of the event in hand, its dead letter, the end of the loop,
\* and two rounds of the flush for each message that is still unanswered.
Remaining ==
  IF pc = "exited" THEN 0
  ELSE IF pc = "flush" THEN 1 + 2 * queued + (IF reports > 0 THEN 1 ELSE 0)
  ELSE IF pc = "loop" THEN 2 * QueueLimit + 2
  ELSE IF pc = "try" THEN 2 * QueueLimit + 3 + (Attempts - failures)
  ELSE 2 * QueueLimit + 3

MostRemaining == 2 * QueueLimit + 3 + Attempts

\* The bound is never exceeded, and is used up exactly when the process has ended.
StopBound ==
  /\ Remaining \in 0..MostRemaining
  /\ Remaining = 0 <=> pc = "exited"

\* A stop is not taken back; from then on every step of the main thread uses up some
\* of the bound, and neither the broker nor the registry gives any of it back.
StopCounts ==
  stop => /\ stop'
          /\ Remaining' <= Remaining
          /\ Main => Remaining' < Remaining

\* The condition under which each action of Main can take its step, whatever stop and
\* the services say.  The sets that LoadReferenceData and NextEvent choose from are
\* not empty: a topic is in hand.
MainCanStep ==
  \/ pc = "load"                                             \* LoadReferenceData
  \/ pc = "loop" /\ ~stop /\ Topics # {}                     \* NextEvent
  \/ pc = "loop" /\ (stop \/ round \in Timed)                \* LeaveLoop
  \/ pc = "try" /\ Serializes /\ HasRoom                     \* SendEvent
  \/ pc = "try" /\ ~(Serializes /\ HasRoom)                  \* AttemptFails
  \/ pc = "deadLetter" /\ HasRoom                            \* DeadLetter
  \/ pc = "deadLetter" /\ ~HasRoom                           \* Drop
  \/ pc = "flush" /\ reports > 0                             \* FlushServes
  \/ pc = "flush" /\ reports = 0                             \* FlushEnds

\* Until the process has ended the main thread is never blocked: not by a full queue,
\* nor by a broker or a registry that does not answer.
NeverBlocked == pc # "exited" => MainCanStep

\* The bound of each place in the code, as numbers.
LEMMA RemainingAt ==
  ASSUME TypeOK
  PROVE  /\ pc = "exited" => Remaining = 0
         /\ pc = "flush" /\ reports = 0 => Remaining = 1 + 2 * queued
         /\ pc = "flush" /\ reports > 0 => Remaining = 2 + 2 * queued
         /\ pc = "loop" => Remaining = 2 * QueueLimit + 2
         /\ pc = "try" => Remaining = 2 * QueueLimit + 3 + (Attempts - failures)
         /\ pc \in {"load", "deadLetter"} => Remaining = 2 * QueueLimit + 3
BY DEF Remaining, TypeOK

\* event_producer.py:317-360, main.py: with Kafka, the registry and PostgreSQL in any
\* condition, at most MostRemaining steps of the main thread lie between a stop
\* signal and the end of the process, and none of them has to wait for anybody, for
\* any size of the local queue.
THEOREM StopIsBounded == Spec => [](StopBound /\ NeverBlocked) /\ [][StopCounts]_vars
<1> USE ProducerAssumption
<1>0. ASSUME TypeOK PROVE NeverBlocked
  BY <1>0 DEF NeverBlocked, MainCanStep, TypeOK
<1>1. ASSUME TypeOK PROVE StopBound
  BY <1>1, RemainingAt DEF StopBound, MostRemaining, TypeOK
<1>2. ASSUME TypeOK, TypeOK', stop, Main PROVE stop' /\ Remaining' < Remaining
  <2> USE DEF TypeOK
  <2>1. CASE LoadReferenceData
    <3>1. Remaining = 2 * QueueLimit + 3 /\ pc' \in {"loop", "exited"} /\ stop' = stop
      BY <1>2, <2>1, RemainingAt DEF LoadReferenceData
    <3>2. Remaining' = 2 * QueueLimit + 2 \/ Remaining' = 0
      BY <3>1 DEF Remaining
    <3> QED
      BY <1>2, <3>1, <3>2
  <2>2. CASE NextEvent
    BY <1>2, <2>2 DEF NextEvent
  <2>3. CASE LeaveLoop
    <3>1. Remaining = 2 * QueueLimit + 2 /\ pc' = "flush" /\ stop' = stop
          /\ queued' = queued /\ reports' = reports
      BY <1>2, <2>3, RemainingAt DEF LeaveLoop, local
    <3>2. Remaining' <= 1 + 2 * QueueLimit
      <4>1. CASE reports = 0
        BY <1>2, <3>1, <4>1 DEF Remaining
      <4>2. CASE reports > 0
        BY <1>2, <3>1, <4>2 DEF Remaining
      <4> QED
        BY <1>2, <4>1, <4>2
    <3>3. Remaining' \in Nat
      BY <1>2, <3>1 DEF Remaining
    <3> QED
      BY <1>2, <3>1, <3>2, <3>3
  <2>4. CASE SendEvent
    BY <1>2, <2>4, RemainingAt DEF SendEvent, Enqueue, Remaining
  <2>5. CASE AttemptFails
    BY <1>2, <2>5, RemainingAt DEF AttemptFails, GivesUp, Remaining
  <2>6. CASE DeadLetter
    BY <1>2, <2>6, RemainingAt DEF DeadLetter, Enqueue, Remaining
  <2>7. CASE Drop
    BY <1>2, <2>7, RemainingAt DEF Drop, Remaining
  <2>8. CASE FlushServes
    BY <1>2, <2>8, RemainingAt DEF FlushServes, thread, Remaining
  <2>9. CASE FlushEnds
    BY <1>2, <2>9, RemainingAt DEF FlushEnds, AfterFlush, Remaining
  <2> QED
    BY <1>2, <2>1, <2>2, <2>3, <2>4, <2>5, <2>6, <2>7, <2>8, <2>9 DEF Main
<1>3. ASSUME TypeOK, TypeOK', stop, [Next]_vars, ~Main PROVE stop' /\ Remaining' <= Remaining
  <2>1. CASE Signal \/ ServicesChange \/ UNCHANGED vars
    <3>1. stop' /\ UNCHANGED <<pc, failures, queued, reports>>
      BY <1>3, <2>1 DEF Signal, ServicesChange, thread, local, vars
    <3>2. Remaining' = Remaining /\ Remaining \in Int
      BY <1>1, <1>3, <3>1 DEF Remaining, StopBound, MostRemaining
    <3> QED
      BY <3>1, <3>2
  <2>2. CASE BrokerAcknowledges \/ MessageTimesOut
    <3>1. /\ stop' /\ UNCHANGED <<pc, failures>>
          /\ queued > 0 /\ queued' = queued - 1 /\ reports' = reports + 1
      BY <1>3, <2>2 DEF BrokerAcknowledges, MessageTimesOut, Answered, thread
    <3>2. CASE pc = "flush"
      <4>1. Remaining >= 1 + 2 * queued /\ Remaining \in Int
        BY <1>3, <3>2, RemainingAt DEF TypeOK
      <4>2. Remaining' <= 2 + 2 * (queued - 1)
        BY <1>3, <3>1, <3>2 DEF Remaining, TypeOK
      <4>3. Remaining' \in Int
        BY <1>3, <3>1, <3>2 DEF Remaining, TypeOK
      <4> QED
        BY <1>3, <3>1, <4>1, <4>2, <4>3 DEF TypeOK
    <3>3. CASE pc # "flush"
      <4>1. Remaining' = Remaining /\ Remaining \in Int
        BY <1>1, <1>3, <3>1, <3>3 DEF Remaining, StopBound, MostRemaining
      <4> QED
        BY <3>1, <4>1
    <3> QED
      BY <3>2, <3>3
  <2> QED
    BY <1>3, <2>1, <2>2 DEF Next
<1>4. ASSUME TypeOK, TypeOK', [Next]_vars PROVE [StopCounts]_vars
  <2>1. CASE ~stop
    BY <2>1 DEF StopCounts
  <2>2. CASE stop /\ Main
    <3>1. stop' /\ Remaining' < Remaining
      BY <1>2, <1>4, <2>2
    <3>2. Remaining \in Int /\ Remaining' \in Int
      BY <1>1, <1>4, <3>1, RemainingAt DEF StopBound, MostRemaining, Remaining, TypeOK
    <3> QED
      BY <3>1, <3>2 DEF StopCounts
  <2>3. CASE stop /\ ~Main
    BY <1>3, <1>4, <2>3 DEF StopCounts
  <2> QED
    BY <2>1, <2>2, <2>3
<1> QED
  BY <1>0, <1>1, <1>4, QueueTypeCorrect, PTL DEF Spec

-----------------------------------------------------------------------------
(* What StreamsUnlessWedged needs besides fairness.                        *)

\* With the registry back an attempt succeeds unless the local queue is full.
SendsUnlessFull == registry /\ pc = "try" /\ Main => fate' = "sent" \/ Full

\* In a full queue messages only turn into reports, one with every answer of the broker,
\* until they are all that is left, or the loop is over.
FullOfReports ==
  Full /\ pc # "flush" =>
    /\ Full'
    /\ reports <= reports'
    /\ Answered => reports < reports'

\* event_producer.py:331-346: behind an outage events get through again, unless the
\* queue has filled up; then no event does, and it ends up full of reports that nobody
\* serves, for any size of the queue and number of attempts.
THEOREM SendsOrWedges == Spec => [][SendsUnlessFull /\ FullOfReports]_vars
<1>1. ASSUME TypeOK, [Next]_vars PROVE [SendsUnlessFull /\ FullOfReports]_vars
  <2> USE <1>1, ProducerAssumption DEF TypeOK
  <2>1. ASSUME registry, pc = "try", Main, ~Full PROVE fate' = "sent"
    <3>1. Serializes /\ HasRoom
      BY <2>1 DEF Serializes, HasRoom, Full
    <3>2. SendEvent
      BY <2>1, <3>1
         DEF Main, LoadReferenceData, NextEvent, LeaveLoop, AttemptFails, DeadLetter,
             Drop, FlushServes, FlushEnds
    <3> QED
      BY <3>2 DEF SendEvent
  <2>2. ASSUME Full, pc # "flush" PROVE Full' /\ reports <= reports' /\ (Answered => reports < reports')
    <3>1. ~SendEvent /\ ~DeadLetter /\ ~FlushServes /\ ~FlushEnds
      BY <2>2 DEF SendEvent, DeadLetter, FlushServes, FlushEnds, HasRoom, Full
    <3>2. CASE BrokerAcknowledges \/ MessageTimesOut
      BY <2>2, <3>2 DEF BrokerAcknowledges, MessageTimesOut, Answered, Full
    <3>3. CASE \/ Signal \/ ServicesChange \/ LoadReferenceData \/ NextEvent
               \/ LeaveLoop \/ AttemptFails \/ Drop \/ UNCHANGED vars
      <4>1. queued' = queued /\ reports' = reports
        BY <3>3 DEF Signal, ServicesChange, LoadReferenceData, NextEvent, LeaveLoop,
                    AttemptFails, Drop, vars, local
      <4> QED
        BY <2>2, <4>1 DEF Full, Answered
    <3> QED
      BY <3>1, <3>2, <3>3 DEF Next, Main
  <2> QED
    BY <2>1, <2>2 DEF SendsUnlessFull, FullOfReports
<1> QED
  BY <1>1, QueueTypeCorrect, PTL DEF Spec
=============================================================================
