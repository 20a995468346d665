--------------------------- MODULE ProducerQueue ---------------------------
(***************************************************************************)
(* How producer/event_producer.py hands events to Kafka: the main thread   *)
(* of main.py with its run loop, produce_event with its attempts and its   *)
(* dead-letter topic, and the local queue of librdkafka in between.        *)
(*                                                                         *)
(* A message occupies the local queue from produce() until poll() or       *)
(* flush() has served its delivery report, not only until the broker has   *)
(* it.  librdkafka is external; only the occupancy of its queue, its       *)
(* reports and its time-outs are modelled.  An event is its topic.         *)
(***************************************************************************)
EXTENDS Naturals

CONSTANTS
  Topics,        \* the keys of _serializers
  QueueLimit,    \* librdkafka's queue.buffering.max.messages
  Attempts,      \* range(3) in produce_event
  Rounds,        \* calls of run(): 2 in burst mode, 1 otherwise
  Timed          \* the calls that get a duration: 1 in burst mode, the last
                 \* one with --duration

ASSUME ProducerAssumption ==
  /\ QueueLimit \in Nat \ {0}
  /\ Attempts \in Nat \ {0}
  /\ Rounds \in Nat \ {0}

VARIABLES
  pc,         \* main thread: "load", "loop", "try", "deadLetter", "flush", "exited"
  round,      \* the current call of run()
  stop,       \* _stop_event
  topic,      \* topic of the event in hand (of the last one when there is none)
  failures,   \* failed attempts for the event in hand
  fate,       \* of the last event: "pending", "sent", "deadLettered", "dropped"
  cached,     \* topics whose schema id the AvroSerializer has
  queued,     \* messages in the local queue that the broker has not answered for
  reports,    \* delivery reports that no poll has served yet
  broker,     \* does Kafka answer?
  registry    \* does the schema registry answer?

thread   == <<pc, round, topic, failures, fate>>
local    == <<queued, reports>>
services == <<broker, registry>>
vars     == <<thread, stop, cached, local, services>>

Init ==
  /\ pc = "load"
  /\ round = 1
  /\ stop = FALSE
  /\ topic \in Topics
  /\ failures = 0
  /\ fate = "pending"
  /\ cached = {}
  /\ queued = 0
  /\ reports = 0
  /\ broker \in BOOLEAN
  /\ registry \in BOOLEAN

-----------------------------------------------------------------------------
(* The world: signals, Kafka, the schema registry.                         *)

\* SIGINT or SIGTERM: _shutdown of main.py, or the handlers run() installs.
Signal ==
  /\ ~stop
  /\ stop' = TRUE
  /\ UNCHANGED <<thread, cached, local, services>>

ServicesChange ==
  /\ broker' \in BOOLEAN /\ registry' \in BOOLEAN
  /\ services' # services
  /\ UNCHANGED <<thread, stop, cached, local>>

Answered ==
  /\ queued > 0
  /\ queued' = queued - 1
  /\ reports' = reports + 1
  /\ UNCHANGED <<thread, stop, cached, services>>

BrokerAcknowledges == broker /\ Answered

\* message.timeout.ms, or the retries that acks=all allows, are used up.
MessageTimesOut == ~broker /\ Answered

-----------------------------------------------------------------------------
(* run() and produce_event().                                              *)

\* load_reference_data: raises when PostgreSQL fails or is empty.
LoadReferenceData ==
  /\ pc = "load"
  /\ pc' \in {"loop", "exited"}
  /\ UNCHANGED <<round, topic, failures, fate, stop, cached, local, services>>

\* One turn of the loop that generates an event.
NextEvent ==
  /\ pc = "loop"
  /\ ~stop
  /\ pc' = "try"
  /\ topic' \in Topics
  /\ failures' = 0
  /\ fate' = "pending"
  /\ UNCHANGED <<round, stop, cached, local, services>>

\* The loop ends: stop event, or --duration has elapsed.
LeaveLoop ==
  /\ pc = "loop"
  /\ stop \/ round \in Timed
  /\ pc' = "flush"
  /\ UNCHANGED <<round, topic, failures, fate, stop, cached, local, services>>

Serializes_PreRegistered == topic \in cached   \* mutant: schemas are never registered

\* The AvroSerializer asks the registry once per subject.
Serializes == topic \in cached \/ registry

HasRoom_OneMore == queued + reports <= QueueLimit   \* mutant: off by one
HasRoom_Unserved == queued < QueueLimit   \* mutant: unserved reports take no room

\* produce() raises BufferError otherwise.
HasRoom == queued + reports < QueueLimit

\* produce() accepts the message and poll(0) serves every report there is.
Enqueue ==
  /\ queued' = queued + 1
  /\ reports' = 0
  /\ pc' = "loop"
  /\ UNCHANGED <<round, topic, failures, stop, services>>

SendEvent ==
  /\ pc = "try"
  /\ Serializes
  /\ HasRoom
  /\ Enqueue
  /\ fate' = "sent"
  /\ cached' = cached \cup {topic}

GivesUp_Never == FALSE   \* mutant: while True instead of range(3)

GivesUp == failures + 1 = Attempts

\* The serializer or produce() raises; sleep, then try again or give up.  The
\* serializer may have fetched its schema id before produce() found no room.
AttemptFails ==
  /\ pc = "try"
  /\ ~(Serializes /\ HasRoom)
  /\ failures' = IF failures + 1 < Attempts THEN failures + 1 ELSE failures
  /\ pc' = IF GivesUp THEN "deadLetter" ELSE "try"
  /\ cached' = IF Serializes THEN cached \cup {topic} ELSE cached
  /\ UNCHANGED <<round, topic, fate, stop, local, services>>

\* The event goes to dlq-orders or dlq-pageviews, as JSON and without callback.
DeadLetter ==
  /\ pc = "deadLetter"
  /\ HasRoom
  /\ Enqueue
  /\ fate' = "deadLettered"
  /\ UNCHANGED cached

\* produce() raises for the dead letter, too: except Exception: pass.
Drop ==
  /\ pc = "deadLetter"
  /\ ~HasRoom
  /\ pc' = "loop"
  /\ fate' = "dropped"
  /\ UNCHANGED <<round, topic, failures, stop, cached, local, services>>

\* burst mode runs twice, unless it was stopped.
AfterFlush == IF round < Rounds /\ ~stop THEN "load" ELSE "exited"

\* flush(30) polls until the queue is empty or the time is up.
FlushServes ==
  /\ pc = "flush"
  /\ reports > 0
  /\ reports' = 0
  /\ UNCHANGED <<thread, stop, cached, queued, services>>

FlushEnds ==
  /\ pc = "flush"
  /\ reports = 0
  /\ pc' = AfterFlush
  /\ round' = IF AfterFlush = "load" THEN round + 1 ELSE round
  /\ UNCHANGED <<topic, failures, fate, stop, cached, local, services>>

Main ==
  \/ LoadReferenceData
  \/ NextEvent
  \/ LeaveLoop
  \/ SendEvent
  \/ AttemptFails
  \/ DeadLetter
  \/ Drop
  \/ FlushServes
  \/ FlushEnds

Next == Signal \/ ServicesChange \/ BrokerAcknowledges \/ MessageTimesOut \/ Main

Spec == Init /\ [][Next]_vars

\* The main thread keeps running, every sleep and flush being bounded; Kafka
\* answers while it is up, and time-outs run while it is not.
Fairness ==
  /\ WF_vars(Main)
  /\ WF_vars(Answered)

FairSpec == Spec /\ Fairness
-----------------------------------------------------------------------------
(* Properties.                                                             *)

Full == queued + reports = QueueLimit

TypeOK ==
  /\ pc \in {"load", "loop", "try", "deadLetter", "flush", "exited"}
  /\ round \in 1..Rounds
  /\ stop \in BOOLEAN
  /\ topic \in Topics
  /\ failures \in 0..Attempts - 1
  /\ fate \in {"pending", "sent", "deadLettered", "dropped"}
  /\ cached \subseteq Topics
  /\ queued \in Nat
  /\ reports \in Nat
  /\ queued + reports <= QueueLimit
  /\ broker \in BOOLEAN
  /\ registry \in BOOLEAN

\* Only the flush at the end of run() ever makes room in a full local queue:
\* produce_event polls after a successful produce() and nowhere else.
FullUntilFlush == [][Full /\ ~Full' => pc = "flush"]_vars

\* SIGTERM ends the process, with Kafka, the registry or PostgreSQL down, with a
\* full queue, and in the middle of the attempts for an event.
StopTerminates == stop ~> (pc = "exited")

\* With Kafka and the registry back for good, events get through again, unless
\* the local queue is full of delivery reports.
StreamsUnlessWedged ==
  <>[](broker /\ registry) =>
    \/ <>(pc = "exited")
    \/ []<>(fate = "sent")
    \/ <>[](reports = QueueLimit)
=============================================================================
