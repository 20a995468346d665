---------------------------- MODULE OrderEvents ----------------------------
(***************************************************************************)
(* What producer/event_producer.py says about its orders.  The producer    *)
(* remembers the last orders it has made up, with their status, and now    *)
(* and then moves one of them on and sends an event about it.  The status  *)
(* in memory has changed before the event is produced, and nothing takes   *)
(* it back when the event does not arrive.                                 *)
(*                                                                         *)
(* ProducerQueue has the loop, the attempts and the queue's occupancy; this*)
(* module follows the content: the events' fields as far as their Avro     *)
(* schemas constrain them, and the topic order-status as a consumer reads  *)
(* it.  The key is order_id, so the events of an order share a partition;  *)
(* one partition is modelled.                                              *)
(***************************************************************************)
EXTENDS Integers, Sequences

CONSTANTS
  MaxRecent,   \* maxlen of recent_orders
  MaxOrders,   \* bound: orders ever placed
  QueueLimit,  \* bound: events of this partition that librdkafka holds
  Quantities   \* the values of previous_quantity, 0..500 in the program

ASSUME OrderEventsAssumption ==
  /\ MaxRecent \in Nat \ {0}
  /\ MaxOrders \in Nat
  /\ QueueLimit \in Nat
  /\ Quantities \subseteq Nat

Orders == 1..MaxOrders

VARIABLES
  placed,   \* orders placed so far; they are numbered
  recent,   \* recent_orders, oldest first: [order, status]
  hand,     \* the event between generate_* and the end of produce_event
  line,     \* events for the partition in the order produced: in librdkafka, or
            \* lost, which leaves a mark until its turn (history)
  told,     \* per order: the new_status of its last event in the topic
  missing   \* history, per order: the event after that one was lost

memory == <<placed, recent>>
topic  == <<told, missing>>
vars   == <<memory, hand, line, topic>>

NoEvent   == [topic |-> "none"]
Elsewhere == [topic |-> "other"]   \* an event for orders, pageviews or inventory

Init ==
  /\ placed = 0
  /\ recent = <<>>
  /\ hand = NoEvent
  /\ line = <<>>
  /\ told = [o \in Orders |-> "none"]
  /\ missing = [o \in Orders |-> FALSE]

-----------------------------------------------------------------------------
(* The events that the generators draw, without what no schema constrains. *)

\* The weights of platform leave WEB alone on a desktop or a tablet.
OrderDraws ==
  {[payment |-> p, device |-> d[1], platform |-> d[2]] :
     p \in {"EWALLET", "CREDIT_CARD", "BANK_TRANSFER", "COD", "DEBIT_CARD"},
     d \in ({"MOBILE"} \X {"IOS", "ANDROID", "WEB"})
             \cup ({"DESKTOP", "TABLET"} \X {"WEB"})}

\* PROFILE has weight 0.  A detail page has a product, a search has a query.
PageviewDraws ==
  {[user |-> u, page |-> p, device |-> d,
    product |-> IF p = "PRODUCT_DETAIL" THEN "product" ELSE "null",
    query   |-> IF p = "SEARCH" THEN "query" ELSE "null"] :
     u \in {"user", "null"},
     p \in {"HOME", "CATEGORY", "PRODUCT_DETAIL", "SEARCH", "CART", "CHECKOUT",
            "ORDER_CONFIRMATION"},
     d \in {"MOBILE", "DESKTOP", "TABLET"}}

\* change_reason and the changes of the stock it goes with
Deltas == [SALE |-> -5..-1, RESTOCK |-> 50..500, ADJUSTMENT |-> -10..10,
           RETURN |-> 1..10, DAMAGE |-> -20..-1]

NewQuantity_Unfloored(q, delta) == q + delta   \* mutant: max(0, ..) is left out

NewQuantity(q, delta) == IF q + delta < 0 THEN 0 ELSE q + delta

InventoryDraws ==
  UNION {{[reason |-> r, before |-> q, after |-> NewQuantity(q, delta),
           reference |-> IF r \in {"SALE", "RESTOCK"} THEN "uuid" ELSE "null"] :
            q \in Quantities, delta \in Deltas[r]} : r \in DOMAIN Deltas}

\* flow: where an order goes next, and 5 % of the first two are cancelled.
\* It may also stay, and an event says so.
flow == [PENDING |-> "CONFIRMED", CONFIRMED |-> "PROCESSING",
         PROCESSING |-> "SHIPPED", SHIPPED |-> "DELIVERED"]

\* new_status; empty for an order that has come to its end (return None).
NewStatuses(s) ==
  IF s \in DOMAIN flow
  THEN {s, flow[s]} \cup (IF s \in {"PENDING", "CONFIRMED"} THEN {"CANCELLED"} ELSE {})
  ELSE {}

StatusUpdated_ReadAfter(entry, new) ==   \* mutant: the previous status is read too late
  [topic |-> "order-status", order |-> entry.order, prev |-> new, new |-> new,
   lost |-> FALSE]

StatusUpdated(entry, new) ==
  [topic |-> "order-status", order |-> entry.order, prev |-> entry.status,
   new |-> new, lost |-> FALSE]

-----------------------------------------------------------------------------
(* The process.                                                            *)

Generating == hand = NoEvent   \* run() is between two events

\* deque.append with maxlen: the oldest order falls out.
Remember(o) ==
  LET longer == Append(recent, [order |-> o, status |-> "PENDING"])
  IN  recent' = IF Len(longer) > MaxRecent THEN Tail(longer) ELSE longer

\* generate_order_event, which remembers the order before it is produced.
GenerateOrderEvent ==
  /\ Generating
  /\ placed < MaxOrders
  /\ placed' = placed + 1
  /\ Remember(placed + 1)
  /\ hand' = Elsewhere
  /\ UNCHANGED <<line, topic>>

\* generate_pageview_event, generate_inventory_event: no order is concerned.
GenerateOtherEvent ==
  /\ Generating
  /\ hand' = Elsewhere
  /\ UNCHANGED <<memory, line, topic>>

Updated_NotKept(i, new) == recent   \* mutant: order["status"] is not set

Updated(i, new) == [recent EXCEPT ![i].status = new]

\* generate_status_update_event
GenerateStatusUpdateEvent ==
  /\ Generating
  /\ \E i \in DOMAIN recent :
       \E new \in NewStatuses(recent[i].status) :
         /\ hand' = StatusUpdated(recent[i], new)
         /\ recent' = Updated(i, new)
  /\ UNCHANGED <<placed, line, topic>>

Lost(e) == [e EXCEPT !.lost = TRUE]

\* produce_event, whose result run() does not look at: the event is in the
\* local queue, or in a dead-letter topic, or nowhere.
ProduceEvent ==
  /\ hand # NoEvent
  /\ hand' = NoEvent
  /\ IF hand.topic = "order-status"
     THEN /\ Len(line) < QueueLimit
          /\ \E e \in {hand, Lost(hand)} : line' = Append(line, e)
     ELSE UNCHANGED line
  /\ UNCHANGED <<memory, topic>>

\* The process is killed, or has stopped and flush(30) has run out of time:
\* what the broker does not have by now never gets there.  docker compose starts
\* it again (restart: unless-stopped), and it remembers no order.
Restart ==
  /\ recent' = <<>>
  /\ hand' = NoEvent
  /\ line' = [i \in DOMAIN line |-> Lost(line[i])]
  /\ UNCHANGED <<placed, topic>>

-----------------------------------------------------------------------------
(* librdkafka and Kafka.                                                   *)

NextOut_Any == DOMAIN line   \* mutant: enable.idempotence is off

\* enable.idempotence: a retried batch does not overtake an earlier one.
NextOut == DOMAIN line \cap {1}

Without(i) == SubSeq(line, 1, i - 1) \o SubSeq(line, i + 1, Len(line))

Deliver(i) ==
  /\ ~line[i].lost
  /\ told' = [told EXCEPT ![line[i].order] = line[i].new]
  /\ missing' = [missing EXCEPT ![line[i].order] = FALSE]
  /\ line' = Without(i)
  /\ UNCHANGED <<memory, hand>>

\* The turn of a lost event.
PassOver(i) ==
  /\ line[i].lost
  /\ missing' = [missing EXCEPT ![line[i].order] = TRUE]
  /\ line' = Without(i)
  /\ UNCHANGED <<memory, hand, told>>

\* message.timeout.ms or a broker error; _delivery_report only counts it.
DeliveryFails(i) ==
  /\ ~line[i].lost
  /\ line' = [line EXCEPT ![i] = Lost(@)]
  /\ UNCHANGED <<memory, hand, topic>>

Next ==
  \/ GenerateOrderEvent
  \/ GenerateOtherEvent
  \/ GenerateStatusUpdateEvent
  \/ ProduceEvent
  \/ Restart
  \/ \E i \in NextOut : Deliver(i) \/ PassOver(i)
  \/ \E i \in DOMAIN line : DeliveryFails(i)

Spec == Init /\ [][Next]_vars

-----------------------------------------------------------------------------
(* The Avro schemas, producer/schemas/*.avsc: what AvroSerializer accepts. *)

OrderStatus == {"PENDING", "CONFIRMED", "PROCESSING", "SHIPPED", "DELIVERED",
                "CANCELLED", "REFUNDED"}

StatusUpdatedSchema ==
  [topic : {"order-status"}, order : Orders, prev : OrderStatus,
   new : OrderStatus, lost : BOOLEAN]

OrderPlacedSchema ==
  [payment : {"CREDIT_CARD", "DEBIT_CARD", "BANK_TRANSFER", "EWALLET", "COD"},
   device : {"MOBILE", "DESKTOP", "TABLET"}, platform : {"IOS", "ANDROID", "WEB"}]

PageviewSchema ==
  [user : {"null", "user"},
   page : {"HOME", "CATEGORY", "PRODUCT_DETAIL", "CART", "CHECKOUT",
           "ORDER_CONFIRMATION", "SEARCH", "PROFILE"},
   device : {"MOBILE", "DESKTOP", "TABLET"},
   product : {"null", "product"}, query : {"null", "query"}]

\* A quantity is an int there; that it is no less than 0 is the program's part.
InventorySchema ==
  [reason : {"SALE", "RESTOCK", "ADJUSTMENT", "RETURN", "DAMAGE"},
   before : Nat, after : Nat, reference : {"null", "uuid"}]

-----------------------------------------------------------------------------
(* Properties.                                                             *)

\* The state; and every event drawn is one that its Avro schema accepts, so that
\* produce_event never retries and dead-letters an event for its content.
TypeOK ==
  /\ placed \in 0..MaxOrders
  /\ recent \in Seq([order : 1..placed, status : OrderStatus])
  /\ Len(recent) <= MaxRecent
  /\ hand \in StatusUpdatedSchema \cup {NoEvent, Elsewhere}
  /\ line \in Seq(StatusUpdatedSchema)
  /\ told \in [Orders -> OrderStatus \cup {"none"}]
  /\ missing \in [Orders -> BOOLEAN]
  /\ OrderDraws \subseteq OrderPlacedSchema
  /\ PageviewDraws \subseteq PageviewSchema
  /\ InventoryDraws \subseteq InventorySchema

\* The statuses that may follow s, at once or later.
After(s) ==
  CASE s = "none"       -> OrderStatus \ {"REFUNDED"}
    [] s = "PENDING"    -> {"CONFIRMED", "PROCESSING", "SHIPPED", "DELIVERED", "CANCELLED"}
    [] s = "CONFIRMED"  -> {"PROCESSING", "SHIPPED", "DELIVERED", "CANCELLED"}
    [] s = "PROCESSING" -> {"SHIPPED", "DELIVERED"}
    [] s = "SHIPPED"    -> {"DELIVERED"}
    [] OTHER            -> {}

\* Read from the topic, an order only ever moves forward and stays where it has
\* come to its end, whatever is lost, retried or left behind by a crash.
MovesForward ==
  \A o \in Orders : told'[o] # told[o] => told'[o] \in After(told[o])

StatusesMoveForward == [][MovesForward]_vars

\* What a reader knows of an order; it begins as PENDING.
Known(o) == IF told[o] = "none" THEN "PENDING" ELSE told[o]

\* The previous_status of an event is what a reader of the topic has seen last,
\* unless an event in between was lost: a gap is always such a loss.
GapsOnlyByLoss ==
  line # <<>> /\ ~Head(line).lost =>
    \/ Head(line).prev = Known(Head(line).order)
    \/ missing[Head(line).order]
=============================================================================
