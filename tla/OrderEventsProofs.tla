-------------------------- MODULE OrderEventsProofs --------------------------
(***************************************************************************)
(* Proofs about OrderEvents, for any number of orders and any sizes of     *)
(* the memory and the queue.                                               *)
(*                                                                         *)
(* The argument: for every order the events in the line form a chain, each *)
(* with the status of the one before as its previous status, lost events   *)
(* included; the first one begins where the topic ends, or further on when *)
(* an event was lost; and what the producer remembers is where the chain   *)
(* ends.                                                                   *)
(***************************************************************************)
EXTENDS OrderEvents, TLAPS, SequenceTheorems

-----------------------------------------------------------------------------
(* Statuses.                                                               *)

Reached == OrderStatus \ {"REFUNDED"}

\* What may follow each status.
LEMMA AfterValues ==
  /\ After("none") = Reached
  /\ After("PENDING") = {"CONFIRMED", "PROCESSING", "SHIPPED", "DELIVERED", "CANCELLED"}
  /\ After("CONFIRMED") = {"PROCESSING", "SHIPPED", "DELIVERED", "CANCELLED"}
  /\ After("PROCESSING") = {"SHIPPED", "DELIVERED"}
  /\ After("SHIPPED") = {"DELIVERED"}
  /\ After("DELIVERED") = {}
  /\ After("CANCELLED") = {}
<1>1. After("none") = Reached
  BY Zenon DEF After, Reached
<1>2. After("PENDING") = {"CONFIRMED", "PROCESSING", "SHIPPED", "DELIVERED", "CANCELLED"}
  BY Zenon DEF After
<1>3. After("CONFIRMED") = {"PROCESSING", "SHIPPED", "DELIVERED", "CANCELLED"}
  BY Zenon DEF After
<1>4. After("PROCESSING") = {"SHIPPED", "DELIVERED"}
  BY Zenon DEF After
<1>5. After("SHIPPED") = {"DELIVERED"}
  BY Zenon DEF After
<1>6. After("DELIVERED") = {}
  BY Zenon DEF After
<1>7. After("CANCELLED") = {}
  BY Zenon DEF After
<1> QED
  BY <1>1, <1>2, <1>3, <1>4, <1>5, <1>6, <1>7

Follows(s, t) == t \in {s} \cup After(s)

\* Following is transitive, and REFUNDED is never reached.
LEMMA FollowsTransitive ==
  ASSUME NEW s \in Reached, NEW t, Follows(s, t)
  PROVE  t \in Reached /\ \A u : Follows(t, u) => Follows(s, u)
BY AfterValues DEF Follows, Reached, OrderStatus

\* generate_status_update_event moves an order to a status that follows.
LEMMA NewStatusFollows ==
  ASSUME NEW s \in Reached, NEW t \in NewStatuses(s)
  PROVE  Follows(s, t) /\ t \in Reached
<1>1. DOMAIN flow = {"PENDING", "CONFIRMED", "PROCESSING", "SHIPPED"}
  BY DEF flow
<1>2. /\ flow["PENDING"] = "CONFIRMED" /\ flow["CONFIRMED"] = "PROCESSING"
      /\ flow["PROCESSING"] = "SHIPPED" /\ flow["SHIPPED"] = "DELIVERED"
  BY DEF flow
<1>3. s \in {"PENDING", "CONFIRMED", "PROCESSING", "SHIPPED"}
  BY <1>1 DEF NewStatuses
<1>4. t \in {s, flow[s]} \cup (IF s \in {"PENDING", "CONFIRMED"} THEN {"CANCELLED"} ELSE {})
  BY <1>1, <1>3 DEF NewStatuses
<1> QED
  BY <1>2, <1>3, <1>4, AfterValues DEF Follows, Reached, OrderStatus

-----------------------------------------------------------------------------
(* Type correctness.                                                       *)

Entries(n) == [order : 1..n, status : OrderStatus]

MemoryType ==
  /\ placed \in 0..MaxOrders
  /\ recent \in Seq(Entries(placed))
  /\ Len(recent) <= MaxRecent

EventsType ==
  /\ hand \in StatusUpdatedSchema \cup {NoEvent, Elsewhere}
  /\ line \in Seq(StatusUpdatedSchema)

TopicType ==
  /\ told \in [Orders -> OrderStatus \cup {"none"}]
  /\ missing \in [Orders -> BOOLEAN]

StateType == MemoryType /\ EventsType /\ TopicType

\* Every event that the generators draw is one that its Avro schema accepts.
LEMMA DrawsAccepted ==
  /\ OrderDraws \subseteq OrderPlacedSchema
  /\ PageviewDraws \subseteq PageviewSchema
  /\ InventoryDraws \subseteq InventorySchema
<1>1. OrderDraws \subseteq OrderPlacedSchema
  BY DEF OrderDraws, OrderPlacedSchema
<1>2. PageviewDraws \subseteq PageviewSchema
  BY DEF PageviewDraws, PageviewSchema
<1>3. InventoryDraws \subseteq InventorySchema
  <2> SUFFICES ASSUME NEW r \in DOMAIN Deltas, NEW q \in Quantities, NEW delta \in Deltas[r]
               PROVE  [reason |-> r, before |-> q, after |-> NewQuantity(q, delta),
                       reference |-> IF r \in {"SALE", "RESTOCK"} THEN "uuid" ELSE "null"]
                        \in InventorySchema
    BY DEF InventoryDraws
  <2>1. DOMAIN Deltas = {"SALE", "RESTOCK", "ADJUSTMENT", "RETURN", "DAMAGE"}
    BY DEF Deltas
  <2>2. /\ Deltas["SALE"] \subseteq Int /\ Deltas["RESTOCK"] \subseteq Int
        /\ Deltas["ADJUSTMENT"] \subseteq Int /\ Deltas["RETURN"] \subseteq Int
        /\ Deltas["DAMAGE"] \subseteq Int
    BY DEF Deltas
  <2>3. delta \in Int
    BY <2>1, <2>2
  <2>4. q \in Nat
    BY OrderEventsAssumption
  <2>5. NewQuantity(q, delta) \in Nat
    BY <2>3, <2>4 DEF NewQuantity
  <2> QED
    BY <2>1, <2>4, <2>5 DEF InventorySchema
<1> QED
  BY <1>1, <1>2, <1>3

\* The types of the state are all that TypeOK adds to that.
LEMMA TypeParts == StateType => TypeOK
BY DrawsAccepted DEF StateType, MemoryType, EventsType, TopicType, TypeOK, Entries

\* The entries of the memory and of the line are of their types.
LEMMA ElementTypes ==
  ASSUME StateType
  PROVE  /\ placed \in Nat /\ MaxOrders \in Nat /\ Len(line) \in Nat /\ Len(recent) \in Nat
         /\ \A i \in 1..Len(line) :
              line[i] \in StatusUpdatedSchema /\ line[i].order \in Orders /\ line[i].order \in Nat
         /\ \A i \in 1..Len(recent) : recent[i].order \in 1..placed
<1>1. /\ placed \in Nat /\ MaxOrders \in Nat /\ Len(line) \in Nat /\ Len(recent) \in Nat
      /\ line \in Seq(StatusUpdatedSchema) /\ recent \in Seq(Entries(placed))
  BY OrderEventsAssumption DEF StateType, EventsType, MemoryType
<1>2. ASSUME NEW i \in 1..Len(line)
      PROVE  line[i] \in StatusUpdatedSchema /\ line[i].order \in Orders /\ line[i].order \in Nat
  <2>1. line[i] \in StatusUpdatedSchema
    BY <1>1
  <2>2. line[i].order \in Orders
    BY <2>1 DEF StatusUpdatedSchema
  <2> QED
    BY <1>1, <2>1, <2>2 DEF Orders
<1>3. ASSUME NEW i \in 1..Len(recent) PROVE recent[i].order \in 1..placed
  <2>1. recent[i] \in Entries(placed)
    BY <1>1
  <2> QED
    BY <2>1 DEF Entries
<1> QED
  BY <1>1, <1>2, <1>3

\* An event of order-status is told from no event and from the others by its topic.
LEMMA Topics ==
  ASSUME EventsType
  PROVE  /\ hand \in StatusUpdatedSchema <=> hand.topic = "order-status"
         /\ hand = NoEvent => hand.topic = "none"
         /\ NoEvent.topic = "none" /\ Elsewhere.topic = "other"
BY DEF EventsType, StatusUpdatedSchema, NoEvent, Elsewhere

\* Taking out the event whose turn it is.
LEMMA FirstOut ==
  ASSUME EventsType, NEW i \in NextOut
  PROVE  /\ i = 1 /\ Len(line) \in Nat \ {0}
         /\ line[1] \in StatusUpdatedSchema
         /\ Without(i) \in Seq(StatusUpdatedSchema)
         /\ Len(Without(i)) = Len(line) - 1
         /\ \A j \in 1..Len(line) - 1 : Without(i)[j] = line[j + 1]
<1>1. i = 1 /\ Len(line) \in Nat \ {0} /\ line \in Seq(StatusUpdatedSchema)
  BY DEF NextOut, EventsType
<1> DEFINE X == SubSeq(line, 1, 0)
           Y == SubSeq(line, 2, Len(line))
<1>2. X = << >>
  BY <1>1
<1>3. /\ Y \in Seq(StatusUpdatedSchema) /\ Len(Y) = Len(line) - 1
      /\ \A j \in 1..Len(line) - 1 : Y[j] = line[j + 1]
  <2>1. line # << >>
    BY <1>1
  <2>2. Tail(line) = Y
    BY <1>1, <2>1, TailIsSubSeq
  <2>3. /\ Tail(line) \in Seq(StatusUpdatedSchema) /\ Len(Tail(line)) = Len(line) - 1
        /\ \A j \in 1..Len(Tail(line)) : Tail(line)[j] = line[j + 1]
    BY <1>1, <2>1, HeadTailProperties
  <2> HIDE DEF Y
  <2> QED
    BY <2>2, <2>3
<1>4. Without(i) = X \o Y
  BY <1>1 DEF Without
<1> HIDE DEF X, Y
<1>5. Without(i) = Y
  BY <1>2, <1>3, <1>4
<1> QED
  BY <1>1, <1>3, <1>5

\* Marking events as lost changes nothing else about them.
LEMMA LostKeeps ==
  ASSUME NEW e \in StatusUpdatedSchema
  PROVE  /\ Lost(e) \in StatusUpdatedSchema
         /\ Lost(e).order = e.order /\ Lost(e).prev = e.prev /\ Lost(e).new = e.new
BY DEF Lost, StatusUpdatedSchema

\* Nothing has been placed.
LEMMA TypeInit == Init => StateType
<1> SUFFICES ASSUME Init PROVE StateType
  OBVIOUS
<1>1. MemoryType
  BY OrderEventsAssumption DEF Init, MemoryType
<1>2. EventsType
  BY DEF Init, EventsType
<1>3. TopicType
  BY DEF Init, TopicType
<1> QED
  BY <1>1, <1>2, <1>3 DEF StateType

\* Remembering an order.
LEMMA RememberType ==
  ASSUME MemoryType, placed < MaxOrders, placed' = placed + 1, Remember(placed + 1)
  PROVE  /\ MemoryType'
         /\ \E d \in {0, 1} :
              /\ Len(recent') = Len(recent) + 1 - d
              /\ \A i \in 1..Len(recent') :
                   recent'[i] = IF i + d = Len(recent) + 1
                                THEN [order |-> placed + 1, status |-> "PENDING"]
                                ELSE recent[i + d]
<1> DEFINE e == [order |-> placed + 1, status |-> "PENDING"]
           longer == Append(recent, e)
<1>1. /\ placed \in Nat /\ MaxOrders \in Nat /\ MaxRecent \in Nat \ {0}
      /\ recent \in Seq(Entries(placed)) /\ Len(recent) \in Nat /\ Len(recent) <= MaxRecent
  BY OrderEventsAssumption DEF MemoryType
<1>2. Entries(placed) \subseteq Entries(placed + 1) /\ e \in Entries(placed + 1)
  BY <1>1 DEF Entries, OrderStatus
<1>3. recent \in Seq(Entries(placed + 1))
  BY <1>1, <1>2, SeqMonotonic
<1>4. recent' = IF Len(longer) > MaxRecent THEN Tail(longer) ELSE longer
  BY DEF Remember
<1> HIDE DEF e
<1>5. /\ longer \in Seq(Entries(placed + 1)) /\ Len(longer) = Len(recent) + 1
      /\ longer # << >>
      /\ \A i \in 1..Len(longer) : longer[i] = IF i = Len(recent) + 1 THEN e ELSE recent[i]
  BY <1>1, <1>2, <1>3
<1> HIDE DEF longer
<1>6. placed + 1 \in 0..MaxOrders
  BY <1>1
<1>7. CASE Len(longer) > MaxRecent
  <2>1. /\ recent' \in Seq(Entries(placed + 1)) /\ Len(recent') = Len(longer) - 1
        /\ \A i \in 1..Len(recent') : recent'[i] = longer[i + 1]
    BY <1>4, <1>5, <1>7, HeadTailProperties
  <2>2. MemoryType'
    BY <1>1, <1>5, <1>6, <2>1 DEF MemoryType
  <2>3. Len(recent') = Len(recent) + 1 - 1
    BY <1>1, <1>5, <2>1
  <2>4. \A i \in 1..Len(recent') : recent'[i] = IF i + 1 = Len(recent) + 1 THEN e ELSE recent[i + 1]
    BY <1>1, <1>5, <2>1
  <2> QED
    BY <2>2, <2>3, <2>4 DEF e
<1>8. CASE ~(Len(longer) > MaxRecent)
  <2>1. recent' = longer
    BY <1>4, <1>8
  <2>2. MemoryType'
    BY <1>1, <1>5, <1>6, <1>8, <2>1 DEF MemoryType
  <2>3. Len(recent') = Len(recent) + 1 - 0
    BY <1>1, <1>5, <2>1
  <2>4. \A i \in 1..Len(recent') : recent'[i] = IF i + 0 = Len(recent) + 1 THEN e ELSE recent[i + 0]
    BY <1>1, <1>5, <2>1
  <2> QED
    BY <2>2, <2>3, <2>4 DEF e
<1> QED
  BY <1>7, <1>8

\* Moving an order on.
LEMMA UpdatedType ==
  ASSUME MemoryType, NEW i \in DOMAIN recent, NEW new \in NewStatuses(recent[i].status),
         recent[i].status \in Reached
  PROVE  /\ new \in Reached
         /\ StatusUpdated(recent[i], new) \in StatusUpdatedSchema
         /\ recent[i].order \in 1..placed
         /\ Updated(i, new) \in Seq(Entries(placed)) /\ Len(Updated(i, new)) = Len(recent)
         /\ Updated(i, new)[i].order = recent[i].order /\ Updated(i, new)[i].status = new
         /\ \A j \in 1..Len(recent) : j # i => Updated(i, new)[j] = recent[j]
<1>1. /\ i \in 1..Len(recent) /\ recent \in Seq(Entries(placed)) /\ Len(recent) \in Nat
      /\ placed \in Nat /\ placed <= MaxOrders /\ MaxOrders \in Nat
  BY OrderEventsAssumption DEF MemoryType
<1>2. recent[i] \in Entries(placed)
  BY <1>1
<1>3. /\ recent[i].order \in 1..placed /\ recent[i].order \in Orders
      /\ recent[i].status \in OrderStatus
  BY <1>1, <1>2 DEF Entries, Orders
<1>4. new \in Reached /\ new \in OrderStatus
  BY NewStatusFollows DEF Reached
<1> DEFINE e == [recent[i] EXCEPT !.status = new]
<1>5. e \in Entries(placed) /\ e.order = recent[i].order /\ e.status = new
  BY <1>2, <1>4 DEF Entries
<1>6. Updated(i, new) = [recent EXCEPT ![i] = e]
  BY DEF Updated
<1> HIDE DEF e
<1>7. /\ Updated(i, new) \in Seq(Entries(placed)) /\ Len(Updated(i, new)) = Len(recent)
      /\ Updated(i, new)[i] = e
      /\ \A j \in 1..Len(recent) : j # i => Updated(i, new)[j] = recent[j]
  BY <1>1, <1>5, <1>6, ExceptSeq
<1>8. StatusUpdated(recent[i], new) \in StatusUpdatedSchema
  BY <1>3, <1>4 DEF StatusUpdated, StatusUpdatedSchema
<1> QED
  BY <1>3, <1>4, <1>5, <1>7, <1>8

\* The events in the line with some of them marked as lost.
LEMMA Marked ==
  ASSUME EventsType, NEW L,
         /\ DOMAIN L = 1..Len(line)
         /\ L = [i \in 1..Len(line) |-> L[i]]
         /\ \A i \in 1..Len(line) : L[i] \in {line[i], Lost(line[i])}
  PROVE  /\ L \in Seq(StatusUpdatedSchema) /\ Len(L) = Len(line)
         /\ \A i \in 1..Len(line) :
              L[i].order = line[i].order /\ L[i].prev = line[i].prev /\ L[i].new = line[i].new
<1>1. Len(line) \in Nat /\ \A i \in 1..Len(line) : line[i] \in StatusUpdatedSchema
  BY DEF EventsType
<1>2. ASSUME NEW i \in 1..Len(line)
      PROVE  /\ L[i] \in StatusUpdatedSchema
             /\ L[i].order = line[i].order /\ L[i].prev = line[i].prev /\ L[i].new = line[i].new
  BY <1>1, LostKeeps
<1> QED
  BY <1>1, <1>2

-----------------------------------------------------------------------------
(* The chain of an order's events.                                         *)

\* After the first n events of the line, s is the status that order o has: the
\* last one among them leads to it, and without one the topic does, unless an
\* event was lost that led there.
Fits(o, n, s) ==
  /\ \A i \in 1..n :
       line[i].order = o /\ (\A k \in i + 1..n : line[k].order # o) => line[i].new = s
  /\ (\A i \in 1..n : line[i].order # o) =>
       Follows(Known(o), s) /\ (missing[o] = TRUE \/ Known(o) = s)

\* An event fits where it stands, behind n others.
Fit(e, n) ==
  /\ e.order <= placed
  /\ e.prev \in Reached /\ Follows(e.prev, e.new)
  /\ Fits(e.order, n, e.prev)

LineInv == \A j \in 1..Len(line) : Fit(line[j], j - 1)

Saying == hand.topic = "order-status"

HandInv == Saying => Fit(hand, Len(line))

RecentInv ==
  /\ \A i, j \in 1..Len(recent) : recent[i].order = recent[j].order => i = j
  /\ \A i \in 1..Len(recent) :
       /\ recent[i].status \in Reached
       /\ Saying /\ hand.order = recent[i].order => hand.new = recent[i].status
       /\ ~(Saying /\ hand.order = recent[i].order) =>
            Fits(recent[i].order, Len(line), recent[i].status)

ToldInv ==
  \A o \in Orders : told[o] \in Reached \cup {"none"} /\ (o > placed => told[o] = "none")

ChainInv == StateType /\ LineInv /\ HandInv /\ RecentInv /\ ToldInv

\* An event added to the line.
LEMMA FitsAppend ==
  ASSUME EventsType, NEW e \in StatusUpdatedSchema, line' = Append(line, e),
         UNCHANGED <<told, missing>>, NEW o, NEW s, NEW m, m = Len(line) + 1
  PROVE  /\ \A n \in 0..Len(line) : Fits(o, n, s) => Fits(o, n, s)'
         /\ e.order = o /\ e.new = s => Fits(o, m, s)'
         /\ e.order # o /\ Fits(o, Len(line), s) => Fits(o, m, s)'
<1>1. /\ Len(line) \in Nat /\ m \in Nat /\ m = Len(line) + 1 /\ line'[m] = e
      /\ \A i \in 1..Len(line) : line'[i] = line[i]
  BY DEF EventsType
<1>2. Known(o)' = Known(o)
  BY DEF Known
<1>3. ASSUME NEW n \in 0..Len(line), Fits(o, n, s) PROVE Fits(o, n, s)'
  <2>1. \A i \in 1..n : line'[i] = line[i]
    BY <1>1
  <2> QED
    BY <1>2, <1>3, <2>1 DEF Fits
<1>4. ASSUME e.order = o, e.new = s PROVE Fits(o, m, s)'
  <2>1. ASSUME NEW i \in 1..m, i # m PROVE m \in i + 1..m
    BY <1>1, <2>1
  <2>2. m \in 1..m
    BY <1>1
  <2> QED
    BY <1>1, <1>4, <2>1, <2>2 DEF Fits
<1>5. ASSUME e.order # o, Fits(o, Len(line), s) PROVE Fits(o, m, s)'
  <2>1. ASSUME NEW i \in 1..m, line'[i].order = o,
               \A k \in i + 1..m : line'[k].order # o
        PROVE  line'[i].new = s
    <3>1. i \in 1..Len(line)
      BY <1>1, <1>5, <2>1
    <3>2. \A k \in i + 1..Len(line) :
            k \in i + 1..m /\ k \in 1..Len(line)
      BY <1>1, <3>1
    <3>3. \A k \in i + 1..Len(line) : line[k].order # o
      BY <1>1, <2>1, <3>2
    <3> QED
      BY <1>1, <1>5, <2>1, <3>1, <3>3 DEF Fits
  <2>2. ASSUME \A i \in 1..m : line'[i].order # o
        PROVE  Follows(Known(o), s) /\ (missing[o] = TRUE \/ Known(o) = s)
    <3>1. \A i \in 1..Len(line) : i \in 1..m
      BY <1>1
    <3>2. \A i \in 1..Len(line) : line[i].order # o
      BY <1>1, <2>2, <3>1
    <3> QED
      BY <1>5, <3>2 DEF Fits
  <2> QED
    BY <1>2, <2>1, <2>2 DEF Fits
<1> QED
  BY <1>3, <1>4, <1>5

\* Marks change nothing.
LEMMA FitsMarked ==
  ASSUME NEW n \in Nat, NEW o, NEW s, Fits(o, n, s), UNCHANGED <<told, missing>>,
         \A i \in 1..n : line'[i].order = line[i].order /\ line'[i].new = line[i].new
  PROVE  Fits(o, n, s)'
<1>1. Known(o)' = Known(o)
  BY DEF Known
<1>2. \A i \in 1..n : \A k \in i + 1..n : k \in 1..n
  OBVIOUS
<1> QED
  BY <1>1, <1>2 DEF Fits

\* The first event leaves the line; when it is an event of the order, the topic or a
\* gap leads from there on.
LEMMA FitsFirstOut ==
  ASSUME EventsType, Len(line) # 0, NEW n \in 1..Len(line), NEW o, NEW s, Fits(o, n, s),
         NEW e, e = line[1],
         e.prev \in Reached,
         Fits(e.order, 0, e.prev), Follows(e.prev, e.new),
         Known(e.order) \in Reached,
         \A j \in 1..Len(line) - 1 : line'[j] = line[j + 1],
         o # e.order => Known(o)' = Known(o) /\ missing'[o] = missing[o],
         \/ Known(e.order)' = e.new
         \/ Known(e.order)' = Known(e.order) /\ missing'[e.order] = TRUE
  PROVE  Fits(o, n - 1, s)'
<1>1. Len(line) \in Nat \ {0} /\ n \in Nat \ {0} /\ e = line[1]
  BY DEF EventsType
<1>2. \A j \in 1..n - 1 : j + 1 \in 1..n /\ line'[j] = line[j + 1]
  BY <1>1
<1>3. ASSUME NEW i \in 1..n - 1, line'[i].order = o,
             \A k \in i + 1..n - 1 : line'[k].order # o
      PROVE  line'[i].new = s
  <2>1. ASSUME NEW k \in i + 2..n PROVE line[k].order # o
    <3>1. k - 1 \in i + 1..n - 1 /\ k - 1 \in 1..n - 1 /\ (k - 1) + 1 = k
      BY <1>1
    <3> QED
      BY <1>2, <1>3, <3>1
  <2>2. (i + 1) + 1 = i + 2
    BY <1>1
  <2> QED
    BY <1>2, <1>3, <2>1, <2>2 DEF Fits
<1>4. ASSUME \A i \in 1..n - 1 : line'[i].order # o
      PROVE  Follows(Known(o)', s) /\ (missing'[o] = TRUE \/ Known(o)' = s)
  <2>1. ASSUME NEW k \in 2..n PROVE line[k].order # o
    <3>1. k - 1 \in 1..n - 1 /\ (k - 1) + 1 = k
      BY <1>1
    <3> QED
      BY <1>2, <1>4, <3>1
  <2>2. 1 \in 1..n /\ 1 + 1 = 2
    BY <1>1
  <2>3. CASE e.order = o
    <3>1. e.new = s
      BY <1>1, <2>1, <2>2, <2>3 DEF Fits
    <3>2. Follows(Known(o), e.prev)
      BY <2>3 DEF Fits
    <3>3. Follows(Known(o), s)
      BY <2>3, <3>1, <3>2, FollowsTransitive
    <3> QED
      BY <2>3, <3>1, <3>3 DEF Follows
  <2>4. CASE e.order # o
    <3>1. \A k \in 1..n : line[k].order # o
      <4>1. \A k \in 1..n : k = 1 \/ k \in 2..n
        BY <1>1
      <4> QED
        BY <1>1, <2>1, <2>4, <4>1
    <3> QED
      BY <2>4, <3>1 DEF Fits
  <2> QED
    BY <2>3, <2>4
<1> QED
  BY <1>3, <1>4 DEF Fits

\* Nothing changes with what Fits looks at.
LEMMA FitsSame ==
  ASSUME UNCHANGED <<line, told, missing>>, NEW o, NEW n, NEW s, Fits(o, n, s)
  PROVE  Fits(o, n, s)'
BY DEF Fits, Known

\* A line that keeps its events keeps its invariant while more orders are placed.
LEMMA LineSame ==
  ASSUME StateType, LineInv, UNCHANGED <<line, told, missing>>, placed' \in Nat, placed <= placed'
  PROVE  LineInv'
<1>1. ASSUME NEW j \in 1..Len(line), NEW e, e = line[j] PROVE Fit(e, j - 1)'
  <2>1. Fit(e, j - 1)
    BY <1>1 DEF LineInv
  <2>2. e.order \in Nat /\ placed \in Nat
    BY <1>1, ElementTypes
  <2> QED
    BY <2>1, <2>2, FitsSame DEF Fit
<1> QED
  BY <1>1 DEF LineInv

\* A new order: no event is about it yet, and the topic knows nothing of it.
LEMMA OrderStep ==
  ASSUME ChainInv, GenerateOrderEvent
  PROVE  ChainInv'
<1>1. /\ hand = NoEvent /\ hand' = Elsewhere /\ placed < MaxOrders /\ placed' = placed + 1
      /\ Remember(placed + 1) /\ UNCHANGED <<line, told, missing>>
  BY DEF GenerateOrderEvent, Generating, topic
<1>2. /\ placed \in Nat /\ ~Saying /\ ~Saying' /\ Len(recent) \in Nat /\ MaxOrders \in Nat
  BY <1>1, Topics, OrderEventsAssumption DEF Saying, ChainInv, StateType, MemoryType
<1>3. /\ MemoryType'
      /\ \E d \in {0, 1} :
           /\ Len(recent') = Len(recent) + 1 - d
           /\ \A i \in 1..Len(recent') :
                recent'[i] = IF i + d = Len(recent) + 1
                             THEN [order |-> placed + 1, status |-> "PENDING"]
                             ELSE recent[i + d]
  BY <1>1, RememberType DEF ChainInv, StateType
<1>4. PICK d \in {0, 1} :
           /\ Len(recent') = Len(recent) + 1 - d
           /\ \A i \in 1..Len(recent') :
                recent'[i] = IF i + d = Len(recent) + 1
                             THEN [order |-> placed + 1, status |-> "PENDING"]
                             ELSE recent[i + d]
  BY <1>3
<1>5. StateType'
  BY <1>1, <1>3 DEF ChainInv, StateType, EventsType, TopicType
<1>6. LineInv'
  BY <1>1, <1>2, LineSame DEF ChainInv
<1>7. HandInv'
  BY <1>2 DEF HandInv
<1>8. Fits(placed + 1, Len(line), "PENDING")
  <2>1. \A i \in 1..Len(line) : line[i].order <= placed /\ line[i].order \in Nat
    BY ElementTypes DEF ChainInv, LineInv, Fit
  <2>2. \A i \in 1..Len(line) : line[i].order # placed + 1
    BY <1>2, <2>1
  <2>3. Known(placed + 1) = "PENDING"
    BY <1>1, <1>2 DEF ChainInv, ToldInv, Known, Orders
  <2> QED
    BY <2>2, <2>3 DEF Fits, Follows
<1>9. \A i \in 1..Len(recent) : recent[i].order \in 1..placed
  BY ElementTypes DEF ChainInv
<1>10. ASSUME NEW i \in 1..Len(recent')
       PROVE  \/ /\ i + d = Len(recent) + 1 /\ recent'[i].order = placed + 1
                 /\ recent'[i].status = "PENDING"
              \/ i + d \in 1..Len(recent) /\ recent'[i] = recent[i + d]
  <2>1. i + d \in 1..Len(recent) + 1
    BY <1>2, <1>4
  <2>2. i + d = Len(recent) + 1 \/ (i + d # Len(recent) + 1 /\ i + d \in 1..Len(recent))
    BY <1>2, <2>1
  <2> QED
    BY <1>4, <2>2
<1>11. ASSUME NEW i \in 1..Len(recent'), NEW j \in 1..Len(recent'), recent'[i].order = recent'[j].order
       PROVE  i = j
  <2>1. i \in Int /\ j \in Int /\ d \in Int
    OBVIOUS
  <2>2. \A k \in 1..Len(recent) : recent[k].order # placed + 1
    BY <1>2, <1>9
  <2>3. CASE recent'[i].order = placed + 1
    <3>1. i + d = Len(recent) + 1 /\ j + d = Len(recent) + 1
      BY <1>10, <1>11, <2>2, <2>3
    <3> QED
      BY <1>2, <2>1, <3>1
  <2>4. CASE recent'[i].order # placed + 1
    <3>1. /\ i + d \in 1..Len(recent) /\ recent'[i] = recent[i + d]
          /\ j + d \in 1..Len(recent) /\ recent'[j] = recent[j + d]
      BY <1>10, <1>11, <2>4
    <3>2. i + d = j + d
      BY <1>11, <3>1 DEF ChainInv, RecentInv
    <3> QED
      BY <2>1, <3>2
  <2> QED
    BY <2>3, <2>4
<1>12. ASSUME NEW i \in 1..Len(recent'), NEW e, e = recent'[i]
       PROVE  e.status \in Reached /\ Fits(e.order, Len(line), e.status)
  BY <1>2, <1>8, <1>10, <1>12 DEF ChainInv, RecentInv, Reached, OrderStatus
<1>13. RecentInv'
  <2>1. ASSUME NEW i \in 1..Len(recent'), NEW e, e = recent'[i], NEW n, n = Len(line)
        PROVE  e.status \in Reached /\ Fits(e.order, n, e.status)'
    BY <1>1, <1>12, <2>1, FitsSame
  <2> QED
    BY <1>1, <1>2, <1>11, <2>1 DEF RecentInv
<1>14. ToldInv'
  <2>1. \A o \in Orders : o > placed + 1 => o > placed
    BY <1>2 DEF Orders
  <2> QED
    BY <1>1, <2>1 DEF ChainInv, ToldInv
<1> QED
  BY <1>5, <1>6, <1>7, <1>13, <1>14 DEF ChainInv

\* An event about no order.
LEMMA OtherStep ==
  ASSUME ChainInv, GenerateOtherEvent
  PROVE  ChainInv'
<1>1. /\ hand = NoEvent /\ hand' = Elsewhere
      /\ UNCHANGED <<placed, recent, line, told, missing>>
  BY DEF GenerateOtherEvent, Generating, memory, topic
<1>2. ~Saying /\ ~Saying' /\ placed \in Nat
  BY <1>1, Topics DEF Saying, ChainInv, StateType, MemoryType
<1>3. StateType'
  BY <1>1 DEF ChainInv, StateType, MemoryType, EventsType, TopicType, Entries
<1>4. LineInv'
  BY <1>1, <1>2, LineSame DEF ChainInv
<1>5. RecentInv'
  BY <1>1, <1>2 DEF ChainInv, RecentInv, Fits, Known
<1>6. HandInv' /\ ToldInv'
  BY <1>1, <1>2 DEF ChainInv, HandInv, ToldInv
<1> QED
  BY <1>3, <1>4, <1>5, <1>6 DEF ChainInv

\* An order moves on: the event in hand continues its chain.
LEMMA StatusStep ==
  ASSUME ChainInv, GenerateStatusUpdateEvent
  PROVE  ChainInv'
<1>0. PICK i \in DOMAIN recent :
        \E new \in NewStatuses(recent[i].status) :
          hand' = StatusUpdated(recent[i], new) /\ recent' = Updated(i, new)
  BY DEF GenerateStatusUpdateEvent
<1>1. PICK new \in NewStatuses(recent[i].status) :
        hand' = StatusUpdated(recent[i], new) /\ recent' = Updated(i, new)
  BY <1>0
<1>2. hand = NoEvent /\ UNCHANGED <<placed, line, told, missing>>
  BY DEF GenerateStatusUpdateEvent, Generating, topic
<1>3. /\ ~Saying /\ i \in 1..Len(recent) /\ recent[i].status \in Reached
      /\ placed \in Nat /\ Len(recent) \in Nat
  BY <1>2, Topics DEF Saying, ChainInv, StateType, MemoryType, RecentInv
<1>4. /\ new \in Reached
      /\ hand' \in StatusUpdatedSchema
      /\ recent[i].order \in 1..placed
      /\ recent' \in Seq(Entries(placed)) /\ Len(recent') = Len(recent)
      /\ recent'[i].order = recent[i].order /\ recent'[i].status = new
      /\ \A j \in 1..Len(recent) : j # i => recent'[j] = recent[j]
  BY <1>1, <1>3, UpdatedType DEF ChainInv, StateType
<1>5. /\ hand'.topic = "order-status" /\ hand'.order = recent[i].order
      /\ hand'.prev = recent[i].status /\ hand'.new = new
  BY <1>1 DEF StatusUpdated
<1>6. StateType'
  BY <1>2, <1>4 DEF ChainInv, StateType, MemoryType, EventsType, TopicType
<1>7. LineInv'
  BY <1>2, <1>3, LineSame DEF ChainInv
<1>8. ASSUME NEW h, h = hand', NEW n, n = Len(line) PROVE Fit(h, n)'
  <2>1. Fits(h.order, n, h.prev)
    BY <1>3, <1>5, <1>8 DEF ChainInv, RecentInv
  <2>2. Fits(h.order, n, h.prev)'
    BY <1>2, <2>1, FitsSame
  <2>3. Follows(h.prev, h.new) /\ h.prev \in Reached
    BY <1>1, <1>3, <1>5, <1>8, NewStatusFollows
  <2>4. h.order <= placed
    BY <1>3, <1>4, <1>5, <1>8
  <2> QED
    BY <1>2, <2>2, <2>3, <2>4 DEF Fit
<1>9. HandInv'
  BY <1>2, <1>8 DEF HandInv
<1>10. ASSUME NEW j \in 1..Len(recent)
       PROVE  recent'[j].order = recent[j].order
  BY <1>4
<1>11. ASSUME NEW j \in 1..Len(recent), j # i, NEW e, e = recent[j], NEW n, n = Len(line)
       PROVE  e.order # recent[i].order /\ e.status \in Reached /\ Fits(e.order, n, e.status)'
  <2>1. Fits(e.order, n, e.status) /\ e.order # recent[i].order /\ e.status \in Reached
    BY <1>3, <1>11 DEF ChainInv, RecentInv
  <2> QED
    BY <1>2, <2>1, FitsSame
<1>12. RecentInv'
  <2>1. \A j, k \in 1..Len(recent') : recent'[j].order = recent'[k].order => j = k
    BY <1>4, <1>10 DEF ChainInv, RecentInv
  <2>2. ASSUME NEW j \in 1..Len(recent'), NEW e, e = recent'[j], NEW n, n = Len(line)
        PROVE  /\ e.status \in Reached
               /\ hand'.order = e.order => hand'.new = e.status
               /\ hand'.order # e.order => Fits(e.order, n, e.status)'
    <3>1. CASE j = i
      BY <1>4, <1>5, <2>2, <3>1
    <3>2. CASE j # i
      BY <1>4, <1>5, <1>11, <2>2, <3>2
    <3> QED
      BY <3>1, <3>2
  <2> QED
    BY <1>2, <1>5, <2>1, <2>2 DEF RecentInv, Saying
<1>13. ToldInv'
  BY <1>2 DEF ChainInv, ToldInv
<1> QED
  BY <1>6, <1>7, <1>9, <1>12, <1>13 DEF ChainInv

\* The event in hand is put at the end of its chain, lost or not.
LEMMA ProduceStep ==
  ASSUME ChainInv, ProduceEvent
  PROVE  ChainInv'
<1>1. /\ hand' = NoEvent /\ ~Saying' /\ UNCHANGED <<placed, recent, told, missing>>
      /\ placed \in Nat /\ Len(line) \in Nat
  BY Topics DEF ProduceEvent, memory, topic, Saying, ChainInv, StateType, EventsType, MemoryType
<1>2. HandInv' /\ ToldInv'
  BY <1>1 DEF ChainInv, HandInv, ToldInv
<1>3. CASE ~Saying
  <2>1. line' = line
    BY <1>3 DEF ProduceEvent, Saying
  <2>2. StateType'
    BY <1>1, <2>1 DEF ChainInv, StateType, MemoryType, EventsType, TopicType
  <2>3. LineInv'
    BY <1>1, <2>1, LineSame DEF ChainInv
  <2>4. RecentInv'
    BY <1>1, <1>3, <2>1 DEF ChainInv, RecentInv, Fits, Known
  <2> QED
    BY <1>2, <2>2, <2>3, <2>4 DEF ChainInv
<1>4. CASE Saying
  <2>1. PICK e \in {hand, Lost(hand)} : line' = Append(line, e)
    BY <1>4 DEF ProduceEvent, Saying
  <2>2. hand \in StatusUpdatedSchema
    BY <1>4, Topics DEF Saying, ChainInv, StateType
  <2>3. /\ e \in StatusUpdatedSchema
        /\ e.order = hand.order /\ e.prev = hand.prev /\ e.new = hand.new
    BY <2>1, <2>2, LostKeeps
  <2>4. StateType'
    BY <1>1, <2>1, <2>3 DEF ChainInv, StateType, MemoryType, EventsType, TopicType
  <2>5. /\ Len(line') = Len(line) + 1 /\ line'[Len(line) + 1] = e
        /\ \A j \in 1..Len(line) : line'[j] = line[j]
    BY <2>1, <2>3 DEF ChainInv, StateType, EventsType
  <2>6. Fit(e, Len(line))
    BY <1>4, <2>3 DEF ChainInv, HandInv, Fit
  <2>7. ASSUME NEW f, NEW n \in 0..Len(line), Fit(f, n) PROVE Fit(f, n)'
    BY <1>1, <2>1, <2>3, <2>7, FitsAppend DEF Fit, ChainInv, StateType
  <2>8. ASSUME NEW j \in 1..Len(line'), NEW f, f = line'[j] PROVE Fit(f, j - 1)'
    <3>1. CASE j = Len(line) + 1
      <4>1. j - 1 = Len(line) /\ j - 1 \in 0..Len(line) /\ f = e
        BY <1>1, <2>5, <2>8, <3>1
      <4> QED
        BY <2>6, <2>7, <4>1
    <3>2. CASE j # Len(line) + 1
      <4>1. j \in 1..Len(line) /\ j - 1 \in 0..Len(line) /\ f = line[j]
        BY <1>1, <2>5, <2>8, <3>2
      <4>2. Fit(f, j - 1)
        BY <4>1 DEF ChainInv, LineInv
      <4> QED
        BY <2>7, <4>1, <4>2
    <3> QED
      BY <3>1, <3>2
  <2>9. LineInv'
    BY <2>8 DEF LineInv
  <2>10. ASSUME NEW i \in 1..Len(recent), NEW r, r = recent[i], NEW m, m = Len(line) + 1
         PROVE  Fits(r.order, m, r.status)'
    <3>1. CASE hand.order = r.order
      <4>1. e.new = r.status /\ e.order = r.order
        BY <1>4, <2>3, <2>10, <3>1 DEF ChainInv, RecentInv
      <4> QED
        BY <1>1, <2>1, <2>3, <2>10, <4>1, FitsAppend DEF ChainInv, StateType
    <3>2. CASE hand.order # r.order
      <4>1. Fits(r.order, Len(line), r.status) /\ e.order # r.order
        BY <2>3, <2>10, <3>2 DEF ChainInv, RecentInv
      <4> QED
        BY <1>1, <2>1, <2>3, <2>10, <4>1, FitsAppend DEF ChainInv, StateType
    <3> QED
      BY <3>1, <3>2
  <2>11. RecentInv'
    BY <1>1, <2>5, <2>10 DEF ChainInv, RecentInv
  <2> QED
    BY <1>2, <2>4, <2>9, <2>11 DEF ChainInv
<1> QED
  BY <1>3, <1>4

\* Losses that are only marked keep the chains.
LEMMA MarkedStep ==
  ASSUME ChainInv, UNCHANGED <<placed, told, missing>>,
         line' \in Seq(StatusUpdatedSchema), Len(line') = Len(line),
         \A i \in 1..Len(line) : /\ line'[i].order = line[i].order
                                 /\ line'[i].prev = line[i].prev
                                 /\ line'[i].new = line[i].new,
         NEW o, NEW s, NEW n \in 0..Len(line), Fits(o, n, s)
  PROVE  LineInv' /\ ToldInv' /\ Fits(o, n, s)'
<1>1. Len(line) \in Nat
  BY ElementTypes DEF ChainInv
<1>2. ASSUME NEW m \in 0..Len(line), NEW p, NEW t, Fits(p, m, t) PROVE Fits(p, m, t)'
  <2>1. m \in Nat /\ \A i \in 1..m : i \in 1..Len(line)
    BY <1>1
  <2> QED
    BY <1>2, <2>1, FitsMarked
<1>3. ASSUME NEW j \in 1..Len(line), NEW f, f = line'[j] PROVE Fit(f, j - 1)'
  <2>1. j - 1 \in 0..Len(line)
    BY <1>1
  <2>2. Fits(f.order, j - 1, f.prev)
    BY <1>3 DEF ChainInv, LineInv, Fit
  <2>3. Fits(f.order, j - 1, f.prev)'
    BY <1>2, <2>1, <2>2
  <2>4. f.order <= placed /\ f.prev \in Reached /\ Follows(f.prev, f.new)
    BY <1>3 DEF ChainInv, LineInv, Fit
  <2> QED
    BY <2>3, <2>4 DEF Fit
<1>4. LineInv'
  BY <1>3 DEF LineInv
<1>5. ToldInv'
  BY DEF ChainInv, ToldInv
<1> QED
  BY <1>2, <1>4, <1>5

\* After a restart no order is remembered.
LEMMA RestartStep ==
  ASSUME ChainInv, Restart
  PROVE  ChainInv'
<1>1. /\ recent' = << >> /\ hand' = NoEvent /\ UNCHANGED <<placed, told, missing>>
      /\ line' = [i \in DOMAIN line |-> Lost(line[i])]
  BY DEF Restart, topic
<1>2. DOMAIN line = 1..Len(line)
  BY DEF ChainInv, StateType, EventsType
<1>3. DOMAIN line' = 1..Len(line) /\ line' = [i \in 1..Len(line) |-> line'[i]]
  BY <1>1, <1>2
<1>4. \A i \in 1..Len(line) : line'[i] \in {line[i], Lost(line[i])}
  BY <1>1, <1>2
<1>5. /\ line' \in Seq(StatusUpdatedSchema) /\ Len(line') = Len(line)
      /\ \A i \in 1..Len(line) : /\ line'[i].order = line[i].order
                                 /\ line'[i].prev = line[i].prev
                                 /\ line'[i].new = line[i].new
  BY <1>3, <1>4, Marked DEF ChainInv, StateType
<1>6. Fits(0, 0, Known(0)) /\ 0 \in 0..Len(line)
  BY ElementTypes DEF Fits, Follows, ChainInv
<1>7. LineInv' /\ ToldInv'
  BY <1>1, <1>5, <1>6, MarkedStep
<1>8. MemoryType' /\ RecentInv'
  BY <1>1, OrderEventsAssumption DEF RecentInv, MemoryType, ChainInv, StateType
<1>9. StateType'
  BY <1>1, <1>5, <1>8 DEF ChainInv, StateType, EventsType, TopicType
<1>10. HandInv'
  BY <1>1, Topics DEF HandInv, Saying, ChainInv, StateType
<1> QED
  BY <1>7, <1>8, <1>9, <1>10 DEF ChainInv

\* A delivery fails.
LEMMA DeliveryFailsStep ==
  ASSUME ChainInv, NEW k \in DOMAIN line, DeliveryFails(k)
  PROVE  ChainInv'
<1>1. /\ UNCHANGED <<placed, recent, hand, told, missing>>
      /\ line' = [line EXCEPT ![k] = Lost(@)]
  BY DEF DeliveryFails, memory, topic
<1>2. DOMAIN line = 1..Len(line) /\ line = [i \in 1..Len(line) |-> line[i]]
  BY DEF ChainInv, StateType, EventsType
<1>3. DOMAIN line' = 1..Len(line) /\ line' = [i \in 1..Len(line) |-> line'[i]]
  BY <1>1, <1>2
<1>4. \A i \in 1..Len(line) : line'[i] \in {line[i], Lost(line[i])}
  BY <1>1, <1>2
<1>5. /\ line' \in Seq(StatusUpdatedSchema) /\ Len(line') = Len(line)
      /\ \A i \in 1..Len(line) : /\ line'[i].order = line[i].order
                                 /\ line'[i].prev = line[i].prev
                                 /\ line'[i].new = line[i].new
  BY <1>3, <1>4, Marked DEF ChainInv, StateType
<1>6. Len(line) \in Nat /\ Len(line) \in 0..Len(line)
  BY ElementTypes DEF ChainInv
<1>7. ASSUME NEW o, NEW s, NEW n \in 0..Len(line), Fits(o, n, s)
      PROVE  LineInv' /\ ToldInv' /\ Fits(o, n, s)'
  BY <1>1, <1>5, <1>7, MarkedStep
<1>8. Fits(0, 0, Known(0)) /\ 0 \in 0..Len(line)
  BY <1>6 DEF Fits, Follows
<1>9. LineInv' /\ ToldInv'
  BY <1>7, <1>8
<1>10. StateType'
  BY <1>1, <1>5 DEF ChainInv, StateType, MemoryType, EventsType, TopicType, Entries
<1>11. ASSUME NEW n, n = Len(line), Saying, NEW h, h = hand PROVE Fit(h, n)'
  <2>1. Fit(h, n)
    BY <1>11 DEF ChainInv, HandInv
  <2> QED
    BY <1>1, <1>6, <1>7, <1>11, <2>1 DEF Fit
<1>12. HandInv'
  BY <1>1, <1>5, <1>11 DEF HandInv, Saying
<1>13. ASSUME NEW i \in 1..Len(recent), NEW r, r = recent[i], NEW n, n = Len(line),
              ~(Saying /\ hand.order = r.order)
       PROVE  Fits(r.order, n, r.status)'
  <2>1. Fits(r.order, n, r.status)
    BY <1>13 DEF ChainInv, RecentInv
  <2> QED
    BY <1>6, <1>7, <1>13, <2>1
<1>14. RecentInv'
  BY <1>1, <1>5, <1>13 DEF ChainInv, RecentInv, Saying
<1> QED
  BY <1>9, <1>10, <1>12, <1>14 DEF ChainInv

\* The first event of the line: its order, as a reader of the topic knows it, moves
\* on to its previous status and from there to its new one.
LEMMA FirstFollows ==
  ASSUME ChainInv, Len(line) # 0, NEW e, e = line[1]
  PROVE  /\ e.order \in Orders /\ e.order <= placed
         /\ e.prev \in Reached /\ e.new \in Reached
         /\ Follows(Known(e.order), e.new) /\ Follows(e.prev, e.new)
         /\ Known(e.order) \in Reached
         /\ Fits(e.order, 0, e.prev)
         /\ missing[e.order] = TRUE \/ Known(e.order) = e.prev
<1>1. 1 \in 1..Len(line) /\ 1 - 1 = 0
  BY ElementTypes DEF ChainInv
<1>2. e.order \in Orders
  BY <1>1, ElementTypes DEF ChainInv
<1>3. Fit(e, 0)
  BY <1>1 DEF ChainInv, LineInv
<1>4. Follows(Known(e.order), e.prev) /\ (missing[e.order] = TRUE \/ Known(e.order) = e.prev)
  BY <1>3 DEF Fit, Fits
<1>5. Known(e.order) \in Reached
  BY <1>2 DEF ChainInv, ToldInv, Known, Reached, OrderStatus
<1> QED
  BY <1>2, <1>3, <1>4, <1>5, FollowsTransitive DEF Fit

\* The first event leaves the line.
LEMMA FirstOutStep ==
  ASSUME ChainInv, NEW i \in NextOut, Deliver(i) \/ PassOver(i)
  PROVE  ChainInv'
<1>1. /\ i = 1 /\ Len(line) \in Nat \ {0}
      /\ Without(i) \in Seq(StatusUpdatedSchema)
      /\ Len(Without(i)) = Len(line) - 1
      /\ \A j \in 1..Len(line) - 1 : Without(i)[j] = line[j + 1]
  BY FirstOut DEF ChainInv, StateType
<1>2. PICK e : e = line[1]
  OBVIOUS
<1>3. /\ e.order \in Orders /\ e.order <= placed
      /\ e.prev \in Reached /\ e.new \in Reached
      /\ Follows(e.prev, e.new) /\ Known(e.order) \in Reached
      /\ Fits(e.order, 0, e.prev)
  BY <1>1, <1>2, FirstFollows
<1>4. /\ UNCHANGED <<placed, recent, hand>> /\ line' = Without(i)
      /\ \/ /\ told' = [told EXCEPT ![e.order] = e.new]
            /\ missing' = [missing EXCEPT ![e.order] = FALSE]
         \/ told' = told /\ missing' = [missing EXCEPT ![e.order] = TRUE]
  BY <1>1, <1>2 DEF Deliver, PassOver, memory
<1>5. /\ line' \in Seq(StatusUpdatedSchema) /\ Len(line') = Len(line) - 1
      /\ \A j \in 1..Len(line) - 1 : line'[j] = line[j + 1]
  BY <1>1, <1>4
<1>6. TopicType'
  BY <1>3, <1>4 DEF ChainInv, StateType, TopicType, Reached
<1>7. StateType'
  BY <1>4, <1>5, <1>6 DEF ChainInv, StateType, MemoryType, EventsType, Entries
<1>8. told \in [Orders -> OrderStatus \cup {"none"}] /\ missing \in [Orders -> BOOLEAN]
  BY DEF ChainInv, StateType, TopicType
<1>9. e.new # "none"
  BY <1>3 DEF Reached, OrderStatus
<1>10. ASSUME NEW o \in Orders, o # e.order
       PROVE  Known(o)' = Known(o) /\ missing'[o] = missing[o]
  BY <1>3, <1>4, <1>8, <1>10 DEF Known
<1>11. \/ Known(e.order)' = e.new
       \/ Known(e.order)' = Known(e.order) /\ missing'[e.order] = TRUE
  BY <1>3, <1>4, <1>8, <1>9 DEF Known
<1>12. ASSUME NEW o \in Orders, NEW s, NEW n \in 1..Len(line), Fits(o, n, s)
       PROVE  Fits(o, n - 1, s)'
  BY <1>1, <1>2, <1>3, <1>5, <1>10, <1>11, <1>12, FitsFirstOut DEF ChainInv, StateType
<1>13. ASSUME NEW f, NEW n \in 1..Len(line), Fit(f, n), f.order \in Orders PROVE Fit(f, n - 1)'
  BY <1>4, <1>12, <1>13 DEF Fit
<1>14. ASSUME NEW j \in 1..Len(line) - 1, NEW f, f = line'[j] PROVE Fit(f, j - 1)'
  <2>1. /\ j + 1 \in 1..Len(line) /\ (j + 1) - 1 = j /\ j \in 1..Len(line) /\ f = line[j + 1]
    BY <1>1, <1>5, <1>14
  <2>2. Fit(f, j)
    BY <2>1 DEF ChainInv, LineInv
  <2>3. f.order \in Orders
    BY <2>1, ElementTypes DEF ChainInv
  <2> QED
    BY <1>13, <2>1, <2>2, <2>3
<1>15. LineInv'
  BY <1>5, <1>14 DEF LineInv
<1>16. Len(line) \in 1..Len(line)
  BY <1>1
<1>17. ASSUME Saying, NEW h, h = hand, NEW n, n = Len(line) PROVE Fit(h, n - 1)'
  <2>1. Fit(h, n)
    BY <1>17 DEF ChainInv, HandInv
  <2>2. h.order \in Orders
    <3>1. h \in StatusUpdatedSchema
      BY <1>17, Topics DEF Saying, ChainInv, StateType
    <3> QED
      BY <3>1 DEF StatusUpdatedSchema
  <2> QED
    BY <1>13, <1>16, <1>17, <2>1, <2>2
<1>18. HandInv'
  BY <1>4, <1>5, <1>17 DEF HandInv, Saying
<1>19. ASSUME NEW k \in 1..Len(recent), NEW r, r = recent[k], NEW n, n = Len(line),
              ~(Saying /\ hand.order = r.order)
       PROVE  Fits(r.order, n - 1, r.status)'
  <2>1. Fits(r.order, n, r.status)
    BY <1>19 DEF ChainInv, RecentInv
  <2>2. r.order \in 1..placed /\ placed \in Nat /\ placed <= MaxOrders /\ MaxOrders \in Nat
    BY <1>19, ElementTypes DEF ChainInv, StateType, MemoryType
  <2>3. r.order \in Orders
    BY <2>2 DEF Orders
  <2> QED
    BY <1>12, <1>16, <1>19, <2>1, <2>3
<1>20. RecentInv'
  BY <1>4, <1>5, <1>19 DEF ChainInv, RecentInv, Saying
<1>21. ToldInv'
  <2>1. ASSUME NEW o \in Orders
        PROVE  told'[o] \in Reached \cup {"none"} /\ (o > placed => told'[o] = "none")
    <3>1. o = e.order => ~(o > placed)
      <4>1. o \in Nat /\ placed \in Nat
        BY ElementTypes DEF ChainInv, Orders
      <4> QED
        BY <1>3, <4>1
    <3> QED
      BY <1>3, <1>4, <1>8, <3>1 DEF ChainInv, ToldInv
  <2> QED
    BY <1>4, <2>1 DEF ToldInv
<1> QED
  BY <1>7, <1>15, <1>18, <1>20, <1>21 DEF ChainInv

\* Every step keeps the chains.
LEMMA ChainStep ==
  ASSUME ChainInv, [Next]_vars
  PROVE  ChainInv'
<1>1. CASE UNCHANGED vars
  BY <1>1 DEF vars, memory, topic, ChainInv, StateType, MemoryType, EventsType, TopicType, LineInv,
              HandInv, RecentInv, ToldInv, Saying, Fit, Fits, Known
<1>2. CASE \E i \in NextOut : Deliver(i) \/ PassOver(i)
  BY <1>2, FirstOutStep
<1>3. CASE \E i \in DOMAIN line : DeliveryFails(i)
  BY <1>3, DeliveryFailsStep
<1> QED
  BY <1>1, <1>2, <1>3, OrderStep, OtherStep, StatusStep, ProduceStep, RestartStep DEF Next

\* The events in the line form chains, in every reachable state.
THEOREM OrderEventsInvariant == Spec => []ChainInv
<1>1. Init => ChainInv
  <2> SUFFICES ASSUME Init PROVE ChainInv
    OBVIOUS
  <2>1. StateType
    BY TypeInit
  <2>2. LineInv /\ HandInv /\ RecentInv /\ ToldInv
    BY DEF Init, LineInv, HandInv, RecentInv, ToldInv, Saying, NoEvent
  <2> QED
    BY <2>1, <2>2 DEF ChainInv
<1> QED
  BY <1>1, ChainStep, PTL DEF Spec

\* The variables keep their types, and no event is drawn that its schema refuses.
THEOREM OrderEventsTypeCorrect == Spec => []TypeOK
<1>1. ChainInv => TypeOK
  BY TypeParts DEF ChainInv
<1> QED
  BY <1>1, OrderEventsInvariant, PTL

\* An event that does not continue where the topic ends has a lost one before it.
THEOREM GapsAreLosses == Spec => []GapsOnlyByLoss
<1>1. ChainInv => GapsOnlyByLoss
  <2> SUFFICES ASSUME ChainInv, line # << >>
               PROVE  \/ Head(line).prev = Known(Head(line).order)
                      \/ missing[Head(line).order]
    BY DEF GapsOnlyByLoss
  <2>1. Head(line) = line[1] /\ Len(line) # 0
    BY DEF ChainInv, StateType, EventsType
  <2>2. missing[line[1].order] = TRUE \/ Known(line[1].order) = line[1].prev
    BY <2>1, FirstFollows
  <2> QED
    BY <2>1, <2>2
<1> QED
  BY <1>1, OrderEventsInvariant, PTL

\* Read from the topic, an order only moves forward.
THEOREM StatusesForward == Spec => StatusesMoveForward
<1>1. ChainInv /\ [Next]_vars => [MovesForward]_vars
  <2> SUFFICES ASSUME ChainInv, Next, NEW o \in Orders, told'[o] # told[o]
               PROVE  told'[o] \in After(told[o])
    BY DEF MovesForward
  <2>1. PICK i \in NextOut : Deliver(i)
    BY DEF Next, GenerateOrderEvent, GenerateOtherEvent, GenerateStatusUpdateEvent, ProduceEvent,
           Restart, PassOver, DeliveryFails, topic
  <2>2. i = 1 /\ Len(line) # 0
    BY FirstOut DEF ChainInv, StateType
  <2>3. PICK e : e = line[1]
    OBVIOUS
  <2>4. e.order = o /\ told'[o] = e.new
    BY <2>1, <2>2, <2>3 DEF Deliver, ChainInv, StateType, TopicType
  <2>5. Follows(Known(o), e.new) /\ e.new \in Reached
    BY <2>2, <2>3, <2>4, FirstFollows
  <2>6. CASE told[o] = "none"
    BY <2>4, <2>5, <2>6, AfterValues
  <2>7. CASE told[o] # "none"
    BY <2>4, <2>5, <2>7 DEF Known, Follows
  <2> QED
    BY <2>6, <2>7
<1> QED
  BY <1>1, OrderEventsInvariant, PTL DEF Spec, StatusesMoveForward
=============================================================================
