---------------------------- MODULE CdcSimulator ----------------------------
(***************************************************************************)
(* producer/cdc_simulator.py: threads that change orders and products of   *)
(* the PostgreSQL source database, whose changes Debezium captures.  Every *)
(* producer process has one such thread, so several may run at a time.     *)
(*                                                                         *)
(* PostgreSQL is external: READ COMMITTED, a row lock from UPDATE to the   *)
(* end of the transaction, deadlock detection.  An UPDATE that waited for  *)
(* a lock computes its new value from the row's new version, but does not  *)
(* ask again whether its sub-select would still pick the row.              *)
(***************************************************************************)
EXTENDS Integers, FiniteSets

CONSTANTS
  Sims,                      \* simulator threads, one per producer process
  Orders, Products,          \* rows that exist or will be inserted (a bound)
  NoSim, NoRow,              \* no holder of a lock, no row waited for
  InitialStock,              \* stock_quantity of every product
  InsertLimit, OrderLimit, SellLimit, RestockLimit,  \* the LIMITs 5, 20, 5, 3
  SellAbove, SellMax,        \* stock_quantity > 10, random.randint(1, 10)
  RestockBelow,              \* stock_quantity < 50
  RestockMin, RestockMax     \* random.randint(50, 200)

Rows == Orders \cup Products

ASSUME CdcAssumption ==
  /\ NoSim \notin Sims
  /\ NoRow \notin Rows
  /\ Orders \cap Products = {}
  /\ IsFiniteSet(Sims)
  /\ InitialStock \in Nat
  /\ SellAbove \in Nat /\ SellMax \in Nat
  /\ RestockBelow \in Nat /\ RestockMin \in Nat /\ RestockMax \in Nat

VARIABLES
  pc,         \* per thread: "idle", "insert", "select", "advance", "sell",
              \* "selling", "restock", "restocking", "exited"
  cycle,      \* per thread: _cycle, of which only _cycle % 3 matters
  stop,       \* per thread: _stop_event
  todo,       \* per thread: rows its loop or UPDATE has yet to write, with the
              \* status it read or the quantity it moves
  waiting,    \* per thread: the row whose lock it waits for, or NoRow
  committed,  \* the committed version of each row: a status or a quantity
  latest,     \* its newest version, of the transaction that holds the lock
  lock        \* holder of each row's lock, or NoSim

thread == <<pc, cycle, stop, todo, waiting>>
table  == <<committed, latest, lock>>
vars   == <<thread, table>>

\* CHECK (status IN ...); nothing ever refunds.
Statuses == {"pending", "confirmed", "shipped", "delivered", "cancelled"}

\* mutant: the flow of event_producer.py, whose statuses the CHECK rejects
STATUS_FLOW_Producer ==
  [pending |-> "confirmed", confirmed |-> "processing", processing |-> "shipped", shipped |-> "delivered"]

STATUS_FLOW == [pending |-> "confirmed", confirmed |-> "shipped", shipped |-> "delivered"]

CANCEL_STATUSES == {"pending", "confirmed"}

Init ==
  /\ pc = [s \in Sims |-> "idle"]
  /\ cycle = [s \in Sims |-> 0]
  /\ stop = [s \in Sims |-> FALSE]
  /\ todo = [s \in Sims |-> <<>>]
  /\ waiting = [s \in Sims |-> NoRow]
  /\ committed = [r \in Rows |-> IF r \in Orders THEN "absent" ELSE InitialStock]
  /\ latest = committed
  /\ lock = [r \in Rows |-> NoSim]

-----------------------------------------------------------------------------
(* PostgreSQL.                                                             *)

\* What a statement of s sees: committed rows and its own writes.
Visible(s, r) == IF lock[r] = s THEN latest[r] ELSE committed[r]

\* ORDER BY RANDOM() LIMIT n
RandomRows(rows, n) ==
  {S \in SUBSET rows : Cardinality(S) = IF Cardinality(rows) < n THEN Cardinality(rows) ELSE n}

LockedBy(s) == {r \in Rows : lock[r] = s}

Unlocked(s) == [r \in Rows |-> IF lock[r] = s THEN NoSim ELSE lock[r]]

Commit(s) ==
  /\ committed' = [r \in Rows |-> IF lock[r] = s THEN latest[r] ELSE committed[r]]
  /\ lock' = Unlocked(s)
  /\ UNCHANGED latest

Close_Forgotten(s) == UNCHANGED table   \* mutant: no finally: conn.close()

\* conn.close() rolls the transaction back.
Close(s) ==
  /\ latest' = [r \in Rows |-> IF lock[r] = s THEN committed[r] ELSE latest[r]]
  /\ lock' = Unlocked(s)
  /\ UNCHANGED committed

\* s waits in a circle of threads that wait for each other.
Deadlocked(s) ==
  \E C \in SUBSET Sims :
    /\ s \in C
    /\ \A t \in C : waiting[t] # NoRow /\ lock[waiting[t]] \in C
-----------------------------------------------------------------------------
(* The thread.                                                             *)

Goto(s, label) == pc' = [pc EXCEPT ![s] = label]

\* The cycle is over, with or without an exception.
EndCycle(s) ==
  /\ Goto(s, "idle")
  /\ cycle' = [cycle EXCEPT ![s] = (@ + 1) % 3]
  /\ todo' = [todo EXCEPT ![s] = <<>>]
  /\ waiting' = [waiting EXCEPT ![s] = NoRow]
  /\ UNCHANGED stop

\* conn.commit(), after which the thread goes on to the next part of its cycle,
\* unless the connection is lost before the answer arrives.
CommitThen(s, label) ==
  /\ Commit(s)
  /\ \/ label # "idle" /\ Goto(s, label) /\ UNCHANGED <<cycle, stop, todo, waiting>>
     \/ EndCycle(s)

\* A statement has chosen its rows.
Targets(s, rows, label) ==
  /\ todo' = [todo EXCEPT ![s] = rows]
  /\ Goto(s, label)
  /\ UNCHANGED <<cycle, stop, waiting, table>>

BeginCycle(s) ==
  /\ pc[s] = "idle"
  /\ ~stop[s]
  /\ Goto(s, IF cycle[s] = 0 THEN "insert" ELSE "select")
  /\ UNCHANGED <<cycle, stop, todo, waiting, table>>

\* _insert_sample_orders: nobody else sees the rows before the commit.
InsertSampleOrders(s) ==
  /\ pc[s] = "insert"
  /\ \E new \in RandomRows({o \in Orders : committed[o] = "absent"}, InsertLimit) :
       /\ committed' = [r \in Rows |-> IF r \in new THEN "pending" ELSE committed[r]]
       /\ latest' = [r \in Rows |-> IF r \in new THEN "pending" ELSE latest[r]]
  /\ \/ Goto(s, "select") /\ UNCHANGED <<cycle, stop, todo, waiting>>
     \/ EndCycle(s)
  /\ UNCHANGED lock

\* _advance_order_statuses: the SELECT takes no lock.
SelectOrders(s) ==
  /\ pc[s] = "select"
  /\ \E picked \in RandomRows({o \in Orders : committed[o] \in DOMAIN STATUS_FLOW}, OrderLimit) :
       Targets(s, [o \in picked |-> committed[o]], "advance")

NewStatuses_AnyCancelled(status) == {STATUS_FLOW[status], "cancelled"}   \* mutant: whatever the status

\* The choice made for a status that was read, now or long ago.
NewStatuses(status) ==
  {STATUS_FLOW[status]} \cup IF status \in CANCEL_STATUSES THEN {"cancelled"} ELSE {}

SellRows(s) == {p \in Products : Visible(s, p) > SellAbove}

RestockRows_AtLevel(s) == {p \in Products : Visible(s, p) <= RestockBelow}   \* mutant: <= for <

RestockRows(s) == {p \in Products : Visible(s, p) < RestockBelow}

\* _update_product_stock: the two UPDATEs.
Sell(s) ==
  /\ pc[s] = "sell"
  /\ \E picked \in RandomRows(SellRows(s), SellLimit), n \in 1..SellMax :
       Targets(s, [p \in picked |-> n], "selling")

Restock(s) ==
  /\ pc[s] = "restock"
  /\ \E picked \in RandomRows(RestockRows(s), RestockLimit), n \in RestockMin..RestockMax :
       Targets(s, [p \in picked |-> n], "restocking")

Sold_NoFloor(quantity, n) == quantity - n   \* mutant: without GREATEST

\* GREATEST(0, stock_quantity - n)
Sold(quantity, n) == IF n < quantity THEN quantity - n ELSE 0

\* What an UPDATE may make of a row: the status comes from the SELECT, the
\* quantity from the row's newest version.
NewVersions(s, r) ==
  CASE pc[s] = "advance"    -> NewStatuses(todo[s][r])
    [] pc[s] = "selling"    -> {Sold(latest[r], todo[s][r])}
    [] pc[s] = "restocking" -> {latest[r] + todo[s][r]}

Updating(s) == pc[s] \in {"advance", "selling", "restocking"}

UpdateRow(s, r) ==
  /\ Updating(s)
  /\ r \in DOMAIN todo[s]
  /\ waiting[s] \in {NoRow, r}
  /\ lock[r] \in {NoSim, s}
  /\ \E v \in NewVersions(s, r) : latest' = [latest EXCEPT ![r] = v]
  /\ lock' = [lock EXCEPT ![r] = s]
  /\ todo' = [todo EXCEPT ![s] = [q \in DOMAIN todo[s] \ {r} |-> todo[s][q]]]
  /\ waiting' = [waiting EXCEPT ![s] = NoRow]
  /\ UNCHANGED <<pc, cycle, stop, committed>>

WaitForRow(s, r) ==
  /\ Updating(s)
  /\ r \in DOMAIN todo[s]
  /\ waiting[s] = NoRow
  /\ lock[r] \notin {NoSim, s}
  /\ waiting' = [waiting EXCEPT ![s] = r]
  /\ UNCHANGED <<pc, cycle, stop, todo, table>>

RowsDone(s) == DOMAIN todo[s] = {}

CommitOrders(s) ==
  /\ pc[s] = "advance"
  /\ RowsDone(s)
  /\ CommitThen(s, "sell")

SellDone(s) ==
  /\ pc[s] = "selling"
  /\ RowsDone(s)
  /\ Targets(s, <<>>, "restock")

CommitStock(s) ==
  /\ pc[s] = "restocking"
  /\ RowsDone(s)
  /\ CommitThen(s, "idle")

InCycle(s) == pc[s] \notin {"idle", "exited"}

\* Any statement may raise, the connection attempt too: logged, and the next
\* cycle starts over.
Fail(s) ==
  /\ InCycle(s)
  /\ Close(s)
  /\ EndCycle(s)

\* PostgreSQL aborts one transaction of a deadlock.
DeadlockVictim(s) == Deadlocked(s) /\ Fail(s)

Exit(s) ==
  /\ pc[s] = "idle"
  /\ stop[s]
  /\ Goto(s, "exited")
  /\ UNCHANGED <<cycle, stop, todo, waiting, table>>

Stop(s) ==
  /\ pc[s] # "exited"
  /\ ~stop[s]
  /\ stop' = [stop EXCEPT ![s] = TRUE]
  /\ UNCHANGED <<pc, cycle, todo, waiting, table>>

\* The process dies, or main() ends and takes the daemon thread with it; the
\* server rolls back.
Kill(s) ==
  /\ pc[s] # "exited"
  /\ Close(s)
  /\ Goto(s, "exited")
  /\ todo' = [todo EXCEPT ![s] = <<>>]
  /\ waiting' = [waiting EXCEPT ![s] = NoRow]
  /\ UNCHANGED <<cycle, stop>>

\* A new process, started by hand or by the container's restart policy.
Restart(s) ==
  /\ pc[s] = "exited"
  /\ Goto(s, "idle")
  /\ cycle' = [cycle EXCEPT ![s] = 0]
  /\ stop' = [stop EXCEPT ![s] = FALSE]
  /\ UNCHANGED <<todo, waiting, table>>

Update(s) == \E r \in Rows : UpdateRow(s, r)

Step(s) ==
  \/ BeginCycle(s)
  \/ InsertSampleOrders(s)
  \/ SelectOrders(s)
  \/ Update(s)
  \/ \E r \in Rows : WaitForRow(s, r)
  \/ CommitOrders(s)
  \/ Sell(s)
  \/ SellDone(s)
  \/ Restock(s)
  \/ CommitStock(s)
  \/ Exit(s)

Next ==
  \E s \in Sims :
    \/ Step(s)
    \/ Fail(s)
    \/ DeadlockVictim(s)
    \/ Stop(s)
    \/ Kill(s)
    \/ Restart(s)

Spec == Init /\ [][Next]_vars

\* The threads run, PostgreSQL queues the waiters of a row, and its deadlock
\* detector looks at every wait that lasts.
Fairness ==
  \A s \in Sims :
    /\ WF_vars(Step(s))
    /\ SF_vars(Update(s))
    /\ WF_vars(DeadlockVictim(s))

FairSpec == Spec /\ Fairness
-----------------------------------------------------------------------------
(* Properties.                                                             *)

Ceiling ==
  LET shelf == (RestockBelow - 1) + RestockMax * Cardinality(Sims)
  IN  IF InitialStock < shelf THEN shelf ELSE InitialStock

TypeOK ==
  /\ pc \in [Sims -> {"idle", "insert", "select", "advance", "sell", "selling",
                      "restock", "restocking", "exited"}]
  /\ cycle \in [Sims -> 0..2]
  /\ stop \in [Sims -> BOOLEAN]
  /\ \A s \in Sims : DOMAIN todo[s] \subseteq Rows
  /\ waiting \in [Sims -> Rows \cup {NoRow}]
  /\ lock \in [Rows -> Sims \cup {NoSim}]
  /\ \A o \in Orders : {committed[o], latest[o]} \subseteq Statuses \cup {"absent"}
  /\ \A p \in Products : {committed[p], latest[p]} \subseteq Int

\* The CHECK (stock_quantity >= 0) of the products table never fails a cycle,
\* although a sale may find less stock than the sub-select saw.
StockNeverNegative == \A p \in Products : committed[p] >= 0 /\ latest[p] >= 0

\* Each thread restocks what it has seen below the level; racing threads may do so
\* for the same shortage, but no more often than there are threads.
StockBounded == \A p \in Products : committed[p] <= Ceiling

\* With one simulator, Debezium sees every order go forward along STATUS_FLOW
\* or be cancelled before it is shipped; delivered and cancelled are final.
After(status) ==
  CASE status = "absent"    -> {"pending"}
    [] status = "pending"   -> {"confirmed", "cancelled"}
    [] status = "confirmed" -> {"shipped", "cancelled"}
    [] status = "shipped"   -> {"delivered"}
    [] OTHER                -> {}

StatusesFollowFlow ==
  [][\A o \in Orders : committed'[o] # committed[o] => committed'[o] \in After(committed[o])]_vars

\* Failures, deadlocks and threads that died in their transaction never keep a
\* thread in its cycle for good.
CyclesEnd == \A s \in Sims : InCycle(s) ~> ~InCycle(s)

\* A stop request ends the thread although it may be in the middle of a cycle.
StopEndsThread == \A s \in Sims : stop[s] ~> (pc[s] = "exited")
=============================================================================
