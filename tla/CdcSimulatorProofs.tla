------------------------- MODULE CdcSimulatorProofs -------------------------
(***************************************************************************)
(* Proofs about CdcSimulator, for any number of threads, orders, products  *)
(* and for all limits: stock stays within its bounds although a sub-select *)
(* may be stale when its UPDATE gets the row, the statuses of a single     *)
(* simulator follow their flow, every lock belongs to a transaction in     *)
(* progress, somebody can always go on or be aborted, and a cycle only     *)
(* goes forward.                                                           *)
(***************************************************************************)
EXTENDS CdcSimulator, TLAPS, FiniteSetTheorems

-----------------------------------------------------------------------------
(* The inductive invariant.                                                *)

Labels == {"idle", "insert", "select", "advance", "sell", "selling",
           "restock", "restocking", "exited"}

Shape ==
  /\ pc \in [Sims -> Labels]
  /\ DOMAIN todo = Sims
  /\ DOMAIN latest = Rows
  /\ DOMAIN committed = Rows
  /\ lock \in [Rows -> Sims \cup {NoSim}]

\* An unlocked row has one version.
OneVersion == \A r \in Rows : lock[r] = NoSim => latest[r] = committed[r]

Quantities == \A p \in Products : committed[p] \in Nat /\ latest[p] \in Nat

\* What a thread has yet to write belongs to the statement it is at.
TodoFits ==
  \A s \in Sims :
    /\ pc[s] = "advance" => DOMAIN todo[s] \subseteq Orders
    /\ pc[s] = "selling" =>
         /\ DOMAIN todo[s] \subseteq Products
         /\ \A p \in DOMAIN todo[s] : todo[s][p] \in 1..SellMax
    /\ pc[s] = "restocking" =>
         /\ DOMAIN todo[s] \subseteq Products
         /\ \A p \in DOMAIN todo[s] : todo[s][p] \in RestockMin..RestockMax

StockInv == Shape /\ OneVersion /\ Quantities /\ TodoFits

\* Threads whose sub-select has picked p and that have yet to restock it.
Restockers(p) == {s \in Sims : pc[s] = "restocking" /\ p \in DOMAIN todo[s]}

\* The transaction that has p locked restocked it once at most.
OneRestock ==
  \A p \in Products : lock[p] # NoSim =>
    /\ latest[p] <= committed[p] + RestockMax
    /\ lock[p] \in Restockers(p) => latest[p] <= committed[p]

\* A thread gives its row locks back before it restocks or sells again.
BeforeRestock ==
  \A p \in Products : lock[p] # NoSim =>
    /\ pc[lock[p]] \in {"selling", "restock", "restocking"}
    /\ pc[lock[p]] # "restocking" => latest[p] <= committed[p]

\* There is room below the ceiling for every restocking still to come.
RoomLeft ==
  \A p \in Products :
    /\ latest[p] + RestockMax * Cardinality(Restockers(p)) <= Ceiling
    /\ committed[p] + RestockMax * Cardinality(Restockers(p) \ {lock[p]}) <= Ceiling

CeilingInv == StockInv /\ OneRestock /\ BeforeRestock /\ RoomLeft

\* With a single simulator nobody changes an order between its SELECT and its
\* UPDATE.
Known == \A o \in Orders : committed[o] \in Statuses \cup {"absent"}

FreshReads ==
  \A s \in Sims :
    /\ pc[s] = "advance" =>
         /\ DOMAIN todo[s] \subseteq Orders
         /\ \A o \in DOMAIN todo[s] :
              todo[s][o] = committed[o] /\ committed[o] \in DOMAIN STATUS_FLOW
    /\ pc[s] \in {"selling", "restocking"} => DOMAIN todo[s] \subseteq Products

\* An order is locked while its status advances, one step from the committed one.
OneStepAhead ==
  \A o \in Orders : lock[o] # NoSim =>
    /\ pc[lock[o]] = "advance"
    /\ latest[o] \in After(committed[o])
    /\ latest[o] \in Statuses
    /\ o \notin DOMAIN todo[lock[o]]

FlowInv == Shape /\ OneVersion /\ Known /\ FreshReads /\ OneStepAhead

-----------------------------------------------------------------------------
(* Stock is never negative.                                                *)

\* Next, with the actions of Step and the victim's failure spelled out.
LEMMA NextCases ==
  ASSUME Next
  PROVE  \E s \in Sims :
           \/ BeginCycle(s) \/ InsertSampleOrders(s) \/ SelectOrders(s)
           \/ \E r \in Rows : UpdateRow(s, r) \/ WaitForRow(s, r)
           \/ CommitOrders(s) \/ Sell(s) \/ SellDone(s) \/ Restock(s)
           \/ CommitStock(s) \/ Exit(s) \/ Fail(s) \/ Stop(s) \/ Kill(s)
           \/ Restart(s)
BY DEF Next, Step, Update, DeadlockVictim

LEMMA StockInit == Init => StockInv
BY CdcAssumption DEF Init, StockInv, Shape, OneVersion, Quantities, TodoFits, Labels, Rows

LEMMA StockStep ==
  ASSUME StockInv, Next
  PROVE  StockInv'
<1>1. PICK s \in Sims :
           \/ BeginCycle(s) \/ InsertSampleOrders(s) \/ SelectOrders(s)
           \/ \E r \in Rows : UpdateRow(s, r) \/ WaitForRow(s, r)
           \/ CommitOrders(s) \/ Sell(s) \/ SellDone(s) \/ Restock(s)
           \/ CommitStock(s) \/ Exit(s) \/ Fail(s) \/ Stop(s) \/ Kill(s)
           \/ Restart(s)
  BY NextCases
<1>2. CASE BeginCycle(s)
  <2>1. Shape'
    BY <1>2, CdcAssumption DEF StockInv, Shape, Labels, BeginCycle, Goto, table
  <2>2. OneVersion'
    BY <1>2, CdcAssumption DEF StockInv, Shape, OneVersion, BeginCycle, Goto, table
  <2>3. Quantities'
    BY <1>2, CdcAssumption DEF StockInv, Shape, OneVersion, Quantities, TodoFits, Rows, BeginCycle, Goto, table
  <2>4. TodoFits'
    BY <1>2, CdcAssumption DEF StockInv, Shape, TodoFits, Rows, BeginCycle, Goto, table
  <2> QED
    BY <2>1, <2>2, <2>3, <2>4 DEF StockInv
<1>3. CASE InsertSampleOrders(s)
  <2>1. Shape'
    BY <1>3, CdcAssumption DEF StockInv, Shape, Labels, InsertSampleOrders, EndCycle, Goto
  <2>2. OneVersion'
    BY <1>3, CdcAssumption DEF StockInv, Shape, OneVersion, InsertSampleOrders, EndCycle, Goto
  <2>3. Quantities'
    <3>1. PICK new \in SUBSET Orders :
             /\ committed' = [r \in Rows |-> IF r \in new THEN "pending" ELSE committed[r]]
             /\ latest' = [r \in Rows |-> IF r \in new THEN "pending" ELSE latest[r]]
      BY <1>3 DEF InsertSampleOrders, RandomRows
    <3> QED
      BY <3>1, CdcAssumption DEF StockInv, Quantities, Rows
  <2>4. TodoFits'
    BY <1>3, CdcAssumption DEF StockInv, Shape, TodoFits, Rows, InsertSampleOrders, EndCycle, Goto
  <2> QED
    BY <2>1, <2>2, <2>3, <2>4 DEF StockInv
<1>4. CASE SelectOrders(s)
  <2>1. Shape'
    BY <1>4, CdcAssumption DEF StockInv, Shape, Labels, SelectOrders, Targets, Goto, RandomRows, table
  <2>2. OneVersion'
    BY <1>4, CdcAssumption DEF StockInv, Shape, OneVersion, SelectOrders, Targets, Goto, RandomRows, table
  <2>3. Quantities'
    BY <1>4, CdcAssumption DEF StockInv, Shape, OneVersion, Quantities, TodoFits, Rows, SelectOrders, Targets, Goto, RandomRows, table
  <2>4. TodoFits'
    BY <1>4, CdcAssumption DEF StockInv, Shape, TodoFits, Rows, SelectOrders, Targets, Goto, RandomRows, table
  <2> QED
    BY <2>1, <2>2, <2>3, <2>4 DEF StockInv
<1>5. ASSUME NEW r \in Rows, UpdateRow(s, r) PROVE StockInv'
  <2>1. Shape'
    BY <1>5, CdcAssumption DEF StockInv, Shape, Labels, UpdateRow, Updating, NewVersions, Sold
  <2>2. OneVersion'
    BY <1>5, CdcAssumption DEF StockInv, Shape, OneVersion, UpdateRow, Updating, NewVersions, Sold
  <2>3. Quantities'
    BY <1>5, CdcAssumption DEF StockInv, Shape, OneVersion, Quantities, TodoFits, Rows, UpdateRow, Updating, NewVersions, Sold
  <2>4. TodoFits'
    BY <1>5, CdcAssumption DEF StockInv, Shape, TodoFits, Rows, UpdateRow, Updating, NewVersions, Sold
  <2> QED
    BY <2>1, <2>2, <2>3, <2>4 DEF StockInv
<1>6. ASSUME NEW r \in Rows, WaitForRow(s, r) PROVE StockInv'
  <2>1. Shape'
    BY <1>6, CdcAssumption DEF StockInv, Shape, Labels, WaitForRow, table
  <2>2. OneVersion'
    BY <1>6, CdcAssumption DEF StockInv, Shape, OneVersion, WaitForRow, table
  <2>3. Quantities'
    BY <1>6, CdcAssumption DEF StockInv, Shape, OneVersion, Quantities, TodoFits, Rows, WaitForRow, table
  <2>4. TodoFits'
    BY <1>6, CdcAssumption DEF StockInv, Shape, TodoFits, Rows, WaitForRow, table
  <2> QED
    BY <2>1, <2>2, <2>3, <2>4 DEF StockInv
<1>7. CASE CommitOrders(s)
  <2>1. Shape'
    BY <1>7, CdcAssumption DEF StockInv, Shape, Labels, CommitOrders, CommitThen, Commit, Unlocked, EndCycle, Goto
  <2>2. OneVersion'
    BY <1>7, CdcAssumption DEF StockInv, Shape, OneVersion, CommitOrders, CommitThen, Commit, Unlocked, EndCycle, Goto
  <2>3. Quantities'
    BY <1>7, CdcAssumption DEF StockInv, Shape, OneVersion, Quantities, TodoFits, Rows, CommitOrders, CommitThen, Commit, Unlocked, EndCycle, Goto
  <2>4. TodoFits'
    BY <1>7, CdcAssumption DEF StockInv, Shape, TodoFits, Rows, CommitOrders, CommitThen, Commit, Unlocked, EndCycle, Goto
  <2> QED
    BY <2>1, <2>2, <2>3, <2>4 DEF StockInv
<1>8. CASE Sell(s)
  <2>1. Shape'
    BY <1>8, CdcAssumption DEF StockInv, Shape, Labels, Sell, Targets, Goto, RandomRows, SellRows, table
  <2>2. OneVersion'
    BY <1>8, CdcAssumption DEF StockInv, Shape, OneVersion, Sell, Targets, Goto, RandomRows, SellRows, table
  <2>3. Quantities'
    BY <1>8, CdcAssumption DEF StockInv, Shape, OneVersion, Quantities, TodoFits, Rows, Sell, Targets, Goto, RandomRows, SellRows, table
  <2>4. TodoFits'
    BY <1>8, CdcAssumption DEF StockInv, Shape, TodoFits, Rows, Sell, Targets, Goto, RandomRows, SellRows, table
  <2> QED
    BY <2>1, <2>2, <2>3, <2>4 DEF StockInv
<1>9. CASE SellDone(s)
  <2>1. Shape'
    BY <1>9, CdcAssumption DEF StockInv, Shape, Labels, SellDone, Targets, Goto, table
  <2>2. OneVersion'
    BY <1>9, CdcAssumption DEF StockInv, Shape, OneVersion, SellDone, Targets, Goto, table
  <2>3. Quantities'
    BY <1>9, CdcAssumption DEF StockInv, Shape, OneVersion, Quantities, TodoFits, Rows, SellDone, Targets, Goto, table
  <2>4. TodoFits'
    BY <1>9, CdcAssumption DEF StockInv, Shape, TodoFits, Rows, SellDone, Targets, Goto, table
  <2> QED
    BY <2>1, <2>2, <2>3, <2>4 DEF StockInv
<1>10. CASE Restock(s)
  <2>1. Shape'
    BY <1>10, CdcAssumption DEF StockInv, Shape, Labels, Restock, Targets, Goto, RandomRows, RestockRows, table
  <2>2. OneVersion'
    BY <1>10, CdcAssumption DEF StockInv, Shape, OneVersion, Restock, Targets, Goto, RandomRows, RestockRows, table
  <2>3. Quantities'
    BY <1>10, CdcAssumption DEF StockInv, Shape, OneVersion, Quantities, TodoFits, Rows, Restock, Targets, Goto, RandomRows, RestockRows, table
  <2>4. TodoFits'
    BY <1>10, CdcAssumption DEF StockInv, Shape, TodoFits, Rows, Restock, Targets, Goto, RandomRows, RestockRows, table
  <2> QED
    BY <2>1, <2>2, <2>3, <2>4 DEF StockInv
<1>11. CASE CommitStock(s)
  <2>1. Shape'
    BY <1>11, CdcAssumption DEF StockInv, Shape, Labels, CommitStock, CommitThen, Commit, Unlocked, EndCycle, Goto
  <2>2. OneVersion'
    BY <1>11, CdcAssumption DEF StockInv, Shape, OneVersion, CommitStock, CommitThen, Commit, Unlocked, EndCycle, Goto
  <2>3. Quantities'
    BY <1>11, CdcAssumption DEF StockInv, Shape, OneVersion, Quantities, TodoFits, Rows, CommitStock, CommitThen, Commit, Unlocked, EndCycle, Goto
  <2>4. TodoFits'
    BY <1>11, CdcAssumption DEF StockInv, Shape, TodoFits, Rows, CommitStock, CommitThen, Commit, Unlocked, EndCycle, Goto
  <2> QED
    BY <2>1, <2>2, <2>3, <2>4 DEF StockInv
<1>12. CASE Exit(s)
  <2>1. Shape'
    BY <1>12, CdcAssumption DEF StockInv, Shape, Labels, Exit, Goto, table
  <2>2. OneVersion'
    BY <1>12, CdcAssumption DEF StockInv, Shape, OneVersion, Exit, Goto, table
  <2>3. Quantities'
    BY <1>12, CdcAssumption DEF StockInv, Shape, OneVersion, Quantities, TodoFits, Rows, Exit, Goto, table
  <2>4. TodoFits'
    BY <1>12, CdcAssumption DEF StockInv, Shape, TodoFits, Rows, Exit, Goto, table
  <2> QED
    BY <2>1, <2>2, <2>3, <2>4 DEF StockInv
<1>13. CASE Fail(s)
  <2>1. Shape'
    BY <1>13, CdcAssumption DEF StockInv, Shape, Labels, Fail, Close, Unlocked, EndCycle, Goto
  <2>2. OneVersion'
    BY <1>13, CdcAssumption DEF StockInv, Shape, OneVersion, Fail, Close, Unlocked, EndCycle, Goto
  <2>3. Quantities'
    BY <1>13, CdcAssumption DEF StockInv, Shape, OneVersion, Quantities, TodoFits, Rows, Fail, Close, Unlocked, EndCycle, Goto
  <2>4. TodoFits'
    BY <1>13, CdcAssumption DEF StockInv, Shape, TodoFits, Rows, Fail, Close, Unlocked, EndCycle, Goto
  <2> QED
    BY <2>1, <2>2, <2>3, <2>4 DEF StockInv
<1>14. CASE Stop(s)
  <2>1. Shape'
    BY <1>14, CdcAssumption DEF StockInv, Shape, Labels, Stop, table
  <2>2. OneVersion'
    BY <1>14, CdcAssumption DEF StockInv, Shape, OneVersion, Stop, table
  <2>3. Quantities'
    BY <1>14, CdcAssumption DEF StockInv, Shape, OneVersion, Quantities, TodoFits, Rows, Stop, table
  <2>4. TodoFits'
    BY <1>14, CdcAssumption DEF StockInv, Shape, TodoFits, Rows, Stop, table
  <2> QED
    BY <2>1, <2>2, <2>3, <2>4 DEF StockInv
<1>15. CASE Kill(s)
  <2>1. Shape'
    BY <1>15, CdcAssumption DEF StockInv, Shape, Labels, Kill, Close, Unlocked, Goto
  <2>2. OneVersion'
    BY <1>15, CdcAssumption DEF StockInv, Shape, OneVersion, Kill, Close, Unlocked, Goto
  <2>3. Quantities'
    BY <1>15, CdcAssumption DEF StockInv, Shape, OneVersion, Quantities, TodoFits, Rows, Kill, Close, Unlocked, Goto
  <2>4. TodoFits'
    BY <1>15, CdcAssumption DEF StockInv, Shape, TodoFits, Rows, Kill, Close, Unlocked, Goto
  <2> QED
    BY <2>1, <2>2, <2>3, <2>4 DEF StockInv
<1>16. CASE Restart(s)
  <2>1. Shape'
    BY <1>16, CdcAssumption DEF StockInv, Shape, Labels, Restart, Goto, table
  <2>2. OneVersion'
    BY <1>16, CdcAssumption DEF StockInv, Shape, OneVersion, Restart, Goto, table
  <2>3. Quantities'
    BY <1>16, CdcAssumption DEF StockInv, Shape, OneVersion, Quantities, TodoFits, Rows, Restart, Goto, table
  <2>4. TodoFits'
    BY <1>16, CdcAssumption DEF StockInv, Shape, TodoFits, Rows, Restart, Goto, table
  <2> QED
    BY <2>1, <2>2, <2>3, <2>4 DEF StockInv
<1> QED
  BY <1>1, <1>2, <1>3, <1>4, <1>5, <1>6, <1>7, <1>8, <1>9, <1>10, <1>11, <1>12, <1>13, <1>14, <1>15, <1>16

\* Stock never gets negative, and the CHECK on the column never fails, for any
\* number of threads that sell from the same product.
THEOREM NeverNegative == Spec => []StockNeverNegative
<1>1. StockInv /\ UNCHANGED vars => StockInv'
  BY DEF StockInv, Shape, OneVersion, Quantities, TodoFits, vars, thread, table
<1>2. StockInv => StockNeverNegative
  BY DEF StockInv, Quantities, StockNeverNegative
<1> QED
  BY StockInit, StockStep, <1>1, <1>2, PTL DEF Spec
-----------------------------------------------------------------------------
(* The statuses of a single simulator.                                     *)

LEMMA FlowInit == Init => FlowInv
BY CdcAssumption DEF Init, FlowInv, Shape, OneVersion, Known, FreshReads, OneStepAhead, Labels, Rows

\* What one step does to the committed status of an order.
FlowStep == \A o \in Orders : committed'[o] # committed[o] => committed'[o] \in After(committed[o])

LEMMA FlowPreserved ==
  ASSUME FlowInv, Next, NEW s \in Sims, Sims = {s}
  PROVE  FlowInv' /\ FlowStep
<1>1. \/ BeginCycle(s) \/ InsertSampleOrders(s) \/ SelectOrders(s)
      \/ \E r \in Rows : UpdateRow(s, r) \/ WaitForRow(s, r)
      \/ CommitOrders(s) \/ Sell(s) \/ SellDone(s) \/ Restock(s)
      \/ CommitStock(s) \/ Exit(s) \/ Fail(s) \/ Stop(s) \/ Kill(s)
      \/ Restart(s)
  BY NextCases
<1>2. CASE BeginCycle(s)
  <2>1. Shape'
    BY <1>2, CdcAssumption DEF FlowInv, Shape, Labels, BeginCycle, Goto, table
  <2>2. OneVersion'
    BY <1>2, CdcAssumption DEF FlowInv, Shape, OneVersion, BeginCycle, Goto, table
  <2>3. Known'
    BY <1>2, CdcAssumption DEF FlowInv, Shape, Known, OneVersion, OneStepAhead, FreshReads, Statuses, STATUS_FLOW, CANCEL_STATUSES, After, Rows, BeginCycle, Goto, table
  <2>4. FreshReads'
    BY <1>2, CdcAssumption DEF FlowInv, Shape, OneVersion, Known, FreshReads, OneStepAhead, Statuses, STATUS_FLOW, CANCEL_STATUSES, After, Rows, BeginCycle, Goto, table
  <2>5. OneStepAhead'
    BY <1>2, CdcAssumption DEF FlowInv, Shape, OneVersion, Known, FreshReads, OneStepAhead, Statuses, STATUS_FLOW, CANCEL_STATUSES, After, Rows, BeginCycle, Goto, table
  <2>6. FlowStep
    BY <1>2, CdcAssumption DEF FlowInv, Shape, OneVersion, OneStepAhead, FlowStep, Rows, After, BeginCycle, Goto, table
  <2> QED
    BY <2>1, <2>2, <2>3, <2>4, <2>5, <2>6 DEF FlowInv
<1>3. CASE InsertSampleOrders(s)
  <2>1. PICK new \in SUBSET {o \in Orders : committed[o] = "absent"} :
           /\ committed' = [r \in Rows |-> IF r \in new THEN "pending" ELSE committed[r]]
           /\ latest' = [r \in Rows |-> IF r \in new THEN "pending" ELSE latest[r]]
    BY <1>3 DEF InsertSampleOrders, RandomRows
  <2>2. pc[s] = "insert" /\ lock' = lock /\ DOMAIN todo' = Sims
        /\ pc' \in [Sims -> Labels] /\ pc'[s] \in {"select", "idle"}
    BY <1>3 DEF InsertSampleOrders, EndCycle, Goto, FlowInv, Shape, Labels
  <2>3. Shape'
    BY <2>1, <2>2, CdcAssumption DEF FlowInv, Shape, Labels, Rows
  <2>4. OneVersion'
    BY <2>1, <2>2, CdcAssumption DEF FlowInv, Shape, OneVersion, Rows
  <2>5. Known'
    BY <2>1, <2>2, CdcAssumption DEF FlowInv, Shape, Known, OneVersion, OneStepAhead, FreshReads, Statuses, STATUS_FLOW, CANCEL_STATUSES, After, Rows, Rows
  <2>6. FreshReads'
    BY <2>1, <2>2, CdcAssumption DEF FlowInv, Shape, OneVersion, Known, FreshReads, OneStepAhead, Statuses, STATUS_FLOW, CANCEL_STATUSES, After, Rows, Rows
  <2>7. OneStepAhead'
    BY <2>1, <2>2, CdcAssumption DEF FlowInv, Shape, OneVersion, Known, FreshReads, OneStepAhead, Statuses, STATUS_FLOW, CANCEL_STATUSES, After, Rows, Rows
  <2>8. FlowStep
    BY <2>1, <2>2, CdcAssumption DEF FlowInv, Shape, OneVersion, OneStepAhead, FlowStep, Rows, After, Rows
  <2> QED
    BY <2>3, <2>4, <2>5, <2>6, <2>7, <2>8 DEF FlowInv
<1>4. CASE SelectOrders(s)
  <2>1. Shape'
    BY <1>4, CdcAssumption DEF FlowInv, Shape, Labels, SelectOrders, Targets, Goto, RandomRows, table
  <2>2. OneVersion'
    BY <1>4, CdcAssumption DEF FlowInv, Shape, OneVersion, SelectOrders, Targets, Goto, RandomRows, table
  <2>3. Known'
    BY <1>4, CdcAssumption DEF FlowInv, Shape, Known, OneVersion, OneStepAhead, FreshReads, Statuses, STATUS_FLOW, CANCEL_STATUSES, After, Rows, SelectOrders, Targets, Goto, RandomRows, table
  <2>4. FreshReads'
    BY <1>4, CdcAssumption DEF FlowInv, Shape, OneVersion, Known, FreshReads, OneStepAhead, Statuses, STATUS_FLOW, CANCEL_STATUSES, After, Rows, SelectOrders, Targets, Goto, RandomRows, table
  <2>5. OneStepAhead'
    BY <1>4, CdcAssumption DEF FlowInv, Shape, OneVersion, Known, FreshReads, OneStepAhead, Statuses, STATUS_FLOW, CANCEL_STATUSES, After, Rows, SelectOrders, Targets, Goto, RandomRows, table
  <2>6. FlowStep
    BY <1>4, CdcAssumption DEF FlowInv, Shape, OneVersion, OneStepAhead, FlowStep, Rows, After, SelectOrders, Targets, Goto, RandomRows, table
  <2> QED
    BY <2>1, <2>2, <2>3, <2>4, <2>5, <2>6 DEF FlowInv
<1>5. ASSUME NEW r \in Rows, UpdateRow(s, r) PROVE FlowInv' /\ FlowStep
  <2>1. Shape'
    BY <1>5, CdcAssumption DEF FlowInv, Shape, Labels, UpdateRow, Updating, NewVersions, NewStatuses
  <2>2. OneVersion'
    BY <1>5, CdcAssumption DEF FlowInv, Shape, OneVersion, UpdateRow, Updating, NewVersions, NewStatuses
  <2>3. Known'
    BY <1>5, CdcAssumption DEF FlowInv, Shape, Known, OneVersion, OneStepAhead, FreshReads, Statuses, STATUS_FLOW, CANCEL_STATUSES, After, Rows, UpdateRow, Updating, NewVersions, NewStatuses
  <2>4. FreshReads'
    BY <1>5, CdcAssumption DEF FlowInv, Shape, OneVersion, Known, FreshReads, OneStepAhead, Statuses, STATUS_FLOW, CANCEL_STATUSES, After, Rows, UpdateRow, Updating, NewVersions, NewStatuses
  <2>5. OneStepAhead'
    BY <1>5, CdcAssumption DEF FlowInv, Shape, OneVersion, Known, FreshReads, OneStepAhead, Statuses, STATUS_FLOW, CANCEL_STATUSES, After, Rows, UpdateRow, Updating, NewVersions, NewStatuses
  <2>6. FlowStep
    BY <1>5, CdcAssumption DEF FlowInv, Shape, OneVersion, OneStepAhead, FlowStep, Rows, After, UpdateRow, Updating, NewVersions, NewStatuses
  <2> QED
    BY <2>1, <2>2, <2>3, <2>4, <2>5, <2>6 DEF FlowInv
<1>6. ASSUME NEW r \in Rows, WaitForRow(s, r) PROVE FlowInv' /\ FlowStep
  <2>1. Shape'
    BY <1>6, CdcAssumption DEF FlowInv, Shape, Labels, WaitForRow, table
  <2>2. OneVersion'
    BY <1>6, CdcAssumption DEF FlowInv, Shape, OneVersion, WaitForRow, table
  <2>3. Known'
    BY <1>6, CdcAssumption DEF FlowInv, Shape, Known, OneVersion, OneStepAhead, FreshReads, Statuses, STATUS_FLOW, CANCEL_STATUSES, After, Rows, WaitForRow, table
  <2>4. FreshReads'
    BY <1>6, CdcAssumption DEF FlowInv, Shape, OneVersion, Known, FreshReads, OneStepAhead, Statuses, STATUS_FLOW, CANCEL_STATUSES, After, Rows, WaitForRow, table
  <2>5. OneStepAhead'
    BY <1>6, CdcAssumption DEF FlowInv, Shape, OneVersion, Known, FreshReads, OneStepAhead, Statuses, STATUS_FLOW, CANCEL_STATUSES, After, Rows, WaitForRow, table
  <2>6. FlowStep
    BY <1>6, CdcAssumption DEF FlowInv, Shape, OneVersion, OneStepAhead, FlowStep, Rows, After, WaitForRow, table
  <2> QED
    BY <2>1, <2>2, <2>3, <2>4, <2>5, <2>6 DEF FlowInv
<1>7. CASE CommitOrders(s)
  <2>1. Shape'
    BY <1>7, CdcAssumption DEF FlowInv, Shape, Labels, CommitOrders, CommitThen, Commit, Unlocked, EndCycle, Goto
  <2>2. OneVersion'
    BY <1>7, CdcAssumption DEF FlowInv, Shape, OneVersion, CommitOrders, CommitThen, Commit, Unlocked, EndCycle, Goto
  <2>3. Known'
    BY <1>7, CdcAssumption DEF FlowInv, Shape, Known, OneVersion, OneStepAhead, FreshReads, Statuses, STATUS_FLOW, CANCEL_STATUSES, After, Rows, CommitOrders, CommitThen, Commit, Unlocked, EndCycle, Goto
  <2>4. FreshReads'
    BY <1>7, CdcAssumption DEF FlowInv, Shape, OneVersion, Known, FreshReads, OneStepAhead, Statuses, STATUS_FLOW, CANCEL_STATUSES, After, Rows, CommitOrders, CommitThen, Commit, Unlocked, EndCycle, Goto
  <2>5. OneStepAhead'
    BY <1>7, CdcAssumption DEF FlowInv, Shape, OneVersion, Known, FreshReads, OneStepAhead, Statuses, STATUS_FLOW, CANCEL_STATUSES, After, Rows, CommitOrders, CommitThen, Commit, Unlocked, EndCycle, Goto
  <2>6. FlowStep
    BY <1>7, CdcAssumption DEF FlowInv, Shape, OneVersion, OneStepAhead, FlowStep, Rows, After, CommitOrders, CommitThen, Commit, Unlocked, EndCycle, Goto
  <2> QED
    BY <2>1, <2>2, <2>3, <2>4, <2>5, <2>6 DEF FlowInv
<1>8. CASE Sell(s)
  <2>1. Shape'
    BY <1>8, CdcAssumption DEF FlowInv, Shape, Labels, Sell, Targets, Goto, RandomRows, SellRows, table
  <2>2. OneVersion'
    BY <1>8, CdcAssumption DEF FlowInv, Shape, OneVersion, Sell, Targets, Goto, RandomRows, SellRows, table
  <2>3. Known'
    BY <1>8, CdcAssumption DEF FlowInv, Shape, Known, OneVersion, OneStepAhead, FreshReads, Statuses, STATUS_FLOW, CANCEL_STATUSES, After, Rows, Sell, Targets, Goto, RandomRows, SellRows, table
  <2>4. FreshReads'
    BY <1>8, CdcAssumption DEF FlowInv, Shape, OneVersion, Known, FreshReads, OneStepAhead, Statuses, STATUS_FLOW, CANCEL_STATUSES, After, Rows, Sell, Targets, Goto, RandomRows, SellRows, table
  <2>5. OneStepAhead'
    BY <1>8, CdcAssumption DEF FlowInv, Shape, OneVersion, Known, FreshReads, OneStepAhead, Statuses, STATUS_FLOW, CANCEL_STATUSES, After, Rows, Sell, Targets, Goto, RandomRows, SellRows, table
  <2>6. FlowStep
    BY <1>8, CdcAssumption DEF FlowInv, Shape, OneVersion, OneStepAhead, FlowStep, Rows, After, Sell, Targets, Goto, RandomRows, SellRows, table
  <2> QED
    BY <2>1, <2>2, <2>3, <2>4, <2>5, <2>6 DEF FlowInv
<1>9. CASE SellDone(s)
  <2>1. Shape'
    BY <1>9, CdcAssumption DEF FlowInv, Shape, Labels, SellDone, Targets, Goto, table
  <2>2. OneVersion'
    BY <1>9, CdcAssumption DEF FlowInv, Shape, OneVersion, SellDone, Targets, Goto, table
  <2>3. Known'
    BY <1>9, CdcAssumption DEF FlowInv, Shape, Known, OneVersion, OneStepAhead, FreshReads, Statuses, STATUS_FLOW, CANCEL_STATUSES, After, Rows, SellDone, Targets, Goto, table
  <2>4. FreshReads'
    BY <1>9, CdcAssumption DEF FlowInv, Shape, OneVersion, Known, FreshReads, OneStepAhead, Statuses, STATUS_FLOW, CANCEL_STATUSES, After, Rows, SellDone, Targets, Goto, table
  <2>5. OneStepAhead'
    BY <1>9, CdcAssumption DEF FlowInv, Shape, OneVersion, Known, FreshReads, OneStepAhead, Statuses, STATUS_FLOW, CANCEL_STATUSES, After, Rows, SellDone, Targets, Goto, table
  <2>6. FlowStep
    BY <1>9, CdcAssumption DEF FlowInv, Shape, OneVersion, OneStepAhead, FlowStep, Rows, After, SellDone, Targets, Goto, table
  <2> QED
    BY <2>1, <2>2, <2>3, <2>4, <2>5, <2>6 DEF FlowInv
<1>10. CASE Restock(s)
  <2>1. Shape'
    BY <1>10, CdcAssumption DEF FlowInv, Shape, Labels, Restock, Targets, Goto, RandomRows, RestockRows, table
  <2>2. OneVersion'
    BY <1>10, CdcAssumption DEF FlowInv, Shape, OneVersion, Restock, Targets, Goto, RandomRows, RestockRows, table
  <2>3. Known'
    BY <1>10, CdcAssumption DEF FlowInv, Shape, Known, OneVersion, OneStepAhead, FreshReads, Statuses, STATUS_FLOW, CANCEL_STATUSES, After, Rows, Restock, Targets, Goto, RandomRows, RestockRows, table
  <2>4. FreshReads'
    BY <1>10, CdcAssumption DEF FlowInv, Shape, OneVersion, Known, FreshReads, OneStepAhead, Statuses, STATUS_FLOW, CANCEL_STATUSES, After, Rows, Restock, Targets, Goto, RandomRows, RestockRows, table
  <2>5. OneStepAhead'
    BY <1>10, CdcAssumption DEF FlowInv, Shape, OneVersion, Known, FreshReads, OneStepAhead, Statuses, STATUS_FLOW, CANCEL_STATUSES, After, Rows, Restock, Targets, Goto, RandomRows, RestockRows, table
  <2>6. FlowStep
    BY <1>10, CdcAssumption DEF FlowInv, Shape, OneVersion, OneStepAhead, FlowStep, Rows, After, Restock, Targets, Goto, RandomRows, RestockRows, table
  <2> QED
    BY <2>1, <2>2, <2>3, <2>4, <2>5, <2>6 DEF FlowInv
<1>11. CASE CommitStock(s)
  <2>1. Shape'
    BY <1>11, CdcAssumption DEF FlowInv, Shape, Labels, CommitStock, CommitThen, Commit, Unlocked, EndCycle, Goto
  <2>2. OneVersion'
    BY <1>11, CdcAssumption DEF FlowInv, Shape, OneVersion, CommitStock, CommitThen, Commit, Unlocked, EndCycle, Goto
  <2>3. Known'
    BY <1>11, CdcAssumption DEF FlowInv, Shape, Known, OneVersion, OneStepAhead, FreshReads, Statuses, STATUS_FLOW, CANCEL_STATUSES, After, Rows, CommitStock, CommitThen, Commit, Unlocked, EndCycle, Goto
  <2>4. FreshReads'
    BY <1>11, CdcAssumption DEF FlowInv, Shape, OneVersion, Known, FreshReads, OneStepAhead, Statuses, STATUS_FLOW, CANCEL_STATUSES, After, Rows, CommitStock, CommitThen, Commit, Unlocked, EndCycle, Goto
  <2>5. OneStepAhead'
    BY <1>11, CdcAssumption DEF FlowInv, Shape, OneVersion, Known, FreshReads, OneStepAhead, Statuses, STATUS_FLOW, CANCEL_STATUSES, After, Rows, CommitStock, CommitThen, Commit, Unlocked, EndCycle, Goto
  <2>6. FlowStep
    BY <1>11, CdcAssumption DEF FlowInv, Shape, OneVersion, OneStepAhead, FlowStep, Rows, After, CommitStock, CommitThen, Commit, Unlocked, EndCycle, Goto
  <2> QED
    BY <2>1, <2>2, <2>3, <2>4, <2>5, <2>6 DEF FlowInv
<1>12. CASE Exit(s)
  <2>1. Shape'
    BY <1>12, CdcAssumption DEF FlowInv, Shape, Labels, Exit, Goto, table
  <2>2. OneVersion'
    BY <1>12, CdcAssumption DEF FlowInv, Shape, OneVersion, Exit, Goto, table
  <2>3. Known'
    BY <1>12, CdcAssumption DEF FlowInv, Shape, Known, OneVersion, OneStepAhead, FreshReads, Statuses, STATUS_FLOW, CANCEL_STATUSES, After, Rows, Exit, Goto, table
  <2>4. FreshReads'
    BY <1>12, CdcAssumption DEF FlowInv, Shape, OneVersion, Known, FreshReads, OneStepAhead, Statuses, STATUS_FLOW, CANCEL_STATUSES, After, Rows, Exit, Goto, table
  <2>5. OneStepAhead'
    BY <1>12, CdcAssumption DEF FlowInv, Shape, OneVersion, Known, FreshReads, OneStepAhead, Statuses, STATUS_FLOW, CANCEL_STATUSES, After, Rows, Exit, Goto, table
  <2>6. FlowStep
    BY <1>12, CdcAssumption DEF FlowInv, Shape, OneVersion, OneStepAhead, FlowStep, Rows, After, Exit, Goto, table
  <2> QED
    BY <2>1, <2>2, <2>3, <2>4, <2>5, <2>6 DEF FlowInv
<1>13. CASE Fail(s)
  <2>1. Shape'
    BY <1>13, CdcAssumption DEF FlowInv, Shape, Labels, Fail, Close, Unlocked, EndCycle, Goto
  <2>2. OneVersion'
    BY <1>13, CdcAssumption DEF FlowInv, Shape, OneVersion, Fail, Close, Unlocked, EndCycle, Goto
  <2>3. Known'
    BY <1>13, CdcAssumption DEF FlowInv, Shape, Known, OneVersion, OneStepAhead, FreshReads, Statuses, STATUS_FLOW, CANCEL_STATUSES, After, Rows, Fail, Close, Unlocked, EndCycle, Goto
  <2>4. FreshReads'
    BY <1>13, CdcAssumption DEF FlowInv, Shape, OneVersion, Known, FreshReads, OneStepAhead, Statuses, STATUS_FLOW, CANCEL_STATUSES, After, Rows, Fail, Close, Unlocked, EndCycle, Goto
  <2>5. OneStepAhead'
    BY <1>13, CdcAssumption DEF FlowInv, Shape, OneVersion, Known, FreshReads, OneStepAhead, Statuses, STATUS_FLOW, CANCEL_STATUSES, After, Rows, Fail, Close, Unlocked, EndCycle, Goto
  <2>6. FlowStep
    BY <1>13, CdcAssumption DEF FlowInv, Shape, OneVersion, OneStepAhead, FlowStep, Rows, After, Fail, Close, Unlocked, EndCycle, Goto
  <2> QED
    BY <2>1, <2>2, <2>3, <2>4, <2>5, <2>6 DEF FlowInv
<1>14. CASE Stop(s)
  <2>1. Shape'
    BY <1>14, CdcAssumption DEF FlowInv, Shape, Labels, Stop, table
  <2>2. OneVersion'
    BY <1>14, CdcAssumption DEF FlowInv, Shape, OneVersion, Stop, table
  <2>3. Known'
    BY <1>14, CdcAssumption DEF FlowInv, Shape, Known, OneVersion, OneStepAhead, FreshReads, Statuses, STATUS_FLOW, CANCEL_STATUSES, After, Rows, Stop, table
  <2>4. FreshReads'
    BY <1>14, CdcAssumption DEF FlowInv, Shape, OneVersion, Known, FreshReads, OneStepAhead, Statuses, STATUS_FLOW, CANCEL_STATUSES, After, Rows, Stop, table
  <2>5. OneStepAhead'
    BY <1>14, CdcAssumption DEF FlowInv, Shape, OneVersion, Known, FreshReads, OneStepAhead, Statuses, STATUS_FLOW, CANCEL_STATUSES, After, Rows, Stop, table
  <2>6. FlowStep
    BY <1>14, CdcAssumption DEF FlowInv, Shape, OneVersion, OneStepAhead, FlowStep, Rows, After, Stop, table
  <2> QED
    BY <2>1, <2>2, <2>3, <2>4, <2>5, <2>6 DEF FlowInv
<1>15. CASE Kill(s)
  <2>1. Shape'
    BY <1>15, CdcAssumption DEF FlowInv, Shape, Labels, Kill, Close, Unlocked, Goto
  <2>2. OneVersion'
    BY <1>15, CdcAssumption DEF FlowInv, Shape, OneVersion, Kill, Close, Unlocked, Goto
  <2>3. Known'
    BY <1>15, CdcAssumption DEF FlowInv, Shape, Known, OneVersion, OneStepAhead, FreshReads, Statuses, STATUS_FLOW, CANCEL_STATUSES, After, Rows, Kill, Close, Unlocked, Goto
  <2>4. FreshReads'
    BY <1>15, CdcAssumption DEF FlowInv, Shape, OneVersion, Known, FreshReads, OneStepAhead, Statuses, STATUS_FLOW, CANCEL_STATUSES, After, Rows, Kill, Close, Unlocked, Goto
  <2>5. OneStepAhead'
    BY <1>15, CdcAssumption DEF FlowInv, Shape, OneVersion, Known, FreshReads, OneStepAhead, Statuses, STATUS_FLOW, CANCEL_STATUSES, After, Rows, Kill, Close, Unlocked, Goto
  <2>6. FlowStep
    BY <1>15, CdcAssumption DEF FlowInv, Shape, OneVersion, OneStepAhead, FlowStep, Rows, After, Kill, Close, Unlocked, Goto
  <2> QED
    BY <2>1, <2>2, <2>3, <2>4, <2>5, <2>6 DEF FlowInv
<1>16. CASE Restart(s)
  <2>1. Shape'
    BY <1>16, CdcAssumption DEF FlowInv, Shape, Labels, Restart, Goto, table
  <2>2. OneVersion'
    BY <1>16, CdcAssumption DEF FlowInv, Shape, OneVersion, Restart, Goto, table
  <2>3. Known'
    BY <1>16, CdcAssumption DEF FlowInv, Shape, Known, OneVersion, OneStepAhead, FreshReads, Statuses, STATUS_FLOW, CANCEL_STATUSES, After, Rows, Restart, Goto, table
  <2>4. FreshReads'
    BY <1>16, CdcAssumption DEF FlowInv, Shape, OneVersion, Known, FreshReads, OneStepAhead, Statuses, STATUS_FLOW, CANCEL_STATUSES, After, Rows, Restart, Goto, table
  <2>5. OneStepAhead'
    BY <1>16, CdcAssumption DEF FlowInv, Shape, OneVersion, Known, FreshReads, OneStepAhead, Statuses, STATUS_FLOW, CANCEL_STATUSES, After, Rows, Restart, Goto, table
  <2>6. FlowStep
    BY <1>16, CdcAssumption DEF FlowInv, Shape, OneVersion, OneStepAhead, FlowStep, Rows, After, Restart, Goto, table
  <2> QED
    BY <2>1, <2>2, <2>3, <2>4, <2>5, <2>6 DEF FlowInv
<1> QED
  BY <1>1, <1>2, <1>3, <1>4, <1>5, <1>6, <1>7, <1>8, <1>9, <1>10, <1>11, <1>12, <1>13, <1>14, <1>15, <1>16

\* With one simulator each committed change of an order follows STATUS_FLOW, or
\* cancels it before it is shipped, whatever fails and however often it restarts.
THEOREM SingleSimulatorFollowsFlow ==
  ASSUME NEW s \in Sims, Sims = {s}
  PROVE  Spec => StatusesFollowFlow
<1>1. FlowInv /\ UNCHANGED vars => FlowInv'
  BY DEF FlowInv, Shape, OneVersion, Known, FreshReads, OneStepAhead, vars, thread, table
<1>2. FlowInv /\ [Next]_vars => FlowInv' /\ [FlowStep]_vars
  BY <1>1, FlowPreserved
<1>3. [FlowStep]_vars <=>
        [\A o \in Orders : committed'[o] # committed[o] => committed'[o] \in After(committed[o])]_vars
  BY DEF FlowStep
<1> QED
  BY FlowInit, <1>2, <1>3, PTL DEF Spec, StatusesFollowFlow

-----------------------------------------------------------------------------
(* The ceiling of the stock.                                               *)

\* Fewer threads need less room.
LEMMA LessRoom ==
  ASSUME NEW W \in SUBSET Sims, NEW V \in SUBSET W
  PROVE  /\ RestockMax * Cardinality(V) \in Nat
         /\ RestockMax * Cardinality(W) \in Nat
         /\ RestockMax * Cardinality(V) <= RestockMax * Cardinality(W)
<1>1. IsFiniteSet(W) /\ IsFiniteSet(V)
  BY CdcAssumption, FS_Subset
<1>2. Cardinality(V) \in Nat /\ Cardinality(W) \in Nat /\ Cardinality(V) <= Cardinality(W)
  BY <1>1, FS_Subset, FS_CardinalityType
<1>3. \A a, b, m \in Nat : a <= b => m * a \in Nat /\ m * b \in Nat /\ m * a <= m * b
  <2> SUFFICES ASSUME NEW a \in Nat, NEW b \in Nat, NEW m \in Nat, a <= b
               PROVE  m * a \in Nat /\ m * b \in Nat /\ m * a <= m * b
    OBVIOUS
  <2>1. PICK d \in Nat : b = a + d
    <3>1. b - a \in Nat /\ b = a + (b - a)
      OBVIOUS
    <3> QED
      BY <3>1
  <2>2. m * b = m * a + m * d
    BY <2>1
  <2>3. m * a \in Nat /\ m * d \in Nat
    OBVIOUS
  <2> QED
    BY <2>2, <2>3
<1> QED
  BY <1>2, <1>3, CdcAssumption

\* One thread less needs RestockMax less.
LEMMA OneLess ==
  ASSUME NEW W \in SUBSET Sims, NEW t \in W
  PROVE  RestockMax * Cardinality(W) = RestockMax * Cardinality(W \ {t}) + RestockMax
<1>1. IsFiniteSet(W)
  BY CdcAssumption, FS_Subset
<1>2. Cardinality(W) \in Nat /\ Cardinality(W \ {t}) = Cardinality(W) - 1
  BY <1>1, FS_RemoveElement, FS_CardinalityType
<1>3. \A n \in Nat, m \in Nat : m * n = m * (n - 1) + m
  OBVIOUS
<1> QED
  BY <1>2, <1>3, CdcAssumption

LEMMA CeilingSize ==
  /\ Ceiling \in Int
  /\ InitialStock <= Ceiling
  /\ RestockMax * Cardinality(Sims) \in Nat
  /\ (RestockBelow - 1) + RestockMax * Cardinality(Sims) <= Ceiling
<1>1. RestockMax * Cardinality(Sims) \in Nat
  BY LessRoom
<1> QED
  BY <1>1, CdcAssumption DEF Ceiling

LEMMA CeilingInit == Init => CeilingInv
<1> SUFFICES ASSUME Init PROVE CeilingInv
  OBVIOUS
<1>1. StockInv
  BY StockInit
<1>2. OneRestock /\ BeforeRestock
  BY CdcAssumption DEF Init, OneRestock, BeforeRestock, Rows
<1>3. RoomLeft
  <2> SUFFICES ASSUME NEW p \in Products
               PROVE  /\ latest[p] + RestockMax * Cardinality(Restockers(p)) <= Ceiling
                      /\ committed[p] + RestockMax * Cardinality(Restockers(p) \ {lock[p]}) <= Ceiling
    BY DEF RoomLeft
  <2>1. Restockers(p) = {} /\ Restockers(p) \ {lock[p]} = {}
    BY DEF Init, Restockers
  <2>2. latest[p] = InitialStock /\ committed[p] = InitialStock
    BY CdcAssumption DEF Init, Rows
  <2>3. RestockMax * Cardinality({}) = 0
    BY FS_EmptySet, CdcAssumption
  <2> QED
    BY <2>1, <2>2, <2>3, CeilingSize, CdcAssumption
<1> QED
  BY <1>1, <1>2, <1>3 DEF CeilingInv

\* Steps that touch neither a product nor the restocking threads.
Quiet ==
  /\ \A p \in Products :
       /\ committed'[p] = committed[p] /\ latest'[p] = latest[p] /\ lock'[p] = lock[p]
       /\ Restockers(p)' = Restockers(p)
       /\ lock[p] # NoSim =>
            \/ pc'[lock[p]] = pc[lock[p]]
            \/ pc[lock[p]] = "selling" /\ pc'[lock[p]] = "restock"

LEMMA QuietKeeps ==
  ASSUME CeilingInv, Quiet
  PROVE  (OneRestock /\ BeforeRestock /\ RoomLeft)'
<1>1. OneRestock'
  BY DEF CeilingInv, Quiet, OneRestock
<1>2. BeforeRestock'
  BY DEF CeilingInv, Quiet, BeforeRestock
<1>3. RoomLeft'
  BY DEF CeilingInv, Quiet, RoomLeft
<1> QED
  BY <1>1, <1>2, <1>3

LEMMA QuietSteps ==
  ASSUME CeilingInv, NEW s \in Sims,
         \/ BeginCycle(s) \/ InsertSampleOrders(s) \/ SelectOrders(s)
         \/ \E r \in Rows : WaitForRow(s, r)
         \/ CommitOrders(s) \/ Sell(s) \/ SellDone(s)
         \/ Exit(s) \/ Stop(s) \/ Restart(s)
  PROVE  Quiet
<1> USE DEF CeilingInv, StockInv, Shape, BeforeRestock, Quiet, Restockers, Rows
<1>1. CASE BeginCycle(s)
  BY <1>1, CdcAssumption DEF BeginCycle, Goto, table
<1>2. CASE SelectOrders(s)
  BY <1>2, CdcAssumption DEF SelectOrders, Targets, Goto, table
<1>3. CASE CommitOrders(s)
  BY <1>3, CdcAssumption DEF CommitOrders, CommitThen, Commit, Unlocked, EndCycle, Goto
<1>4. CASE Sell(s)
  BY <1>4, CdcAssumption DEF Sell, Targets, Goto, table
<1>5. CASE SellDone(s)
  BY <1>5, CdcAssumption DEF SellDone, Targets, Goto, table
<1>6. CASE Exit(s)
  BY <1>6, CdcAssumption DEF Exit, Goto, table
<1>7. CASE Stop(s)
  BY <1>7, CdcAssumption DEF Stop, table
<1>8. CASE Restart(s)
  BY <1>8, CdcAssumption DEF Restart, Goto, table
<1>9. ASSUME NEW r \in Rows, WaitForRow(s, r) PROVE Quiet
  BY <1>9, CdcAssumption DEF WaitForRow, table
<1>10. CASE InsertSampleOrders(s)
  <2>1. PICK new \in SUBSET Orders :
           /\ committed' = [r \in Rows |-> IF r \in new THEN "pending" ELSE committed[r]]
           /\ latest' = [r \in Rows |-> IF r \in new THEN "pending" ELSE latest[r]]
    BY <1>10 DEF InsertSampleOrders, RandomRows
  <2>2. \A p \in Products : committed'[p] = committed[p] /\ latest'[p] = latest[p]
    BY <2>1, CdcAssumption
  <2>3. /\ lock' = lock
        /\ pc[s] = "insert" /\ pc'[s] # "restocking"
        /\ \A t \in Sims \ {s} : pc'[t] = pc[t] /\ todo'[t] = todo[t]
    BY <1>10 DEF InsertSampleOrders, EndCycle, Goto
  <2> QED
    BY <2>2, <2>3
<1> QED
  BY <1>1, <1>2, <1>3, <1>4, <1>5, <1>6, <1>7, <1>8, <1>9, <1>10

\* Rolled back, a thread leaves more room than before.
LEMMA RollbackKeeps ==
  ASSUME CeilingInv, NEW s \in Sims, Fail(s) \/ Kill(s)
  PROVE  (OneRestock /\ BeforeRestock /\ RoomLeft)'
<1>1. \A p \in Products :
        /\ committed'[p] = committed[p]
        /\ latest'[p] = IF lock[p] = s THEN committed[p] ELSE latest[p]
        /\ lock'[p] = IF lock[p] = s THEN NoSim ELSE lock[p]
  BY DEF CeilingInv, StockInv, Shape, Rows, Fail, Kill, Close, Unlocked
<1>2. \A t \in Sims \ {s} : pc'[t] = pc[t] /\ todo'[t] = todo[t]
  BY DEF CeilingInv, StockInv, Shape, Fail, Kill, EndCycle, Goto
<1>3. pc'[s] # "restocking"
  BY DEF CeilingInv, StockInv, Shape, Fail, Kill, EndCycle, Goto
<1>4. \A p \in Products : Restockers(p)' = Restockers(p) \ {s}
  BY <1>2, <1>3 DEF Restockers
<1>5. lock \in [Rows -> Sims \cup {NoSim}] /\ NoSim \notin Sims
  BY CdcAssumption DEF CeilingInv, StockInv, Shape
<1>6. OneRestock'
  BY <1>1, <1>4, <1>5 DEF CeilingInv, OneRestock, Rows
<1>7. BeforeRestock'
  BY <1>1, <1>2, <1>5 DEF CeilingInv, BeforeRestock, Rows
<1>8. RoomLeft'
  <2> SUFFICES ASSUME NEW p \in Products
               PROVE  /\ latest'[p] + RestockMax * Cardinality(Restockers(p)') <= Ceiling
                      /\ committed'[p] + RestockMax * Cardinality(Restockers(p)' \ {lock'[p]}) <= Ceiling
    BY DEF RoomLeft, Ceiling
  <2> DEFINE W == Restockers(p)
  <2>1. W \in SUBSET Sims /\ NoSim \notin W
    BY <1>5 DEF Restockers
  <2>2. /\ latest[p] \in Nat /\ committed[p] \in Nat
        /\ latest[p] + RestockMax * Cardinality(W) <= Ceiling
        /\ committed[p] + RestockMax * Cardinality(W \ {lock[p]}) <= Ceiling
    BY DEF CeilingInv, StockInv, Quantities, RoomLeft
  <2>3. CASE lock[p] = s
    <3>1. W \ {s} = (W \ {s}) \ {NoSim}
      BY <2>1
    <3> QED
      BY <1>1, <1>4, <2>2, <2>3, <3>1
  <2>4. CASE lock[p] # s
    <3>1. /\ RestockMax * Cardinality(W \ {s}) \in Nat
          /\ RestockMax * Cardinality(W) \in Nat
          /\ RestockMax * Cardinality(W \ {s}) <= RestockMax * Cardinality(W)
      BY <2>1, LessRoom
    <3>2. /\ RestockMax * Cardinality((W \ {s}) \ {lock[p]}) \in Nat
          /\ RestockMax * Cardinality(W \ {lock[p]}) \in Nat
          /\ RestockMax * Cardinality((W \ {s}) \ {lock[p]}) <= RestockMax * Cardinality(W \ {lock[p]})
      <4>1. W \ {lock[p]} \in SUBSET Sims /\ (W \ {s}) \ {lock[p]} \in SUBSET (W \ {lock[p]})
        BY <2>1
      <4> QED
        BY <4>1, LessRoom
    <3>3. latest'[p] = latest[p] /\ committed'[p] = committed[p] /\ lock'[p] = lock[p]
      BY <1>1, <2>4
    <3>4. latest[p] + RestockMax * Cardinality(W \ {s}) <= Ceiling
      BY <2>2, <3>1, CeilingSize
    <3>5. committed[p] + RestockMax * Cardinality((W \ {s}) \ {lock[p]}) <= Ceiling
      BY <2>2, <3>2, CeilingSize
    <3> QED
      BY <1>4, <3>3, <3>4, <3>5
  <2> QED
    BY <2>3, <2>4
<1> QED
  BY <1>6, <1>7, <1>8

\* An UPDATE writes one row: a sale makes room, a restocking uses the room that
\* was kept for it.
LEMMA UpdateKeeps ==
  ASSUME CeilingInv, NEW s \in Sims, NEW r \in Rows, UpdateRow(s, r)
  PROVE  (OneRestock /\ BeforeRestock /\ RoomLeft)'
<1>1. /\ pc' = pc /\ committed' = committed
      /\ lock[r] \in {NoSim, s}
      /\ r \in DOMAIN todo[s]
      /\ pc[s] \in {"advance", "selling", "restocking"}
      /\ \A q \in Rows : lock'[q] = IF q = r THEN s ELSE lock[q]
      /\ \A q \in Rows \ {r} : latest'[q] = latest[q]
      /\ \A t \in Sims \ {s} : todo'[t] = todo[t]
      /\ DOMAIN todo'[s] = DOMAIN todo[s] \ {r}
  BY DEF CeilingInv, StockInv, Shape, UpdateRow, Updating
<1>2. lock \in [Rows -> Sims \cup {NoSim}] /\ NoSim \notin Sims
  BY CdcAssumption DEF CeilingInv, StockInv, Shape
<1>3. \A q \in Products : q # r \/ pc[s] # "restocking" => Restockers(q)' = Restockers(q)
  BY <1>1 DEF Restockers
<1>4. \A q \in Products : committed[q] \in Nat /\ latest[q] \in Nat
  BY DEF CeilingInv, StockInv, Quantities
<1>5. CASE pc[s] = "advance"
  <2>1. r \notin Products
    BY <1>1, <1>5, CdcAssumption DEF CeilingInv, StockInv, TodoFits
  <2>2. Quiet
    BY <1>1, <1>2, <1>3, <2>1 DEF Quiet, Rows
  <2> QED
    BY <2>2, QuietKeeps
<1>6. CASE pc[s] = "selling"
  <2>1. r \in Products /\ latest'[r] \in Nat /\ latest'[r] <= latest[r]
    <3>1. r \in Products /\ todo[s][r] \in 1..SellMax
      BY <1>1, <1>6 DEF CeilingInv, StockInv, TodoFits
    <3>2. latest'[r] = Sold(latest[r], todo[s][r])
      BY <1>6 DEF UpdateRow, NewVersions, CeilingInv, StockInv, Shape
    <3> QED
      BY <1>4, <3>1, <3>2, CdcAssumption DEF Sold
  <2>2. latest[r] <= committed[r]
    BY <1>1, <1>4, <1>6, <2>1, CdcAssumption DEF CeilingInv, StockInv, OneVersion, BeforeRestock
  <2>3. OneRestock'
    BY <1>1, <1>2, <1>3, <1>4, <1>6, <2>1, <2>2, CdcAssumption DEF CeilingInv, OneRestock, Rows
  <2>4. BeforeRestock'
    BY <1>1, <1>2, <1>4, <1>6, <2>1, <2>2 DEF CeilingInv, BeforeRestock, Rows
  <2>5. RoomLeft'
    <3> SUFFICES ASSUME NEW p \in Products
                 PROVE  /\ latest'[p] + RestockMax * Cardinality(Restockers(p)') <= Ceiling
                        /\ committed'[p] + RestockMax * Cardinality(Restockers(p)' \ {lock'[p]}) <= Ceiling
      BY DEF RoomLeft, Ceiling
    <3>1. /\ latest[p] + RestockMax * Cardinality(Restockers(p)) <= Ceiling
          /\ committed[p] + RestockMax * Cardinality(Restockers(p) \ {lock[p]}) <= Ceiling
          /\ Restockers(p)' = Restockers(p)
      BY <1>3, <1>6 DEF CeilingInv, RoomLeft
    <3>2. s \notin Restockers(p) /\ NoSim \notin Restockers(p)
      BY <1>2, <1>6 DEF Restockers
    <3>3. p = r => Restockers(p) \ {lock'[p]} = Restockers(p) \ {lock[p]}
      BY <1>1, <3>2 DEF Rows
    <3>4. RestockMax * Cardinality(Restockers(p)) \in Nat
      BY LessRoom DEF Restockers
    <3>5. latest'[p] \in Nat /\ latest'[p] <= latest[p]
      BY <1>1, <1>4, <2>1 DEF Rows
    <3>6. latest'[p] + RestockMax * Cardinality(Restockers(p)) <= Ceiling
      BY <1>4, <3>1, <3>4, <3>5, CeilingSize
    <3>7. p # r => lock'[p] = lock[p]
      BY <1>1 DEF Rows
    <3> QED
      BY <1>1, <3>1, <3>3, <3>6, <3>7
  <2> QED
    BY <2>3, <2>4, <2>5
<1>7. CASE pc[s] = "restocking"
  <2>1. r \in Products /\ latest'[r] \in Nat /\ latest'[r] <= latest[r] + RestockMax
    <3>1. r \in Products /\ todo[s][r] \in RestockMin..RestockMax
      BY <1>1, <1>7 DEF CeilingInv, StockInv, TodoFits
    <3>2. latest'[r] = latest[r] + todo[s][r]
      BY <1>7 DEF UpdateRow, NewVersions, CeilingInv, StockInv, Shape
    <3> QED
      BY <1>4, <3>1, <3>2, CdcAssumption
  <2>2. s \in Restockers(r) /\ Restockers(r)' = Restockers(r) \ {s}
    BY <1>1, <1>7 DEF Restockers
  <2>3. latest[r] <= committed[r]
    BY <1>1, <1>4, <2>1, <2>2, CdcAssumption DEF CeilingInv, StockInv, OneVersion, OneRestock
  <2>4. OneRestock'
    <3>1. latest'[r] <= committed[r] + RestockMax
      BY <1>4, <2>1, <2>3, CdcAssumption
    <3>2. s \notin Restockers(r)'
      BY <2>2
    <3> QED
      BY <1>1, <1>2, <1>3, <2>1, <3>1, <3>2 DEF CeilingInv, OneRestock, Rows
  <2>5. BeforeRestock'
    BY <1>1, <1>2, <1>7, <2>1 DEF CeilingInv, BeforeRestock, Rows
  <2>6. RoomLeft'
    <3> SUFFICES ASSUME NEW p \in Products
                 PROVE  /\ latest'[p] + RestockMax * Cardinality(Restockers(p)') <= Ceiling
                        /\ committed'[p] + RestockMax * Cardinality(Restockers(p)' \ {lock'[p]}) <= Ceiling
      BY DEF RoomLeft, Ceiling
    <3>1. /\ latest[p] + RestockMax * Cardinality(Restockers(p)) <= Ceiling
          /\ committed[p] + RestockMax * Cardinality(Restockers(p) \ {lock[p]}) <= Ceiling
      BY DEF CeilingInv, RoomLeft
    <3>2. CASE p # r
      BY <1>1, <1>3, <3>1, <3>2 DEF Rows
    <3>3. CASE p = r
      <4> DEFINE W == Restockers(p)
      <4>1. W \in SUBSET Sims /\ s \in W /\ NoSim \notin W
        BY <1>2, <2>2, <3>3 DEF Restockers
      <4>2. RestockMax * Cardinality(W) = RestockMax * Cardinality(W \ {s}) + RestockMax
        BY <4>1, OneLess
      <4>3. RestockMax * Cardinality(W \ {s}) \in Nat /\ RestockMax * Cardinality(W) \in Nat
        BY <4>1, LessRoom
      <4>4. latest'[p] + RestockMax * Cardinality(W \ {s}) <= Ceiling
        BY <1>4, <2>1, <3>1, <3>3, <4>2, <4>3, CeilingSize, CdcAssumption
      <4>5. committed[p] + RestockMax * Cardinality(W \ {s}) <= Ceiling
        <5>1. CASE lock[p] = s
          BY <3>1, <5>1
        <5>2. CASE lock[p] = NoSim
          <6>1. W \ {NoSim} = W
            BY <4>1
          <6>2. committed[p] + RestockMax * Cardinality(W) <= Ceiling
            BY <3>1, <5>2, <6>1
          <6> HIDE DEF W
          <6> QED
            BY <1>4, <4>2, <4>3, <6>2, CeilingSize, CdcAssumption
        <5> QED
          BY <1>1, <3>3, <5>1, <5>2
      <4>6. (W \ {s}) \ {lock'[p]} = W \ {s}
        BY <1>1, <3>3 DEF Rows
      <4> QED
        BY <1>1, <2>2, <3>3, <4>4, <4>5, <4>6
    <3> QED
      BY <3>2, <3>3
  <2> QED
    BY <2>4, <2>5, <2>6
<1> QED
  BY <1>1, <1>5, <1>6, <1>7

\* A commit keeps the room: no row of the thread is still to be restocked.
LEMMA CommitKeeps ==
  ASSUME CeilingInv, NEW s \in Sims, CommitStock(s)
  PROVE  (OneRestock /\ BeforeRestock /\ RoomLeft)'
<1>1. \A p \in Products :
        /\ committed'[p] = IF lock[p] = s THEN latest[p] ELSE committed[p]
        /\ latest'[p] = latest[p]
        /\ lock'[p] = IF lock[p] = s THEN NoSim ELSE lock[p]
  BY DEF CeilingInv, StockInv, Shape, Rows, CommitStock, CommitThen, Commit, Unlocked
<1>2. /\ \A t \in Sims \ {s} : pc'[t] = pc[t] /\ todo'[t] = todo[t]
      /\ pc'[s] = "idle"
      /\ DOMAIN todo[s] = {}
  BY DEF CeilingInv, StockInv, Shape, CommitStock, CommitThen, RowsDone, EndCycle, Goto
<1>3. \A p \in Products : Restockers(p)' = Restockers(p) /\ s \notin Restockers(p)
  BY <1>2 DEF Restockers
<1>4. lock \in [Rows -> Sims \cup {NoSim}] /\ NoSim \notin Sims
  BY CdcAssumption DEF CeilingInv, StockInv, Shape
<1>5. OneRestock'
  BY <1>1, <1>3, <1>4 DEF CeilingInv, OneRestock, Rows
<1>6. BeforeRestock'
  BY <1>1, <1>2, <1>4 DEF CeilingInv, BeforeRestock, Rows
<1>7. RoomLeft'
  <2> SUFFICES ASSUME NEW p \in Products
               PROVE  /\ latest'[p] + RestockMax * Cardinality(Restockers(p)') <= Ceiling
                      /\ committed'[p] + RestockMax * Cardinality(Restockers(p)' \ {lock'[p]}) <= Ceiling
    BY DEF RoomLeft, Ceiling
  <2>1. /\ latest[p] + RestockMax * Cardinality(Restockers(p)) <= Ceiling
        /\ committed[p] + RestockMax * Cardinality(Restockers(p) \ {lock[p]}) <= Ceiling
    BY DEF CeilingInv, RoomLeft
  <2>2. Restockers(p) \ {NoSim} = Restockers(p)
    BY <1>4 DEF Restockers
  <2> QED
    BY <1>1, <1>3, <2>1, <2>2
<1> QED
  BY <1>5, <1>6, <1>7

\* A thread that picks p to restock it sees it below the level, so the room it
\* needs is there, with every other thread restocking p as well.
LEMMA RestockKeeps ==
  ASSUME CeilingInv, NEW s \in Sims, Restock(s)
  PROVE  (OneRestock /\ BeforeRestock /\ RoomLeft)'
<1>1. /\ UNCHANGED <<committed, latest, lock>>
      /\ pc[s] = "restock" /\ pc'[s] = "restocking"
      /\ \A t \in Sims \ {s} : pc'[t] = pc[t] /\ todo'[t] = todo[t]
      /\ DOMAIN todo'[s] \subseteq RestockRows(s)
  BY DEF CeilingInv, StockInv, Shape, Restock, Targets, Goto, RandomRows, table
<1>2. lock \in [Rows -> Sims \cup {NoSim}] /\ NoSim \notin Sims
  BY CdcAssumption DEF CeilingInv, StockInv, Shape
<1>3. \A q \in Products : committed[q] \in Nat /\ latest[q] \in Nat
  BY DEF CeilingInv, StockInv, Quantities
<1>4. \A p \in Products :
        Restockers(p)' = IF p \in DOMAIN todo'[s] THEN Restockers(p) \cup {s} ELSE Restockers(p)
  BY <1>1 DEF Restockers
<1>5. OneRestock'
  BY <1>1, <1>2, <1>4 DEF CeilingInv, OneRestock, BeforeRestock, Rows
<1>6. BeforeRestock'
  BY <1>1, <1>2 DEF CeilingInv, BeforeRestock, Rows
<1>7. RoomLeft'
  <2> SUFFICES ASSUME NEW p \in Products
               PROVE  /\ latest[p] + RestockMax * Cardinality(Restockers(p)') <= Ceiling
                      /\ committed[p] + RestockMax * Cardinality(Restockers(p)' \ {lock[p]}) <= Ceiling
    BY <1>1 DEF RoomLeft, Ceiling
  <2> DEFINE W == Restockers(p)
  <2>1. /\ latest[p] + RestockMax * Cardinality(W) <= Ceiling
        /\ committed[p] + RestockMax * Cardinality(W \ {lock[p]}) <= Ceiling
    BY DEF CeilingInv, RoomLeft
  <2>2. W \in SUBSET Sims /\ W \cup {s} \in SUBSET Sims /\ NoSim \notin W
    BY <1>2 DEF Restockers
  <2>3. CASE p \notin DOMAIN todo'[s]
    BY <1>4, <2>1, <2>3
  <2>4. CASE p \in DOMAIN todo'[s]
    <3>1. Restockers(p)' = W \cup {s}
      BY <1>4, <2>4
    <3>2. Visible(s, p) < RestockBelow
      BY <1>1, <2>4 DEF RestockRows
    <3>3. RestockMax * Cardinality(W \cup {s}) <= RestockMax * Cardinality(Sims)
      BY <2>2, LessRoom
    <3>4. RestockMax * Cardinality(W \cup {s}) \in Nat
      BY <2>2, LessRoom
    <3>5. CASE lock[p] = s
      <4>1. latest[p] + RestockMax * Cardinality(W \cup {s}) <= Ceiling
        <5>1. latest[p] < RestockBelow
          BY <3>2, <3>5 DEF Visible
        <5> QED
          BY <1>3, <3>3, <3>4, <5>1, CeilingSize, CdcAssumption
      <4>2. (W \cup {s}) \ {s} = W \ {s}
        OBVIOUS
      <4> QED
        BY <2>1, <3>1, <3>5, <4>1, <4>2
    <3>6. CASE lock[p] = NoSim
      <4>1. committed[p] + RestockMax * Cardinality(W \cup {s}) <= Ceiling
        <5>1. committed[p] < RestockBelow
          BY <1>2, <3>2, <3>6 DEF Visible
        <5> QED
          BY <1>3, <3>3, <3>4, <5>1, CeilingSize, CdcAssumption
      <4>2. latest[p] = committed[p]
        BY <3>6 DEF CeilingInv, StockInv, OneVersion, Rows
      <4>3. (W \cup {s}) \ {NoSim} = W \cup {s}
        BY <1>2, <2>2
      <4> QED
        BY <3>1, <3>6, <4>1, <4>2, <4>3
    <3>7. CASE lock[p] \in Sims \ {s}
      <4> DEFINE t == lock[p]
      <4>1. committed[p] < RestockBelow
        BY <3>2, <3>7 DEF Visible
      <4>2. (W \cup {s}) \ {t} \in SUBSET (W \cup {s})
        OBVIOUS
      <4>3. /\ RestockMax * Cardinality((W \cup {s}) \ {t}) \in Nat
            /\ RestockMax * Cardinality((W \cup {s}) \ {t}) <= RestockMax * Cardinality(W \cup {s})
        BY <2>2, <4>2, LessRoom
      <4>4. committed[p] + RestockMax * Cardinality((W \cup {s}) \ {t}) <= Ceiling
        <5> HIDE DEF W, t
        <5> QED
          BY <1>3, <3>3, <3>4, <4>1, <4>3, CeilingSize, CdcAssumption
      <4>5. CASE t \in W
        <5>1. latest[p] <= committed[p]
          BY <1>2, <3>7, <4>5 DEF CeilingInv, OneRestock
        <5>2. latest[p] + RestockMax * Cardinality(W \cup {s}) <= Ceiling
          <6> HIDE DEF W, t
          <6> QED
            BY <1>3, <3>3, <3>4, <4>1, <5>1, CeilingSize, CdcAssumption
        <5> QED
          BY <3>1, <4>4, <5>2
      <4>6. CASE t \notin W
        <5>1. latest[p] <= committed[p] + RestockMax
          BY <1>2, <3>7 DEF CeilingInv, OneRestock
        <5>2. W \cup {s} \in SUBSET (Sims \ {t}) /\ Sims \ {t} \in SUBSET Sims /\ t \in Sims
          BY <2>2, <3>7, <4>6
        <5>3. RestockMax * Cardinality(W \cup {s}) <= RestockMax * Cardinality(Sims \ {t})
          BY <5>2, LessRoom
        <5>4. RestockMax * Cardinality(Sims) = RestockMax * Cardinality(Sims \ {t}) + RestockMax
          BY <5>2, OneLess
        <5>5. RestockMax * Cardinality(Sims \ {t}) \in Nat
          BY <5>2, LessRoom
        <5>6. latest[p] + RestockMax * Cardinality(W \cup {s}) <= Ceiling
          <6> HIDE DEF W, t
          <6> QED
            BY <1>3, <3>4, <4>1, <5>1, <5>3, <5>4, <5>5, CeilingSize, CdcAssumption
        <5> QED
          BY <3>1, <4>4, <5>6
      <4> QED
        BY <4>5, <4>6
    <3> QED
      BY <1>2, <3>5, <3>6, <3>7 DEF Rows
  <2> QED
    BY <2>3, <2>4
<1> QED
  BY <1>5, <1>6, <1>7

LEMMA CeilingStep ==
  ASSUME CeilingInv, Next
  PROVE  CeilingInv'
<1>1. StockInv'
  BY StockStep DEF CeilingInv
<1>2. (OneRestock /\ BeforeRestock /\ RoomLeft)'
  BY NextCases, QuietSteps, QuietKeeps, RollbackKeeps, UpdateKeeps, CommitKeeps, RestockKeeps
<1> QED
  BY <1>1, <1>2 DEF CeilingInv

\* However the threads race, the stock of a product never exceeds what one sighting
\* below the level, restocked once by every thread, can make of it.
THEOREM CeilingHolds == Spec => []StockBounded
<1>1. CeilingInv /\ UNCHANGED vars => CeilingInv'
  <2> SUFFICES ASSUME CeilingInv, UNCHANGED vars PROVE CeilingInv'
    OBVIOUS
  <2>1. StockInv'
    BY DEF CeilingInv, StockInv, Shape, OneVersion, Quantities, TodoFits, vars, thread, table
  <2>2. Quiet
    BY DEF Quiet, Restockers, vars, thread, table
  <2> QED
    BY <2>1, <2>2, QuietKeeps DEF CeilingInv
<1>2. CeilingInv => StockBounded
  <2> SUFFICES ASSUME CeilingInv, NEW p \in Products PROVE committed[p] <= Ceiling
    BY DEF StockBounded
  <2> DEFINE V == Restockers(p) \ {lock[p]}
  <2>1. V \in SUBSET Sims
    BY DEF Restockers
  <2>2. RestockMax * Cardinality(V) \in Nat
    BY <2>1, LessRoom
  <2>3. committed[p] \in Nat /\ committed[p] + RestockMax * Cardinality(V) <= Ceiling
    BY DEF CeilingInv, StockInv, Quantities, RoomLeft
  <2> HIDE DEF V
  <2> QED
    BY <2>2, <2>3, CeilingSize
<1> QED
  BY CeilingInit, CeilingStep, <1>1, <1>2, PTL DEF Spec

-----------------------------------------------------------------------------
(* Types.                                                                  *)

\* What TypeOK says of the threads' own variables, beyond Shape.
ThreadTypes ==
  /\ cycle \in [Sims -> 0..2]
  /\ stop \in [Sims -> BOOLEAN]
  /\ waiting \in [Sims -> Rows \cup {NoRow}]
  /\ \A s \in Sims : DOMAIN todo[s] \subseteq Rows

\* Orders hold statuses, and a thread advances only what it read as advanceable.
StatusTypes ==
  /\ \A o \in Orders : committed[o] \in Statuses \cup {"absent"}
                       /\ latest[o] \in Statuses \cup {"absent"}
  /\ \A s \in Sims : pc[s] = "advance" =>
       \A o \in DOMAIN todo[s] : todo[s][o] \in DOMAIN STATUS_FLOW

TypeInv == ThreadTypes /\ StatusTypes

\* Every choice made for a status that was read is a status the CHECK allows.
LEMMA NewStatusesAreStatuses ==
  ASSUME NEW status \in DOMAIN STATUS_FLOW
  PROVE  NewStatuses(status) \subseteq Statuses
BY DEF STATUS_FLOW, NewStatuses, CANCEL_STATUSES, Statuses

\* A thread with nothing to write has no row of any table in hand.
LEMMA NothingToDo == DOMAIN <<>> = {}
OBVIOUS

\* A thread that has not begun has its types.
LEMMA TypeInit == Init => TypeInv
<1> SUFFICES ASSUME Init PROVE TypeInv
  OBVIOUS
<1>1. ThreadTypes
  BY NothingToDo DEF Init, ThreadTypes
<1>2. StatusTypes
  BY CdcAssumption DEF Init, StatusTypes, Rows
<1> QED
  BY <1>1, <1>2 DEF TypeInv

\* The types are kept by every action; the stock's part of the state is known
\* to be well formed from StockInv.
LEMMA TypeStep ==
  ASSUME StockInv, TypeInv, Next
  PROVE  TypeInv'
<1>1. PICK s \in Sims :
           \/ BeginCycle(s) \/ InsertSampleOrders(s) \/ SelectOrders(s)
           \/ \E r \in Rows : UpdateRow(s, r) \/ WaitForRow(s, r)
           \/ CommitOrders(s) \/ Sell(s) \/ SellDone(s) \/ Restock(s)
           \/ CommitStock(s) \/ Exit(s) \/ Fail(s) \/ Stop(s) \/ Kill(s)
           \/ Restart(s)
  BY NextCases
<1> USE CdcAssumption DEF TypeInv, StockInv, Shape
<1>2. CASE BeginCycle(s)
  <2>1. ThreadTypes'
    BY <1>2, NothingToDo DEF ThreadTypes, Rows, BeginCycle, Goto, table
  <2>2. StatusTypes'
    BY <1>2, NothingToDo DEF StatusTypes, Statuses, Rows, Labels, BeginCycle, Goto, table
  <2> QED
    BY <2>1, <2>2
<1>3. CASE InsertSampleOrders(s)
  <2>1. ThreadTypes'
    BY <1>3, NothingToDo DEF ThreadTypes, Rows, InsertSampleOrders, EndCycle, Goto
  <2>2. StatusTypes'
    BY <1>3, NothingToDo DEF StatusTypes, Statuses, Rows, Labels, InsertSampleOrders, EndCycle, Goto
  <2> QED
    BY <2>1, <2>2
<1>4. CASE SelectOrders(s)
  <2>1. ThreadTypes'
    BY <1>4, NothingToDo DEF ThreadTypes, Rows, SelectOrders, Targets, Goto, RandomRows, table
  <2>2. StatusTypes'
    BY <1>4, NothingToDo DEF StatusTypes, Statuses, Rows, Labels, SelectOrders, Targets, Goto, RandomRows, table
  <2> QED
    BY <2>1, <2>2
<1>5. CASE CommitOrders(s)
  <2>1. ThreadTypes'
    BY <1>5, NothingToDo DEF ThreadTypes, Rows, CommitOrders, CommitThen, Commit, Unlocked, EndCycle, Goto
  <2>2. StatusTypes'
    BY <1>5, NothingToDo DEF StatusTypes, Statuses, Rows, Labels, CommitOrders, CommitThen, Commit, Unlocked, EndCycle, Goto
  <2> QED
    BY <2>1, <2>2
<1>6. CASE Sell(s)
  <2>1. ThreadTypes'
    BY <1>6, NothingToDo DEF ThreadTypes, Rows, Sell, Targets, Goto, RandomRows, SellRows, table
  <2>2. StatusTypes'
    BY <1>6, NothingToDo DEF StatusTypes, Statuses, Rows, Labels, Sell, Targets, Goto, RandomRows, SellRows, table
  <2> QED
    BY <2>1, <2>2
<1>7. CASE SellDone(s)
  <2>1. ThreadTypes'
    BY <1>7, NothingToDo DEF ThreadTypes, Rows, SellDone, Targets, Goto, table
  <2>2. StatusTypes'
    BY <1>7, NothingToDo DEF StatusTypes, Statuses, Rows, Labels, SellDone, Targets, Goto, table
  <2> QED
    BY <2>1, <2>2
<1>8. CASE Restock(s)
  <2>1. ThreadTypes'
    BY <1>8, NothingToDo DEF ThreadTypes, Rows, Restock, Targets, Goto, RandomRows, RestockRows, table
  <2>2. StatusTypes'
    BY <1>8, NothingToDo DEF StatusTypes, Statuses, Rows, Labels, Restock, Targets, Goto, RandomRows, RestockRows, table
  <2> QED
    BY <2>1, <2>2
<1>9. CASE CommitStock(s)
  <2>1. ThreadTypes'
    <3>1. EndCycle(s)
      BY <1>9 DEF CommitStock, CommitThen
    <3> QED
      BY <3>1, NothingToDo DEF ThreadTypes, EndCycle
  <2>2. StatusTypes'
    BY <1>9, NothingToDo DEF StatusTypes, Statuses, Rows, Labels, CommitStock, CommitThen, Commit, Unlocked, EndCycle, Goto
  <2> QED
    BY <2>1, <2>2
<1>10. CASE Exit(s)
  <2>1. ThreadTypes'
    BY <1>10, NothingToDo DEF ThreadTypes, Rows, Exit, Goto, table
  <2>2. StatusTypes'
    BY <1>10, NothingToDo DEF StatusTypes, Statuses, Rows, Labels, Exit, Goto, table
  <2> QED
    BY <2>1, <2>2
<1>11. CASE Fail(s)
  <2>1. ThreadTypes'
    BY <1>11, NothingToDo DEF ThreadTypes, Rows, Fail, Close, Unlocked, EndCycle, Goto
  <2>2. StatusTypes'
    BY <1>11, NothingToDo DEF StatusTypes, Statuses, Rows, Labels, Fail, Close, Unlocked, EndCycle, Goto
  <2> QED
    BY <2>1, <2>2
<1>12. CASE Stop(s)
  <2>1. ThreadTypes'
    BY <1>12, NothingToDo DEF ThreadTypes, Rows, Stop, table
  <2>2. StatusTypes'
    BY <1>12, NothingToDo DEF StatusTypes, Statuses, Rows, Labels, Stop, table
  <2> QED
    BY <2>1, <2>2
<1>13. CASE Kill(s)
  <2>1. ThreadTypes'
    BY <1>13, NothingToDo DEF ThreadTypes, Rows, Kill, Close, Unlocked, Goto
  <2>2. StatusTypes'
    BY <1>13, NothingToDo DEF StatusTypes, Statuses, Rows, Labels, Kill, Close, Unlocked, Goto
  <2> QED
    BY <2>1, <2>2
<1>14. CASE Restart(s)
  <2>1. ThreadTypes'
    BY <1>14, NothingToDo DEF ThreadTypes, Rows, Restart, Goto, table
  <2>2. StatusTypes'
    BY <1>14, NothingToDo DEF StatusTypes, Statuses, Rows, Labels, Restart, Goto, table
  <2> QED
    BY <2>1, <2>2
<1>15. ASSUME NEW r \in Rows, WaitForRow(s, r) PROVE TypeInv'
  <2>1. ThreadTypes'
    BY <1>15 DEF ThreadTypes, WaitForRow, table
  <2>2. StatusTypes'
    BY <1>15 DEF StatusTypes, WaitForRow, table
  <2> QED
    BY <2>1, <2>2
<1>16. ASSUME NEW r \in Rows, UpdateRow(s, r) PROVE TypeInv'
  <2>1. ThreadTypes'
    BY <1>16 DEF ThreadTypes, UpdateRow
  <2>2. PICK v \in NewVersions(s, r) : latest' = [latest EXCEPT ![r] = v]
    BY <1>16 DEF UpdateRow
  <2>3. r \in Orders => v \in Statuses
    <3> SUFFICES ASSUME r \in Orders PROVE v \in Statuses
      OBVIOUS
    <3>1. pc[s] = "advance" /\ r \in DOMAIN todo[s]
      BY <1>16 DEF UpdateRow, Updating, TodoFits
    <3>2. todo[s][r] \in DOMAIN STATUS_FLOW
      BY <3>1 DEF StatusTypes
    <3>3. v \in NewStatuses(todo[s][r])
      BY <2>2, <3>1 DEF NewVersions
    <3> QED
      BY <3>2, <3>3, NewStatusesAreStatuses
  <2>4. StatusTypes'
    <3>1. \A o \in Orders : committed'[o] \in Statuses \cup {"absent"}
                            /\ latest'[o] \in Statuses \cup {"absent"}
      BY <1>16, <2>2, <2>3 DEF StatusTypes, UpdateRow, Rows
    <3>2. \A t \in Sims : pc'[t] = "advance" =>
            \A o \in DOMAIN todo'[t] : todo'[t][o] \in DOMAIN STATUS_FLOW
      BY <1>16 DEF StatusTypes, UpdateRow
    <3> QED
      BY <3>1, <3>2 DEF StatusTypes
  <2> QED
    BY <2>1, <2>4
<1> QED
  BY <1>1, <1>2, <1>3, <1>4, <1>5, <1>6, <1>7, <1>8, <1>9, <1>10, <1>11, <1>12, <1>13, <1>14, <1>15, <1>16

\* Every variable has its type in every reachable state: whatever threads race, the
\* orders table holds nothing its CHECK would refuse.
THEOREM CdcTypeCorrect == Spec => []TypeOK
<1>1. StockInv /\ UNCHANGED vars => StockInv'
  BY DEF StockInv, Shape, OneVersion, Quantities, TodoFits, vars, thread, table
<1>2. TypeInv /\ UNCHANGED vars => TypeInv'
  BY DEF TypeInv, ThreadTypes, StatusTypes, vars, thread, table
<1>3. StockInv /\ TypeInv => TypeOK
  <2> SUFFICES ASSUME StockInv, TypeInv PROVE TypeOK
    OBVIOUS
  <2>1. pc \in [Sims -> Labels] /\ lock \in [Rows -> Sims \cup {NoSim}]
    BY DEF StockInv, Shape
  <2>2. \A p \in Products : {committed[p], latest[p]} \subseteq Int
    BY DEF StockInv, Quantities
  <2>3. /\ \A s \in Sims : cycle[s] \in 0..2
        /\ stop \in [Sims -> BOOLEAN]
        /\ waiting \in [Sims -> Rows \cup {NoRow}]
        /\ \A s \in Sims : DOMAIN todo[s] \subseteq Rows
    BY DEF TypeInv, ThreadTypes
  <2>4. cycle \in [Sims -> 0..2]
    BY DEF TypeInv, ThreadTypes
  <2>5. \A o \in Orders : {committed[o], latest[o]} \subseteq Statuses \cup {"absent"}
    BY DEF TypeInv, StatusTypes
  <2> QED
    BY <2>1, <2>2, <2>3, <2>4, <2>5 DEF TypeOK, Labels
<1> QED
  BY <1>1, <1>2, <1>3, StockInit, StockStep, TypeInit, TypeStep, PTL DEF Spec

-----------------------------------------------------------------------------
(* Locks and waits: what CyclesEnd needs besides fairness.                   *)

\* A row lock is held by a thread that is in the part of its cycle that writes
\* the row's table.
HoldersInv ==
  \A r \in Rows : lock[r] # NoSim =>
    /\ r \in Orders => pc[lock[r]] = "advance"
    /\ r \in Products => pc[lock[r]] \in {"selling", "restock", "restocking"}

\* A thread waits for a row that it has yet to write and does not hold.
WaitersInv ==
  \A s \in Sims : waiting[s] # NoRow =>
    /\ Updating(s)
    /\ waiting[s] \in DOMAIN todo[s]
    /\ lock[waiting[s]] # s

LockInv == HoldersInv /\ WaitersInv

\* Every thread starts with nothing held and nothing awaited.
LEMMA LockInit == Init => LockInv
BY CdcAssumption DEF Init, LockInv, HoldersInv, WaitersInv

\* Threads give their locks back before they go on to the other table, and wait in
\* the middle of an UPDATE only.
LEMMA LockStep ==
  ASSUME StockInv, TypeInv, LockInv, Next
  PROVE  LockInv'
<1>1. PICK s \in Sims :
           \/ BeginCycle(s) \/ InsertSampleOrders(s) \/ SelectOrders(s)
           \/ \E r \in Rows : UpdateRow(s, r) \/ WaitForRow(s, r)
           \/ CommitOrders(s) \/ Sell(s) \/ SellDone(s) \/ Restock(s)
           \/ CommitStock(s) \/ Exit(s) \/ Fail(s) \/ Stop(s) \/ Kill(s)
           \/ Restart(s)
  BY NextCases
<1> USE CdcAssumption
    DEF StockInv, Shape, TypeInv, ThreadTypes, LockInv, Rows
<1>2. CASE BeginCycle(s)
  <2>1. HoldersInv'
    BY <1>2 DEF HoldersInv, BeginCycle, Goto, table
  <2>2. WaitersInv'
    BY <1>2 DEF WaitersInv, Updating, BeginCycle, Goto, table
  <2> QED
    BY <2>1, <2>2
<1>3. CASE InsertSampleOrders(s)
  <2>1. HoldersInv'
    BY <1>3 DEF HoldersInv, InsertSampleOrders, EndCycle, Goto
  <2>2. WaitersInv'
    BY <1>3 DEF WaitersInv, Updating, InsertSampleOrders, EndCycle, Goto
  <2> QED
    BY <2>1, <2>2
<1>4. CASE SelectOrders(s)
  <2>1. HoldersInv'
    BY <1>4 DEF HoldersInv, SelectOrders, Targets, Goto, table
  <2>2. WaitersInv'
    BY <1>4 DEF WaitersInv, Updating, SelectOrders, Targets, Goto, table
  <2> QED
    BY <2>1, <2>2
<1>5. CASE CommitOrders(s)
  <2>1. HoldersInv'
    BY <1>5 DEF HoldersInv, CommitOrders, RowsDone, CommitThen, Commit, Unlocked, EndCycle, Goto
  <2>2. WaitersInv'
    BY <1>5 DEF WaitersInv, Updating, CommitOrders, RowsDone, CommitThen, Commit, Unlocked, EndCycle, Goto
  <2> QED
    BY <2>1, <2>2
<1>6. CASE Sell(s)
  <2>1. HoldersInv'
    BY <1>6 DEF HoldersInv, Sell, Targets, Goto, table
  <2>2. WaitersInv'
    BY <1>6 DEF WaitersInv, Updating, Sell, Targets, Goto, table
  <2> QED
    BY <2>1, <2>2
<1>7. CASE SellDone(s)
  <2>1. HoldersInv'
    BY <1>7 DEF HoldersInv, SellDone, RowsDone, Targets, Goto, table
  <2>2. WaitersInv'
    BY <1>7 DEF WaitersInv, Updating, SellDone, RowsDone, Targets, Goto, table
  <2> QED
    BY <2>1, <2>2
<1>8. CASE Restock(s)
  <2>1. HoldersInv'
    BY <1>8 DEF HoldersInv, Restock, Targets, Goto, table
  <2>2. WaitersInv'
    BY <1>8 DEF WaitersInv, Updating, Restock, Targets, Goto, table
  <2> QED
    BY <2>1, <2>2
<1>9. CASE CommitStock(s)
  <2>1. HoldersInv'
    BY <1>9 DEF HoldersInv, CommitStock, RowsDone, CommitThen, Commit, Unlocked, EndCycle, Goto
  <2>2. WaitersInv'
    BY <1>9 DEF WaitersInv, Updating, CommitStock, RowsDone, CommitThen, Commit, Unlocked, EndCycle, Goto
  <2> QED
    BY <2>1, <2>2
<1>10. CASE Exit(s)
  <2>1. HoldersInv'
    BY <1>10 DEF HoldersInv, Exit, Goto, table
  <2>2. WaitersInv'
    BY <1>10 DEF WaitersInv, Updating, Exit, Goto, table
  <2> QED
    BY <2>1, <2>2
<1>11. CASE Fail(s)
  <2>1. HoldersInv'
    BY <1>11 DEF HoldersInv, Fail, Close, Unlocked, EndCycle, Goto
  <2>2. WaitersInv'
    BY <1>11 DEF WaitersInv, Updating, Fail, Close, Unlocked, EndCycle, Goto
  <2> QED
    BY <2>1, <2>2
<1>12. CASE Stop(s)
  <2>1. HoldersInv'
    BY <1>12 DEF HoldersInv, Stop, table
  <2>2. WaitersInv'
    BY <1>12 DEF WaitersInv, Updating, Stop, table
  <2> QED
    BY <2>1, <2>2
<1>13. CASE Kill(s)
  <2>1. HoldersInv'
    BY <1>13 DEF HoldersInv, Kill, Close, Unlocked, Goto
  <2>2. WaitersInv'
    BY <1>13 DEF WaitersInv, Updating, Kill, Close, Unlocked, Goto
  <2> QED
    BY <2>1, <2>2
<1>14. CASE Restart(s)
  <2>1. HoldersInv'
    BY <1>14 DEF HoldersInv, Restart, Goto, table
  <2>2. WaitersInv'
    BY <1>14 DEF WaitersInv, Updating, Restart, Goto, table
  <2> QED
    BY <2>1, <2>2
<1>15. ASSUME NEW r \in Rows, WaitForRow(s, r) PROVE LockInv'
  <2>1. HoldersInv'
    BY <1>15 DEF HoldersInv, TodoFits, Updating, WaitForRow, table
  <2>2. WaitersInv'
    BY <1>15 DEF WaitersInv, Updating, WaitForRow, table
  <2> QED
    BY <2>1, <2>2
<1>16. ASSUME NEW r \in Rows, UpdateRow(s, r) PROVE LockInv'
  <2>1. HoldersInv'
    BY <1>16 DEF HoldersInv, TodoFits, Updating, UpdateRow
  <2>2. WaitersInv'
    BY <1>16 DEF WaitersInv, Updating, UpdateRow
  <2> QED
    BY <2>1, <2>2
<1> QED
  BY <1>1, <1>2, <1>3, <1>4, <1>5, <1>6, <1>7, <1>8, <1>9, <1>10,
     <1>11, <1>12, <1>13, <1>14, <1>15, <1>16

\* The invariants that the results about locks rest on.
LEMMA LocksKept == Spec => [](StockInv /\ TypeInv /\ LockInv)
<1>1. StockInv /\ UNCHANGED vars => StockInv'
  BY DEF StockInv, Shape, OneVersion, Quantities, TodoFits, vars, thread, table
<1>2. TypeInv /\ UNCHANGED vars => TypeInv'
  BY DEF TypeInv, ThreadTypes, StatusTypes, vars, thread, table
<1>3. LockInv /\ UNCHANGED vars => LockInv'
  BY DEF LockInv, HoldersInv, WaitersInv, Updating, vars, thread, table
<1> QED
  BY <1>1, <1>2, <1>3, StockInit, StockStep, TypeInit, TypeStep, LockInit, LockStep, PTL
     DEF Spec

\* No lock outlives its thread's cycle, and nobody holds rows of one table while it
\* waits for a row of the other.
NoOrphanLocks ==
  \A r \in Rows : lock[r] # NoSim =>
    /\ InCycle(lock[r])
    /\ waiting[lock[r]] # NoRow => (waiting[lock[r]] \in Orders <=> r \in Orders)

\* Among the threads in their cycles there is one that waits for nobody, or whose row
\* is free by now, or that PostgreSQL's deadlock detector finds.
SomebodyGoesOn ==
  (\E s \in Sims : InCycle(s)) =>
    \E t \in Sims :
      /\ InCycle(t)
      /\ waiting[t] = NoRow \/ lock[waiting[t]] = NoSim \/ Deadlocked(t)

\* cdc_simulator.py:52-130: each part of a cycle commits or is rolled back before the
\* next, so that no lock is left behind, whatever fails, is killed or restarted, and
\* no deadlock reaches across the two tables.
THEOREM LocksAreGivenBack == Spec => []NoOrphanLocks
<1>1. ASSUME StockInv, TypeInv, LockInv PROVE NoOrphanLocks
  <2> SUFFICES ASSUME NEW r \in Rows, lock[r] # NoSim
               PROVE  /\ InCycle(lock[r])
                      /\ waiting[lock[r]] # NoRow => (waiting[lock[r]] \in Orders <=> r \in Orders)
    BY DEF NoOrphanLocks
  <2>1. lock[r] \in Sims
    BY <1>1 DEF StockInv, Shape
  <2>2. /\ r \in Orders => pc[lock[r]] = "advance"
        /\ r \in Products => pc[lock[r]] \in {"selling", "restock", "restocking"}
        /\ r \in Orders \/ r \in Products
    BY <1>1 DEF LockInv, HoldersInv, Rows
  <2>3. waiting[lock[r]] # NoRow =>
          /\ pc[lock[r]] \in {"advance", "selling", "restocking"}
          /\ waiting[lock[r]] \in DOMAIN todo[lock[r]]
    BY <1>1, <2>1 DEF LockInv, WaitersInv, Updating
  <2>4. waiting[lock[r]] # NoRow =>
          /\ pc[lock[r]] = "advance" => waiting[lock[r]] \in Orders
          /\ pc[lock[r]] # "advance" => waiting[lock[r]] \in Products
    BY <1>1, <2>1, <2>3 DEF StockInv, TodoFits
  <2> QED
    BY <2>2, <2>4, CdcAssumption DEF InCycle
<1> QED
  BY <1>1, LocksKept, PTL

\* cdc_simulator.py:132-158: threads never block each other for good.  If all threads
\* in a cycle wait for rows that are held, they are a deadlock, which PostgreSQL breaks.
THEOREM NobodyWaitsForNobody == Spec => []SomebodyGoesOn
<1>1. ASSUME StockInv, TypeInv, LockInv PROVE SomebodyGoesOn
  <2> SUFFICES ASSUME NEW s \in Sims, InCycle(s),
                      \A t \in Sims : InCycle(t) => waiting[t] # NoRow /\ lock[waiting[t]] # NoSim
               PROVE  Deadlocked(s)
    BY DEF SomebodyGoesOn
  <2> DEFINE C == {t \in Sims : InCycle(t)}
  <2>1. ASSUME NEW t \in C PROVE waiting[t] # NoRow /\ lock[waiting[t]] \in C
    <3>1. waiting[t] \in Rows /\ lock[waiting[t]] # NoSim /\ waiting[t] # NoRow
      BY <1>1 DEF TypeInv, ThreadTypes
    <3>2. lock[waiting[t]] \in Sims
      BY <1>1, <3>1 DEF StockInv, Shape
    <3>3. InCycle(lock[waiting[t]])
      BY <1>1, <3>1 DEF LockInv, HoldersInv, Rows, InCycle
    <3> QED
      BY <3>1, <3>2, <3>3
  <2>2. C \in SUBSET Sims /\ s \in C
    OBVIOUS
  <2> HIDE DEF C
  <2> QED
    BY <2>1, <2>2 DEF Deadlocked
<1> QED
  BY <1>1, LocksKept, PTL

\* A single simulator never waits for a row.
THEOREM AloneNobodyWaits ==
  ASSUME NEW s \in Sims, Sims = {s}
  PROVE  Spec => [](waiting[s] = NoRow \/ lock[waiting[s]] = NoSim)
<1>1. StockInv /\ TypeInv /\ LockInv => waiting[s] = NoRow \/ lock[waiting[s]] = NoSim
  BY DEF StockInv, Shape, TypeInv, ThreadTypes, LockInv, WaitersInv
<1> QED
  BY <1>1, LocksKept, PTL

\* The parts of a cycle in their order, counted down.
PartsLeft(s) ==
  IF pc[s] = "insert" THEN 7
  ELSE IF pc[s] = "select" THEN 6
  ELSE IF pc[s] = "advance" THEN 5
  ELSE IF pc[s] = "sell" THEN 4
  ELSE IF pc[s] = "selling" THEN 3
  ELSE IF pc[s] = "restock" THEN 2
  ELSE IF pc[s] = "restocking" THEN 1
  ELSE 0

\* A step leaves a thread in its cycle where it is with no more rows to write than
\* before, or takes it to a later part of the cycle.
GoesForward ==
  \A s \in Sims : InCycle(s) =>
    \/ PartsLeft(s)' < PartsLeft(s)
    \/ pc'[s] = pc[s] /\ DOMAIN todo'[s] \subseteq DOMAIN todo[s]

\* Every UPDATE of a row is one row less to write.
OneRowLess ==
  \A s \in Sims, r \in Rows :
    UpdateRow(s, r) => r \in DOMAIN todo[s] /\ DOMAIN todo'[s] = DOMAIN todo[s] \ {r}

\* cdc_simulator.py:132-158: a cycle has no loop in it: no part of it is done twice and
\* no row is picked again, whatever the other threads do in between.
THEOREM CyclesGoForward == Spec => [][GoesForward /\ OneRowLess]_vars
<1>1. ASSUME StockInv, TypeInv, Next PROVE OneRowLess
  BY <1>1 DEF OneRowLess, UpdateRow, StockInv, Shape
<1>2. ASSUME StockInv, TypeInv, Next PROVE GoesForward
  <2>1. PICK s \in Sims :
           \/ BeginCycle(s) \/ InsertSampleOrders(s) \/ SelectOrders(s)
           \/ \E r \in Rows : UpdateRow(s, r) \/ WaitForRow(s, r)
           \/ CommitOrders(s) \/ Sell(s) \/ SellDone(s) \/ Restock(s)
           \/ CommitStock(s) \/ Exit(s) \/ Fail(s) \/ Stop(s) \/ Kill(s)
           \/ Restart(s)
    BY <1>2, NextCases
  <2>2. \A t \in Sims \ {s} : pc'[t] = pc[t] /\ todo'[t] = todo[t]
    <3> USE <1>2 DEF StockInv, Shape, Goto
    <3>1. CASE BeginCycle(s) \/ Exit(s) \/ Stop(s) \/ Kill(s) \/ Restart(s)
      BY <3>1 DEF BeginCycle, Exit, Stop, Kill, Restart
    <3>2. CASE InsertSampleOrders(s) \/ Fail(s)
      BY <3>2 DEF InsertSampleOrders, Fail, EndCycle
    <3>3. CASE SelectOrders(s)
      BY <3>3 DEF SelectOrders, Targets
    <3>4. CASE Sell(s)
      BY <3>4 DEF Sell, Targets
    <3>5. CASE Restock(s)
      BY <3>5 DEF Restock, Targets
    <3>6. CASE SellDone(s)
      BY <3>6 DEF SellDone, Targets
    <3>7. CASE CommitOrders(s) \/ CommitStock(s)
      BY <3>7 DEF CommitOrders, CommitStock, CommitThen, EndCycle
    <3>8. ASSUME NEW r \in Rows, UpdateRow(s, r) \/ WaitForRow(s, r)
          PROVE  \A t \in Sims \ {s} : pc'[t] = pc[t] /\ todo'[t] = todo[t]
      BY <3>8 DEF UpdateRow, WaitForRow
    <3> QED
      BY <2>1, <3>1, <3>2, <3>3, <3>4, <3>5, <3>6, <3>7, <3>8
  <2>3. pc \in [Sims -> Labels] /\ DOMAIN todo = Sims
    BY <1>2 DEF StockInv, Shape
  <2> SUFFICES ASSUME InCycle(s)
               PROVE  \/ PartsLeft(s)' < PartsLeft(s)
                      \/ pc'[s] = pc[s] /\ DOMAIN todo'[s] \subseteq DOMAIN todo[s]
    BY <2>2 DEF GoesForward
  <2>4. CASE BeginCycle(s) \/ Exit(s) \/ Restart(s)
    BY <2>4 DEF BeginCycle, Exit, Restart, InCycle
  <2>5. CASE InsertSampleOrders(s)
    BY <2>3, <2>5 DEF InsertSampleOrders, EndCycle, Goto, PartsLeft
  <2>6. CASE SelectOrders(s) \/ Sell(s) \/ SellDone(s) \/ Restock(s)
    <3>1. CASE SelectOrders(s)
      <4>1. pc[s] = "select" /\ pc'[s] = "advance"
        BY <2>3, <3>1 DEF SelectOrders, Targets, Goto
      <4> QED
        BY <4>1 DEF PartsLeft
    <3>2. CASE Sell(s)
      <4>1. pc[s] = "sell" /\ pc'[s] = "selling"
        BY <2>3, <3>2 DEF Sell, Targets, Goto
      <4> QED
        BY <4>1 DEF PartsLeft
    <3>3. CASE SellDone(s)
      <4>1. pc[s] = "selling" /\ pc'[s] = "restock"
        BY <2>3, <3>3 DEF SellDone, Targets, Goto
      <4> QED
        BY <4>1 DEF PartsLeft
    <3>4. CASE Restock(s)
      <4>1. pc[s] = "restock" /\ pc'[s] = "restocking"
        BY <2>3, <3>4 DEF Restock, Targets, Goto
      <4> QED
        BY <4>1 DEF PartsLeft
    <3> QED
      BY <2>6, <3>1, <3>2, <3>3, <3>4
  <2>7. CASE CommitOrders(s)
    BY <2>3, <2>7 DEF CommitOrders, CommitThen, EndCycle, Goto, PartsLeft
  <2>8. CASE CommitStock(s)
    BY <2>3, <2>8 DEF CommitStock, CommitThen, EndCycle, Goto, PartsLeft
  <2>9. CASE Fail(s) \/ Kill(s)
    <3>1. pc'[s] \in {"idle", "exited"}
      BY <2>3, <2>9 DEF Fail, Kill, EndCycle, Goto
    <3> QED
      BY <2>3, <3>1 DEF PartsLeft, InCycle, Labels
  <2>10. CASE Stop(s)
    BY <2>10 DEF Stop
  <2>11. ASSUME NEW r \in Rows, UpdateRow(s, r) \/ WaitForRow(s, r)
         PROVE  pc'[s] = pc[s] /\ DOMAIN todo'[s] \subseteq DOMAIN todo[s]
    BY <2>3, <2>11 DEF UpdateRow, WaitForRow
  <2> QED
    BY <2>1, <2>4, <2>5, <2>6, <2>7, <2>8, <2>9, <2>10, <2>11
<1>3. StockInv /\ TypeInv /\ [Next]_vars => [GoesForward /\ OneRowLess]_vars
  BY <1>1, <1>2
<1> QED
  BY <1>3, LocksKept, PTL DEF Spec

\* What a thread that was told to stop still does: it ends its cycle and then exits;
\* it begins no other one, and only a new process has not been told.
OnlyLeaves ==
  \A s \in Sims : stop[s] /\ pc[s] # "exited" =>
    /\ stop'[s]
    /\ pc[s] = "idle" => pc'[s] \in {"idle", "exited"}

\* cdc_simulator.py:134-158: StopEndsThread without fairness.  Between a stop and the
\* thread's end lies at most the rest of its cycle (CyclesGoForward).
THEOREM StoppedThreadsLeave == Spec => [][OnlyLeaves]_vars
<1>1. ASSUME StockInv, TypeInv, Next PROVE OnlyLeaves
  <2>1. PICK s \in Sims :
           \/ BeginCycle(s) \/ InsertSampleOrders(s) \/ SelectOrders(s)
           \/ \E r \in Rows : UpdateRow(s, r) \/ WaitForRow(s, r)
           \/ CommitOrders(s) \/ Sell(s) \/ SellDone(s) \/ Restock(s)
           \/ CommitStock(s) \/ Exit(s) \/ Fail(s) \/ Stop(s) \/ Kill(s)
           \/ Restart(s)
    BY <1>1, NextCases
  <2> USE <1>1 DEF StockInv, Shape, Goto, OnlyLeaves
  <2>1a. stop \in [Sims -> BOOLEAN]
    BY DEF TypeInv, ThreadTypes
  <2>2. CASE BeginCycle(s)
    BY <2>2, <2>1a DEF BeginCycle
  <2>3. CASE InsertSampleOrders(s)
    BY <2>3, <2>1a DEF InsertSampleOrders, EndCycle
  <2>4. CASE SelectOrders(s)
    BY <2>4 DEF SelectOrders, Targets
  <2>5. CASE Sell(s)
    BY <2>5 DEF Sell, Targets
  <2>6. CASE SellDone(s)
    BY <2>6 DEF SellDone, Targets
  <2>7. CASE Restock(s)
    BY <2>7 DEF Restock, Targets
  <2>8. CASE CommitOrders(s) \/ CommitStock(s)
    BY <2>8 DEF CommitOrders, CommitStock, CommitThen, EndCycle
  <2>9. CASE Exit(s)
    BY <2>9 DEF Exit
  <2>10. CASE Fail(s)
    BY <2>10 DEF Fail, InCycle, EndCycle
  <2>11. CASE Stop(s)
    BY <2>11, <2>1a DEF Stop
  <2>12. CASE Kill(s)
    BY <2>12 DEF Kill
  <2>13. CASE Restart(s)
    BY <2>13 DEF Restart
  <2>14. ASSUME NEW r \in Rows, UpdateRow(s, r) \/ WaitForRow(s, r) PROVE OnlyLeaves
    BY <2>14 DEF UpdateRow, WaitForRow
  <2> QED
    BY <2>1, <2>2, <2>3, <2>4, <2>5, <2>6, <2>7, <2>8, <2>9, <2>10, <2>11, <2>12,
       <2>13, <2>14
<1>2. ASSUME StockInv, TypeInv, [Next]_vars PROVE [OnlyLeaves]_vars
  BY <1>1, <1>2
<1> QED
  BY <1>2, LocksKept, PTL DEF Spec
=============================================================================
