-------------------------- MODULE TPCCTransactions --------------------------
(***************************************************************************)
(* The five TPC-C procedures (execution/tpcc.cpp, execution/tpcc/*.cpp).   *)
(* For a transaction t: the keys it reads and the keys it writes, which    *)
(* the client declares by running the same statements without data; and    *)
(* the new values of the written keys, computed from vals, the values of   *)
(* all its keys.                                                           *)
(***************************************************************************)
EXTENDS TPCCTables, FiniteSetsExt

CONSTANTS LinePerOrder,  \* 10 in the code
          Junk           \* what a read outside of a value may yield

Line == 1 .. LinePerOrder

-----------------------------------------------------------------------------
(* new_order                                                               *)

StockOf(l) == StockKey(l.supply_w_id, l.item_id)

NewOrderReads(t) ==
  {WarehouseKey(t.w_id, "TAX"), CustomerKey(t.w_id, t.d_id, t.c_id, "DISCOUNT"),
   DistrictKey(t.w_id, t.d_id, "TAX"), DistrictKey(t.w_id, t.d_id, "NEXT_O_ID")}
  \cup {ItemKey(t.i_w_id, t.ol[i].item_id): i \in Line} \cup {StockOf(t.ol[i]): i \in Line}

NewOrderUpdates(t) == {DistrictKey(t.w_id, t.d_id, "NEXT_O_ID")} \cup {StockOf(t.ol[i]): i \in Line}

NewOrderInserts(t) ==
  {OrderKey(t.w_id, t.d_id, t.o_id), NewOrderKey(t.w_id, t.d_id, t.o_id)}
  \cup {OrderLineKey(t.w_id, t.d_id, t.o_id, t.ol[i].id): i \in Line}

\* Mutant: without the restocking of the else branch.
QuantityWithoutRestock(s_quantity, quantity) == s_quantity - quantity

NewQuantity(s_quantity, quantity) ==
  IF s_quantity > quantity THEN s_quantity - quantity ELSE s_quantity - (quantity - 91)

\* Compute and Write.  Two lines of one item start from the same stock; the last is kept.
NewOrderValue(t, vals, k) ==
  CASE TableOf(k) = "DISTRICT" -> Cell(vals[k].v + 1)
    [] TableOf(k) = "ORDER" -> [c_id |-> t.c_id, carrier_id |-> 0, ol_cnt |-> LinePerOrder,
                                all_local |-> \A i \in Line: t.ol[i].supply_w_id = t.w_id]
    [] TableOf(k) = "NEW_ORDER" -> Cell(0)
    [] TableOf(k) = "STOCK" -> LET i == Max({j \in Line: StockOf(t.ol[j]) = k})
                               IN [quantity |-> NewQuantity(vals[k].quantity, t.ol[i].quantity)]
    [] TableOf(k) = "ORDER_LINE" ->
         LET i == CHOOSE j \in Line: t.ol[j].id = k[5]
         IN [delivery_d |-> 0,
             amount |-> t.ol[i].quantity * vals[ItemKey(t.i_w_id, t.ol[i].item_id)].price]

\* Read returns false if a select in a table with ungrouped columns finds nothing,
\* Write if an update fails; a missing item or stock is read as it comes.
NewOrderStatus(t, vals) ==
  CASE ~(/\ SelectUngrouped(vals, {WarehouseKey(t.w_id, "TAX")})
         /\ SelectUngrouped(vals, {CustomerKey(t.w_id, t.d_id, t.c_id, "DISCOUNT")})
         /\ SelectUngrouped(vals, {DistrictKey(t.w_id, t.d_id, c): c \in {"TAX", "NEXT_O_ID"}})) -> "ABORTED"
    [] \E i \in Line: ~SelectGrouped(vals, ItemKey(t.i_w_id, t.ol[i].item_id)) -> "UNDEFINED"
    [] ~CanUpdate(vals, NewOrderUpdates(t)) -> "ABORTED"
    [] OTHER -> "COMMITTED"

-----------------------------------------------------------------------------
(* payment                                                                 *)

PaymentUpdates(t) ==
  {WarehouseKey(t.w_id, "YTD"), DistrictKey(t.w_id, t.d_id, "YTD")}
  \cup {CustomerKey(t.c_w_id, t.c_d_id, t.c_id, c): c \in {"BALANCE", "YTD_PAYMENT", "PAYMENT_CNT"}}

PaymentReads(t) == PaymentUpdates(t) \cup {CustomerKey(t.c_w_id, t.c_d_id, t.c_id, "DISCOUNT")}

PaymentInserts(t) == {HistoryKey(t.w_id, t.d_id, t.c_id, t.h_id)}

PaymentValue(t, vals, k) ==
  IF TableOf(k) = "HISTORY" THEN [c_d_id |-> t.c_d_id, c_w_id |-> t.c_w_id, amount |-> t.amount]
  ELSE LET column == k[Len(k)]
       IN Cell(CASE column \in {"YTD", "YTD_PAYMENT"} -> vals[k].v + t.amount
                 [] column = "BALANCE" -> vals[k].v - t.amount
                 [] column = "PAYMENT_CNT" -> Int16(vals[k].v + 1))

PaymentStatus(t, vals) == IF CanUpdate(vals, PaymentUpdates(t)) THEN "COMMITTED" ELSE "ABORTED"

-----------------------------------------------------------------------------
(* deliver: looks at the lines 1 to LinePerOrder of the order, and ignores *)
(* the results of all its statements.                                      *)

DeliverLines(t) == {OrderLineKey(t.w_id, t.d_id, t.o_id, i): i \in Line}

DeliverCustomer(t) == {CustomerKey(t.w_id, t.d_id, t.c_id, c): c \in {"BALANCE", "DELIVERY_CNT"}}

DeliverReads(t) == {OrderKey(t.w_id, t.d_id, t.o_id)} \cup DeliverLines(t) \cup DeliverCustomer(t)

DeliverUpdates(t) == DeliverReads(t)

DeliverDeletes(t) == {NewOrderKey(t.w_id, t.d_id, t.o_id)}

\* The sum of the amounts, with junk for the lines that are not there.
SumAmount(t, vals, junk) ==
  LET found == {k \in DeliverLines(t): SelectGrouped(vals, k)}
  IN MapThenSumSet(LAMBDA k: vals[k].amount, found) + IF found = DeliverLines(t) THEN 0 ELSE junk

DeliverValue(t, vals, junk, k) ==
  CASE TableOf(k) = "ORDER" -> Update(vals, k, [vals[k] EXCEPT !.carrier_id = t.carrier])
    [] TableOf(k) = "ORDER_LINE" -> Update(vals, k, [vals[k] EXCEPT !.delivery_d = t.datetime])
    [] TableOf(k) = "CUSTOMER" ->
         Update(vals, k, Cell(IF k[5] = "BALANCE" THEN vals[k].v + SumAmount(t, vals, junk)
                              ELSE Int16(vals[k].v + 1)))

-----------------------------------------------------------------------------
(* order_status and stock_level only read.                                 *)

OrderStatusReads(t) ==
  {CustomerKey(t.w_id, t.d_id, t.c_id, "BALANCE"), OrderKey(t.w_id, t.d_id, t.o_id)}
  \cup {OrderLineKey(t.w_id, t.d_id, t.o_id, i): i \in Line}

StockLevelReads(t) ==
  {DistrictKey(t.w_id, t.d_id, "NEXT_O_ID")}
  \cup {OrderLineKey(t.w_id, t.d_id, o, i): o \in t.o_id - 20 .. t.o_id - 1, i \in 0 .. LinePerOrder - 1}
  \cup {StockKey(t.w_id, i): i \in t.i_ids}

-----------------------------------------------------------------------------
(* What the client declares and what a machine executes.                   *)

Reads(t) ==
  CASE t.name = "new_order" -> NewOrderReads(t)
    [] t.name = "payment" -> PaymentReads(t)
    [] t.name = "order_status" -> OrderStatusReads(t)
    [] t.name = "deliver" -> DeliverReads(t)
    [] t.name = "stock_level" -> StockLevelReads(t)

Deletes(t) == IF t.name = "deliver" THEN DeliverDeletes(t) ELSE {}

Writes(t) ==
  CASE t.name = "new_order" -> NewOrderUpdates(t) \cup NewOrderInserts(t)
    [] t.name = "payment" -> PaymentUpdates(t) \cup PaymentInserts(t)
    [] t.name = "deliver" -> DeliverUpdates(t) \cup Deletes(t)
    [] OTHER -> {}

Keys(t) == Finalize(Reads(t), Writes(t))

NewValue(t, vals, junk, k) ==
  CASE t.name = "new_order" -> NewOrderValue(t, vals, k)
    [] t.name = "payment" -> PaymentValue(t, vals, k)
    [] t.name = "deliver" -> DeliverValue(t, vals, junk, k)

StatusOf(t, vals) ==
  CASE t.name = "new_order" -> NewOrderStatus(t, vals)
    [] t.name = "payment" -> PaymentStatus(t, vals)
    [] OTHER -> "COMMITTED"
=============================================================================
