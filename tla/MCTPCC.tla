------------------------------- MODULE MCTPCC -------------------------------
(***************************************************************************)
(* Loading is checked for several numbers of warehouses, partitions and    *)
(* threads; transactions run on the smallest databases of two regions.     *)
(***************************************************************************)
EXTENDS TPCC

Setup(w, d, p, n, mix, txns) ==
  [warehouses |-> w, districts |-> d, regions |-> 2, partitions |-> p, threads |-> n, mix |-> mix,
   txns |-> txns]

All == {"new_order", "payment", "order_status", "deliver", "stock_level"}

\* The mix of orders and deliveries is long enough for the delivery of a new order,
\* before and after it is placed.
MCConfig ==
  {Setup(2, 1, 1, 1, {"new_order", "deliver"}, 4), Setup(2, 2, 1, 1, {"payment"}, 2),
   Setup(2, 1, 1, 1, All, 3), Setup(4, 1, 2, 1, All, 1)}
  \cup {Setup(w, 1, p, n, {}, 0): w \in 4 .. 6, p \in 1 .. 2, n \in 1 .. 3}

\* Two items with one from a remote warehouse, and one item twice.
MCBaskets ==
  {<<[item_id |-> 1, quantity |-> 10, remote |-> FALSE], [item_id |-> 2, quantity |-> 1, remote |-> TRUE]>>,
   <<[item_id |-> 1, quantity |-> 10, remote |-> FALSE], [item_id |-> 1, quantity |-> 10, remote |-> FALSE]>>}
=============================================================================
