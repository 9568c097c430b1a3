----------------------------- MODULE TPCCTables -----------------------------
(***************************************************************************)
(* The tables of the TPC-C procedures and the storage adapter of a running *)
(* transaction (execution/tpcc/table.h, execution/tpcc/storage_adapter.cpp)*)
(* A storage key is <<pkey[1], table, rest of pkey, column>>: a table whose*)
(* columns are grouped has one key per row, the others one per row and     *)
(* column.  Names, addresses and the other columns no statement computes   *)
(* with are left out.                                                      *)
(***************************************************************************)
EXTENDS Integers, Sequences, FiniteSets

WarehouseKey(w, col) == <<w, "WAREHOUSE", col>>
DistrictKey(w, d, col) == <<w, "DISTRICT", d, col>>
CustomerKey(w, d, c, col) == <<w, "CUSTOMER", d, c, col>>
HistoryKey(w, d, c, h) == <<w, "HISTORY", d, c, h>>
NewOrderKey(w, d, o) == <<w, "NEW_ORDER", d, o>>
OrderKey(w, d, o) == <<w, "ORDER", d, o>>
OrderLineKey(w, d, o, n) == <<w, "ORDER_LINE", d, o, n>>
ItemKey(w, i) == <<w, "ITEM", i>>
StockKey(w, i) == <<w, "STOCK", i>>

TableOf(k) == k[2]

WarehouseColumns == {"TAX", "YTD"}
DistrictColumns == {"TAX", "YTD", "NEXT_O_ID"}
CustomerColumns == {"DISCOUNT", "BALANCE", "YTD_PAYMENT", "PAYMENT_CNT", "DELIVERY_CNT"}

\* What the adapter reads for a key that is not stored, and what is stored for a
\* written key that was never given a value: the empty string.
Empty == [none |-> TRUE]

Cell(n) == [v |-> n]

\* PAYMENT_CNT and DELIVERY_CNT are Int16Type: they wrap around.
Int16(n) == ((n + 2^15) % 2^16) - 2^15

\* Select in a table with ungrouped columns returns nothing only if no column is found.
SelectUngrouped(vals, keys) == \E k \in keys: vals[k] # Empty

\* Select in a table with grouped columns does not look at the length of the
\* value: the columns of an empty one are read outside of it.
SelectGrouped(vals, key) == vals[key] # Empty

\* Update fails on an empty value, and leaves the new value empty.
Update(vals, key, new) == IF vals[key] = Empty THEN Empty ELSE new

CanUpdate(vals, keys) == \A k \in keys: vals[k] # Empty

\* The keys of a transaction, collected by TxnKeyGenStorageAdapter while the client
\* goes through its reads and its writes.
Finalize(reads, writes) ==
  [k \in reads \cup writes |-> IF k \in writes THEN "WRITE" ELSE "READ"]
=============================================================================
