-------------------------------- MODULE TPCC --------------------------------
(***************************************************************************)
(* The TPC-C benchmark on one copy of the database: the threads of each    *)
(* partition load its tables (execution/tpcc/load_tables.cpp), a client of *)
(* each region generates transactions with order and history numbers of    *)
(* its own counting (workload/tpcc.cpp, workload/tpcc.h), and the machines *)
(* execute them one at a time, in any order that the logs may give them.   *)
(* The clients run without ACCESS_COOP and SH_ONLY, with HOMES = 2, and one*)
(* generator per client.                                                   *)
(***************************************************************************)
EXTENDS TPCCTransactions, Functions

CONSTANTS Config,        \* warehouses, their districts (10 in the code), regions, partitions,
                         \* loader threads, TXN_MIX and, a bound, the number of transactions
          CustPerDist, OrdPerDist, MaxItems,  \* 3000, 3000 and 100000 in the code
          LastDelivered, \* 2100 in the code
          LoadedStock,   \* quantities the loader draws, of 10 .. 100
          Baskets,       \* lines of an order: [item_id, quantity, remote]
          Amounts        \* amounts of a payment, of 100 .. 500000

VARIABLES config,        \* an element of Config
          db,            \* partition -> storage key -> value
          num_done,      \* loader threads that are done
          ids, max_o_id, \* the TPCCIdGenerator of each client
          pending,       \* transactions that are generated and not executed
          executed,      \* number of executed ones
          statuses       \* their statuses

vars == <<config, db, num_done, ids, max_o_id, pending, executed, statuses>>

Partition == 0 .. config.partitions - 1
Region == 0 .. config.regions - 1
Warehouse == 1 .. config.warehouses
District == 1 .. config.districts
Item == 1 .. MaxItems

\* TPCCSharder and TPCCMetadataInitializer: the first part of a key is its warehouse.
compute_partition(k) == (k[1] - 1) % config.partitions
MasterOf(k) == ((k[1] - 1) \div config.partitions) % config.regions

Stored(k) == LET local == db[compute_partition(k)] IN IF k \in DOMAIN local THEN local[k] ELSE Empty

-----------------------------------------------------------------------------
(* The loader.                                                             *)

Loader == Partition \X (0 .. config.threads - 1)

\* Mutant: the last range is one short.
WarehousesButLast(p, i) ==
  LET range == config.warehouses \div config.threads + 1
      distance == (p - ((i * range) % config.partitions) + config.partitions) % config.partitions
      from_key == i * range + distance
      to_key == Min({(i + 1) * range, config.warehouses - 1})
  IN {w \in from_key + 1 .. to_key: (w - (from_key + 1)) % config.partitions = 0}

\* The warehouses of loader thread i of partition p: from_w to to_w, by steps.
WarehousesOf(p, i) ==
  LET range == config.warehouses \div config.threads + 1
      distance == (p - ((i * range) % config.partitions) + config.partitions) % config.partitions
      from_key == i * range + distance
      to_key == Min({(i + 1) * range, config.warehouses})
  IN {w \in from_key + 1 .. to_key: (w - (from_key + 1)) % config.partitions = 0}

LoadItem(p) ==
  [k \in {ItemKey(p + 1 + j * config.partitions, i): j \in Region, i \in Item} |-> [price |-> 100]]

LoadWarehouse(w) == [k \in {WarehouseKey(w, c): c \in WarehouseColumns} |->
                       Cell(IF k[3] = "YTD" THEN 300000000 ELSE 10)]

LoadStock(w, q) == [k \in {StockKey(w, i): i \in Item} |-> [quantity |-> q]]

LoadDistrict(w) ==
  [k \in {DistrictKey(w, d, c): d \in District, c \in DistrictColumns} |->
     Cell(CASE k[4] = "TAX" -> 10 [] k[4] = "YTD" -> 300000 [] k[4] = "NEXT_O_ID" -> OrdPerDist + 1)]

LoadCustomer(w) ==
  [k \in {CustomerKey(w, d, c, col): d \in District, c \in 1 .. CustPerDist, col \in CustomerColumns} |->
     Cell(CASE k[5] = "BALANCE" -> -10 [] k[5] = "YTD_PAYMENT" -> 100 [] k[5] = "PAYMENT_CNT" -> 1
            [] OTHER -> 0)]

LoadHistory(w) ==
  [k \in {HistoryKey(w, d, c, 1): d \in District, c \in 1 .. CustPerDist} |->
     [c_d_id |-> k[3], c_w_id |-> w, amount |-> 100]]

\* The customers are shuffled over the orders; which of them an order has is left out.
LoadOrder(w) ==
  [k \in {OrderKey(w, d, o): d \in District, o \in 1 .. OrdPerDist} |->
     [c_id |-> 1, carrier_id |-> IF k[4] > LastDelivered THEN 0 ELSE 1, ol_cnt |-> LinePerOrder,
      all_local |-> TRUE]]

LoadNewOrder(w) ==
  [k \in {NewOrderKey(w, d, o): d \in District, o \in LastDelivered + 1 .. OrdPerDist} |-> Cell(0)]

LoadOrderLine(w) ==
  [k \in {OrderLineKey(w, d, o, i): d \in District, o \in 1 .. OrdPerDist, i \in Line} |->
     [delivery_d |-> IF k[4] > LastDelivered THEN 0 ELSE 1234567890, amount |-> 0]]

Merge(fs) == LET dom == UNION {DOMAIN f: f \in fs}
             IN [k \in dom |-> (CHOOSE f \in fs: k \in DOMAIN f)[k]]

Rows(w, q) == {LoadWarehouse(w), LoadStock(w, q), LoadDistrict(w), LoadCustomer(w), LoadHistory(w),
               LoadOrder(w), LoadNewOrder(w), LoadOrderLine(w)}

LoadFn(p, i) ==
  /\ <<p, i>> \notin num_done
  /\ num_done' = num_done \cup {<<p, i>>}
  /\ \E q \in LoadedStock:
       db' = [db EXCEPT ![p] = Merge({@} \cup UNION {Rows(w, q): w \in WarehousesOf(p, i)})]
  /\ UNCHANGED <<config, ids, max_o_id, pending, executed, statuses>>

Loaded == num_done = Loader

-----------------------------------------------------------------------------
(* The clients.                                                            *)

\* warehouse_index_[partition][home]
warehouse_index(p, home) ==
  {i + 1: i \in {j \in 0 .. config.warehouses - 1:
                   j % config.partitions = p /\ (j \div config.partitions) % config.regions = home}}

\* local_selectale_warehouse: always of partition 0.
LocalWarehouses(r) == warehouse_index(0, r)

SelectRemoteWarehouses(r, p) == UNION {warehouse_index(p, h): h \in Region \ {r}}

\* Mutants: generators that do not count what they hand out.
SameOId(g) == g
SameHId(g) == g

NextOId(g) == [g EXCEPT !.o_id = @ + 1]
NextNOOId(g) == [g EXCEPT !.no_o_id = @ + 1]
NextHId(g) == [g EXCEPT !.h_id = @ + 1]

Init ==
  /\ config \in Config
  /\ db = [p \in Partition |-> LoadItem(p)]
  /\ num_done = {}
  /\ ids = [r \in Region |-> [wd \in Warehouse \X District |->
                                [o_id |-> OrdPerDist + 1, no_o_id |-> 1, h_id |-> 2]]]
  /\ max_o_id = [r \in Region |-> OrdPerDist]
  /\ pending = {} /\ executed = 0 /\ statuses = {}

Generated == Cardinality(pending) + executed

\* A new transaction t of client r, whose generator becomes g for district wd.
Generate(r, wd, g, t) ==
  /\ Loaded /\ Generated < config.txns
  /\ ids' = [ids EXCEPT ![r][wd] = g]
  /\ pending' = pending \cup {t}
  /\ UNCHANGED <<config, db, num_done, executed, statuses>>

\* The lines of an order are numbered from 0.
OrderLines(w, remote, b) ==
  [i \in Line |-> [id |-> i - 1, item_id |-> b[i].item_id, quantity |-> b[i].quantity,
                   supply_w_id |-> IF b[i].remote THEN remote ELSE w]]

\* Mutant: the item table of the first region, whatever the client's.
FirstRegionItems(r, p) == p + 1

\* The copy of the item table a client reads: its representative warehouse.
ItemWarehouse(r, p) == p + r * config.partitions + 1

NewOrder(r, w, d) ==
  \E p \in Partition, c \in 1 .. CustPerDist, b \in Baskets:
    LET remotes == SelectRemoteWarehouses(r, p)
        g == ids[r][<<w, d>>]
    IN \E remote \in IF remotes = {} THEN {w} ELSE remotes:
      /\ Generate(r, <<w, d>>, NextOId(g),
                  [name |-> "new_order", region |-> r, w_id |-> w, d_id |-> d, c_id |-> c,
                   o_id |-> g.o_id, i_w_id |-> ItemWarehouse(r, p), ol |-> OrderLines(w, remote, b),
                   is_multi_home |-> remotes # {} /\ \E i \in Line: b[i].remote])
      /\ max_o_id' = [max_o_id EXCEPT ![r] = Max({@, g.o_id})]

Payment(r, w, d) ==
  \E p \in Partition, c \in 1 .. CustPerDist, amount \in Amounts, is_remote \in BOOLEAN:
    \E cust \in IF is_remote THEN SelectRemoteWarehouses(r, p) \X District ELSE {<<w, d>>}:
      LET g == ids[r][<<w, d>>] IN
      /\ Generate(r, <<w, d>>, NextHId(g),
                  [name |-> "payment", region |-> r, w_id |-> w, d_id |-> d, c_w_id |-> cust[1],
                   c_d_id |-> cust[2], c_id |-> c, amount |-> amount, h_id |-> g.h_id,
                   is_multi_home |-> is_remote])
      /\ UNCHANGED max_o_id

OrderStatus(r, w, d) ==
  \E c \in 1 .. CustPerDist, o \in max_o_id[r] - 5 .. max_o_id[r]:
    /\ Generate(r, <<w, d>>, ids[r][<<w, d>>],
                [name |-> "order_status", region |-> r, w_id |-> w, d_id |-> d, c_id |-> c, o_id |-> o,
                 is_multi_home |-> FALSE])
    /\ UNCHANGED max_o_id

Deliver(r, w, d) ==
  \E c \in 1 .. CustPerDist:
    LET g == ids[r][<<w, d>>] IN
    /\ Generate(r, <<w, d>>, NextNOOId(g),
                [name |-> "deliver", region |-> r, w_id |-> w, d_id |-> d, c_id |-> c,
                 o_id |-> g.no_o_id, carrier |-> 1, datetime |-> 1, is_multi_home |-> FALSE])
    /\ UNCHANGED max_o_id

StockLevel(r, w, d) ==
  /\ Generate(r, <<w, d>>, ids[r][<<w, d>>],
              [name |-> "stock_level", region |-> r, w_id |-> w, d_id |-> d, o_id |-> max_o_id[r],
               i_ids |-> Item, is_multi_home |-> FALSE])
  /\ UNCHANGED max_o_id

NextTransaction(r) ==
  \E w \in LocalWarehouses(r), d \in District:
    \/ "new_order" \in config.mix /\ NewOrder(r, w, d)
    \/ "payment" \in config.mix /\ Payment(r, w, d)
    \/ "order_status" \in config.mix /\ OrderStatus(r, w, d)
    \/ "deliver" \in config.mix /\ Deliver(r, w, d)
    \/ "stock_level" \in config.mix /\ StockLevel(r, w, d)

-----------------------------------------------------------------------------
(* Execution, by the lock managers' guarantees one transaction at a time.  *)

\* Execution::ApplyWrites, after the procedure: a written key without a new value is
\* stored empty.
ApplyWrites(t, vals, junk) ==
  LET written == {k \in DOMAIN vals: Keys(t)[k] = "WRITE"} \ Deletes(t)
  IN [p \in Partition |->
       LET local == {k \in written: compute_partition(k) = p}
       IN [k \in (DOMAIN db[p] \cup local) \ Deletes(t) |->
             IF k \in local THEN NewValue(t, vals, junk, k) ELSE db[p][k]]]

Execute(t) ==
  LET vals == [k \in DOMAIN Keys(t) |-> Stored(k)]
      status == StatusOf(t, vals)
  IN /\ t \in pending
     /\ pending' = pending \ {t}
     /\ executed' = executed + 1
     /\ statuses' = statuses \cup {status}
     /\ IF status = "COMMITTED" THEN \E junk \in Junk: db' = ApplyWrites(t, vals, junk)
        ELSE UNCHANGED db
     /\ UNCHANGED <<config, num_done, ids, max_o_id>>

Next ==
  \/ \E l \in Loader: LoadFn(l[1], l[2])
  \/ \E r \in Region: NextTransaction(r)
  \/ \E t \in pending: Execute(t)

Spec == Init /\ [][Next]_vars

-----------------------------------------------------------------------------
(* Properties.                                                             *)

\* No generated transaction fails: every row it needs was loaded by one of the
\* threads of the partition where the sharder looks for it.
NoneAborts ==
  /\ statuses \subseteq {"COMMITTED"}
  /\ Loaded => \A w \in Warehouse, d \in District:
       /\ Stored(DistrictKey(w, d, "YTD")) # Empty
       /\ \A i \in Item: Stored(StockKey(w, i)) # Empty

\* A transaction that its client takes for single-home has all its keys, those of
\* the item table included, mastered in the client's region.
SingleHome ==
  \A t \in pending: ~t.is_multi_home => \A k \in DOMAIN Keys(t): MasterOf(k) = t.region

RowsIn(table) == {k \in UNION {DOMAIN db[p]: p \in Partition}: TableOf(k) = table /\ Stored(k) # Empty}

Payments(S(_)) == {k \in RowsIn("HISTORY"): k[5] > 1 /\ S(k)}
Total(S(_)) == MapThenSumSet(LAMBDA k: Stored(k).amount, Payments(S))

\* What the warehouses, the districts and the customers have taken in year to date is
\* what the history says, whatever the order of the payments and whichever
\* warehouse the customer belongs to; the customer's payments are counted in 16 bits.
MoneyConserved ==
  Loaded => \A w \in Warehouse:
    /\ Stored(WarehouseKey(w, "YTD")).v - 300000000 = Total(LAMBDA k: k[1] = w)
    /\ \A d \in District:
         /\ Stored(DistrictKey(w, d, "YTD")).v - 300000 = Total(LAMBDA k: k[1] = w /\ k[3] = d)
         /\ \A c \in 1 .. CustPerDist:
              LET Of(k) == Stored(k).c_w_id = w /\ Stored(k).c_d_id = d /\ k[4] = c IN
              /\ Stored(CustomerKey(w, d, c, "YTD_PAYMENT")).v - 100 = Total(Of)
              /\ Stored(CustomerKey(w, d, c, "PAYMENT_CNT")).v = Int16(1 + Cardinality(Payments(Of)))

\* A district's next order number counts its orders, an order has all its lines, and
\* it is in NEW_ORDER as long as it has no carrier, also when it is delivered before
\* it is placed.
OrdersConsistent ==
  Loaded =>
    /\ \A w \in Warehouse, d \in District:
         Stored(DistrictKey(w, d, "NEXT_O_ID")).v
           = 1 + Cardinality({k \in RowsIn("ORDER"): k[1] = w /\ k[3] = d})
    /\ \A k \in RowsIn("ORDER"):
         /\ Stored(k).ol_cnt = Cardinality({l \in RowsIn("ORDER_LINE"): l[1] = k[1] /\ l[3] = k[3] /\ l[4] = k[4]})
         /\ Stored(k).carrier_id = 0 <=> Stored(NewOrderKey(k[1], k[3], k[4])) # Empty

\* The quantity in stock stays between 1 and 100, whatever is ordered.
StockBounded == \A k \in RowsIn("STOCK"): Stored(k).quantity \in 1 .. 100
=============================================================================
