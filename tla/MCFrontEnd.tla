----------------------------- MODULE MCFrontEnd -----------------------------
(***************************************************************************)
(* Two regions of two partitions.  Keys 0 and 2 are at partition 0, 1 and  *)
(* 3 at partition 1; 0 and 1 have master 0, 2 and 3 have master 1.         *)
(***************************************************************************)
EXTENDS FrontEnd

CONSTANT bad  \* a key that is no number

Writes(K) == [type |-> [k \in K |-> "WRITE"], new_master |-> NoRegion]

LocalHome == Writes({0, 1})
RemoteHome == Writes({2})
TwoHomes == Writes({0, 3})
NoKeys == Writes({})
MoveKey == [type |-> [k \in {0} |-> "WRITE"], new_master |-> 1]

BadKey == Writes({0, bad})

MCTransaction ==
  {[type |-> d.type, new_master |-> d.new_master, master |-> [k \in Keys(d) |-> DefaultMaster(k)]] :
   d \in {LocalHome, RemoteHome, TwoHomes, MoveKey}}

\* Keys 0 and 3 are stored, the others are new.
Stored == [k \in {0, 3} |-> DefaultMaster(k)]

Default ==
  [kind |-> "rate_all", workload |-> <<NoKeys>>, num_clients |-> 1, region |-> 0,
   dry_run |-> FALSE, commands |-> <<>>, bypass_mh_orderer |-> FALSE,
   return_dummy_txn |-> FALSE, stored |-> Stored]

Workload(kind, txns) == [Default EXCEPT !.kind = kind, !.workload = txns]

Command(machine, request, repeat, no_wait) ==
  [machine |-> machine, request |-> request, repeat |-> repeat, no_wait |-> no_wait]

Request(type, module) == [type |-> type, module |-> module, stream_id |-> 0, txn |-> NoKeys]

TxnCommand(machine, txn, repeat, no_wait) ==
  Command(machine, [Request("txn", "") EXCEPT !.txn = txn], repeat, no_wait)

StatsCommand(machine, module) ==
  Command(machine, Request("stats", module), 1, module = "none")

\* Two transactions that race each other, from two servers of region 0.
Races ==
  {Workload("rate_all", <<TwoHomes, TwoHomes>>),
   Workload("rate_all", <<TwoHomes, LocalHome>>),
   Workload("rate", <<LocalHome, RemoteHome>>),
   Workload("rate", <<MoveKey, TwoHomes>>),
   [Workload("sync", <<TwoHomes, RemoteHome>>) EXCEPT !.num_clients = 2],
   [Workload("rate_all", <<TwoHomes, TwoHomes>>) EXCEPT !.bypass_mh_orderer = TRUE],
   [Workload("sync", <<LocalHome, NoKeys>>) EXCEPT !.return_dummy_txn = TRUE]}

\* The console client works from region 1, beside the generator.
Consoles ==
  {[Workload("rate_all", <<TwoHomes>>) EXCEPT !.commands = <<TxnCommand(2, TwoHomes, 1, FALSE)>>],
   [Workload("rate_all", <<LocalHome>>) EXCEPT !.commands = <<TxnCommand(0, MoveKey, 1, TRUE)>>],
   [Default EXCEPT !.commands = <<TxnCommand(3, LocalHome, 2, FALSE)>>],
   [Default EXCEPT !.commands =
      <<StatsCommand(0, "server"), StatsCommand(0, "forwarder"), StatsCommand(0, "orderer"),
        StatsCommand(0, "sequencer"), StatsCommand(0, "scheduler"), StatsCommand(0, "none"),
        Command(0, Request("unknown", ""), 1, TRUE), Command(0, Request("metrics", ""), 2, FALSE)>>],
   [Default EXCEPT !.commands = <<TxnCommand(1, BadKey, 1, TRUE), TxnCommand(1, BadKey, 1, FALSE),
                                  TxnCommand(0, LocalHome, 1, FALSE)>>]}

DryRuns == {[Workload(kind, <<TwoHomes, LocalHome>>) EXCEPT !.dry_run = TRUE] :
            kind \in {"sync", "rate", "rate_all"}}

MCConfig == Races \cup Consoles \cup DryRuns
=============================================================================
