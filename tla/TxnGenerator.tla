---------------------------- MODULE TxnGenerator ----------------------------
(***************************************************************************)
(* The clients: a generator of benchmark transactions (txn_generator.cpp), *)
(* synchronous or with a constant rate, and the console client             *)
(* (client.cpp), which runs one command after the other.                   *)
(*                                                                         *)
(* config.kind is "sync", "rate" (constant rate for a duration) or         *)
(* "rate_all" (constant rate, every generated txn once).  Time is the flag *)
(* duration_reached, which becomes true at any moment once the timer runs. *)
(***************************************************************************)
EXTENDS Deployment

CONSTANT MaxTxns  \* bound on the transactions a generator sends in its duration

VARIABLES generator, console

Generator == <<"generator", 0>>
Console(i) == <<"client", i>>

InitClients ==
  /\ generator = [callbacks |-> IF config.kind # "sync" THEN 1
                                ELSE IF config.dry_run THEN 0 ELSE config.num_clients,
                  num_sent_txns |-> 0, num_recv_txns |-> 0, finished |-> <<>>,
                  timer_running |-> config.kind = "sync", duration_reached |-> FALSE,
                  stopped |-> FALSE]
  /\ console = [started |-> 0, awaiting |-> 0]

TxnRequest(s) ==
  [type |-> "txn", stream_id |-> s, txn |-> config.workload[1 + (s % Len(config.workload))]]

\* The socket of the generator takes the servers of its region in turn.
ServerOf(s) == <<"server", MakeMachineId(config.region, s % NumPartitions)>>

Sent(g) == [g EXCEPT !.num_sent_txns = @ + 1]

SendRequest(n, s) ==
  IF config.dry_run THEN n ELSE SendTo(n, Generator, ServerOf(s), TxnRequest(s))

\* The bound; clients that have yet to start are counted.
MaySend(g) ==
  CASE config.kind = "sync"     -> g.num_sent_txns + g.callbacks < MaxTxns
    [] config.kind = "rate"     -> g.num_sent_txns < MaxTxns
    [] config.kind = "rate_all" -> TRUE

\* The duration is over, or everything is sent.
Over(g) ==
  IF config.kind = "rate_all" THEN g.num_sent_txns >= Len(config.workload)
  ELSE g.duration_reached

\* The end of Loop.
StopIfDone(g) ==
  LET answered == config.dry_run \/ g.num_recv_txns = g.num_sent_txns
  IN [g EXCEPT !.stopped = (Over(g) /\ answered) \/ (config.dry_run /\ config.kind = "sync")]

\* A timed callback: SendNextTxn of a new synchronous client, or of the constant rate.
SendNextTxn ==
  LET g == generator
      sent == Sent(g)
  IN /\ ~g.stopped /\ g.callbacks > 0
     /\ IF config.kind # "sync" /\ Over(g)
        THEN generator' = StopIfDone([g EXCEPT !.callbacks = 0]) /\ UNCHANGED net
        ELSE /\ config.kind = "sync" \/ MaySend(g)
             /\ net' = SendRequest(net, g.num_sent_txns)
             /\ generator' = StopIfDone([sent EXCEPT !.callbacks =
                               IF config.kind = "sync" THEN @ - 1 ELSE @])
     /\ UNCHANGED <<config, console>>

\* RecordFinishedTxn: a second response is refused.
RecordFinishedTxn(g, res) ==
  IF res.stream_id \in DOMAIN g.finished THEN g
  ELSE [g EXCEPT !.finished = (res.stream_id :> res) @@ @, !.num_recv_txns = @ + 1]

\* Loop, with a response: a synchronous client sends its next transaction.
ReceiveResponse(c) ==
  LET recorded == [RecordFinishedTxn(generator, Received(c)) EXCEPT !.timer_running = TRUE]
      again == /\ config.kind = "sync" /\ ~generator.duration_reached
               /\ recorded.num_recv_txns > generator.num_recv_txns
  IN /\ ~generator.stopped
     /\ c[2] = Generator
     /\ again => MaySend(generator)
     /\ net' = IF again THEN SendRequest(Take(net, c), generator.num_sent_txns) ELSE Take(net, c)
     /\ generator' = StopIfDone(IF again THEN Sent(recorded) ELSE recorded)
     /\ UNCHANGED <<config, console>>

\* Loop, after the duration and without an event.
DurationReached ==
  /\ ~generator.stopped /\ generator.timer_running /\ ~generator.duration_reached
  /\ config.kind # "rate_all"
  /\ generator' = StopIfDone([generator EXCEPT !.duration_reached = TRUE])
  /\ UNCHANGED <<config, console, net>>
-----------------------------------------------------------------------------
(* The console client: ExecuteTxn, ExecuteStats and ExecuteMetrics. *)

RunCommand ==
  LET i == console.started + 1
      command == config.commands[i]
      request == [command.request EXCEPT !.stream_id = 0]
      Repeat[k \in 0 .. command.repeat] ==
        IF k = 0 THEN net
        ELSE SendTo(Repeat[k - 1], Console(i), <<"server", command.machine>>, request)
  IN /\ console.awaiting = 0
     /\ console.started < Len(config.commands)
     /\ net' = Repeat[command.repeat]
     /\ console' = [started |-> i, awaiting |-> IF command.no_wait THEN 0 ELSE command.repeat]
     /\ UNCHANGED <<config, generator>>

\* A response for a client that did not wait is lost.
ReceiveAnswer(c) ==
  /\ c[2] \in {Console(i) : i \in DOMAIN config.commands}
  /\ net' = Take(net, c)
  /\ console' = IF c[2] = Console(console.started) /\ console.awaiting > 0
                THEN [console EXCEPT !.awaiting = @ - 1] ELSE console
  /\ UNCHANGED <<config, generator>>
=============================================================================
