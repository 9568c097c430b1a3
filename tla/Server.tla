------------------------------- MODULE Server -------------------------------
(***************************************************************************)
(* The server of every machine (server.{h,cpp}): it gives every request of *)
(* a client an id, sends it on, and answers once the modules, or all of    *)
(* the transaction's partitions, have replied.                             *)
(*                                                                         *)
(* A finished sub-transaction is its status and the keys with their        *)
(* values.  The signals the servers exchange when they start only lead to  *)
(* log messages and are left out.                                          *)
(***************************************************************************)
EXTENDS Deployment

VARIABLE server  \* server[m]: the server of machine m

InitServer ==
  server = [m \in Machine |->
              [txn_id_counter |-> 0, pending_responses |-> <<>>, finished_txns |-> <<>>]]

StatsModules == {"forwarder", "orderer", "sequencer", "scheduler"}

\* Mutant: all servers give out the same ids.
SharedTxnId(m) == (server[m].txn_id_counter + 1) * MaxNumMachines

NextTxnId(m) == (server[m].txn_id_counter + 1) * MaxNumMachines + m

\* The server after try_emplace for a new request.
Accepted(m, c) ==
  [server[m] EXCEPT !.txn_id_counter = @ + 1,
     !.pending_responses =
        (NextTxnId(m) :> [client |-> c[1], stream_id |-> Received(c).stream_id]) @@ @]

Counted(m) == [server[m] EXCEPT !.txn_id_counter = @ + 1]

\* What the forwarder, or the module asked for statistics, is sent.
ForwardedRequest(m, c) ==
  LET req == Received(c)
  IN IF req.type = "txn"
     THEN [type |-> "forward_txn",
           txn |-> [id |-> NextTxnId(m), coordinating_server |-> m, type |-> req.txn.type,
                    new_master |-> req.txn.new_master, master |-> <<>>]]
     ELSE [type |-> "stats", id |-> NextTxnId(m)]

\* A transaction without keys is rejected.
ValidateTransaction(txn) == IF Keys(txn) = {} THEN "ABORTED" ELSE "NOT_STARTED"

\* OnCustomSocket: a valid transaction, or statistics of another module.
ForwardRequest(m, c) ==
  LET req == Received(c)
      module == IF req.type = "txn" THEN "forwarder" ELSE req.module
  IN /\ \/ req.type = "txn" /\ ValidateTransaction(req.txn) # "ABORTED"
        \/ req.type = "stats" /\ req.module \in StatsModules
     /\ server' = [server EXCEPT ![m] = Accepted(m, c)]
     /\ net' = SendTo(Take(net, c), <<"server", m>>, <<module, m>>, ForwardedRequest(m, c))

Response(id, stream_id, status, keys) ==
  [id |-> id, stream_id |-> stream_id, status |-> status, keys |-> keys]

\* OnCustomSocket: answered at once, by SendTxnToClient or ProcessStatsRequest.
AnswerRequest(m, c) ==
  LET req == Received(c)
      status == IF req.type = "txn" THEN ValidateTransaction(req.txn) ELSE "OK"
  IN /\ \/ req.type = "txn" /\ ValidateTransaction(req.txn) = "ABORTED"
        \/ req.type = "stats" /\ req.module = "server"
        \/ req.type = "metrics"
     /\ server' = [server EXCEPT ![m] = Counted(m)]
     /\ net' = SendTo(Take(net, c), <<"server", m>>, c[1],
                       Response(NextTxnId(m), req.stream_id, status, {}))

\* OnCustomSocket: a request of no known type is dropped; one for the statistics
\* of a module that has none is dropped too, but its pending response is kept.
DropRequest(m, c) ==
  LET req == Received(c)
  IN /\ \/ req.type = "unknown"
        \/ req.type = "stats" /\ req.module \notin StatsModules \cup {"server"}
     /\ server' = [server EXCEPT ![m] =
                     IF req.type = "stats" THEN Accepted(m, c) ELSE Counted(m)]
     /\ net' = Take(net, c)
-----------------------------------------------------------------------------
\* Mutant: the abort of a later partition is missed.
MergeKeysOnly(txn, other) == [status |-> txn.status, keys |-> txn.keys \cup other.keys]

\* MergeTransaction: an abort wins, the keys of an aborted txn are not merged.
MergeTransaction(txn, other) ==
  IF "ABORTED" \in {txn.status, other.status} THEN [status |-> "ABORTED", keys |-> txn.keys]
  ELSE [status |-> txn.status, keys |-> txn.keys \cup other.keys]

\* FinishedTransaction::AddSubTxn
AddSubTxn(finished, sub) ==
  IF finished.txn = {} THEN [remaining |-> finished.remaining - 1, txn |-> {sub}]
  ELSE [remaining |-> finished.remaining - 1,
        txn |-> {MergeTransaction(txn, sub) : txn \in finished.txn}]

\* SendResponseToClient for request id, and the entry it erases.
RespondTo(n, m, id, status, keys) ==
  LET pending == server[m].pending_responses[id]
  IN SendTo(n, <<"server", m>>, pending.client,
            Response(id, pending.stream_id, status, keys))

Forget(f, id) == Restrict(f, DOMAIN f \ {id})

ProcessFinishedSubtxn(m, c) ==
  LET s == server[m]
      msg == Received(c)
      started == IF msg.id \in DOMAIN s.finished_txns THEN s.finished_txns[msg.id]
                 ELSE [remaining |-> msg.num_partitions, txn |-> {}]
      finished == AddSubTxn(started, msg.sub)
      txn == CHOOSE t \in finished.txn : TRUE
  IN /\ msg.type = "finished_subtxn"
     /\ IF msg.id \notin DOMAIN s.pending_responses
        THEN net' = Take(net, c) /\ UNCHANGED server
        ELSE IF finished.remaining > 0
        THEN /\ server' = [server EXCEPT ![m].finished_txns = (msg.id :> finished) @@ @]
             /\ net' = Take(net, c)
        ELSE /\ server' = [server EXCEPT ![m].finished_txns = Forget(@, msg.id),
                                         ![m].pending_responses = Forget(@, msg.id)]
             /\ net' = RespondTo(Take(net, c), m, msg.id, txn.status, txn.keys)

\* OnInternalResponseReceived: the statistics of a module.
ReceiveStats(m, c) ==
  LET id == Received(c).id
  IN /\ Received(c).type = "stats_response"
     /\ server' = [server EXCEPT ![m].pending_responses = Forget(@, id)]
     /\ net' = RespondTo(Take(net, c), m, id, "OK", {})

ServerStep(m, c) ==
  \/ Received(c).type \in {"txn", "stats", "metrics", "unknown"} /\
       (ForwardRequest(m, c) \/ AnswerRequest(m, c) \/ DropRequest(m, c))
  \/ ProcessFinishedSubtxn(m, c)
  \/ ReceiveStats(m, c)
=============================================================================
