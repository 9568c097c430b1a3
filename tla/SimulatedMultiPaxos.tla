------------------------- MODULE SimulatedMultiPaxos -------------------------
(***************************************************************************)
(* One Paxos group (paxos/): every machine runs a Leader and an Acceptor   *)
(* behind one event loop.  The leader is fixed, the first member; machines *)
(* that are not members only forward proposals to it.                      *)
(*                                                                         *)
(* Machines are connected by FIFO channels (one ZeroMQ socket per sender   *)
(* and receiver) that neither lose nor repeat messages; the code has no    *)
(* timeouts or retries.  A request handler runs the Leader's part and then *)
(* the Acceptor's, as one event.  order and accepted are history           *)
(* variables.                                                              *)
(***************************************************************************)
EXTENDS Integers, Sequences, FiniteSets, SequencesExt

CONSTANTS
  Machine,  \* the machines that run this module
  Members,  \* members_: a sequence of machines without repetitions
  Value     \* what will be proposed, each value once

ASSUME MembersAssumption ==
  /\ IsFiniteSet(Machine)
  /\ Members \in Seq(Machine) /\ Members # <<>>
  /\ \A i, j \in DOMAIN Members : Members[i] = Members[j] => i = j

Member == {Members[i] : i \in DOMAIN Members}

\* kPaxosDefaultLeaderPosition
ElectedLeader == Members[1]

\* The largest odd number that is at most the number of members.
NumAcceptors == ((Len(Members) - 1) \div 2) * 2 + 1

Acceptors == {Members[i] : i \in 1 .. NumAcceptors}

\* Mutants: half of the acceptors is enough; all members have to accept.
Half == NumAcceptors \div 2
AllMembers == Len(Members)

Majority == NumAcceptors \div 2 + 1

\* The leader's ballot is its position in members_.
LeaderBallot == 0

VARIABLES
  unproposed,      \* values not proposed yet
  next_empty_slot, \* Leader::next_empty_slot_ of every machine
  instances,       \* Leader::instances_ of the elected leader
  ballot,          \* Acceptor::ballot_
  channel,         \* channel[<<m, n>>]: messages from m to n
  committed,       \* committed[m]: the calls of OnCommit at m
  accepted,        \* accepted[m]: the slots m has accepted
  order            \* the values the leader started instances for

vars == <<unproposed, next_empty_slot, instances, ballot, channel, committed, accepted, order>>

Init ==
  /\ unproposed = Value
  /\ next_empty_slot = [m \in Machine |-> 0]
  /\ instances = <<>>
  /\ ballot = [m \in Machine |-> 0]
  /\ channel = [c \in Machine \X Machine |-> <<>>]
  /\ committed = [m \in Machine |-> <<>>]
  /\ accepted = [m \in Machine |-> {}]
  /\ order = <<>>

\* The channels with msg sent from m to every machine of D.
Sent(chan, m, D, msg) ==
  [c \in DOMAIN chan |-> IF c[1] = m /\ c[2] \in D THEN Append(chan[c], msg) ELSE chan[c]]

\* The channels without the message that n receives from m.
Received(m, n) == [channel EXCEPT ![<<m, n>>] = Tail(@)]

Receives(m, n, type) ==
  /\ channel[<<m, n>>] # <<>>
  /\ Head(channel[<<m, n>>]).type = type

StartNewInstance(m, v, chan) ==
  /\ instances' = [s \in DOMAIN instances \cup {next_empty_slot[m]} |->
                     IF s \in DOMAIN instances THEN instances[s]
                     ELSE [value |-> v, num_accepts |-> 0, num_commits |-> 0]]
  /\ channel' = Sent(chan, m, Acceptors,
                     [type |-> "accept", ballot |-> LeaderBallot,
                      slot |-> next_empty_slot[m], value |-> v])
  /\ next_empty_slot' = [next_empty_slot EXCEPT ![m] = @ + 1]
  /\ order' = Append(order, v)

\* A proposal that reached machine m; chan are the channels without it.
HandlePropose(m, v, chan) ==
  /\ \/ m = ElectedLeader /\ StartNewInstance(m, v, chan)
     \/ /\ m # ElectedLeader
        /\ channel' = Sent(chan, m, {ElectedLeader}, [type |-> "propose", value |-> v])
        /\ UNCHANGED <<instances, next_empty_slot, order>>
  /\ UNCHANGED <<ballot, committed, accepted>>

Propose(m, v) ==
  /\ v \in unproposed
  /\ unproposed' = unproposed \ {v}
  /\ HandlePropose(m, v, channel)

ReceivePropose(m, n) ==
  /\ Receives(m, n, "propose")
  /\ HandlePropose(n, Head(channel[<<m, n>>]).value, Received(m, n))
  /\ UNCHANGED unproposed

ProcessAcceptRequest(m, n) ==
  /\ Receives(m, n, "accept")
  /\ LET req == Head(channel[<<m, n>>])
     IN IF req.ballot < ballot[n]
        THEN channel' = Received(m, n) /\ UNCHANGED <<ballot, accepted>>
        ELSE /\ ballot' = [ballot EXCEPT ![n] = req.ballot]
             /\ accepted' = [accepted EXCEPT ![n] = @ \cup {req.slot}]
             /\ channel' = Sent(Received(m, n), n, {m},
                                [type |-> "accept_response", ballot |-> req.ballot,
                                 slot |-> req.slot])
  /\ UNCHANGED <<unproposed, next_empty_slot, instances, committed, order>>

NextEmptySlot(next, slot) == IF slot >= next THEN slot + 1 ELSE next

CommitResponse(req) == [type |-> "commit_response", slot |-> req.slot]

\* OnCommit reports the slot, then the Acceptor answers.
ProcessCommitRequest(m, n) ==
  /\ Receives(m, n, "commit")
  /\ LET req == Head(channel[<<m, n>>])
     IN /\ committed' = [committed EXCEPT ![n] =
                           Append(@, [slot |-> req.slot, value |-> req.value])]
        /\ next_empty_slot' = [next_empty_slot EXCEPT ![n] = NextEmptySlot(@, req.slot)]
        /\ channel' = Sent(Received(m, n), n, {m}, CommitResponse(req))
  /\ UNCHANGED <<unproposed, instances, ballot, accepted, order>>

\* Mutant: every accept past the majority commits the slot again.
MajorityOrMore(num_accepts) == num_accepts >= Majority

MajorityReached(num_accepts) == num_accepts = Majority

HandleAcceptResponse(m, n) ==
  /\ Receives(m, n, "accept_response")
  /\ LET s == Head(channel[<<m, n>>]).slot
     IN IF s \notin DOMAIN instances
        THEN channel' = Received(m, n) /\ UNCHANGED instances
        ELSE /\ instances' = [instances EXCEPT ![s].num_accepts = @ + 1]
             /\ channel' =
                  IF MajorityReached(instances'[s].num_accepts)
                  THEN Sent(Received(m, n), n, Member,
                            [type |-> "commit", slot |-> s, value |-> instances[s].value])
                  ELSE Received(m, n)
  /\ UNCHANGED <<unproposed, next_empty_slot, ballot, committed, accepted, order>>

\* The handler reads the slot of the accept response, which is not set in a
\* commit response: it is always 0 (leader.cpp:87).
SlotOfCommitResponse(res) == 0

HandleCommitResponse(m, n) ==
  /\ Receives(m, n, "commit_response")
  /\ LET s == SlotOfCommitResponse(Head(channel[<<m, n>>]))
     IN instances' =
          IF s \notin DOMAIN instances THEN instances
          ELSE IF instances[s].num_commits + 1 = Len(Members)
          THEN [i \in DOMAIN instances \ {s} |-> instances[i]]
          ELSE [instances EXCEPT ![s].num_commits = @ + 1]
  /\ channel' = Received(m, n)
  /\ UNCHANGED <<unproposed, next_empty_slot, ballot, committed, accepted, order>>

Receive(m, n) ==
  \/ ReceivePropose(m, n)
  \/ ProcessAcceptRequest(m, n)
  \/ ProcessCommitRequest(m, n)
  \/ HandleAcceptResponse(m, n)
  \/ HandleCommitResponse(m, n)

Next ==
  \/ \E m \in Machine, v \in Value : Propose(m, v)
  \/ \E m, n \in Machine : Receive(m, n)

\* Every event loop keeps receiving from all of its peers.
Fairness == \A m, n \in Machine : WF_vars(Receive(m, n))

Spec == Init /\ [][Next]_vars /\ Fairness
-----------------------------------------------------------------------------
(***************************************************************************)
(* Although the acceptors answer independently and the leader commits a    *)
(* slot at whichever answer completes its majority, OnCommit is called at  *)
(* every member for the slots 0, 1, 2... in order, with the same values,   *)
(* and for every proposal at most once.                                    *)
(***************************************************************************)
Promise == INSTANCE TotalOrder WITH
  undecided <- Value \ (unproposed \cup ToSet(order)),
  committed <- [m \in Member |-> committed[m]]
ImplementsTotalOrder == Promise!Spec

(***************************************************************************)
(* A slot is committed only after a majority of the acceptors accepted it. *)
(***************************************************************************)
CommittedByMajority ==
  \A m \in Machine : \A c \in ToSet(committed[m]) :
     2 * Cardinality({a \in Acceptors : c.slot \in accepted[a]}) > Cardinality(Acceptors)

(***************************************************************************)
(* Every proposal, whichever machine received it, is eventually reported   *)
(* to every member.  The responses that the leader counts against slot 0   *)
(* do not get in the way.                                                  *)
(***************************************************************************)
EveryProposalCommits ==
  \A v \in Value : v \notin unproposed ~>
     \A m \in Member : \E c \in ToSet(committed[m]) : c.value = v
=============================================================================
