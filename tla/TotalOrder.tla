----------------------------- MODULE TotalOrder -----------------------------
(***************************************************************************)
(* What the users of a Paxos group expect of it: the proposed values are   *)
(* put in one order, each once, and OnCommit reports that order to every   *)
(* member from slot 0 on, without gaps or repetitions.                     *)
(***************************************************************************)
EXTENDS Naturals, Sequences

CONSTANTS Value, Member

VARIABLES
  unproposed, \* values the users may still propose
  undecided,  \* proposed, not ordered yet
  order,      \* the values in the order of their slots, from slot 0
  committed   \* committed[m]: the calls of OnCommit at member m

vars == <<unproposed, undecided, order, committed>>

Init ==
  /\ unproposed = Value
  /\ undecided = {}
  /\ order = <<>>
  /\ committed = [m \in Member |-> <<>>]

Propose(v) ==
  /\ v \in unproposed
  /\ unproposed' = unproposed \ {v}
  /\ \/ undecided' = undecided \cup {v} /\ UNCHANGED order
     \/ order' = Append(order, v) /\ UNCHANGED undecided
  /\ UNCHANGED committed

Decide(v) ==
  /\ v \in undecided
  /\ undecided' = undecided \ {v}
  /\ order' = Append(order, v)
  /\ UNCHANGED <<unproposed, committed>>

Commit(m) ==
  LET slot == Len(committed[m])
  IN /\ slot < Len(order)
     /\ committed' = [committed EXCEPT ![m] =
                        Append(@, [slot |-> slot, value |-> order[slot + 1]])]
     /\ UNCHANGED <<unproposed, undecided, order>>

Next == (\E v \in Value : Propose(v) \/ Decide(v)) \/ (\E m \in Member : Commit(m))

Spec == Init /\ [][Next]_vars
=============================================================================
