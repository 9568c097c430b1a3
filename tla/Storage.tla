------------------------------ MODULE Storage ------------------------------
(***************************************************************************)
(* What the modules of a machine expect of the storage they share          *)
(* (storage/storage.h, storage/lookup_master_index.h): the workers read,   *)
(* write and delete records and the forwarder looks up master metadata (a  *)
(* Read here) from threads of their own, and each call takes effect at one *)
(* moment between its start and its return.                                *)
(***************************************************************************)

CONSTANTS Thread, Key, Value, NoValue

VARIABLES map, call

Idle == [state |-> "idle"]

\* A call of the interface, with the value it writes.
Operation == [op: {"Read", "Delete"}, key: Key, value: {NoValue}]
             \cup [op: {"Write"}, key: Key, value: Value]

\* The answer to call o: a lookup returns the record it finds (NoValue: false),
\* the others whether the key was there.
Answer(m, o) == IF o.op = "Read" THEN m[o.key] ELSE m[o.key] # NoValue

\* The table after call o.
Effect(m, o) == CASE o.op = "Write" -> [m EXCEPT ![o.key] = o.value]
                  [] o.op = "Delete" -> [m EXCEPT ![o.key] = NoValue]
                  [] OTHER -> m

Init == map = [k \in Key |-> NoValue] /\ call = [t \in Thread |-> Idle]

Invoke(t) ==
  /\ call[t].state = "idle"
  /\ \E o \in Operation: call' = [call EXCEPT ![t] = [state |-> "called", o |-> o]]
  /\ UNCHANGED map

Apply(t) ==
  /\ call[t].state = "called"
  /\ map' = Effect(map, call[t].o)
  /\ call' = [call EXCEPT ![t] = [state |-> "applied", o |-> @.o, ret |-> Answer(map, @.o)]]

Return(t) ==
  /\ call[t].state = "applied"
  /\ call' = [call EXCEPT ![t] = Idle]
  /\ UNCHANGED map

Next == \E t \in Thread: Invoke(t) \/ Apply(t) \/ Return(t)

Spec == Init /\ [][Next]_<<map, call>>
=============================================================================
