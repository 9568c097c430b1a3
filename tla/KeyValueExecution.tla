-------------------------- MODULE KeyValueExecution --------------------------
(***************************************************************************)
(* The procedures of a transaction over the keys it has at one partition   *)
(* (key_value.cpp), as a function of its code, the lock types of its keys  *)
(* and the values read.  Values are what SET, COPY and EQ can tell apart.  *)
(***************************************************************************)
EXTENDS Sequences, SequencesExt

CONSTANT EmptyValue  \* the string new_value() is before it is set

NotStarted(value) ==
  [aborted |-> FALSE, new_value |-> [k \in DOMAIN value |-> EmptyValue], undefined |-> FALSE]

Writable(type, value, k) == k \in DOMAIN value /\ type[k] = "WRITE"

\* COPY takes the value its source had before the transaction.
Copy(type, value, s, c) ==
  IF c.src \in DOMAIN value /\ Writable(type, value, c.key)
  THEN [s EXCEPT !.new_value[c.key] = value[c.src]] ELSE s

\* The loop's test skips every DEL of a key it finds, and reads past the end
\* of the index for a key it does not find.
Del(value, s, c) == [s EXCEPT !.undefined = @ \/ c.key \notin DOMAIN value]

Step(type, value, s, c) ==
  CASE c.op = "SET" /\ Writable(type, value, c.key) -> [s EXCEPT !.new_value[c.key] = c.arg]
    [] c.op = "COPY" -> Copy(type, value, s, c)
    [] c.op = "EQ" /\ c.key \in DOMAIN value -> [s EXCEPT !.aborted = @ \/ value[c.key] # c.arg]
    [] c.op = "DEL" -> Del(value, s, c)
    [] OTHER -> s

\* What the procedures leave: whether EQ failed, and the new values.
Run(procedures, type, value) ==
  FoldLeft(LAMBDA s, c : Step(type, value, s, c), NotStarted(value), procedures)

\* The keys ApplyWrites stores: every local key locked for writing, set or not.
Written(type, value, local) == {k \in DOMAIN value \cap local : type[k] # "READ"}
=============================================================================
