---------------------------- MODULE AtomicStore -----------------------------
(***************************************************************************)
(* What IKeyValueStore promises of a batch (docs/ARCHITECTURE.md:127): it  *)
(* is written whole or not at all, it changes the keys it names in what is *)
(* stored and no other, and once answered it is written.                   *)
(***************************************************************************)
CONSTANTS Key, Value, Absent, None

Map == [Key -> Value \cup {Absent}]

Empty == [k \in Key |-> Absent]

\* put and erase: a batch of one operation.
Batch == {[k \in {key} |-> value] : key \in Key, value \in Value \cup {Absent}}

\* What a batch leaves.
Applied(map, batch) ==
    [k \in Key |-> IF k \in DOMAIN batch THEN batch[k] ELSE map[k]]

VARIABLES
    durable,    \* what a restart finds
    pending,    \* the map to be written, or None
    answered    \* the last write has been answered

vars == <<durable, pending, answered>>

Init == durable = Empty /\ pending = None /\ answered = TRUE

Begin(batch) ==
    /\ pending = None
    /\ pending' = Applied(durable, batch)
    /\ answered' = FALSE
    /\ UNCHANGED durable

Commit ==
    /\ pending # None
    /\ durable' = pending
    /\ pending' = None
    /\ answered' = TRUE

\* A stop loses what is pending.
Stop == pending' = None /\ UNCHANGED <<durable, answered>>

Next == (\E batch \in Batch : Begin(batch)) \/ Commit \/ Stop

Spec == Init /\ [][Next]_vars
=============================================================================
