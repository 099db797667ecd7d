------------------------------ MODULE Delivery ------------------------------
(***************************************************************************)
(* What the read side promises of at-least-once delivery, with no          *)
(* consumers, batches, windows or groups: messages arrive, each has its    *)
(* effect some time after that and keeps it, and an offset moves forward   *)
(* over messages that have had theirs.                                     *)
(***************************************************************************)
EXTENDS Integers, Sequences

CONSTANTS Partitions, Messages

VARIABLES
    log,        \* each partition's messages
    committed,  \* how many of them are done with
    settled     \* messages that have had their effect

vars == << log, committed, settled >>

Init ==
    /\ log = [p \in Partitions |-> << >>]
    /\ committed = [p \in Partitions |-> 0]
    /\ settled = {}

Arrived == { m \in Messages : \E p \in Partitions : \E i \in 1..Len(log[p]) : log[p][i] = m }

Produce ==
    /\ \E p \in Partitions, m \in Messages : log' = [log EXCEPT ![p] = Append(@, m)]
    /\ UNCHANGED << committed, settled >>

Settle ==
    /\ \E some \in SUBSET Arrived : settled' = settled \cup some
    /\ UNCHANGED << log, committed >>

Commit ==
    /\ committed' \in [Partitions -> Nat]
    /\ \A p \in Partitions :
          /\ committed'[p] \in committed[p]..Len(log[p])
          /\ \A i \in 1..committed'[p] : log[p][i] \in settled
    /\ UNCHANGED << log, settled >>

Next == Produce \/ Settle \/ Commit

Spec == Init /\ [][Next]_vars
=============================================================================
