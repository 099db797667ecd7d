--------------------------- MODULE MCLiveConsumer ---------------------------
(* Values the configurations give to the constants of LiveConsumer.        *)
EXTENDS LiveConsumer, TLC

Symmetric == Permutations(Consumers) \cup Permutations(Partitions)
=============================================================================
