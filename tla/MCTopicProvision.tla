-------------------------- MODULE MCTopicProvision --------------------------
(* Values the configurations give to the constants of TopicProvision.      *)
EXTENDS TopicProvision

BothTopics == {"live", "dlq"}
BothServices == {"serve", "consume"}
TheirNeeds == [s \in BothServices |-> IF s = "serve" THEN {"live"} ELSE BothTopics]
TwoProvisioners == {"p", "q"}
TheirPartitions == [p \in TwoProvisioners |-> IF p = "p" THEN 3 ELSE 6]
TheirReplication == [p \in TwoProvisioners |-> IF p = "p" THEN 1 ELSE 2]
=============================================================================
