-------------------------- MODULE MCMartFreshness --------------------------
(* Values the configurations give to the constants of MartFreshness.       *)
EXTENDS MartFreshness

OneDay == {1}
TwoHours == {0, 1}
TwoTables == {"ecosystem_daily", "repo_daily"}
BothHours == OneDay \X TwoHours
OneByHand == {"operator"}
OneSilent == { << 1, 1 >> }
=============================================================================
