---------------------------- MODULE MCLakeRepair ----------------------------
(* Values the configurations give to the constants of LakeRepair.          *)
EXTENDS LakeRepair

Whole == [events |-> 2, bytes |-> 2]
Truncated == [events |-> 2, bytes |-> 1]

OneHour    == {0}
OneContent == {Whole}
OneDamage  == {Truncated}
=============================================================================
