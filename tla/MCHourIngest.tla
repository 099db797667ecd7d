---------------------------- MODULE MCHourIngest ----------------------------
(* Values the configurations give to the constants of HourIngest.          *)
EXTENDS HourIngest

Whole == [events |-> 2, bytes |-> 2]
Empty == [events |-> 0, bytes |-> 1]
Truncated == [events |-> 2, bytes |-> 1]

OneHour   == {0}
TwoHours  == {0, 1}
OneContent  == {Whole}
TwoContents == {Whole, Empty}
OneDamage   == {Truncated}
=============================================================================
