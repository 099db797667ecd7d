--------------------------- MODULE MCDayAggregate ---------------------------
(* Values the configurations give to the constants of DayAggregate.         *)
EXTENDS DayAggregate

AllContents == AnyContent
=============================================================================
