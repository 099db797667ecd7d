---------------------------- MODULE HourLifecycle ----------------------------
(***************************************************************************)
(* What the archive ledger promises, with no processes, files or staging:  *)
(* each hour's record moves in single atomic decisions, each justified by  *)
(* what the publisher has served by then.  HourIngest and LakeRepair are   *)
(* shown to implement this.                                                *)
(***************************************************************************)
EXTENDS HourLedger

CONSTANTS
    Contents,  \* what a good published hour converts to
    Bad,       \* published content no conversion accepts
    MaxClock,  \* bound of the model
    Strikes    \* may a repair take back a claim of success?

VARIABLES clock, published, publishedAt, row

vars == << clock, published, publishedAt, row >>

Init ==
    /\ clock = 0
    /\ published = [h \in Hours |-> NoFile]
    /\ publishedAt = [h \in Hours |-> 0]
    /\ row = [h \in Hours |-> NoRow]

Tick ==
    /\ clock < MaxClock
    /\ clock' = clock + 1
    /\ UNCHANGED << published, publishedAt, row >>

Publish(h) ==
    /\ HourEnd(h) <= clock
    /\ published[h] = NoFile
    /\ \E c \in Contents \cup {Bad} : published' = [published EXCEPT ![h] = c]
    /\ publishedAt' = [publishedAt EXCEPT ![h] = clock]
    /\ UNCHANGED << clock, row >>

Becomes(h, r) ==
    /\ row' = [row EXCEPT ![h] = r]
    /\ UNCHANGED << clock, published, publishedAt >>

\* An hour is claimed with the counts of what was published, never others.
Ingest(h) ==
    /\ published[h] \in Contents
    /\ Becomes(h, Ingested(published[h]))

\* An hour is written off after its grace, if nothing was published within it.
WriteOff(h) ==
    /\ ~IsIngested(row[h])
    /\ clock - HourEnd(h) >= Grace
    /\ Present(published[h]) => publishedAt[h] - HourEnd(h) >= Grace
    /\ Becomes(h, Missing)

\* An hour fails only after something was published to distrust.
Distrust(h) ==
    /\ ~IsIngested(row[h])
    /\ Present(published[h])
    /\ Becomes(h, Failed)

\* A repair takes back claims, several in one statement.
Strike ==
    /\ Strikes
    /\ \E hs \in SUBSET Claims(row) : row' = Forgotten(row, hs)
    /\ UNCHANGED << clock, published, publishedAt >>

Next ==
    \/ Tick
    \/ \E h \in Hours : Publish(h) \/ Ingest(h) \/ WriteOff(h) \/ Distrust(h)
    \/ Strike

Spec == Init /\ [][Next]_vars
=============================================================================
