----------------------------- MODULE HourLedger -----------------------------
(***************************************************************************)
(* The vocabulary every archive module shares: hours, the clock they are   *)
(* judged against, the files the lake holds, and the archive_hours table   *)
(* with the three statements that write or scan it.                        *)
(*                                                                         *)
(* An hour is its index: hour h spans [h, h+1) of a clock that counts      *)
(* hours.  A lake file is what the checks can tell apart about it, its     *)
(* event count and its size in bytes.                                      *)
(***************************************************************************)
EXTENDS Integers

CONSTANTS
    Hours,        \* the archive hours under consideration
    DayLength,    \* hours in a day (24 in the code)
    LookbackDays, \* DEFAULT_LOOKBACK_DAYS: calendar days an automatic scan covers
    Grace         \* DEFAULT_PUBLICATION_GRACE, in hours

ASSUME HourAssumption ==
    /\ Hours \subseteq Nat
    /\ DayLength \in Nat \ {0}
    /\ LookbackDays \in Nat \ {0}
    /\ Grace \in Nat

----------------------------------------------------------------------------
\* Hours and days

\* hour_end: the instant an hour finishes and may be published.
HourEnd(h) == h + 1

DayOf(t) == t \div DayLength

\* The calendar an automatic scan reads at time t: today and the days before it.
Window(t) == { h \in Hours : DayOf(t) - (LookbackDays - 1) <= DayOf(h) /\ DayOf(h) <= DayOf(t) }

----------------------------------------------------------------------------
\* Lake files

File == [events : Nat, bytes : Nat]

NoFile == [events |-> -1, bytes |-> -1]

----------------------------------------------------------------------------
\* Ledger rows.  The table demands counts of a row that claims success
\* (ingested_hours_are_counted) and allows them of any other; record_hour's
\* callers leave them off every other row, so these are the rows it writes.

Ingested(f) == [status |-> "ingested", file |-> f]
Missing     == [status |-> "missing",  file |-> NoFile]
FailedWithCounts == [status |-> "failed", file |-> [events |-> 0, bytes |-> 0]]  \* mutant of Failed
Failed      == [status |-> "failed",   file |-> NoFile]
NoRow       == [status |-> "none",     file |-> NoFile]

Row == { r \in [status : {"none", "missing", "failed", "ingested"}, file : File \cup {NoFile}] :
            r.status = "ingested" <=> r.file # NoFile }

IsIngested(r) == r.status = "ingested"

UpsertUnguarded(old, new) == new  \* mutant of Upsert: no WHERE clause

\* RECORD_HOUR: an upsert that refreshes any row and never downgrades a success.
Upsert(old, new) == IF ~IsIngested(old) \/ IsIngested(new) THEN new ELSE old

\* The statuses a scan leaves alone: TERMINAL, and failures unless retried.
Settled(retryFailed) == {"ingested", "missing"} \cup (IF retryFailed THEN {} ELSE {"failed"})

\* PENDING_HOURS: the hours of a range whose row, or lack of one, is not settled.
Pending(rows, range, retryFailed) ==
    { h \in range : rows[h].status \notin Settled(retryFailed) }

\* INGESTED_HOURS: the claims a check reads.
Claims(rows) == { h \in Hours : IsIngested(rows[h]) }

\* FORGET_INGESTED_HOURS: delete the ingested rows among hs; RETURNING says which.
Removed(rows, hs)  == hs \cap Claims(rows)
Forgotten(rows, hs) == [h \in Hours |-> IF h \in Removed(rows, hs) THEN NoRow ELSE rows[h]]

----------------------------------------------------------------------------
\* verify._check: does the file on disk back the claim f?  Counts come from a
\* GROUP BY over the rows in the lake, so a file with no rows yields no count.

Present(f) == f # NoFile

Counted(f) == IF Present(f) /\ f.events > 0 THEN {f.events} ELSE {}

Backs(file, claim, checkCounts) ==
    /\ Present(file)
    /\ file.bytes = claim.bytes
    /\ checkCounts => claim.events \in Counted(file)
=============================================================================
