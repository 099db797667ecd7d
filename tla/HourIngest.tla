----------------------------- MODULE HourIngest -----------------------------
(***************************************************************************)
(* Archive ingest: processes that fetch closed hours from the publisher,   *)
(* convert each into its lake file and record the outcome in the ledger.   *)
(* Loops are archive-serve processes, Ranges are backfill processes; both  *)
(* run converge_once.  Repairers are repair-lake processes, which call the *)
(* same ingest_hour: module LakeRepair starts them.  All of them share the *)
(* archive directory, the lake directory and the table, and nothing else:  *)
(* no lock keeps two of them off one hour.                                 *)
(*                                                                         *)
(* A step ends where the code awaits, or where another process can see     *)
(* what it did: the rename of a download, the rename of a lake file, the   *)
(* statement on the table, the unlink of a source.                         *)
(***************************************************************************)
EXTENDS HourLedger, FiniteSets

CONSTANTS
    Loops, Ranges, Repairers,  \* the processes
    Concurrency,               \* hours one process works on at once
    Contents,                  \* what a good published hour converts to
    Damaged,                   \* what a lake file may be turned into from outside
    MaxClock, MaxDamage, MaxCrashes  \* bounds of the model: hours that pass, faults of
                                     \* the local disk or of other hands, processes killed

Procs == Loops \cup Ranges \cup Repairers

ASSUME IngestAssumption ==
    /\ Loops \cap Ranges = {} /\ (Loops \cup Ranges) \cap Repairers = {}
    /\ Concurrency \in Nat \ {0}
    /\ Contents \subseteq File /\ Damaged \subseteq File
    /\ MaxClock \in Nat /\ MaxDamage \in Nat /\ MaxCrashes \in Nat

VARIABLES
    clock,        \* the current time, in hours
    published,    \* the publisher: each hour's content, or NoFile
    publishedAt,  \* when it appeared (an observer's record; no process reads it)
    source,       \* archive_dir: the downloaded file of each hour, or NoFile
    lake,         \* lake_dir: the Parquet file of each hour, or NoFile
    lost,         \* hours whose lake file was damaged since it last landed (observer)
    spoiled,      \* hours whose source or staged file met a local fault (observer)
    damage,       \* how often the local disk failed or other hands changed it
    row,          \* the archive_hours table
    pass,         \* each process: is a pass running, and the instant it read as now
    work,         \* where ingest_hour stands for each hour of a process's pass
    report,       \* the HourReport it is going to record, then return
    clash,        \* <<p, h>>: p shares h's staging file with another process
    crashes       \* how many processes were killed

world == << clock, published, publishedAt >>
disk  == << source, lake, lost, spoiled, damage >>
procs == << pass, work, report, clash, crashes >>
vars  == << world, disk, row, procs >>

\* Content no conversion accepts: not a gzip, not NDJSON, or another hour's
\* events (Bad); a file renamed while another download was rewriting it (Torn).
Bad  == [events |-> -2, bytes |-> -2]
Torn == [events |-> -3, bytes |-> -3]

Phases == {"idle", "queued", "fetching", "fetched", "converting", "recording", "discarding", "done"}

Resting == [running |-> FALSE, now |-> 0]
NoWork  == [h \in Hours |-> "idle"]
NoReport == [h \in Hours |-> NoRow]

TypeOK ==
    /\ clock \in 0..MaxClock
    /\ published \in [Hours -> Contents \cup {NoFile, Bad}]
    /\ publishedAt \in [Hours -> 0..MaxClock]
    /\ source \in [Hours -> Contents \cup {NoFile, Bad, Torn}]
    /\ lake \in [Hours -> File \cup {NoFile}]
    /\ lost \subseteq Hours /\ spoiled \subseteq Hours
    /\ damage \in 0..MaxDamage
    /\ row \in [Hours -> Row]
    /\ pass \in [Procs -> [running : BOOLEAN, now : 0..MaxClock]]
    /\ work \in [Procs -> [Hours -> Phases]]
    /\ report \in [Procs -> [Hours -> Row]]
    /\ clash \subseteq Procs \X Hours
    /\ crashes \in 0..MaxCrashes

Init ==
    /\ clock = 0
    /\ published = [h \in Hours |-> NoFile]
    /\ publishedAt = [h \in Hours |-> 0]
    /\ source = [h \in Hours |-> NoFile]
    /\ lake = [h \in Hours |-> NoFile]
    /\ lost = {} /\ spoiled = {} /\ damage = 0
    /\ row = [h \in Hours |-> NoRow]
    /\ pass = [p \in Procs |-> Resting]
    /\ work = [p \in Procs |-> NoWork]
    /\ report = [p \in Procs |-> NoReport]
    /\ clash = {} /\ crashes = 0

----------------------------------------------------------------------------
\* The world outside: time, the publisher, and other hands on the two directories.

Tick ==
    /\ clock < MaxClock
    /\ clock' = clock + 1
    /\ UNCHANGED << published, publishedAt, disk, row, procs >>

\* An hour is published once, some time after it closed, and never changes.
Publish(h) ==
    /\ HourEnd(h) <= clock
    /\ published[h] = NoFile
    /\ \E c \in Contents \cup {Bad} : published' = [published EXCEPT ![h] = c]
    /\ publishedAt' = [publishedAt EXCEPT ![h] = clock]
    /\ UNCHANGED << clock, disk, row, procs >>

\* The lake file is removed or replaced by hands other than these processes'.
Damage(h) ==
    /\ damage < MaxDamage
    /\ Present(lake[h])
    /\ \E f \in (Damaged \cup {NoFile}) \ {lake[h]} : lake' = [lake EXCEPT ![h] = f]
    /\ lost' = lost \cup {h}
    /\ damage' = damage + 1
    /\ UNCHANGED << world, source, spoiled, row, procs >>

\* Something local goes wrong with hour h's files, while the bound allows it.
LocalFault(h) ==
    /\ damage < MaxDamage
    /\ damage' = damage + 1
    /\ spoiled' = spoiled \cup {h}

\* aggregate_day unlinks each source once it has tried to convert it, whether or
\* not an ingest of the same hour has read it yet.
Unlink(h) ==
    /\ Present(source[h])
    /\ source' = [source EXCEPT ![h] = NoFile]
    /\ LocalFault(h)
    /\ UNCHANGED << world, lake, lost, row, procs >>

----------------------------------------------------------------------------
\* Passes: converge_once, called once by a backfill and for ever by a loop.

Range(p) == IF p \in Loops THEN Window(clock) ELSE Hours

\* Mutant of Due: a watermark scan, which never looks back at an older hour.
DueJustClosed(p) == { h \in Pending(row, Range(p), p \in Ranges) : HourEnd(h) = clock }

Due(p) == { h \in Pending(row, Range(p), p \in Ranges) : HourEnd(h) <= clock }

\* Start ingest_hour for the hours hs, each judged against one instant.
Schedule(p, hs) ==
    /\ pass' = [pass EXCEPT ![p] = [running |-> TRUE, now |-> clock]]
    /\ work' = [work EXCEPT ![p] = [h \in Hours |-> IF h \in hs THEN "queued" ELSE "idle"]]
    /\ UNCHANGED << report, clash, crashes >>

\* A process returns from its pass or dies: nothing of it survives.
Forgets(p) ==
    /\ pass' = [pass EXCEPT ![p] = Resting]
    /\ work' = [work EXCEPT ![p] = NoWork]
    /\ report' = [report EXCEPT ![p] = NoReport]
    /\ clash' = clash \ ({p} \X Hours)

StartPass(p) ==
    /\ p \notin Repairers
    /\ ~pass[p].running
    /\ Schedule(p, Due(p))
    /\ UNCHANGED << world, disk, row >>

AllReported(p) == \A h \in Hours : work[p][h] \in {"idle", "done"}

EndPass(p) ==
    /\ p \notin Repairers
    /\ pass[p].running
    /\ AllReported(p)
    /\ Forgets(p)
    /\ UNCHANGED << world, disk, row, crashes >>

\* Killed between any two steps, or ended by an error nothing catches, such as a
\* download's on a full disk.  What was under way leaves only its staging file,
\* which the next attempt truncates.
Crash(p) ==
    /\ crashes < MaxCrashes
    /\ pass[p].running
    /\ Forgets(p)
    /\ crashes' = crashes + 1
    /\ UNCHANGED << world, disk, row >>

----------------------------------------------------------------------------
\* ingest_hour

Active(p) == { h \in Hours : work[p][h] \notin {"idle", "queued", "done"} }

Goto(p, h, phase) ==
    /\ work' = [work EXCEPT ![p][h] = phase]
    /\ UNCHANGED << pass, crashes >>

Reports(p, h, r) == report' = [report EXCEPT ![p][h] = r]

\* Enter a phase that writes h's staging file, whose name has no process in it.
Staging(p, h, phase) ==
    LET others == { q \in Procs \ {p} : work[q][h] = phase } IN
    /\ Goto(p, h, phase)
    /\ clash' = IF others = {} THEN clash ELSE clash \cup ((others \cup {p}) \X {h})

LeaveStaging(p, h, phase) ==
    /\ Goto(p, h, phase)
    /\ clash' = clash \ { <<p, h>> }

Shared(p, h) == <<p, h>> \in clash

\* The semaphore admits an hour; a source already on disk spares the network.
Begin(p, h) ==
    /\ work[p][h] = "queued"
    /\ Cardinality(Active(p)) < Concurrency
    /\ IF Present(source[h])
       THEN Goto(p, h, "fetched") /\ UNCHANGED clash
       ELSE Staging(p, h, "fetching")
    /\ UNCHANGED << world, disk, row, report >>

\* Mutants of FetchFails: a transport error recorded as a failed hour; a fetch
\* repeated in place until it succeeds.
FetchFailsRecorded(p, h) ==
    /\ work[p][h] = "fetching"
    /\ LeaveStaging(p, h, "recording")
    /\ Reports(p, h, Failed)
    /\ UNCHANGED << world, disk, row >>

\* A dropped connection, or a status that says nothing about the hour.
FetchFails(p, h) ==
    /\ work[p][h] = "fetching"
    /\ LeaveStaging(p, h, "done")
    /\ UNCHANGED << world, disk, row, report >>

\* Mutant of FetchAbsent: written off one hour before the grace is over.
FetchAbsentEarly(p, h) ==
    /\ work[p][h] = "fetching"
    /\ ~Present(published[h])
    /\ IF pass[p].now - HourEnd(h) < Grace - 1
       THEN LeaveStaging(p, h, "done") /\ UNCHANGED report
       ELSE LeaveStaging(p, h, "recording") /\ Reports(p, h, Missing)
    /\ UNCHANGED << world, disk, row >>

\* _absent: a 404 is written off once the hour is past grace, else left open.
FetchAbsent(p, h) ==
    /\ work[p][h] = "fetching"
    /\ ~Present(published[h])
    /\ IF pass[p].now - HourEnd(h) < Grace
       THEN LeaveStaging(p, h, "done") /\ UNCHANGED report
       ELSE LeaveStaging(p, h, "recording") /\ Reports(p, h, Missing)
    /\ UNCHANGED << world, disk, row >>

\* download_hour renames what it staged: torn, if the other process truncated
\* it meanwhile and has not rewritten all of it.
Fetch(p, h) ==
    /\ work[p][h] = "fetching"
    /\ Present(published[h])
    /\ LeaveStaging(p, h, "fetched")
    /\ \E c \in {published[h]} \cup (IF Shared(p, h) /\ ~Present(source[h]) THEN {Torn} ELSE {}) :
           /\ source' = [source EXCEPT ![h] = c]
           /\ spoiled' = IF c = Torn THEN spoiled \cup {h} ELSE spoiled
    /\ UNCHANGED << world, lake, lost, damage, row, report >>

\* The staging file was renamed or unlinked by the other process, done with it
\* by now: an OSError nothing catches.  What p wrote went to the renamed file.
FetchDies(p, h) ==
    /\ work[p][h] = "fetching"
    /\ Present(published[h]) /\ Shared(p, h)
    /\ \A q \in Procs \ {p} : work[q][h] = "fetching" => ~Shared(q, h)
    /\ Forgets(p)
    /\ source' = [source EXCEPT ![h] = IF @ = Torn THEN published[h] ELSE @]
    /\ UNCHANGED << world, lake, lost, spoiled, damage, row, crashes >>

\* Mutants of Open: the row written before the file has landed; a conversion
\* that refuses nothing.
OpenRecordsFirst(p, h) ==
    /\ work[p][h] = "fetched"
    /\ source[h] \in Contents
    /\ Staging(p, h, "converting") /\ Reports(p, h, Ingested(source[h]))
    /\ row' = [row EXCEPT ![h] = Ingested(source[h])]
    /\ UNCHANGED << world, disk >>

OpenTrustsAnything(p, h) ==
    /\ work[p][h] = "fetched"
    /\ Present(source[h])
    /\ Staging(p, h, "converting") /\ Reports(p, h, Ingested(source[h]))
    /\ UNCHANGED << world, disk, row >>

\* write_hour reads the source: content that cannot be trusted, or a source
\* another process or aggregate_day has removed by now, is an hour that failed.
Open(p, h) ==
    /\ work[p][h] = "fetched"
    /\ IF source[h] \in Contents
       THEN Staging(p, h, "converting") /\ Reports(p, h, Ingested(source[h]))
       ELSE Goto(p, h, "recording") /\ Reports(p, h, Failed) /\ UNCHANGED clash
    /\ UNCHANGED << world, disk, row >>

\* write_hour verifies the staged file and renames it over the partition.
Land(p, h) ==
    /\ work[p][h] = "converting"
    /\ LeaveStaging(p, h, "recording")
    /\ lake' = [lake EXCEPT ![h] = report[p][h].file]
    /\ lost' = lost \ {h}
    /\ UNCHANGED << world, source, spoiled, damage, row, report >>

\* DuckDB's IOException is recorded as a failed hour whatever caused it: the
\* other process's rename took the staged file before it was verified, the
\* source could not be read to its end, the disk was full.
LandFails(p, h) ==
    /\ work[p][h] = "converting"
    /\ \/ Shared(p, h) /\ spoiled' = spoiled \cup {h} /\ UNCHANGED damage
       \/ LocalFault(h)
    /\ LeaveStaging(p, h, "recording")
    /\ Reports(p, h, Failed)
    /\ UNCHANGED << world, source, lake, lost, row >>

\* That rename took the staged file after it was verified: nothing catches it.
LandDies(p, h) ==
    /\ work[p][h] = "converting"
    /\ Shared(p, h)
    /\ Forgets(p)
    /\ UNCHANGED << world, disk, row, crashes >>

\* repair-lake keeps the sources it fetches; the long-running commands do not.
KeepsSource(p) == p \in Repairers

\* Mutant of Record: every source is discarded, whatever became of the hour.
RecordDiscardingAll(p, h) ==
    /\ work[p][h] = "recording"
    /\ row' = [row EXCEPT ![h] = Upsert(row[h], report[p][h])]
    /\ Goto(p, h, IF ~KeepsSource(p) THEN "discarding" ELSE "done")
    /\ UNCHANGED << world, disk, report, clash >>

Record(p, h) ==
    /\ work[p][h] = "recording"
    /\ row' = [row EXCEPT ![h] = Upsert(row[h], report[p][h])]
    /\ Goto(p, h, IF IsIngested(report[p][h]) /\ ~KeepsSource(p) THEN "discarding" ELSE "done")
    /\ UNCHANGED << world, disk, report, clash >>

\* _discard_source: a filesystem that refuses only costs disk space.
Discard(p, h) ==
    /\ work[p][h] = "discarding"
    /\ source' \in { source, [source EXCEPT ![h] = NoFile] }
    /\ Goto(p, h, "done")
    /\ UNCHANGED << world, lake, lost, spoiled, damage, row, report, clash >>

Ingest(p, h) ==
    \/ Begin(p, h) \/ FetchFails(p, h) \/ FetchAbsent(p, h) \/ Fetch(p, h) \/ FetchDies(p, h)
    \/ Open(p, h) \/ Land(p, h) \/ LandFails(p, h) \/ LandDies(p, h)
    \/ Record(p, h) \/ Discard(p, h)

----------------------------------------------------------------------------
Environment == Tick \/ \E h \in Hours : Publish(h) \/ Damage(h) \/ Unlink(h)

Process(p) == StartPass(p) \/ EndPass(p) \/ Crash(p) \/ \E h \in Hours : Ingest(p, h)

Next == Environment \/ \E p \in Procs : Process(p)

Spec == Init /\ [][Next]_vars

\* What the scheduling justifies: time passes, a running process is scheduled,
\* a restarted loop scans again, and a publisher asked again and again answers.
Progress(p, h) ==
    Begin(p, h) \/ Open(p, h) \/ Land(p, h) \/ Record(p, h) \/ Discard(p, h)

Answer(p, h) == FetchAbsent(p, h) \/ Fetch(p, h)

Fairness ==
    /\ WF_vars(Tick)
    /\ \A p \in Loops \cup Ranges :
          /\ WF_vars(StartPass(p)) /\ WF_vars(EndPass(p))
          /\ \A h \in Hours :
                /\ WF_vars(Progress(p, h))
                /\ WF_vars(Answer(p, h) \/ FetchFails(p, h) \/ FetchDies(p, h))
                /\ SF_vars(Answer(p, h))

FairSpec == Spec /\ Fairness

----------------------------------------------------------------------------
(***************************************************************************)
(* Properties                                                              *)
(***************************************************************************)

\* A row that claims success describes exactly the file in the lake, in every
\* interleaving of processes and crashes; only damage from outside, after the
\* file last landed, makes a claim false.  Record runs strictly after Land.
EveryFalseClaimIsALoss ==
    \A h \in Hours : IsIngested(row[h]) => lake[h] = row[h].file \/ h \in lost

\* An hour written off as missing was not published within its grace, although
\* a pass judges it by the instant the pass began and may record it much later.
NoTimelyHourWrittenOff ==
    \A h \in Hours : row[h].status = "missing" /\ Present(published[h])
                        => publishedAt[h] - HourEnd(h) >= Grace

\* An hour that no scheduler will look at again as failed is one whose published
\* content cannot be trusted, or whose files met a local fault: no error of the
\* network, no late answer and no process that dies or overtakes another records
\* it.  Retrying the second kind would help (against HourStatus.FAILED's comment).
FailureHasACause ==
    \A h \in Hours : row[h].status = "failed" => published[h] = Bad \/ h \in spoiled

\* No scheduler takes a success back: a late failure or write-off of one process
\* leaves the row another one recorded meanwhile (RECORD_HOUR's guard).
NeverDowngraded ==
    [][\A h \in Hours : IsIngested(row[h]) => IsIngested(row'[h])]_vars

\* No process of these takes a source from the disk before its hour is recorded
\* as in the lake; until then the next pass may need the file.
OnlyRecordedSourcesDiscarded ==
    [][\A h \in Hours : Present(source[h]) /\ ~Present(source'[h])
                          => IsIngested(row[h]) \/ Unlink(h)]_vars

\* The ledger that processes, files and staging produce together is the atomic
\* one: every claim carries the published counts, every write-off waited out the
\* grace, and without a repair no success is taken back.
Lifecycle == INSTANCE HourLifecycle WITH Strikes <- Repairers # {}
ImplementsLifecycle == Lifecycle!Spec

\* The hours the automatic scan still covers when the clock stops.
Covered == Window(MaxClock)

Timely(h) == Present(published[h]) /\ publishedAt[h] - HourEnd(h) < Grace

\* A good hour published within its grace, in a window the loop still scans, is
\* in the end recorded as in the lake, whatever requests and processes fail; only
\* a local fault while it was converted leaves it recorded as failed instead.
TimelyHourLands ==
    \A h \in Covered : (Timely(h) /\ published[h] \in Contents)
                          ~> IsIngested(row[h]) \/ (row[h].status = "failed" /\ h \in spoiled)
=============================================================================
