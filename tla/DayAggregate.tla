---------------------------- MODULE DayAggregate ----------------------------
(***************************************************************************)
(* aggregate DAY: fetch the hours of one archive day in order, convert     *)
(* each into the lake, reduce what the lake then holds of the day to the   *)
(* two files that are kept, and drop the lake's hours.  The archive loop   *)
(* may be at work on the same hours, over the same two directories.        *)
(*                                                                         *)
(* A file of the archive or of the lake is the hour it holds; an aggregate *)
(* is the set of hours its rows come from.                                 *)
(***************************************************************************)
EXTENDS Naturals, FiniteSets

CONSTANTS
    HoursPerDay,  \* HOURS_PER_DAY
    Contents,     \* what the hours of the day may hold, of AnyContent
    MaxFaults      \* bound of the model

AnyContent == {"events", "silent", "broken"}

ASSUME DayAssumption ==
    /\ HoursPerDay \in Nat \ {0} /\ MaxFaults \in Nat
    /\ Contents \subseteq AnyContent /\ Contents # {}

Hours == 0..(HoursPerDay - 1)

VARIABLES
    content,    \* what the publisher serves for each hour: no events, or not an hour
    published,  \* hours the publisher has released
    source,     \* hours in the archive directory
    lake,       \* hours of the day in the lake
    serve,      \* how far the archive loop is with each hour
    eco,        \* hours in the ecosystem file; NoFile before the first
    repo,       \* hours in the repository file
    phase,      \* where the run stands
    hour,       \* the hour it is at
    missing,    \* hours it could not fetch
    keeps,      \* keep_source and keep_lake, as given to the run
    exit,       \* what the last run said
    late,       \* hours landed since the run read the lake for the ecosystem file
    faults      \* runs killed or failed by something local

archive == << content, published >>
job     == << phase, hour, missing, keeps >>
pair    == << eco, repo >>
vars    == << content, published, source, lake, serve, eco, repo, phase, hour,
              missing, keeps, exit, late, faults >>

NotKept == [source |-> FALSE, lake |-> FALSE]
NoFile == [there |-> FALSE, hours |-> {}]
Of(hours) == [there |-> TRUE, hours |-> {h \in hours : content[h] = "events"}]

DayTypeOK ==
    /\ content \in [Hours -> Contents]
    /\ published \subseteq Hours /\ source \subseteq published
    /\ lake \subseteq {h \in published : content[h] # "broken"}
    /\ serve \in [Hours -> {"todo", "fetched", "landed", "done"}]
    /\ eco \in [there : BOOLEAN, hours : SUBSET Hours]
    /\ repo \in [there : BOOLEAN, hours : SUBSET Hours]
    /\ phase \in {"idle", "fetch", "download", "convert", "eco", "repo", "drop", "report"}
    /\ hour \in 0..HoursPerDay
    /\ missing \subseteq Hours /\ (phase # "idle" => missing \subseteq 0..(hour - 1))
    /\ keeps \in [source : BOOLEAN, lake : BOOLEAN]
    /\ exit \in {"none", "running", "whole", "incomplete", "failed", "killed"}
    /\ late \subseteq Hours /\ faults \in 0..MaxFaults

Init ==
    /\ content \in [Hours -> Contents]
    /\ published = {} /\ source = {} /\ lake = {}
    /\ serve = [h \in Hours |-> "todo"]
    /\ eco = NoFile /\ repo = NoFile
    /\ phase = "idle" /\ hour = 0 /\ missing = {}
    /\ keeps = NotKept
    /\ exit = "none" /\ late = {} /\ faults = 0

\* A full disk, or a staging file that two processes write.
LocalFault == faults < MaxFaults /\ faults' = faults + 1

----------------------------------------------------------------------------
Publish(h) ==
    /\ h \notin published
    /\ published' = published \cup {h}
    /\ UNCHANGED << content, source, lake, serve, pair, job, exit, late, faults >>

(***************************************************************************)
(* The archive loop, an hour at a time: download_hour, write_hour and the  *)
(* row, then the source.                                                   *)
(***************************************************************************)
ServeFetch(h) ==
    /\ serve[h] = "todo" /\ h \in published
    /\ source' = source \cup {h}
    /\ serve' = [serve EXCEPT ![h] = "fetched"]
    /\ UNCHANGED << archive, lake, pair, job, exit, late, faults >>

ServeLand(h) ==
    /\ serve[h] = "fetched" /\ h \in source /\ content[h] # "broken"
    /\ lake' = lake \cup {h}
    /\ late' = IF phase \in {"repo", "drop"} THEN late \cup {h} ELSE late
    /\ serve' = [serve EXCEPT ![h] = "landed"]
    /\ UNCHANGED << archive, source, pair, job, exit, faults >>

\* The run removed the source, or it is not an hour, or cannot be converted here.
\* The row says failed: the loop is done with the hour, a backfill asks for it again.
ServeFails(h) ==
    /\ serve[h] = "fetched"
    /\ \/ (h \notin source \/ content[h] = "broken") /\ UNCHANGED faults
       \/ LocalFault
    /\ \E next \in {"todo", "done"} : serve' = [serve EXCEPT ![h] = next]
    /\ UNCHANGED << archive, source, lake, pair, job, exit, late >>

ServeDiscards(h) ==
    /\ serve[h] = "landed"
    /\ source' = source \ {h}
    /\ serve' = [serve EXCEPT ![h] = "done"]
    /\ UNCHANGED << archive, lake, pair, job, exit, late, faults >>

----------------------------------------------------------------------------
Start(keep) ==
    /\ phase = "idle"
    /\ phase' = "fetch" /\ missing' = {} /\ keeps' = keep
    /\ exit' = "running" /\ late' = {}
    /\ UNCHANGED << archive, source, lake, serve, pair, hour, faults >>

\* The run is over; what it could not fetch is in its report, if it has one.
Over(status) ==
    /\ phase' = "idle" /\ exit' = status /\ hour' = 0 /\ keeps' = NotKept

Raises ==
    /\ Over("failed") /\ missing' = {} /\ late' = {}

\* download_hour: a source that is there is returned as it is.
LookUp(h) ==
    /\ phase = "fetch" /\ hour = h
    /\ phase' = IF h \in source THEN "convert" ELSE "download"
    /\ UNCHANGED << archive, source, lake, serve, pair, hour, missing, keeps, exit, late, faults >>

FetchHour(h) ==
    /\ phase = "download" /\ hour = h /\ h \in published
    /\ source' = source \cup {h}
    /\ phase' = "convert"
    /\ UNCHANGED << archive, lake, serve, pair, hour, missing, keeps, exit, late, faults >>

\* Mutant of HourUnavailable: the hour is passed over in silence.
HourUnavailableSilently(h) ==
    /\ phase = "download" /\ hour = h
    /\ phase' = "fetch" /\ hour' = hour + 1
    /\ UNCHANGED << archive, source, lake, serve, pair, missing, keeps, exit, late, faults >>

\* Not released, or whatever else a download raises: that the archive loop renamed
\* the staging file both were writing, so that the source is there all the same.
HourUnavailable(h) ==
    /\ phase = "download" /\ hour = h
    /\ missing' = missing \cup {h} /\ phase' = "fetch" /\ hour' = hour + 1
    /\ UNCHANGED << archive, source, lake, serve, pair, keeps, exit, late, faults >>

Released(h) == IF keeps.source THEN source ELSE source \ {h}

\* Mutant of Convert: what was converted is not verified.
ConvertUnverified(h) ==
    /\ phase = "convert" /\ hour = h /\ h \in source
    /\ lake' = lake \cup {h} /\ source' = Released(h)
    /\ phase' = "fetch" /\ hour' = hour + 1
    /\ UNCHANGED << archive, serve, pair, missing, keeps, exit, late, faults >>

\* write_hour
Convert(h) ==
    /\ phase = "convert" /\ hour = h /\ h \in source /\ content[h] # "broken"
    /\ lake' = lake \cup {h} /\ source' = Released(h)
    /\ phase' = "fetch" /\ hour' = hour + 1
    /\ UNCHANGED << archive, serve, pair, missing, keeps, exit, late, faults >>

\* What write_hour raises ends the run: the source went to the archive loop, or
\* it is not an hour, or the hour cannot be read or written here.
ConvertFails(h) ==
    /\ phase = "convert" /\ hour = h
    /\ \/ (h \notin source \/ content[h] = "broken") /\ UNCHANGED faults
       \/ LocalFault
    /\ source' = Released(h) /\ Raises
    /\ UNCHANGED << archive, lake, serve, pair >>

\* Nothing in the lake: an empty file would say that the day was quiet.
NothingConverted ==
    /\ phase = "fetch" /\ hour = HoursPerDay /\ lake = {}
    /\ Raises
    /\ UNCHANGED << archive, source, lake, serve, pair, faults >>

\* Mutant of Converted: the last hour is not waited for.
ConvertedEarly ==
    /\ phase = "fetch" /\ hour >= HoursPerDay - 1 /\ lake # {}
    /\ phase' = "eco"
    /\ UNCHANGED << archive, source, lake, serve, pair, hour, missing, keeps, exit, late, faults >>

\* Every hour was tried.
Converted ==
    /\ phase = "fetch" /\ hour = HoursPerDay /\ lake # {}
    /\ phase' = "eco"
    /\ UNCHANGED << archive, source, lake, serve, pair, hour, missing, keeps, exit, late, faults >>

\* Mutant of WriteEcosystem: only the hours this run converted are read.
WriteEcosystemOwn ==
    /\ phase = "eco"
    /\ eco' = Of(Hours \ missing) /\ late' = {}
    /\ phase' = "repo"
    /\ UNCHANGED << archive, source, lake, serve, repo, hour, missing, keeps, exit, faults >>

\* _write_checked, the ecosystem file: staged, checked and renamed over the last.
WriteEcosystem ==
    /\ phase = "eco"
    /\ eco' = Of(lake) /\ late' = {}
    /\ phase' = "repo"
    /\ UNCHANGED << archive, source, lake, serve, repo, hour, missing, keeps, exit, faults >>

\* Mutant of WriteRepository: a file that is there is left as it is.
WriteRepositoryOnce ==
    /\ phase = "repo"
    /\ repo' = IF repo.there THEN repo ELSE Of(lake)
    /\ phase' = IF keeps.lake THEN "report" ELSE "drop"
    /\ UNCHANGED << archive, source, lake, serve, eco, hour, missing, keeps, exit, late, faults >>

WriteRepository ==
    /\ phase = "repo"
    /\ repo' = Of(lake)
    /\ phase' = IF keeps.lake THEN "report" ELSE "drop"
    /\ UNCHANGED << archive, source, lake, serve, eco, hour, missing, keeps, exit, late, faults >>

\* Either file is not written: the last one of its name is left as it was.
WriteFails ==
    /\ phase \in {"eco", "repo"} /\ LocalFault /\ Raises
    /\ UNCHANGED << archive, source, lake, serve, pair >>

\* _drop_lake_day, which removes the files it finds there.
DropLakeDay ==
    /\ phase = "drop"
    /\ lake' = {}
    /\ phase' = "report"
    /\ UNCHANGED << archive, source, serve, pair, hour, missing, keeps, exit, late, faults >>

\* complete: the ecosystem file has rows of every hour.
Report ==
    /\ phase = "report"
    /\ Over(IF eco.hours = Hours THEN "whole" ELSE "incomplete")
    /\ UNCHANGED << archive, source, lake, serve, pair, missing, late, faults >>

\* At any moment, a drop half done included.
Kill ==
    /\ phase # "idle" /\ faults < MaxFaults
    /\ lake' \in IF phase = "drop" THEN SUBSET lake ELSE {lake}
    /\ Over("killed") /\ missing' = {} /\ late' = {} /\ faults' = faults + 1
    /\ UNCHANGED << archive, source, serve, pair >>

Step ==
    \/ \E h \in Hours : LookUp(h) \/ FetchHour(h) \/ HourUnavailable(h) \/ Convert(h) \/ ConvertFails(h)
    \/ NothingConverted \/ Converted \/ WriteEcosystem \/ WriteRepository \/ DropLakeDay \/ Report

Serve == \E h \in Hours : ServeFetch(h) \/ ServeLand(h) \/ ServeFails(h) \/ ServeDiscards(h)

Next ==
    \/ \E h \in Hours : Publish(h)
    \/ \E keep \in [source : BOOLEAN, lake : BOOLEAN] : Start(keep)
    \/ Step \/ Serve \/ WriteFails \/ Kill

Spec == Init /\ [][Next]_vars

\* The publisher releases the day, the archive loop and a run that was started
\* take their steps, a day that is not whole is run again, and an hour asked for
\* again and again is served once it is released.
Fairness ==
    /\ \A h \in Hours : WF_vars(Publish(h)) /\ SF_vars(FetchHour(h))
    /\ WF_vars(Step) /\ WF_vars(Serve)
    /\ WF_vars(\E keep \in [source : BOOLEAN, lake : BOOLEAN] : Start(keep))

FairSpec == Spec /\ Fairness

----------------------------------------------------------------------------
(***************************************************************************)
(* Properties                                                              *)
(***************************************************************************)

\* A run that ends with a report has written two files of the same hours, but
\* for what the archive loop landed between them, and exit 0 is said of a day
\* that holds every hour in both.
ReportIsOfBothFiles ==
    exit \in {"whole", "incomplete"} =>
        /\ eco.hours \subseteq repo.hours /\ repo.hours \subseteq eco.hours \cup late
        /\ exit = "whole" => repo.hours = Hours

\* What a report calls incomplete is short of hours it names, or of hours that
\* have no events; an hour an earlier run left in the lake is not lost.
IncompleteIsExplained ==
    exit = "incomplete" => Hours \ eco.hours \subseteq missing \cup {h \in Hours : content[h] = "silent"}

\* A run drops from the lake only what its aggregate is made of; what the
\* archive loop lands meanwhile is the one thing it does not count.
DroppedIsCounted ==
    [][\A h \in lake \ lake' : content[h] = "silent" \/ h \in late \/ h \in eco.hours \cap repo.hours]_vars

\* Re-run with the lake kept, a day whose hours are all published and readable
\* ends with every one of them that has events in both of its files, also after a
\* kill between the two.
EveryHourIsCounted ==
    LET Counted == {h \in Hours : content[h] = "events"}
    IN  ((\A h \in Hours : content[h] # "broken") /\ <>[](phase # "idle" => keeps.lake))
            => <>[](eco.hours = Counted /\ repo.hours = Counted)

\* A run that replaces the file of a day loses from it only hours it asked for
\* and could not fetch; those it does lose, if the lake's were dropped meanwhile.
RerunLosesOnlyTheUnavailable ==
    [][eco.hours \ eco'.hours \subseteq missing]_vars
=============================================================================
