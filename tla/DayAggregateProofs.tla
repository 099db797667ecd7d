------------------------- MODULE DayAggregateProofs -------------------------
(***************************************************************************)
(* What DayAggregate keeps for a day of any number of hours, whatever they *)
(* hold, and any number of kills and local faults: what a report says is   *)
(* so of both files, nothing is dropped that was not counted, and a day    *)
(* that is replaced loses only hours that could not be had.                *)
(***************************************************************************)
EXTENDS DayAggregate, TLAPS

Loud(hours) == {h \in hours : content[h] = "events"}
Reported == exit \in {"whole", "incomplete"}

\* Hour and exit follow the phase, and the hours behind the run are either in
\* the lake or named as missing.
Walked ==
    /\ phase = "idle" => hour = 0
    /\ phase # "idle" => exit = "running"
    /\ phase = "convert" => hour \in Hours
    /\ phase \in {"eco", "repo", "drop", "report"} => hour = HoursPerDay
    /\ phase \in {"fetch", "download", "convert", "eco"} => 0..(hour - 1) \subseteq missing \cup lake

\* What the two files hold, from the first of them to the report on both.
FilesAgree ==
    /\ eco.hours = Loud(eco.hours)
    /\ phase = "repo" =>
          eco.hours \subseteq lake /\ Loud(lake) \subseteq eco.hours \cup late
    /\ phase = "drop" => Loud(lake) \subseteq (eco.hours \cap repo.hours) \cup late
    /\ phase \in {"drop", "report"} \/ Reported =>
          eco.hours \subseteq repo.hours /\ repo.hours \subseteq eco.hours \cup late
    /\ phase \in {"repo", "drop", "report"} \/ Reported =>
          Hours \ eco.hours \subseteq missing \cup {h \in Hours : content[h] = "silent"}
    /\ exit = "whole" => eco.hours = Hours

DayInv == DayTypeOK /\ Walked /\ FilesAgree

----------------------------------------------------------------------------
(***************************************************************************)
(* Types                                                                   *)
(***************************************************************************)

LEMMA HoursAreNumbers ==
    /\ Hours \subseteq 0..HoursPerDay
    /\ \A h \in Hours : h + 1 \in 0..HoursPerDay /\ 0..(h + 1 - 1) = 0..(h - 1) \cup {h}
    /\ 0 \in 0..HoursPerDay /\ HoursPerDay \notin Hours /\ 0..(0 - 1) = {}
    /\ 0..(HoursPerDay - 1) = Hours
  BY DayAssumption, SMT DEF Hours

LEMMA OfType ==
    ASSUME NEW hours \in SUBSET Hours
    PROVE  Of(hours) \in [there : BOOLEAN, hours : SUBSET Hours]
  BY DEF Of

LEMMA InitTypeOK == Init => DayTypeOK
  BY DayAssumption, HoursAreNumbers, SMT DEF Init, DayTypeOK, NoFile, NotKept

LEMMA FaultsAreBounded ==
    ASSUME DayTypeOK, LocalFault \/ UNCHANGED faults PROVE faults' \in 0..MaxFaults
  BY DayAssumption, SMT DEF DayTypeOK, LocalFault

LEMMA NextTypeOK == DayTypeOK /\ [Next]_vars => DayTypeOK'
<1> SUFFICES ASSUME DayTypeOK, [Next]_vars PROVE DayTypeOK'
  OBVIOUS
<1> USE DEF archive, job, pair
<1>1. ASSUME NEW h \in Hours, Publish(h) PROVE DayTypeOK'
  BY <1>1 DEF DayTypeOK, Publish
<1>2. ASSUME NEW keep \in [source : BOOLEAN, lake : BOOLEAN], Start(keep) PROVE DayTypeOK'
  BY <1>2 DEF DayTypeOK, Start
<1>3. CASE Step
  <2>1. ASSUME NEW h \in Hours, LookUp(h) \/ FetchHour(h) PROVE DayTypeOK'
    BY <2>1 DEF DayTypeOK, LookUp, FetchHour
  <2>2. ASSUME NEW h \in Hours, HourUnavailable(h) PROVE DayTypeOK'
    <3>1. hour' \in 0..HoursPerDay /\ missing' \subseteq 0..(hour' - 1)
      BY <2>2, HoursAreNumbers DEF HourUnavailable, DayTypeOK
    <3> QED
      BY <2>2, <3>1 DEF DayTypeOK, HourUnavailable
  <2>3. ASSUME NEW h \in Hours, Convert(h) PROVE DayTypeOK'
    <3>1. hour' \in 0..HoursPerDay /\ missing' \subseteq 0..(hour' - 1)
      BY <2>3, HoursAreNumbers DEF Convert, DayTypeOK
    <3>2. source' \subseteq published'
      BY <2>3 DEF Convert, Released, DayTypeOK
    <3> QED
      BY <2>3, <3>1, <3>2 DEF DayTypeOK, Convert
  <2>4. ASSUME NEW h \in Hours, ConvertFails(h) PROVE DayTypeOK'
    <3>1. source' \subseteq published'
      BY <2>4 DEF ConvertFails, Released, DayTypeOK
    <3>2. faults' \in 0..MaxFaults
      BY <2>4, FaultsAreBounded DEF ConvertFails
    <3> QED
      BY <2>4, <3>1, <3>2, HoursAreNumbers DEF DayTypeOK, ConvertFails, Raises, Over, NotKept
  <2>5. CASE NothingConverted
    BY <2>5, HoursAreNumbers DEF DayTypeOK, NothingConverted, Raises, Over, NotKept
  <2>6. CASE Converted
    BY <2>6 DEF DayTypeOK, Converted
  <2>7. CASE WriteEcosystem
    <3>1. eco' \in [there : BOOLEAN, hours : SUBSET Hours]
      BY <2>7, OfType DEF WriteEcosystem, DayTypeOK
    <3> QED
      BY <2>7, <3>1 DEF DayTypeOK, WriteEcosystem
  <2>8. CASE WriteRepository
    <3>1. repo' \in [there : BOOLEAN, hours : SUBSET Hours]
      BY <2>8, OfType DEF WriteRepository, DayTypeOK
    <3> QED
      BY <2>8, <3>1 DEF DayTypeOK, WriteRepository
  <2>9. CASE DropLakeDay
    BY <2>9 DEF DayTypeOK, DropLakeDay
  <2>10. CASE Report
    BY <2>10, HoursAreNumbers DEF DayTypeOK, Report, Over, NotKept
  <2> QED
    BY <1>3, <2>1, <2>2, <2>3, <2>4, <2>5, <2>6, <2>7, <2>8, <2>9, <2>10 DEF Step
<1>4. ASSUME NEW h \in Hours, ServeFetch(h) \/ ServeLand(h) \/ ServeFails(h) \/ ServeDiscards(h)
      PROVE  DayTypeOK'
  <2>1. faults' \in 0..MaxFaults
    BY <1>4, FaultsAreBounded DEF ServeFetch, ServeLand, ServeFails, ServeDiscards
  <2>2. serve' \in [Hours -> {"todo", "fetched", "landed", "done"}]
    BY <1>4 DEF DayTypeOK, ServeFetch, ServeLand, ServeFails, ServeDiscards
  <2> QED
    BY <1>4, <2>1, <2>2 DEF DayTypeOK, ServeFetch, ServeLand, ServeFails, ServeDiscards
<1>5. CASE Kill
  <2>1. lake' \subseteq lake
    BY <1>5 DEF Kill
  <2>2. faults' \in 0..MaxFaults
    BY <1>5, DayAssumption, SMT DEF Kill, DayTypeOK
  <2> QED
    BY <1>5, <2>1, <2>2, HoursAreNumbers DEF DayTypeOK, Kill, Over, NotKept
<1>6. CASE WriteFails
  <2>1. faults' \in 0..MaxFaults
    BY <1>6, FaultsAreBounded DEF WriteFails
  <2> QED
    BY <1>6, <2>1, HoursAreNumbers DEF DayTypeOK, WriteFails, Raises, Over, NotKept
<1>7. CASE UNCHANGED vars
  BY <1>7 DEF DayTypeOK, vars
<1> QED
  BY <1>1, <1>2, <1>3, <1>4, <1>5, <1>6, <1>7 DEF Next, Serve

\* In every state of every run each variable has its type; the lake holds only
\* hours that were published and can be read, and only hours behind the run are
\* named as missing.
THEOREM DayTypeCorrect == Spec => []DayTypeOK
  BY InitTypeOK, NextTypeOK, PTL DEF Spec

(***************************************************************************)
(* The invariant                                                           *)
(***************************************************************************)

LEMMA InitInv == Init => DayInv
<1>1. Init => Walked /\ FilesAgree
  BY HoursAreNumbers DEF Init, Walked, FilesAgree, Loud, Reported, NoFile
<1> QED
  BY <1>1, InitTypeOK DEF DayInv

\* What the archive loop and the publisher do beside a run.
LEMMA BesideKeeps ==
    ASSUME DayInv, NEW h \in Hours,
           Publish(h) \/ ServeFetch(h) \/ ServeLand(h) \/ ServeFails(h) \/ ServeDiscards(h)
    PROVE  Walked' /\ FilesAgree'
<1> USE DEF archive, job, pair
<1>1. CASE ServeLand(h)
  <2>1. /\ lake' = lake \cup {h}
        /\ late' = IF phase \in {"repo", "drop"} THEN late \cup {h} ELSE late
        /\ content' = content /\ eco' = eco /\ repo' = repo
        /\ phase' = phase /\ hour' = hour /\ missing' = missing /\ exit' = exit
    BY <1>1 DEF ServeLand
  <2> QED
    BY <2>1 DEF DayInv, Walked, FilesAgree, Loud, Reported
<1>2. CASE ~ServeLand(h)
  <2>1. /\ content' = content /\ lake' = lake /\ late' = late /\ eco' = eco /\ repo' = repo
        /\ phase' = phase /\ hour' = hour /\ missing' = missing /\ exit' = exit
    BY <1>2 DEF Publish, ServeFetch, ServeFails, ServeDiscards
  <2> QED
    BY <2>1 DEF DayInv, Walked, FilesAgree, Loud, Reported
<1> QED
  BY <1>1, <1>2

\* A run that is over without a report leaves no claim behind.
LEMMA OverKeeps ==
    ASSUME DayInv, NEW status \in {"failed", "killed"}, Over(status),
           content' = content, eco' = eco
    PROVE  Walked' /\ FilesAgree'
<1>1. phase' = "idle" /\ hour' = 0 /\ exit' = status
  BY DEF Over
<1> QED
  BY <1>1 DEF DayInv, Walked, FilesAgree, Loud, Reported

LEMMA StepKeeps ==
    ASSUME DayInv, Step
    PROVE  Walked' /\ FilesAgree'
<1> USE DEF archive, job, pair
<1>1. ASSUME NEW h \in Hours, LookUp(h) \/ FetchHour(h) PROVE Walked' /\ FilesAgree'
  BY <1>1 DEF LookUp, FetchHour, DayInv, Walked, FilesAgree, Loud, Reported
<1>2. ASSUME NEW h \in Hours, HourUnavailable(h) PROVE Walked' /\ FilesAgree'
  <2>1. 0..(hour' - 1) \subseteq missing' \cup lake'
    BY <1>2, HoursAreNumbers DEF HourUnavailable, DayInv, Walked
  <2> QED
    BY <1>2, <2>1 DEF HourUnavailable, DayInv, Walked, FilesAgree, Loud, Reported
<1>3. ASSUME NEW h \in Hours, Convert(h) PROVE Walked' /\ FilesAgree'
  <2>1. 0..(hour' - 1) \subseteq missing' \cup lake'
    BY <1>3, HoursAreNumbers DEF Convert, DayInv, Walked
  <2> QED
    BY <1>3, <2>1 DEF Convert, DayInv, Walked, FilesAgree, Loud, Reported
<1>4. ASSUME NEW h \in Hours, ConvertFails(h) PROVE Walked' /\ FilesAgree'
  BY <1>4, OverKeeps DEF ConvertFails, Raises
<1>5. CASE NothingConverted
  BY <1>5, OverKeeps DEF NothingConverted, Raises
<1>6. CASE Converted
  BY <1>6 DEF Converted, DayInv, Walked, FilesAgree, Loud, Reported
<1>7. CASE WriteEcosystem
  <2>1. eco' = Of(lake) /\ late' = {} /\ phase' = "repo" /\ phase = "eco" /\ exit = "running"
    BY <1>7 DEF WriteEcosystem, DayInv, Walked
  <2>2. /\ content' = content /\ repo' = repo /\ lake' = lake
        /\ missing' = missing /\ hour' = hour /\ exit' = exit
    BY <1>7 DEF WriteEcosystem
  <2>3. eco'.hours = Loud(lake)
    BY <2>1 DEF Of, Loud
  <2>4. Hours \subseteq missing \cup lake
    BY <2>1, HoursAreNumbers DEF DayInv, Walked
  <2>5. \A h \in lake : content[h] \in {"events", "silent"}
    BY DayAssumption DEF DayInv, DayTypeOK, AnyContent
  <2>6. Walked'
    BY <2>1, <2>2 DEF DayInv, Walked
  <2> QED
    BY <2>1, <2>2, <2>3, <2>4, <2>5, <2>6 DEF FilesAgree, Loud, Reported
<1>8. CASE WriteRepository
  <2>1. repo' = Of(lake) /\ phase' \in {"drop", "report"} /\ phase = "repo" /\ exit = "running"
    BY <1>8 DEF WriteRepository, DayInv, Walked
  <2>2. /\ content' = content /\ eco' = eco /\ lake' = lake /\ late' = late
        /\ missing' = missing /\ hour' = hour /\ exit' = exit
    BY <1>8 DEF WriteRepository
  <2>3. repo'.hours = Loud(lake)
    BY <2>1 DEF Of, Loud
  <2>4. Walked'
    BY <2>1, <2>2 DEF DayInv, Walked
  <2> QED
    BY <2>1, <2>2, <2>3, <2>4 DEF DayInv, FilesAgree, Loud, Reported
<1>9. CASE DropLakeDay
  BY <1>9 DEF DropLakeDay, DayInv, Walked, FilesAgree, Loud, Reported
<1>10. CASE Report
  BY <1>10 DEF Report, Over, DayInv, Walked, FilesAgree, Loud, Reported
<1> QED
  BY <1>1, <1>2, <1>3, <1>4, <1>5, <1>6, <1>7, <1>8, <1>9, <1>10 DEF Step

LEMMA NextInv == DayInv /\ [Next]_vars => DayInv'
<1> SUFFICES ASSUME DayInv, [Next]_vars PROVE Walked' /\ FilesAgree'
  BY NextTypeOK DEF DayInv
<1>1. ASSUME NEW keep \in [source : BOOLEAN, lake : BOOLEAN], Start(keep)
      PROVE  Walked' /\ FilesAgree'
  BY <1>1, HoursAreNumbers DEF Start, archive, pair, DayInv, Walked, FilesAgree, Loud, Reported
<1>2. CASE Kill
  BY <1>2, OverKeeps DEF Kill, archive, pair
<1>3. CASE WriteFails
  BY <1>3, OverKeeps DEF WriteFails, Raises, archive, pair
<1>4. CASE UNCHANGED vars
  BY <1>4 DEF vars, DayInv, Walked, FilesAgree, Loud, Reported
<1> QED
  BY <1>1, <1>2, <1>3, <1>4, StepKeeps, BesideKeeps DEF Next, Serve

\* The invariant holds in every state of every run.
THEOREM DayInvariant == Spec => []DayInv
  BY InitInv, NextInv, PTL DEF Spec

(***************************************************************************)
(* The promises                                                            *)
(***************************************************************************)

\* A run that ends with a report has written two files of the same hours, but
\* for what the archive loop landed between them, and "whole" is said of a day
\* that has every hour in both.
THEOREM ReportsAreOfBothFiles == Spec => []ReportIsOfBothFiles
<1>1. DayInv => ReportIsOfBothFiles
  BY DEF DayInv, DayTypeOK, FilesAgree, Reported, ReportIsOfBothFiles
<1> QED
  BY <1>1, DayInvariant, PTL

\* A day that is called incomplete is short of hours the report names, or of
\* hours without events.
THEOREM ShortageIsExplained == Spec => []IncompleteIsExplained
<1>1. DayInv => IncompleteIsExplained
  BY DEF DayInv, FilesAgree, Reported, IncompleteIsExplained
<1> QED
  BY <1>1, DayInvariant, PTL

\* An hour that leaves the lake is in both files, has no events, or landed since
\* the run read the lake.
THEOREM NothingUncountedIsDropped == Spec => DroppedIsCounted
<1>1. ASSUME DayInv, [Next]_vars
      PROVE  [\A h \in lake \ lake' : content[h] = "silent" \/ h \in late
                                         \/ h \in eco.hours \cap repo.hours]_vars
  <2>1. CASE phase = "drop"
    <3>1. \A h \in lake : content[h] = "silent" \/ h \in Loud(lake)
      BY <1>1, DayAssumption DEF DayInv, DayTypeOK, Loud, AnyContent
    <3> QED
      BY <1>1, <2>1, <3>1 DEF DayInv, FilesAgree
  <2>2. CASE phase # "drop"
    <3>1. lake \subseteq lake'
      BY <1>1, <2>2 DEF Next, Step, Serve, Publish, Start, LookUp, FetchHour, HourUnavailable, Convert,
         ConvertFails, NothingConverted, Converted, WriteEcosystem, WriteRepository, DropLakeDay,
         Report, ServeFetch, ServeLand, ServeFails, ServeDiscards, WriteFails, Raises, Kill, vars
    <3> QED
      BY <3>1
  <2> QED
    BY <2>1, <2>2
<1> QED
  BY <1>1, DayInvariant, PTL DEF Spec, DroppedIsCounted

\* A run that replaces the ecosystem file of a day loses from it only hours it
\* asked for and could not fetch.
THEOREM ReplacingLosesOnlyTheUnavailable == Spec => RerunLosesOnlyTheUnavailable
<1>1. ASSUME DayInv, [Next]_vars
      PROVE  [eco.hours \ eco'.hours \subseteq missing]_vars
  <2>1. CASE WriteEcosystem
    <3>1. eco'.hours = Loud(lake) /\ phase = "eco" /\ hour = HoursPerDay
      BY <1>1, <2>1 DEF WriteEcosystem, Of, Loud, DayInv, Walked
    <3>2. Hours \subseteq missing \cup lake
      BY <1>1, <3>1, HoursAreNumbers DEF DayInv, Walked
    <3> QED
      BY <1>1, <3>1, <3>2 DEF DayInv, DayTypeOK, FilesAgree, Loud
  <2>2. CASE ~WriteEcosystem
    <3>1. eco' = eco
      BY <1>1, <2>2 DEF Next, Step, Serve, Publish, Start, LookUp, FetchHour, HourUnavailable, Convert,
         ConvertFails, NothingConverted, Converted, WriteRepository, DropLakeDay, pair,
         Report, ServeFetch, ServeLand, ServeFails, ServeDiscards, WriteFails, Raises, Kill, vars
    <3> QED
      BY <3>1
  <2> QED
    BY <2>1, <2>2
<1> QED
  BY <1>1, DayInvariant, PTL DEF Spec, RerunLosesOnlyTheUnavailable
=============================================================================
