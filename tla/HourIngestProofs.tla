-------------------------- MODULE HourIngestProofs --------------------------
(***************************************************************************)
(* What HourIngest keeps for every set of hours, every number of processes *)
(* and every grace, concurrency and bound.                                 *)
(***************************************************************************)
EXTENDS HourIngest, TLAPS

USE DEF HourEnd, IsIngested, Present, Procs

(***************************************************************************)
(* Types                                                                   *)
(***************************************************************************)

\* The sentinels are not files.
LEMMA Sentinels ==
    /\ NoFile \notin File /\ Bad \notin File /\ Torn \notin File
    /\ NoFile # Bad /\ NoFile # Torn /\ Bad # Torn
BY SMT DEF NoFile, Bad, Torn, File

\* The four forms a row is written in are rows.
LEMMA RowForms ==
    /\ NoRow \in Row /\ Missing \in Row /\ Failed \in Row
    /\ \A f \in File : Ingested(f) \in Row
BY Sentinels, SMT DEF NoRow, Missing, Failed, Ingested, Row

LEMMA UpsertType ==
    ASSUME NEW old \in Row, NEW new \in Row
    PROVE  Upsert(old, new) \in Row
BY DEF Upsert

LEMMA InitTypeOK == Init => TypeOK
BY IngestAssumption, RowForms, SMT
   DEF Init, TypeOK, Resting, NoWork, NoReport, Phases

\* Every action keeps every variable in its type.
LEMMA NextTypeOK == TypeOK /\ [Next]_vars => TypeOK'
<1>2. ASSUME TypeOK, [Next]_vars PROVE TypeOK'
  <2> USE <1>2, IngestAssumption DEF TypeOK
  <2>1. CASE Tick
    BY <2>1, SMT DEF Tick, disk, procs
  <2>2. ASSUME NEW h \in Hours, Publish(h) PROVE TypeOK'
    BY <2>2, SMT DEF Publish, disk, procs
  <2>3. ASSUME NEW h \in Hours, Damage(h) PROVE TypeOK'
    BY <2>3, SMT DEF Damage, world, procs
  <2>3a. ASSUME NEW h \in Hours, Unlink(h) PROVE TypeOK'
    BY <2>3a, SMT DEF Unlink, LocalFault, world, procs
  <2>4. ASSUME NEW p \in Procs, StartPass(p) PROVE TypeOK'
    BY <2>4, SMT DEF StartPass, Schedule, world, disk, Phases
  <2>5. ASSUME NEW p \in Procs, Forgets(p)
        PROVE  /\ pass' \in [Procs -> [running : BOOLEAN, now : 0..MaxClock]]
               /\ work' \in [Procs -> [Hours -> Phases]]
               /\ report' \in [Procs -> [Hours -> Row]]
               /\ clash' \subseteq Procs \X Hours
    BY <2>5, RowForms, SMT DEF Forgets, Resting, NoWork, NoReport, Phases
  <2>6. ASSUME NEW p \in Procs, EndPass(p) PROVE TypeOK'
    BY <2>6, <2>5, SMT DEF EndPass, world, disk
  <2>7. ASSUME NEW p \in Procs, Crash(p) PROVE TypeOK'
    BY <2>7, <2>5, SMT DEF Crash, world, disk
  <2>8. ASSUME NEW p \in Procs, NEW h \in Hours, Ingest(p, h) PROVE TypeOK'
    <3> USE DEF Goto, LeaveStaging, Reports, Phases
    <3>a. ASSUME NEW phase \in Phases, Staging(p, h, phase)
          PROVE  /\ work' \in [Procs -> [Hours -> Phases]]
                 /\ clash' \subseteq Procs \X Hours
                 /\ UNCHANGED << pass, crashes >>
      BY <3>a, SMT DEF Staging
    <3>b. ASSUME NEW r \in Row, Reports(p, h, r) PROVE report' \in [Procs -> [Hours -> Row]]
      BY <3>b, SMT
    <3> HIDE DEF Reports
    <3>1. CASE Begin(p, h)
      <4>1. CASE Present(source[h])
        <5>1. Goto(p, h, "fetched") /\ UNCHANGED << clash, world, disk, row, report >>
          BY <3>1, <4>1 DEF Begin
        <5> QED
          BY <5>1, SMT DEF world, disk
      <4>2. CASE ~Present(source[h])
        <5>1. Staging(p, h, "fetching") /\ UNCHANGED << world, disk, row, report >>
          BY <3>1, <4>2 DEF Begin
        <5> QED
          BY <3>a, <5>1, SMT DEF world, disk
      <4> QED
        BY <4>1, <4>2
    <3>2. CASE FetchFails(p, h)
      BY <3>2, SMT DEF FetchFails, world, disk
    <3>3. CASE FetchAbsent(p, h)
      <4>1. CASE pass[p].now - HourEnd(h) < Grace
        <5>1. LeaveStaging(p, h, "done") /\ UNCHANGED << world, disk, row, report >>
          BY <3>3, <4>1 DEF FetchAbsent
        <5> QED
          BY <5>1, SMT DEF world, disk
      <4>2. CASE ~(pass[p].now - HourEnd(h) < Grace)
        <5>1. /\ LeaveStaging(p, h, "recording") /\ Reports(p, h, Missing)
              /\ UNCHANGED << world, disk, row >>
          BY <3>3, <4>2 DEF FetchAbsent
        <5> QED
          BY <3>b, <5>1, RowForms, SMT DEF world, disk
      <4> QED
        BY <4>1, <4>2
    <3>4. CASE Fetch(p, h)
      BY <3>4, SMT DEF Fetch, world
    <3>5. CASE FetchDies(p, h)
      BY <3>5, <2>5, SMT DEF FetchDies, world
    <3>6. CASE Open(p, h)
      <4>1. CASE source[h] \in Contents
        <5>1. Ingested(source[h]) \in Row
          BY <4>1, RowForms
        <5>2. /\ Staging(p, h, "converting") /\ Reports(p, h, Ingested(source[h]))
              /\ UNCHANGED << world, disk, row >>
          BY <3>6, <4>1 DEF Open
        <5> QED
          BY <3>a, <3>b, <5>1, <5>2, SMT DEF world, disk
      <4>2. CASE source[h] \notin Contents
        <5>1. /\ Goto(p, h, "recording") /\ Reports(p, h, Failed)
              /\ UNCHANGED << clash, world, disk, row >>
          BY <3>6, <4>2 DEF Open
        <5> QED
          BY <3>b, <5>1, RowForms, SMT DEF world, disk
      <4> QED
        BY <4>1, <4>2
    <3>7. CASE Land(p, h)
      BY <3>7, SMT DEF Land, world, Row
    <3>8. CASE LandFails(p, h)
      <4>1. spoiled' \subseteq Hours /\ damage' \in 0..MaxDamage
        BY <3>8, SMT DEF LandFails, LocalFault
      <4> QED
        BY <3>8, <3>b, <4>1, RowForms, SMT DEF LandFails, world
    <3>9. CASE LandDies(p, h)
      BY <3>9, <2>5, SMT DEF LandDies, world, disk
    <3>10. CASE Record(p, h)
      BY <3>10, UpsertType, SMT DEF Record, world, disk
    <3>11. CASE Discard(p, h)
      BY <3>11, SMT DEF Discard, world
    <3> QED
      BY <2>8, <3>1, <3>2, <3>3, <3>4, <3>5, <3>6, <3>7, <3>8, <3>9, <3>10, <3>11 DEF Ingest
  <2>9. CASE UNCHANGED vars
    BY <2>9, SMT DEF vars, world, disk, procs
  <2> QED
    BY <1>2, <2>1, <2>2, <2>3, <2>3a, <2>4, <2>6, <2>7, <2>8, <2>9
       DEF Next, Environment, Process
<1> QED
  BY <1>2

\* In every behaviour every variable keeps its type.
THEOREM TypeCorrect == Spec => []TypeOK
BY InitTypeOK, NextTypeOK, PTL DEF Spec

(***************************************************************************)
(* Safety: what a row says is justified.  The induction follows an outcome *)
(* from the publisher, over the source and the report a process carries,   *)
(* to the row, while clock, publisher and disk move under it.              *)
(***************************************************************************)

\* The lake holds what was published, or was damaged since it did.
Grounded(h) == lake[h] = published[h] \/ h \in lost

WaitedOut(h) ==
    /\ clock - HourEnd(h) >= Grace
    /\ Present(published[h]) => publishedAt[h] - HourEnd(h) >= Grace

\* The outcome r is justified for hour h.
Justified(h, r) ==
    /\ r.status = "ingested" =>
          r = Ingested(published[h]) /\ published[h] \in Contents /\ Grounded(h)
    /\ r.status = "missing" => WaitedOut(h)
    /\ r.status = "failed" => Present(published[h])

\* A source is what was published, or torn from it.
SourceSound(h) == Present(source[h]) => Present(published[h]) /\ source[h] \in {published[h], Torn}

\* What a process carries from one step of ingest_hour to the next.
WorkSound(p, h) ==
    /\ work[p][h] = "fetched" => Present(published[h])
    /\ work[p][h] = "converting" =>
          report[p][h] = Ingested(published[h]) /\ published[h] \in Contents
    /\ work[p][h] = "recording" =>
          Justified(h, report[p][h]) /\ report[p][h].status # "none"

IngestInv ==
    /\ TypeOK
    /\ \A h \in Hours : Justified(h, row[h]) /\ SourceSound(h)
    /\ \A p \in Procs : pass[p].now <= clock
    /\ \A p \in Procs, h \in Hours : WorkSound(p, h)

\* Time, the publisher, the lake and its damage move so that what was justified
\* stays justified.
Moves ==
    /\ clock' \in Nat /\ clock <= clock'
    /\ \A h \in Hours :
          /\ \/ published'[h] = published[h] /\ publishedAt'[h] = publishedAt[h]
             \/ published[h] = NoFile /\ publishedAt'[h] = clock
          /\ \/ lake'[h] = lake[h] /\ (h \in lost => h \in lost')
             \/ lake'[h] = published'[h]
             \/ h \in lost'

LEMMA LaterStill ==
    ASSUME NEW a \in Int, NEW b \in Int, NEW c \in Int, NEW g \in Int, a <= b, a - c >= g
    PROVE  b - c >= g
BY SMT

LEMMA MovesKeep ==
    ASSUME TypeOK, NEW h \in Hours, Moves
    PROVE  /\ published[h] \in Contents /\ Grounded(h) => Grounded(h)'
           /\ WaitedOut(h) => WaitedOut(h)'
           /\ Present(published[h]) => published'[h] = published[h]
<1> USE HourAssumption, IngestAssumption, Sentinels
<1>1. clock \in Nat /\ publishedAt[h] \in Nat /\ Grace \in Nat /\ h \in Nat
  BY SMT DEF TypeOK
<1>2. NoFile \notin Contents
  BY SMT
<1>3. Present(published[h]) => published'[h] = published[h]
  BY SMT DEF Moves
<1>4. ASSUME published[h] \in Contents, Grounded(h) PROVE Grounded(h)'
  BY <1>2, <1>4, SMT DEF Grounded, Moves
<1>5. ASSUME WaitedOut(h) PROVE WaitedOut(h)'
  <2>1. clock' - HourEnd(h) >= Grace
    <3>1. clock' \in Nat /\ clock <= clock'
      BY DEF Moves
    <3>2. clock - HourEnd(h) >= Grace
      BY <1>5 DEF WaitedOut
    <3>3. clock \in Int /\ clock' \in Int /\ HourEnd(h) \in Int /\ Grace \in Int
      BY <1>1, <3>1, SMT
    <3> QED
      BY <3>1, <3>2, <3>3, LaterStill
  <2>2. CASE published'[h] = published[h] /\ publishedAt'[h] = publishedAt[h]
    BY <1>5, <2>1, <2>2, SMT DEF WaitedOut
  <2>3. CASE published[h] = NoFile /\ publishedAt'[h] = clock
    BY <1>5, <2>1, <2>3, SMT DEF WaitedOut
  <2> QED
    BY <2>2, <2>3 DEF Moves
<1> QED
  BY <1>3, <1>4, <1>5

LEMMA UpsertJustified ==
    ASSUME NEW h \in Hours, NEW old, NEW new, Justified(h, old), Justified(h, new)
    PROVE  Justified(h, Upsert(old, new))
BY DEF Upsert

LEMMA InitInv == Init => IngestInv
<1> SUFFICES ASSUME Init PROVE IngestInv
  OBVIOUS
<1>1. TypeOK
  BY InitTypeOK
<1>2. \A h \in Hours : row[h].status = "none"
  BY DEF Init, NoRow
<1>3. \A h \in Hours : SourceSound(h)
  BY SMT DEF Init, SourceSound
<1>4. \A p \in Procs, h \in Hours : work[p][h] = "idle"
  BY DEF Init, NoWork
<1>5. \A p \in Procs : pass[p].now = 0
  BY DEF Init, Resting
<1>6. clock = 0 /\ 0 <= 0
  BY SMT DEF Init
<1> QED
  BY <1>1, <1>2, <1>3, <1>4, <1>5, <1>6 DEF IngestInv, Justified, WorkSound

\* What a step leaves alone stays justified.
LEMMA Untouched ==
    ASSUME IngestInv, TypeOK', Moves
    PROVE  /\ \A h \in Hours : row'[h] = row[h] => Justified(h, row[h])'
           /\ \A h \in Hours : source'[h] = source[h] => SourceSound(h)'
           /\ \A p \in Procs : pass'[p] = pass[p] => (pass[p].now <= clock)'
           /\ \A p \in Procs, h \in Hours :
                 work'[p][h] = work[p][h] /\ report'[p][h] = report[p][h] => WorkSound(p, h)'
<1> USE IngestAssumption, Sentinels
<1>0. NoFile \notin Contents
  BY SMT
<1>1. ASSUME NEW h \in Hours, NEW r, Justified(h, r) PROVE Justified(h, r)'
  BY <1>0, <1>1, MovesKeep DEF IngestInv, Justified
<1>2. ASSUME NEW h \in Hours, row'[h] = row[h] PROVE Justified(h, row[h])'
  BY <1>1, <1>2 DEF IngestInv, Justified
<1>3. ASSUME NEW h \in Hours, source'[h] = source[h] PROVE SourceSound(h)'
  BY <1>3, MovesKeep DEF IngestInv, SourceSound
<1>4. ASSUME NEW p \in Procs, pass'[p] = pass[p] PROVE (pass[p].now <= clock)'
  <2>1. pass[p].now \in Int /\ clock \in Int
    BY SMT DEF IngestInv, TypeOK
  <2>2. clock' \in Int /\ clock <= clock'
    BY SMT DEF Moves
  <2> QED
    BY <1>4, <2>1, <2>2, SMT DEF IngestInv
<1>5. ASSUME NEW p \in Procs, NEW h \in Hours,
             work'[p][h] = work[p][h], report'[p][h] = report[p][h]
      PROVE  WorkSound(p, h)'
  BY <1>0, <1>1, <1>5, MovesKeep DEF IngestInv, WorkSound, Justified
<1> QED
  BY <1>2, <1>3, <1>4, <1>5

\* The invariant again, said of the hour and the process a step is about.
LEMMA Rest ==
    ASSUME IngestInv, TypeOK', Moves, NEW p \in Procs, NEW h \in Hours,
           \A g \in Hours \ {h} : row'[g] = row[g] /\ source'[g] = source[g],
           \A q \in Procs \ {p} : work'[q] = work[q] /\ report'[q] = report[q],
           \A g \in Hours \ {h} : work'[p][g] = work[p][g] /\ report'[p][g] = report[p][g],
           pass' = pass,
           Justified(h, row[h])', SourceSound(h)', WorkSound(p, h)'
    PROVE  IngestInv'
<1>1. \A g \in Hours : Justified(g, row[g])' /\ SourceSound(g)'
  BY Untouched
<1>2. \A q \in Procs : (pass[q].now <= clock)'
  BY Untouched
<1>3. \A q \in Procs, g \in Hours : WorkSound(q, g)'
  BY Untouched
<1> QED
  BY <1>1, <1>2, <1>3 DEF IngestInv

\* A process that forgets is at no hour; a scheduled one is only queued there.
LEMMA ForgetsFrame ==
    ASSUME TypeOK, NEW p \in Procs, Forgets(p)
    PROVE  /\ \A q \in Procs \ {p} : work'[q] = work[q] /\ report'[q] = report[q]
           /\ \A h \in Hours : work'[p][h] = "idle" /\ report'[p][h] = NoRow
BY SMT DEF Forgets, TypeOK, NoWork, NoReport

LEMMA ScheduleFrame ==
    ASSUME TypeOK, NEW p \in Procs, NEW hs, Schedule(p, hs)
    PROVE  /\ \A q \in Procs \ {p} : work'[q] = work[q]
           /\ \A h \in Hours : work'[p][h] \in {"queued", "idle"}
           /\ report' = report
BY SMT DEF Schedule, TypeOK

\* A pass judges its hours by the present instant and carries nothing yet.
LEMMA Scheduling ==
    ASSUME IngestInv, TypeOK', NEW p \in Procs, NEW hs, Schedule(p, hs),
           UNCHANGED << world, disk, row >>
    PROVE  IngestInv'
<1>0. TypeOK /\ clock \in Nat /\ clock <= clock
  BY SMT DEF IngestInv, TypeOK
<1>1. Moves
  BY <1>0 DEF Moves, world, disk
<1>2. \A q \in Procs \ {p} : pass'[q] = pass[q]
  BY <1>0, SMT DEF Schedule, TypeOK
<1>3. pass'[p].now = clock /\ clock' = clock
  BY <1>0, SMT DEF Schedule, TypeOK, world
<1>4. \A h \in Hours : WorkSound(p, h)'
  BY <1>0, ScheduleFrame DEF WorkSound
<1>5. \A h \in Hours : Justified(h, row[h])' /\ SourceSound(h)'
  BY <1>1, Untouched DEF disk
<1>6. \A q \in Procs : (pass[q].now <= clock)'
  BY <1>0, <1>1, <1>2, <1>3, Untouched
<1>7. \A q \in Procs, h \in Hours : WorkSound(q, h)'
  BY <1>0, <1>1, <1>4, ScheduleFrame, Untouched
<1> QED
  BY <1>5, <1>6, <1>7 DEF IngestInv

\* A process that ends or dies carries nothing any more.
LEMMA Forgetting ==
    ASSUME IngestInv, TypeOK', Moves, NEW p \in Procs, Forgets(p), row' = row,
           \A h \in Hours : SourceSound(h)'
    PROVE  IngestInv'
<1>1. \A h \in Hours : Justified(h, row[h])'
  BY Untouched
<1>2. \A q \in Procs : (pass[q].now <= clock)'
  <2>1. \A q \in Procs \ {p} : pass'[q] = pass[q]
    BY SMT DEF Forgets, IngestInv, TypeOK
  <2>2. pass'[p].now = 0
    BY SMT DEF Forgets, IngestInv, TypeOK, Resting
  <2>3. clock' \in Nat
    BY DEF Moves
  <2>4. 0 <= clock'
    BY <2>3, SMT
  <2> QED
    BY <2>1, <2>2, <2>4, Untouched
<1>3. \A q \in Procs, h \in Hours : WorkSound(q, h)'
  <2>1. \A h \in Hours : WorkSound(p, h)'
    BY ForgetsFrame DEF IngestInv, WorkSound
  <2> QED
    BY <2>1, ForgetsFrame, Untouched DEF IngestInv
<1> QED
  BY <1>1, <1>2, <1>3 DEF IngestInv

\* A step of ingest_hour moves one process at one hour.
LEMMA GotoFrame ==
    ASSUME TypeOK, NEW p \in Procs, NEW h \in Hours, NEW phase, Goto(p, h, phase)
    PROVE  /\ pass' = pass /\ work'[p][h] = phase
           /\ \A q \in Procs \ {p} : work'[q] = work[q]
           /\ \A g \in Hours \ {h} : work'[p][g] = work[p][g]
BY SMT DEF Goto, TypeOK

LEMMA ReportFrame ==
    ASSUME TypeOK, NEW p \in Procs, NEW h \in Hours, NEW r, Reports(p, h, r)
    PROVE  /\ report'[p][h] = r
           /\ \A q \in Procs \ {p} : report'[q] = report[q]
           /\ \A g \in Hours \ {h} : report'[p][g] = report[p][g]
BY SMT DEF Reports, TypeOK

\* The common case: no row and no source changes, and one report may.
LEMMA Carries ==
    ASSUME IngestInv, TypeOK', Moves, NEW p \in Procs, NEW h \in Hours, NEW phase,
           Goto(p, h, phase), UNCHANGED << source, row >>,
           report' = report \/ \E r : Reports(p, h, r),
           WorkSound(p, h)'
    PROVE  IngestInv'
<1>1. TypeOK
  BY DEF IngestInv
<1>2. Justified(h, row[h])' /\ SourceSound(h)'
  BY Untouched
<1>3. /\ \A q \in Procs \ {p} : report'[q] = report[q]
      /\ \A g \in Hours \ {h} : report'[p][g] = report[p][g]
  BY <1>1, ReportFrame
<1> QED
  BY <1>1, <1>2, <1>3, GotoFrame, Rest

\* Every action keeps the invariant.
LEMMA NextInv == IngestInv /\ [Next]_vars => IngestInv'
<1> SUFFICES ASSUME IngestInv, [Next]_vars PROVE IngestInv'
  OBVIOUS
<1> USE IngestAssumption
<1>0. TypeOK /\ TypeOK'
  BY NextTypeOK DEF IngestInv
<1>0a. clock \in Nat /\ clock <= clock
  BY <1>0, SMT DEF TypeOK

\* Steps outside the processes.
<1>1. CASE Tick
  <2>1. Moves
    BY <1>0, <1>1, SMT DEF Tick, disk, Moves, TypeOK
  <2> QED
    BY <1>0, <1>1, <2>1, Untouched DEF Tick, disk, procs, IngestInv
<1>2. ASSUME NEW h \in Hours, Publish(h) PROVE IngestInv'
  <2>1. Moves
    BY <1>0, <1>0a, <1>2, SMT DEF Publish, disk, Moves, TypeOK
  <2>2. SourceSound(h)'
    BY <1>2, <1>0, <2>1, MovesKeep, Untouched DEF Publish, disk
  <2> QED
    BY <1>0, <1>2, <2>1, Untouched DEF Publish, disk, procs, IngestInv
<1>3. ASSUME NEW h \in Hours, Damage(h) PROVE IngestInv'
  <2>1. Moves
    BY <1>0, <1>0a, <1>3, SMT DEF Damage, world, Moves, TypeOK
  <2> QED
    BY <1>0, <1>3, <2>1, Untouched DEF Damage, world, procs, IngestInv

<1>4. ASSUME UNCHANGED << world, lake, lost >> PROVE Moves
  BY <1>0a, <1>4 DEF Moves, world
<1>4a. ASSUME NEW h \in Hours, Unlink(h) PROVE IngestInv'
  <2>1. UNCHANGED << world, lake, lost, row, procs >>
    BY <1>4a DEF Unlink
  <2>2. Moves
    BY <1>4, <2>1
  <2>3. \A g \in Hours : source'[g] \in {source[g], NoFile}
    BY <1>0, <1>4a, SMT DEF Unlink, TypeOK
  <2>4. \A g \in Hours : SourceSound(g)'
    BY <2>1, <2>3 DEF SourceSound, IngestInv, world
  <2> QED
    BY <1>0, <2>1, <2>2, <2>4, Untouched DEF procs, IngestInv

\* Passes.
<1>5. ASSUME NEW p \in Procs, StartPass(p) PROVE IngestInv'
  BY <1>0, <1>5, Scheduling DEF StartPass
<1>6. ASSUME NEW p \in Procs, EndPass(p) \/ Crash(p) \/ \E h \in Hours : LandDies(p, h)
      PROVE  IngestInv'
  <2>1. Forgets(p) /\ UNCHANGED << world, disk, row >>
    BY <1>6 DEF EndPass, Crash, LandDies
  <2>2. Moves
    BY <1>4, <2>1 DEF disk
  <2>3. \A h \in Hours : SourceSound(h)'
    BY <1>0, <2>1, <2>2, Untouched DEF disk
  <2> QED
    BY <1>0, <2>1, <2>2, <2>3, Forgetting

\* ingest_hour.
<1>7. ASSUME NEW p \in Procs, NEW h \in Hours, Ingest(p, h) PROVE IngestInv'
  <2> USE Sentinels
  <2>0. NoFile \notin Contents
    BY SMT
  <2>1. CASE Begin(p, h)
    <3>1. UNCHANGED << world, disk, row, report >>
      BY <2>1 DEF Begin
    <3>2. Moves
      BY <1>4, <3>1 DEF disk
    <3>3. CASE Present(source[h])
      <4>1. Goto(p, h, "fetched")
        BY <2>1, <3>3 DEF Begin
      <4>2. Present(published[h])'
        BY <3>1, <3>3 DEF IngestInv, SourceSound, world
      <4>3. WorkSound(p, h)'
        BY <1>0, <4>1, <4>2, GotoFrame DEF WorkSound
      <4> QED
        BY <1>0, <3>1, <3>2, <4>1, <4>3, Carries DEF disk
    <3>4. CASE ~Present(source[h])
      <4>1. Goto(p, h, "fetching")
        BY <2>1, <3>4 DEF Begin, Staging
      <4>2. WorkSound(p, h)'
        BY <1>0, <4>1, GotoFrame DEF WorkSound
      <4> QED
        BY <1>0, <3>1, <3>2, <4>1, <4>2, Carries DEF disk
    <3> QED
      BY <3>3, <3>4
  <2>2. CASE FetchFails(p, h)
    <3>1. Goto(p, h, "done") /\ UNCHANGED << world, disk, row, report >>
      BY <2>2 DEF FetchFails, LeaveStaging
    <3>2. Moves
      BY <1>4, <3>1 DEF disk
    <3>3. WorkSound(p, h)'
      BY <1>0, <3>1, GotoFrame DEF WorkSound
    <3> QED
      BY <1>0, <3>1, <3>2, <3>3, Carries DEF disk
  <2>3. CASE FetchAbsent(p, h)
    <3>1. UNCHANGED << world, disk, row >> /\ ~Present(published[h])
      BY <2>3 DEF FetchAbsent
    <3>2. Moves
      BY <1>4, <3>1 DEF disk
    <3>3. CASE pass[p].now - HourEnd(h) < Grace
      <4>1. Goto(p, h, "done") /\ UNCHANGED report
        BY <2>3, <3>3 DEF FetchAbsent, LeaveStaging
      <4>2. WorkSound(p, h)'
        BY <1>0, <4>1, GotoFrame DEF WorkSound
      <4> QED
        BY <1>0, <3>1, <3>2, <4>1, <4>2, Carries DEF disk
    <3>4. CASE ~(pass[p].now - HourEnd(h) < Grace)
      <4>1. Goto(p, h, "recording") /\ Reports(p, h, Missing)
        BY <2>3, <3>4 DEF FetchAbsent, LeaveStaging
      <4>2. clock - HourEnd(h) >= Grace
        <5>1. pass[p].now <= clock
          BY DEF IngestInv
        <5>2. pass[p].now \in Int /\ clock \in Int /\ HourEnd(h) \in Int /\ Grace \in Int
          BY <1>0, HourAssumption, SMT DEF TypeOK
        <5>3. pass[p].now - HourEnd(h) >= Grace
          BY <3>4, <5>2, SMT
        <5> QED
          BY <5>1, <5>2, <5>3, LaterStill
      <4>3. WaitedOut(h)'
        BY <1>0, <3>1, <3>2, <4>2, MovesKeep DEF WaitedOut
      <4>4. Justified(h, Missing)'
        BY <4>3 DEF Justified, Missing
      <4>5. WorkSound(p, h)'
        BY <1>0, <4>1, <4>4, GotoFrame, ReportFrame DEF WorkSound, Missing
      <4> QED
        BY <1>0, <3>1, <3>2, <4>1, <4>5, Carries DEF disk
    <3> QED
      BY <3>3, <3>4
  <2>4. CASE Fetch(p, h)
    <3>1. /\ Goto(p, h, "fetched") /\ Present(published[h])
          /\ UNCHANGED << world, lake, lost, row, report >>
      BY <2>4 DEF Fetch, LeaveStaging
    <3>2. Moves
      BY <1>4, <3>1
    <3>3. /\ \A g \in Hours \ {h} : source'[g] = source[g]
          /\ source'[h] \in {published[h], Torn}
      BY <1>0, <2>4, SMT DEF Fetch, TypeOK
    <3>4. SourceSound(h)'
      BY <3>1, <3>3 DEF SourceSound, world
    <3>5. WorkSound(p, h)'
      BY <1>0, <3>1, GotoFrame DEF WorkSound, world
    <3>6. Justified(h, row[h])'
      BY <1>0, <3>1, <3>2, Untouched
    <3> QED
      BY <1>0, <3>1, <3>2, <3>3, <3>4, <3>5, <3>6, GotoFrame, Rest
  <2>5. CASE FetchDies(p, h)
    <3>1. /\ Forgets(p) /\ Present(published[h])
          /\ UNCHANGED << world, lake, lost, row >>
      BY <2>5 DEF FetchDies
    <3>2. Moves
      BY <1>4, <3>1
    <3>3. /\ \A g \in Hours \ {h} : source'[g] = source[g]
          /\ source'[h] \in {published[h], source[h]}
      BY <1>0, <2>5, SMT DEF FetchDies, TypeOK
    <3>4. SourceSound(h)'
      BY <3>1, <3>3 DEF SourceSound, world, IngestInv
    <3>5. \A g \in Hours : SourceSound(g)'
      BY <1>0, <3>2, <3>3, <3>4, Untouched
    <3> QED
      BY <1>0, <3>1, <3>2, <3>5, Forgetting
  <2>6. CASE Open(p, h)
    <3>1. UNCHANGED << world, disk, row >> /\ work[p][h] = "fetched"
      BY <2>6 DEF Open
    <3>2. Moves
      BY <1>4, <3>1 DEF disk
    <3>3. CASE source[h] \in Contents
      <4>1. Goto(p, h, "converting") /\ Reports(p, h, Ingested(source[h]))
        BY <2>6, <3>3 DEF Open, Staging
      <4>2. source[h] = published[h]
        BY <2>0, <3>3, SMT DEF IngestInv, SourceSound
      <4>3. WorkSound(p, h)'
        BY <1>0, <3>1, <3>3, <4>1, <4>2, GotoFrame, ReportFrame DEF WorkSound, world
      <4> QED
        BY <1>0, <3>1, <3>2, <4>1, <4>3, Carries DEF disk
    <3>4. CASE source[h] \notin Contents
      <4>1. Goto(p, h, "recording") /\ Reports(p, h, Failed)
        BY <2>6, <3>4 DEF Open
      <4>2. Justified(h, Failed)'
        BY <3>1 DEF IngestInv, WorkSound, Justified, Failed, world
      <4>3. WorkSound(p, h)'
        BY <1>0, <4>1, <4>2, GotoFrame, ReportFrame DEF WorkSound, Failed
      <4> QED
        BY <1>0, <3>1, <3>2, <4>1, <4>3, Carries DEF disk
    <3> QED
      BY <3>3, <3>4
  <2>7. CASE Land(p, h)
    <3>1. /\ Goto(p, h, "recording") /\ work[p][h] = "converting"
          /\ UNCHANGED << world, source, row, report >>
      BY <2>7 DEF Land, LeaveStaging
    <3>2. report[p][h] = Ingested(published[h]) /\ published[h] \in Contents
      BY <3>1 DEF IngestInv, WorkSound
    <3>3. /\ lake'[h] = published'[h]
          /\ \A g \in Hours \ {h} : lake'[g] = lake[g] /\ (g \in lost => g \in lost')
      BY <1>0, <2>7, <3>2, SMT DEF Land, Ingested, TypeOK, world
    <3>4. Moves
      BY <1>0a, <3>1, <3>3 DEF Moves, world
    <3>5. Justified(h, Ingested(published[h]))'
      BY <3>1, <3>2, <3>3, SMT DEF Justified, Grounded, Ingested, world
    <3>6. WorkSound(p, h)'
      BY <1>0, <3>1, <3>2, <3>5, GotoFrame DEF WorkSound, Ingested, world
    <3> QED
      BY <1>0, <3>1, <3>4, <3>6, Carries
  <2>8. CASE LandFails(p, h)
    <3>1. /\ Goto(p, h, "recording") /\ work[p][h] = "converting"
          /\ Reports(p, h, Failed) /\ UNCHANGED << world, source, lake, lost, row >>
      BY <2>8 DEF LandFails, LeaveStaging
    <3>2. Moves
      BY <1>4, <3>1
    <3>3. Present(published[h])
      BY <2>0, <3>1 DEF IngestInv, WorkSound
    <3>4. Justified(h, Failed)'
      BY <3>1, <3>3 DEF Justified, Failed, world
    <3>5. WorkSound(p, h)'
      BY <1>0, <3>1, <3>4, GotoFrame, ReportFrame DEF WorkSound, Failed
    <3> QED
      BY <1>0, <3>1, <3>2, <3>5, Carries
  <2>9. CASE LandDies(p, h)
    BY <1>6, <2>9
  <2>10. CASE Record(p, h)
    <3>1. PICK phase \in {"discarding", "done"} : Goto(p, h, phase)
      BY <2>10 DEF Record
    <3>2. work[p][h] = "recording" /\ UNCHANGED << world, disk, report >>
      BY <2>10 DEF Record
    <3>3. Moves
      BY <1>4, <3>2 DEF disk
    <3>4. /\ row'[h] = Upsert(row[h], report[p][h])
          /\ \A g \in Hours \ {h} : row'[g] = row[g]
      BY <1>0, <2>10, SMT DEF Record, TypeOK
    <3>5. Justified(h, row'[h])
      BY <3>2, <3>4, UpsertJustified DEF IngestInv, WorkSound
    <3>6. Justified(h, row[h])'
      BY <3>2, <3>5 DEF Justified, Grounded, WaitedOut, world, disk
    <3>7. WorkSound(p, h)'
      BY <1>0, <3>1, GotoFrame DEF WorkSound
    <3>8. SourceSound(h)'
      BY <1>0, <3>2, <3>3, Untouched DEF disk
    <3> QED
      BY <1>0, <3>1, <3>2, <3>3, <3>4, <3>6, <3>7, <3>8, GotoFrame, Rest DEF disk
  <2>11. CASE Discard(p, h)
    <3>1. Goto(p, h, "done") /\ UNCHANGED << world, lake, lost, row, report >>
      BY <2>11 DEF Discard
    <3>2. Moves
      BY <1>4, <3>1
    <3>3. /\ \A g \in Hours \ {h} : source'[g] = source[g]
          /\ source'[h] \in {source[h], NoFile}
      BY <1>0, <2>11, SMT DEF Discard, TypeOK
    <3>4. SourceSound(h)'
      BY <3>1, <3>3 DEF SourceSound, world, IngestInv
    <3>5. WorkSound(p, h)'
      BY <1>0, <3>1, GotoFrame DEF WorkSound
    <3>6. Justified(h, row[h])'
      BY <1>0, <3>1, <3>2, Untouched
    <3> QED
      BY <1>0, <3>1, <3>2, <3>3, <3>4, <3>5, <3>6, GotoFrame, Rest
  <2> QED
    BY <1>7, <2>1, <2>2, <2>3, <2>4, <2>5, <2>6, <2>7, <2>8, <2>9, <2>10, <2>11 DEF Ingest
<1>8. CASE UNCHANGED vars
  <2>1. UNCHANGED << world, disk, row, procs >>
    BY <1>8 DEF vars
  <2>2. Moves
    BY <1>4, <2>1 DEF disk
  <2> QED
    BY <1>0, <2>1, <2>2, Untouched DEF disk, procs, IngestInv
<1> QED
  BY <1>1, <1>2, <1>3, <1>4a, <1>5, <1>6, <1>7, <1>8 DEF Next, Environment, Process

\* In every behaviour every row, source and report is justified.
THEOREM IngestSafe == Spec => []IngestInv
BY InitInv, NextInv, PTL DEF Spec

\* A justified claim describes the file in the lake.
LEMMA InvBacksClaims == IngestInv => EveryFalseClaimIsALoss
<1>1. ASSUME IngestInv, NEW h \in Hours, IsIngested(row[h])
      PROVE  lake[h] = row[h].file \/ h \in lost
  <2>1. row[h] = Ingested(published[h]) /\ Grounded(h)
    BY <1>1 DEF IngestInv, Justified
  <2>2. row[h].file = published[h]
    BY <2>1, SMT DEF Ingested
  <2> QED
    BY <2>1, <2>2 DEF Grounded
<1> QED
  BY <1>1 DEF EveryFalseClaimIsALoss

\* In every behaviour, whatever the interleaving and wherever a process dies, a
\* row that claims success describes the file in the lake, unless that file was
\* damaged from outside after it landed.
THEOREM ClaimsBacked == Spec => []EveryFalseClaimIsALoss
BY InvBacksClaims, IngestSafe, PTL

\* In every behaviour an hour recorded as missing was not published within its
\* grace, however long its pass had been running when it judged it.
THEOREM WriteOffsAreLate == Spec => []NoTimelyHourWrittenOff
<1>1. IngestInv => NoTimelyHourWrittenOff
  BY DEF IngestInv, Justified, WaitedOut, NoTimelyHourWrittenOff
<1> QED
  BY <1>1, IngestSafe, PTL

\* No step of the schedulers takes a recorded success back.
LEMMA SuccessKept == TypeOK /\ [Next]_vars => \A g \in Hours : IsIngested(row[g]) => IsIngested(row'[g])
<1> SUFFICES ASSUME TypeOK, [Next]_vars, NEW g \in Hours, IsIngested(row[g])
             PROVE  IsIngested(row'[g])
  OBVIOUS
<1>1. ASSUME NEW p \in Procs, NEW h \in Hours, Record(p, h) PROVE IsIngested(row'[g])
  <2>1. row'[g] = IF g = h THEN Upsert(row[h], report[p][h]) ELSE row[g]
    BY <1>1, SMT DEF Record, TypeOK
  <2> QED
    BY <2>1 DEF Upsert
<1>2. ASSUME UNCHANGED row PROVE IsIngested(row'[g])
  BY <1>2
<1>3. CASE Environment
  BY <1>2, <1>3 DEF Environment, Tick, Publish, Damage, Unlink
<1>4. ASSUME NEW p \in Procs, NEW h \in Hours, Ingest(p, h) PROVE IsIngested(row'[g])
  BY <1>1, <1>2, <1>4 DEF Ingest, Begin, FetchFails, FetchAbsent, Fetch, FetchDies, Open,
                          Land, LandFails, LandDies, Discard
<1>5. ASSUME NEW p \in Procs, Process(p) PROVE IsIngested(row'[g])
  BY <1>2, <1>4, <1>5 DEF Process, StartPass, EndPass, Crash
<1>6. CASE UNCHANGED vars
  BY <1>2, <1>6 DEF vars
<1> QED
  BY <1>3, <1>5, <1>6 DEF Next

\* In no behaviour does a step of any process take a recorded success back.
THEOREM SuccessStays == Spec => NeverDowngraded
<1>1. TypeOK /\ [Next]_vars => [\A h \in Hours : IsIngested(row[h]) => IsIngested(row'[h])]_vars
  BY SuccessKept
<1> QED
  BY <1>1, TypeCorrect, PTL DEF Spec, NeverDowngraded

(***************************************************************************)
(* Safety: a source is discarded only under a recorded success.            *)
(***************************************************************************)

Discarding == \A p \in Procs, h \in Hours : work[p][h] = "discarding" => IsIngested(row[h])

\* Recording a success is the one way to start discarding.
LEMMA DiscardingKept == TypeOK /\ Discarding /\ [Next]_vars => Discarding'
<1> SUFFICES ASSUME TypeOK, Discarding, [Next]_vars, NEW q \in Procs, NEW g \in Hours,
                    work'[q][g] = "discarding"
             PROVE  IsIngested(row'[g])
  BY DEF Discarding
<1>1. ASSUME work'[q][g] = work[q][g] PROVE IsIngested(row'[g])
  BY <1>1, SuccessKept DEF Discarding
<1>2. ASSUME NEW p \in Procs, NEW h \in Hours, NEW phase, Goto(p, h, phase),
             p = q /\ h = g => phase # "discarding"
      PROVE  IsIngested(row'[g])
  BY <1>1, <1>2, GotoFrame
<1>3. ASSUME NEW p \in Procs, Forgets(p) PROVE IsIngested(row'[g])
  BY <1>1, <1>3, ForgetsFrame
<1>4. ASSUME NEW p \in Procs, NEW h \in Hours, Record(p, h) PROVE IsIngested(row'[g])
  <2>1. row'[h] = Upsert(row[h], report[p][h])
    BY <1>4, SMT DEF Record, TypeOK
  <2>2. CASE IsIngested(report[p][h])
    <3>1. IsIngested(row'[h])
      BY <2>1, <2>2 DEF Upsert
    <3>2. PICK phase : Goto(p, h, phase)
      BY <1>4 DEF Record
    <3> QED
      BY <3>1, <3>2, <1>2
  <2>3. CASE ~IsIngested(report[p][h])
    <3>1. Goto(p, h, "done")
      BY <1>4, <2>3 DEF Record
    <3> QED
      BY <3>1, <1>2
  <2> QED
    BY <2>2, <2>3
<1>5. ASSUME NEW p \in Procs, NEW h \in Hours, Ingest(p, h) PROVE IsIngested(row'[g])
  <2>1. CASE Record(p, h)
    BY <2>1, <1>4
  <2>2. CASE FetchDies(p, h) \/ LandDies(p, h)
    BY <2>2, <1>3 DEF FetchDies, LandDies
  <2>3. CASE ~Record(p, h) /\ ~FetchDies(p, h) /\ ~LandDies(p, h)
    <3>1. PICK phase \in Phases \ {"discarding"} : Goto(p, h, phase)
      BY <1>5, <2>3 DEF Ingest, Begin, FetchFails, FetchAbsent, Fetch, Open, Land, LandFails,
                        Discard, Staging, LeaveStaging, Phases
    <3> QED
      BY <3>1, <1>2
  <2> QED
    BY <2>1, <2>2, <2>3
<1>6. ASSUME NEW p \in Procs, Process(p) PROVE IsIngested(row'[g])
  <2>1. CASE StartPass(p)
    BY <2>1, <1>1, ScheduleFrame DEF StartPass
  <2>2. CASE EndPass(p) \/ Crash(p)
    BY <2>2, <1>3 DEF EndPass, Crash
  <2> QED
    BY <1>5, <1>6, <2>1, <2>2 DEF Process
<1>7. CASE Environment
  BY <1>1, <1>7 DEF Environment, Tick, Publish, Damage, Unlink, procs
<1>8. CASE UNCHANGED vars
  BY <1>1, <1>8 DEF vars, procs
<1> QED
  BY <1>6, <1>7, <1>8 DEF Next

\* In no behaviour does a scheduler take a source from the disk while its hour is
\* not recorded as in the lake, whichever process downloaded it; only a step of
\* aggregate_day does.
THEOREM SourcesOutliveTheirUse == Spec => OnlyRecordedSourcesDiscarded
<1>1. Init => Discarding
  BY DEF Init, NoWork, Discarding
<1>2. IngestInv /\ Discarding /\ [Next]_vars =>
        [\A h \in Hours : Present(source[h]) /\ ~Present(source'[h])
                              => IsIngested(row[h]) \/ Unlink(h)]_vars
  <2> SUFFICES ASSUME IngestInv, Discarding, Next, NEW g \in Hours,
                      Present(source[g]), ~Present(source'[g])
               PROVE  IsIngested(row[g]) \/ Unlink(g)
    OBVIOUS
  <2>0. TypeOK
    BY DEF IngestInv
  <2>1. ASSUME UNCHANGED source PROVE FALSE
    BY <2>1
  <2>2. ASSUME NEW p \in Procs, NEW h \in Hours, Fetch(p, h) \/ FetchDies(p, h) PROVE FALSE
    <3>1. Present(published[h])
      BY <2>2 DEF Fetch, FetchDies
    <3>2. \A f \in Hours : source'[f] \in {source[f], published[f], Torn}
                              /\ (f # h => source'[f] = source[f])
      BY <2>0, <2>2, SMT DEF Fetch, FetchDies, TypeOK
    <3> QED
      BY <3>1, <3>2, Sentinels DEF Present
  <2>3. ASSUME NEW p \in Procs, NEW h \in Hours, Discard(p, h) PROVE IsIngested(row[g])
    <3>1. \A f \in Hours \ {h} : source'[f] = source[f]
      BY <2>0, <2>3, SMT DEF Discard, TypeOK
    <3>2. IsIngested(row[h])
      BY <2>3 DEF Discard, Discarding
    <3> QED
      BY <3>1, <3>2
  <2>4. ASSUME NEW h \in Hours, Unlink(h) PROVE Unlink(g)
    <3>1. \A f \in Hours \ {h} : source'[f] = source[f]
      BY <2>0, <2>4, SMT DEF Unlink, TypeOK
    <3> QED
      BY <2>4, <3>1
  <2>4a. CASE Environment
    BY <2>1, <2>4, <2>4a DEF Environment, Tick, Publish, Damage, disk
  <2>5. ASSUME NEW p \in Procs, Process(p) PROVE IsIngested(row[g])
    BY <2>1, <2>2, <2>3, <2>5 DEF Process, StartPass, EndPass, Crash, disk, Ingest, Begin,
       FetchFails, FetchAbsent, Open, Land, LandFails, LandDies, Record
  <2> QED
    BY <2>4a, <2>5 DEF Next
<1>3. IngestInv => TypeOK
  BY DEF IngestInv
<1> QED
  BY <1>1, <1>2, <1>3, IngestSafe, DiscardingKept, PTL DEF Spec, OnlyRecordedSourcesDiscarded

(***************************************************************************)
(* Safety: an hour fails for its content, or for a local fault.  What a    *)
(* process finds on disk is what was published, unless the fault that made *)
(* it otherwise is on record or the hour needs it no more.                 *)
(***************************************************************************)

\* What would explain a failure of hour h.
Caused(h) == published[h] = Bad \/ h \in spoiled

\* A source is torn or gone from under a process only where that is explained.
SourceTrue(h) == Present(source[h]) => source[h] = published[h] \/ h \in spoiled

Explained(p, h) ==
    /\ work[p][h] = "fetched" => Present(source[h]) \/ h \in spoiled \/ IsIngested(row[h])
    /\ work[p][h] = "converting" => report[p][h].status # "failed"
    /\ work[p][h] = "recording" /\ report[p][h].status = "failed" =>
          Caused(h) \/ IsIngested(row[h])

CauseInv ==
    /\ FailureHasACause
    /\ \A h \in Hours : SourceTrue(h)
    /\ \A p \in Procs, h \in Hours : Explained(p, h)

\* Success stays, faults stay on record, and the publisher keeps to its word.
Onwards ==
    /\ spoiled \subseteq spoiled'
    /\ \A h \in Hours :
          /\ IsIngested(row[h]) => IsIngested(row'[h])
          /\ published'[h] = published[h] \/ published[h] = NoFile
          /\ Present(source[h]) /\ ~Present(source'[h]) => h \in spoiled' \/ IsIngested(row[h])

LEMMA CausesStay ==
    ASSUME Onwards, NEW h \in Hours, Caused(h)
    PROVE  Caused(h)'
BY Sentinels DEF Onwards, Caused

\* What a step leaves alone stays explained.
LEMMA CauseUntouched ==
    ASSUME CauseInv, Onwards, NEW h \in Hours
    PROVE  /\ row'[h] = row[h] => (row'[h].status = "failed" => Caused(h)')
           /\ source'[h] \in {source[h], NoFile} => SourceTrue(h)'
           /\ \A p \in Procs :
                 work'[p][h] = work[p][h] /\ report'[p][h] = report[p][h] => Explained(p, h)'
<1>1. row'[h] = row[h] => (row'[h].status = "failed" => Caused(h)')
  BY CausesStay DEF CauseInv, FailureHasACause, Caused
<1>2. source'[h] \in {source[h], NoFile} => SourceTrue(h)'
  BY DEF CauseInv, Onwards, SourceTrue
<1>3. ASSUME NEW p \in Procs, work'[p][h] = work[p][h], report'[p][h] = report[p][h]
      PROVE  Explained(p, h)'
  <2>1. Explained(p, h)
    BY DEF CauseInv
  <2> QED
    BY <1>3, <2>1, CausesStay DEF Explained, Onwards
<1> QED
  BY <1>1, <1>2, <1>3

\* The invariant again, said of the hour and the process a step is about.
LEMMA CauseAt ==
    ASSUME CauseInv, Onwards, NEW p \in Procs, NEW h \in Hours,
           \A g \in Hours \ {h} : row'[g] = row[g] /\ source'[g] = source[g],
           \A q \in Procs \ {p} : work'[q] = work[q] /\ report'[q] = report[q],
           \A g \in Hours \ {h} : work'[p][g] = work[p][g] /\ report'[p][g] = report[p][g],
           row'[h].status = "failed" => Caused(h)', SourceTrue(h)', Explained(p, h)'
    PROVE  CauseInv'
<1>1. \A g \in Hours : SourceTrue(g)' /\ (row'[g].status = "failed" => Caused(g)')
  BY CauseUntouched
<1>2. \A q \in Procs, g \in Hours : Explained(q, g)'
  BY CauseUntouched
<1> QED
  BY <1>1, <1>2 DEF CauseInv, FailureHasACause, Caused

\* A step that moves process p to another phase at hour h, and at most reports.
LEMMA CauseGoes ==
    ASSUME CauseInv, Onwards, TypeOK, NEW p \in Procs, NEW h \in Hours, NEW phase,
           Goto(p, h, phase), UNCHANGED << source, row >>,
           report' = report \/ \E r : Reports(p, h, r),
           Explained(p, h)'
    PROVE  CauseInv'
<1>1. /\ \A q \in Procs \ {p} : report'[q] = report[q]
      /\ \A g \in Hours \ {h} : report'[p][g] = report[p][g]
  BY ReportFrame
<1>2. SourceTrue(h)' /\ (row'[h].status = "failed" => Caused(h)')
  BY CauseUntouched
<1> QED
  BY <1>1, <1>2, GotoFrame, CauseAt

\* A process that forgets has nothing to explain.
LEMMA CauseForgotten ==
    ASSUME CauseInv, Onwards, TypeOK, NEW p \in Procs, Forgets(p), row' = row,
           \A h \in Hours : SourceTrue(h)'
    PROVE  CauseInv'
<1>1. \A h \in Hours : row'[h].status = "failed" => Caused(h)'
  BY CauseUntouched
<1>2. \A q \in Procs, h \in Hours : Explained(q, h)'
  <2>1. \A h \in Hours : Explained(p, h)'
    BY ForgetsFrame DEF Explained
  <2> QED
    BY <2>1, ForgetsFrame, CauseUntouched
<1> QED
  BY <1>1, <1>2 DEF CauseInv, FailureHasACause, Caused

LEMMA CauseIngest ==
    ASSUME CauseInv, Onwards, TypeOK, NEW p \in Procs, NEW h \in Hours, Ingest(p, h)
    PROVE  CauseInv'
<1> USE IngestAssumption, Sentinels
<1>1. CASE Begin(p, h)
  <2>1. UNCHANGED << source, row, report >>
    BY <1>1 DEF Begin, disk
  <2>2. CASE Present(source[h])
    <3>1. Goto(p, h, "fetched")
      BY <1>1, <2>2 DEF Begin
    <3>2. Explained(p, h)'
      BY <2>1, <2>2, <3>1, GotoFrame DEF Explained
    <3> QED
      BY <2>1, <3>1, <3>2, CauseGoes
  <2>3. CASE ~Present(source[h])
    <3>1. Goto(p, h, "fetching")
      BY <1>1, <2>3 DEF Begin, Staging
    <3>2. Explained(p, h)'
      BY <3>1, GotoFrame DEF Explained
    <3> QED
      BY <2>1, <3>1, <3>2, CauseGoes
  <2> QED
    BY <2>2, <2>3
<1>2. CASE FetchFails(p, h)
  <2>1. Goto(p, h, "done") /\ UNCHANGED << source, row, report >>
    BY <1>2 DEF FetchFails, LeaveStaging, disk
  <2>2. Explained(p, h)'
    BY <2>1, GotoFrame DEF Explained
  <2> QED
    BY <2>1, <2>2, CauseGoes
<1>3. CASE FetchAbsent(p, h)
  <2>1. UNCHANGED << source, row >>
    BY <1>3 DEF FetchAbsent, disk
  <2>2. CASE pass[p].now - HourEnd(h) < Grace
    <3>1. Goto(p, h, "done") /\ report' = report
      BY <1>3, <2>2 DEF FetchAbsent, LeaveStaging
    <3>2. Explained(p, h)'
      BY <3>1, GotoFrame DEF Explained
    <3> QED
      BY <2>1, <3>1, <3>2, CauseGoes
  <2>3. CASE ~(pass[p].now - HourEnd(h) < Grace)
    <3>1. Goto(p, h, "recording") /\ Reports(p, h, Missing)
      BY <1>3, <2>3 DEF FetchAbsent, LeaveStaging
    <3>2. Explained(p, h)'
      BY <3>1, GotoFrame, ReportFrame DEF Explained, Missing
    <3> QED
      BY <2>1, <3>1, <3>2, CauseGoes
  <2> QED
    BY <2>2, <2>3
<1>4. CASE Fetch(p, h)
  <2>1. Goto(p, h, "fetched") /\ UNCHANGED << world, row, report >>
    BY <1>4 DEF Fetch, LeaveStaging
  <2>2. PICK c \in {published[h], Torn} :
           /\ source' = [source EXCEPT ![h] = c]
           /\ spoiled' = IF c = Torn THEN spoiled \cup {h} ELSE spoiled
    BY <1>4 DEF Fetch
  <2>3. source'[h] = c /\ \A g \in Hours \ {h} : source'[g] = source[g]
    BY <2>2, SMT DEF TypeOK
  <2>4. SourceTrue(h)'
    BY <2>1, <2>2, <2>3 DEF SourceTrue, world
  <2>5. Present(published[h])
    BY <1>4 DEF Fetch
  <2>6. Explained(p, h)'
    BY <2>1, <2>3, <2>5, GotoFrame DEF Explained
  <2>7. row'[h].status = "failed" => Caused(h)'
    BY <2>1, CauseUntouched
  <2> QED
    BY <2>1, <2>3, <2>4, <2>6, <2>7, GotoFrame, CauseAt
<1>5. CASE Open(p, h)
  <2>1. UNCHANGED << world, disk, row >> /\ work[p][h] = "fetched"
    BY <1>5 DEF Open
  <2>2. CASE source[h] \in Contents
    <3>1. Goto(p, h, "converting") /\ Reports(p, h, Ingested(source[h]))
      BY <1>5, <2>2 DEF Open, Staging
    <3>2. Explained(p, h)'
      BY <3>1, GotoFrame, ReportFrame DEF Explained, Ingested
    <3> QED
      BY <2>1, <3>1, <3>2, CauseGoes DEF disk
  <2>3. CASE source[h] \notin Contents
    <3>1. Goto(p, h, "recording") /\ Reports(p, h, Failed)
      BY <1>5, <2>3 DEF Open
    <3>2. Present(source[h]) \/ h \in spoiled \/ IsIngested(row[h])
      BY <2>1 DEF CauseInv, Explained
    <3>3. Present(source[h]) => source[h] = published[h] \/ h \in spoiled
      BY DEF CauseInv, SourceTrue
    <3>4. source[h] = published[h] /\ Present(source[h]) => published[h] = Bad
      BY <2>3, SMT DEF TypeOK
    <3>5. Caused(h) \/ IsIngested(row[h])
      BY <3>2, <3>3, <3>4 DEF Caused
    <3>6. Explained(p, h)'
      BY <2>1, <3>1, <3>5, GotoFrame DEF Explained, Caused, world, disk
    <3> QED
      BY <2>1, <3>1, <3>6, CauseGoes DEF disk
  <2> QED
    BY <2>2, <2>3
<1>6. CASE Land(p, h)
  <2>1. /\ Goto(p, h, "recording") /\ work[p][h] = "converting"
        /\ UNCHANGED << source, row, report >>
    BY <1>6 DEF Land, LeaveStaging
  <2>2. Explained(p, h)'
    BY <2>1, GotoFrame DEF CauseInv, Explained
  <2> QED
    BY <2>1, <2>2, CauseGoes
<1>7. CASE LandFails(p, h)
  <2>1. /\ Goto(p, h, "recording") /\ Reports(p, h, Failed)
        /\ UNCHANGED << source, row >> /\ h \in spoiled'
    BY <1>7 DEF LandFails, LeaveStaging, LocalFault
  <2>2. Explained(p, h)'
    BY <2>1, GotoFrame DEF Explained, Caused
  <2> QED
    BY <2>1, <2>2, CauseGoes
<1>8. CASE Record(p, h)
  <2>1. PICK phase \in {"discarding", "done"} : Goto(p, h, phase)
    BY <1>8 DEF Record
  <2>2. work[p][h] = "recording" /\ UNCHANGED << world, disk, report >>
    BY <1>8 DEF Record
  <2>3. /\ row'[h] = Upsert(row[h], report[p][h])
        /\ \A g \in Hours \ {h} : row'[g] = row[g]
    BY <1>8, SMT DEF Record, TypeOK
  <2>4. row'[h].status = "failed" => Caused(h)
    BY <2>2, <2>3 DEF Upsert, CauseInv, Explained, FailureHasACause, Caused
  <2>5. row'[h].status = "failed" => Caused(h)'
    BY <2>4, CausesStay
  <2>6. SourceTrue(h)'
    BY <2>2, CauseUntouched DEF disk
  <2>7. Explained(p, h)'
    BY <2>1, GotoFrame DEF Explained
  <2> QED
    BY <2>1, <2>2, <2>3, <2>5, <2>6, <2>7, GotoFrame, CauseAt DEF disk
<1>9. CASE Discard(p, h)
  <2>1. Goto(p, h, "done") /\ UNCHANGED << row, report >>
    BY <1>9 DEF Discard
  <2>2. /\ source'[h] \in {source[h], NoFile}
        /\ \A g \in Hours \ {h} : source'[g] = source[g]
    BY <1>9, SMT DEF Discard, TypeOK
  <2>3. SourceTrue(h)' /\ (row'[h].status = "failed" => Caused(h)')
    BY <2>1, <2>2, CauseUntouched
  <2>4. Explained(p, h)'
    BY <2>1, GotoFrame DEF Explained
  <2> QED
    BY <2>1, <2>2, <2>3, <2>4, GotoFrame, CauseAt
<1>10. CASE FetchDies(p, h)
  <2>1. Forgets(p) /\ UNCHANGED << world, spoiled, row >>
    BY <1>10 DEF FetchDies
  <2>2. \A g \in Hours : source'[g] = source[g] \/ source'[g] = published[g]
    BY <1>10, SMT DEF FetchDies, TypeOK
  <2>3. \A g \in Hours : SourceTrue(g)'
    BY <2>1, <2>2, CauseUntouched DEF SourceTrue, world
  <2> QED
    BY <2>1, <2>3, CauseForgotten
<1>11. CASE LandDies(p, h)
  <2>1. Forgets(p) /\ UNCHANGED << world, disk, row >>
    BY <1>11 DEF LandDies
  <2>2. \A g \in Hours : SourceTrue(g)'
    BY <2>1, CauseUntouched DEF disk
  <2> QED
    BY <2>1, <2>2, CauseForgotten
<1> QED
  BY <1>1, <1>2, <1>3, <1>4, <1>5, <1>6, <1>7, <1>8, <1>9, <1>10, <1>11 DEF Ingest

\* Every step keeps success and the record of faults, and takes a source only
\* under the one or into the other.
LEMMA StepOnwards == IngestInv /\ Discarding /\ [Next]_vars => Onwards
<1> SUFFICES ASSUME IngestInv, Discarding, [Next]_vars PROVE Onwards
  OBVIOUS
<1>0. TypeOK /\ \A h \in Hours : IsIngested(row[h]) => IsIngested(row'[h])
  BY SuccessKept DEF IngestInv
<1>1. ASSUME UNCHANGED << published, source >>, spoiled \subseteq spoiled' PROVE Onwards
  BY <1>0, <1>1 DEF Onwards
<1>2. CASE Tick
  BY <1>1, <1>2 DEF Tick, disk
<1>3. ASSUME NEW h \in Hours, Publish(h) PROVE Onwards
  <2>1. \A g \in Hours : published'[g] = published[g] \/ published[g] = NoFile
    BY <1>0, <1>3, SMT DEF Publish, TypeOK
  <2> QED
    BY <1>0, <1>3, <2>1 DEF Publish, Onwards, disk
<1>4. ASSUME NEW h \in Hours, Damage(h) PROVE Onwards
  BY <1>1, <1>4 DEF Damage, world
<1>5. ASSUME NEW h \in Hours, Unlink(h) PROVE Onwards
  <2>1. \A g \in Hours \ {h} : source'[g] = source[g]
    BY <1>0, <1>5, SMT DEF Unlink, TypeOK
  <2> QED
    BY <1>0, <1>5, <2>1 DEF Unlink, LocalFault, Onwards, world
<1>6. ASSUME NEW p \in Procs, NEW h \in Hours, Ingest(p, h) PROVE Onwards
  <2>1. CASE Fetch(p, h) \/ FetchDies(p, h)
    <3>1. \A g \in Hours : source'[g] \in {source[g], Torn} \/ (g = h /\ source'[g] = published[g])
      BY <1>0, <2>1, SMT DEF Fetch, FetchDies, TypeOK
    <3>2. Present(published[h]) /\ UNCHANGED published /\ spoiled \subseteq spoiled'
      BY <2>1 DEF Fetch, FetchDies, world
    <3> QED
      BY <1>0, <3>1, <3>2, Sentinels DEF Onwards
  <2>2. CASE Discard(p, h)
    <3>1. \A g \in Hours \ {h} : source'[g] = source[g]
      BY <1>0, <2>2, SMT DEF Discard, TypeOK
    <3>2. UNCHANGED << published, spoiled >> /\ IsIngested(row[h])
      BY <2>2 DEF Discard, Discarding, world
    <3> QED
      BY <1>0, <3>1, <3>2 DEF Onwards
  <2>3. CASE LandFails(p, h)
    BY <1>1, <2>3 DEF LandFails, LocalFault, world
  <2>4. CASE ~(Fetch(p, h) \/ FetchDies(p, h) \/ Discard(p, h) \/ LandFails(p, h))
    <3>1. UNCHANGED << world, source, spoiled >>
      BY <1>6, <2>4 DEF Ingest, Begin, FetchFails, FetchAbsent, Open, Land, LandDies, Record, disk
    <3> QED
      BY <1>1, <3>1 DEF world
  <2> QED
    BY <2>1, <2>2, <2>3, <2>4
<1>7. ASSUME NEW p \in Procs, Process(p) PROVE Onwards
  BY <1>1, <1>6, <1>7 DEF Process, StartPass, EndPass, Crash, world, disk
<1>8. CASE UNCHANGED vars
  BY <1>1, <1>8 DEF vars, world, disk
<1> QED
  BY <1>2, <1>3, <1>4, <1>5, <1>7, <1>8 DEF Next, Environment

LEMMA CauseKept == IngestInv /\ Discarding /\ CauseInv /\ [Next]_vars => CauseInv'
<1> SUFFICES ASSUME IngestInv, Discarding, CauseInv, [Next]_vars PROVE CauseInv'
  OBVIOUS
<1>0. TypeOK /\ Onwards
  BY StepOnwards DEF IngestInv
<1>1. ASSUME UNCHANGED << row, work, report >>,
             \A h \in Hours : source'[h] \in {source[h], NoFile}
      PROVE  CauseInv'
  BY <1>0, <1>1, CauseUntouched DEF CauseInv, FailureHasACause, Caused
<1>2. CASE Environment
  <2>1. UNCHANGED << row, work, report >>
    BY <1>2 DEF Environment, Tick, Publish, Damage, Unlink, procs
  <2>2. \A h \in Hours : source'[h] \in {source[h], NoFile}
    BY <1>0, <1>2, SMT DEF Environment, Tick, Publish, Damage, Unlink, disk, TypeOK
  <2> QED
    BY <1>1, <2>1, <2>2
<1>3. ASSUME NEW p \in Procs, Process(p) PROVE CauseInv'
  <2>1. CASE \E h \in Hours : Ingest(p, h)
    BY <1>0, <2>1, CauseIngest
  <2>2. CASE StartPass(p)
    <3>1. UNCHANGED << disk, row >> /\ \E hs : Schedule(p, hs)
      BY <2>2 DEF StartPass
    <3>2. \A h \in Hours : Explained(p, h)'
      BY <1>0, <3>1, ScheduleFrame DEF Explained
    <3>3. \A q \in Procs, h \in Hours : Explained(q, h)'
      BY <1>0, <3>1, <3>2, ScheduleFrame, CauseUntouched
    <3>4. \A h \in Hours : SourceTrue(h)' /\ (row'[h].status = "failed" => Caused(h)')
      BY <1>0, <3>1, CauseUntouched DEF disk
    <3> QED
      BY <3>3, <3>4 DEF CauseInv, FailureHasACause, Caused
  <2>3. CASE EndPass(p) \/ Crash(p)
    <3>1. Forgets(p) /\ UNCHANGED << disk, row >>
      BY <2>3 DEF EndPass, Crash
    <3>2. \A h \in Hours : SourceTrue(h)'
      BY <1>0, <3>1, CauseUntouched DEF disk
    <3> QED
      BY <1>0, <3>1, <3>2, CauseForgotten
  <2> QED
    BY <1>3, <2>1, <2>2, <2>3 DEF Process
<1>4. CASE UNCHANGED vars
  BY <1>1, <1>4 DEF vars, disk, procs
<1> QED
  BY <1>2, <1>3, <1>4 DEF Next

\* In every behaviour of any number of schedulers, an hour recorded as failed is
\* one whose published content no conversion accepts, or whose files met a local
\* fault or were staged by two processes at once: no network error, no answer that
\* came late, no crash and no damage to the lake is ever the reason.
THEOREM FailuresAreExplained == Spec => []FailureHasACause
<1>1. Init => Discarding /\ CauseInv
  BY DEF Init, NoWork, NoRow, Discarding, CauseInv, FailureHasACause, SourceTrue, Explained
<1>2. CauseInv => FailureHasACause
  BY DEF CauseInv
<1>3. IngestInv /\ Discarding /\ CauseInv /\ [Next]_vars => CauseInv'
  BY CauseKept
<1>4. IngestInv => TypeOK
  BY DEF IngestInv
<1> QED
  BY <1>1, <1>2, <1>3, <1>4, IngestSafe, DiscardingKept, PTL DEF Spec

(***************************************************************************)
(* Refinement: the ledger these processes keep is HourLifecycle's.         *)
(***************************************************************************)

\* A row that claims no success is one of three.
LEMMA OtherRows ==
    ASSUME NEW r \in Row, ~IsIngested(r), r.status # "none"
    PROVE  r = Missing \/ r = Failed
BY SMT DEF Row, Missing, Failed

\* Recording an outcome is one decision of the abstract ledger, or none when the
\* upsert keeps an earlier success.
LEMMA RecordDecides ==
    ASSUME IngestInv, NEW p \in Procs, NEW h \in Hours, Record(p, h)
    PROVE  [Lifecycle!Next]_(Lifecycle!vars)
<1>1. /\ work[p][h] = "recording" /\ row' = [row EXCEPT ![h] = Upsert(row[h], report[p][h])]
      /\ UNCHANGED << clock, published, publishedAt >>
  BY DEF Record, world
<1>2. /\ Justified(h, report[p][h]) /\ report[p][h].status # "none"
      /\ report[p][h] \in Row /\ row \in [Hours -> Row]
  BY <1>1, SMT DEF IngestInv, WorkSound, TypeOK
<1>3. CASE IsIngested(report[p][h])
  <2>1. Upsert(row[h], report[p][h]) = Ingested(published[h]) /\ published[h] \in Contents
    BY <1>2, <1>3 DEF Upsert, Justified
  <2>2. Lifecycle!Ingest(h)
    BY <1>1, <2>1 DEF Lifecycle!Ingest, Lifecycle!Becomes, Lifecycle!Ingested, Ingested
  <2> QED
    BY <2>2 DEF Lifecycle!Next
<1>4. CASE IsIngested(row[h]) /\ ~IsIngested(report[p][h])
  <2>1. row' = row
    BY <1>1, <1>2, <1>4, SMT DEF Upsert
  <2> QED
    BY <1>1, <2>1 DEF Lifecycle!vars
<1>5. CASE ~IsIngested(row[h]) /\ ~IsIngested(report[p][h])
  <2>1. row' = [row EXCEPT ![h] = report[p][h]]
    BY <1>1, <1>5 DEF Upsert
  <2>2. CASE report[p][h] = Missing
    <3>1. WaitedOut(h)
      BY <1>2, <2>2 DEF Justified, Missing
    <3>2. Lifecycle!WriteOff(h)
      BY <1>1, <1>5, <2>1, <2>2, <3>1
         DEF Lifecycle!WriteOff, Lifecycle!Becomes, Lifecycle!IsIngested, Lifecycle!HourEnd,
             Lifecycle!Present, Lifecycle!NoFile, NoFile, Lifecycle!Missing, Missing, WaitedOut
    <3> QED
      BY <3>2 DEF Lifecycle!Next
  <2>3. CASE report[p][h] = Failed
    <3>1. Present(published[h])
      BY <1>2, <2>3 DEF Justified, Failed
    <3>2. Lifecycle!Distrust(h)
      BY <1>1, <1>5, <2>1, <2>3, <3>1
         DEF Lifecycle!Distrust, Lifecycle!Becomes, Lifecycle!IsIngested,
             Lifecycle!Present, Lifecycle!NoFile, NoFile, Lifecycle!Failed, Failed
    <3> QED
      BY <3>2 DEF Lifecycle!Next
  <2> QED
    BY <1>2, <1>5, <2>2, <2>3, OtherRows
<1> QED
  BY <1>3, <1>4, <1>5

\* Every step of the schedulers is a decision of the abstract ledger, a step of
\* its world, or none.
LEMMA StepRefines == IngestInv /\ [Next]_vars => [Lifecycle!Next]_(Lifecycle!vars)
<1> SUFFICES ASSUME IngestInv, [Next]_vars PROVE [Lifecycle!Next]_(Lifecycle!vars)
  OBVIOUS
<1>1. ASSUME UNCHANGED << world, row >> PROVE UNCHANGED Lifecycle!vars
  BY <1>1 DEF Lifecycle!vars, world
<1>2. CASE Tick
  BY <1>2 DEF Tick, Lifecycle!Next, Lifecycle!Tick
<1>3. ASSUME NEW h \in Hours, Publish(h) PROVE Lifecycle!Next
  <2>1. Lifecycle!Publish(h)
    BY <1>3 DEF Publish, Lifecycle!Publish, Lifecycle!HourEnd, Lifecycle!NoFile, NoFile
  <2> QED
    BY <2>1 DEF Lifecycle!Next
<1>4. ASSUME NEW h \in Hours, Damage(h) PROVE UNCHANGED Lifecycle!vars
  BY <1>1, <1>4 DEF Damage
<1>4a. ASSUME NEW h \in Hours, Unlink(h) PROVE UNCHANGED Lifecycle!vars
  BY <1>1, <1>4a DEF Unlink
<1>5. ASSUME NEW p \in Procs, NEW h \in Hours, Ingest(p, h)
      PROVE  [Lifecycle!Next]_(Lifecycle!vars)
  BY <1>1, <1>5, RecordDecides DEF Ingest, Begin, FetchFails, FetchAbsent, Fetch, FetchDies,
                                   Open, Land, LandFails, LandDies, Discard
<1>6. ASSUME NEW p \in Procs, Process(p) PROVE [Lifecycle!Next]_(Lifecycle!vars)
  BY <1>1, <1>5, <1>6 DEF Process, StartPass, EndPass, Crash
<1>7. CASE UNCHANGED vars
  BY <1>1, <1>7 DEF vars
<1> QED
  BY <1>2, <1>3, <1>4, <1>4a, <1>6, <1>7 DEF Next, Environment

LEMMA InitRefines == Init => Lifecycle!Init
BY DEF Init, Lifecycle!Init, Lifecycle!NoFile, NoFile, Lifecycle!NoRow, NoRow

\* In every behaviour the ledger moves as the atomic one does: each claim carries
\* the published counts, each write-off waited out its grace, each failure was
\* published, and nothing takes a success back.
THEOREM Refinement == Spec => ImplementsLifecycle
BY InitRefines, StepRefines, IngestSafe, PTL DEF Spec, ImplementsLifecycle, Lifecycle!Spec

=============================================================================
