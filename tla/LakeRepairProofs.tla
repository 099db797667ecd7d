-------------------------- MODULE LakeRepairProofs --------------------------
(***************************************************************************)
(* Proofs about LakeRepair.  A repair changes two things the schedulers do *)
(* not: it takes claims back, and it runs ingest_hour for itself.  The     *)
(* invariant of HourIngest survives both, so what a row says stays true    *)
(* and the ledger still moves as HourLifecycle allows, strikes included.   *)
(* What a repair calls recovered needs more: that it is the only one.      *)
(***************************************************************************)
EXTENDS LakeRepair, HourIngestProofs

Fix == [step : Steps, claims : SUBSET Hours, seen : [Hours -> Row],
        unbacked : SUBSET Hours, unclearable : SUBSET Hours,
        recovered : SUBSET Hours, unrecovered : SUBSET Hours]

FixTypeOK == fix \in [Repairers -> Fix] /\ struck \subseteq Hours

\* A step of a repair that calls ingest_hour, or is killed, is one of HourIngest.
LEMMA RefetchIsNext == \A r \in Repairers : Refetch(r) => Next
BY DEF Refetch, Next, Process, Procs

LEMMA ElsewhereIsNext == Elsewhere => Next
BY DEF Elsewhere, Next, Procs

LEMMA ForgottenType ==
    ASSUME NEW rows \in [Hours -> Row], NEW hs
    PROVE  /\ Forgotten(rows, hs) \in [Hours -> Row]
           /\ Removed(rows, hs) \subseteq Hours
           /\ \A h \in Hours : Forgotten(rows, hs)[h] \in {rows[h], NoRow}
BY RowForms, SMT DEF Forgotten, Removed, Claims

\* A repair's own steps keep HourIngest's variables in their types.
LEMMA RepairTypeOK == TypeOK /\ [RepairNext]_repairVars => TypeOK'
<1> SUFFICES ASSUME TypeOK, [RepairNext]_repairVars PROVE TypeOK'
  OBVIOUS
<1>1. ASSUME [Next]_vars PROVE TypeOK'
  BY <1>1, NextTypeOK
<1>2. ASSUME NEW r \in Repairers, Forgets(r), UNCHANGED << world, disk, row, crashes >>
      PROVE  TypeOK'
  <2>1. r \in Procs
    BY DEF Procs
  <2>2. pass' \in [Procs -> [running : BOOLEAN, now : 0..MaxClock]]
    BY <1>2, <2>1, IngestAssumption, SMT DEF Forgets, Resting, TypeOK
  <2>3. work' \in [Procs -> [Hours -> Phases]]
    BY <1>2, <2>1, SMT DEF Forgets, NoWork, Phases, TypeOK
  <2>4. report' \in [Procs -> [Hours -> Row]] /\ clash' \subseteq Procs \X Hours
    BY <1>2, <2>1, RowForms, SMT DEF Forgets, NoReport, TypeOK
  <2> QED
    BY <1>2, <2>2, <2>3, <2>4 DEF TypeOK, world, disk
<1>3. ASSUME NEW r \in Repairers, ReadClaims(r) PROVE TypeOK'
  <2>1. r \in Procs
    BY DEF Procs
  <2> QED
    BY <1>3, <2>1, SMT DEF ReadClaims, Schedule, TypeOK, world, disk, Phases
<1>4. ASSUME NEW r \in Repairers, CheckFiles(r) PROVE TypeOK'
  <2>1. CASE Forgets(r)
    BY <1>2, <1>4, <2>1 DEF CheckFiles
  <2>2. CASE ~Forgets(r)
    <3>1. UNCHANGED vars
      BY <1>4, <2>2 DEF CheckFiles, vars, procs
    <3> QED
      BY <1>1, <3>1
  <2> QED
    BY <2>1, <2>2
<1>5. ASSUME NEW r \in Repairers, ForgetClaims(r) PROVE TypeOK'
  <2>1. r \in Procs
    BY DEF Procs
  <2>2. row' \in [Hours -> Row]
    BY <1>5, ForgottenType DEF ForgetClaims, TypeOK
  <2>3. work' \in [Procs -> [Hours -> Phases]]
    BY <1>5, <2>1, SMT DEF ForgetClaims, TypeOK, Phases
  <2> QED
    BY <1>5, <2>2, <2>3 DEF ForgetClaims, TypeOK, world, disk
<1>6. ASSUME NEW r \in Repairers, Repair(r) PROVE TypeOK'
  <2>1. CASE ReadAgain(r)
    BY <1>1, <2>1 DEF ReadAgain
  <2>2. CASE DryRun(r) \/ Reconcile(r)
    BY <1>2, <2>2 DEF DryRun, Reconcile
  <2>3. CASE Refetch(r)
    BY <1>1, <2>3, RefetchIsNext
  <2> QED
    BY <1>3, <1>4, <1>5, <1>6, <2>1, <2>2, <2>3 DEF Repair
<1>7. CASE Elsewhere
  BY <1>1, <1>7, ElsewhereIsNext
<1>8. CASE UNCHANGED repairVars
  BY <1>1, <1>8 DEF repairVars
<1> QED
  BY <1>6, <1>7, <1>8 DEF RepairNext

(***************************************************************************)
(* What a row says is justified, with any number of repairs beside the     *)
(* schedulers: a claim struck leaves no row, and no row says nothing.      *)
(***************************************************************************)
LEMMA StrikeJustified ==
    ASSUME IngestInv, TypeOK', NEW r \in Repairers, ForgetClaims(r)
    PROVE  IngestInv'
<1>1. r \in Procs /\ TypeOK
  BY DEF Procs, IngestInv
<1>2. UNCHANGED << clock, published, publishedAt, source, lake, lost, pass, report >>
  BY DEF ForgetClaims, world, disk
<1>3. \A h \in Hours : Justified(h, row[h])'
  <2>1. \A h \in Hours : row'[h] \in {row[h], NoRow}
    BY <1>1, ForgottenType DEF ForgetClaims, TypeOK
  <2>2. \A h \in Hours : Justified(h, row'[h])
    BY <2>1 DEF IngestInv, Justified, NoRow
  <2> QED
    BY <1>2, <2>2 DEF Justified, Grounded, WaitedOut
<1>4. \A h \in Hours : SourceSound(h)'
  BY <1>2 DEF IngestInv, SourceSound
<1>5. \A p \in Procs : (pass[p].now <= clock)'
  BY <1>2 DEF IngestInv
<1>6. \A p \in Procs, h \in Hours : WorkSound(p, h)'
  <2>1. /\ \A p \in Procs \ {r} : work'[p] = work[p]
        /\ \A h \in Hours : work'[r][h] \in {"queued", "idle"}
    BY <1>1, SMT DEF ForgetClaims, TypeOK
  <2>2. \A h \in Hours : WorkSound(r, h)'
    BY <2>1 DEF WorkSound
  <2>3. \A p \in Procs \ {r}, h \in Hours : WorkSound(p, h)'
    BY <1>2, <2>1 DEF IngestInv, WorkSound, Justified, Grounded, WaitedOut
  <2> QED
    BY <2>2, <2>3
<1> QED
  BY <1>3, <1>4, <1>5, <1>6 DEF IngestInv

LEMMA RepairKeepsInv == IngestInv /\ [RepairNext]_repairVars => IngestInv'
<1> SUFFICES ASSUME IngestInv, [RepairNext]_repairVars PROVE IngestInv'
  OBVIOUS
<1>0. TypeOK /\ TypeOK' /\ Repairers \subseteq Procs
  BY RepairTypeOK DEF IngestInv, Procs
<1>1. ASSUME [Next]_vars PROVE IngestInv'
  BY <1>1, NextInv
<1>2. ASSUME NEW r \in Repairers, Forgets(r), UNCHANGED << world, disk, row >>
      PROVE  IngestInv'
  <2>1. Moves
    BY <1>0, <1>2, SMT DEF Moves, world, disk, TypeOK
  <2>2. \A h \in Hours : SourceSound(h)'
    BY <1>0, <1>2, <2>1, Untouched DEF disk
  <2> QED
    BY <1>0, <1>2, <2>1, <2>2, Forgetting
<1>3. ASSUME NEW r \in Repairers, Repair(r) PROVE IngestInv'
  <2>1. CASE ReadClaims(r)
    BY <1>0, <2>1, Scheduling DEF ReadClaims
  <2>2. CASE ReadAgain(r)
    BY <1>1, <2>2 DEF ReadAgain
  <2>3. CASE CheckFiles(r)
    <3>1. CASE Forgets(r)
      BY <1>2, <2>3, <3>1 DEF CheckFiles
    <3>2. CASE ~Forgets(r)
      <4>1. UNCHANGED vars
        BY <2>3, <3>2 DEF CheckFiles, vars, procs
      <4> QED
        BY <1>1, <4>1
    <3> QED
      BY <3>1, <3>2
  <2>4. CASE DryRun(r) \/ Reconcile(r)
    BY <1>2, <2>4 DEF DryRun, Reconcile
  <2>5. CASE ForgetClaims(r)
    BY <1>0, <2>5, StrikeJustified
  <2>6. CASE Refetch(r)
    BY <1>1, <2>6, RefetchIsNext
  <2> QED
    BY <1>3, <2>1, <2>2, <2>3, <2>4, <2>5, <2>6 DEF Repair
<1>4. CASE Elsewhere
  BY <1>1, <1>4, ElsewhereIsNext
<1>5. CASE UNCHANGED repairVars
  BY <1>1, <1>5 DEF repairVars
<1> QED
  BY <1>3, <1>4, <1>5 DEF RepairNext

\* In every behaviour of schedulers and repairs every row, source and report is
\* justified by what was published.
THEOREM RepairSafe == RepairSpec => []IngestInv
<1>1. RepairInit => IngestInv
  BY InitInv DEF RepairInit
<1> QED
  BY <1>1, RepairKeepsInv, PTL DEF RepairSpec

\* However many repairs run beside however many schedulers, a row that claims
\* success describes the file in the lake, unless that was damaged since.
THEOREM RepairsKeepClaimsTrue == RepairSpec => []EveryFalseClaimIsALoss
<1>1. IngestInv => EveryFalseClaimIsALoss
  BY InvBacksClaims
<1> QED
  BY <1>1, RepairSafe, PTL

\* Striking claims is one decision of the abstract ledger.
LEMMA StrikeRefines ==
    ASSUME NEW r \in Repairers, ForgetClaims(r)
    PROVE  Lifecycle!Strike
<1> DEFINE hs == Removed(row, fix[r].unbacked)
<1>1. hs \in SUBSET Lifecycle!Claims(row)
  BY DEF Removed, Claims, Lifecycle!Claims, IsIngested, Lifecycle!IsIngested
<1>2. row' = Lifecycle!Forgotten(row, hs)
  BY DEF ForgetClaims, Forgotten, Removed, Claims, IsIngested, NoRow, NoFile,
         Lifecycle!Forgotten, Lifecycle!Removed, Lifecycle!Claims, Lifecycle!IsIngested,
         Lifecycle!NoRow, Lifecycle!NoFile
<1>3. Repairers # {} /\ UNCHANGED << clock, published, publishedAt >>
  BY DEF ForgetClaims, world
<1> QED
  BY <1>1, <1>2, <1>3 DEF Lifecycle!Strike

\* In every behaviour of schedulers and repairs the ledger moves as the atomic one
\* does, and the claims a repair takes back are the only successes that are lost.
THEOREM RepairRefinement == RepairSpec => ImplementsLifecycle
<1>1. RepairInit => Lifecycle!Init
  BY InitRefines DEF RepairInit
<1>2. IngestInv /\ [RepairNext]_repairVars => [Lifecycle!Next]_(Lifecycle!vars)
  <2> SUFFICES ASSUME IngestInv, [RepairNext]_repairVars
               PROVE  [Lifecycle!Next]_(Lifecycle!vars)
    OBVIOUS
  <2>1. ASSUME [Next]_vars PROVE [Lifecycle!Next]_(Lifecycle!vars)
    BY <2>1, StepRefines
  <2>2. ASSUME UNCHANGED << world, row >> PROVE [Lifecycle!Next]_(Lifecycle!vars)
    BY <2>2 DEF Lifecycle!vars, world
  <2>3. ASSUME NEW r \in Repairers, Repair(r) PROVE [Lifecycle!Next]_(Lifecycle!vars)
    <3>1. CASE ForgetClaims(r)
      BY <3>1, StrikeRefines DEF Lifecycle!Next
    <3>2. CASE Refetch(r)
      BY <2>1, <3>2, RefetchIsNext
    <3>3. CASE ReadClaims(r) \/ ReadAgain(r) \/ CheckFiles(r) \/ DryRun(r) \/ Reconcile(r)
      BY <2>2, <3>3 DEF ReadClaims, ReadAgain, CheckFiles, DryRun, Reconcile, vars
    <3> QED
      BY <2>3, <3>1, <3>2, <3>3 DEF Repair
  <2>4. CASE Elsewhere
    BY <2>1, <2>4, ElsewhereIsNext
  <2>5. CASE UNCHANGED repairVars
    BY <2>1, <2>5 DEF repairVars
  <2> QED
    BY <2>3, <2>4, <2>5 DEF RepairNext
<1> QED
  BY <1>1, <1>2, RepairSafe, PTL DEF RepairSpec, ImplementsLifecycle, Lifecycle!Spec

(***************************************************************************)
(* What a repair calls recovered.  It judges an hour by the report of its  *)
(* own ingest_hour, recorded before; only another repair could have taken  *)
(* the claim back since, so the theorem is about one repair at a time.     *)
(***************************************************************************)

Sole == \A r, s \in Repairers : r = s

\* How the repair, its pass and its reports agree.
Following(r) ==
    /\ fix[r].step \notin {"idle", "done"} => pass[r].running
    /\ fix[r].step # "refetching" =>
          \A h \in Hours : work[r][h] = "idle" /\ report[r][h] = NoRow

Refetching(r, h) ==
    /\ work[r][h] # "discarding"
    /\ work[r][h] \in {"idle", "queued", "fetching", "fetched"} => report[r][h] = NoRow
    /\ work[r][h] = "done" /\ IsIngested(report[r][h]) => IsIngested(row[h])

Recovered(r) ==
    /\ fix[r].recovered # {} => fix[r].step = "done"
    /\ \A h \in fix[r].recovered : IsIngested(row[h])

FixInv ==
    /\ FixTypeOK
    /\ \A r \in Repairers : Following(r) /\ Recovered(r)
    /\ \A r \in Repairers, h \in Hours : Refetching(r, h)

\* A repair's record of itself keeps its type, field by field.
LEMMA FixFields ==
    ASSUME NEW f \in Fix, NEW s \in Steps, NEW hs \in SUBSET Hours, NEW rows \in [Hours -> Row]
    PROVE  /\ [f EXCEPT !.step = s] \in Fix /\ [f EXCEPT !.claims = hs] \in Fix
           /\ [f EXCEPT !.seen = rows] \in Fix /\ [f EXCEPT !.unbacked = hs] \in Fix
           /\ [f EXCEPT !.unclearable = hs] \in Fix /\ [f EXCEPT !.recovered = hs] \in Fix
           /\ [f EXCEPT !.unrecovered = hs] \in Fix
<1>1. [f EXCEPT !.step = s] \in Fix
  BY SMT DEF Fix
<1>2. [f EXCEPT !.claims = hs] \in Fix
  BY SMT DEF Fix
<1>3. [f EXCEPT !.seen = rows] \in Fix
  BY SMT DEF Fix
<1>4. [f EXCEPT !.unbacked = hs] \in Fix
  BY SMT DEF Fix
<1>5. [f EXCEPT !.unclearable = hs] \in Fix
  BY SMT DEF Fix
<1>6. [f EXCEPT !.recovered = hs] \in Fix
  BY SMT DEF Fix
<1>7. [f EXCEPT !.unrecovered = hs] \in Fix
  BY SMT DEF Fix
<1> QED
  BY <1>1, <1>2, <1>3, <1>4, <1>5, <1>6, <1>7

LEMMA NoFixType == NoFix \in Fix /\ NoReport \in [Hours -> Row]
BY RowForms DEF NoFix, NoReport, Steps, Fix

\* What each step of a repair writes of itself.
LEMMA FixSteps ==
    ASSUME TypeOK, FixTypeOK, NEW r \in Repairers
    PROVE  /\ ReadClaims(r) => fix'[r] = [NoFix EXCEPT !.step = "claimed", !.claims = Claims(row)]
           /\ ReadAgain(r) => fix'[r] = [fix[r] EXCEPT !.step = "read", !.seen = row]
           /\ CheckFiles(r) =>
                \E bad \in SUBSET Hours, step \in {"done", "checked"} :
                    /\ fix'[r] = [fix[r] EXCEPT !.step = step, !.unbacked = bad, !.seen = NoReport]
                    /\ step = "done" => Forgets(r)
                    /\ step = "checked" => UNCHANGED << pass, work, report >>
           /\ DryRun(r) => fix'[r] = NoFix
           /\ ForgetClaims(r) =>
                \E hs \in SUBSET Hours :
                    fix'[r] = [fix[r] EXCEPT !.step = "refetching", !.unclearable = hs]
           /\ Reconcile(r) =>
                \/ fix'[r] = NoFix
                \/ LET back == { h \in Refetched(r) : IsIngested(report[r][h]) } IN
                   fix'[r] = [fix[r] EXCEPT !.step = "done", !.recovered = back,
                                            !.unrecovered = Refetched(r) \ back]
           /\ Refetch(r) => fix'[r] = IF pass'[r].running THEN fix[r] ELSE NoFix
           /\ Repair(r) => /\ fix' = [q \in Repairers |-> fix'[q]]
                           /\ \A q \in Repairers : q # r => fix'[q] = fix[q]
<1> USE DEF FixTypeOK
<1>1. ReadClaims(r) => fix'[r] = [NoFix EXCEPT !.step = "claimed", !.claims = Claims(row)]
  BY SMT DEF ReadClaims
<1>2. ReadAgain(r) => fix'[r] = [fix[r] EXCEPT !.step = "read", !.seen = row]
  BY SMT DEF ReadAgain
<1>3. ASSUME CheckFiles(r)
      PROVE  \E bad \in SUBSET Hours, step \in {"done", "checked"} :
                /\ fix' = [fix EXCEPT ![r].step = step, ![r].unbacked = bad, ![r].seen = NoReport]
                /\ fix'[r] = [fix[r] EXCEPT !.step = step, !.unbacked = bad, !.seen = NoReport]
                /\ step = "done" => Forgets(r)
                /\ step = "checked" => UNCHANGED << pass, work, report >>
  <2> DEFINE bad == Unbacked(fix[r].seen, lake)
             step == IF bad = {} THEN "done" ELSE "checked"
  <2>1. bad \in SUBSET Hours
    BY DEF Unbacked, Claims
  <2>2. fix' = [fix EXCEPT ![r].step = step, ![r].unbacked = bad, ![r].seen = NoReport]
    BY <1>3 DEF CheckFiles
  <2>3. /\ step \in {"done", "checked"}
        /\ step = "done" => Forgets(r)
        /\ step = "checked" => UNCHANGED << pass, work, report >>
    BY <1>3 DEF CheckFiles
  <2> HIDE DEF bad, step
  <2>4. fix'[r] = [fix[r] EXCEPT !.step = step, !.unbacked = bad, !.seen = NoReport]
    BY <2>2, SMT
  <2> QED
    BY <2>1, <2>2, <2>3, <2>4
<1>4. DryRun(r) => fix'[r] = NoFix
  BY SMT DEF DryRun
<1>5. ASSUME ForgetClaims(r)
      PROVE  \E hs \in SUBSET Hours :
                fix'[r] = [fix[r] EXCEPT !.step = "refetching", !.unclearable = hs]
  <2> DEFINE hs == fix[r].unbacked \ Removed(row, fix[r].unbacked)
  <2>1. hs \in SUBSET Hours
    BY DEF Fix
  <2>2. fix' = [fix EXCEPT ![r].step = "refetching", ![r].unclearable = hs]
    BY <1>5 DEF ForgetClaims
  <2> HIDE DEF hs
  <2>3. fix'[r] = [fix[r] EXCEPT !.step = "refetching", !.unclearable = hs]
    BY <2>2, SMT
  <2> QED
    BY <2>1, <2>3
<1>6. ASSUME Reconcile(r)
      PROVE  \/ fix'[r] = NoFix
             \/ LET back == { h \in Refetched(r) : IsIngested(report[r][h]) } IN
                fix'[r] = [fix[r] EXCEPT !.step = "done", !.recovered = back,
                                         !.unrecovered = Refetched(r) \ back]
  BY <1>6, SMT DEF Reconcile
<1>7. Refetch(r) => fix'[r] = IF pass'[r].running THEN fix[r] ELSE NoFix
  BY SMT DEF Refetch
<1>8. ASSUME Repair(r)
      PROVE  /\ fix' = [q \in Repairers |-> fix'[q]]
             /\ \A q \in Repairers : q # r => fix'[q] = fix[q]
  <2>1. CASE CheckFiles(r)
    <3>1. PICK bad \in SUBSET Hours, step \in {"done", "checked"} :
             /\ fix' = [fix EXCEPT ![r].step = step, ![r].unbacked = bad, ![r].seen = NoReport]
             /\ fix'[r] = [fix[r] EXCEPT !.step = step, !.unbacked = bad, !.seen = NoReport]
             /\ step = "done" => Forgets(r)
             /\ step = "checked" => UNCHANGED << pass, work, report >>
      BY <1>3, <2>1
    <3>2. fix' = [q \in Repairers |-> fix'[q]]
      BY <3>1, Zenon
    <3>3. \A q \in Repairers : q # r => fix'[q] = fix[q]
      BY <3>1, SMT
    <3> QED
      BY <3>2, <3>3
  <2>2. CASE ~CheckFiles(r)
    BY <1>8, <2>2, SMT DEF Repair, ReadClaims, ReadAgain, DryRun, ForgetClaims, Reconcile, Refetch
  <2> QED
    BY <2>1, <2>2
<1> QED
  BY <1>1, <1>2, <1>3, <1>4, <1>5, <1>6, <1>7, <1>8

LEMMA FixTypeKept == TypeOK /\ FixTypeOK /\ [RepairNext]_repairVars => FixTypeOK'
<1> SUFFICES ASSUME TypeOK, FixTypeOK, [RepairNext]_repairVars PROVE FixTypeOK'
  OBVIOUS
<1>1. ASSUME UNCHANGED << fix, struck >> PROVE FixTypeOK'
  BY <1>1 DEF FixTypeOK
<1>2. ASSUME NEW r \in Repairers, Repair(r) PROVE FixTypeOK'
  <2>1. struck' \subseteq Hours
    BY <1>2 DEF Repair, ReadClaims, ReadAgain, CheckFiles, DryRun, ForgetClaims, Reconcile,
                Refetch, Removed, Claims, FixTypeOK
  <2>2. fix[r] \in Fix
    BY DEF FixTypeOK
  <2>3. fix'[r] \in Fix
    <3>1. {"claimed", "read", "done", "checked", "refetching"} \subseteq Steps
      BY DEF Steps
    <3>2. CASE ReadClaims(r)
      <4>1. Claims(row) \in SUBSET Hours
        BY DEF Claims
      <4>2. [[NoFix EXCEPT !.step = "claimed"] EXCEPT !.claims = Claims(row)] \in Fix
        BY <3>1, <4>1, NoFixType, FixFields
      <4>3. fix'[r] = [[NoFix EXCEPT !.step = "claimed"] EXCEPT !.claims = Claims(row)]
        BY <3>2, FixSteps
      <4> QED
        BY <4>2, <4>3
    <3>3. CASE ReadAgain(r)
      <4>1. row \in [Hours -> Row]
        BY DEF TypeOK
      <4>2. [[fix[r] EXCEPT !.step = "read"] EXCEPT !.seen = row] \in Fix
        BY <2>2, <3>1, <4>1, FixFields
      <4>3. fix'[r] = [[fix[r] EXCEPT !.step = "read"] EXCEPT !.seen = row]
        BY <3>3, FixSteps
      <4> QED
        BY <4>2, <4>3
    <3>4. CASE CheckFiles(r)
      <4>1. PICK bad \in SUBSET Hours, step \in {"done", "checked"} :
               /\ fix'[r] = [fix[r] EXCEPT !.step = step, !.unbacked = bad, !.seen = NoReport]
               /\ step = "done" => Forgets(r)
               /\ step = "checked" => UNCHANGED << pass, work, report >>
        BY <3>4, FixSteps
      <4>2. [[[fix[r] EXCEPT !.step = step] EXCEPT !.unbacked = bad] EXCEPT !.seen = NoReport] \in Fix
        BY <2>2, <3>1, NoFixType, FixFields
      <4> QED
        BY <4>1, <4>2
    <3>5. CASE DryRun(r)
      BY <3>5, FixSteps, NoFixType
    <3>6. CASE ForgetClaims(r)
      <4>1. PICK hs \in SUBSET Hours :
               fix'[r] = [fix[r] EXCEPT !.step = "refetching", !.unclearable = hs]
        BY <3>6, FixSteps
      <4>2. [[fix[r] EXCEPT !.step = "refetching"] EXCEPT !.unclearable = hs] \in Fix
        BY <2>2, <3>1, NoFixType, FixFields
      <4> QED
        BY <4>1, <4>2
    <3>7. CASE Reconcile(r)
      <4> DEFINE back == { h \in Refetched(r) : IsIngested(report[r][h]) }
                 rest == Refetched(r) \ back
      <4>1. back \in SUBSET Hours /\ rest \in SUBSET Hours
        BY DEF Refetched
      <4>2. \/ fix'[r] = NoFix
            \/ fix'[r] = [fix[r] EXCEPT !.step = "done", !.recovered = back, !.unrecovered = rest]
        BY <3>7, FixSteps
      <4> HIDE DEF back, rest
      <4>3. [[[fix[r] EXCEPT !.step = "done"] EXCEPT !.recovered = back] EXCEPT !.unrecovered = rest] \in Fix
        BY <2>2, <3>1, <4>1, NoFixType, FixFields
      <4> QED
        BY <4>2, <4>3, NoFixType
    <3>8. CASE Refetch(r)
      BY <2>2, <3>8, FixSteps, NoFixType
    <3> QED
      BY <1>2, <3>2, <3>3, <3>4, <3>5, <3>6, <3>7, <3>8 DEF Repair
  <2> QED
    BY <1>2, <2>1, <2>2, <2>3, FixSteps DEF FixTypeOK
<1>3. CASE Elsewhere
  BY <1>1, <1>3 DEF Elsewhere
<1>4. CASE UNCHANGED repairVars
  BY <1>1, <1>4 DEF repairVars
<1> QED
  BY <1>2, <1>3, <1>4 DEF RepairNext

\* A step of one process leaves the others where they are.
LEMMA OthersRest ==
    ASSUME TypeOK, NEW p \in Procs, NEW q \in Procs, p # q, Process(p)
    PROVE  work'[q] = work[q] /\ report'[q] = report[q] /\ pass'[q] = pass[q]
<1>1. ASSUME Forgets(p) PROVE work'[q] = work[q] /\ report'[q] = report[q] /\ pass'[q] = pass[q]
  BY <1>1, SMT DEF Forgets, TypeOK
<1>2. ASSUME NEW hs, Schedule(p, hs)
      PROVE  work'[q] = work[q] /\ report'[q] = report[q] /\ pass'[q] = pass[q]
  BY <1>2, SMT DEF Schedule, TypeOK
<1>3. ASSUME NEW h \in Hours, NEW phase, Goto(p, h, phase),
             report' = report \/ \E r : Reports(p, h, r)
      PROVE  work'[q] = work[q] /\ report'[q] = report[q] /\ pass'[q] = pass[q]
  BY <1>3, GotoFrame, ReportFrame
<1>4. ASSUME NEW h \in Hours, Ingest(p, h)
      PROVE  Forgets(p) \/ \E phase : /\ Goto(p, h, phase)
                                      /\ report' = report \/ \E r : Reports(p, h, r)
  BY <1>4 DEF Ingest, Begin, FetchFails, FetchAbsent, Fetch, FetchDies, Open, Land, LandFails,
              LandDies, Record, Discard, Staging, LeaveStaging
<1> QED
  BY <1>1, <1>2, <1>3, <1>4 DEF Process, StartPass, EndPass, Crash
\* Claims the repair has no part in stay claims.
LEMMA FixUntouched ==
    ASSUME FixInv, NEW r \in Repairers, fix'[r] = fix[r], pass'[r] = pass[r],
           work'[r] = work[r], report'[r] = report[r],
           \A h \in Hours : IsIngested(row[h]) => IsIngested(row'[h])
    PROVE  Following(r)' /\ Recovered(r)' /\ \A h \in Hours : Refetching(r, h)'
<1>1. fix[r].recovered \subseteq Hours
  BY SMT DEF FixInv, FixTypeOK, Fix
<1>2. Following(r)'
  BY DEF FixInv, Following
<1>3. Recovered(r)'
  BY <1>1 DEF FixInv, Recovered
<1>4. \A h \in Hours : Refetching(r, h)'
  BY DEF FixInv, Refetching
<1> QED
  BY <1>2, <1>3, <1>4

\* A repair that carries nothing, in a step where it may not run at all.
LEMMA AtRest ==
    ASSUME NEW r \in Repairers,
           \A h \in Hours : work'[r][h] = "idle" /\ report'[r][h] = NoRow,
           fix'[r].step \notin {"idle", "done"} => pass'[r].running,
           fix'[r].step # "refetching",
           fix'[r].recovered # {} => fix'[r].step = "done",
           \A h \in fix'[r].recovered : IsIngested(row'[h])
    PROVE  Following(r)' /\ Recovered(r)' /\ \A h \in Hours : Refetching(r, h)'
BY DEF Following, Recovered, Refetching

\* One step of ingest_hour on behalf of the repair.
LEMMA RefetchingKept ==
    ASSUME TypeOK, FixInv, NEW r \in Repairers, NEW h \in Hours, Ingest(r, h)
    PROVE  \/ Forgets(r)
           \/ /\ pass' = pass /\ pass[r].running /\ fix[r].step = "refetching"
              /\ \A g \in Hours : Refetching(r, g)'
<1>0. r \in Procs /\ [Next]_vars /\ KeepsSource(r)
  BY DEF Procs, Next, Process, KeepsSource
<1>1. work[r][h] # "idle"
  BY DEF Ingest, Begin, FetchFails, FetchAbsent, Fetch, FetchDies, Open, Land, LandFails,
         LandDies, Record, Discard
<1>2. fix[r].step = "refetching" /\ pass[r].running
  BY <1>1 DEF FixInv, Following
<1>3. \A g \in Hours : IsIngested(row[g]) => IsIngested(row'[g])
  BY <1>0, SuccessKept
<1>4. ASSUME NEW phase, Goto(r, h, phase), report' = report \/ \E x : Reports(r, h, x),
             Refetching(r, h)'
      PROVE  /\ pass' = pass
             /\ \A g \in Hours : Refetching(r, g)'
  <2>1. \A g \in Hours \ {h} : work'[r][g] = work[r][g] /\ report'[r][g] = report[r][g]
    BY <1>0, <1>4, GotoFrame, ReportFrame
  <2>2. \A g \in Hours \ {h} : Refetching(r, g)'
    BY <1>3, <2>1 DEF FixInv, Refetching
  <2> QED
    BY <1>4, <2>2 DEF Goto
<1>5. ASSUME NEW phase \in {"fetching", "fetched", "done"}, Goto(r, h, phase), report' = report,
             work[r][h] \in {"queued", "fetching"}
      PROVE  pass' = pass /\ \A g \in Hours : Refetching(r, g)'
  <2>1. work'[r][h] = phase /\ report'[r][h] = NoRow
    BY <1>0, <1>5, GotoFrame DEF FixInv, Refetching
  <2>2. Refetching(r, h)'
    BY <1>5, <2>1 DEF Refetching, IsIngested, NoRow
  <2> QED
    BY <1>4, <1>5, <2>2
<1>6. ASSUME NEW phase \in {"converting", "recording"}, Goto(r, h, phase),
             report' = report \/ \E x : Reports(r, h, x)
      PROVE  pass' = pass /\ \A g \in Hours : Refetching(r, g)'
  <2>1. Refetching(r, h)'
    BY <1>0, <1>6, GotoFrame DEF Refetching
  <2> QED
    BY <1>4, <1>6, <2>1
<1>7. CASE Begin(r, h)
  <2>1. \E phase \in {"fetching", "fetched"} : Goto(r, h, phase)
    BY <1>7 DEF Begin, Staging
  <2> QED
    BY <1>2, <1>5, <1>7, <2>1 DEF Begin
<1>8. CASE FetchFails(r, h) \/ Fetch(r, h)
  BY <1>2, <1>5, <1>8 DEF FetchFails, Fetch, LeaveStaging
<1>9. CASE FetchAbsent(r, h)
  <2>1. CASE pass[r].now - HourEnd(h) < Grace
    BY <1>2, <1>5, <1>9, <2>1 DEF FetchAbsent, LeaveStaging
  <2>2. CASE ~(pass[r].now - HourEnd(h) < Grace)
    BY <1>2, <1>6, <1>9, <2>2 DEF FetchAbsent, LeaveStaging
  <2> QED
    BY <2>1, <2>2
<1>10. CASE Open(r, h) \/ Land(r, h) \/ LandFails(r, h)
  BY <1>2, <1>6, <1>10 DEF Open, Land, LandFails, Staging, LeaveStaging
<1>11. CASE FetchDies(r, h) \/ LandDies(r, h)
  BY <1>11 DEF FetchDies, LandDies
<1>12. CASE Record(r, h)
  <2>1. Goto(r, h, "done") /\ report' = report
    BY <1>0, <1>12 DEF Record
  <2>2. row'[h] = Upsert(row[h], report[r][h])
    BY <1>12, SMT DEF Record, TypeOK
  <2>3. Refetching(r, h)'
    BY <1>0, <2>1, <2>2, GotoFrame DEF Refetching, Upsert
  <2> QED
    BY <1>2, <1>4, <2>1, <2>3
<1>13. CASE Discard(r, h)
  BY <1>13 DEF Discard, FixInv, Refetching
<1> QED
  BY <1>7, <1>8, <1>9, <1>10, <1>11, <1>12, <1>13 DEF Ingest
LEMMA FixKept == Sole /\ TypeOK /\ FixInv /\ [RepairNext]_repairVars => FixInv'
<1> SUFFICES ASSUME Sole, TypeOK, FixInv, [RepairNext]_repairVars PROVE FixInv'
  OBVIOUS
<1> DEFINE Kept(r) == Following(r)' /\ Recovered(r)' /\ \A h \in Hours : Refetching(r, h)'
<1>0. FixTypeOK' /\ FixTypeOK
  BY FixTypeKept DEF FixInv
<1>1. ASSUME \A r \in Repairers : Kept(r) PROVE FixInv'
  BY <1>0, <1>1 DEF FixInv
<1>2. ASSUME NEW r \in Repairers, Kept(r) PROVE FixInv'
  BY <1>1, <1>2 DEF Sole
<1> HIDE DEF Kept
<1>3. ASSUME NEW r \in Repairers, Repair(r) PROVE Kept(r)
  <2>0. r \in Procs /\ fix[r] \in Fix /\ fix'[r] \in Fix
    BY <1>0 DEF Procs, FixTypeOK
  <2>1. ASSUME \A h \in Hours : work'[r][h] = "idle" /\ report'[r][h] = NoRow,
               fix'[r].step \notin {"idle", "done"} => pass'[r].running,
               fix'[r].step # "refetching", fix'[r].recovered = {}
        PROVE  Kept(r)
    BY <2>1, AtRest DEF Kept
  <2>2. NoFix.step = "idle" /\ NoFix.recovered = {}
    BY DEF NoFix
  <2>3. ASSUME Forgets(r), fix'[r] = NoFix PROVE Kept(r)
    BY <2>0, <2>1, <2>2, <2>3, ForgetsFrame
  <2>4. fix[r].step # "refetching" => \A h \in Hours : work[r][h] = "idle" /\ report[r][h] = NoRow
    BY DEF FixInv, Following
  <2>5. fix[r].step # "done" => fix[r].recovered = {}
    BY DEF FixInv, Recovered
  <2>6. CASE ReadClaims(r)
    <3>1. fix'[r].step = "claimed" /\ fix'[r].recovered = {}
      <4>1. fix'[r] = [NoFix EXCEPT !.step = "claimed", !.claims = Claims(row)]
        BY <2>6, <1>0, FixSteps
      <4> QED
        BY <4>1, SMT DEF NoFix
    <3>2. pass'[r].running /\ report' = report /\ \A h \in Hours : work'[r][h] = "idle"
      BY <2>0, <2>6, SMT DEF ReadClaims, Schedule, TypeOK
    <3>3. fix[r].step # "refetching"
      BY <2>6 DEF ReadClaims
    <3> QED
      BY <2>1, <2>4, <3>1, <3>2, <3>3
  <2>7. CASE ReadAgain(r)
    <3>1. fix[r].step = "claimed" /\ UNCHANGED << pass, work, report >>
      BY <2>7 DEF ReadAgain, vars, procs
    <3>2. fix'[r].step = "read" /\ fix'[r].recovered = fix[r].recovered
      <4>1. fix'[r] = [fix[r] EXCEPT !.step = "read", !.seen = row]
        BY <2>7, <1>0, FixSteps
      <4> QED
        BY <2>0, <4>1, SMT DEF Fix
    <3>3. pass[r].running
      BY <3>1 DEF FixInv, Following
    <3> QED
      BY <2>1, <2>4, <2>5, <3>1, <3>2, <3>3
  <2>8. CASE CheckFiles(r)
    <3>1. fix[r].step = "read"
      BY <2>8 DEF CheckFiles
    <3>2. PICK bad \in SUBSET Hours, step \in {"done", "checked"} :
             /\ fix'[r] = [fix[r] EXCEPT !.step = step, !.unbacked = bad, !.seen = NoReport]
             /\ step = "done" => Forgets(r)
             /\ step = "checked" => UNCHANGED << pass, work, report >>
      BY <2>8, <1>0, FixSteps
    <3>3. fix'[r].step = step /\ fix'[r].recovered = fix[r].recovered
      BY <2>0, <3>2, SMT DEF Fix
    <3>4. pass[r].running
      BY <3>1 DEF FixInv, Following
    <3>5. \A h \in Hours : work'[r][h] = "idle" /\ report'[r][h] = NoRow
      BY <2>0, <2>4, <3>1, <3>2, ForgetsFrame
    <3>6. step = "checked" => pass'[r].running
      BY <3>2, <3>4
    <3> QED
      BY <2>1, <2>5, <3>1, <3>3, <3>5, <3>6
  <2>9. CASE DryRun(r)
    BY <2>3, <2>9, <1>0, FixSteps DEF DryRun
  <2>10. CASE ForgetClaims(r)
    <3>1. fix[r].step = "checked"
      BY <2>10 DEF ForgetClaims
    <3>2. PICK hs \in SUBSET Hours :
             fix'[r] = [fix[r] EXCEPT !.step = "refetching", !.unclearable = hs]
      BY <2>10, <1>0, FixSteps
    <3>3. fix'[r].step = "refetching" /\ fix'[r].recovered = fix[r].recovered
      BY <2>0, <3>2, SMT DEF Fix
    <3>4. pass[r].running
      BY <3>1 DEF FixInv, Following
    <3>5. /\ UNCHANGED << pass, report >>
          /\ \A h \in Hours : work'[r][h] \in {"queued", "idle"}
      BY <2>0, <2>10, SMT DEF ForgetClaims, TypeOK
    <3>6. \A h \in Hours : report'[r][h] = NoRow
      BY <2>4, <3>1, <3>5
    <3>7. Following(r)' /\ Recovered(r)'
      BY <2>5, <3>1, <3>3, <3>4, <3>5 DEF Following, Recovered
    <3>8. \A h \in Hours : Refetching(r, h)'
      BY <3>5, <3>6 DEF Refetching
    <3> QED
      BY <3>7, <3>8 DEF Kept
  <2>11. CASE Reconcile(r)
    <3> DEFINE back == { h \in Refetched(r) : IsIngested(report[r][h]) }
               rest == Refetched(r) \ back
    <3>1. Forgets(r) /\ row' = row
      BY <2>11 DEF Reconcile
    <3>2. \A h \in back : IsIngested(row[h])
      BY DEF Refetched, FixInv, Refetching
    <3>3. \/ fix'[r] = NoFix
          \/ fix'[r] = [fix[r] EXCEPT !.step = "done", !.recovered = back, !.unrecovered = rest]
      BY <2>11, <1>0, FixSteps
    <3> HIDE DEF back, rest
    <3>4. CASE fix'[r] = [fix[r] EXCEPT !.step = "done", !.recovered = back, !.unrecovered = rest]
      <4>1. fix'[r].step = "done" /\ fix'[r].recovered = back
        BY <2>0, <3>4, SMT DEF Fix
      <4>2. \A h \in Hours : work'[r][h] = "idle" /\ report'[r][h] = NoRow
        BY <2>0, <3>1, ForgetsFrame
      <4> QED
        BY <3>1, <3>2, <4>1, <4>2, AtRest DEF Kept
    <3> QED
      BY <2>3, <3>1, <3>3, <3>4
  <2>12. CASE Refetch(r)
    <3>1. fix'[r] = IF pass'[r].running THEN fix[r] ELSE NoFix
      BY <2>12, <1>0, FixSteps
    <3>2. ASSUME Forgets(r) PROVE Kept(r)
      <4>1. ~pass'[r].running
        BY <2>0, <3>2, SMT DEF Forgets, TypeOK, Resting
      <4> QED
        BY <2>3, <3>1, <3>2, <4>1
    <3>3. CASE Crash(r)
      BY <3>2, <3>3 DEF Crash
    <3>4. ASSUME NEW h \in Hours, Ingest(r, h), ~Forgets(r) PROVE Kept(r)
      <4>1. /\ pass' = pass /\ pass[r].running /\ fix[r].step = "refetching"
            /\ \A g \in Hours : Refetching(r, g)'
        BY <3>4, RefetchingKept
      <4>2. fix'[r] = fix[r]
        BY <3>1, <4>1
      <4>3. fix[r].recovered = {}
        BY <2>5, <4>1
      <4> QED
        BY <4>1, <4>2, <4>3 DEF Kept, Following, Recovered
    <3> QED
      BY <2>12, <3>2, <3>3, <3>4 DEF Refetch
  <2> QED
    BY <1>3, <2>6, <2>7, <2>8, <2>9, <2>10, <2>11, <2>12 DEF Repair
<1>4. CASE Elsewhere
  <2>1. \A g \in Hours : IsIngested(row[g]) => IsIngested(row'[g])
    BY <1>4, ElsewhereIsNext, SuccessKept
  <2>2. ASSUME NEW r \in Repairers
        PROVE  fix'[r] = fix[r] /\ pass'[r] = pass[r] /\ work'[r] = work[r] /\ report'[r] = report[r]
    <3>1. fix' = fix
      BY <1>4 DEF Elsewhere
    <3>2. CASE Environment
      BY <3>1, <3>2 DEF Environment, Tick, Publish, Damage, Unlink, procs
    <3>3. ASSUME NEW p \in Loops \cup Ranges, Process(p)
          PROVE  pass'[r] = pass[r] /\ work'[r] = work[r] /\ report'[r] = report[r]
      <4>1. p \in Procs /\ r \in Procs /\ p # r
        BY IngestAssumption DEF Procs
      <4> QED
        BY <3>3, <4>1, OthersRest
    <3> QED
      BY <1>4, <3>1, <3>2, <3>3 DEF Elsewhere
  <2> QED
    BY <1>1, <2>1, <2>2, FixUntouched DEF Kept
<1>5. CASE UNCHANGED repairVars
  BY <1>1, <1>5, FixUntouched DEF repairVars, vars, procs, Kept
<1> QED
  BY <1>2, <1>3, <1>4, <1>5 DEF RepairNext

\* With one repair at a time, an hour it calls recovered claims success again and
\* passes the check it was repaired against, whatever the schedulers do beside it,
\* unless its file was damaged once more.  Counting rows sees no hour that has
\* none, so with CheckCounts the theorem is about hours with events.
THEOREM RecoveryIsReal ==
    ASSUME Sole, CheckCounts => \A c \in Contents : c.events > 0
    PROVE  RepairSpec => []RecoveredIsBacked
<1>1. RepairInit => FixInv
  <2> SUFFICES ASSUME RepairInit PROVE FixInv
    OBVIOUS
  <2>1. FixTypeOK
    BY NoFixType DEF RepairInit, FixTypeOK
  <2>2. ASSUME NEW r \in Repairers
        PROVE  /\ fix[r].step = "idle" /\ fix[r].recovered = {}
               /\ \A h \in Hours : work[r][h] = "idle" /\ report[r][h] = NoRow
    BY <2>2, SMT DEF RepairInit, Init, NoFix, NoWork, NoReport, Procs
  <2> QED
    BY <2>1, <2>2 DEF FixInv, Following, Recovered, Refetching
<1>2. IngestInv => TypeOK
  BY DEF IngestInv
<1>3. TypeOK /\ FixInv /\ [RepairNext]_repairVars => FixInv'
  BY FixKept
<1>4. IngestInv /\ FixInv => RecoveredIsBacked
  <2> SUFFICES ASSUME IngestInv, FixInv, NEW r \in Repairers, NEW h \in fix[r].recovered
               PROVE  /\ IsIngested(row[h])
                      /\ Backs(lake[h], row[h].file, CheckCounts) \/ h \in lost
    BY DEF RecoveredIsBacked
  <2>1. h \in Hours /\ IsIngested(row[h])
    BY SMT DEF FixInv, FixTypeOK, Fix, Recovered
  <2>2. row[h] = Ingested(published[h]) /\ published[h] \in Contents /\ Grounded(h)
    BY <2>1 DEF IngestInv, Justified, IsIngested
  <2>3. row[h].file = published[h]
    BY <2>2 DEF Ingested
  <2>4. Present(published[h])
    BY <2>2, IngestAssumption, Sentinels DEF Present
  <2>5. CheckCounts => published[h].events \in Counted(published[h])
    BY <2>2, <2>4 DEF Counted
  <2> QED
    BY <2>1, <2>2, <2>3, <2>4, <2>5 DEF Backs, Grounded
<1> QED
  BY <1>1, <1>2, <1>3, <1>4, RepairSafe, PTL DEF RepairSpec
=============================================================================
