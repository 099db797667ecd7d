----------------------------- MODULE LakeRepair -----------------------------
(***************************************************************************)
(* repair-lake beside the schedulers of HourIngest.  A repair reads the    *)
(* claims, asks verify_lake (which reads them again and then looks at each *)
(* file), deletes the claims no file backs, and runs ingest_hour on the    *)
(* hours whose row it really removed.  It holds no lock over any of that.  *)
(***************************************************************************)
EXTENDS HourIngest

CONSTANT CheckCounts  \* repair-lake --counts, verify --counts

ASSUME RepairAssumption == CheckCounts \in BOOLEAN

VARIABLES
    fix,    \* where each repair stands and what it has in hand
    struck  \* hours some repair ever took the claim back of (observer)

repairVars == << vars, fix, struck >>

Steps == {"idle", "claimed", "read", "checked", "refetching", "done"}

NoFix == [step |-> "idle", claims |-> {}, seen |-> NoReport, unbacked |-> {},
          unclearable |-> {}, recovered |-> {}, unrecovered |-> {}]

RepairInit ==
    /\ Init
    /\ fix = [r \in Repairers |-> NoFix]
    /\ struck = {}

----------------------------------------------------------------------------
\* repair_unbacked: now, then the claims.  A finished repair may be run again.
ReadClaims(r) ==
    /\ fix[r].step \in {"idle", "done"}
    /\ Schedule(r, {})
    /\ fix' = [fix EXCEPT ![r] = [NoFix EXCEPT !.step = "claimed", !.claims = Claims(row)]]
    /\ UNCHANGED << world, disk, row, struck >>

\* verify_lake reads the claims for itself.
ReadAgain(r) ==
    /\ fix[r].step = "claimed"
    /\ fix' = [fix EXCEPT ![r].step = "read", ![r].seen = row]
    /\ UNCHANGED << vars, struck >>

Unbacked(claimed, files) ==
    { h \in Claims(claimed) : ~Backs(files[h], claimed[h].file, CheckCounts) }

\* Then it checks the files; with nothing unbacked there is nothing to repair.
CheckFiles(r) ==
    /\ fix[r].step = "read"
    /\ LET bad == Unbacked(fix[r].seen, lake) IN
       /\ fix' = [fix EXCEPT ![r].step = IF bad = {} THEN "done" ELSE "checked",
                             ![r].unbacked = bad, ![r].seen = NoReport]
       /\ IF bad = {} THEN Forgets(r) ELSE UNCHANGED << pass, work, report, clash >>
    /\ UNCHANGED << world, disk, row, crashes, struck >>

\* A dry run ends here.
DryRun(r) ==
    /\ fix[r].step = "checked"
    /\ Forgets(r)
    /\ fix' = [fix EXCEPT ![r] = NoFix]
    /\ UNCHANGED << world, disk, row, crashes, struck >>

\* Destroy the false claims, and schedule only the hours really cleared.
ForgetClaims(r) ==
    /\ fix[r].step = "checked"
    /\ LET removed == Removed(row, fix[r].unbacked) IN
       /\ row' = Forgotten(row, fix[r].unbacked)
       /\ work' = [work EXCEPT ![r] = [h \in Hours |-> IF h \in removed THEN "queued" ELSE "idle"]]
       /\ fix' = [fix EXCEPT ![r].step = "refetching",
                             ![r].unclearable = fix[r].unbacked \ removed]
       /\ struck' = struck \cup removed
    /\ UNCHANGED << world, disk, pass, report, clash, crashes >>

Refetched(r) == { h \in Hours : work[r][h] = "done" }

\* Mutant of Reconcile: every refetched hour counts as recovered.
ReconcileAll(r) ==
    /\ fix[r].step = "refetching"
    /\ AllReported(r)
    /\ fix' = [fix EXCEPT ![r].step = "done", ![r].recovered = Refetched(r)]
    /\ Forgets(r)
    /\ UNCHANGED << world, disk, row, crashes, struck >>

\* Reconcile every refetched hour with its claim; one the first read did not
\* return raises, and the run dies with its report.
Reconcile(r) ==
    /\ fix[r].step = "refetching"
    /\ AllReported(r)
    /\ LET back == { h \in Refetched(r) : IsIngested(report[r][h]) } IN
       fix' = [fix EXCEPT ![r] =
                 IF Refetched(r) \subseteq @.claims
                 THEN [@ EXCEPT !.step = "done", !.recovered = back,
                                !.unrecovered = Refetched(r) \ back]
                 ELSE NoFix]
    /\ Forgets(r)
    /\ UNCHANGED << world, disk, row, crashes, struck >>

\* ingest_hour on behalf of the repair; what kills the process ends the repair.
Refetch(r) ==
    /\ Crash(r) \/ \E h \in Hours : Ingest(r, h)
    /\ fix' = IF pass'[r].running THEN fix ELSE [fix EXCEPT ![r] = NoFix]
    /\ UNCHANGED struck

Repair(r) ==
    \/ ReadClaims(r) \/ ReadAgain(r) \/ CheckFiles(r) \/ DryRun(r)
    \/ ForgetClaims(r) \/ Reconcile(r) \/ Refetch(r)

Elsewhere ==
    /\ Environment \/ \E p \in Loops \cup Ranges : Process(p)
    /\ UNCHANGED << fix, struck >>

RepairNext == Elsewhere \/ \E r \in Repairers : Repair(r)

RepairSpec == RepairInit /\ [][RepairNext]_repairVars

\* A repair somebody started runs on; whether one is started is up to them, and
\* whether a damaged or published hour comes is up to the world.
RepairFairness ==
    /\ \A r \in Repairers :
          /\ WF_repairVars(ReadAgain(r)) /\ WF_repairVars(CheckFiles(r))
          /\ WF_repairVars(ForgetClaims(r)) /\ WF_repairVars(Reconcile(r))
          /\ WF_repairVars(Refetch(r))
    /\ \A p \in Loops \cup Ranges :
          /\ WF_repairVars(StartPass(p) /\ UNCHANGED << fix, struck >>)
          /\ WF_repairVars(EndPass(p) /\ UNCHANGED << fix, struck >>)
          /\ \A h \in Hours :
                /\ WF_repairVars(Ingest(p, h) /\ UNCHANGED << fix, struck >>)
                /\ SF_repairVars(Answer(p, h) /\ UNCHANGED << fix, struck >>)
    /\ WF_repairVars(Tick /\ UNCHANGED << fix, struck >>)

FairRepairSpec == RepairSpec /\ RepairFairness

----------------------------------------------------------------------------
(***************************************************************************)
(* Properties                                                              *)
(***************************************************************************)

\* An hour a finished repair calls recovered really is: its row claims success
\* again and a verify with the same settings passes it, unless its file was
\* damaged once more ("verify should now pass").
RecoveredIsBacked ==
    \A r \in Repairers : \A h \in fix[r].recovered :
        /\ IsIngested(row[h])
        /\ Backs(lake[h], row[h].file, CheckCounts) \/ h \in lost

\* An hour a repair cleared and could not bring back is work again for the loop,
\* while its window covers the hour: it does not stay without a row, not even
\* when the claim had become true again by the time it was deleted.
StruckHoursSettle ==
    \A h \in Covered : (h \in struck) ~> (row[h] # NoRow)
=============================================================================
