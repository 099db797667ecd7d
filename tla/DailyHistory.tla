---------------------------- MODULE DailyHistory ----------------------------
(***************************************************************************)
(* The unattended job: every night aggregate yesterday on a fresh runner,  *)
(* scan the history for stalls and holes, record the run, commit and push, *)
(* and fail if either of the first two did.                                *)
(*                                                                         *)
(* GitHub may drop a night, a run may be cancelled, a push refused, and a  *)
(* repository without a commit for long enough loses its schedule.  The    *)
(* owner may have any day aggregated by hand.                              *)
(***************************************************************************)
EXTENDS Integers, FiniteSets

CONSTANTS
    Grace,      \* DEFAULT_GRACE_DAYS
    IdleDays,   \* days without a commit that cost the schedule
    MaxDay, MaxLost, MaxByHand  \* bounds of the model

ASSUME HistoryAssumption ==
    /\ Grace \in Nat /\ IdleDays \in Nat /\ MaxDay \in Nat \ {0} /\ MaxByHand \in Nat
    /\ MaxLost \in Nat /\ MaxLost < IdleDays

Days == 1..MaxDay
Nights == 1..(MaxDay + 1)
Forms == {"absent", "torn", "partial", "whole"}

VARIABLES
    today,     \* the day it is
    history,   \* what the branch holds of each day
    enabled,   \* is the schedule on?
    lastPush,  \* the day of the last commit
    ran,       \* has tonight's run come, or been dropped?
    lost,      \* nights in a row that brought no run to its end
    phase,     \* the step the job is at
    tree,      \* the runner's checkout
    target,    \* the day it aggregates
    agg, hist, \* the outcomes of its two steps that may fail
    result,    \* how the last run ended
    told,      \* days a failed run was about, since one succeeded for them
    byHand     \* runs the owner started

vars == << today, history, enabled, lastPush, ran, lost, phase, tree, target,
           agg, hist, result, told, byHand >>
calendar == << today, enabled, ran >>
steps    == << agg, hist >>
branch   == << history, lastPush >>

Outcomes == {"none", "success", "failure", "cancelled", "skipped"}

HistoryTypeOK ==
    /\ today \in Nights /\ lastPush \in Nights /\ enabled \in BOOLEAN /\ ran \in BOOLEAN
    /\ history \in [Days -> Forms] /\ tree \in [Days -> Forms]
    /\ \A d \in Days : history[d] # "absent" \/ tree[d] # "absent" => d < today
    /\ lost \in 0..MaxLost /\ byHand \in 0..MaxByHand
    /\ phase \in {"idle", "aggregate", "history", "commit", "verdict"}
    /\ target \in Days /\ agg \in Outcomes /\ hist \in Outcomes
    /\ result \in {"none", "green", "red"} /\ told \subseteq Days

Init ==
    /\ today = 1 /\ enabled = TRUE /\ lastPush = 1 /\ ran = TRUE /\ lost = 0
    /\ history = [d \in Days |-> "absent"] /\ tree = history
    /\ phase = "idle" /\ target = 1 /\ agg = "none" /\ hist = "none"
    /\ result = "none" /\ told = {} /\ byHand = 0

----------------------------------------------------------------------------
(***************************************************************************)
(* scan_history.  `as_of` is the day of the scan.                          *)
(***************************************************************************)
Present(held) == {d \in Days : held[d] # "absent"}

First(held)  == CHOOSE d \in Present(held) : \A e \in Present(held) : d <= e
Latest(held) == CHOOSE d \in Present(held) : \A e \in Present(held) : e <= d

Expected(as_of) == as_of - (1 + Grace)

\* Mutant of Stalled: the grace is counted twice.
StalledLate(held, as_of) ==
    Present(held) = {} \/ Latest(held) < Expected(as_of) - Grace

Stalled(held, as_of) ==
    Present(held) = {} \/ Latest(held) < Expected(as_of)

\* Against the range that was observed, never a configured start.
MissingDays(held) ==
    IF Present(held) = {} THEN {} ELSE First(held)..Latest(held) \ Present(held)

Healthy(held, as_of) == ~Stalled(held, as_of) /\ MissingDays(held) = {}

----------------------------------------------------------------------------
\* GitHub turns the schedule of a silent repository off.
NextDay ==
    /\ phase = "idle" /\ today <= MaxDay /\ (ran \/ ~enabled)
    /\ today' = today + 1 /\ ran' = FALSE
    /\ enabled' = (enabled /\ today' - lastPush <= IdleDays)
    /\ UNCHANGED << branch, lost, phase, tree, target, steps, result, told, byHand >>

DropNight ==
    /\ phase = "idle" /\ enabled /\ ~ran /\ lost < MaxLost
    /\ ran' = TRUE /\ lost' = lost + 1
    /\ UNCHANGED << today, enabled, branch, phase, tree, target, steps, result, told, byHand >>

Begin(d) ==
    /\ phase = "idle"
    /\ phase' = "aggregate" /\ target' = d /\ tree' = history /\ result' = "none"
    /\ UNCHANGED << today, enabled, branch, lost, steps, told >>

\* Mutant of Nightly: the day that is not over yet.
NightlyToday ==
    /\ enabled /\ ~ran /\ ran' = TRUE /\ UNCHANGED byHand
    /\ today \in Days /\ Begin(today)

\* DAY defaults to yesterday.
Nightly ==
    /\ enabled /\ ~ran /\ ran' = TRUE /\ UNCHANGED byHand
    /\ Begin(today - 1)

ByHand(d) ==
    /\ d < today /\ byHand < MaxByHand /\ byHand' = byHand + 1 /\ UNCHANGED ran
    /\ Begin(d)

\* Mutant of Outcome: the status of aggregate goes through the pipe to tee.
OutcomePiped(form) == "success"

\* The aggregate step, with pipefail: exit 0 is said of a whole day only.
Outcome(form) == IF form = "whole" THEN "success" ELSE "failure"

\* aggregate writes the day, whole or short of hours.
Aggregate ==
    /\ phase = "aggregate"
    /\ \E form \in {"whole", "partial"} :
          /\ tree' = [tree EXCEPT ![target] = form]
          /\ agg' = Outcome(form)
    /\ phase' = "history" /\ hist' = "none"
    /\ UNCHANGED << calendar, branch, lost, target, result, told, byHand >>

\* It raised: before it wrote anything, or between the two files of the day.
AggregateFails ==
    /\ phase = "aggregate"
    /\ tree' \in { tree, [tree EXCEPT ![target] = "torn"] }
    /\ agg' = Outcome("torn") /\ phase' = "history" /\ hist' = "none"
    /\ UNCHANGED << calendar, branch, lost, target, result, told, byHand >>

\* Cancelled or out of time, perhaps between the two files of the day: the
\* steps that are always run still are.
Cancelled ==
    /\ phase = "aggregate"
    /\ tree' \in { tree, [tree EXCEPT ![target] = "torn"] }
    /\ agg' = "cancelled" /\ hist' = "skipped" /\ phase' = "commit"
    /\ UNCHANGED << calendar, branch, lost, target, result, told, byHand >>

\* The step of the scan is a pipe into tee, in a shell without pipefail: its
\* outcome is that of tee.
HistoryStatus ==
    /\ phase = "history"
    /\ hist' = "success" /\ phase' = "commit"
    /\ UNCHANGED << calendar, branch, lost, tree, target, agg, result, told, byHand >>

\* Mutant of Push: without a new day there is nothing to commit.
PushIfChanged ==
    /\ phase = "commit"
    /\ history' = tree /\ lastPush' = IF tree # history THEN today ELSE lastPush
    /\ lost' = 0 /\ phase' = "verdict"
    /\ UNCHANGED << calendar, tree, target, steps, result, told, byHand >>

\* The run's record is always something to commit.
Push ==
    /\ phase = "commit"
    /\ history' = tree /\ lastPush' = today
    /\ lost' = 0 /\ phase' = "verdict"
    /\ UNCHANGED << calendar, tree, target, steps, result, told, byHand >>

Red(d) == result' = "red" /\ told' = told \cup {d}

\* Mutant of PushRefused: the third refusal is the end of the loop and no error.
PushRefusedQuietly ==
    /\ phase = "commit" /\ lost < MaxLost
    /\ lost' = lost + 1 /\ phase' = "verdict"
    /\ UNCHANGED << calendar, branch, tree, target, steps, result, told, byHand >>

\* Three times, or the runner is gone before it came to that.
PushRefused ==
    /\ phase = "commit" /\ lost < MaxLost
    /\ lost' = lost + 1 /\ phase' = "idle" /\ Red(target)
    /\ UNCHANGED << calendar, branch, tree, target, steps, byHand >>

\* "Fail if either step failed".
Verdict ==
    /\ phase = "verdict"
    /\ IF agg = "success" /\ hist = "success"
       THEN result' = "green" /\ told' = told \ {target}
       ELSE Red(target)
    /\ phase' = "idle"
    /\ UNCHANGED << calendar, branch, lost, tree, target, steps, byHand >>

Job ==
    \/ Aggregate \/ AggregateFails \/ Cancelled
    \/ HistoryStatus \/ Push \/ PushRefused \/ Verdict

Next ==
    \/ NextDay \/ DropNight \/ Nightly \/ (\E d \in Days : ByHand(d))
    \/ Job

Spec == Init /\ [][Next]_vars

----------------------------------------------------------------------------
(***************************************************************************)
(* Properties                                                              *)
(***************************************************************************)

\* While no IdleDays nights in a row are lost to GitHub, the schedule is on:
\* every run that comes to its end has committed, whatever became of its day.
ScheduleStaysOn == enabled

\* A history is reported healthy exactly if no day is owed: it has begun, and
\* every later day is there that is past its grace or before one that is there.
HealthyIffNothingOwed ==
    LET Owed(d) == \E e \in Present(history) : e < d /\ (d <= Expected(today) \/ Latest(history) > d)
    IN  Healthy(history, today) <=>
            Present(history) # {} /\ \A d \in Days : Owed(d) => d \in Present(history)

\* A day of the history that is short of hours, or of one of its files, was
\* committed by a run that failed, and none has succeeded for it since.
ShortDaysWereTold ==
    \A d \in Days : phase = "idle" /\ history[d] \in {"torn", "partial"} => d \in told

\* A run that succeeded has its day whole on the branch.
GreenIsPublished == result = "green" => history[target] = "whole"

\* "It is what turns 'the schedule stopped' from an absence nobody notices into a
\* failed run that sends mail": a run that succeeds leaves no hole and no stall.
GreenMeansHealthy == phase = "idle" /\ result = "green" => Healthy(history, today)
=============================================================================
