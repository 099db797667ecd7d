------------------------- MODULE DailyHistoryProofs -------------------------
(***************************************************************************)
(* What DailyHistory keeps for any grace, any number of days and of runs   *)
(* by hand, and any run of lost nights shorter than what costs the         *)
(* schedule: it stays on, a short day was told of, a green run has its day *)
(* on the branch, and the scan says exactly whether a day is owed.         *)
(***************************************************************************)
EXTENDS DailyHistory, WellFoundedInduction, TLAPS

(***************************************************************************)
(* Least and greatest                                                      *)
(***************************************************************************)

\* A set of natural numbers that is not empty has a least element.
LEMMA LeastNatural ==
    ASSUME NEW T \in SUBSET Nat, T # {}
    PROVE  \E m \in T : \A n \in T : m <= n
<1> DEFINE R == OpToRel(<, Nat)
<1>1. IsWellFoundedOn(R, Nat)
  BY NatLessThanWellFounded, Zenon
<1>2. \A m, n \in Nat : m < n => <<m, n>> \in R
  BY Zenon DEF OpToRel
<1>3. PICK m \in T : \A n \in T : ~(<<n, m>> \in R)
  <2> HIDE DEF R
  <2> QED
    BY <1>1, WFMin, Zenon
<1>4. \A n \in T : ~(n < m)
  BY <1>2, <1>3, Zenon
<1> QED
  BY <1>4, SMT

LEMMA DaysAreNumbers ==
    /\ Days \subseteq Nat /\ Days \subseteq Nights /\ Nights \subseteq Nat
    /\ 1 \in Days /\ 1 \in Nights /\ MaxDay \in Days
    /\ \A d \in Days : 1 <= d /\ d <= MaxDay /\ d + 1 \in Nights
    /\ \A d \in Nights : d <= MaxDay => d \in Days
    /\ \A d \in Nights : 2 <= d => d - 1 \in Days
  BY HistoryAssumption, SMT DEF Days, Nights

\* Where there is a day at all there is a first and a latest.
LEMMA FirstAndLatest ==
    ASSUME NEW held, Present(held) # {}
    PROVE  /\ First(held) \in Present(held) /\ \A e \in Present(held) : First(held) <= e
           /\ Latest(held) \in Present(held) /\ \A e \in Present(held) : e <= Latest(held)
<1>1. Present(held) \subseteq Nat /\ \A d \in Present(held) : d <= MaxDay
  BY DaysAreNumbers DEF Present
<1>2. \E d \in Present(held) : \A e \in Present(held) : d <= e
  BY <1>1, LeastNatural
<1>3. \E d \in Present(held) : \A e \in Present(held) : e <= d
  <2> DEFINE T == {MaxDay - d : d \in Present(held)}
  <2>1. T \in SUBSET Nat /\ T # {}
    BY <1>1, HistoryAssumption, SMT
  <2>2. PICK m \in T : \A n \in T : m <= n
    <3> HIDE DEF T
    <3> QED
      BY <2>1, LeastNatural
  <2>3. PICK d \in Present(held) : m = MaxDay - d
    OBVIOUS
  <2>4. \A e \in Present(held) : MaxDay - d <= MaxDay - e
    BY <2>2, <2>3
  <2> QED
    BY <1>1, <2>4, HistoryAssumption, SMT
<1> QED
  BY <1>2, <1>3 DEF First, Latest

(***************************************************************************)
(* Types                                                                   *)
(***************************************************************************)

\* The night's run comes on a day that has a yesterday, and a run is about a day
\* that is over.
CalendarInv ==
    /\ ~ran => 2 <= today
    /\ phase # "idle" => target < today

LEMMA InitTypeOK == Init => HistoryTypeOK /\ CalendarInv
<1> SUFFICES ASSUME Init PROVE HistoryTypeOK /\ CalendarInv
  OBVIOUS
<1>1. lost \in 0..MaxLost /\ byHand \in 0..MaxByHand
  BY HistoryAssumption, SMT DEF Init
<1>2. /\ history \in [Days -> Forms] /\ tree \in [Days -> Forms]
      /\ \A d \in Days : history[d] = "absent" /\ tree[d] = "absent"
  BY DEF Init, Forms
<1>3. today \in Nights /\ lastPush \in Nights /\ target \in Days
  BY DaysAreNumbers DEF Init
<1> QED
  BY <1>1, <1>2, <1>3 DEF Init, HistoryTypeOK, CalendarInv, Outcomes

LEMMA BeginType ==
    ASSUME HistoryTypeOK, NEW d \in Days, d < today, Begin(d),
           ran' \in BOOLEAN, ~ran' => ~ran, CalendarInv, byHand' \in 0..MaxByHand
    PROVE  HistoryTypeOK' /\ CalendarInv'
  BY DEF HistoryTypeOK, CalendarInv, Begin, branch, steps

\* A step of the job that writes the day of the run, or nothing, in the checkout.
LEMMA JobType ==
    ASSUME HistoryTypeOK, CalendarInv, UNCHANGED calendar, target' = target,
           NEW form \in Forms,
           tree' \in {tree, [tree EXCEPT ![target] = form]},
           phase # "idle", phase' \in {"idle", "aggregate", "history", "commit", "verdict"},
           history' \in {history, tree}, lastPush' \in {lastPush, today}, lost' \in 0..MaxLost,
           byHand' = byHand, agg' \in Outcomes, hist' \in Outcomes,
           result' \in {"none", "green", "red"}, told' \subseteq Days
    PROVE  HistoryTypeOK' /\ CalendarInv'
<1>1. tree' \in [Days -> Forms] /\ \A d \in Days : tree'[d] # "absent" => d < today
  BY DEF HistoryTypeOK, CalendarInv
<1>2. history' \in [Days -> Forms] /\ \A d \in Days : history'[d] # "absent" => d < today
  BY DEF HistoryTypeOK
<1> QED
  BY <1>1, <1>2 DEF HistoryTypeOK, CalendarInv, calendar

LEMMA NextTypeOK == HistoryTypeOK /\ CalendarInv /\ [Next]_vars => HistoryTypeOK' /\ CalendarInv'
<1> SUFFICES ASSUME HistoryTypeOK, CalendarInv, [Next]_vars PROVE HistoryTypeOK' /\ CalendarInv'
  OBVIOUS
<1> USE DEF branch, steps
<1>1. CASE NextDay
  <2>1. today' = today + 1 /\ today <= MaxDay /\ phase = "idle" /\ phase' = "idle"
    BY <1>1 DEF NextDay
  <2>2. today' \in Nights /\ 2 <= today'
    BY <2>1, HistoryAssumption, SMT DEF Nights, HistoryTypeOK
  <2>3. \A d \in Days : d < today => d < today'
    BY <2>1, SMT DEF Days, Nights, HistoryTypeOK
  <2>4. enabled' \in BOOLEAN
    BY <1>1 DEF NextDay
  <2> QED
    BY <1>1, <2>1, <2>2, <2>3, <2>4 DEF NextDay, HistoryTypeOK, CalendarInv
<1>2. CASE DropNight
  <2>1. lost' \in 0..MaxLost
    BY <1>2, HistoryAssumption, SMT DEF DropNight, HistoryTypeOK
  <2> QED
    BY <1>2, <2>1 DEF DropNight, HistoryTypeOK, CalendarInv
<1>3. CASE Nightly
  <2>1. today \in Nights /\ 2 <= today
    BY <1>3 DEF Nightly, HistoryTypeOK, CalendarInv
  <2>2. today - 1 \in Days /\ today - 1 < today
    BY <2>1, DaysAreNumbers, SMT
  <2> QED
    BY <1>3, <2>2, BeginType DEF Nightly, HistoryTypeOK
<1>4. ASSUME NEW d \in Days, ByHand(d) PROVE HistoryTypeOK' /\ CalendarInv'
  <2>1. byHand' \in 0..MaxByHand
    BY <1>4, HistoryAssumption, SMT DEF ByHand, HistoryTypeOK
  <2>2. ran' \in BOOLEAN /\ (~ran' => ~ran)
    BY <1>4 DEF ByHand, HistoryTypeOK
  <2> QED
    BY <1>4, <2>1, <2>2, BeginType DEF ByHand
<1>5. CASE Aggregate
  <2>1. PICK form \in {"whole", "partial"} :
           tree' = [tree EXCEPT ![target] = form] /\ agg' = Outcome(form)
    BY <1>5 DEF Aggregate
  <2> QED
    BY <1>5, <2>1, JobType DEF Aggregate, Outcome, Outcomes, Forms, HistoryTypeOK
<1>6. CASE AggregateFails \/ Cancelled
  BY <1>6, JobType DEF AggregateFails, Cancelled, Outcome, Outcomes, Forms, HistoryTypeOK
<1>7. CASE HistoryStatus
  BY <1>7, JobType DEF HistoryStatus, Outcomes, Forms, HistoryTypeOK
<1>8. CASE Push
  <2>1. lost' \in 0..MaxLost
    BY <1>8, HistoryAssumption, SMT DEF Push
  <2> QED
    BY <1>8, <2>1, JobType DEF Push, Forms, HistoryTypeOK
<1>9. CASE PushRefused
  <2>1. lost' \in 0..MaxLost
    BY <1>9, HistoryAssumption, SMT DEF PushRefused, HistoryTypeOK
  <2> QED
    BY <1>9, <2>1, JobType DEF PushRefused, Red, Forms, HistoryTypeOK
<1>10. CASE Verdict
  BY <1>10, JobType DEF Verdict, Red, Forms, HistoryTypeOK
<1>11. CASE UNCHANGED vars
  BY <1>11 DEF vars, HistoryTypeOK, CalendarInv
<1> QED
  BY <1>1, <1>2, <1>3, <1>4, <1>5, <1>6, <1>7, <1>8, <1>9, <1>10, <1>11 DEF Next, Job

LEMMA CalendarInvariant == Spec => [](HistoryTypeOK /\ CalendarInv)
  BY InitTypeOK, NextTypeOK, PTL DEF Spec

\* In every state of every run each variable has its type, and nothing is held of
\* a day that is not over.
THEOREM HistoryTypeCorrect == Spec => []HistoryTypeOK
  BY CalendarInvariant, PTL

(***************************************************************************)
(* The scan                                                                *)
(***************************************************************************)

\* What the scan says of any history, on any day: healthy, exactly if it has begun
\* and every later day is there that is past its grace or before one that is there.
LEMMA ScanIsExact ==
    ASSUME NEW held, NEW as_of \in Nights
    PROVE  LET Owed(d) == \E e \in Present(held) : e < d /\ (d <= Expected(as_of) \/ Latest(held) > d)
           IN  Healthy(held, as_of) <=>
                   Present(held) # {} /\ \A d \in Days : Owed(d) => d \in Present(held)
<1> DEFINE Owed(d) == \E e \in Present(held) : e < d /\ (d <= Expected(as_of) \/ Latest(held) > d)
           f == First(held)
           l == Latest(held)
           x == Expected(as_of)
<1>1. CASE Present(held) = {}
  BY <1>1 DEF Healthy, Stalled
<1>2. CASE Present(held) # {}
  <2>1. /\ f \in Present(held) /\ \A e \in Present(held) : f <= e
        /\ l \in Present(held) /\ \A e \in Present(held) : e <= l
    BY <1>2, FirstAndLatest
  <2>2. Present(held) \subseteq Days
    BY DEF Present
  <2>3. f \in Nat /\ l \in Nat /\ 1 <= f /\ 1 <= l
    BY <2>1, <2>2, DaysAreNumbers
  <2>4. x \in Int /\ x <= MaxDay
    BY HistoryAssumption, SMT DEF Expected, Nights
  <2>5. Healthy(held, as_of) <=> x <= l /\ f..l \subseteq Present(held)
    <3>1. ~(l < x) <=> x <= l
      BY <2>3, <2>4, SMT
    <3> QED
      BY <1>2, <3>1 DEF Healthy, Stalled, MissingDays
  <2> HIDE DEF f, l, x
  <2>6. ASSUME x <= l, f..l \subseteq Present(held), NEW d \in Days,
               NEW e \in Present(held), e < d, d <= x \/ l > d
        PROVE  d \in Present(held)
    <3>1. d \in Nat /\ e \in Nat /\ f <= e
      BY <2>1, <2>2, DaysAreNumbers
    <3>2. d \in f..l
      BY <2>3, <2>4, <2>6, <3>1, SMT
    <3> QED
      BY <2>6, <3>2
  <2>7. ASSUME \A d \in Days : Owed(d) => d \in Present(held)
        PROVE  x <= l
    <3>1. SUFFICES ASSUME ~(x <= l) PROVE FALSE
      OBVIOUS
    <3>2. /\ l \in Nat /\ 1 <= l /\ l + 1 <= x /\ l + 1 <= MaxDay
          /\ l < l + 1 /\ ~(l + 1 <= l) /\ l + 1 \in Nat
      BY <2>3, <2>4, <3>1, HistoryAssumption, SMT
    <3>3. l + 1 \in Days
      BY <3>2, HistoryAssumption, SMT DEF Days
    <3>4. Owed(l + 1)
      BY <2>1, <3>2 DEF x
    <3> HIDE DEF Owed
    <3> QED
      BY <2>1, <2>7, <3>2, <3>3, <3>4
  <2>8. ASSUME \A d \in Days : Owed(d) => d \in Present(held), NEW d \in f..l
        PROVE  d \in Present(held)
    <3>1. CASE d = f \/ d = l
      BY <2>1, <3>1
    <3>2. CASE d # f /\ d # l
      <4>1. d \in Days /\ f < d /\ l > d
        BY <2>1, <2>2, <2>8, <3>2, HistoryAssumption, SMT DEF Days
      <4>2. Owed(d)
        BY <2>1, <4>1 DEF l
      <4> HIDE DEF Owed
      <4> QED
        BY <2>8, <4>1, <4>2
    <3> QED
      BY <3>1, <3>2
  <2>9. (\A d \in Days : Owed(d) => d \in Present(held)) => x <= l /\ f..l \subseteq Present(held)
    <3> HIDE DEF Owed
    <3> QED
      BY <2>7, <2>8
  <2>10. x <= l /\ f..l \subseteq Present(held) => \A d \in Days : Owed(d) => d \in Present(held)
    BY <2>6 DEF x, l
  <2> HIDE DEF Owed
  <2> QED
    BY <1>2, <2>5, <2>9, <2>10 DEF Owed
<1> QED
  BY <1>1, <1>2

\* The scan calls the history healthy exactly if no day is owed.
THEOREM ScanSaysWhatIsOwed == Spec => []HealthyIffNothingOwed
<1>1. HistoryTypeOK => HealthyIffNothingOwed
  <2> SUFFICES ASSUME HistoryTypeOK PROVE HealthyIffNothingOwed
    OBVIOUS
  <2>1. today \in Nights
    BY DEF HistoryTypeOK
  <2> QED
    BY <2>1, ScanIsExact DEF HealthyIffNothingOwed
<1> QED
  BY <1>1, HistoryTypeCorrect, PTL

(***************************************************************************)
(* The schedule and what was told                                          *)
(***************************************************************************)

\* The last commit is no older than the nights lost since, and tonight's if it
\* has not come to its end.
Pushed ==
    /\ enabled /\ today - lastPush <= lost + 1
    /\ phase \in {"idle", "verdict"} /\ ran => today - lastPush <= lost

Short(d) == history[d] \in {"torn", "partial"}

\* The runner's checkout differs from the branch in the day of the run alone, and
\* a day that is short, on the branch, was told of or is about to be.
Told ==
    /\ \A d \in Days : Short(d) => d \in told \/ (phase = "verdict" /\ d = target)
    /\ phase # "idle" => \A d \in Days \ {target} : tree[d] = history[d]
    /\ phase = "verdict" => history = tree
    /\ phase \in {"history", "commit", "verdict"} /\ agg = "success" => tree[target] = "whole"
    /\ result = "green" => phase = "idle" /\ history[target] = "whole"

HistoryInv == HistoryTypeOK /\ CalendarInv /\ Pushed /\ Told

LEMMA InitInv == Init => HistoryInv
<1> SUFFICES ASSUME Init PROVE Pushed /\ Told
  BY InitTypeOK DEF HistoryInv
<1>1. Pushed
  BY SMT DEF Init, Pushed
<1>2. Told
  BY DEF Init, Told, Short
<1> QED
  BY <1>1, <1>2

\* Every step that ends a run in a commit, or loses a night, keeps the count.
LEMMA NextPushed == HistoryInv /\ [Next]_vars => Pushed'
<1> SUFFICES ASSUME HistoryInv, [Next]_vars PROVE Pushed'
  OBVIOUS
<1> USE DEF branch, steps, calendar
<1>1. today \in Nat /\ lastPush \in Nat /\ lost \in Nat /\ lost <= MaxLost /\ Pushed
  BY DaysAreNumbers, HistoryAssumption, SMT DEF HistoryInv, HistoryTypeOK
<1>2. CASE NextDay
  <2>1. /\ phase = "idle" /\ ran /\ today' = today + 1 /\ ran' = FALSE /\ lastPush' = lastPush
        /\ lost' = lost /\ enabled' = (enabled /\ today' - lastPush <= IdleDays)
    BY <1>1, <1>2 DEF NextDay, Pushed
  <2>2. today - lastPush <= lost
    BY <1>1, <2>1 DEF Pushed
  <2>3. today' - lastPush' <= lost' + 1 /\ today' - lastPush <= IdleDays
    BY <1>1, <2>1, <2>2, HistoryAssumption, SMT
  <2> QED
    BY <1>1, <2>1, <2>3 DEF Pushed
<1>3. CASE DropNight
  <2>1. today' = today /\ lastPush' = lastPush /\ lost' = lost + 1 /\ enabled'
    BY <1>3 DEF DropNight
  <2>2. today' - lastPush' <= lost'
    BY <1>1, <2>1 DEF Pushed
  <2>3. today' - lastPush' <= lost' + 1
    BY <1>1, <2>1, <2>2, SMT
  <2> QED
    BY <2>1, <2>2, <2>3 DEF Pushed
<1>4. CASE Nightly \/ \E d \in Days : ByHand(d)
  <2>1. /\ today' = today /\ lastPush' = lastPush /\ lost' = lost /\ enabled' = enabled
        /\ phase' = "aggregate"
    BY <1>4 DEF Nightly, ByHand, Begin
  <2> QED
    BY <1>1, <2>1 DEF Pushed
<1>5. CASE Aggregate \/ AggregateFails \/ Cancelled \/ HistoryStatus
  <2>1. /\ today' = today /\ lastPush' = lastPush /\ lost' = lost /\ enabled' = enabled
        /\ phase' \in {"history", "commit"}
    BY <1>5 DEF Aggregate, AggregateFails, Cancelled, HistoryStatus
  <2> QED
    BY <1>1, <2>1 DEF Pushed
<1>6. CASE Push
  <2>1. today' = today /\ lastPush' = today /\ lost' = 0 /\ enabled' = enabled
    BY <1>6 DEF Push
  <2>2. today' - lastPush' <= lost' /\ today' - lastPush' <= lost' + 1
    BY <1>1, <2>1, SMT
  <2> QED
    BY <1>1, <2>1, <2>2 DEF Pushed
<1>7. CASE PushRefused
  <2>1. today' = today /\ lastPush' = lastPush /\ lost' = lost + 1 /\ enabled' = enabled
    BY <1>7 DEF PushRefused
  <2>2. today' - lastPush' <= lost'
    BY <1>1, <2>1 DEF Pushed
  <2>3. today' - lastPush' <= lost' + 1
    BY <1>1, <2>1, <2>2, SMT
  <2> QED
    BY <1>1, <2>1, <2>2, <2>3 DEF Pushed
<1>8. CASE Verdict
  <2>1. /\ today' = today /\ lastPush' = lastPush /\ lost' = lost /\ enabled' = enabled
        /\ ran' = ran /\ phase = "verdict"
    BY <1>8 DEF Verdict
  <2> QED
    BY <1>1, <2>1 DEF Pushed
<1>9. CASE UNCHANGED vars
  BY <1>1, <1>9 DEF vars, Pushed
<1> QED
  BY <1>2, <1>3, <1>4, <1>5, <1>6, <1>7, <1>8, <1>9 DEF Next, Job

LEMMA NextTold == HistoryInv /\ [Next]_vars => Told'
<1> SUFFICES ASSUME HistoryInv, [Next]_vars PROVE Told'
  OBVIOUS
<1> USE DEF branch, steps, calendar
<1>1. Told /\ HistoryTypeOK
  BY DEF HistoryInv
<1>2. CASE NextDay \/ DropNight
  BY <1>1, <1>2 DEF NextDay, DropNight, Told, Short
<1>3. CASE Nightly \/ \E d \in Days : ByHand(d)
  <2>1. PICK d : Begin(d)
    BY <1>3 DEF Nightly, ByHand
  <2> QED
    BY <1>1, <2>1 DEF Begin, Told, Short
<1>4. CASE Aggregate
  <2>1. PICK form \in {"whole", "partial"} :
           tree' = [tree EXCEPT ![target] = form] /\ agg' = Outcome(form)
    BY <1>4 DEF Aggregate
  <2>2. target \in Days /\ tree'[target] = form /\ \A d \in Days \ {target} : tree'[d] = tree[d]
    BY <1>1, <2>1 DEF HistoryTypeOK
  <2> QED
    BY <1>1, <1>4, <2>1, <2>2 DEF Aggregate, Outcome, Told, Short
<1>5. CASE AggregateFails \/ Cancelled
  <2>1. \A d \in Days \ {target} : tree'[d] = tree[d]
    BY <1>1, <1>5 DEF AggregateFails, Cancelled, HistoryTypeOK
  <2>2. agg' # "success"
    BY <1>5 DEF AggregateFails, Cancelled, Outcome
  <2> QED
    BY <1>1, <1>5, <2>1, <2>2 DEF AggregateFails, Cancelled, Told, Short
<1>6. CASE HistoryStatus
  BY <1>1, <1>6 DEF HistoryStatus, Told, Short
<1>7. CASE Push
  <2>1. \A d \in Days \ {target} : tree[d] = history[d]
    BY <1>1, <1>7 DEF Push, Told
  <2> QED
    BY <1>1, <1>7, <2>1 DEF Push, Told, Short
<1>8. CASE PushRefused
  BY <1>1, <1>8 DEF PushRefused, Red, Told, Short
<1>9. CASE Verdict
  BY <1>1, <1>9 DEF Verdict, Red, Told, Short
<1>10. CASE UNCHANGED vars
  BY <1>1, <1>10 DEF vars, Told, Short
<1> QED
  BY <1>2, <1>3, <1>4, <1>5, <1>6, <1>7, <1>8, <1>9, <1>10 DEF Next, Job

\* The invariant holds in every state of every run.
THEOREM HistoryInvariant == Spec => []HistoryInv
<1>1. HistoryInv /\ [Next]_vars => HistoryInv'
  BY NextTypeOK, NextPushed, NextTold DEF HistoryInv
<1> QED
  BY <1>1, InitInv, PTL DEF Spec

\* The schedule is on, as long as fewer nights in a row bring no commit than cost
\* it: every run that comes to its end commits, whatever became of its day.
THEOREM ScheduleIsKept == Spec => []ScheduleStaysOn
<1>1. HistoryInv => ScheduleStaysOn
  BY DEF HistoryInv, Pushed, ScheduleStaysOn
<1> QED
  BY <1>1, HistoryInvariant, PTL

\* A day that is short on the branch was committed by a run that failed, and none
\* has succeeded for it since.
THEOREM NoShortDayIsSilent == Spec => []ShortDaysWereTold
<1>1. HistoryInv => ShortDaysWereTold
  BY DEF HistoryInv, Told, Short, ShortDaysWereTold
<1> QED
  BY <1>1, HistoryInvariant, PTL

\* A run that succeeded has its day whole on the branch.
THEOREM GreenRunsArePublished == Spec => []GreenIsPublished
<1>1. HistoryInv => GreenIsPublished
  BY DEF HistoryInv, Told, GreenIsPublished
<1> QED
  BY <1>1, HistoryInvariant, PTL
=============================================================================
