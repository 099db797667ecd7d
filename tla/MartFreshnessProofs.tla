------------------------ MODULE MartFreshnessProofs ------------------------
(***************************************************************************)
(* What MartFreshness keeps for any days, hours and tables, any number of  *)
(* drops, deaths and builds at the same time: a check that passes, though it only   *)
(* compares counts of two moments, missed no event it had a file of, and   *)
(* tables that disagree are told of.                                       *)
(***************************************************************************)
EXTENDS MartFreshness, FiniteSetTheorems, TLAPS

\* On a day that was never dropped the lake only grows; so what was walked and what
\* was scanned are two stages of it, and one of them is the earlier.
Staged(rows, d) ==
    /\ rows[d] \subseteq lake[d]
    /\ rows[d] \subseteq walked[d] \/ WithEvents(walked)[d] \subseteq rows[d]

\* What is in the marts and what a build is about to put there.
Stages(d) ==
    /\ walked[d] \subseteq lake[d]
    /\ Staged(mart[Ecosystem], d)
    /\ \A b \in Builders : \A s \in scan[b] : Staged(s.rows, d)

\* A build that is not over has the tests still to come.
Busy(b) == todo[b] # {} \/ scan[b] # {} => Tests \in todo[b]

MartInv ==
    /\ MartTypeOK
    /\ \A d \in Days \ dropped : Stages(d)
    /\ \A b \in Builders : Busy(b)
    /\ DisagreementIsTold

----------------------------------------------------------------------------
(***************************************************************************)
(* Operators                                                               *)
(***************************************************************************)

\* What a scan of the lake has rows of: a part of what the lake has, more if the
\* lake has more, and nothing of an hour without events.
LEMMA WithEventsIs ==
    ASSUME NEW hours \in Lakes
    PROVE  /\ WithEvents(hours) \in Lakes
           /\ \A d \in Days :
                 /\ WithEvents(hours)[d] \subseteq hours[d]
                 /\ \A h \in WithEvents(hours)[d] : << d, h >> \notin silent
                 /\ \A h \in hours[d] : h \in WithEvents(hours)[d] <=> << d, h >> \notin silent
  BY DEF WithEvents, Lakes

LEMMA WithEventsOfEvents == ASSUME MartTypeOK PROVE WithEvents(lake) \in Lakes /\ OfEvents(WithEvents(lake))
  BY WithEventsIs DEF MartTypeOK, OfEvents

\* A day the check passes was built from at least as many hours as were walked.
LEMMA PassedIsAsMany ==
    ASSUME MartTypeOK, NEW d \in Days, ~Stale(d)
    PROVE  Cardinality(walked[d]) <= Cardinality(mart[Ecosystem][d])
<1>1. walked[d] \in SUBSET Hours /\ mart[Ecosystem][d] \in SUBSET Hours
  BY MartAssumption DEF MartTypeOK, Lakes
<1>2. Cardinality(walked[d]) \in Nat /\ Cardinality(mart[Ecosystem][d]) \in Nat
  BY <1>1, MartAssumption, FS_Subset, FS_CardinalityType
<1> DEFINE in_lake == Cardinality(walked[d])
           built == Cardinality(mart[Ecosystem][d])
<1>3. Kind(in_lake, built) \notin {"unbuilt", "behind"}
  BY DEF Stale
<1> HIDE DEF in_lake, built
<1>4. in_lake = built \/ ~(built < in_lake)
  BY <1>3 DEF Kind
<1> QED
  BY <1>2, <1>4, SMT DEF in_lake, built

(***************************************************************************)
(* Types                                                                   *)
(***************************************************************************)

LEMMA InitTypeOK == Init => MartTypeOK
<1> SUFFICES ASSUME Init PROVE MartTypeOK
  OBVIOUS
<1>1. drops \in 0..MaxDrops /\ hands \in 0..MaxHands /\ deaths \in 0..MaxDeaths
  BY MartAssumption, SMT DEF Init
<1>2. lake \in Lakes /\ \A d \in Days : lake[d] = {}
  BY DEF Init, Lakes
<1>3. /\ mart \in [Tables -> Lakes] /\ \A t \in Tables : OfEvents(mart[t])
      /\ todo \in [Builders -> SUBSET (Tables \cup {Tests})]
      /\ scan \in [Builders -> SUBSET Scans] /\ \A b \in Builders : scan[b] = {}
  BY <1>2 DEF Init, OfEvents
<1> QED
  BY <1>1, <1>2, <1>3 DEF Init, MartTypeOK

\* A swap puts what one scan read in the place of its table and of no other.
LEMMA SwapWrites ==
    ASSUME MartTypeOK, NEW b \in Builders, NEW s \in scan[b],
           mart' = [mart EXCEPT ![s.table] = s.rows]
    PROVE  /\ s.table \in Tables /\ s.rows \in Lakes /\ OfEvents(s.rows)
           /\ mart' \in [Tables -> Lakes] /\ mart'[s.table] = s.rows
           /\ \A t \in Tables \ {s.table} : mart'[t] = mart[t]
<1>1. s \in Scans /\ OfEvents(s.rows) /\ mart \in [Tables -> Lakes]
  BY DEF MartTypeOK
<1>2. s.table \in Tables /\ s.rows \in Lakes
  BY <1>1 DEF Scans
<1> QED
  BY <1>1, <1>2

LEMMA NextTypeOK == MartTypeOK /\ [Next]_vars => MartTypeOK'
<1> SUFFICES ASSUME MartTypeOK, [Next]_vars PROVE MartTypeOK'
  OBVIOUS
<1> USE DEF status, build, counts
<1>1. ASSUME NEW d \in Days, DropDay(d) PROVE MartTypeOK'
  <2>1. drops' \in 0..MaxDrops
    BY <1>1, MartAssumption, SMT DEF DropDay, MartTypeOK
  <2>2. lake' \in Lakes
    BY <1>1 DEF DropDay, MartTypeOK, Lakes
  <2> QED
    BY <1>1, <2>1, <2>2 DEF DropDay, MartTypeOK, OfEvents
<1>2. ASSUME NEW d \in Days, NEW h \in Hours, Land(d, h) PROVE MartTypeOK'
  <2>1. lake' \in Lakes
    BY <1>2 DEF Land, MartTypeOK, Lakes
  <2> QED
    BY <1>2, <2>1 DEF Land, MartTypeOK, OfEvents
<1>3. CASE Walk
  BY <1>3 DEF Walk, MartTypeOK, OfEvents
<1>4. CASE Compare
  BY <1>4 DEF Compare, MartTypeOK, OfEvents
<1>5. CASE CompareFails
  <2>1. deaths' \in 0..MaxDeaths
    BY <1>5, MartAssumption, SMT DEF CompareFails, MartTypeOK
  <2> QED
    BY <1>5, <2>1 DEF CompareFails, MartTypeOK, OfEvents
<1>6. ASSUME NEW b \in Builders, Build(b) PROVE MartTypeOK'
  <2>1. hands' \in 0..MaxHands
    BY <1>6, MartAssumption, SMT DEF Build, MartTypeOK
  <2>2. check' \in {"idle", "walked", "building"}
    BY <1>6 DEF Build, MartTypeOK
  <2> QED
    BY <1>6, <2>1, <2>2 DEF Build, MartTypeOK, OfEvents
<1>7. ASSUME NEW b \in Builders, NEW t \in Tables, Scan(b, t) PROVE MartTypeOK'
  <2>1. [table |-> t, rows |-> WithEvents(lake)] \in Scans /\ OfEvents(WithEvents(lake))
    BY WithEventsOfEvents DEF Scans
  <2> DEFINE read == [table |-> t, rows |-> WithEvents(lake)]
  <2>2. read.rows = WithEvents(lake)
    OBVIOUS
  <2> HIDE DEF read
  <2>3. scan' = [scan EXCEPT ![b] = {read}]
    BY <1>7 DEF Scan, read
  <2>4. scan' \in [Builders -> SUBSET Scans] /\ \A c \in Builders : \A s \in scan'[c] : OfEvents(s.rows)
    BY <2>1, <2>2, <2>3 DEF MartTypeOK, read
  <2> QED
    BY <1>7, <2>4 DEF Scan, MartTypeOK, OfEvents
<1>8. ASSUME NEW b \in Builders, Swap(b) PROVE MartTypeOK'
  <2>1. PICK s \in scan[b] : mart' = [mart EXCEPT ![s.table] = s.rows] /\ todo' = [todo EXCEPT ![b] = @ \ {s.table}]
    BY <1>8 DEF Swap
  <2>2. mart' \in [Tables -> Lakes] /\ \A t \in Tables : OfEvents(mart'[t])
    BY <2>1, SwapWrites DEF MartTypeOK
  <2>3. todo' \in [Builders -> SUBSET (Tables \cup {Tests})]
    BY <2>1 DEF MartTypeOK
  <2>4. scan' \in [Builders -> SUBSET Scans] /\ \A c \in Builders : scan'[c] \subseteq scan[c]
    BY <1>8 DEF Swap, MartTypeOK
  <2> QED
    BY <1>8, <2>2, <2>3, <2>4 DEF Swap, MartTypeOK, OfEvents
<1>9. ASSUME NEW b \in Builders, Test(b) \/ NothingToScan(b) \/ BuildDies(b) PROVE MartTypeOK'
  <2>1. deaths' \in 0..MaxDeaths
    BY <1>9, MartAssumption, SMT DEF BuildDies, Test, NothingToScan, MartTypeOK
  <2>2. outcome' \in {"none", "passed", "failed"}
    BY <1>9 DEF BuildDies, Test, NothingToScan, Ends
  <2>3. /\ todo' \in [Builders -> SUBSET (Tables \cup {Tests})] /\ scan' \in [Builders -> SUBSET Scans]
        /\ \A c \in Builders : scan'[c] \subseteq scan[c]
    BY <1>9 DEF BuildDies, Test, NothingToScan, Ends, MartTypeOK
  <2> QED
    BY <1>9, <2>1, <2>2, <2>3 DEF BuildDies, Test, NothingToScan, MartTypeOK, OfEvents
<1>10. CASE UNCHANGED vars
  BY <1>10 DEF vars, MartTypeOK, OfEvents
<1> QED
  BY <1>1, <1>2, <1>3, <1>4, <1>5, <1>6, <1>7, <1>8, <1>9, <1>10 DEF Next, Converge, Dbt, Builders

\* In every state of every run each variable has its type, and no table has rows of
\* an hour without events.
THEOREM MartTypeCorrect == Spec => []MartTypeOK
  BY InitTypeOK, NextTypeOK, PTL DEF Spec

(***************************************************************************)
(* The invariant                                                           *)
(***************************************************************************)

LEMMA InitInv == Init => MartInv
<1> SUFFICES ASSUME Init PROVE MartInv
  OBVIOUS
<1>1. \A d \in Days : lake[d] = {} /\ walked[d] = {} /\ mart[Ecosystem][d] = {}
  BY MartAssumption DEF Init
<1>2. \A t \in Tables : mart[t] = mart[Ecosystem]
  BY MartAssumption DEF Init
<1>3. \A b \in Builders : todo[b] = {} /\ scan[b] = {}
  BY DEF Init
<1> QED
  BY <1>1, <1>2, <1>3, InitTypeOK DEF MartInv, Stages, Staged, Busy, DisagreementIsTold

\* What was a stage of a day stays one while the lake only grows on that day and
\* nothing else is walked.
LEMMA StageStays ==
    ASSUME NEW rows, NEW d \in Days, Staged(rows, d),
           walked' = walked, silent' = silent, lake[d] \subseteq lake'[d]
    PROVE  rows[d] \subseteq lake'[d]
           /\ (rows[d] \subseteq walked'[d] \/ WithEvents(walked')[d] \subseteq rows[d])
  BY DEF Staged, WithEvents

\* The lake moves under the check and the builds.
LEMMA LakeMoves ==
    ASSUME MartInv, NEW d \in Days,
           \/ DropDay(d)
           \/ \E h \in Hours : Land(d, h)
    PROVE  /\ \A e \in Days \ dropped' : Stages(e)'
           /\ \A b \in Builders : Busy(b)'
           /\ DisagreementIsTold'
<1> USE DEF status, build, counts
<1>1. /\ walked' = walked /\ mart' = mart /\ silent' = silent
      /\ todo' = todo /\ scan' = scan /\ outcome' = outcome /\ dropped \subseteq dropped'
  BY DEF DropDay, Land
<1>2. \A e \in Days \ dropped' : lake[e] \subseteq lake'[e]
  BY DEF DropDay, Land, MartInv, MartTypeOK, Lakes
<1>3. ASSUME NEW e \in Days \ dropped' PROVE Stages(e)'
  <2>1. Stages(e) /\ lake[e] \subseteq lake'[e]
    BY <1>1, <1>2 DEF MartInv
  <2>2. \A rows : Staged(rows, e) => rows[e] \subseteq lake'[e]
           /\ (rows[e] \subseteq walked'[e] \/ WithEvents(walked')[e] \subseteq rows[e])
    BY <1>1, <2>1, StageStays
  <2>3. WithEvents(walked)' = WithEvents(walked')
    BY <1>1 DEF WithEvents
  <2> QED
    BY <1>1, <2>1, <2>2, <2>3 DEF Stages, Staged
<1> QED
  BY <1>1, <1>3 DEF MartInv, Busy, DisagreementIsTold

\* The lake and the days that were dropped stand still in every other step.
LEMMA CheckKeeps ==
    ASSUME MartInv, Walk \/ Compare \/ CompareFails
    PROVE  /\ \A e \in Days \ dropped' : Stages(e)'
           /\ \A b \in Builders : Busy(b)'
           /\ DisagreementIsTold'
<1> USE DEF status, build, counts
<1>1. /\ mart' = mart /\ silent' = silent /\ lake' = lake /\ dropped' = dropped
      /\ todo' = todo /\ scan' = scan /\ outcome' = outcome
  BY DEF Walk, Compare, CompareFails
<1>2. (\A b \in Builders : Busy(b)') /\ DisagreementIsTold'
  BY <1>1 DEF MartInv, Busy, DisagreementIsTold
<1>3. CASE Walk
  BY <1>1, <1>2, <1>3 DEF Walk, MartInv, Stages, Staged
<1>4. CASE Compare \/ CompareFails
  <2>1. walked' = walked /\ WithEvents(walked)' = WithEvents(walked)
    BY <1>1, <1>4 DEF Compare, CompareFails, WithEvents
  <2> QED
    BY <1>1, <1>2, <2>1 DEF MartInv, Stages, Staged
<1> QED
  BY <1>3, <1>4

\* The lake and the check stand still while tables are built.
LEMMA BuildKeeps ==
    ASSUME MartInv, NEW b \in Builders, walked' = walked, silent' = silent,
           lake' = lake, dropped' = dropped,
           \A d \in Days \ dropped :
              /\ Staged(mart'[Ecosystem], d)
              /\ \A s \in scan'[b] : Staged(s.rows, d),
           \A c \in Builders \ {b} : scan'[c] = scan[c] /\ todo'[c] = todo[c],
           Busy(b)'
    PROVE  /\ \A e \in Days \ dropped' : Stages(e)'
           /\ \A c \in Builders : Busy(c)'
<1>1. WithEvents(walked)' = WithEvents(walked)
  BY DEF WithEvents
<1>2. ASSUME NEW d \in Days \ dropped PROVE Stages(d)'
  <2>1. \A c \in Builders : \A s \in scan'[c] : Staged(s.rows, d)
    BY DEF MartInv, Stages
  <2> QED
    BY <1>1, <2>1 DEF MartInv, Stages, Staged
<1> QED
  BY <1>2 DEF MartInv, Busy

\* What is scanned is what the lake has now, which is no less than was walked.
LEMMA ScanKeeps ==
    ASSUME MartInv, NEW b \in Builders, NEW t \in Tables, Scan(b, t)
    PROVE  /\ \A e \in Days \ dropped' : Stages(e)'
           /\ \A c \in Builders : Busy(c)'
           /\ DisagreementIsTold'
<1> USE DEF status, build, counts
<1> DEFINE read == [table |-> t, rows |-> WithEvents(lake)]
<1>1. /\ walked' = walked /\ silent' = silent /\ lake' = lake /\ dropped' = dropped
      /\ mart' = mart /\ todo' = todo /\ outcome' = outcome /\ t \in todo[b]
  BY DEF Scan
<1>2. /\ scan'[b] = {read} /\ read.rows = WithEvents(lake)
      /\ \A c \in Builders \ {b} : scan'[c] = scan[c]
  BY DEF Scan, MartInv, MartTypeOK
<1>3. ASSUME NEW d \in Days \ dropped PROVE Staged(WithEvents(lake), d)
  <2>1. lake \in Lakes /\ walked \in Lakes /\ walked[d] \subseteq lake[d]
    BY DEF MartInv, MartTypeOK, Stages
  <2>2. WithEvents(lake)[d] \subseteq lake[d] /\ WithEvents(walked)[d] \subseteq WithEvents(lake)[d]
    BY <2>1, WithEventsIs
  <2> QED
    BY <2>2 DEF Staged
<1>4. Busy(b)'
  BY <1>1 DEF MartInv, Busy
<1>5. \A d \in Days \ dropped : Staged(mart'[Ecosystem], d)
  BY <1>1 DEF MartInv, Stages
<1> HIDE DEF read
<1>6. \A d \in Days \ dropped : \A s \in scan'[b] : Staged(s.rows, d)
  BY <1>2, <1>3
<1> QED
  BY <1>1, <1>2, <1>4, <1>5, <1>6, BuildKeeps DEF MartInv, DisagreementIsTold

\* A swap puts a stage in the place of a stage, and the tests are still to come.
LEMMA SwapKeeps ==
    ASSUME MartInv, NEW b \in Builders, Swap(b)
    PROVE  /\ \A e \in Days \ dropped' : Stages(e)'
           /\ \A c \in Builders : Busy(c)'
           /\ DisagreementIsTold'
<1> USE DEF status, build, counts
<1>1. /\ walked' = walked /\ silent' = silent /\ lake' = lake /\ dropped' = dropped
      /\ outcome' = outcome
  BY DEF Swap
<1>2. PICK s \in scan[b] : /\ mart' = [mart EXCEPT ![s.table] = s.rows]
                           /\ todo' = [todo EXCEPT ![b] = @ \ {s.table}]
  BY DEF Swap
<1>3. /\ s.table \in Tables /\ mart'[s.table] = s.rows
      /\ \A t \in Tables \ {s.table} : mart'[t] = mart[t]
  BY <1>2, SwapWrites DEF MartInv
<1>4. \A d \in Days \ dropped : Staged(mart'[Ecosystem], d)
  <2>1. mart'[Ecosystem] = s.rows \/ mart'[Ecosystem] = mart[Ecosystem]
    BY <1>3, MartAssumption
  <2> QED
    BY <2>1 DEF MartInv, Stages
<1>5. /\ scan'[b] = {} /\ Tests \in todo'[b]
      /\ \A c \in Builders \ {b} : scan'[c] = scan[c] /\ todo'[c] = todo[c]
  <2>1. Tests \in todo[b] /\ Tests # s.table
    BY <1>2, <1>3, MartAssumption DEF MartInv, Busy
  <2> QED
    BY <1>2, <2>1 DEF Swap, MartInv, MartTypeOK
<1>6. DisagreementIsTold'
  BY <1>5 DEF DisagreementIsTold
<1> QED
  BY <1>1, <1>4, <1>5, <1>6, BuildKeeps DEF Busy

\* A build begins, or ends with what its tests say or in failure.
LEMMA EndsKeep ==
    ASSUME MartInv, NEW b \in Builders,
           Build(b) \/ Test(b) \/ NothingToScan(b) \/ BuildDies(b)
    PROVE  /\ \A e \in Days \ dropped' : Stages(e)'
           /\ \A c \in Builders : Busy(c)'
           /\ DisagreementIsTold'
<1> USE DEF status, build, counts, Ends
<1>1. /\ walked' = walked /\ silent' = silent /\ lake' = lake /\ dropped' = dropped
      /\ mart' = mart
  BY DEF Build, Test, NothingToScan, BuildDies
<1>2. /\ \A c \in Builders \ {b} : scan'[c] = scan[c] /\ todo'[c] = todo[c]
      /\ scan'[b] \subseteq scan[b]
      /\ todo'[b] = {} => scan'[b] = {}
      /\ todo'[b] # {} => Tests \in todo'[b]
  BY DEF Build, Test, NothingToScan, BuildDies, MartInv, MartTypeOK
<1>3. DisagreementIsTold'
  <2>1. CASE Build(b)
    BY <2>1 DEF Build, DisagreementIsTold, MartInv, MartTypeOK
  <2>2. CASE Test(b)
    BY <1>1, <2>2 DEF Test, Reconciled, DisagreementIsTold
  <2>3. CASE NothingToScan(b) \/ BuildDies(b)
    BY <2>3 DEF NothingToScan, BuildDies, DisagreementIsTold
  <2> QED
    BY <2>1, <2>2, <2>3
<1>4. Busy(b)'
  BY <1>2 DEF Busy
<1>5. \A d \in Days \ dropped :
         /\ Staged(mart'[Ecosystem], d)
         /\ \A s \in scan'[b] : Staged(s.rows, d)
  BY <1>1, <1>2 DEF MartInv, Stages
<1> QED
  BY <1>1, <1>2, <1>3, <1>4, <1>5, BuildKeeps

LEMMA NextInv == MartInv /\ [Next]_vars => MartInv'
<1> SUFFICES ASSUME MartInv, [Next]_vars
             PROVE  /\ \A e \in Days \ dropped' : Stages(e)'
                    /\ \A b \in Builders : Busy(b)'
                    /\ DisagreementIsTold'
  BY NextTypeOK DEF MartInv
<1>1. CASE UNCHANGED vars
  <2>1. WithEvents(walked)' = WithEvents(walked)
    BY <1>1 DEF vars, WithEvents
  <2> QED
    BY <1>1, <2>1 DEF vars, MartInv, Stages, Staged, Busy, DisagreementIsTold
<1>2. CASE \E d \in Days : DropDay(d) \/ \E h \in Hours : Land(d, h)
  BY <1>2, LakeMoves
<1>3. CASE Walk \/ Compare \/ CompareFails
  BY <1>3, CheckKeeps
<1>4. CASE \E b \in Builders : Build(b) \/ Dbt(b) \/ BuildDies(b)
  BY <1>4, ScanKeeps, SwapKeeps, EndsKeep DEF Dbt
<1> QED
  BY <1>1, <1>2, <1>3, <1>4 DEF Next, Converge, Builders

\* The invariant holds in every state of every run.
THEOREM MartInvariant == Spec => []MartInv
  BY InitInv, NextInv, PTL DEF Spec

(***************************************************************************)
(* The promises                                                            *)
(***************************************************************************)

\* A day of which as many hours were walked as the mart has, or fewer, of two stages
\* of the lake, misses none of the events that were walked.
LEMMA PassedMissesNothing ==
    ASSUME MartInv, NEW d \in Days \ dropped, ~Stale(d)
    PROVE  WithEvents(walked)[d] \subseteq mart[Ecosystem][d]
<1>1. CASE mart[Ecosystem][d] \subseteq walked[d]
  <2>1. walked[d] \in SUBSET Hours /\ mart[Ecosystem][d] \in SUBSET Hours
    BY MartAssumption DEF MartInv, MartTypeOK, Lakes
  <2>2. IsFiniteSet(walked[d]) /\ IsFiniteSet(mart[Ecosystem][d])
    BY <2>1, MartAssumption, FS_Subset
  <2>3. Cardinality(walked[d]) <= Cardinality(mart[Ecosystem][d])
    BY PassedIsAsMany DEF MartInv
  <2>4. /\ Cardinality(mart[Ecosystem][d]) <= Cardinality(walked[d])
        /\ Cardinality(walked[d]) = Cardinality(mart[Ecosystem][d])
              => walked[d] = mart[Ecosystem][d]
    BY <1>1, <2>2, FS_Subset
  <2>5. Cardinality(walked[d]) \in Nat /\ Cardinality(mart[Ecosystem][d]) \in Nat
    BY <2>2, FS_CardinalityType
  <2>6. walked[d] = mart[Ecosystem][d]
    BY <2>3, <2>4, <2>5, SMT
  <2> QED
    BY <2>6, WithEventsIs DEF MartInv, MartTypeOK
<1>2. CASE ~(mart[Ecosystem][d] \subseteq walked[d])
  BY <1>2 DEF MartInv, Stages, Staged
<1> QED
  BY <1>1, <1>2

\* A check that passes counts as many hours of a day as it walked, of which one
\* moment is the earlier: no event of a file it counted is missing from the marts.
THEOREM PassedIsReflected == Spec => FreshMeansReflected
<1> DEFINE Says == verdict # "ok" /\ verdict' = "ok" =>
                      \A d \in Days \ dropped : WithEvents(walked)[d] \subseteq mart[Ecosystem][d]
<1>1. MartInv /\ [Next]_vars => [Says]_vars
  <2> SUFFICES ASSUME MartInv, [Next]_vars, verdict # "ok", verdict' = "ok"
               PROVE  \A d \in Days \ dropped : WithEvents(walked)[d] \subseteq mart[Ecosystem][d]
    OBVIOUS
  <2>1. Compare
    BY DEF Next, Converge, Dbt, DropDay, Land, Walk, CompareFails, Build, Scan, Swap, Test,
           NothingToScan, BuildDies, status, vars
  <2>2. \A d \in Days : ~Stale(d)
    BY <2>1 DEF Compare
  <2> QED
    BY <2>2, PassedMissesNothing
<1> QED
  BY <1>1, MartInvariant, PTL DEF Spec, FreshMeansReflected

\* Tables that tell of different hours are being built, or the last build to end,
\* of any number at a time, said that it failed.
THEOREM NoSilentDisagreement == Spec => []DisagreementIsTold
<1>1. MartInv => DisagreementIsTold
  BY DEF MartInv
<1> QED
  BY <1>1, MartInvariant, PTL
=============================================================================
