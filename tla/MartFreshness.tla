--------------------------- MODULE MartFreshness ---------------------------
(***************************************************************************)
(* marts-converge: compare the hours the lake holds with the hours the     *)
(* marts say they were built from, and build them if they are behind.      *)
(* Hours land and whole days are dropped meanwhile, a build reads the lake *)
(* once for every table, and anybody may build by hand.  Nothing keeps two *)
(* builds apart but the database, which replaces a table in one step.      *)
(*                                                                         *)
(* A table is, for each day, the hours its rows come from: a day without   *)
(* rows and a table that does not exist are the empty set.                 *)
(***************************************************************************)
EXTENDS Naturals, FiniteSets

CONSTANTS
    Days,
    Hours,        \* the hours of a day
    Published,    \* the << day, hour >> that may land
    Tables,       \* the marts; the check reads one of them
    MaybeSilent,  \* those that may be published with no events
    Hands,        \* who builds by hand
    MaxDrops, MaxHands, MaxDeaths  \* bounds of the model

Ecosystem == "ecosystem_daily"
Tests     == "tests"     \* what a build does last
Converger == "converge"
Builders  == Hands \cup {Converger}

ASSUME MartAssumption ==
    /\ IsFiniteSet(Days) /\ IsFiniteSet(Hours) /\ Ecosystem \in Tables
    /\ Tests \notin Tables /\ Converger \notin Hands
    /\ Published \subseteq Days \X Hours /\ MaybeSilent \subseteq Published
    /\ MaxDrops \in Nat /\ MaxHands \in Nat /\ MaxDeaths \in Nat

VARIABLES
    silent,   \* hours with no events
    lake,     \* for each day, the hours that have a file
    dropped,  \* days an aggregate removed from the lake
    check,    \* where marts-status stands
    walked,   \* the lake as it walked it
    verdict,  \* what it said last
    todo,     \* what each build in progress has yet to do
    scan,     \* the table it is at and the rows it has scanned for it
    mart,     \* the tables
    outcome,  \* what dbt build said last
    drops, hands, deaths

vars == << silent, lake, dropped, check, walked, verdict, todo, scan, mart, outcome,
           drops, hands, deaths >>
status == << check, walked, verdict >>
build  == << todo, scan, mart, outcome >>
counts == << drops, hands, deaths >>

Lakes == [Days -> SUBSET Hours]
Scans == [table : Tables, rows : Lakes]

\* No row tells of an hour without events.
OfEvents(rows) == \A d \in Days : \A h \in rows[d] : << d, h >> \notin silent

MartTypeOK ==
    /\ silent \subseteq MaybeSilent
    /\ lake \in Lakes /\ walked \in Lakes /\ dropped \subseteq Days
    /\ mart \in [Tables -> Lakes]
    /\ scan \in [Builders -> SUBSET Scans]
    /\ \A t \in Tables : OfEvents(mart[t])
    /\ \A b \in Builders : \A s \in scan[b] : OfEvents(s.rows)
    /\ check \in {"idle", "walked", "building"}
    /\ verdict \in {"none", "ok", "stale"}
    /\ todo \in [Builders -> SUBSET (Tables \cup {Tests})] /\ outcome \in {"none", "passed", "failed"}
    /\ drops \in 0..MaxDrops /\ hands \in 0..MaxHands /\ deaths \in 0..MaxDeaths

Init ==
    /\ silent \in SUBSET MaybeSilent
    /\ lake = [d \in Days |-> {}] /\ dropped = {}
    /\ check = "idle" /\ walked = lake /\ verdict = "none"
    /\ todo = [b \in Builders |-> {}] /\ scan = todo
    /\ mart = [t \in Tables |-> lake] /\ outcome = "none"
    /\ drops = 0 /\ hands = 0 /\ deaths = 0

\* Mutant of WithEvents: a file is an hour, whatever is in it.
WithEventsAll(hours) == hours

\* The hours there are rows of.
WithEvents(hours) == [d \in Days |-> {h \in hours[d] : << d, h >> \notin silent}]

----------------------------------------------------------------------------
Land(d, h) ==
    /\ << d, h >> \in Published /\ h \notin lake[d]
    /\ lake' = [lake EXCEPT ![d] = @ \cup {h}]
    /\ UNCHANGED << silent, dropped, status, build, counts >>

\* aggregate, once its own files are written.
DropDay(d) ==
    /\ lake[d] # {} /\ drops < MaxDrops
    /\ lake' = [lake EXCEPT ![d] = {}]
    /\ dropped' = dropped \cup {d} /\ drops' = drops + 1
    /\ UNCHANGED << silent, status, build, hands, deaths >>

----------------------------------------------------------------------------
\* lake_hours_by_day: the files are counted first.
Walk ==
    /\ check = "idle"
    /\ check' = "walked" /\ walked' = lake /\ verdict' = "none"
    /\ UNCHANGED << silent, lake, dropped, build, counts >>

\* Mutant of Kind: only the days the marts have are looked at.
KindJoined(in_lake, built) ==
    IF built = 0 \/ in_lake = built THEN "current" ELSE IF built < in_lake THEN "behind" ELSE "surplus"

\* Mutant of Kind: built from more than the lake holds is a failure too.
KindStrict(in_lake, built) == IF in_lake = built THEN "current" ELSE "behind"

\* DayDrift.kind, of the two counts.
Kind(in_lake, built) ==
    IF in_lake = built THEN "current"
    ELSE IF built = 0 THEN "unbuilt"
    ELSE IF built < in_lake THEN "behind" ELSE "surplus"

Stale(d) == Kind(Cardinality(walked[d]), Cardinality(mart[Ecosystem][d])) \in {"unbuilt", "behind"}

\* marts_freshness: then the marts are asked.  Exit 3 is what makes a build.
Compare ==
    /\ check = "walked"
    /\ IF \E d \in Days : Stale(d)
       THEN verdict' = "stale" /\ check' = "building"
       ELSE verdict' = "ok" /\ check' = "idle"
    /\ UNCHANGED << silent, lake, dropped, walked, build, counts >>

\* The database is not there: not an answer, and not a build.
CompareFails ==
    /\ check = "walked" /\ deaths < MaxDeaths
    /\ check' = "idle" /\ deaths' = deaths + 1
    /\ UNCHANGED << silent, lake, dropped, walked, verdict, build, drops, hands >>

----------------------------------------------------------------------------
\* dbt build, from marts-converge or from anywhere.
Build(b) ==
    /\ todo[b] = {} /\ todo' = [todo EXCEPT ![b] = Tables \cup {Tests}]
    /\ \/ b = Converger /\ check = "building" /\ check' = "idle" /\ hands' = hands
       \/ b \in Hands /\ hands < MaxHands /\ hands' = hands + 1 /\ check' = check
    /\ UNCHANGED << silent, lake, dropped, walked, verdict, scan, mart, outcome, drops, deaths >>

\* A table is computed from a scan of the lake of its own.
Scan(b, t) ==
    /\ scan[b] = {} /\ t \in todo[b] /\ \E d \in Days : lake[d] # {}
    /\ scan' = [scan EXCEPT ![b] = {[table |-> t, rows |-> WithEvents(lake)]}]
    /\ UNCHANGED << silent, lake, dropped, status, todo, mart, outcome, counts >>

Ends(b, as) ==
    /\ todo' = [todo EXCEPT ![b] = {}] /\ scan' = [scan EXCEPT ![b] = {}] /\ outcome' = as

\* A scan of no files at all is an error.
NothingToScan(b) ==
    /\ scan[b] = {} /\ todo[b] \cap Tables # {} /\ \A d \in Days : lake[d] = {}
    /\ Ends(b, "failed")
    /\ UNCHANGED << silent, lake, dropped, status, mart, counts >>

\* Mutant of Swap: rows are added to the days a table has none of.
SwapAppending(b) ==
    /\ \E s \in scan[b] :
          /\ mart' = [mart EXCEPT ![s.table] = [d \in Days |-> IF @[d] # {} THEN @[d] ELSE s.rows[d]]]
          /\ todo' = [todo EXCEPT ![b] = @ \ {s.table}]
    /\ scan' = [scan EXCEPT ![b] = {}]
    /\ UNCHANGED << silent, lake, dropped, status, outcome, counts >>

\* What was scanned takes the place of the table.
Swap(b) ==
    /\ \E s \in scan[b] :
          /\ mart' = [mart EXCEPT ![s.table] = s.rows]
          /\ todo' = [todo EXCEPT ![b] = @ \ {s.table}]
    /\ scan' = [scan EXCEPT ![b] = {}]
    /\ UNCHANGED << silent, lake, dropped, status, outcome, counts >>

\* Mutant of Reconciled: the models are not compared with each other.
ReconciledNot(marts) == TRUE

\* assert_marts_reconcile
Reconciled(marts) == \A t \in Tables : marts[t] = marts[Ecosystem]

\* After the last table, the tests.
Test(b) ==
    /\ todo[b] = {Tests}
    /\ Ends(b, IF Reconciled(mart) THEN "passed" ELSE "failed")
    /\ UNCHANGED << silent, lake, dropped, status, mart, counts >>

\* Killed, or ended by a model or a test that fails on the way, such as a table
\* that another build is writing too.
BuildDies(b) ==
    /\ todo[b] # {} /\ deaths < MaxDeaths
    /\ Ends(b, "failed") /\ deaths' = deaths + 1
    /\ UNCHANGED << silent, lake, dropped, status, mart, drops, hands >>

Converge == Walk \/ Compare \/ Build(Converger)
Dbt(b)   == NothingToScan(b) \/ Swap(b) \/ Test(b) \/ \E t \in Tables : Scan(b, t)

Next ==
    \/ \E d \in Days : DropDay(d) \/ \E h \in Hours : Land(d, h)
    \/ Converge \/ CompareFails
    \/ \E b \in Hands : Build(b)
    \/ \E b \in Builders : Dbt(b) \/ BuildDies(b)

Spec == Init /\ [][Next]_vars

\* marts-converge is run again and again, and a build that started goes on.
FairSpec == Spec /\ WF_vars(Converge) /\ \A b \in Builders : WF_vars(Dbt(b))

----------------------------------------------------------------------------
(***************************************************************************)
(* Properties                                                              *)
(***************************************************************************)

\* "Every day the lake holds is reflected in the marts" is what a check that
\* passes says: though it compares counts, read at two moments, no event it had
\* a file of is missing from the marts as they are when it passes.  Only a day that
\* was dropped and ingested anew can have as many hours as its row and not be the
\* hours of its row.
FreshMeansReflected ==
    [][verdict # "ok" /\ verdict' = "ok" =>
          \A d \in Days \ dropped : WithEvents(walked)[d] \subseteq mart[Ecosystem][d]]_vars

\* Tables that tell of different hours are not left behind by builds of which the
\* last to end said it passed; while one is in progress they may differ.
DisagreementIsTold ==
    (\E t \in Tables : mart[t] # mart[Ecosystem]) =>
        (\E b \in Builders : todo[b] # {}) \/ outcome = "failed"

\* Whatever was built by hand or killed, overtaken by new hours or written over with
\* an older scan, the published days become what the lake holds and stay so.
LakeIsPublished ==
    \A d \in Days : <>[](d \notin dropped /\ lake[d] = WithEvents(lake)[d] => mart[Ecosystem][d] = lake[d])

\* Over a lake at rest there is in the end no build: one that is due is the last,
\* unless a day has an hour without events, which is counted as a file and never
\* as an hour of the marts.
RebuildsStop ==
    (\A d \in Days, h \in Hours : << d, h >> \notin silent) => <>[]((\A b \in Builders : todo[b] = {}) /\ check # "building")
=============================================================================
