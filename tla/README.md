# reporadar in TLA+

reporadar captures public GitHub activity along two lines. The *archive line*
downloads the hourly GH Archive files, converts each into a Parquet file of a
lake and records what became of the hour in a Postgres table. The *live line*
polls `/events`, writes what is new to hourly NDJSON files, hands it to a Kafka
topic, and consumes that topic into a validated store. Around them sit a
verification and a repair of the lake, a nightly aggregate whose files are
committed to the repository, a scan of that history, marts built from the lake
when they are behind it, and a provisioner for the topics.

This directory holds the specifications of those lines, the TLC configurations
that check them, and the TLAPS proofs about each line. Paths below are
relative to `src/reporadar/` unless they start elsewhere in the repository.

## The parts of the system

| component | state it keeps | operations | who else touches it |
|---|---|---|---|
| archive ledger (`ingest/ledger.py`) | table `archive_hours`: one row per hour, `ingested`, `missing` or `failed` | upsert guarded against downgrade, pending scan, claims scan, delete of false claims | archive-serve, backfill, repair-lake, verify, all at once |
| hour ingest (`ingest/hour.py`, `ingest/archive.py`) | `archive_dir`: one source per hour and its `.part` | download, convert, record, discard | every process that ingests |
| lake writer (`ingest/lake.py`) | `lake_dir`: one Parquet file per hour and its `.part` | staged write, verification, rename | the same, and people who reclaim disk |
| convergence loop (`ingest/converge.py`) | one pass in memory | scan a window, ingest what is outstanding under a semaphore | restarted by the supervisor |
| verification (`ingest/verify.py`) | none | compare every claim with its file | runs beside the writers |
| repair (`ingest/repair.py`) | the claims it read | check, delete the false claims, fetch again, reconcile | runs beside the writers |
| live capture (`ingest/service.py`, `ingest/poller.py`, `github/client.py`, `ingest/sinks.py`) | dedup window and ETags in memory, NDJSON files and rejects on disk | sweep pages, dedupe, append, stream, reject | stop signals, throttling, restarts |
| stream consumer (`ingest/consumer.py`, `ingest/kafka.py`, `ingest/store.py`) | dedup window in memory, `events` table, dead-letter topic, committed offsets | pull, decode, store, dead-letter, commit | the consumer group |
| dedup window (`ingest/dedup.py`) | at most `maxlen` ids | `add` | both live loops |
| daily aggregate (`ingest/aggregate.py`) | two Parquet files per day | fetch and convert a day hour by hour, reduce it to the two files, drop the lake's files of the day | the archive line, over the same directories |
| history scan (`ingest/gaps.py`) and the nightly job (`.github/workflows/aggregate.yml`) | the committed days, the run log, the schedule | aggregate yesterday, scan, record, commit and push, fail | GitHub, which drops nights; the owner |
| marts freshness (`marts/freshness.py`, `Makefile`, `dbt/`) | the mart tables | compare hours of the lake with hours of the marts, build if behind | writers of the lake, whoever builds by hand |
| topic provisioning (`ingest/topics.py`) | the broker's topics | describe, create what is absent, describe again; refuse to start without | other provisioners, the broker's metadata |
| run counters, bounded sampler, configuration, overlap analysis, site builder | reports or files of their own | | |

What is hard here: nothing but the table's statements and the file system's
renames orders the archive processes, and staging files have no process in their
name; every effect is made durable in a sequence of steps a crash can cut; time
decides when an absent hour is given up; a repair looks, and acts later; the live
line remembers in memory (window, tags) what it did on disk or in a broker; a
consumer group moves partitions under a consumer that is in the middle of a
batch; a broker describes late what it created; what is reported is compared at
two moments, or by counts; the one thing that tells of a failed night is the
status of a run. `PROJECT.json` lists each hazard at its line with the property that
answers it.

What makes each part correct:

- *ledger and ingest*: a row that claims success describes the file in the lake;
  a success is never taken back by a scheduler; an hour is given up only if it
  was not published in its grace; a scheduler removes a source only after the row; an
  hour is recorded failed only for what the publisher served or for a local fault
  it met; every other good hour lands in the end.
- *repair*: what it calls recovered is, and an hour it cleared does not stay without
  a row.
- *consumer*: no offset is committed over a message that is neither stored nor
  dead-lettered; offsets do not go back; the window never swallows an event;
  every message is in the end done with.
- *capture*: what the client tells the server it has is kept; the stream carries
  what the file has, but for one event per write cut short; what the feed ends on is
  captured or kept as a reject, but for what a throttled sweep of the present run
  had read, and for such events.
- *aggregate*: the report is true of both files; what is short is explained; what
  is dropped was counted, except hours that landed after the reads; re-runs make the day whole.
- *nightly job*: the schedule stays on; a short day was told of; a green run is on
  the branch; the scan is healthy exactly if no day is owed.
- *marts*: when a check passes, nothing the lake held as it was walked is missing
  from the marts; tables that differ come of a build that failed; builds end.
- *topics*: success means that the topics exist, and a clean report that they have
  the size asked for; only a refusal by the broker fails a creation; the services
  start in the end.

## Modules

| module | models | extends |
|---|---|---|
| `HourLedger` | hours and days, lake files, the table's rows and its four statements, the check of one claim | |
| `HourLifecycle` | the abstract ledger: one atomic, justified decision per step | `HourLedger` |
| `HourIngest` | archive-serve and backfill processes over shared directories and table | `HourLedger` |
| `LakeRepair` | repair-lake beside them | `HourIngest` |
| `DedupWindow` | `RecentIds` | |
| `LiveConsumer` | a group of consumers, the broker they rely on, store and dead-letter topic | `DedupWindow` |
| `Delivery` | at-least-once delivery in the abstract, which `LiveConsumer` implements | |
| `LiveCapture` | serve, the feed, the file, the stream | `DedupWindow` |
| `DayAggregate` | `aggregate_day` beside the archive loop | |
| `DailyHistory` | the nightly job, the committed days, the scan of them | |
| `MartFreshness` | `marts-converge`: the check, the build, the lake under both | |
| `TopicProvision` | provisioners, the broker, the services that wait for topics | |
| `HourIngestProofs`, `LiveConsumerProofs`, `LiveCaptureProofs`, `DayAggregateProofs`, `DailyHistoryProofs`, `MartFreshnessProofs`, `TopicProvisionProofs` | the theorems about the module each is named for | that module, `TLAPS`, theorem modules of the library |
| `LakeRepairProofs` | the theorems about `LakeRepair` | `LakeRepair`, `HourIngestProofs` |
| `MC*` | the values the configurations give to the constants | |

Definitions named *Mutant of X* are variants of a definition with one plausible
bug in it; no specification uses them. They are there to be put in X's place: the
property listed with them in `PROJECT.json` then fails.

### HourLedger, HourIngest

An hour is its index and the clock counts hours. A lake file is its event count
and its size, which is all the checks read. `row` is the table, `source` and
`lake` the two directories, `pass[p]` says whether process `p` is inside
`converge_once` and which instant it took as `now`, `work[p][h]` is where
`ingest_hour` stands, `report[p][h]` the `HourReport` it carries. A step ends at
an `await` or at an effect another process can see:

| actions | code |
|---|---|
| `StartPass`, `EndPass` | `converge_once` scanning and returning; a loop calls it again |
| `Begin` | the semaphore admits the hour; `download_hour` finds or does not find the file |
| `Fetch`, `FetchAbsent`, `FetchFails`, `FetchDies` | the request: content renamed into place, a 404, a transport error, an `OSError` on the staging file |
| `Open`, `Land`, `LandFails`, `LandDies` | `write_hour`: read and convert, verify and rename, or fail on the staging file |
| `Record`, `Discard` | the upsert; the removal of the source |
| `Crash` | the process is killed between any two of these |
| `Tick`, `Publish`, `Damage` | the clock, the publisher, and a lake file removed or replaced from outside ("Deleting a partition directory is a documented way to reclaim disk", `ingest/repair.py`) |
| `Unlink` | `aggregate_day` removes the source of an hour it converted, recorded or not (`ingest/aggregate.py:396-398`) |
| `LocalFault` | the disjunct of `LandFails` for one process by itself: a full disk or another local error, which DuckDB raises as the `IOException` it raises for a corrupt file |

Staging files have a shared name, so `clash` remembers which processes have
written one hour's staging file at the same time. From then on the first to
rename may promote a file the other is rewriting (`Torn`, which never converts),
and the other may find its staging file gone. DuckDB's `COPY` is taken to leave a
whole file or none at the staged name, so a contended conversion ends whole, as
a failure, or as an error nothing catches. What `aggregate_day` does to the shared
directories is covered by these: its downloads and conversions are like those of one
more process, its drop of the lake is `Damage`, its removal of a source `Unlink`,
and a clash with its staging file `LocalFault`. An uncaught error ends the process at
once; the threads of the dying run that still work are the same to the others as
a crash a little later.

`lost`, `spoiled`, `damage`, `publishedAt` are observers: no process reads them.
`spoiled` are the hours of which a fetch or conversion met a fault that is not the
publisher's, `damage` the budget the outside faults share.

Abstractions: the argument validation in `record_hour`, rows with a null byte
count, the `detail` texts, the counters, `stop` and `--max-passes` are left out.
archive-serve and backfill discard sources and repair-lake keeps them, their
defaults. Reading the clock and scanning the table are one step.

### LakeRepair

`fix[r]` holds a repair's step and what it has in its hands: the claims, then
what verify read (a second time), the unbacked hours, the cleared ones, the
reconciliation. `Refetch` is `ingest_hour` of `HourIngest` in the repair's own
name. A dry run stops after the check. `struck` is an observer. The bytes and the
counts of a claim are compared as `verify._check` does: counts come from a
`GROUP BY`, so a file with no rows yields no count.

### DedupWindow, LiveConsumer

A message that decodes is its event's id; the others are in `Corrupt`. Of Kafka
only what the code relies on is modelled, as external: a log per partition,
committed offsets, a coordinator that gives each partition to one member, and a
client that adopts a new assignment in the background and restarts its partitions
from the committed offset. `Pull` is `getmany`; `owed` is "the generator has
handed out a batch and the loop has not come back"; `Decode` one turn of the
message loop; `Store` and `StoreFails` the transaction; `Letter` and
`LetterFails` the dead-letter sink; `Commit` and `CommitFails` the commit. A
commit is refused to a client that has not adopted the current assignment. `End`
is a kill at any point or a stop at the top of the loop, since neither commits.
Messages of one batch from several partitions are decoded in any interleaving
that keeps each partition's order. Triage reasons, counters, and the bytes of the
envelopes are left out.

`Delivery` says in three actions what the read side promises: a message arrives,
has its effect some time later and keeps it, and an offset moves only forward and
only over messages that have had theirs. The refinement takes "has had its
effect" to be "is in the store or in the dead-letter topic".

### LiveCapture

Feed items are numbered as published and served newest first. `Read` is one page
of `poll_once`: `Answer` is a 304 when the page is what it was at the last read,
and an item on two pages is read twice. The sweep's end, `dedupe`, and the window
are one step with the last page (`Swept`), because nothing awaits in between.
`Sink`, `Stream` and `StreamDrops`, `Reject` follow; `Die` ends the run between
two effects, `SinkCutShort` inside a write, which may leave a fragment that the
next append joins (`torn`, `garbled`). `RateLimited` unwinds the sweep and keeps
the client; `dropped` observes what that sweep had read. Files are one file here:
the hour buckets decide only which file a fragment is in. A rejects file cut
short, `--cycles`, the cadence and the retries within a request are left out.

### DayAggregate

An hour's content is `events`, `silent` (a published hour with none) or `broken`.
A source or lake file is the hour it holds, an aggregate file the set of hours its
rows come from. `FetchHour`/`HourUnavailable`, `Convert`/`ConvertFails` are one
turn of the loop in `aggregate_day`; `WriteEcosystem` and `WriteRepository` are the
two staged writes, each a rename over the last file; `DropLakeDay` and `Report`
follow. What `write_hour` and `_write_checked` raise (`ConvertFails`, `WriteFails`), an
empty lake, and `Kill` end the run. A full disk or a clash of two processes on a
`.part` file is a `LocalFault`, of which there are as many as kills are left. `LookUp`
is the one test for a source; a download that began without one may fail although the
archive loop has fetched the hour meanwhile. The
archive loop beside it (`ServeFetch` to `ServeDiscards`) is `HourIngest` reduced to
what the two share: the two directories. The `keep_source` and `keep_lake` flags
are chosen at each `Start`. An hour the loop recorded as failed is asked for again
or not (`ServeFails`), as a backfill may. `late` observes what landed after the ecosystem file
was read. Fetches time out, refuse or find nothing: all are `HourUnavailable`.

### DailyHistory

A day on the branch is absent, torn (one file of two), partial or whole. Each
night is dropped by GitHub or begins a run: `Aggregate`, `AggregateFails` or
`Cancelled`; `HistoryStatus`, whose pipe into `tee` makes its outcome `success`
whatever the scan says; `Push` or `PushRefused`; `Verdict`. `NextDay` switches the
schedule off after `IdleDays` without a commit. `Stalled`, `MissingDays` and
`Healthy` are `scan_history` as operators. `told` and `lost` are observers. GitHub
is external; of it only what the comments of the workflow rely on is modelled.

### MartFreshness

A lake and a table are, per day, the hours they hold. `Walk` counts the files,
`Compare` the hours of the marts, later; exit 3 is what leads to `Build`. A build
computes each table from a scan of the lake of its own (`Scan`) and puts it in the
place of the last (`Swap`, one step: dbt renames inside a transaction), and then
tests that the tables agree (`Test`, `Reconciled`, which compares sums in the code and sets of hours here: events
of different hours are taken to have different sums). Builds by hand go on beside that of marts-converge, since neither the
`Makefile` nor dbt has a lock; a build that fails because another holds the same
temporary table is a `BuildDies`. Two overlapping builds may write an older scan
last, so that a table goes back in time. `DropDay` is the aggregate's
drop. `dropped` is an observer.

### TopicProvision

A topic is its size: its partitions and the replicas of each. `visible` are the topics the broker
describes, which `Propagate` makes catch up. `Begin` to `Refresh` is
`ensure_topics`, request by request; `Check` is `verify_topics`; `Create` answers
topic by topic, so one may be refused and the other created. `Fault` is any
request that fails, a creation after the broker acted on it included. The broker
refuses a topic by policy (`refused`) or for want of brokers. `Require` is
`require_topics` in `serve` and `consume`, which compose starts after a
provisioning succeeded.

## Runs

Every passing run finishes with no error; bounds are the smallest at which each
case of the code occurs, as the mutants confirm.

| run | asks | bounds and why |
|---|---|---|
| `HourIngest_race` | all safety properties and the refinement; is every failure explained | one hour, which is all two processes can fight over: rows, files and reports of different hours do not interact except through the semaphore. Two contents (one of them empty), one damage, one crash, a clock past the grace |
| `HourIngest_loop` | does every timely hour land | two hours, both in the window the property speaks of, and concurrency 1, so that they contend for the semaphore; one loop, one crash, one local fault, unlinked source or damage; a clock that leaves the hours inside the lookback window |
| `LakeRepair_beside` | with a repair beside a loop: the refinement, is what it calls recovered backed, do cleared hours settle | two damages, before the check and after the recovery; one crash; one content, so that `--counts` plays no part |
| `LiveConsumer_safe` | no early commit, no swallowed event, and the refinement of `Delivery` | two consumers, two partitions, two messages on either or both, window 1 so that it evicts; consumers and partitions are symmetric, and nothing in the run is temporal but the steps of the refinement. Any number of runs end in failed writes and commits, and each end or start calls for a rebalance |
| `LiveConsumer_live` | is every message handled | one consumer, as deployed, on two partitions, one kill, one rebalance for no reason, any number of failed writes; no symmetry |
| `LiveCapture_sweep` | how far may the stream run ahead of the file; is what is tagged kept; what may be lost for good | two pages of two and four items, so that items move from page to page between two reads; window 1; the third item redacted; one write cut short; one run killed or stopped; throttling at any page, any number of times. The longest run, some minutes |
| `DayAggregate_rerun` | is the report true of both files, what may a drop and a re-run lose, does the day become whole in both files | a day of two hours, each with events, silent or broken; any number of runs with any flags; one kill or local fault anywhere, and the archive loop throughout. Two hours are enough for one to be missing, silent or broken and the other not, and for one to land before and one after a read |
| `MartFreshness_converge` | does a passing check speak the truth, is a disagreement told, are the marts built, do builds end | one day of two hours, of which one may be silent; two tables; the day dropped once, one build by hand at any time, one death or failed check. Two hours on one day give a count that is behind but not zero; days meet only in "no file at all" and in a build's reading them together, and the theorems are of any number of days |
| `DailyHistory_nights` | schedule, short days, green runs, scan | five days, grace 1, a schedule lost after three idle days, two nights lost in a row, one run by hand. The days outlast stall, hole and the repair of a hole by hand |
| `TopicProvision_race` | who fails, is the report true, do the services start | two provisioners that differ in both settings, one or two brokers, so that one of them may ask for more replicas than there are; two topics of which `serve` needs one and `consume` both; one topic made by hand in any size that mixes the settings, one fault, any set of refused topics |

The deadlock check is on except in the two `DailyHistory` runs, which end at their
last day.

### Runs that are expected to fail

Each of these checks one sentence of the documentation or the comments, and TLC
shows a behaviour of the code that contradicts it. The `findings` of
`PROJECT.json` quote the sentence.

| run | what happens |
|---|---|
| `LiveConsumer_poison` | an event the database refuses ends every run that meets it |
| `DailyHistory_deaf` | a night is dropped, its day is never aggregated, the scan exits 3, and the run is green |

### Observations without a run

Behaviours of the code met while modelling it. The models contain them; the
properties that hold are stated so as to leave exactly them out.

Against what the documentation or a comment says:

- *Two downloads share one staging file* (`ingest/archive.py:41`): one renames just
  after the other truncated it, and a sound hour is recorded as failed. "Files are
  written to `<name>.part` and atomically renamed on success, so a crashed download
  can never masquerade as a complete hour" (`archive.py:3-5`); failed is "The hour
  was fetched and could not be trusted" (`ledger.py:74`). `FailureHasACause` says
  that a failure comes of this, of the next observation, or of the publisher.
- *A local fault is recorded as a corrupt hour* (`ingest/hour.py:148-154`): a full
  disk while the Parquet file is written, or a source that `aggregate` unlinked
  (`ingest/aggregate.py:396-398`), raises `duckdb.IOException`, which is one of the
  errors taken to mean "this hour cannot be trusted" (`hour.py:45-55`). A sound hour
  is then `failed`, "retrying will not help" (`ledger.py:74`), and no pass of
  archive-serve asks for it again; an explicit backfill does. `TimelyHourLands` says that
  nothing else keeps a good timely hour from landing. Disk is "the first thing a loop
  that never stops runs out of" (`hour.py:119-120`).
- *`repair-lake --counts` and an hour without events* (`ingest/verify.py:292`): the
  file has no row for `GROUP BY`, so the hour is "recovered" and verify still fails.
  "repaired {n} hour(s); `reporadar verify` should now pass." (`cli.py:486`); that
  such hours exist is said at `ingest/lake.py:182`. `RecoveredIsBacked` fails with
  `CheckCounts = TRUE` and a content without events.
- *The repair's DELETE* (`ingest/repair.py:246`) is keyed by hour and status: a row
  that became true again since the check is deleted too, also beside a single
  archive-serve. "This exists to remove claims of success that a check has proven
  untrue" (`ledger.py:173-174`). The hour comes back (`StruckHoursSettle`), which is
  why nothing is lost by it.
- *Tags and throttling* (`github/client.py:129`): the tag of page 1 is stored as it
  is read; if page 2 is throttled the sweep is dropped, and page 1 is answered 304
  from then on. "a page dropped in silence" is what the tags are keyed to prevent
  (`tests/test_client.py:101-103`), and a throttled cycle is "no events fetched"
  (`ingest/metrics.py:55`). The loss lasts as long as the run, for the next one has no
  tags (`dropped` is emptied when a run ends). `LossIsAccounted` says that nothing else
  loses an event but a write cut short.
- *A dropped night* "is repaired by the next run" (`.github/workflows/aggregate.yml:28-29`):
  the next run aggregates the next day. The repository's own history shows it:
  2026-10-27, the night whose run was cancelled, has no aggregate, and the runs
  logged after it (`aggregates/runs.log`) say `history=success`, which is the
  defect of `DailyHistory_deaf`.
- *Re-running a day* "is always safe" (`Makefile:22-23`): after the lake's hours of
  the day were dropped, a re-run that cannot fetch some of them replaces a fuller
  file by a shorter one. It says so (`RerunLosesOnlyTheUnavailable`).
- "a mart that fails its tests should not be left sitting in the schema"
  (`Makefile:88-89`): the tables of a build whose reconciliation test failed stay.
  `DisagreementIsTold` says that the build failed aloud.

Known to the code, or a consequence it leaves open:

- A silent hour makes its day incomplete for ever (`ingest/aggregate.py`), and its
  marts permanently behind, so that marts-converge builds each time it is run. The
  second is stated as a blind spot in `marts/freshness.py:216-225`.
- A day dropped from the lake and ingested anew with other hours reads as current
  or surplus while the mart lacks hours the lake has (`FreshMeansReflected` leaves
  dropped days out). Two builds that overlap may leave the older scan, after a check
  that passed; the next check sees it. A build that died after its first table leaves the others
  behind while marts-status, which reads one table, says current.
- The loser of a creation race whose broker has not described the topic yet exits 0
  with that topic reported as missing (`ingest/topics.py`).
- An hour that lands between the reads of an aggregate and its drop of the lake is
  removed without having been counted (`ingest/aggregate.py:439`); the ledger still
  claims it. `DroppedIsCounted` bounds what is lost that way to those hours.
- An hour published after it was written off is never asked for again, since
  MISSING is terminal (`ingest/ledger.py`).
- A bad source stays on disk, so a backfill of a failed hour converts the same
  bytes again (`ingest/archive.py`: a file that exists is not downloaded).
- A repair that is cut short between its DELETE and its re-fetch leaves nothing a
  second repair would find: the hours have no claim any more. Inside the lookback
  window archive-serve brings them back; outside it, a backfill must be asked to.
- A source may be removed by archive-serve while a repair that took the row back is
  about to read it; the repair then reports a failure.
- `ingest/dedup.py` speaks of ids "last seen"; the window evicts by first arrival.
- An event appended to the fragment of a write cut short is streamed and is
  unreadable in the file, and its page is answered 304 from then on: it is neither
  captured nor a reject. `EachCutCostsOneEvent` and `LossIsAccounted` bound that loss by
  the number of cuts.
- `repair-lake` (`cli.py`) does not pass `settings.archive_base` to the re-fetch, as
  archive-serve and backfill do, so with a configured mirror it fetches from the
  default publisher.

## Fairness

- *archive loop*: time passes, a scheduled step happens, a restarted loop scans
  again (compose restarts it), each weakly fair. A publisher asked again and again
  answers in the end: strong fairness of `Fetch \/ FetchAbsent`, since failed
  requests put the hour back in the queue. Crashes and damages are bounded.
- *repair*: a repair that was started runs; nothing says one is started.
- *consumer*: the supervisor restarts it, the group settles, and a database, a
  topic and a coordinator that are asked again and again answer in the end
  (strong fairness of the non-empty `Pull`, `Store`, `Letter` and of `Commit`).
  Claimed
  for one consumer only: with two, a group may rebalance between every
  store and its commit.
- *capture*: the feed moves on to its bound, the supervisor restarts serve, the loop
  takes its steps, and a page asked for again and again is not throttled every time
  (strong fairness of `Read` for each page).
- *aggregate*: hours are published, the run and the loop take their steps, and an
  hour asked for again and again is served once published. A day that is not whole
  is run again: that is the operator following "Re-run `reporadar aggregate {day}`
  once the archive publishes them" (`cli.py:345-347`). That the lake is kept in the
  end is a premise of `EveryHourIsCounted`, not an assumption of the specification.
- *marts*: marts-converge is run again and again, which is what its comment calls
  safe, and a build goes on. A lake that stands still is not assumed: hours, drops
  and hands are bounded.
- *topics*: the broker comes to describe what it created, a provisioning that ended
  is tried again (a deployment that failed is repeated), and services that refused
  to start are restarted by compose.
- *nightly job*: none; its properties are of safety. That fewer nights in a row are
  lost than the schedule survives is the assumption `MaxLost < IdleDays`.

## Proofs

Every safety invariant, action property and refinement that a passing run checks is
also a theorem: it holds for every value of the constants its module's `ASSUME`
admits, where the run shows it for one. `tlapm <module>.tla` checks a proof module.
The properties of a run whose specification is `FairSpec` are proved of `Spec`,
without the fairness. Each proof has the same shape: an inductive invariant `...Inv`,
a lemma or a step per action that keeps it, the property from the invariant.

| module | theorem | property |
|---|---|---|
| `HourIngestProofs` | `TypeCorrect`, `IngestSafe` | `TypeOK`; the inductive invariant |
| | `ClaimsBacked`, `WriteOffsAreLate` | `EveryFalseClaimIsALoss`, `NoTimelyHourWrittenOff` |
| | `SuccessStays`, `SourcesOutliveTheirUse` | the action properties `NeverDowngraded`, `OnlyRecordedSourcesDiscarded` |
| | `FailuresAreExplained` | `FailureHasACause`, for any number of processes |
| | `Refinement` | `ImplementsLifecycle` |
| `LakeRepairProofs` | `RepairSafe`, `RepairsKeepClaimsTrue`, `RepairRefinement` | the same invariant, `EveryFalseClaimIsALoss` and `ImplementsLifecycle`, with repairs beside |
| | `RecoveryIsReal` | `RecoveredIsBacked`, for one repair |
| `LiveConsumerProofs` | `StreamTypeCorrect`, `StreamInvariant` | `StreamTypeOK`; the inductive invariant |
| | `OffsetsRecordWhatIsStored`, `WindowSwallowsNothing` | `CommittedIsSettled`, `DuplicatesAreKept` |
| | `ConsumersDeliver` | `ImplementsDelivery` |
| `LiveCaptureProofs` | `CaptureTypeCorrect` | `CaptureTypeOK` |
| | `CutsAreCounted`, `TagsStandForWhatIsKept` | `EachCutCostsOneEvent`, `TagMeansKept` |
| `DayAggregateProofs` | `DayTypeCorrect`, `DayInvariant` | `DayTypeOK`; the inductive invariant |
| | `ReportsAreOfBothFiles`, `ShortageIsExplained` | `ReportIsOfBothFiles`, `IncompleteIsExplained` |
| | `NothingUncountedIsDropped`, `ReplacingLosesOnlyTheUnavailable` | the action properties `DroppedIsCounted`, `RerunLosesOnlyTheUnavailable` |
| `DailyHistoryProofs` | `HistoryTypeCorrect`, `HistoryInvariant` | `HistoryTypeOK`; the inductive invariant |
| | `ScanSaysWhatIsOwed`, `ScheduleIsKept` | `HealthyIffNothingOwed`, `ScheduleStaysOn` |
| | `NoShortDayIsSilent`, `GreenRunsArePublished` | `ShortDaysWereTold`, `GreenIsPublished` |
| `MartFreshnessProofs` | `MartTypeCorrect`, `MartInvariant` | `MartTypeOK`; the inductive invariant |
| | `PassedIsReflected`, `NoSilentDisagreement` | `FreshMeansReflected`, `DisagreementIsTold` |
| `TopicProvisionProofs` | `ProvisionTypeCorrect`, `ProvisionInvariant` | `ProvisionTypeOK`; the inductive invariant |
| | `ReportsAreTrue`, `RacesAreWonByAll` | `ReportIsTrue`, `OnlyARefusalFails` |

### Why each invariant is what it is

- *Ingest.* Whether the row a process is about to write is justified depends on the
  report it carries, which depends on the source it read, which came from the
  publisher. `IngestInv` says of every process and hour what its phase entitles it
  to (a conversion carries the published counts; a recording carries a success only
  if the lake holds it or lost it, a write-off only past the grace, a failure only
  if something was published), of every source that it is what was published or
  torn, and of every row that it is justified. `Discarding` adds, for the order of
  row and source, that who discards has recorded a success; nobody takes it back
  between the two. `CauseInv` adds that a source which is not what was published, a
  staging file that was shared, and a conversion that failed for neither reason are
  all of hours in `spoiled`.
- *Repair.* Steps of a repair that call `ingest_hour` are steps of `HourIngest`, so
  `RepairSafe` needs only the lemmas of `HourIngestProofs` and the repair's own
  moves. `Strike` of the abstract ledger is what a DELETE maps to. `FixInv`
  follows the repair through its re-fetch: an hour it has recorded stays recorded
  until it reconciles.
- *Consumer.* `StreamInv` accounts for every message a consumer has read from a
  partition it still reads: settled, held, or in the batch not yet decoded
  (`ReadIsHandled`). A client the coordinator would let commit is the owner and not
  behind the offset (`Fenced`), which is why a commit at its position covers nothing
  that is not settled. The window remembers only what is stored or held
  (`WindowKept`).
- *Capture.* `CutInv` counts fragments, in the file and at its end, against the
  writes cut short. `Kept` says that what the window holds is written or in the
  batch; without it a tag could stand for an event that the window swallowed.
- *Aggregate.* `Walked` and `FilesAgree` say at each phase what the two files hold of
  the lake and of each other, `late` being what landed in between.
- *Nightly job.* `Pushed` counts days since the last commit against nights lost,
  which `MaxLost < IdleDays` keeps below what costs the schedule. `Told` relates the
  runner's checkout to the branch.
- *Marts.* On a day that was not dropped the lake only grows, so what was walked and
  what is in the marts or in a build's hands are stages of it (`Stages`), and equal
  counts mean equal sets. `Busy` says that a build at work has the tests before it, so
  that the last build to end has compared the tables as they are.
- *Topics.* `Known` says at each step what a provisioner's answers still guarantee:
  topics do not disappear and keep their size.

The recursive functions of `LiveCapture` are proved for batches of every length: `At`,
which `Deduped` (`dedupe`) and `Valid` (`parse_page`) are made of, and `Admitted`,
the loop's filter. The proofs go by least counterexample: a set of numbers that is
not empty has a least element (`LeastNatural`, from the library's `WFMin`), so a
property of 0 that passes from each number to the next fails nowhere
(`LeastFailure`), and a recursion has a solution (`Iterated`). `AdmittedKeeps` is the
result to know: no event is lost between the window and the batch, none is let
through twice, the window stays within its size. `LeastNatural` also gives the first
and the latest day of `DailyHistory`.

### What is assumed

The `ASSUME` of each module: constants are sets of the kind the code admits, sizes
and settings are naturals, bounds are naturals. Beyond those:

- `RecoveryIsReal` assumes `Sole`: at most one repair runs, beside any number of
  schedulers. With two it is false (TLC finds it at once): the second strikes an hour
  the first has recovered, on an earlier reading. And it assumes that, if `--counts` is
  given, an hour has events; the second observation is the reason.
- The schedulers' actions of `LakeRepair` are those of `HourIngest`, so
  `OnlyRecordedSourcesDiscarded` and `NeverDowngraded` are stated of `Spec`: a
  repair takes successes back, which is its purpose.

### Only model-checked

Liveness under fairness is out of the prover's reach: `TimelyHourLands`,
`StruckHoursSettle`, `EveryMessageIsHandled`, `LossIsAccounted`,
`EveryHourIsCounted`, `LakeIsPublished`, `RebuildsStop` and `ServicesRun`. The two
runs that expect a violation have no theorem.

## Not modelled

- *Run counters* (`ingest/metrics.py`): sums that nothing in the program reads back.
- *Bounded sampler* (`collect_sample`): the poll loop of `LiveCapture` over a file it
  creates exclusively and ends with.
- *Configuration*: read once at start; what it sets is a constant of the models.
- *Overlap analysis*: two read-only queries.
- *Site builder* (`tools/build_site.py`): renders the aggregates to a page.
- Of the dbt project, the columns, the trending model, the other tests, the roles
  and the dashboards: queries and grants with no state of their own.
- *Within the modelled parts*: what `PROJECT.json` notes for each. Time is not
  modelled beyond hours and days; wire formats, schemas and texts are data.

## What is left

1. `LiveCapture` and `LiveConsumer` composed over one topic: an event streamed is in
   the end stored.
2. Safety parts of the liveness properties, as theorems: that a struck hour is asked
   for again, that an incomplete day is never taken for a whole one by a re-run.
