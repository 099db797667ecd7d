---------------------------- MODULE LiveConsumer ----------------------------
(***************************************************************************)
(* The read side of the event stream: consumers of one group pull batches  *)
(* from the live topic, decode and dedupe them, store what is new,         *)
(* dead-letter what does not decode, and commit the offsets of a batch     *)
(* when they come back for the next one.                                   *)
(*                                                                         *)
(* A message that decodes is its event's id; others are in Corrupt.  Of    *)
(* the broker only what the code relies on is here: a log per partition,   *)
(* committed offsets, and a group that hands every partition to one        *)
(* member.  A client learns of a rebalance later than the group does.      *)
(***************************************************************************)
EXTENDS DedupWindow, FiniteSets

CONSTANTS
    Consumers, Partitions,
    Events,      \* ids of the events that decode
    Corrupt,     \* messages that do not
    Unstorable,  \* events the database refuses, whoever asks
    SeenWindow,  \* seen_window
    MaxBatch, MaxLog, MaxEnds, MaxShuffles  \* bounds of the model: MaxLog is
                 \* the number of messages over all partitions

ASSUME ConsumerAssumption ==
    /\ Events \cap Corrupt = {} /\ Unstorable \subseteq Events
    /\ SeenWindow \in Nat \ {0} /\ MaxBatch \in Nat \ {0}
    /\ MaxLog \in Nat /\ MaxEnds \in Nat /\ MaxShuffles \in Nat

VARIABLES
    log,        \* each partition's messages
    committed,  \* each partition's committed offset: how many messages are done with
    members,    \* the group, as its coordinator knows it
    owner,      \* the consumer each partition is assigned to
    shuffles,   \* rebalances nobody's joining or leaving called for
    store,      \* event ids in the database
    dlq,        \* messages in the dead-letter topic
    phase,      \* where each consumer's loop stands
    joined,     \* has the client adopted the group's current assignment?
    view,       \* the partitions the client reads
    position,   \* the offset of the next message it will read
    owed,       \* is a commit due when the loop comes back?
    batch,      \* the messages not decoded yet
    seen,       \* the dedup window
    fresh,      \* events to store
    failures,   \* messages to dead-letter
    ends        \* how many consumers were killed or stopped

broker == << log, committed >>
group  == << members, owner, shuffles >>
sinks  == << store, dlq >>
client == << joined, view, position >>
loop   == << phase, owed, batch, seen, fresh, failures, ends >>
vars   == << broker, group, sinks, client, loop >>

Messages == Events \cup Corrupt
Nobody == "nobody"

NoBatch == [p \in Partitions |-> << >>]

StreamTypeOK ==
    /\ log \in [Partitions -> Seq(Messages)]
    /\ committed \in [Partitions -> Nat]
    /\ members \subseteq Consumers
    /\ owner \in [Partitions -> Consumers \cup {Nobody}]
    /\ shuffles \in 0..MaxShuffles
    /\ store \subseteq Events /\ dlq \subseteq Corrupt
    /\ phase \in [Consumers -> {"down", "top", "working", "lettering"}]
    /\ joined \in [Consumers -> BOOLEAN]
    /\ view \in [Consumers -> SUBSET Partitions]
    /\ position \in [Consumers -> [Partitions -> Nat]]
    /\ owed \in [Consumers -> BOOLEAN]
    /\ batch \in [Consumers -> [Partitions -> Seq(Messages)]]
    /\ seen \in [Consumers -> Seq(Events)]
    /\ \A c \in Consumers : Len(seen[c]) <= SeenWindow
    /\ fresh \in [Consumers -> SUBSET Events]
    /\ failures \in [Consumers -> SUBSET Corrupt]
    /\ ends \in 0..MaxEnds

Init ==
    /\ log = [p \in Partitions |-> << >>]
    /\ committed = [p \in Partitions |-> 0]
    /\ members = {} /\ owner = [p \in Partitions |-> Nobody] /\ shuffles = 0
    /\ store = {} /\ dlq = {}
    /\ phase = [c \in Consumers |-> "down"]
    /\ joined = [c \in Consumers |-> FALSE]
    /\ view = [c \in Consumers |-> {}]
    /\ position = [c \in Consumers |-> [p \in Partitions |-> 0]]
    /\ owed = [c \in Consumers |-> FALSE]
    /\ batch = [c \in Consumers |-> NoBatch]
    /\ seen = [c \in Consumers |-> << >>]
    /\ fresh = [c \in Consumers |-> {}]
    /\ failures = [c \in Consumers |-> {}]
    /\ ends = 0

----------------------------------------------------------------------------
\* The broker

\* How many messages there are in all.
Sent == Cardinality({ x \in Partitions \X (1..MaxLog) : x[2] <= Len(log[x[1]]) })

\* A message arrives, possibly one the producer has sent before.
Produce(p, m) ==
    /\ Sent < MaxLog
    /\ log' = [log EXCEPT ![p] = Append(@, m)]
    /\ UNCHANGED << committed, group, sinks, client, loop >>

Live == { c \in Consumers : phase[c] # "down" }

\* The group hands the partitions out anew, to whoever is alive.
Rebalance ==
    /\ Live # {}
    /\ members # Live \/ shuffles < MaxShuffles
    /\ shuffles' = IF members = Live THEN shuffles + 1 ELSE shuffles
    /\ members' = Live
    /\ owner' \in [Partitions -> Live]
    /\ joined' = [c \in Consumers |-> FALSE]
    /\ UNCHANGED << broker, sinks, view, position, loop >>

\* The client learns its assignment and starts every partition of it from the
\* committed offset.  It does so in the background, whatever the loop is at.
Rejoin(c) ==
    /\ c \in members /\ ~joined[c]
    /\ joined' = [joined EXCEPT ![c] = TRUE]
    /\ view' = [view EXCEPT ![c] = { p \in Partitions : owner[p] = c }]
    /\ position' = [position EXCEPT ![c] = committed]
    /\ UNCHANGED << broker, group, sinks, loop >>

----------------------------------------------------------------------------
\* A consumer

\* consume: a new run joins the group with an empty window.
Start(c) ==
    /\ phase[c] = "down"
    /\ phase' = [phase EXCEPT ![c] = "top"]
    /\ UNCHANGED << broker, group, sinks, client, owed, batch, seen, fresh, failures, ends >>

\* Nothing in memory outlives a run, and no run commits on its way out.
Gone(c) ==
    /\ phase' = [phase EXCEPT ![c] = "down"]
    /\ members' = members \ {c}
    /\ joined' = [joined EXCEPT ![c] = FALSE]
    /\ view' = [view EXCEPT ![c] = {}]
    /\ owed' = [owed EXCEPT ![c] = FALSE]
    /\ batch' = [batch EXCEPT ![c] = NoBatch]
    /\ seen' = [seen EXCEPT ![c] = << >>]
    /\ fresh' = [fresh EXCEPT ![c] = {}]
    /\ failures' = [failures EXCEPT ![c] = {}]
    /\ UNCHANGED << broker, owner, shuffles, position >>

\* Killed anywhere, or stopped at the top of the loop: the same to everything
\* that remains.
End(c) ==
    /\ phase[c] # "down" /\ ends < MaxEnds
    /\ Gone(c)
    /\ ends' = ends + 1
    /\ UNCHANGED sinks

\* A batch handed out: for each partition read, some of what comes next.
Reads(c, reach) ==
    /\ \A p \in Partitions :
          /\ position[c][p] <= reach[p]
          /\ p \in view[c] => reach[p] <= Len(log[p]) /\ reach[p] - position[c][p] <= MaxBatch
          /\ p \notin view[c] => reach[p] = position[c][p]
    /\ batch' = [batch EXCEPT ![c] =
                    [p \in Partitions |-> SubSeq(log[p], position[c][p] + 1, reach[p])]]
    /\ position' = [position EXCEPT ![c] = reach]

\* Mutant of Pull: the offsets of a batch are committed as it is handed out.
PullCommitting(c) ==
    /\ phase[c] = "top" /\ ~owed[c]
    /\ \E reach \in [Partitions -> 0..MaxLog] : Reads(c, reach)
    /\ committed' = IF joined[c] THEN [p \in Partitions |-> IF p \in view[c] THEN position'[c][p]
                                                            ELSE committed[p]]
                    ELSE committed
    /\ owed' = [owed EXCEPT ![c] = position' # position]
    /\ phase' = [phase EXCEPT ![c] = "working"]
    /\ UNCHANGED << log, group, sinks, joined, view, seen, fresh, failures, ends >>

\* getmany, for a loop that owes no commit.  One that times out hands out an
\* empty batch, which owes none either.
Pull(c) ==
    /\ phase[c] = "top" /\ ~owed[c]
    /\ \E reach \in [Partitions -> 0..MaxLog] : Reads(c, reach)
    /\ owed' = [owed EXCEPT ![c] = position' # position]
    /\ phase' = [phase EXCEPT ![c] = "working"]
    /\ UNCHANGED << broker, group, sinks, joined, view, seen, fresh, failures, ends >>

\* Mutant of Decode: what will not decode raises past the loop and ends the run.
DecodeRaising(c) ==
    /\ phase[c] = "working"
    /\ \E p \in Partitions :
          /\ batch[c][p] # << >>
          /\ LET m == Head(batch[c][p]) IN
             \/ /\ m \in Corrupt
                /\ Gone(c)
                /\ UNCHANGED << sinks, ends >>
             \/ /\ m \notin Corrupt
                /\ fresh' = IF Holds(seen[c], m) THEN fresh ELSE [fresh EXCEPT ![c] = @ \cup {m}]
                /\ seen' = [seen EXCEPT ![c] = Remember(@, m, SeenWindow)]
                /\ batch' = [batch EXCEPT ![c][p] = Tail(@)]
                /\ UNCHANGED << broker, group, sinks, client, phase, owed, failures, ends >>

\* One message of the batch: a dead letter, an event to store, or a duplicate.
Decode(c) ==
    /\ phase[c] = "working"
    /\ \E p \in Partitions :
          /\ batch[c][p] # << >>
          /\ LET m == Head(batch[c][p]) IN
             /\ failures' = IF m \in Corrupt THEN [failures EXCEPT ![c] = @ \cup {m}] ELSE failures
             /\ fresh' = IF m \in Corrupt \/ Holds(seen[c], m) THEN fresh
                         ELSE [fresh EXCEPT ![c] = @ \cup {m}]
             /\ seen' = IF m \in Corrupt THEN seen
                        ELSE [seen EXCEPT ![c] = Remember(@, m, SeenWindow)]
          /\ batch' = [batch EXCEPT ![c][p] = Tail(@)]
    /\ UNCHANGED << broker, group, sinks, client, phase, owed, ends >>

Decoded(c) == phase[c] = "working" /\ \A p \in Partitions : batch[c][p] = << >>

\* Mutant of Store: a failed write is logged and the loop goes on.
StoreBestEffort(c) ==
    /\ Decoded(c)
    /\ store' \in { store, store \cup (fresh[c] \ Unstorable) }
    /\ fresh' = [fresh EXCEPT ![c] = {}]
    /\ phase' = [phase EXCEPT ![c] = "lettering"]
    /\ UNCHANGED << broker, group, dlq, client, owed, batch, seen, failures, ends >>

\* PostgresStore: the new events in one transaction; what is there stays.
Store(c) ==
    /\ Decoded(c)
    /\ fresh[c] \cap Unstorable = {}
    /\ store' = store \cup fresh[c]
    /\ fresh' = [fresh EXCEPT ![c] = {}]
    /\ phase' = [phase EXCEPT ![c] = "lettering"]
    /\ UNCHANGED << broker, group, dlq, client, owed, batch, seen, failures, ends >>

\* A write that fails raises, and nothing catches it.
StoreFails(c) ==
    /\ Decoded(c) /\ fresh[c] # {}
    /\ Gone(c)
    /\ UNCHANGED << sinks, ends >>

\* KafkaDeadLetterSink: every dead letter confirmed before the call returns.
Letter(c) ==
    /\ phase[c] = "lettering"
    /\ dlq' = dlq \cup failures[c]
    /\ failures' = [failures EXCEPT ![c] = {}]
    /\ phase' = [phase EXCEPT ![c] = "top"]
    /\ UNCHANGED << broker, group, store, client, owed, batch, seen, fresh, ends >>

\* A confirmation that fails raises; some of the letters may have been delivered.
LetterFails(c) ==
    /\ phase[c] = "lettering" /\ failures[c] # {}
    /\ \E sent \in SUBSET failures[c] : dlq' = dlq \cup sent
    /\ Gone(c)
    /\ UNCHANGED << store, ends >>

\* Mutant of Commit: the consumer assigns its partitions to itself, so that no
\* group checks what it commits.
CommitUnchecked(c) ==
    /\ phase[c] = "top" /\ owed[c]
    /\ committed' = [p \in Partitions |-> IF p \in view[c] THEN position[c][p] ELSE committed[p]]
    /\ owed' = [owed EXCEPT ![c] = FALSE]
    /\ UNCHANGED << log, group, sinks, client, phase, batch, seen, fresh, failures, ends >>

\* The loop came back, so the batch is durable: commit the offsets read so far.
\* The group accepts it from a client that knows the current assignment.
Commit(c) ==
    /\ phase[c] = "top" /\ owed[c] /\ joined[c]
    /\ committed' = [p \in Partitions |-> IF p \in view[c] THEN position[c][p] ELSE committed[p]]
    /\ owed' = [owed EXCEPT ![c] = FALSE]
    /\ UNCHANGED << log, group, sinks, client, phase, batch, seen, fresh, failures, ends >>

\* A commit the group refuses, or the broker does not answer, ends the run.
CommitFails(c) ==
    /\ phase[c] = "top" /\ owed[c]
    /\ Gone(c)
    /\ UNCHANGED << sinks, ends >>

Handle(c) ==
    \/ Pull(c) \/ Decode(c) \/ Store(c) \/ StoreFails(c)
    \/ Letter(c) \/ LetterFails(c) \/ Commit(c) \/ CommitFails(c)

----------------------------------------------------------------------------
Next ==
    \/ \E p \in Partitions, m \in Messages : Produce(p, m)
    \/ Rebalance
    \/ \E c \in Consumers : Start(c) \/ End(c) \/ Rejoin(c) \/ Handle(c)

Spec == Init /\ [][Next]_vars

\* A supervisor restarts what ended, the group and its clients settle, waiting
\* messages are handed out, and a database, a topic and a coordinator that are
\* asked again and again answer.
Fairness ==
    /\ WF_vars(Rebalance)
    /\ \A c \in Consumers :
          /\ WF_vars(Start(c)) /\ WF_vars(Rejoin(c)) /\ WF_vars(Handle(c))
          /\ SF_vars(Pull(c) /\ owed'[c])
          /\ SF_vars(Store(c) /\ fresh[c] # {})
          /\ SF_vars(Letter(c) /\ failures[c] # {})
          /\ SF_vars(Commit(c))

FairSpec == Spec /\ Fairness

----------------------------------------------------------------------------
(***************************************************************************)
(* Properties                                                              *)
(***************************************************************************)

\* Has message m had its effect?
Settled(m) == m \in store \/ m \in dlq

\* Offsets record what has been stored, not what has been delivered: every
\* message below a committed offset is in the database or the dead-letter topic,
\* through every failure, restart, rebalance and redelivery, although the window
\* may have dropped it as a duplicate of one in flight.
CommittedIsSettled ==
    \A p \in Partitions : \A i \in 1..committed[p] : Settled(log[p][i])

\* What a run takes for a duplicate is stored, or is in its hand to be stored:
\* its window never swallows an event.
DuplicatesAreKept ==
    \A c \in Consumers : \A i \in 1..Len(seen[c]) : seen[c][i] \in store \cup fresh[c]

\* With the effects in the two sinks as the messages settled, the consumers
\* deliver at least once: a write, a letter and a commit, whole or cut short, each
\* amount to one step of the promise or to none.
AtLeastOnce == INSTANCE Delivery WITH settled <- store \cup dlq
ImplementsDelivery == AtLeastOnce!Spec

\* Every message is in the end done with, whatever it holds: "never letting one
\* bad message halt ingestion".
EveryMessageIsHandled ==
    \A p \in Partitions : \A i \in 1..MaxLog : (Len(log[p]) >= i) ~> (committed[p] >= i)
=============================================================================
