------------------------- MODULE LiveConsumerProofs -------------------------
(***************************************************************************)
(* What LiveConsumer keeps for any number of consumers and partitions, any *)
(* window, any batch size and any number of failures: offsets are          *)
(* committed only over what is stored or dead-lettered, and the group as a *)
(* whole delivers at least once.                                           *)
(***************************************************************************)
EXTENDS LiveConsumer, SequenceTheorems, TLAPS

(***************************************************************************)
(* The window                                                              *)
(***************************************************************************)

\* RecentIds.add keeps the window within its size, and nothing is in it but what
\* was and the new id.
LEMMA RememberKeeps ==
    ASSUME NEW S, NEW window \in Seq(S), NEW id \in S, NEW maxlen \in Nat \ {0},
           Len(window) <= maxlen
    PROVE  LET after == Remember(window, id, maxlen)
           IN  /\ after \in Seq(S) /\ Len(after) <= maxlen
               /\ \A i \in 1..Len(after) :
                     after[i] = id \/ \E j \in 1..Len(window) : after[i] = window[j]
<1> DEFINE longer == Append(window, id)
           after == Remember(window, id, maxlen)
<1>1. CASE Holds(window, id)
  BY <1>1 DEF Remember
<1>2. CASE ~Holds(window, id)
  <2>1. /\ longer \in Seq(S) /\ longer # << >> /\ Len(longer) = Len(window) + 1
        /\ \A i \in 1..Len(window) : longer[i] = window[i]
        /\ longer[Len(window) + 1] = id
    BY AppendProperties
  <2>2. /\ Tail(longer) \in Seq(S) /\ Len(Tail(longer)) = Len(longer) - 1
        /\ \A i \in 1..Len(Tail(longer)) : Tail(longer)[i] = longer[i + 1]
    BY <2>1, HeadTailProperties
  <2>3. Len(window) \in Nat
    BY LenProperties
  <2> HIDE DEF longer
  <2>4. after = IF Len(longer) > maxlen THEN Tail(longer) ELSE longer
    BY <1>2 DEF Remember, longer
  <2> HIDE DEF after
  <2>5. CASE Len(longer) > maxlen
    BY <2>1, <2>2, <2>3, <2>4, <2>5, SMT DEF after
  <2>6. CASE ~(Len(longer) > maxlen)
    BY <2>1, <2>3, <2>4, <2>6, SMT DEF after
  <2> QED
    BY <2>5, <2>6 DEF after
<1> QED
  BY <1>1, <1>2

(***************************************************************************)
(* Types                                                                   *)
(***************************************************************************)

LEMMA InitTypeOK == Init => StreamTypeOK
<1>1. << >> \in Seq(Messages) /\ << >> \in Seq(Events) /\ Len(<< >>) = 0
  BY EmptySeq
<1> QED
  BY <1>1, ConsumerAssumption, SMT DEF Init, StreamTypeOK, NoBatch

LEMMA GoneType ==
    ASSUME StreamTypeOK, NEW c \in Consumers, Gone(c), store' \subseteq Events,
           dlq' \subseteq Corrupt, ends' \in 0..MaxEnds
    PROVE  StreamTypeOK'
<1>1. << >> \in Seq(Messages) /\ << >> \in Seq(Events) /\ Len(<< >>) = 0
  BY EmptySeq
<1>2. NoBatch \in [Partitions -> Seq(Messages)]
  BY <1>1 DEF NoBatch
<1>3. /\ phase' \in [Consumers -> {"down", "top", "working", "lettering"}]
      /\ members' \subseteq Consumers
      /\ joined' \in [Consumers -> BOOLEAN] /\ view' \in [Consumers -> SUBSET Partitions]
      /\ owed' \in [Consumers -> BOOLEAN]
  BY SMT DEF StreamTypeOK, Gone
<1>4. /\ batch' \in [Consumers -> [Partitions -> Seq(Messages)]]
      /\ seen' \in [Consumers -> Seq(Events)]
  BY <1>1, <1>2, SMT DEF StreamTypeOK, Gone
<1>5. fresh' \in [Consumers -> SUBSET Events] /\ failures' \in [Consumers -> SUBSET Corrupt]
  BY SMT DEF StreamTypeOK, Gone
<1>6. \A d \in Consumers : Len(seen'[d]) <= SeenWindow
  BY <1>1, ConsumerAssumption, SMT DEF StreamTypeOK, Gone
<1> QED
  BY <1>3, <1>4, <1>5, <1>6 DEF StreamTypeOK, Gone, broker

\* What a batch that was handed out holds.
LEMMA ReadsType ==
    ASSUME StreamTypeOK, NEW c \in Consumers, NEW reach \in [Partitions -> 0..MaxLog],
           Reads(c, reach)
    PROVE  /\ batch' \in [Consumers -> [Partitions -> Seq(Messages)]]
           /\ position' \in [Consumers -> [Partitions -> Nat]]
           /\ position'[c] = reach
           /\ \A d \in Consumers \ {c} : position'[d] = position[d] /\ batch'[d] = batch[d]
           /\ \A p \in Partitions :
                 /\ Len(batch'[c][p]) = reach[p] - position[c][p]
                 /\ \A i \in 1..(reach[p] - position[c][p]) :
                       batch'[c][p][i] = log[p][position[c][p] + i]
<1> DEFINE handed == [p \in Partitions |-> SubSeq(log[p], position[c][p] + 1, reach[p])]
<1>1. /\ position' = [position EXCEPT ![c] = reach] /\ batch' = [batch EXCEPT ![c] = handed]
      /\ position \in [Consumers -> [Partitions -> Nat]]
      /\ batch \in [Consumers -> [Partitions -> Seq(Messages)]]
      /\ log \in [Partitions -> Seq(Messages)]
  BY DEF Reads, StreamTypeOK
<1>2. ASSUME NEW p \in Partitions
      PROVE  /\ handed[p] \in Seq(Messages)
             /\ Len(handed[p]) = reach[p] - position[c][p]
             /\ \A i \in 1..(reach[p] - position[c][p]) : handed[p][i] = log[p][position[c][p] + i]
  <2>1. /\ position[c][p] \in Nat /\ reach[p] \in Nat /\ position[c][p] <= reach[p]
        /\ reach[p] <= Len(log[p]) \/ reach[p] = position[c][p]
    <3>1. reach[p] \in 0..MaxLog /\ position[c][p] \in Nat
      BY <1>1
    <3>2. /\ position[c][p] <= reach[p]
          /\ p \in view[c] => reach[p] <= Len(log[p])
          /\ p \notin view[c] => reach[p] = position[c][p]
      BY DEF Reads
    <3> QED
      BY <3>1, <3>2, ConsumerAssumption, SMT
  <2>2. \A i \in 1..Len(log[p]) : log[p][i] \in Messages
    BY <1>1, ElementOfSeq
  <2>2a. Len(log[p]) \in Nat
    BY <1>1, LenProperties
  <2>3. \A i \in (position[c][p] + 1)..reach[p] : log[p][i] \in Messages
    BY <2>1, <2>2, <2>2a, SMT
  <2>4. position[c][p] + 1 \in Int /\ reach[p] \in Int
    BY <2>1, SMT
  <2>5. /\ handed[p] \in Seq(Messages)
        /\ Len(handed[p]) = IF position[c][p] + 1 <= reach[p]
                            THEN reach[p] - (position[c][p] + 1) + 1 ELSE 0
        /\ \A i \in 1..(reach[p] - (position[c][p] + 1) + 1) :
              handed[p][i] = log[p][position[c][p] + 1 + i - 1]
    BY <2>3, <2>4, SubSeqProperties
  <2> HIDE DEF handed
  <2>6. Len(handed[p]) = reach[p] - position[c][p]
    BY <2>1, <2>5, SMT
  <2>7. ASSUME NEW i \in 1..(reach[p] - position[c][p])
        PROVE  handed[p][i] = log[p][position[c][p] + i]
    <3>1. i \in 1..(reach[p] - (position[c][p] + 1) + 1) /\ position[c][p] + 1 + i - 1 = position[c][p] + i
      BY <2>1, SMT
    <3> QED
      BY <2>5, <3>1
  <2> QED
    BY <2>5, <2>6, <2>7
<1> HIDE DEF handed
<1>3. handed \in [Partitions -> Seq(Messages)]
  BY <1>2 DEF handed
<1>4. reach \in [Partitions -> Nat]
  BY ConsumerAssumption, SMT
<1> QED
  BY <1>1, <1>2, <1>3, <1>4, SMT

\* What Decode does with the message at the head of a partition's batch.
LEMMA DecodeTakes ==
    ASSUME StreamTypeOK, NEW c \in Consumers, NEW p \in Partitions, batch[c][p] # << >>
    PROVE  /\ Head(batch[c][p]) \in Messages /\ Head(batch[c][p]) = batch[c][p][1]
           /\ Tail(batch[c][p]) \in Seq(Messages)
           /\ Len(batch[c][p]) \in Nat \ {0}
           /\ Len(Tail(batch[c][p])) = Len(batch[c][p]) - 1
           /\ \A i \in 1..Len(Tail(batch[c][p])) : Tail(batch[c][p])[i] = batch[c][p][i + 1]
<1>1. batch[c][p] \in Seq(Messages)
  BY DEF StreamTypeOK
<1> QED
  BY <1>1, HeadTailProperties, LenProperties, EmptySeq

LEMMA NextTypeOK == StreamTypeOK /\ [Next]_vars => StreamTypeOK'
<1> SUFFICES ASSUME StreamTypeOK, [Next]_vars PROVE StreamTypeOK'
  OBVIOUS
<1> USE DEF broker, group, sinks, client, loop
<1>1. ASSUME NEW p \in Partitions, NEW m \in Messages, Produce(p, m) PROVE StreamTypeOK'
  <2>1. Append(log[p], m) \in Seq(Messages)
    BY AppendProperties DEF StreamTypeOK
  <2> QED
    BY <1>1, <2>1 DEF StreamTypeOK, Produce
<1>2. CASE Rebalance
  <2>1. shuffles' \in 0..MaxShuffles /\ members' \subseteq Consumers
    BY <1>2, ConsumerAssumption, SMT DEF StreamTypeOK, Rebalance, Live
  <2>2. owner' \in [Partitions -> Consumers \cup {Nobody}]
    BY <1>2 DEF StreamTypeOK, Rebalance, Live
  <2> QED
    BY <1>2, <2>1, <2>2 DEF StreamTypeOK, Rebalance
<1>3. ASSUME NEW c \in Consumers, Start(c) \/ End(c) \/ Rejoin(c) \/ Handle(c)
      PROVE  StreamTypeOK'
  <2>1. CASE Start(c)
    BY <2>1 DEF StreamTypeOK, Start
  <2>2. CASE End(c)
    <3>1. ends' \in 0..MaxEnds
      BY <2>2, ConsumerAssumption, SMT DEF StreamTypeOK, End
    <3> QED
      BY <2>2, <3>1, GoneType DEF StreamTypeOK, End
  <2>3. CASE Rejoin(c)
    BY <2>3 DEF StreamTypeOK, Rejoin
  <2>4. CASE Pull(c)
    <3>1. PICK reach \in [Partitions -> 0..MaxLog] : Reads(c, reach)
      BY <2>4 DEF Pull
    <3>2. /\ batch' \in [Consumers -> [Partitions -> Seq(Messages)]]
          /\ position' \in [Consumers -> [Partitions -> Nat]]
      BY <3>1, ReadsType
    <3> QED
      BY <2>4, <3>2 DEF StreamTypeOK, Pull
  <2>5. CASE Decode(c)
    <3>1. PICK p \in Partitions :
             /\ batch[c][p] # << >>
             /\ LET m == Head(batch[c][p]) IN
                /\ failures' = IF m \in Corrupt THEN [failures EXCEPT ![c] = @ \cup {m}] ELSE failures
                /\ fresh' = IF m \in Corrupt \/ Holds(seen[c], m) THEN fresh
                            ELSE [fresh EXCEPT ![c] = @ \cup {m}]
                /\ seen' = IF m \in Corrupt THEN seen
                           ELSE [seen EXCEPT ![c] = Remember(@, m, SeenWindow)]
             /\ batch' = [batch EXCEPT ![c][p] = Tail(@)]
      BY <2>5 DEF Decode
    <3> DEFINE m == Head(batch[c][p])
    <3>2. m \in Messages /\ Tail(batch[c][p]) \in Seq(Messages)
      BY <3>1, DecodeTakes
    <3>3. batch' \in [Consumers -> [Partitions -> Seq(Messages)]]
      BY <3>1, <3>2 DEF StreamTypeOK
    <3>4. /\ failures' \in [Consumers -> SUBSET Corrupt]
          /\ fresh' \in [Consumers -> SUBSET Events]
      BY <3>1, <3>2 DEF StreamTypeOK, Messages
    <3>5. /\ seen' \in [Consumers -> Seq(Events)]
          /\ \A d \in Consumers : Len(seen'[d]) <= SeenWindow
      <4>1. CASE m \in Corrupt
        BY <3>1, <4>1 DEF StreamTypeOK
      <4>2. CASE m \notin Corrupt
        <5>1. m \in Events /\ seen' = [seen EXCEPT ![c] = Remember(@, m, SeenWindow)]
          BY <3>1, <3>2, <4>2 DEF Messages
        <5>2. /\ Remember(seen[c], m, SeenWindow) \in Seq(Events)
              /\ Len(Remember(seen[c], m, SeenWindow)) <= SeenWindow
          BY <5>1, RememberKeeps, ConsumerAssumption DEF StreamTypeOK
        <5> QED
          BY <5>1, <5>2 DEF StreamTypeOK
      <4> QED
        BY <4>1, <4>2
    <3> QED
      BY <2>5, <3>3, <3>4, <3>5 DEF StreamTypeOK, Decode
  <2>6. CASE Store(c)
    BY <2>6 DEF StreamTypeOK, Store
  <2>7. CASE StoreFails(c)
    BY <2>7, GoneType DEF StreamTypeOK, StoreFails
  <2>8. CASE Letter(c)
    BY <2>8 DEF StreamTypeOK, Letter
  <2>9. CASE LetterFails(c)
    BY <2>9, GoneType DEF StreamTypeOK, LetterFails
  <2>10. CASE Commit(c)
    BY <2>10 DEF StreamTypeOK, Commit
  <2>11. CASE CommitFails(c)
    BY <2>11, GoneType DEF StreamTypeOK, CommitFails
  <2> QED
    BY <1>3, <2>1, <2>2, <2>3, <2>4, <2>5, <2>6, <2>7, <2>8, <2>9, <2>10, <2>11 DEF Handle
<1>4. CASE UNCHANGED vars
  BY <1>4 DEF vars, StreamTypeOK
<1> QED
  BY <1>1, <1>2, <1>3, <1>4 DEF Next

\* In every state of every run each variable has its type, and no window is
\* longer than seen_window.
THEOREM StreamTypeCorrect == Spec => []StreamTypeOK
  BY InitTypeOK, NextTypeOK, PTL DEF Spec

(***************************************************************************)
(* The invariant.  What a consumer has read and not yet stored or          *)
(* dead-lettered is somewhere in its hands, and a client that knows the    *)
(* current assignment has read at least as far as was committed.           *)
(***************************************************************************)

\* Is message m in a batch consumer c has not decoded?
Waits(c, m) == \E p \in Partitions : \E i \in 1..Len(batch[c][p]) : batch[c][p][i] = m

Handled(c, m) == Settled(m) \/ m \in fresh[c] \/ m \in failures[c] \/ Waits(c, m)

\* What the loop holds at each of its stations.
InHand(c) ==
    /\ phase[c] # "working" => fresh[c] = {} /\ \A p \in Partitions : batch[c][p] = << >>
    /\ phase[c] \in {"down", "top"} => failures[c] = {}

WindowKept(c) == \A i \in 1..Len(seen[c]) : seen[c][i] \in store \cup fresh[c]

\* Has consumer c read message m from a partition it still reads?
HasRead(c, m) == \E p \in view[c] : \E i \in 1..position[c][p] : log[p][i] = m

ReadIsHandled(c) ==
    /\ \A p \in view[c] : position[c][p] <= Len(log[p])
    /\ \A m \in Messages : HasRead(c, m) => Handled(c, m)

\* The coordinator accepts commits only from such a client.
Fenced(c) == joined[c] => \A p \in view[c] : owner[p] = c /\ committed[p] <= position[c][p]

\* A consumer holds nothing that was not sent.
HoldsTheSent(c) ==
    /\ fresh[c] \cup failures[c] \subseteq AtLeastOnce!Arrived
    /\ \A p \in Partitions : \A i \in 1..Len(batch[c][p]) : batch[c][p][i] \in AtLeastOnce!Arrived

ConsumerInv(c) ==
    InHand(c) /\ WindowKept(c) /\ ReadIsHandled(c) /\ Fenced(c) /\ HoldsTheSent(c)

OffsetsInv ==
    \A p \in Partitions :
        /\ committed[p] <= Len(log[p])
        /\ \A i \in 1..committed[p] : Settled(log[p][i])

StreamInv == StreamTypeOK /\ OffsetsInv /\ \A c \in Consumers : ConsumerInv(c)

----------------------------------------------------------------------------
\* What every step leaves of the shared state: no message and no effect is
\* ever taken back.
Grows ==
    /\ \A p \in Partitions :
          /\ Len(log[p]) <= Len(log'[p])
          /\ \A i \in 1..Len(log[p]) : log'[p][i] = log[p][i]
    /\ store \subseteq store' /\ dlq \subseteq dlq'

\* What a step of someone else leaves of consumer c.
Untouched(c) ==
    /\ phase'[c] = phase[c] /\ view'[c] = view[c] /\ position'[c] = position[c]
    /\ batch'[c] = batch[c] /\ seen'[c] = seen[c]
    /\ fresh'[c] = fresh[c] /\ failures'[c] = failures[c]
    /\ joined'[c] =>
          /\ joined[c]
          /\ \A p \in Partitions : owner[p] = c => owner'[p] = c /\ committed'[p] = committed[p]

LEMMA SameLogGrows ==
    ASSUME StreamTypeOK, log' = log, store \subseteq store', dlq \subseteq dlq'
    PROVE  Grows
<1>1. \A p \in Partitions : Len(log[p]) \in Nat
  BY LenProperties DEF StreamTypeOK
<1> QED
  BY <1>1, SMT DEF Grows

LEMMA GrowsKeeps ==
    ASSUME StreamTypeOK, Grows
    PROVE  /\ AtLeastOnce!Arrived \subseteq AtLeastOnce!Arrived'
           /\ \A m : Settled(m) => Settled(m)'
           /\ \A p \in Partitions : \A k \in Nat : k <= Len(log[p]) =>
                 k <= Len(log'[p]) /\ \A i \in 1..k : log'[p][i] = log[p][i]
<1>1. \A p \in Partitions : Len(log[p]) \in Nat
  BY LenProperties DEF StreamTypeOK
<1>2. \A p \in Partitions : Len(log'[p]) >= Len(log[p])
  BY <1>1, SMT DEF Grows
<1>3. ASSUME NEW p \in Partitions, NEW k \in Nat, k <= Len(log[p]), Len(log'[p]) \in Int
      PROVE  k <= Len(log'[p]) /\ \A i \in 1..k : log'[p][i] = log[p][i]
  BY <1>1, <1>3, SMT DEF Grows
<1> QED
  BY <1>1, <1>2, <1>3, SMT DEF Grows, AtLeastOnce!Arrived, Settled

\* A consumer that someone else's step leaves alone keeps its invariant.
LEMMA ElsewhereKeeps ==
    ASSUME StreamTypeOK, NEW c \in Consumers, ConsumerInv(c), Grows, Untouched(c)
    PROVE  ConsumerInv(c)'
<1>1. /\ AtLeastOnce!Arrived \subseteq AtLeastOnce!Arrived'
      /\ \A m : Settled(m) => Settled(m)'
      /\ \A p \in Partitions : \A k \in Nat : k <= Len(log[p]) =>
            k <= Len(log'[p]) /\ \A i \in 1..k : log'[p][i] = log[p][i]
  BY GrowsKeeps
<1>2. \A m : Handled(c, m) => Handled(c, m)'
  BY <1>1 DEF Handled, Waits, Untouched
<1>3. InHand(c)' /\ WindowKept(c)' /\ HoldsTheSent(c)'
  BY <1>1 DEF ConsumerInv, InHand, WindowKept, HoldsTheSent, Untouched, Grows
<1>4. ReadIsHandled(c)'
  <2>1. \A p \in view[c] : p \in Partitions /\ position[c][p] \in Nat
    BY DEF StreamTypeOK
  <2>2. \A p \in view[c] :
           position[c][p] <= Len(log'[p]) /\ \A i \in 1..position[c][p] : log'[p][i] = log[p][i]
    BY <1>1, <2>1 DEF ConsumerInv, ReadIsHandled
  <2>3. \A m : HasRead(c, m)' => HasRead(c, m)
    BY <2>2 DEF HasRead, Untouched
  <2> QED
    BY <1>2, <2>2, <2>3 DEF ConsumerInv, ReadIsHandled, Untouched
<1>5. Fenced(c)'
  <2>1. ASSUME joined'[c], NEW p \in view[c]
        PROVE  owner'[p] = c /\ committed'[p] <= position[c][p]
    <3>1. p \in Partitions /\ joined[c] /\ owner[p] = c /\ committed[p] <= position[c][p]
      BY <2>1 DEF StreamTypeOK, ConsumerInv, Fenced, Untouched
    <3> QED
      BY <2>1, <3>1 DEF Untouched
  <2> QED
    BY <2>1 DEF Fenced, Untouched
<1> QED
  BY <1>3, <1>4, <1>5 DEF ConsumerInv

\* Offsets that do not move stay covered.
LEMMA OffsetsStay ==
    ASSUME StreamTypeOK, OffsetsInv, Grows, committed' = committed
    PROVE  OffsetsInv'
<1>1. ASSUME NEW p \in Partitions
      PROVE  /\ committed[p] <= Len(log'[p])
             /\ \A i \in 1..committed[p] : log'[p][i] = log[p][i]
  <2>1. committed[p] \in Nat /\ committed[p] <= Len(log[p])
    BY DEF StreamTypeOK, OffsetsInv
  <2> QED
    BY <2>1, GrowsKeeps
<1> QED
  BY <1>1 DEF OffsetsInv, Settled, Grows

\* A run that ends, however it does, leaves a consumer that holds nothing.
LEMMA GoneKeeps ==
    ASSUME StreamInv, NEW c \in Consumers, Gone(c), store \subseteq store', dlq \subseteq dlq'
    PROVE  OffsetsInv' /\ \A d \in Consumers : ConsumerInv(d)'
<1>1. StreamTypeOK /\ OffsetsInv /\ Grows /\ committed' = committed /\ log' = log
  BY SameLogGrows DEF StreamInv, Gone, broker
<1>2. ASSUME NEW d \in Consumers, d # c PROVE ConsumerInv(d)'
  <2>1. Untouched(d)
    BY <1>1, <1>2 DEF Untouched, Gone, StreamTypeOK, broker
  <2> QED
    BY <1>1, <2>1, ElsewhereKeeps DEF StreamInv
<1>3. ConsumerInv(c)'
  <2>1. /\ view'[c] = {} /\ seen'[c] = << >> /\ fresh'[c] = {} /\ failures'[c] = {}
        /\ batch'[c] = NoBatch /\ joined'[c] = FALSE
    BY <1>1 DEF Gone, StreamTypeOK
  <2>2. Len(<< >>) = 0 /\ 1..0 = {}
    BY EmptySeq, SMT
  <2>3. \A p \in Partitions : NoBatch[p] = << >>
    BY DEF NoBatch
  <2>4. InHand(c)' /\ WindowKept(c)' /\ HoldsTheSent(c)'
    BY <2>1, <2>2, <2>3 DEF InHand, WindowKept, HoldsTheSent
  <2>5. ReadIsHandled(c)' /\ Fenced(c)'
    BY <2>1 DEF ReadIsHandled, HasRead, Fenced
  <2> QED
    BY <2>4, <2>5 DEF ConsumerInv
<1> QED
  BY <1>1, <1>2, <1>3, OffsetsStay

----------------------------------------------------------------------------
\* At the top of its loop a consumer holds nothing: what it has read is settled.
LEMMA TopIsSettled ==
    ASSUME NEW c \in Consumers, ConsumerInv(c), phase[c] \in {"down", "top"}
    PROVE  /\ fresh[c] = {} /\ failures[c] = {} /\ \A p \in Partitions : batch[c][p] = << >>
           /\ \A m : Handled(c, m) => Settled(m)
<1>1. fresh[c] = {} /\ failures[c] = {} /\ \A p \in Partitions : batch[c][p] = << >>
  BY DEF ConsumerInv, InHand
<1>2. \A m : ~Waits(c, m)
  BY <1>1, EmptySeq, SMT DEF Waits
<1> QED
  BY <1>1, <1>2 DEF Handled

\* A batch handed out adds to what was read only messages that wait in it.
LEMMA PullKeeps ==
    ASSUME StreamInv, NEW c \in Consumers, Pull(c)
    PROVE  OffsetsInv' /\ \A d \in Consumers : ConsumerInv(d)'
<1> USE DEF broker, group, sinks
<1>1. /\ StreamTypeOK /\ OffsetsInv /\ ConsumerInv(c)
      /\ Grows /\ committed' = committed /\ log' = log
  BY SameLogGrows DEF StreamInv, Pull
<1>2. PICK reach \in [Partitions -> 0..MaxLog] : Reads(c, reach)
  BY DEF Pull
<1>3. /\ position'[c] = reach
      /\ \A d \in Consumers \ {c} : position'[d] = position[d] /\ batch'[d] = batch[d]
      /\ \A p \in Partitions :
            /\ Len(batch'[c][p]) = reach[p] - position[c][p]
            /\ \A i \in 1..(reach[p] - position[c][p]) :
                  batch'[c][p][i] = log[p][position[c][p] + i]
  BY <1>1, <1>2, ReadsType
<1>4. ASSUME NEW d \in Consumers, d # c PROVE ConsumerInv(d)'
  <2>1. Untouched(d)
    BY <1>1, <1>3, <1>4 DEF Untouched, Pull, StreamTypeOK
  <2> QED
    BY <1>1, <2>1, ElsewhereKeeps DEF StreamInv
<1>5. ConsumerInv(c)'
  <2>1. /\ phase'[c] = "working" /\ view' = view /\ joined' = joined /\ owner' = owner
        /\ store' = store /\ dlq' = dlq
        /\ seen' = seen /\ fresh' = fresh /\ failures' = failures
    BY <1>1 DEF Pull, StreamTypeOK
  <2>2. /\ fresh[c] = {} /\ failures[c] = {}
        /\ \A m : Handled(c, m) => Settled(m)
    BY <1>1, TopIsSettled DEF Pull
  <2>3. \A p \in view[c] :
           /\ p \in Partitions /\ position[c][p] \in Nat /\ reach[p] \in Nat
           /\ committed[p] \in Nat /\ Len(log[p]) \in Nat
           /\ position[c][p] <= reach[p] /\ reach[p] <= Len(log[p])
    <3>1. ASSUME NEW p \in view[c]
          PROVE  /\ p \in Partitions /\ position[c][p] \in Nat /\ reach[p] \in 0..MaxLog
                 /\ committed[p] \in Nat /\ Len(log[p]) \in Nat
                 /\ position[c][p] <= reach[p] /\ reach[p] <= Len(log[p])
      BY <1>1, <1>2, LenProperties DEF StreamTypeOK, Reads
    <3> QED
      BY <3>1, ConsumerAssumption, SMT
  <2>4. ASSUME NEW m \in Messages, HasRead(c, m)' PROVE Handled(c, m)'
    <3>1. PICK p \in view[c] : \E i \in 1..reach[p] : log[p][i] = m
      BY <1>1, <1>3, <2>1, <2>4 DEF HasRead
    <3>2. PICK i \in 1..reach[p] : log[p][i] = m
      BY <3>1
    <3>3. CASE i <= position[c][p]
      <4>1. i \in 1..position[c][p]
        BY <2>3, <3>3, SMT
      <4>2. Settled(m)
        BY <1>1, <2>2, <3>2, <4>1 DEF ConsumerInv, ReadIsHandled, HasRead
      <4> QED
        BY <2>1, <4>2 DEF Handled, Settled
    <3>4. CASE ~(i <= position[c][p])
      <4>1. position[c][p] \in Nat /\ reach[p] \in Nat
        BY <2>3
      <4>2. PICK j \in 1..(reach[p] - position[c][p]) : position[c][p] + j = i
        <5>1. i - position[c][p] \in 1..(reach[p] - position[c][p])
          BY <3>4, <4>1, SMT
        <5>2. position[c][p] + (i - position[c][p]) = i
          BY <4>1, SMT
        <5> QED
          BY <5>1, <5>2
      <4>3. p \in Partitions /\ Len(batch'[c][p]) = reach[p] - position[c][p]
        BY <1>3, <2>3
      <4>4. batch'[c][p][j] = log[p][i]
        BY <1>3, <4>2, <4>3
      <4> QED
        BY <3>2, <4>2, <4>3, <4>4 DEF Handled, Waits
    <3> QED
      BY <3>3, <3>4
  <2>5. ReadIsHandled(c)'
    BY <1>1, <1>3, <2>1, <2>3, <2>4 DEF ReadIsHandled
  <2>6. HoldsTheSent(c)'
    <3>1. ASSUME NEW p \in Partitions, NEW i \in 1..Len(batch'[c][p])
          PROVE  batch'[c][p][i] \in AtLeastOnce!Arrived
      <4>1. p \in view[c]
        <5>1. CASE p \notin view[c]
          <6>1. reach[p] = position[c][p] /\ position[c][p] \in Nat
            BY <1>1, <1>2, <5>1 DEF Reads, StreamTypeOK
          <6>2. Len(batch'[c][p]) = 0
            BY <1>3, <6>1, SMT
          <6> QED
            BY <6>2, SMT
        <5> QED
          BY <5>1
      <4>2. i \in 1..(reach[p] - position[c][p]) /\ batch'[c][p][i] = log[p][position[c][p] + i]
        BY <1>3
      <4>3. position[c][p] + i \in 1..Len(log[p])
        BY <2>3, <4>1, <4>2, SMT
      <4>4. log[p][position[c][p] + i] \in Messages
        BY <1>1, <4>3, ElementOfSeq DEF StreamTypeOK
      <4> QED
        BY <4>2, <4>3, <4>4 DEF AtLeastOnce!Arrived
    <3>2. AtLeastOnce!Arrived' = AtLeastOnce!Arrived
      BY <1>1 DEF AtLeastOnce!Arrived
    <3> QED
      BY <1>1, <2>1, <3>1, <3>2 DEF ConsumerInv, HoldsTheSent
  <2>7. Fenced(c)'
    <3>1. ASSUME joined[c], NEW p \in view[c]
          PROVE  owner[p] = c /\ committed[p] <= reach[p]
      <4>1. owner[p] = c /\ committed[p] <= position[c][p]
        BY <1>1, <3>1 DEF ConsumerInv, Fenced
      <4> QED
        BY <2>3, <4>1, SMT
    <3> QED
      BY <1>1, <1>3, <2>1, <3>1 DEF Fenced
  <2>8. InHand(c)' /\ WindowKept(c)'
    BY <1>1, <2>1 DEF ConsumerInv, InHand, WindowKept
  <2> QED
    BY <2>5, <2>6, <2>7, <2>8 DEF ConsumerInv
<1> QED
  BY <1>1, <1>4, <1>5, OffsetsStay

\* The message decoded leaves the batch for the dead letters, the store or, if the
\* window has it, for nothing more than what the window stands for.
LEMMA DecodeKeeps ==
    ASSUME StreamInv, NEW c \in Consumers, Decode(c)
    PROVE  OffsetsInv' /\ \A d \in Consumers : ConsumerInv(d)'
<1> USE DEF broker, group, sinks, client
<1>1. /\ StreamTypeOK /\ OffsetsInv /\ ConsumerInv(c)
      /\ Grows /\ committed' = committed /\ log' = log
  BY SameLogGrows DEF StreamInv, Decode
<1>2. PICK p \in Partitions :
         /\ batch[c][p] # << >>
         /\ LET m == Head(batch[c][p]) IN
            /\ failures' = IF m \in Corrupt THEN [failures EXCEPT ![c] = @ \cup {m}] ELSE failures
            /\ fresh' = IF m \in Corrupt \/ Holds(seen[c], m) THEN fresh
                        ELSE [fresh EXCEPT ![c] = @ \cup {m}]
            /\ seen' = IF m \in Corrupt THEN seen
                       ELSE [seen EXCEPT ![c] = Remember(@, m, SeenWindow)]
         /\ batch' = [batch EXCEPT ![c][p] = Tail(@)]
  BY DEF Decode
<1> DEFINE m == Head(batch[c][p])
           rest == Tail(batch[c][p])
<1>3. /\ m \in Messages /\ m = batch[c][p][1] /\ Len(batch[c][p]) \in Nat \ {0}
      /\ Len(rest) = Len(batch[c][p]) - 1
      /\ \A i \in 1..Len(rest) : rest[i] = batch[c][p][i + 1]
  BY <1>1, <1>2, DecodeTakes
<1>4. /\ batch'[c][p] = rest
      /\ \A q \in Partitions \ {p} : batch'[c][q] = batch[c][q]
      /\ \A d \in Consumers \ {c} : batch'[d] = batch[d]
  BY <1>1, <1>2 DEF StreamTypeOK
<1>5. /\ failures'[c] = IF m \in Corrupt THEN failures[c] \cup {m} ELSE failures[c]
      /\ fresh'[c] = IF m \in Corrupt \/ Holds(seen[c], m) THEN fresh[c] ELSE fresh[c] \cup {m}
      /\ seen'[c] = IF m \in Corrupt THEN seen[c] ELSE Remember(seen[c], m, SeenWindow)
      /\ \A d \in Consumers \ {c} :
            failures'[d] = failures[d] /\ fresh'[d] = fresh[d] /\ seen'[d] = seen[d]
  BY <1>1, <1>2 DEF StreamTypeOK
<1> HIDE DEF m, rest
<1>6. /\ phase' = phase /\ view' = view /\ joined' = joined /\ position' = position
      /\ owner' = owner /\ store' = store /\ dlq' = dlq /\ phase[c] = "working"
  BY DEF Decode
<1>7. ASSUME NEW d \in Consumers, d # c PROVE ConsumerInv(d)'
  <2>1. Untouched(d)
    BY <1>1, <1>4, <1>5, <1>6, <1>7 DEF Untouched
  <2> QED
    BY <1>1, <2>1, ElsewhereKeeps DEF StreamInv
<1>8. ConsumerInv(c)'
  <2>1. \A k \in 1..Len(rest) : k + 1 \in 1..Len(batch[c][p])
    BY <1>3, SMT
  <2>2. m \in Corrupt \/ m \in store \cup fresh'[c]
    <3>1. CASE Holds(seen[c], m)
      BY <1>1, <1>5, <3>1 DEF Holds, ConsumerInv, WindowKept
    <3> QED
      BY <1>5, <3>1
  <2>3. ASSUME NEW x, Handled(c, x) PROVE Handled(c, x)'
    <3>1. CASE x = m
      BY <1>5, <1>6, <2>2, <3>1 DEF Handled, Settled
    <3>2. CASE x # m /\ Waits(c, x)
      <4>1. PICK q \in Partitions : \E i \in 1..Len(batch[c][q]) : batch[c][q][i] = x
        BY <3>2 DEF Waits
      <4>2. PICK i \in 1..Len(batch[c][q]) : batch[c][q][i] = x
        BY <4>1
      <4>3. CASE q # p
        BY <1>4, <4>2, <4>3 DEF Handled, Waits
      <4>4. CASE q = p
        <5>1. i # 1
          BY <1>3, <3>2, <4>2, <4>4
        <5>2. PICK j \in Int : j = i - 1
          BY <1>3, <4>4, SMT
        <5>3. j \in 1..Len(rest) /\ j + 1 = i
          BY <1>3, <4>4, <5>1, <5>2, SMT
        <5> QED
          BY <1>3, <1>4, <4>2, <4>4, <5>3 DEF Handled, Waits
      <4> QED
        BY <4>3, <4>4
    <3>3. CASE Settled(x) \/ x \in fresh[c] \/ x \in failures[c]
      BY <1>5, <1>6, <3>3 DEF Handled, Settled
    <3> QED
      BY <2>3, <3>1, <3>2, <3>3 DEF Handled
  <2>4. ReadIsHandled(c)'
    BY <1>1, <1>6, <2>3 DEF ConsumerInv, ReadIsHandled, HasRead
  <2>5. WindowKept(c)'
    <3>1. CASE m \in Corrupt
      BY <1>1, <1>5, <1>6, <3>1 DEF ConsumerInv, WindowKept
    <3>2. CASE m \notin Corrupt
      <4>1. m \in Events /\ seen[c] \in Seq(Events) /\ Len(seen[c]) <= SeenWindow
        BY <1>1, <1>3, <3>2 DEF StreamTypeOK, Messages
      <4>2. \A i \in 1..Len(seen'[c]) :
               seen'[c][i] = m \/ \E j \in 1..Len(seen[c]) : seen'[c][i] = seen[c][j]
        BY <1>5, <3>2, <4>1, RememberKeeps, ConsumerAssumption
      <4>3. \A j \in 1..Len(seen[c]) : seen[c][j] \in store' \cup fresh'[c]
        BY <1>1, <1>5, <1>6 DEF ConsumerInv, WindowKept
      <4> QED
        BY <1>6, <2>2, <3>2, <4>2, <4>3 DEF WindowKept
    <3> QED
      BY <3>1, <3>2
  <2>6. HoldsTheSent(c)'
    <3>1. AtLeastOnce!Arrived' = AtLeastOnce!Arrived
      BY <1>1 DEF AtLeastOnce!Arrived
    <3>2. \A q \in Partitions : \A i \in 1..Len(batch[c][q]) : batch[c][q][i] \in AtLeastOnce!Arrived
      BY <1>1 DEF ConsumerInv, HoldsTheSent
    <3>3. 1 \in 1..Len(batch[c][p])
      BY <1>3, SMT
    <3>4. m \in AtLeastOnce!Arrived
      BY <1>3, <3>2, <3>3
    <3>5. fresh'[c] \cup failures'[c] \subseteq AtLeastOnce!Arrived
      BY <1>1, <1>5, <3>4 DEF ConsumerInv, HoldsTheSent
    <3>6. \A q \in Partitions : \A i \in 1..Len(batch'[c][q]) :
             batch'[c][q][i] \in AtLeastOnce!Arrived
      BY <1>3, <1>4, <2>1, <3>2
    <3> QED
      BY <3>1, <3>5, <3>6 DEF HoldsTheSent
  <2>7. InHand(c)' /\ Fenced(c)'
    BY <1>1, <1>6 DEF ConsumerInv, InHand, Fenced
  <2> QED
    BY <2>4, <2>5, <2>6, <2>7 DEF ConsumerInv
<1> QED
  BY <1>1, <1>7, <1>8, OffsetsStay

\* What was to be stored is stored.
LEMMA StoreKeeps ==
    ASSUME StreamInv, NEW c \in Consumers, Store(c)
    PROVE  OffsetsInv' /\ \A d \in Consumers : ConsumerInv(d)'
<1> USE DEF broker, group, client
<1>1. /\ StreamTypeOK /\ OffsetsInv /\ ConsumerInv(c)
      /\ Grows /\ committed' = committed /\ log' = log
  BY SameLogGrows DEF StreamInv, Store
<1>2. /\ phase'[c] = "lettering" /\ fresh'[c] = {} /\ store' = store \cup fresh[c] /\ dlq' = dlq
      /\ view' = view /\ joined' = joined /\ position' = position /\ owner' = owner
      /\ batch' = batch /\ seen' = seen /\ failures' = failures
      /\ \A p \in Partitions : batch[c][p] = << >>
      /\ \A d \in Consumers \ {c} : phase'[d] = phase[d] /\ fresh'[d] = fresh[d]
  BY <1>1 DEF Store, Decoded, StreamTypeOK
<1>3. ASSUME NEW d \in Consumers, d # c PROVE ConsumerInv(d)'
  <2>1. Untouched(d)
    BY <1>1, <1>2, <1>3 DEF Untouched
  <2> QED
    BY <1>1, <2>1, ElsewhereKeeps DEF StreamInv
<1>4. ConsumerInv(c)'
  <2>1. \A m : Handled(c, m) => Handled(c, m)'
    BY <1>2 DEF Handled, Settled, Waits
  <2>2. ReadIsHandled(c)'
    BY <1>1, <1>2, <2>1 DEF ConsumerInv, ReadIsHandled, HasRead
  <2>3. AtLeastOnce!Arrived' = AtLeastOnce!Arrived
    BY <1>1 DEF AtLeastOnce!Arrived
  <2>4. InHand(c)' /\ WindowKept(c)' /\ Fenced(c)' /\ HoldsTheSent(c)'
    BY <1>1, <1>2, <2>3 DEF ConsumerInv, InHand, WindowKept, Fenced, HoldsTheSent
  <2> QED
    BY <2>2, <2>4 DEF ConsumerInv
<1> QED
  BY <1>1, <1>3, <1>4, OffsetsStay

\* What was to be dead-lettered is in the dead-letter topic.
LEMMA LetterKeeps ==
    ASSUME StreamInv, NEW c \in Consumers, Letter(c)
    PROVE  OffsetsInv' /\ \A d \in Consumers : ConsumerInv(d)'
<1> USE DEF broker, group, client
<1>1. /\ StreamTypeOK /\ OffsetsInv /\ ConsumerInv(c)
      /\ Grows /\ committed' = committed /\ log' = log
  BY SameLogGrows DEF StreamInv, Letter
<1>2. /\ phase[c] = "lettering" /\ phase'[c] = "top"
      /\ failures'[c] = {} /\ dlq' = dlq \cup failures[c] /\ store' = store
      /\ view' = view /\ joined' = joined /\ position' = position /\ owner' = owner
      /\ batch' = batch /\ seen' = seen /\ fresh' = fresh
      /\ \A d \in Consumers \ {c} : phase'[d] = phase[d] /\ failures'[d] = failures[d]
  BY <1>1 DEF Letter, StreamTypeOK
<1>3. ASSUME NEW d \in Consumers, d # c PROVE ConsumerInv(d)'
  <2>1. Untouched(d)
    BY <1>1, <1>2, <1>3 DEF Untouched
  <2> QED
    BY <1>1, <2>1, ElsewhereKeeps DEF StreamInv
<1>4. ConsumerInv(c)'
  <2>1. \A m : Handled(c, m) => Handled(c, m)'
    BY <1>2 DEF Handled, Settled, Waits
  <2>2. ReadIsHandled(c)'
    BY <1>1, <1>2, <2>1 DEF ConsumerInv, ReadIsHandled, HasRead
  <2>3. AtLeastOnce!Arrived' = AtLeastOnce!Arrived
    BY <1>1 DEF AtLeastOnce!Arrived
  <2>4. InHand(c)' /\ WindowKept(c)' /\ Fenced(c)' /\ HoldsTheSent(c)'
    BY <1>1, <1>2, <2>3 DEF ConsumerInv, InHand, WindowKept, Fenced, HoldsTheSent
  <2> QED
    BY <2>2, <2>4 DEF ConsumerInv
<1> QED
  BY <1>1, <1>3, <1>4, OffsetsStay

\* A commit moves offsets forward, of partitions that are the committer's, over
\* messages that are settled.
LEMMA CommitMoves ==
    ASSUME StreamInv, NEW c \in Consumers, Commit(c)
    PROVE  \A p \in Partitions :
              /\ committed'[p] \in Nat /\ committed[p] <= committed'[p]
              /\ committed'[p] <= Len(log[p])
              /\ \A i \in 1..committed'[p] : Settled(log[p][i])
              /\ committed'[p] # committed[p] => owner[p] = c
              /\ p \in view[c] => committed'[p] = position[c][p]
<1> USE DEF broker, group, client
<1>1. StreamTypeOK /\ OffsetsInv /\ ConsumerInv(c) /\ phase[c] = "top" /\ joined[c]
  BY DEF StreamInv, Commit
<1>2. \A m : Handled(c, m) => Settled(m)
  BY <1>1, TopIsSettled
<1>3. ASSUME NEW p \in Partitions
      PROVE  /\ committed'[p] \in Nat /\ committed[p] <= committed'[p]
             /\ committed'[p] <= Len(log[p])
             /\ \A i \in 1..committed'[p] : Settled(log[p][i])
             /\ committed'[p] # committed[p] => owner[p] = c
             /\ p \in view[c] => committed'[p] = position[c][p]
  <2>1. committed'[p] = IF p \in view[c] THEN position[c][p] ELSE committed[p]
    BY DEF Commit
  <2>2. CASE p \in view[c]
    <3>1. position[c][p] \in Nat /\ position[c][p] <= Len(log[p])
      BY <1>1, <2>2 DEF StreamTypeOK, ConsumerInv, ReadIsHandled
    <3>2. committed[p] <= position[c][p] /\ owner[p] = c
      BY <1>1, <2>2 DEF ConsumerInv, Fenced
    <3>3. ASSUME NEW i \in 1..position[c][p] PROVE Settled(log[p][i])
      <4>1. i \in 1..Len(log[p])
        BY <1>1, <3>1, LenProperties, SMT DEF StreamTypeOK
      <4>2. log[p][i] \in Messages
        BY <1>1, <4>1, ElementOfSeq DEF StreamTypeOK
      <4> QED
        BY <1>1, <1>2, <2>2, <4>2 DEF ConsumerInv, ReadIsHandled, HasRead
    <3> QED
      BY <2>1, <2>2, <3>1, <3>2, <3>3
  <2>3. CASE p \notin view[c]
    <3>1. committed[p] \in Nat /\ committed[p] <= committed[p]
      BY <1>1, SMT DEF StreamTypeOK
    <3> QED
      BY <1>1, <2>1, <2>3, <3>1 DEF OffsetsInv
  <2> QED
    BY <2>2, <2>3
<1> QED
  BY <1>3

LEMMA CommitKeeps ==
    ASSUME StreamInv, NEW c \in Consumers, Commit(c)
    PROVE  OffsetsInv' /\ \A d \in Consumers : ConsumerInv(d)'
<1> USE DEF group, sinks, client
<1>1. StreamTypeOK /\ OffsetsInv /\ ConsumerInv(c) /\ Grows /\ log' = log
  BY SameLogGrows DEF StreamInv, Commit
<1>2. /\ phase' = phase /\ fresh' = fresh /\ store' = store /\ dlq' = dlq
      /\ view' = view /\ joined' = joined /\ position' = position /\ owner' = owner
      /\ batch' = batch /\ seen' = seen /\ failures' = failures
  BY DEF Commit
<1>3. ASSUME NEW d \in Consumers, d # c PROVE ConsumerInv(d)'
  <2>1. Untouched(d)
    BY <1>2, <1>3, CommitMoves DEF Untouched
  <2> QED
    BY <1>1, <2>1, ElsewhereKeeps DEF StreamInv
<1>4. ConsumerInv(c)'
  <2>1. \A p \in view[c] : committed'[p] <= position[c][p]
    <3>1. \A p \in view[c] : p \in Partitions /\ position[c][p] \in Nat
      BY <1>1 DEF StreamTypeOK
    <3>2. \A p \in view[c] : committed'[p] = position[c][p]
      BY <3>1, CommitMoves
    <3> QED
      BY <3>1, <3>2, SMT
  <2>2. AtLeastOnce!Arrived' = AtLeastOnce!Arrived
    BY <1>1 DEF AtLeastOnce!Arrived
  <2> QED
    BY <1>1, <1>2, <2>1, <2>2 DEF ConsumerInv, InHand, WindowKept, ReadIsHandled, HasRead,
       Handled, Settled, Waits, Fenced, HoldsTheSent
<1>5. OffsetsInv'
  BY <1>1, <1>2, CommitMoves DEF OffsetsInv, Settled
<1> QED
  BY <1>3, <1>4, <1>5

\* A client that adopts its assignment starts from what was committed.
LEMMA RejoinKeeps ==
    ASSUME StreamInv, NEW c \in Consumers, Rejoin(c)
    PROVE  OffsetsInv' /\ \A d \in Consumers : ConsumerInv(d)'
<1> USE DEF broker, group, sinks, loop
<1>1. /\ StreamTypeOK /\ OffsetsInv /\ ConsumerInv(c)
      /\ Grows /\ committed' = committed /\ log' = log
  BY SameLogGrows DEF StreamInv, Rejoin
<1>2. /\ phase' = phase /\ fresh' = fresh /\ store' = store /\ dlq' = dlq /\ owner' = owner
      /\ batch' = batch /\ seen' = seen /\ failures' = failures
      /\ view'[c] = { p \in Partitions : owner[p] = c } /\ position'[c] = committed
      /\ \A d \in Consumers \ {c} :
            view'[d] = view[d] /\ position'[d] = position[d] /\ joined'[d] = joined[d]
  BY <1>1 DEF Rejoin, StreamTypeOK
<1>3. ASSUME NEW d \in Consumers, d # c PROVE ConsumerInv(d)'
  <2>1. Untouched(d)
    BY <1>1, <1>2, <1>3 DEF Untouched
  <2> QED
    BY <1>1, <2>1, ElsewhereKeeps DEF StreamInv
<1>4. ConsumerInv(c)'
  <2>1. \A p \in Partitions : committed[p] <= committed[p]
    BY <1>1, SMT DEF StreamTypeOK
  <2>2. Fenced(c)'
    BY <1>1, <1>2, <2>1 DEF Fenced
  <2>3. ReadIsHandled(c)'
    BY <1>1, <1>2 DEF OffsetsInv, ReadIsHandled, HasRead, Handled, Settled
  <2>4. AtLeastOnce!Arrived' = AtLeastOnce!Arrived
    BY <1>1 DEF AtLeastOnce!Arrived
  <2>5. InHand(c)' /\ WindowKept(c)' /\ HoldsTheSent(c)'
    BY <1>1, <1>2, <2>4 DEF ConsumerInv, InHand, WindowKept, HoldsTheSent
  <2> QED
    BY <2>2, <2>3, <2>5 DEF ConsumerInv
<1> QED
  BY <1>1, <1>3, <1>4, OffsetsStay

\* A message that arrives takes nothing away.
LEMMA ArrivalGrows ==
    ASSUME StreamTypeOK, NEW p \in Partitions, NEW m \in Messages, Produce(p, m)
    PROVE  Grows
<1>1. log' = [log EXCEPT ![p] = Append(@, m)] /\ store' = store /\ dlq' = dlq
  BY DEF Produce, sinks
<1>2. ASSUME NEW q \in Partitions
      PROVE  Len(log[q]) <= Len(log'[q]) /\ \A i \in 1..Len(log[q]) : log'[q][i] = log[q][i]
  <2>1. log[q] \in Seq(Messages) /\ Len(log[q]) \in Nat
    BY LenProperties DEF StreamTypeOK
  <2>2. /\ Len(Append(log[q], m)) = Len(log[q]) + 1
        /\ \A i \in 1..Len(log[q]) : Append(log[q], m)[i] = log[q][i]
    BY <2>1, AppendProperties
  <2>3. log'[q] = IF q = p THEN Append(log[q], m) ELSE log[q]
    BY <1>1 DEF StreamTypeOK
  <2> QED
    BY <2>1, <2>2, <2>3, SMT
<1> QED
  BY <1>1, <1>2 DEF Grows

LEMMA NextKeeps ==
    ASSUME StreamInv, [Next]_vars
    PROVE  OffsetsInv' /\ \A d \in Consumers : ConsumerInv(d)'
<1> USE DEF broker, group, sinks, client, loop
<1>1. StreamTypeOK /\ OffsetsInv
  BY DEF StreamInv
<1>2. ASSUME Grows, committed' = committed, \A d \in Consumers : Untouched(d)
      PROVE  OffsetsInv' /\ \A d \in Consumers : ConsumerInv(d)'
  BY <1>1, <1>2, OffsetsStay, ElsewhereKeeps DEF StreamInv
<1>3. ASSUME NEW p \in Partitions, NEW m \in Messages, Produce(p, m)
      PROVE  OffsetsInv' /\ \A d \in Consumers : ConsumerInv(d)'
  <2>1. Grows
    BY <1>1, <1>3, ArrivalGrows
  <2>2. committed' = committed /\ \A d \in Consumers : Untouched(d)
    BY <1>3 DEF Produce, Untouched
  <2> QED
    BY <1>2, <2>1, <2>2
<1>4. CASE Rebalance
  <2>1. Grows
    BY <1>1, <1>4, SameLogGrows DEF Rebalance
  <2>2. committed' = committed /\ \A d \in Consumers : Untouched(d)
    BY <1>4 DEF Rebalance, Untouched
  <2> QED
    BY <1>2, <2>1, <2>2
<1>5. ASSUME NEW c \in Consumers, Start(c)
      PROVE  OffsetsInv' /\ \A d \in Consumers : ConsumerInv(d)'
  <2>1. Grows /\ log' = log /\ committed' = committed /\ owner' = owner
    BY <1>1, <1>5, SameLogGrows DEF Start
  <2>2. ASSUME NEW d \in Consumers, d # c PROVE ConsumerInv(d)'
    <3>1. Untouched(d)
      BY <1>1, <1>5, <2>1, <2>2 DEF Untouched, Start, StreamTypeOK
    <3> QED
      BY <1>1, <2>1, <3>1, ElsewhereKeeps DEF StreamInv
  <2>3. ConsumerInv(c)'
    <3>1. AtLeastOnce!Arrived' = AtLeastOnce!Arrived
      BY <2>1 DEF AtLeastOnce!Arrived
    <3>2. ConsumerInv(c) /\ phase[c] = "down" /\ phase'[c] = "top"
      BY <1>1, <1>5 DEF StreamInv, StreamTypeOK, Start
    <3> QED
      BY <1>5, <2>1, <3>1, <3>2 DEF Start, ConsumerInv, InHand, WindowKept, ReadIsHandled,
         HasRead, Handled, Settled, Waits, Fenced, HoldsTheSent
  <2> QED
    BY <1>1, <2>1, <2>2, <2>3, OffsetsStay
<1>6. ASSUME NEW c \in Consumers, Handle(c)
      PROVE  OffsetsInv' /\ \A d \in Consumers : ConsumerInv(d)'
  <2>1. CASE StoreFails(c)
    BY <2>1, GoneKeeps DEF StoreFails
  <2>2. CASE LetterFails(c)
    BY <2>2, GoneKeeps DEF LetterFails
  <2>3. CASE CommitFails(c)
    BY <2>3, GoneKeeps DEF CommitFails
  <2> QED
    BY <1>6, <2>1, <2>2, <2>3, PullKeeps, DecodeKeeps, StoreKeeps, LetterKeeps, CommitKeeps DEF Handle
<1>7. ASSUME NEW c \in Consumers, End(c)
      PROVE  OffsetsInv' /\ \A d \in Consumers : ConsumerInv(d)'
  BY <1>7, GoneKeeps DEF End
<1>8. CASE UNCHANGED vars
  <2>1. Grows
    BY <1>1, <1>8, SameLogGrows DEF vars
  <2>2. committed' = committed /\ \A d \in Consumers : Untouched(d)
    BY <1>8 DEF vars, Untouched
  <2> QED
    BY <1>2, <2>1, <2>2
<1> QED
  BY <1>3, <1>4, <1>5, <1>6, <1>7, <1>8, RejoinKeeps DEF Next

LEMMA InitStreamInv == Init => StreamInv
<1> SUFFICES ASSUME Init PROVE OffsetsInv /\ \A c \in Consumers : ConsumerInv(c)
  BY InitTypeOK DEF StreamInv
<1>1. Len(<< >>) = 0 /\ 1..0 = {} /\ 0 <= 0
  BY EmptySeq, SMT
<1>2. OffsetsInv
  BY <1>1 DEF Init, OffsetsInv
<1>3. \A c \in Consumers : ConsumerInv(c)
  BY <1>1 DEF Init, NoBatch, ConsumerInv, InHand, WindowKept, ReadIsHandled, HasRead, Fenced, HoldsTheSent
<1> QED
  BY <1>2, <1>3

\* The invariant holds in every state of every run.
THEOREM StreamInvariant == Spec => []StreamInv
<1>1. StreamInv /\ [Next]_vars => StreamInv'
  BY NextTypeOK, NextKeeps DEF StreamInv
<1> QED
  BY <1>1, InitStreamInv, PTL DEF Spec

(***************************************************************************)
(* The promises                                                            *)
(***************************************************************************)

\* However the consumers interleave, fail, restart and are rebalanced, every
\* message below a committed offset is in the database or the dead-letter topic.
THEOREM OffsetsRecordWhatIsStored == Spec => []CommittedIsSettled
<1>1. StreamInv => CommittedIsSettled
  BY DEF StreamInv, OffsetsInv, CommittedIsSettled
<1> QED
  BY <1>1, StreamInvariant, PTL

\* The window of a run holds only ids that are stored or about to be.
THEOREM WindowSwallowsNothing == Spec => []DuplicatesAreKept
<1>1. StreamInv => DuplicatesAreKept
  BY DEF StreamInv, ConsumerInv, WindowKept, DuplicatesAreKept
<1> QED
  BY <1>1, StreamInvariant, PTL

\* One step of a consumer, of the group or of the broker is one step of
\* at-least-once delivery, or none.
LEMMA StepDelivers ==
    ASSUME StreamInv, [Next]_vars
    PROVE  [AtLeastOnce!Next]_AtLeastOnce!vars
<1> USE DEF broker, group, sinks, client, loop
<1> DEFINE Still == log' = log /\ committed' = committed
<1>1. ASSUME NEW some \in SUBSET AtLeastOnce!Arrived, Still,
             store' \cup dlq' = (store \cup dlq) \cup some
      PROVE  AtLeastOnce!Settle
  BY <1>1 DEF AtLeastOnce!Settle
<1>2. ASSUME Still, store' \cup dlq' = store \cup dlq
      PROVE  UNCHANGED AtLeastOnce!vars
  BY <1>2 DEF AtLeastOnce!vars
<1>3. ASSUME NEW p \in Partitions, NEW m \in Messages, Produce(p, m)
      PROVE  AtLeastOnce!Produce
  BY <1>3 DEF Produce, AtLeastOnce!Produce
<1>4. ASSUME NEW c \in Consumers, Store(c) PROVE AtLeastOnce!Settle
  <2>1. fresh[c] \subseteq AtLeastOnce!Arrived
    BY DEF StreamInv, ConsumerInv, HoldsTheSent
  <2>2. Still /\ store' \cup dlq' = (store \cup dlq) \cup fresh[c]
    BY <1>4 DEF Store
  <2> QED
    BY <1>1, <2>1, <2>2
<1>5. ASSUME NEW c \in Consumers, Letter(c) PROVE AtLeastOnce!Settle
  <2>1. failures[c] \subseteq AtLeastOnce!Arrived
    BY DEF StreamInv, ConsumerInv, HoldsTheSent
  <2>2. Still /\ store' \cup dlq' = (store \cup dlq) \cup failures[c]
    BY <1>5 DEF Letter
  <2> QED
    BY <1>1, <2>1, <2>2
<1>6. ASSUME NEW c \in Consumers, LetterFails(c) PROVE AtLeastOnce!Settle
  <2>1. failures[c] \subseteq AtLeastOnce!Arrived
    BY DEF StreamInv, ConsumerInv, HoldsTheSent
  <2>2. PICK sent \in SUBSET failures[c] : dlq' = dlq \cup sent
    BY <1>6 DEF LetterFails
  <2>3. Still /\ store' \cup dlq' = (store \cup dlq) \cup sent
    BY <1>6, <2>2 DEF LetterFails, Gone
  <2> QED
    BY <1>1, <2>1, <2>3
<1>7. ASSUME NEW c \in Consumers, Commit(c) PROVE AtLeastOnce!Commit
  <2>1. /\ log' = log /\ store' \cup dlq' = store \cup dlq
        /\ committed' = [p \in Partitions |-> IF p \in view[c] THEN position[c][p] ELSE committed[p]]
    BY <1>7 DEF Commit
  <2>2. committed' \in [Partitions -> Nat]
    BY <1>7, <2>1, CommitMoves
  <2>3. ASSUME NEW p \in Partitions
        PROVE  /\ committed'[p] \in committed[p]..Len(log[p])
               /\ \A i \in 1..committed'[p] : log[p][i] \in store \cup dlq
    <3>1. /\ committed'[p] \in Nat /\ committed[p] <= committed'[p] /\ committed'[p] <= Len(log[p])
          /\ \A i \in 1..committed'[p] : Settled(log[p][i])
      BY <1>7, CommitMoves
    <3>2. committed[p] \in Nat /\ Len(log[p]) \in Nat
      BY LenProperties DEF StreamInv, StreamTypeOK
    <3>3. committed'[p] \in committed[p]..Len(log[p])
      BY <3>1, <3>2, SMT
    <3> QED
      BY <3>1, <3>3 DEF Settled
  <2> QED
    BY <2>1, <2>2, <2>3 DEF AtLeastOnce!Commit
<1>8. ASSUME NEW c \in Consumers,
             Start(c) \/ End(c) \/ Rejoin(c) \/ Pull(c) \/ Decode(c) \/ StoreFails(c) \/ CommitFails(c)
      PROVE  UNCHANGED AtLeastOnce!vars
  <2>1. Still /\ store' = store /\ dlq' = dlq
    BY <1>8 DEF Start, End, Rejoin, Pull, Decode, StoreFails, CommitFails, Gone
  <2> QED
    BY <1>2, <2>1
<1>9. CASE Rebalance \/ UNCHANGED vars
  BY <1>2, <1>9 DEF Rebalance, vars
<1> HIDE DEF Still
<1> QED
  BY <1>3, <1>4, <1>5, <1>6, <1>7, <1>8, <1>9 DEF Next, Handle, AtLeastOnce!Next

\* The consumers of a group deliver at least once: whatever they do, a message
\* has its effect once it has arrived and keeps it, and an offset only moves
\* forward, over messages that have had theirs.
THEOREM ConsumersDeliver == Spec => ImplementsDelivery
<1>1. Init => AtLeastOnce!Init
  BY DEF Init, AtLeastOnce!Init
<1>2. StreamInv /\ [Next]_vars => [AtLeastOnce!Next]_AtLeastOnce!vars
  BY StepDelivers
<1> QED
  BY <1>1, <1>2, StreamInvariant, PTL DEF Spec, ImplementsDelivery, AtLeastOnce!Spec
=============================================================================
