------------------------ MODULE TopicProvisionProofs ------------------------
(***************************************************************************)
(* What TopicProvision keeps for any topics, any number of provisioners at *)
(* once with settings of their own, any brokers and any faults: a run that *)
(* succeeds reports what is so, and only a refusal makes a creation fail.  *)
(***************************************************************************)
EXTENDS TopicProvision, TLAPS

\* What a run knows of the topics, at each of its stations.
Known(p) ==
    /\ step[p] = "create" => \A t \in Topics \ absent[p] : topic[t] # NoTopic
    /\ step[p] \in {"refresh", "done"} => \A t \in Topics : topic[t] # NoTopic
    /\ \A t \in created[p] : topic[t] = Size(p)
    /\ step[p] = "done" /\ missing[p] = {} /\ drifts[p] = {} =>
          \A t \in Topics : topic[t] = Size(p)

RefusedFor(p) ==
    reason[p] = "refused" =>
        /\ step[p] = "failed"
        /\ \E t \in absent[p] : t \in refused \/ Replication[p] > brokers

ProvisionInv == ProvisionTypeOK /\ \A p \in Provisioners : Known(p) /\ RefusedFor(p)

----------------------------------------------------------------------------
(***************************************************************************)
(* Types                                                                   *)
(***************************************************************************)

\* The settings are sizes, and a size is not the absence of a topic.
LEMMA SizesArePositive ==
    /\ NoTopic \notin Sizes
    /\ \A p \in Provisioners : Size(p) \in Sizes /\ Size(p) # NoTopic
<1>1. \A p \in Provisioners : Partitions[p] # 0
  BY ProvisionAssumption
<1>2. NoTopic \notin Sizes
  BY <1>1, SMT DEF Sizes, NoTopic
<1>3. \A p \in Provisioners : Size(p) \in Sizes
  BY DEF Sizes, Size
<1> QED
  BY <1>2, <1>3

LEMMA InitTypeOK == Init => ProvisionTypeOK
<1> SUFFICES ASSUME Init PROVE ProvisionTypeOK
  OBVIOUS
<1>1. byHand \in 0..MaxByHand /\ faults \in 0..MaxFaults
  BY ProvisionAssumption, SMT DEF Init
<1>2. topic \in [Topics -> {NoTopic} \cup Sizes] /\ visible \subseteq {t \in Topics : topic[t] # NoTopic}
  BY DEF Init
<1>3. /\ step \in [Provisioners -> Steps]
      /\ \A p \in Provisioners : step[p] = "create" => absent[p] # {}
  BY DEF Init, Steps
<1>4. /\ absent \in [Provisioners -> SUBSET Topics] /\ created \in [Provisioners -> SUBSET Topics]
      /\ missing \in [Provisioners -> SUBSET Topics] /\ drifts \in [Provisioners -> SUBSET Topics]
  BY DEF Init, None
<1> QED
  BY <1>1, <1>2, <1>3, <1>4 DEF Init, ProvisionTypeOK

\* A grant creates topics that were not there and touches no other.
LEMMA GrantCreates ==
    ASSUME ProvisionTypeOK, NEW p \in Provisioners,
           NEW ts \in SUBSET {t \in Topics : topic[t] = NoTopic}, Grant(p, ts)
    PROVE  /\ topic' \in [Topics -> {NoTopic} \cup Sizes]
           /\ \A t \in Topics : topic[t] # NoTopic => topic'[t] = topic[t]
           /\ \A t \in ts : topic'[t] = Size(p) /\ topic'[t] # NoTopic
  BY SizesArePositive DEF ProvisionTypeOK, Grant

\* What a run was granted of the topics it found absent.
LEMMA GrantedWasAbsent ==
    ASSUME ProvisionTypeOK, NEW p \in Provisioners
    PROVE  /\ {t \in absent[p] : Grantable(p, t)} \in SUBSET {t \in Topics : topic[t] = NoTopic}
           /\ {t \in absent[p] : step[p] = "create" /\ Grantable(p, t)}
                 \in SUBSET {t \in Topics : topic[t] = NoTopic}
  BY DEF ProvisionTypeOK, Grantable

LEMMA NextTypeOK == ProvisionTypeOK /\ [Next]_vars => ProvisionTypeOK'
<1> SUFFICES ASSUME ProvisionTypeOK, [Next]_vars PROVE ProvisionTypeOK'
  OBVIOUS
<1> USE DEF broker, service, report, Goto, Fails, Steps
<1>1. ASSUME NEW t \in Topics, Propagate(t) PROVE ProvisionTypeOK'
  BY <1>1 DEF ProvisionTypeOK, Propagate
<1>2. ASSUME NEW t \in Topics, NEW size \in Sizes, CreateByHand(t, size) PROVE ProvisionTypeOK'
  <2>1. byHand' \in 0..MaxByHand
    BY <1>2, ProvisionAssumption, SMT DEF ProvisionTypeOK, CreateByHand
  <2> QED
    BY <1>2, <2>1, SizesArePositive DEF ProvisionTypeOK, CreateByHand
<1>3. ASSUME NEW p \in Provisioners, NEW mode \in {"guard", "check"}, Begin(p, mode)
      PROVE  ProvisionTypeOK'
  BY <1>3 DEF ProvisionTypeOK, Begin
<1>4. ASSUME NEW p \in Provisioners, Provision(p) PROVE ProvisionTypeOK'
  <2>1. CASE Guard(p)
    BY <2>1 DEF ProvisionTypeOK, Guard
  <2>2. CASE Describe(p)
    BY <2>2 DEF ProvisionTypeOK, Describe
  <2>3. CASE Create(p)
    <3> DEFINE granted == {t \in absent[p] : Grantable(p, t)}
    <3>1. Grant(p, granted)
      BY <2>3 DEF Create
    <3>2. /\ topic' \in [Topics -> {NoTopic} \cup Sizes]
          /\ \A t \in Topics : topic[t] # NoTopic => topic'[t] = topic[t]
      BY <3>1, GrantCreates, GrantedWasAbsent
    <3>3. granted \subseteq Topics
      BY DEF ProvisionTypeOK
    <3>4. visible' \subseteq {t \in Topics : topic'[t] # NoTopic}
      BY <2>3, <3>2 DEF Create, ProvisionTypeOK
    <3>5. created' \in [Provisioners -> SUBSET Topics]
      BY <2>3, <3>3 DEF Create, ProvisionTypeOK
    <3>6. \E s \in {"refresh", "failed"} : step' = [step EXCEPT ![p] = s]
      BY <2>3 DEF Create
    <3>7. reason' = reason \/ reason' = [reason EXCEPT ![p] = "refused"]
      BY <2>3 DEF Create
    <3>8. /\ step' \in [Provisioners -> Steps]
          /\ reason' \in [Provisioners -> {"none", "brokers", "refused", "unready", "fault"}]
          /\ \A q \in Provisioners : step'[q] = "create" => absent[q] # {}
      BY <3>6, <3>7 DEF ProvisionTypeOK
    <3> HIDE DEF granted
    <3> QED
      BY <2>3, <3>2, <3>4, <3>5, <3>8 DEF Create, ProvisionTypeOK
  <2>4. CASE Refresh(p)
    BY <2>4 DEF ProvisionTypeOK, Refresh, Reported, Drifting
  <2>5. CASE Check(p)
    BY <2>5 DEF ProvisionTypeOK, Check, Reported, Drifting
  <2> QED
    BY <1>4, <2>1, <2>2, <2>3, <2>4, <2>5 DEF Provision
<1>5. ASSUME NEW p \in Provisioners, Fault(p) PROVE ProvisionTypeOK'
  <2>1. PICK granted \in SUBSET {t \in absent[p] : step[p] = "create" /\ Grantable(p, t)} :
           Grant(p, granted)
    BY <1>5 DEF Fault
  <2>2. /\ topic' \in [Topics -> {NoTopic} \cup Sizes]
        /\ \A t \in Topics : topic[t] # NoTopic => topic'[t] = topic[t]
    BY <2>1, GrantCreates, GrantedWasAbsent
  <2>3. visible' \subseteq {t \in Topics : topic'[t] # NoTopic}
    BY <1>5, <2>2 DEF Fault, ProvisionTypeOK
  <2>4. faults' \in 0..MaxFaults
    BY <1>5, ProvisionAssumption, SMT DEF Fault, ProvisionTypeOK
  <2> QED
    BY <1>5, <2>2, <2>3, <2>4 DEF Fault, ProvisionTypeOK
<1>6. ASSUME NEW s \in Services, Require(s) PROVE ProvisionTypeOK'
  BY <1>6 DEF ProvisionTypeOK, Require
<1>7. CASE UNCHANGED vars
  BY <1>7 DEF ProvisionTypeOK, vars
<1> QED
  BY <1>1, <1>2, <1>3, <1>4, <1>5, <1>6, <1>7 DEF Next

\* In every state of every run each variable has its type, and the broker
\* describes only topics that it has.
THEOREM ProvisionTypeCorrect == Spec => []ProvisionTypeOK
  BY InitTypeOK, NextTypeOK, PTL DEF Spec

(***************************************************************************)
(* The invariant                                                           *)
(***************************************************************************)

LEMMA InitInv == Init => ProvisionInv
<1>1. Init => \A p \in Provisioners : Known(p) /\ RefusedFor(p)
  BY DEF Init, Known, RefusedFor, None
<1> QED
  BY <1>1, InitTypeOK DEF ProvisionInv

\* A topic, once there, keeps its size; so what a run knows stays so while the
\* run itself takes no step.
LEMMA TopicsStay ==
    ASSUME ProvisionTypeOK, NEW p \in Provisioners, Known(p), RefusedFor(p),
           \A t \in Topics : topic[t] # NoTopic => topic'[t] = topic[t],
           step'[p] = step[p], absent'[p] = absent[p], created'[p] = created[p],
           missing'[p] = missing[p], drifts'[p] = drifts[p], reason'[p] = reason[p],
           refused' = refused, brokers' = brokers
    PROVE  Known(p)' /\ RefusedFor(p)'
<1>1. \A t \in Topics : topic[t] # NoTopic => topic'[t] # NoTopic
  OBVIOUS
<1>2. \A t \in created[p] : t \in Topics /\ topic[t] # NoTopic
  BY SizesArePositive DEF ProvisionTypeOK, Known
<1>3. step[p] = "done" => \A t \in Topics : topic'[t] = topic[t]
  BY DEF Known
<1> QED
  BY <1>1, <1>2, <1>3 DEF ProvisionTypeOK, Known, RefusedFor

\* The same for a step of one run that creates no topic.
LEMMA OthersStay ==
    ASSUME ProvisionInv, NEW p \in Provisioners, topic' = topic, refused' = refused, brokers' = brokers,
           \A q \in Provisioners \ {p} :
              /\ step'[q] = step[q] /\ absent'[q] = absent[q] /\ created'[q] = created[q]
              /\ missing'[q] = missing[q] /\ drifts'[q] = drifts[q] /\ reason'[q] = reason[q],
           Known(p)' /\ RefusedFor(p)'
    PROVE  \A q \in Provisioners : Known(q)' /\ RefusedFor(q)'
  BY TopicsStay DEF ProvisionInv

LEMMA CreateKeeps ==
    ASSUME ProvisionInv, NEW p \in Provisioners, Create(p)
    PROVE  \A q \in Provisioners : Known(q)' /\ RefusedFor(q)'
<1> USE DEF broker, service, report, Goto, Fails
<1> DEFINE granted == {t \in absent[p] : Grantable(p, t)}
<1>1. ProvisionTypeOK /\ Known(p) /\ step[p] = "create"
  BY DEF ProvisionInv, Create
<1>2. Grant(p, granted)
  BY DEF Create
<1>3. /\ topic' \in [Topics -> {NoTopic} \cup Sizes]
      /\ \A t \in Topics : topic[t] # NoTopic => topic'[t] = topic[t]
      /\ \A t \in granted : topic'[t] = Size(p) /\ topic'[t] # NoTopic
  BY <1>1, <1>2, GrantCreates, GrantedWasAbsent
<1>4. ASSUME NEW q \in Provisioners, q # p PROVE Known(q)' /\ RefusedFor(q)'
  <2>1. /\ step'[q] = step[q] /\ absent'[q] = absent[q] /\ created'[q] = created[q]
        /\ missing'[q] = missing[q] /\ drifts'[q] = drifts[q] /\ reason'[q] = reason[q]
        /\ refused' = refused /\ brokers' = brokers
    BY <1>1, <1>4 DEF Create, ProvisionTypeOK
  <2> QED
    BY <1>1, <1>3, <2>1, TopicsStay DEF ProvisionInv
<1>5. Known(p)' /\ RefusedFor(p)'
  <2>1. /\ absent' = absent /\ missing' = missing /\ drifts' = drifts
        /\ refused' = refused /\ brokers' = brokers
    BY DEF Create
  <2>2. CASE granted \cup Existing(absent[p]) = absent[p]
    <3>1. step'[p] = "refresh" /\ created'[p] = granted /\ reason'[p] = reason[p]
      BY <1>1, <2>2 DEF Create, ProvisionTypeOK
    <3>2. \A t \in absent[p] : t \in granted \/ topic[t] # NoTopic
      BY <2>2 DEF Existing
    <3>3. \A t \in Topics : topic'[t] # NoTopic
      <4>1. ASSUME NEW t \in Topics PROVE topic'[t] # NoTopic
        <5>1. CASE t \in granted
          BY <1>3, <5>1
        <5>2. CASE t \notin granted
          <6>1. topic[t] # NoTopic
            BY <1>1, <3>2, <5>2 DEF Known
          <6> QED
            BY <1>3, <6>1
        <5> QED
          BY <5>1, <5>2
      <4> QED
        BY <4>1
    <3> HIDE DEF granted
    <3>4. Known(p)'
      BY <1>3, <3>1, <3>3 DEF Known
    <3>5. RefusedFor(p)'
      BY <1>1, <3>1 DEF ProvisionInv, RefusedFor
    <3> QED
      BY <3>4, <3>5
  <2>3. CASE granted \cup Existing(absent[p]) # absent[p]
    <3>1. step'[p] = "failed" /\ created' = created /\ reason'[p] = "refused"
      BY <1>1, <2>3 DEF Create, ProvisionTypeOK
    <3>2. PICK t \in absent[p] : t \notin granted /\ topic[t] = NoTopic
      BY <2>3 DEF Existing
    <3>3. t \in refused \/ ~(Replication[p] <= brokers)
      BY <3>2 DEF Grantable
    <3>4. t \in refused \/ Replication[p] > brokers
      BY <1>1, <3>3, ProvisionAssumption, SMT DEF ProvisionTypeOK
    <3>5. \A s \in created[p] : topic'[s] = Size(p)
      BY <1>1, <1>3, SizesArePositive DEF Known, ProvisionTypeOK
    <3> HIDE DEF granted
    <3> QED
      BY <2>1, <3>1, <3>2, <3>4, <3>5 DEF Known, RefusedFor
  <2> QED
    BY <2>2, <2>3
<1> QED
  BY <1>4, <1>5

\* A run that reports: what is neither missing nor adrift has the size it asked for.
LEMMA ReportKeeps ==
    ASSUME ProvisionInv, NEW p \in Provisioners, Refresh(p) \/ Check(p)
    PROVE  \A q \in Provisioners : Known(q)' /\ RefusedFor(q)'
<1> USE DEF broker, service, report, Goto, Fails
<1>1. ProvisionTypeOK /\ Known(p)
  BY DEF ProvisionInv
<1>2. /\ topic' = topic /\ refused' = refused /\ brokers' = brokers
      /\ absent' = absent /\ created' = created
  BY DEF Refresh, Check
<1>3. \A q \in Provisioners \ {p} :
         /\ step'[q] = step[q] /\ absent'[q] = absent[q] /\ created'[q] = created[q]
         /\ missing'[q] = missing[q] /\ drifts'[q] = drifts[q] /\ reason'[q] = reason[q]
  BY <1>1 DEF Refresh, Check, Reported, ProvisionTypeOK
<1>4. missing'[p] = Topics \ (visible \cup created[p]) /\ drifts'[p] = Drifting(p)
  BY <1>1 DEF Refresh, Check, Reported, ProvisionTypeOK
<1>5. missing'[p] = {} /\ drifts'[p] = {} => \A t \in Topics : topic[t] = Size(p)
  BY <1>1, <1>4 DEF Drifting, Known
<1>6. Known(p)' /\ RefusedFor(p)'
  <2>1. CASE Refresh(p)
    <3>1. step[p] = "refresh" /\ step'[p] = "done" /\ reason' = reason
      BY <1>1, <2>1 DEF Refresh, ProvisionTypeOK
    <3> QED
      BY <1>1, <1>2, <1>5, <3>1 DEF Known, RefusedFor, ProvisionInv
  <2>2. CASE Check(p) /\ Topics \subseteq visible /\ Drifting(p) = {}
    <3>1. step[p] = "check" /\ step'[p] = "done" /\ reason' = reason
      BY <1>1, <2>2 DEF Check, ProvisionTypeOK
    <3>2. \A t \in Topics : topic[t] # NoTopic
      BY <1>1, <2>2 DEF ProvisionTypeOK
    <3> QED
      BY <1>1, <1>2, <1>5, <3>1, <3>2 DEF Known, RefusedFor, ProvisionInv
  <2>3. CASE Check(p) /\ ~(Topics \subseteq visible /\ Drifting(p) = {})
    <3>1. step'[p] = "failed" /\ reason'[p] = "unready"
      BY <1>1, <2>3 DEF Check, ProvisionTypeOK
    <3> QED
      BY <1>1, <1>2, <3>1 DEF Known, RefusedFor
  <2> QED
    BY <2>1, <2>2, <2>3
<1> QED
  BY <1>2, <1>3, <1>6, OthersStay

LEMMA NextInv == ProvisionInv /\ [Next]_vars => ProvisionInv'
<1> SUFFICES ASSUME ProvisionInv, [Next]_vars
             PROVE  \A q \in Provisioners : Known(q)' /\ RefusedFor(q)'
  BY NextTypeOK DEF ProvisionInv
<1> USE DEF broker, service, report, Goto, Fails
<1>1. ProvisionTypeOK /\ \A p \in Provisioners : Known(p) /\ RefusedFor(p)
  BY DEF ProvisionInv
<1>2. ASSUME NEW t \in Topics, NEW size \in Sizes, CreateByHand(t, size)
      PROVE  \A q \in Provisioners : Known(q)' /\ RefusedFor(q)'
  <2>1. \A s \in Topics : topic[s] # NoTopic => topic'[s] = topic[s]
    BY <1>1, <1>2 DEF CreateByHand, ProvisionTypeOK
  <2> QED
    BY <1>1, <1>2, <2>1, TopicsStay DEF CreateByHand
<1>3. ASSUME NEW t \in Topics, Propagate(t)
      PROVE  \A q \in Provisioners : Known(q)' /\ RefusedFor(q)'
  BY <1>1, <1>3, TopicsStay DEF Propagate
<1>4. ASSUME NEW p \in Provisioners, NEW mode \in {"guard", "check"}, Begin(p, mode)
      PROVE  \A q \in Provisioners : Known(q)' /\ RefusedFor(q)'
  <2>1. step'[p] = mode /\ created'[p] = {} /\ reason'[p] = "none"
    BY <1>1, <1>4 DEF Begin, ProvisionTypeOK
  <2>2. Known(p)' /\ RefusedFor(p)'
    BY <2>1 DEF Known, RefusedFor
  <2> QED
    BY <1>1, <1>4, <2>2, OthersStay DEF Begin, ProvisionTypeOK
<1>5. ASSUME NEW p \in Provisioners, Guard(p)
      PROVE  \A q \in Provisioners : Known(q)' /\ RefusedFor(q)'
  <2>1. step'[p] \in {"failed", "describe"} /\ reason'[p] \in {"brokers", reason[p]} /\ step[p] = "guard"
    BY <1>1, <1>5 DEF Guard, ProvisionTypeOK
  <2>2. Known(p)' /\ RefusedFor(p)'
    BY <1>1, <1>5, <2>1 DEF Guard, Known, RefusedFor
  <2> QED
    BY <1>1, <1>5, <2>2, OthersStay DEF Guard, ProvisionTypeOK
<1>6. ASSUME NEW p \in Provisioners, Describe(p)
      PROVE  \A q \in Provisioners : Known(q)' /\ RefusedFor(q)'
  <2>1. /\ step[p] = "describe" /\ step'[p] = IF visible = Topics THEN "refresh" ELSE "create"
        /\ absent'[p] = Topics \ visible /\ reason' = reason /\ created' = created /\ topic' = topic
    BY <1>1, <1>6 DEF Describe, ProvisionTypeOK
  <2>2. \A t \in visible : topic[t] # NoTopic
    BY <1>1 DEF ProvisionTypeOK
  <2>3. Known(p)' /\ RefusedFor(p)'
    BY <1>1, <2>1, <2>2 DEF Known, RefusedFor
  <2> QED
    BY <1>1, <1>6, <2>3, OthersStay DEF Describe, ProvisionTypeOK
<1>7. ASSUME NEW p \in Provisioners, Fault(p)
      PROVE  \A q \in Provisioners : Known(q)' /\ RefusedFor(q)'
  <2>1. PICK granted \in SUBSET {t \in absent[p] : step[p] = "create" /\ Grantable(p, t)} :
           Grant(p, granted)
    BY <1>7 DEF Fault
  <2>2. \A t \in Topics : topic[t] # NoTopic => topic'[t] = topic[t]
    BY <1>1, <2>1, GrantCreates, GrantedWasAbsent
  <2>3. step'[p] = "failed" /\ reason'[p] = "fault" /\ created' = created
    BY <1>1, <1>7 DEF Fault, ProvisionTypeOK
  <2>4. \A t \in created[p] : topic'[t] = Size(p)
    BY <1>1, <2>2, SizesArePositive DEF Known, ProvisionTypeOK
  <2>5. Known(p)' /\ RefusedFor(p)'
    BY <2>3, <2>4 DEF Known, RefusedFor
  <2>6. ASSUME NEW q \in Provisioners, q # p PROVE Known(q)' /\ RefusedFor(q)'
    BY <1>1, <1>7, <2>2, <2>6, TopicsStay DEF Fault, ProvisionTypeOK
  <2> QED
    BY <2>5, <2>6
<1>8. ASSUME NEW s \in Services, Require(s)
      PROVE  \A q \in Provisioners : Known(q)' /\ RefusedFor(q)'
  BY <1>1, <1>8, TopicsStay DEF Require
<1>9. CASE UNCHANGED vars
  BY <1>1, <1>9, TopicsStay DEF vars
<1> QED
  BY <1>2, <1>3, <1>4, <1>5, <1>6, <1>7, <1>8, <1>9, CreateKeeps, ReportKeeps DEF Next, Provision

\* The invariant holds in every state of every run.
THEOREM ProvisionInvariant == Spec => []ProvisionInv
  BY InitInv, NextInv, PTL DEF Spec

(***************************************************************************)
(* The promises                                                            *)
(***************************************************************************)

\* A provisioning that succeeded leaves every topic in being, whoever created it,
\* and a report that finds none missing and none adrift is of topics that have the
\* partitions and the replicas of the settings.
THEOREM ReportsAreTrue == Spec => []ReportIsTrue
<1>1. ProvisionInv => ReportIsTrue
  BY DEF ProvisionInv, Known, ReportIsTrue
<1> QED
  BY <1>1, ProvisionInvariant, PTL

\* However many provisioners race, one fails on a creation only because of a topic
\* the broker will not have.
THEOREM RacesAreWonByAll == Spec => []OnlyARefusalFails
<1>1. ProvisionInv => OnlyARefusalFails
  BY DEF ProvisionInv, RefusedFor, OnlyARefusalFails
<1> QED
  BY <1>1, ProvisionInvariant, PTL
=============================================================================
