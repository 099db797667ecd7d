--------------------------- MODULE TopicProvision ---------------------------
(***************************************************************************)
(* provision: describe the topics the pipeline needs, ask the broker to    *)
(* create those that are absent, and describe them again.  Several may run *)
(* at once, with settings of their own.  serve and consume start after one *)
(* has succeeded and refuse to run without the topics they use.            *)
(*                                                                         *)
(* A topic is its size, the partitions and the replicas of each.  What the *)
(* broker describes may lag behind what it has created.                    *)
(***************************************************************************)
EXTENDS Naturals, FiniteSets

CONSTANTS
    Topics,       \* the topics of the pipeline
    Services,     \* what needs them
    Needs,        \* the topics each service asks for
    Provisioners,
    Partitions,   \* each provisioner's setting,
    Replication,  \*   and the other one
    MaxBrokers,   \* the brokers there may be
    Refusable,    \* topics a policy of the broker may rule out
    MaxByHand, MaxFaults  \* bounds of the model

ASSUME ProvisionAssumption ==
    /\ Needs \in [Services -> SUBSET Topics]
    /\ Partitions \in [Provisioners -> Nat \ {0}]
    /\ Replication \in [Provisioners -> Nat \ {0}]
    /\ MaxBrokers \in Nat \ {0} /\ Refusable \subseteq Topics
    /\ MaxByHand \in Nat /\ MaxFaults \in Nat

VARIABLES
    topic,    \* the topics of the broker
    visible,  \* those it describes
    brokers,  \* how many brokers there are
    refused,  \* topics their policy rules out
    step,     \* where each provisioner stands
    absent,   \* topics it found absent
    created,  \* topics it was told it created
    missing,  \* topics its report says are missing
    drifts,   \* topics its report says are sized otherwise
    reason,   \* what made it fail
    deployed, \* has a run succeeded?
    up,       \* services that run
    byHand,   \* topics created by somebody else
    faults    \* requests that failed

vars == << topic, visible, refused, step, absent, created, missing, drifts, reason,
           deployed, up, byHand, faults, brokers >>
broker == << topic, visible, brokers, refused, byHand >>
service == << deployed, up >>
report == << missing, drifts >>

NoTopic == << 0, 0 >>
Size(p) == << Partitions[p], Replication[p] >>
Sizes   == {<< Partitions[p], Replication[q] >> : p \in Provisioners, q \in Provisioners}
Steps == {"start", "guard", "describe", "create", "refresh", "check", "done", "failed"}

ProvisionTypeOK ==
    /\ topic \in [Topics -> {NoTopic} \cup Sizes]
    /\ visible \subseteq {t \in Topics : topic[t] # NoTopic} /\ refused \subseteq Refusable
    /\ step \in [Provisioners -> Steps]
    /\ absent \in [Provisioners -> SUBSET Topics]
    /\ \A p \in Provisioners : step[p] = "create" => absent[p] # {}
    /\ created \in [Provisioners -> SUBSET Topics]
    /\ missing \in [Provisioners -> SUBSET Topics]
    /\ drifts \in [Provisioners -> SUBSET Topics]
    /\ reason \in [Provisioners -> {"none", "brokers", "refused", "unready", "fault"}]
    /\ brokers \in 1..MaxBrokers /\ deployed \in BOOLEAN
    /\ up \subseteq Services
    /\ byHand \in 0..MaxByHand /\ faults \in 0..MaxFaults

None == [p \in Provisioners |-> {}]

Init ==
    /\ topic = [t \in Topics |-> NoTopic] /\ visible = {}
    /\ refused \in SUBSET Refusable /\ brokers \in 1..MaxBrokers
    /\ step = [p \in Provisioners |-> "start"]
    /\ absent = None /\ created = None /\ missing = None /\ drifts = None
    /\ reason = [p \in Provisioners |-> "none"]
    /\ deployed = FALSE /\ up = {} /\ byHand = 0 /\ faults = 0

Goto(p, s) == step' = [step EXCEPT ![p] = s]

Fails(p, why) ==
    /\ Goto(p, "failed") /\ reason' = [reason EXCEPT ![p] = why]

----------------------------------------------------------------------------
\* Somebody sized a topic otherwise, before this or meanwhile.
CreateByHand(t, size) ==
    /\ topic[t] = NoTopic /\ size[2] <= brokers /\ byHand < MaxByHand
    /\ topic' = [topic EXCEPT ![t] = size] /\ byHand' = byHand + 1
    /\ UNCHANGED << visible, brokers, refused, step, absent, created, report, reason, service, faults >>

Propagate(t) ==
    /\ topic[t] # NoTopic /\ t \notin visible
    /\ visible' = visible \cup {t}
    /\ UNCHANGED << topic, brokers, refused, step, absent, created, report, reason, service, byHand, faults >>

----------------------------------------------------------------------------
\* provision_topics, for the first time or once more: ensure or, with --check,
\* verify.
Begin(p, mode) ==
    /\ step[p] \in {"start", "done", "failed"}
    /\ Goto(p, mode)
    /\ absent' = [absent EXCEPT ![p] = {}] /\ created' = [created EXCEPT ![p] = {}]
    /\ missing' = [missing EXCEPT ![p] = {}] /\ drifts' = [drifts EXCEPT ![p] = {}]
    /\ reason' = [reason EXCEPT ![p] = "none"]
    /\ UNCHANGED << broker, service, faults >>

\* More replicas than registered brokers: nothing is asked for.  A cluster that
\* lists no broker is not held against the setting.
Guard(p) ==
    /\ step[p] = "guard"
    /\ \E listed \in {0, brokers} :
          IF listed # 0 /\ Replication[p] > listed
          THEN Fails(p, "brokers")
          ELSE Goto(p, "describe") /\ UNCHANGED reason
    /\ UNCHANGED << broker, absent, created, report, service, faults >>

\* Mutant of Describe: an unknown topic is a failure to describe it.
DescribeRaising(p) ==
    /\ step[p] = "describe"
    /\ IF visible = Topics THEN Goto(p, "refresh") /\ UNCHANGED reason ELSE Fails(p, "fault")
    /\ UNCHANGED << broker, absent, created, report, service, faults >>

\* Mutant of Describe: the creation is asked for even of nothing.
DescribeAlways(p) ==
    /\ step[p] = "describe"
    /\ absent' = [absent EXCEPT ![p] = Topics \ visible]
    /\ Goto(p, "create")
    /\ UNCHANGED << broker, created, report, reason, service, faults >>

Describe(p) ==
    /\ step[p] = "describe"
    /\ absent' = [absent EXCEPT ![p] = Topics \ visible]
    /\ Goto(p, IF visible = Topics THEN "refresh" ELSE "create")
    /\ UNCHANGED << broker, created, report, reason, service, faults >>

\* What the broker makes of a request for these topics.
Grantable(p, t) == topic[t] = NoTopic /\ t \notin refused /\ Replication[p] <= brokers
Existing(ts)    == {t \in ts : topic[t] # NoTopic}

Grant(p, ts) == topic' = [t \in Topics |-> IF t \in ts THEN Size(p) ELSE topic[t]]

\* Mutant of Create: a topic that exists by now is an error like any other.
CreateAlone(p) ==
    /\ step[p] = "create"
    /\ LET granted == {t \in absent[p] : Grantable(p, t)}
       IN  /\ Grant(p, granted)
           /\ IF granted = absent[p]
              THEN Goto(p, "refresh") /\ created' = [created EXCEPT ![p] = granted] /\ UNCHANGED reason
              ELSE Fails(p, "refused") /\ UNCHANGED created
    /\ UNCHANGED << visible, brokers, refused, absent, report, service, byHand, faults >>

\* create_topics answers topic by topic: created, there already, or an error,
\* which ends the run whatever became of the others.
Create(p) ==
    /\ step[p] = "create"
    /\ LET granted == {t \in absent[p] : Grantable(p, t)}
           there   == Existing(absent[p])
       IN  /\ Grant(p, granted)
           /\ IF granted \cup there = absent[p]
              THEN Goto(p, "refresh") /\ created' = [created EXCEPT ![p] = granted] /\ UNCHANGED reason
              ELSE Fails(p, "refused") /\ UNCHANGED created
    /\ UNCHANGED << visible, brokers, refused, absent, report, service, byHand, faults >>

\* Any request may fail, a creation after the broker has acted on it.
Fault(p) ==
    /\ step[p] \in {"guard", "describe", "create", "refresh", "check"} /\ faults < MaxFaults
    /\ \E granted \in SUBSET {t \in absent[p] : step[p] = "create" /\ Grantable(p, t)} : Grant(p, granted)
    /\ Fails(p, "fault") /\ faults' = faults + 1
    /\ UNCHANGED << visible, brokers, refused, absent, created, report, service, byHand >>

\* Mutant of Drifting: only the partitions are compared.
DriftingCounted(p) == {t \in visible \ created[p] : topic[t][1] # Partitions[p]}

\* drift_from: of a topic that was there, as described now.
Drifting(p) == {t \in visible \ created[p] : topic[t] # Size(p)}

Reported(p) ==
    /\ missing' = [missing EXCEPT ![p] = Topics \ (visible \cup created[p])]
    /\ drifts' = [drifts EXCEPT ![p] = Drifting(p)]

\* The report of ensure_topics: drift is left as it was found, and no failure.
Refresh(p) ==
    /\ step[p] = "refresh"
    /\ Reported(p) /\ Goto(p, "done")
    /\ deployed' = TRUE
    /\ UNCHANGED << broker, absent, created, reason, up, faults >>

\* verify_topics: --check exits 1 unless the report is ready.
Check(p) ==
    /\ step[p] = "check"
    /\ Reported(p)
    /\ IF Topics \subseteq visible /\ Drifting(p) = {}
       THEN Goto(p, "done") /\ UNCHANGED reason ELSE Fails(p, "unready")
    /\ UNCHANGED << broker, absent, created, service, faults >>

----------------------------------------------------------------------------
\* require_topics, of a service that a provisioning that succeeded let start.
Require(s) ==
    /\ s \notin up /\ deployed
    /\ Needs[s] \subseteq visible
    /\ up' = up \cup {s}
    /\ UNCHANGED << broker, step, absent, created, report, reason, deployed, faults >>

Provision(p) ==
    \/ Guard(p) \/ Describe(p) \/ Create(p) \/ Refresh(p) \/ Check(p)

Next ==
    \/ \E t \in Topics : Propagate(t) \/ \E size \in Sizes : CreateByHand(t, size)
    \/ \E p \in Provisioners : Begin(p, "guard") \/ Begin(p, "check") \/ Provision(p) \/ Fault(p)
    \/ \E s \in Services : Require(s)

Spec == Init /\ [][Next]_vars

\* What the broker created it comes to describe, a deployment is tried again and
\* takes its steps, and a service that refused to start is restarted.
Fairness ==
    /\ \A t \in Topics : WF_vars(Propagate(t))
    /\ \A p \in Provisioners : SF_vars(Begin(p, "guard")) /\ WF_vars(Provision(p))
    /\ \A s \in Services : WF_vars(Require(s))

FairSpec == Spec /\ Fairness

----------------------------------------------------------------------------
(***************************************************************************)
(* Properties                                                              *)
(***************************************************************************)

\* A run that succeeds leaves every topic in being, whoever created it; and if its
\* report finds none missing and none adrift, each has both sizes of the settings.
\* (A topic so new that it is not described yet may be reported missing.)
ReportIsTrue ==
    \A p \in Provisioners : step[p] = "done" =>
        /\ \A t \in Topics : topic[t] # NoTopic
        /\ missing[p] = {} /\ drifts[p] = {} => \A t \in Topics : topic[t] = Size(p)

\* "Another provisioner won the race.  Both runs must succeed": a run fails on a
\* creation only because of a topic that the broker will not have.
OnlyARefusalFails ==
    \A p \in Provisioners : reason[p] = "refused" =>
        \E t \in absent[p] : t \in refused \/ Replication[p] > brokers

\* Where one of the settings can be met, the services run in the end, though a
\* restart may come before the broker describes what was created.
ServicesRun ==
    (refused = {} /\ \E p \in Provisioners : Replication[p] <= brokers) => <>(up = Services)
=============================================================================
