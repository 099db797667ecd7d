SPECIFICATION FairSpec
CONSTANTS
    Topics <- BothTopics
    Services <- BothServices
    Needs <- TheirNeeds
    Provisioners <- TwoProvisioners
    Partitions <- TheirPartitions
    Replication <- TheirReplication
    MaxBrokers = 2
    Refusable <- BothTopics
    MaxByHand = 1
    MaxFaults = 1
INVARIANTS
    ProvisionTypeOK
    ReportIsTrue
    OnlyARefusalFails
PROPERTIES
    ServicesRun
