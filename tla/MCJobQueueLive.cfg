\* Two submissions, one place, two workers: every job ends although lanes and workers die.
SPECIFICATION FairSpec
CONSTANTS
    j1 = j1
    j2 = j2
    j3 = j3
    j4 = j4
    w1 = w1
    w2 = w2
    Nobody = Nobody
    Job = {j1, j2}
    Key = {1}
    Worker = {w1, w2}
    Source = {"osiptel"}
    Provider = {"geonode"}
    SourceOf <- MCSourceOf
    TeamOf <- MCTeamOf
    VersionOf <- MCVersionOf
    ProviderOf <- MCProviderOf
    Serves <- MCServes
    MaxActive = 1
    MaxLeaseAttempts = 2
    Outcome = {"ok", "failed"}
    MaxBatch = 1
INVARIANTS
    LeaseAttemptsBounded
    OneWorkerPublishes
PROPERTIES
    EveryJobEnds
