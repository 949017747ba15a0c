\* Two submissions of two items each, one place, two workers; the second may reuse.
SPECIFICATION Spec
CONSTANTS
    j1 = j1
    j2 = j2
    j3 = j3
    j4 = j4
    w1 = w1
    w2 = w2
    Nobody = Nobody
    Job = {j1, j2}
    Key = {1, 2}
    Worker = {w1, w2}
    Source = {"osiptel"}
    Provider = {"geonode"}
    SourceOf <- MCSourceOf
    TeamOf <- MCTeamOf
    VersionOf <- MCVersionOf
    ProviderOf <- MCProviderOf
    Serves <- MCServes
    MaxActive = 1
    MaxLeaseAttempts = 1
    Outcome = {"ok", "failed"}
    MaxBatch = 2
INVARIANTS
    QueueInv
    ObservationsKept
PROPERTIES
    PublishedIsFinal
SYMMETRY Symmetry
