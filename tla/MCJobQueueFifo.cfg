\* Four submissions of one item each compete for two places.
SPECIFICATION Spec
CONSTANTS
    j1 = j1
    j2 = j2
    j3 = j3
    j4 = j4
    w1 = w1
    w2 = w2
    Nobody = Nobody
    Job = {j1, j2, j3, j4}
    Key = {1}
    Worker = {w1}
    Source = {"osiptel"}
    Provider = {"geonode"}
    SourceOf <- MCSourceOf
    TeamOf <- MCTeamOf
    VersionOf <- MCVersionOf
    ProviderOf <- MCProviderOf
    Serves <- MCServes
    MaxActive = 2
    MaxLeaseAttempts = 1
    Outcome = {"ok"}
    MaxBatch = 1
INVARIANTS
    NoIdlePlace
    AnnouncedOnce
PROPERTIES
    EndedIsFinal
    ImplementsFifo
SYMMETRY JobSymmetry
