\* Three jobs of two items each, one place, two connections.
SPECIFICATION Spec
CONSTANTS
    j1 = j1
    j2 = j2
    j3 = j3
    s1 = s1
    s2 = s2
    s3 = s3
    Job = {j1, j2, j3}
    Key = {1, 2}
    Session = {s1, s2}
    MaxActive = 1
INVARIANTS
    ActiveLimit
    NoIdlePlace
    AnnouncedOnce
    EndedJobsKeepNothingLive
PROPERTIES
    ImplementsFifo
SYMMETRY Symmetry
