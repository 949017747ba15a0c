\* One job of two items: two publishes at once.
SPECIFICATION Spec
CONSTANTS
    j1 = j1
    j2 = j2
    j3 = j3
    s1 = s1
    s2 = s2
    s3 = s3
    Job = {j1}
    Key = {1, 2}
    Session = {s1, s2}
    MaxActive = 1
INVARIANTS
    DrainedJobsEnd
SYMMETRY SessionSymmetry
