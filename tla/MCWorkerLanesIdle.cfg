\* An idle lane and its slot.
SPECIFICATION FairSpec
CONSTANTS
    w1 = w1
    w2 = w2
    g1 = g1
    g2 = g2
    d1 = d1
    Nobody = Nobody
    None = None
    Worker = {w1}
    Lane = {1}
    Concurrency <- MCConcurrency
    Serves <- MCServes
    Key = {g1}
    Provider = {"geonode", "dataimpulse"}
    Pooled = {"geonode"}
    ProviderOf <- MCProviderOf
    SlotId = {1}
    IdleLimit = 1
    PollCap = 1
    Timely = TRUE
    RepliesLost = FALSE
PROPERTIES
    IdleSlotsReturn
