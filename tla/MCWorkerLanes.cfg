\* Three lanes, two of one worker, contend for a slot; leases lapse, replies are lost.
SPECIFICATION LeaseSpec
CONSTANTS
    w1 = w1
    w2 = w2
    g1 = g1
    g2 = g2
    d1 = d1
    Nobody = Nobody
    None = None
    Worker = {w1, w2}
    Lane = {1, 2}
    Concurrency <- MCConcurrency
    Serves <- MCServes
    Key = {g1, d1}
    Provider = {"geonode", "dataimpulse"}
    Pooled = {"geonode"}
    ProviderOf <- MCProviderOf
    SlotId = {1}
    IdleLimit = 1
    PollCap = 0
    Timely = FALSE
    RepliesLost = TRUE
INVARIANTS
    LeaseKnown
    SessionOnHeldSlot
    OneLanePerSlot
    IdleInboxEmpty
PROPERTIES
    OrphanedSlotsReturn
