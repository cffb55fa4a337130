SPECIFICATION MCSpec
CONSTANTS
    None = None
    Streams = {s1, s2}
    Filters = {1, 2}
    Finalized = {1}
    Nonces = {n1, n2, n3}
    Ids = {r1}
    Absent = Absent
    Keys = {k1, k2}
    Bases = {b1, b2}
    MetaKeys = {a}
    MetaVals = {"x"}
    Zero = ""
    Hosts = {h1, h2, h3, h4}
    Readers = {r1}
    MayFail = FALSE
    Stores = {"memory", "postgres"}
    N = 3
    ChanCap = 2
    BatchMax = 2
    RingCap = 2
    SubCap = 2
    Limit = 1
    NoSlot = NoSlot
SYMMETRY Symmetry
CHECK_DEADLOCK FALSE
INVARIANTS ObjectsStayInStream StreamsSettled PublishedAreLive ClusterIsPublished RecordsKept
 
