SPECIFICATION MCSpec
CONSTANTS
    Deliveries = {d1, d2, d3}
    SameThread = TRUE
    Kinds = {"all", "sequence"}
    N = 3
    Calls = {k1, k2, k3}
    Deadlines = {k1}
    FinishGo = FinishGo
    Empty = Empty
    Messages <- MCMessages
    Statuses = {0, 7}
    Documents <- MCDocuments
    Hosted <- MCHosted
    Apps = {"ratelimit", "grpc", "jwt"}
    MaxUpdates = 2
    None = None
    Failed = Failed
INVARIANTS FlushedOnce ResumeFindsStopped SettledOnce GrpcAnswerWhole AdmittedByPolicy
PROPERTIES NoFlushAfterStreamDone FlushesOnceAlive LiveAndOwn WaitEnds
