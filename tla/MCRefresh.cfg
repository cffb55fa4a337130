SPECIFICATION MCSpec
CONSTANTS
    Callers = {c1}
    MaxVersion = 1
    MaxReports = 1
    MayStop = TRUE
    None = None
    Resolvers = {r1, r2}
    Callbacks = {b1, b2, b3}
    NoValue = NoValue
PROPERTIES NoApplyAfterStop RefreshCatchesUp StopTerminates ImplementsResolveOnce
