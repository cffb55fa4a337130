SPECIFICATION MCSpec
CONSTANTS
    Callers = {c1}
    MaxChanges = 3
    Invalid = {2}
    FineClock = TRUE
    Concurrent = FALSE
    Factories = {f1, f2}
    Goroutines = {g1, g2}
    Free = Free
    Other = Other
    Kinds = {"discovery", "models", "shards"}
    Clusters = {c1}
    Requests = {r1}
    Versions <- ServedVersions
    Resolves <- ServedResolves
    Addresses <- ServedAddresses
    Routes <- ServedRoutes
    Headers <- MCHeaders
    RouteHeaders <- MCHeaders
    InitialL1 <- MCL1
    InitialL2 <- MCL2
    Updates <- MCUpdates
    Resolver <- MCResolver
    MyShard <- MCMyShard
    Discovered <- MCDiscovered
    MaxEvents = 2
    AlwaysShutdown = {"discovery"}
    MaxResponses = 2
    MaxOther = 1
INVARIANTS DestroyJoinsActors 
PROPERTIES LastGoodKept StoppedIsFinal  UpdatesArrive
