SPECIFICATION MCSpec
CONSTANTS
    Selections = {s1, s2}
    Tokens = {t1, t2}
    ReuseTokens = FALSE
    None = None
    Requests = {r1, r2}
    Configs <- MCConfigs
    Targets = {"", "a", "b"}
    MaxAttempts = 2
    PolicyKinds = {"static", "least-conn", "filter-state", "dfp", "decider", "first-host",
                   "header-hash", "metadata", "retry-aware"}
    HostConfigs <- MCHostConfigs
    Clients = {c1, c2}
    Wants = {"", "b", "ip2"}
    Numeric = {"ip1", "ip2"}
    ResolvesTo <- MCResolvesTo
    Hash <- MCHash
    MaxTries = 2
    MaxChanges = 2
INVARIANTS SettledOnce HandlesReleased
 
