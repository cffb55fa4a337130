SPECIFICATION McpSpec
CONSTANTS
    FrontEnds = {"transit", "nethttp", "router"}
    Clients = {c1}
    Profiles = {"p", "q"}
    Home = "p"
    Servers = {1, 2}
    Configs <- MCConfigs
    Prefix <- MCPrefix
    Tools <- MCTools
    Enabled <- MCEnabled
    Checking = {1}
    FreshIds = TRUE
    MaxSessions = 2
    MaxOutages = 1
    Workers = 3
    None = None
  
PROPERTIES RequestSettles
