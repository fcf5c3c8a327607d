SPECIFICATION AgentSpec
CONSTANTS
    Setups <- MCSetups
    Bots <- MCBots
    Status4xx <- MC4xx
    Status5xx <- MC5xx
    NormalPath <- MCNormalPath
    MaxExtras = 8
    maxCardinalityTagged = 2
    maxCardinalityURI = 2
    uriIdleTTL = 1
    uriSweepInterval = 2
    ChanCap = 1
    Start = 2
    MaxNow = 7
    Gathers = {"scrape", "push"}
    Configured = "app"
    Largest = "big"
    bloatRefreshInterval = 1
    settingRefreshInterval = 0
    MaxCollects = 3
    MaxClock = 2
INVARIANT UnreadAllowlistIsOff
CHECK_DEADLOCK FALSE
