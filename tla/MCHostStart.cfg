SPECIFICATION StartSpec
CHECK_DEADLOCK FALSE
CONSTANTS
    UIntMod = 4096
    NumberOf <- MCNumberOf
    SizeOf <- MCSizeOf
    CharsOf <- MCCharsOf
    ArgLists <- MCArgLists
    Sessions <- MCSessions
    Paths <- MCPaths
    Capacity = 2
    Laps = 3
    MaxLaunches = 2
    MaxSends = 3
INVARIANTS StartTypeOK NoStaleReplay BrowserIsReachable OptionsObeyed SessionsApart UrlFindsFile
