SPECIFICATION CacheSpec
CONSTANTS
    Configs <- MCConfigs
    Byte = {0, 1}
INVARIANTS KeepsRecentBlocks StatisticsAgree
PROPERTIES ImplementsPlainMemory FlushReachesNextLevel
CHECK_DEADLOCK FALSE
