\* Dot mode, no failure, --check-count 2: a first segment gets more
\* than two names written.
CONSTANTS
    a = a
    b = b
    root = root
    s30m2y = s30m2y
    s5m7d = s5m7d
    s60s24h = s60s24h
    Failed = Failed
    Ids <- MCIds
    NameSet <- MCNameSet
    Root <- MCRoot
    DataDbs <- MCDataDbs
    CommonPrefix <- MCCommonDot
    SkipPrefix <- MCSkipPrefix
    CheckCount = 2
    PageSize = 2
    MaxFiles = 4
    NoDumpModes <- MCDumpOnly
    EarlierLines <- MCNoEarlierLines
    LdbMayFail = FALSE

SPECIFICATION Spec

INVARIANT ReportsPerPrefixWithinCheckCount

\* The tool exits once check_invalid_ids() returns.
CHECK_DEADLOCK FALSE
