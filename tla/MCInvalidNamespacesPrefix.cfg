\* Violation run: the checker in prefix mode (--common-prefix a, so it
\* samples the prefixes a.x) and the cleaner with the matching
\* --prefix-parts 2, over names of three segments; no ldb failure.
CONSTANTS
    a = a
    b = b
    root = root
    s30m2y = s30m2y
    s5m7d = s5m7d
    s60s24h = s60s24h
    Failed = Failed
    Ids <- MCIds
    NameSet <- MCNameSet3
    Root <- MCRoot
    DataDbs <- MCDataDbs
    CommonPrefix <- MCCommonA
    SkipPrefix <- MCSkipPrefix
    CheckCount = 2
    PageSize = 2
    MaxFiles = 3
    NoDumpModes <- MCDumpOnly
    EarlierLines <- MCNoEarlierLines
    LdbMayFail = FALSE
    CleanPrefixParts = 2
    DryRun = FALSE
    HttpOutcomes <- MCHttpOutcomes

SPECIFICATION PipelineSpec

INVARIANT NoNameWithDataRemoved

\* Each tool exits at the end of its file.
CHECK_DEADLOCK FALSE
