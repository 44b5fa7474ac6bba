\* Prefix mode (--common-prefix a), every ldb command may fail: three ids,
\* two data stores, a page of 2 keys, up to three scan files; then the cleaner with the
\* default --prefix-parts 0 and any HTTP outcome.
CONSTANTS
    a = a
    b = b
    root = root
    s30m2y = s30m2y
    s5m7d = s5m7d
    s60s24h = s60s24h
    Failed = Failed
    Ids <- MCIds
    NameSet <- MCNameSet
    Root <- MCRoot
    DataDbs <- MCDataDbs2
    CommonPrefix <- MCCommonA
    SkipPrefix <- MCSkipPrefix
    CheckCount = 2
    PageSize = 2
    MaxFiles = 3
    NoDumpModes <- MCNoDumpModes
    EarlierLines <- MCEarlierLines
    LdbMayFail = TRUE
    CleanPrefixParts = 0
    DryRun = FALSE
    HttpOutcomes <- MCHttpOutcomes

SPECIFICATION PipelineSpec

INVARIANT PipelineTypeOK
INVARIANT DumpCoversIndex
INVARIANT ReportedNamesHaveNoData
PROPERTY Terminates

\* Each tool exits at the end of its file.
CHECK_DEADLOCK FALSE
