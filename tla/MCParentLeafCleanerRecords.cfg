\* Violation run: runs with and without --dry-run, crashes, and points
\* arriving while a run checks: the processed file and the deletes part.
CONSTANTS
    s30m2y = s30m2y
    s5m7d = s5m7d
    s60s24h = s60s24h
    l1 = l1
    l2 = l2
    Ids <- MCIds
    DataDbs <- MCDataDbs
    DryRunModes <- MCAnyRuns
    LdbMayFail = FALSE
    HttpMayFail = FALSE
    MayCrash = TRUE
    MaxLog = 3
    MaxRuns = 3

SPECIFICATION Spec

INVARIANT ProcessedMatchesDeleted

\* The job is started a bounded number of times.
CHECK_DEADLOCK FALSE
