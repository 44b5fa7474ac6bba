\* Real runs, with ldb failures, failed deletes and crashes: three runs over
\* a log of up to three error lines about two leaves.
CONSTANTS
    s30m2y = s30m2y
    s5m7d = s5m7d
    s60s24h = s60s24h
    l1 = l1
    l2 = l2
    Ids <- MCIds
    DataDbs <- MCDataDbs
    DryRunModes <- MCRealRuns
    LdbMayFail = TRUE
    HttpMayFail = TRUE
    MayCrash = TRUE
    MaxLog = 3
    MaxRuns = 3

SPECIFICATION Spec

INVARIANT TypeOK
INVARIANT DeletesOnlyIdsWithoutDataUnlessRaced
PROPERTY NoLiveSubtreeDeletedUnlessRecordLost

\* The job is started a bounded number of times.
CHECK_DEADLOCK FALSE
