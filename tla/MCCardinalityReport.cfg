\* Pass run: every file of up to 3 lines whose names have up to 3 segments
\* over {a, b}; two runs, each with its own iteration order of all_metrics.
\* Top 2 prefixes, top 1 family, top 1 drill-down parent, samples of 1, and a
\* threshold of 1 distinct value.
CONSTANTS
    r1 = r1
    r2 = r2
    Runs <- MCRuns
    Segments <- MCSegments
    FamilyDepths <- MCFamilyDepths
    MaxSegs = 3
    MaxLines = 3
    TopPrefixesN = 2
    FamilyTopN = 1
    Threshold = 1
    DrillTopN = 1
    SampleN = 1
    None = None

SPECIFICATION Spec

INVARIANT TypeOK
INVARIANT TopPrefixesRanked
INVARIANT ViewsAgree

\* Both runs end after printing the report.
CHECK_DEADLOCK FALSE
