\* Violation run: the top prefixes and the family totals are not ranked as
\* the spec orders them (count, then lexicographic key).
CONSTANTS
    r1 = r1
    r2 = r2
    Runs <- MCRuns
    Segments <- MCSegments
    FamilyDepths <- MCFamilyDepths
    MaxSegs = 2
    MaxLines = 3
    TopPrefixesN = 2
    FamilyTopN = 1
    Threshold = 1
    DrillTopN = 1
    SampleN = 1
    None = None

SPECIFICATION Spec

INVARIANT ReportOrderAsSpecified

CHECK_DEADLOCK FALSE
