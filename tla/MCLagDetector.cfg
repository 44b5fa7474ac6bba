\* Pass run: a file of up to 6 lines, timestamps 0..3, topN = 3, so that the
\* heap fills, grows a right child, replaces its minimum and refuses smaller
\* lags.
CONSTANTS
    m1 = m1
    m2 = m2
    Metrics <- MCMetrics
    MaxTs = 3
    TopN = 3
    MaxLines = 6
    None = None
    Value = Value
    Junk = Junk

SPECIFICATION Spec
SYMMETRY MCSymmetry

INVARIANT TypeOK
INVARIANT StreamMatchesReference
INVARIANT HeapHoldsTopN
INVARIANT ReportRanksLargestFirst
PROPERTY ImplementsLagReport

\* The program stops at the end of the file.
CHECK_DEADLOCK FALSE
