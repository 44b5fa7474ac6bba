\* Violation run: the order of equal-lag events in the report.  topN = 3 so
\* that sift operations can put a later event before an earlier one of the
\* same lag in the heap list; one metric name suffices.
CONSTANTS
    m1 = m1
    m2 = m2
    Metrics = {m1}
    MaxTs = 3
    TopN = 3
    MaxLines = 5
    None = None
    Value = Value
    Junk = Junk

SPECIFICATION Spec

INVARIANT RankTiesFirstDetected

\* The program stops at the end of the file.
CHECK_DEADLOCK FALSE
