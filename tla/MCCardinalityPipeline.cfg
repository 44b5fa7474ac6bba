\* Every file of up to 6 bytes over {a, ., space, \n}, split for 1..3
\* processes; chunks run in every order and any of them may fail.
CONSTANTS
    Alphabet <- MCAlphabet
    MaxBytes = 6
    MaxChunks = 3
    NotDone = NotDone

SPECIFICATION Spec

INVARIANT TypeOK
INVARIANT MergedIndexMatchesFile
INVARIANT ChunksPartitionFile

\* main ends after the merge, or when pool.map raises.
CHECK_DEADLOCK FALSE
