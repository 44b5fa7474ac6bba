\* Two shards (two replicas each), typed lists of up to two numbers, every
\* request outcome.
CONSTANTS
    ShardCount = 2
    ShardInputs <- MCShardInputs
    ReplicaInputs <- MCReplicaInputs
    Answers <- MCAnswers
    MaxList = 2
    Outcomes <- MCOutcomes

SPECIFICATION Spec

INVARIANT TypeOK
INVARIANT OneRecordPerUrl

\* The tool exits after a run completes or is aborted, and a stalled
\* request leaves it waiting.
CHECK_DEADLOCK FALSE
