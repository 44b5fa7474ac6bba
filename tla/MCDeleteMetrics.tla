-------------------------- MODULE MCDeleteMetrics ---------------------------
(* Instantiates DeleteMetrics with a cluster of two shards.                *)
EXTENDS DeleteMetrics

\* A shard of the cluster and one that does not exist; a replica of each
\* shard and one that does not exist.
MCShardInputs == {1, 3}
MCReplicaInputs == {1, 2}

\* yes, its short form in capitals, and no.
MCAnswers == {"yes", "Y", "No"}

MCOutcomes == {"ok", "refused", "dropped", "stall"}

====
