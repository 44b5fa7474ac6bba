------------------------- MODULE CardinalityPipeline -------------------------
(***************************************************************************)
(* The fork-join phase of main() in                                        *)
(* src/carbonj.service/src/main/scripts/analyze_cardinality.py (lines      *)
(* 109-134): find_chunk_boundaries (module ChunkPlanner), pool.map of      *)
(* process_chunk over the chunks by a pool of worker processes (module     *)
(* ChunkWorker), then the single-threaded merge after the join.            *)
(*                                                                         *)
(* The pool's processes run the chunks in any order and at any time;       *)
(* pool.map returns the results in chunk order.  A chunk whose read fails  *)
(* (IOReadError) makes pool.map raise, which ends main with no report.     *)
(***************************************************************************)
EXTENDS Integers, Sequences, FiniteSets, SequencesExt, ChunkWorker

CONSTANTS Alphabet, MaxBytes, MaxChunks,
          NotDone     \* a pool task whose result is not there yet

VARIABLES
    file, num_chunks, start, i, boundaries, planPc,   \* ChunkPlanner
    phase,          \* "plan", "map", "merged" or "aborted"
    results,        \* chunk index -> ChunkSummary or NotDone
    all_metrics,    \* line 126-128
    merged          \* merged_prefixes, line 134

Planner == INSTANCE ChunkPlanner WITH file <- file, num_chunks <- num_chunks,
              start <- start, i <- i, boundaries <- boundaries, planPc <- planPc

plannerVars == <<file, num_chunks, start, i, boundaries, planPc>>
pipelineVars == <<phase, results, all_metrics, merged>>
vars == <<file, num_chunks, start, i, boundaries, planPc, phase, results,
          all_metrics, merged>>

\* The bytes of chunk c: f.seek(start); f.read(end - start) (lines 63-66).
ChunkData(c) == SubSeq(file, boundaries[c][1] + 1, boundaries[c][2])

Init ==
    /\ Planner!PlanInit
    /\ phase = "plan"
    /\ results = <<>>
    /\ all_metrics = {}
    /\ merged = [p \in {} |-> {}]

\* Line 110: find_chunk_boundaries, one step of its loop.
Plan ==
    /\ phase = "plan"
    /\ Planner!PlanNext
    /\ UNCHANGED pipelineVars

\* Lines 111-120: once the boundaries are known, pool.map submits one task
\* per chunk.
StartPool ==
    /\ phase = "plan" /\ planPc = "done"
    /\ phase' = "map"
    /\ results' = [c \in 1..Len(boundaries) |-> NotDone]
    /\ UNCHANGED <<all_metrics, merged>>
    /\ UNCHANGED plannerVars

\* A pool process runs process_chunk on chunk c (lines 56-83).
RunChunk(c) ==
    /\ phase = "map"
    /\ results[c] = NotDone
    /\ results' = [results EXCEPT ![c] = ProcessChunk(ChunkData(c))]
    /\ UNCHANGED <<phase, all_metrics, merged>>
    /\ UNCHANGED plannerVars

\* The open/seek/read of chunk c fails: pool.map re-raises in main, which
\* ends with no report.
ChunkReadFails(c) ==
    /\ phase = "map"
    /\ results[c] = NotDone
    /\ phase' = "aborted"
    /\ UNCHANGED <<results, all_metrics, merged>>
    /\ UNCHANGED plannerVars

\* Lines 120-134: pool.map returns once every task is done; main then
\* merges the names and the prefix dicts in chunk order.
MergeResults ==
    /\ phase = "map"
    /\ \A c \in DOMAIN results : results[c] # NotDone
    /\ all_metrics' = MergeMetricNames(results)
    /\ merged' = MergePrefixChildren(results)
    /\ phase' = "merged"
    /\ UNCHANGED results
    /\ UNCHANGED plannerVars

Next ==
    \/ Plan
    \/ StartPool
    \/ \E c \in DOMAIN results : RunChunk(c) \/ ChunkReadFails(c)
    \/ MergeResults

Spec == Init /\ [][Next]_vars

-----------------------------------------------------------------------------

\* A metric name never contains the field separator or a line terminator.
Names == Seq(Alphabet \ {SP, NL})

TypeOK ==
    /\ Planner!PlanTypeOK
    /\ phase \in {"plan", "map", "merged", "aborted"}
    /\ \A c \in DOMAIN results :
           results[c] = NotDone \/ results[c].metric_names \subseteq Names
    /\ all_metrics \subseteq Names

\* After the merge, the global index is the one a single process_chunk over
\* the whole file would build: the same set of metric names, and for every
\* prefix the same set of children -- whatever the number of chunks, where
\* the boundaries fell and in which order the pool ran the chunks.  This
\* needs the planner never to split a line and the merge to union (not
\* replace) the children of a prefix seen in several chunks.
MergedIndexMatchesFile ==
    phase = "merged" =>
        LET whole == ProcessChunk(file)
        IN  /\ all_metrics = whole.metric_names
            /\ merged = whole.prefix_children

\* The planner's ranges partition the file at line boundaries (spec section
\* 8, "Chunk coverage"); see ChunkPlanner.
ChunksPartitionFile == Planner!ChunksPartitionFile

=============================================================================
