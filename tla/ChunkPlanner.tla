---------------------------- MODULE ChunkPlanner ----------------------------
(***************************************************************************)
(* find_chunk_boundaries(filename, num_chunks) of                          *)
(* src/carbonj.service/src/main/scripts/analyze_cardinality.py (lines      *)
(* 34-53): one action per iteration of its loop, and one for the final     *)
(* append.  Offsets are 0-based as in the file API; file[k] is the byte at *)
(* offset k - 1.  The file and num_chunks (mp.cpu_count()) are chosen in   *)
(* Init among every file of at most MaxBytes bytes over Alphabet.          *)
(***************************************************************************)
EXTENDS Integers, Sequences, FiniteSets, SequencesExt

CONSTANTS
    Alphabet,   \* the bytes a file may contain; includes "\n"
    MaxBytes,   \* bound on the file size
    MaxChunks   \* bound on num_chunks

ASSUME "\n" \in Alphabet /\ MaxBytes \in Nat /\ MaxChunks \in Nat \ {0}

Files == UNION {[1..n -> Alphabet] : n \in 0..MaxBytes}

VARIABLES
    file, num_chunks,   \* the input of find_chunk_boundaries
    start, i,           \* its loop variables
    boundaries,         \* the list of (start, end) pairs
    planPc              \* "loop" while in the for loop, "done" once it returned

plannerVars == <<file, num_chunks, start, i, boundaries, planPc>>

FileSize == Len(file)

ChunkSize == FileSize \div num_chunks

\* Mutant: the boundary is the offset of the line terminator itself, not
\* the offset after it.
LineEndAtNewline(target) ==
    LET nl == {k \in (target + 1)..FileSize : file[k] = "\n"}
    IN  IF nl = {} THEN FileSize ELSE Min(nl) - 1

\* Mutant: one byte past the line terminator.
LineEndPastNewline(target) ==
    LET nl == {k \in (target + 1)..FileSize : file[k] = "\n"}
    IN  IF nl = {} THEN FileSize ELSE Min(nl) + 1

\* Lines 46-48: f.seek(target); f.readline(); f.tell() -- the offset just
\* after the first "\n" at or after target, or the end of the file.
LineEndAfter(target) ==
    LET nl == {k \in (target + 1)..FileSize : file[k] = "\n"}
    IN  IF nl = {} THEN FileSize ELSE Min(nl)

\* Line 42: for i in range(num_chunks - 1) has another iteration.
MoreIterations == i < num_chunks - 1

PlanInit ==
    /\ file \in Files
    /\ num_chunks \in 1..MaxChunks
    /\ start = 0 /\ i = 0
    /\ boundaries = <<>>
    /\ planPc = "loop"

\* Lines 42-50: one iteration of the for loop that does not break.
PlanIteration ==
    LET target == start + ChunkSize
        end    == LineEndAfter(target)
    IN  /\ planPc = "loop"
        /\ MoreIterations
        /\ target < FileSize
        /\ boundaries' = Append(boundaries, <<start, end>>)
        /\ start' = end
        /\ i' = i + 1
        /\ UNCHANGED <<file, num_chunks, planPc>>

\* Lines 44-45 and 51-53: the loop ends (range exhausted or target beyond
\* the file) and the last chunk runs to the end of the file.
PlanLast ==
    /\ planPc = "loop"
    /\ ~MoreIterations \/ start + ChunkSize >= FileSize
    /\ boundaries' = Append(boundaries, <<start, FileSize>>)
    /\ planPc' = "done"
    /\ UNCHANGED <<file, num_chunks, start, i>>

PlanNext == PlanIteration \/ PlanLast

PlanSpec == PlanInit /\ [][PlanNext]_plannerVars

-----------------------------------------------------------------------------

PlanTypeOK ==
    /\ file \in Files
    /\ num_chunks \in 1..MaxChunks
    /\ start \in 0..FileSize /\ i \in 0..(num_chunks - 1)
    /\ boundaries \in Seq((0..FileSize) \X (0..FileSize))
    /\ planPc \in {"loop", "done"}

\* Offset p is at a line boundary: the start or end of the file, or just
\* after a "\n".
AtLineBoundary(p) == p = 0 \/ p = FileSize \/ file[p] = "\n"

\* Once find_chunk_boundaries returns, its ranges partition the file: the
\* first starts at 0, the last ends at the file size, each ends where the
\* next starts, none is reversed, every boundary is at a line boundary (so
\* no line is split between two workers), and there are at most num_chunks
\* of them (spec section 8, "Chunk coverage").
ChunksPartitionFile ==
    planPc = "done" =>
        /\ 1 <= Len(boundaries) /\ Len(boundaries) <= num_chunks
        /\ boundaries[1][1] = 0
        /\ boundaries[Len(boundaries)][2] = FileSize
        /\ \A k \in 1..(Len(boundaries) - 1) : boundaries[k][2] = boundaries[k + 1][1]
        /\ \A k \in 1..Len(boundaries) :
               /\ boundaries[k][1] <= boundaries[k][2]
               /\ AtLineBoundary(boundaries[k][1])

=============================================================================
