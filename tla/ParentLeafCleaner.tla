------------------------- MODULE ParentLeafCleaner --------------------------
(***************************************************************************)
(* InvalidParentLeafNodeCleaner of                                         *)
(* src/carbonj.service/src/main/docker/files/                              *)
(* delete-invalid-parent-leaf-node.py, run again and again (a cron job),   *)
(* next to the CarbonJ index it cleans.                                    *)
(*                                                                         *)
(* CarbonJ logs "Cannot create metric with name [N.x] because [N] is       *)
(* already a leaf with ID [id]" when a metric arrives under a leaf.  Each  *)
(* run greps those lines, skips the ids recorded in the processed file by  *)
(* earlier runs, and for each other id asks the three data stores whether  *)
(* the id has a data point; if none does, it deletes the name N through    *)
(* the deleteAPI and records the id as processed.  Once N is gone, CarbonJ *)
(* can create the blocked metric N.x, and N becomes a parent.              *)
(*                                                                         *)
(* An id stands for one leaf and its name (NameOf).  The processed file is *)
(* opened with default buffering, so its lines reach the disk when the run *)
(* ends; a crash loses the lines of the current run.                      *)
(***************************************************************************)
EXTENDS Integers, Sequences, FiniteSets, SequencesExt

CONSTANTS
    Ids,            \* the ids of leaves that block a metric
    DataDbs,        \* <<'30m2y', '5m7d', '60s24h'>>, line 107
    DryRunModes,    \* the --dry-run values a run may be started with
    LdbMayFail,     \* whether an ldb command may fail
    HttpMayFail,    \* whether a delete may answer other than 200
    MayCrash,       \* whether a run may die before it ends
    MaxLog,         \* bound on the error lines logged
    MaxRuns         \* bound on the runs

VARIABLES
    node,           \* id -> "leaf", "absent" or "parent": its name in CarbonJ
    data,           \* id -> the data stores holding a data point of the leaf
    log,            \* the error lines, in log order
    processed,      \* the ids on disk in the processed file
    notProcessed,   \* the ids on disk in the not-processed file
    buffer,         \* lines of this run not yet on disk: <<file, id>>
    pc,             \* "idle" or "run"
    dry,            \* --dry-run of the current run
    queue,          \* processing_invalid_parent_leaf_nodes, in insertion order
    qpos,           \* the position in queue processed next
    dbPos,          \* the store of DataDbs checked next for queue[qpos]
    runs,           \* the runs started
    deleted,        \* history: the ids whose name a run deleted (delete=true)
    lost,           \* history: the ids whose processed line a crash lost
    raced           \* history: the ids that got a point in a store already checked

vars == <<node, data, log, processed, notProcessed, buffer, pc, dry, queue,
          qpos, dbPos, runs, deleted, lost, raced>>

DbNames == Range(DataDbs)

-----------------------------------------------------------------------------
(* CarbonJ and its log.                                                    *)

\* The name of the leaf id: a distinct value per id.
LeafName(id) == [leaf |-> id]

\* What lines 147-154 read from an error line: the leaf's name and its id.
ErrorLine(id) == [name |-> LeafName(id), id |-> id]

Init ==
    /\ node = [id \in Ids |-> "leaf"]
    /\ data \in [Ids -> SUBSET DbNames]
    /\ log = <<>>
    /\ processed = <<>> /\ notProcessed = <<>> /\ buffer = <<>>
    /\ pc = "idle" /\ dry = FALSE
    /\ queue = <<>> /\ qpos = 1 /\ dbPos = 1
    /\ runs = 0
    /\ deleted = {}
    /\ lost = {}
    /\ raced = {}

\* A metric arrives under the leaf id: CarbonJ refuses it and logs the line.
ErrorLogged(id) ==
    /\ node[id] = "leaf"
    /\ Len(log) < MaxLog
    /\ log' = Append(log, ErrorLine(id))
    /\ UNCHANGED <<node, data, processed, notProcessed, buffer, pc, dry, queue,
                   qpos, dbPos, runs, deleted, lost, raced>>

\* Once the leaf is deleted, the blocked metric N.x is created; it has data.
ChildCreated(id) ==
    /\ node[id] = "absent"
    /\ node' = [node EXCEPT ![id] = "parent"]
    /\ UNCHANGED <<data, log, processed, notProcessed, buffer, pc, dry, queue,
                   qpos, dbPos, runs, deleted, lost, raced>>

\* A data point of the leaf id reaches a store, maybe one the running
\* cleaner has already checked for that id.
DataArrives(id, db) ==
    /\ node[id] = "leaf"
    /\ db \notin data[id]
    /\ data' = [data EXCEPT ![id] = @ \cup {db}]
    /\ raced' = IF /\ pc = "run" /\ qpos <= Len(queue) /\ queue[qpos] = id
                    /\ \E k \in 1..(dbPos - 1) : DataDbs[k] = db
                 THEN raced \cup {id} ELSE raced
    /\ UNCHANGED <<node, log, processed, notProcessed, buffer, pc, dry, queue,
                   qpos, dbPos, runs, deleted, lost>>

-----------------------------------------------------------------------------
(* The cleaner.                                                            *)

\* Mutant: the processed file is not consulted.
ToProcessIgnoringDone(lines, done) ==
    FoldLeft(LAMBDA acc, l : IF l.id \in Range(acc) THEN acc ELSE Append(acc, l.id),
             <<>>, lines)

\* Mutant: the whole line is queued instead of the id read from it.
ToProcessWholeLine(lines, done) ==
    FoldLeft(LAMBDA acc, l : IF l.id \in Range(done) \/ l \in Range(acc)
                                THEN acc ELSE Append(acc, l),
             <<>>, lines)

\* Lines 139-155: the ids of the error lines in order, without those
\* already processed or already queued (the dict keeps insertion order and
\* each id's name, which is LeafName(id)).
ToProcess(lines, done) ==
    FoldLeft(LAMBDA acc, l : IF l.id \in Range(done) \/ l.id \in Range(acc)
                                THEN acc ELSE Append(acc, l.id),
             <<>>, lines)

\* Mutant: check_id_in_db answers "not there" when ldb fails, as in
\* check-invalid-namespaces.py.
CheckIdInDbFailOpen(id, db) ==
    IF LdbMayFail THEN {db \in data[id], FALSE} ELSE {db \in data[id]}

\* check_id_in_db (lines 65-77): whether the id has a data point in db; ''
\* from a command that failed its three tries reads as "there".
CheckIdInDb(id, db) ==
    IF LdbMayFail THEN {db \in data[id], TRUE} ELSE {db \in data[id]}

\* Lines 124-155 (check_ldb_tool and the grep are I/O): the run reads the
\* processed file and the log, and keeps the ids to process.
StartRun ==
    /\ pc = "idle"
    /\ runs < MaxRuns
    /\ \E d \in DryRunModes : dry' = d
    /\ queue' = ToProcess(log, processed)
    /\ qpos' = 1 /\ dbPos' = 1
    /\ pc' = "run"
    /\ runs' = runs + 1
    /\ UNCHANGED <<node, data, log, processed, notProcessed, buffer, deleted, lost, raced>>

\* Lines 107-109 for the current id: check_id_in_db on the next store.
\* An answer "there" makes process_invalid_parent_leaf_nodes return False,
\* and the id is written to the not-processed file (line 165).
CheckDb ==
    LET id == queue[qpos]
    IN  /\ pc = "run"
        /\ qpos <= Len(queue) /\ dbPos <= Len(DataDbs)
        /\ \E there \in CheckIdInDb(id, DataDbs[dbPos]) :
              IF there THEN /\ buffer' = Append(buffer, <<"not_processed", id>>)
                            /\ qpos' = qpos + 1 /\ dbPos' = 1
                       ELSE /\ dbPos' = dbPos + 1
                            /\ UNCHANGED <<buffer, qpos>>
        /\ UNCHANGED <<node, data, log, processed, notProcessed, pc, dry, queue,
                       runs, deleted, lost, raced>>

\* Lines 116-121 and 162: the id goes to the processed file when the
\* delete request answered 200.
Recorded(ok) == ok

\* Lines 110-121 and 161-165: no store had the id; the delete request, then
\* the line for the processed or the not-processed file.  With --dry-run
\* the request asks for delete=false and deletes nothing, but a 200 still
\* makes it return True.
DeleteLeaf ==
    LET id == queue[qpos]
    IN  /\ pc = "run"
        /\ qpos <= Len(queue) /\ dbPos > Len(DataDbs)
        /\ \E ok \in IF HttpMayFail THEN {TRUE, FALSE} ELSE {TRUE} :
              /\ node' = IF ok /\ ~dry THEN [node EXCEPT ![id] = "absent"] ELSE node
              /\ deleted' = IF ok /\ ~dry THEN deleted \cup {id} ELSE deleted
              /\ buffer' = Append(buffer, <<IF Recorded(ok) THEN "processed" ELSE "not_processed", id>>)
        /\ qpos' = qpos + 1 /\ dbPos' = 1
        /\ UNCHANGED <<data, log, processed, notProcessed, pc, dry, queue, runs, lost, raced>>

\* The lines of the buffer written to one file.
LinesTo(file) == [k \in 1..Len(SelectSeq(buffer, LAMBDA l : l[1] = file)) |->
                      SelectSeq(buffer, LAMBDA l : l[1] = file)[k][2]]

\* Line 160: leaving the with block closes both files, which flushes them.
EndRun ==
    /\ pc = "run"
    /\ qpos > Len(queue)
    /\ processed' = processed \o LinesTo("processed")
    /\ notProcessed' = notProcessed \o LinesTo("not_processed")
    /\ buffer' = <<>>
    /\ pc' = "idle"
    /\ UNCHANGED <<node, data, log, dry, queue, qpos, dbPos, runs, deleted, lost, raced>>

\* The job dies before its files are closed: the unflushed lines are lost.
Crash ==
    /\ MayCrash
    /\ pc = "run"
    /\ lost' = lost \cup Range(LinesTo("processed"))
    /\ buffer' = <<>>
    /\ pc' = "idle"
    /\ UNCHANGED <<node, data, log, processed, notProcessed, dry, queue, qpos,
                   dbPos, runs, deleted, raced>>

Next ==
    \/ \E id \in Ids : ErrorLogged(id) \/ ChildCreated(id)
    \/ \E id \in Ids, db \in DbNames : DataArrives(id, db)
    \/ StartRun \/ CheckDb \/ DeleteLeaf \/ EndRun \/ Crash

Spec == Init /\ [][Next]_vars

-----------------------------------------------------------------------------
(* Properties.                                                             *)

TypeOK ==
    /\ node \in [Ids -> {"leaf", "absent", "parent"}]
    /\ data \in [Ids -> SUBSET DbNames]
    /\ log \in Seq([name : {LeafName(id) : id \in Ids}, id : Ids]) /\ processed \in Seq(Ids) /\ notProcessed \in Seq(Ids)
    /\ buffer \in Seq({"processed", "not_processed"} \X Ids)
    /\ pc \in {"idle", "run"} /\ dry \in BOOLEAN
    /\ queue \in Seq(Ids) /\ qpos \in 1..(Len(queue) + 1) /\ dbPos \in 1..(Len(DataDbs) + 1)
    /\ runs \in 0..MaxRuns /\ deleted \subseteq Ids /\ lost \subseteq Ids /\ raced \subseteq Ids

\* A leaf is deleted only if none of the three stores has a data point of
\* it, even when ldb fails: check_id_in_db reads a failed command as "the
\* id is there" (line 70), the opposite of check-invalid-namespaces.py.
\* The checks and the delete are separate requests; the exception is a
\* point reaching a store after that store was checked.
DeletesOnlyIdsWithoutDataUnlessRaced == \A id \in deleted \ raced : data[id] = {}

\* Between runs, the processed file lists exactly the leaves the cleaner
\* deleted while they had no data point: the file is what keeps later
\* runs (line 150) from deleting a name again once it has become a parent,
\* and from skipping a leaf that is still there.
ProcessedMatchesDeleted ==
    pc = "idle" => Range(processed) = {id \in deleted : data[id] = {}}

\* The cleaner never deletes a name that has become a parent, i.e. a
\* namespace whose metrics (the ones the leaf used to block) have data,
\* when the processed line of the leaf reached the disk: the skip of line
\* 150 protects every leaf whose record was not lost.
NoLiveSubtreeDeletedUnlessRecordLost ==
    [][\A id \in Ids \ lost : node[id] = "parent" => node'[id] = "parent"]_vars

====
