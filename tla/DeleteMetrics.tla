--------------------------- MODULE DeleteMetrics ----------------------------
(***************************************************************************)
(* src/carbonj.service/src/main/docker/files/deletemetrics.py: an operator *)
(* answers the prompts of _build_url (the metric, delete or dry run, all   *)
(* shards or a list of shards and replicas), confirms in _do_delete, and   *)
(* the tool sends one deleteAPI request per shard-replica URL, all of them *)
(* as concurrent tasks of one asyncio event loop, each writing one record  *)
(* of its outcome to the results file.                                     *)
(*                                                                         *)
(* A URL is the pair <<shard, replica>>; the metric and its exclusions are *)
(* one metric.  is_prd is True, so the local-URL branches never run.  The  *)
(* requests use timeout=None (line 100): a replica that never answers      *)
(* keeps its task, and run_until_complete, waiting forever.                *)
(***************************************************************************)
EXTENDS Integers, Sequences, FiniteSets, SequencesExt

CONSTANTS
    ShardCount,     \* shard_count (15, line 18)
    ShardInputs,    \* the shard numbers an operator may type
    ReplicaInputs,  \* the replica numbers an operator may type
    Answers,        \* the answers an operator may type to a yes/no prompt
    MaxList,        \* bound on the length of a typed list
    Outcomes        \* what a request to an existing replica may meet

VARIABLES
    pc,         \* "ask", "confirm", "running", "complete" or "aborted"
    urls,       \* url_list: the targets, in order
    delete,     \* the delete argument of the URLs
    task,       \* task k -> "pending", "answered", "failed", "stalled", "done"
    metric,     \* target -> whether the replica still has the metric
    results     \* the records in the results file: <<k, "result" or "error">>

vars == <<pc, urls, delete, task, metric, results>>

\* The replicas of the cluster: carbonj-p<shard>-<replica> for shards
\* 1..shard_count and replicas 0 and 1.
Replicas == (1..ShardCount) \X {0, 1}

\* Lines 76, 86 and 126: 'yes' == answer.lower() or 'y' == answer.lower(),
\* for the answers that lower() maps to 'yes' or 'y'.
Yes(answer) == answer \in {"yes", "y", "YES", "Yes", "Y"}

\* _get_urls_all_shards (lines 31-36): every shard, replicas 0 and 1.
AllShardUrls == SetToSortSeq(Replicas, LAMBDA u, v : u[1] < v[1] \/ (u[1] = v[1] /\ u[2] < v[2]))

\* Mutant: shard and replica given to _format_url in each other's place.
ListedUrlsSwapped(shards, replicas) ==
    FoldLeft(LAMBDA acc, p : acc \o [j \in DOMAIN replicas |-> <<replicas[j], p>>],
             <<>>, shards)

\* _get_urls (lines 39-47) for the typed lists: each shard with each replica.
ListedUrls(shards, replicas) ==
    FoldLeft(LAMBDA acc, p : acc \o [j \in DOMAIN replicas |-> <<p, replicas[j]>>],
             <<>>, shards)

\* The lists _get_int_list can return: the prompt is asked again until
\* the answer parses as integers, so a list is never empty.
TypedLists(S) == UNION {[1..n -> S] : n \in 1..MaxList}

\* The most URLs one run can have.
MaxUrls == IF 2 * ShardCount > MaxList * MaxList THEN 2 * ShardCount ELSE MaxList * MaxList

Init ==
    /\ pc = "ask"
    /\ urls = <<>>
    /\ delete = FALSE
    /\ task = <<>>
    /\ metric = [u \in Replicas |-> TRUE]
    /\ results = <<>>

\* _build_url (lines 67-95): the answers to the prompts give the URLs and
\* the delete argument.
BuildUrl ==
    /\ pc = "ask"
    /\ \E doDelete \in Answers, all \in Answers :
          /\ delete' = Yes(doDelete)
          /\ \/ Yes(all) /\ urls' = AllShardUrls
             \/ ~Yes(all) /\ \E s \in TypedLists(ShardInputs), r \in TypedLists(ReplicaInputs) :
                                urls' = ListedUrls(s, r)
    /\ pc' = "confirm"
    /\ UNCHANGED <<task, metric, results>>

\* _do_delete (lines 122-130): the results file is created; on yes, one
\* task per URL (lines 113-119), else nothing is sent.
Confirm ==
    /\ pc = "confirm"
    /\ \E answer \in Answers :
          IF Yes(answer)
             THEN /\ pc' = "running"
                  /\ task' = [k \in DOMAIN urls |-> "pending"]
             ELSE /\ pc' = "aborted"
                  /\ UNCHANGED task
    /\ UNCHANGED <<urls, delete, metric, results>>

\* The task after its request meets outcome o: it has the answer, it
\* caught the exception session.delete or response.json raised (line 107),
\* or it waits for an answer that does not come.
TaskAfter(o) ==
    CASE o = "ok" -> "answered" [] o = "stall" -> "stalled" [] OTHER -> "failed"

\* The replica a URL names handles the request: `session.delete(url)` of
\* line 100.  A URL of a shard or replica that does not exist fails to
\* connect.  An existing replica deletes the metric when asked to and
\* answers, or the connection breaks before the answer, after the replica
\* has deleted it or before, or the replica never answers.
SendRequest(k) ==
    LET u == urls[k]
    IN  /\ pc = "running"
        /\ task[k] = "pending"
        /\ \E o \in IF u \in Replicas THEN Outcomes ELSE {"refused"} :
              /\ task' = [task EXCEPT ![k] = TaskAfter(o)]
              /\ metric' = IF o \in {"ok", "dropped"} /\ delete
                              THEN [metric EXCEPT ![u] = FALSE] ELSE metric
        /\ UNCHANGED <<pc, urls, delete, results>>

\* Mutant: the except branch does not write its message.
RecordDroppingErrors(k, ok) == IF ok THEN <<<<k, "result">>>> ELSE <<>>

\* Lines 101-110: the record a task writes, f.write(str(res)) after the
\* JSON answer, or the 'Delete Error' message when an exception was raised.
Record(k, ok) == <<<<k, IF ok THEN "result" ELSE "error">>>>

\* The task resumes after its await and writes its record.  No await lies
\* between the write and the end of the task, so records are whole lines.
WriteRecord(k) ==
    /\ pc = "running"
    /\ task[k] \in {"answered", "failed"}
    /\ results' = results \o Record(k, task[k] = "answered")
    /\ task' = [task EXCEPT ![k] = "done"]
    /\ UNCHANGED <<pc, urls, delete, metric>>

\* Line 119: gather returns once every task is done, and
\* run_until_complete with it (line 127).
Complete ==
    /\ pc = "running"
    /\ \A k \in DOMAIN task : task[k] = "done"
    /\ pc' = "complete"
    /\ UNCHANGED <<urls, delete, task, metric, results>>

TaskStep(k) == k \in DOMAIN task /\ (SendRequest(k) \/ WriteRecord(k))

Next ==
    \/ BuildUrl \/ Confirm
    \/ \E k \in 1..Len(urls) : TaskStep(k)
    \/ Complete

\* The event loop runs every task that is ready, and a request that is
\* sent meets one of its outcomes; the operator's answers are not bound to
\* come.
Spec == Init /\ [][Next]_vars
        /\ \A k \in 1..MaxUrls : WF_vars(TaskStep(k))
        /\ WF_vars(Complete)

-----------------------------------------------------------------------------
(* Properties.                                                             *)

TypeOK ==
    /\ pc \in {"ask", "confirm", "running", "complete", "aborted"}
    /\ urls \in Seq((1..ShardCount \cup ShardInputs) \X ({0, 1} \cup ReplicaInputs))
    /\ delete \in BOOLEAN
    /\ task \in Seq({"pending", "answered", "failed", "stalled", "done"})
    /\ metric \in [Replicas -> BOOLEAN]
    /\ results \in Seq((1..MaxUrls) \X {"result", "error"})

\* When the tool says "Execution complete", the results file has exactly
\* one record for each URL it was run on, whatever the order in which the
\* tasks ran, and whether their requests were answered, refused or broken
\* (a URL listed twice gets two records, one per task).
OneRecordPerUrl ==
    pc = "complete" =>
        \A k \in DOMAIN urls : Cardinality({i \in DOMAIN results : results[i][1] = k}) = 1

====
