-------------------------- MODULE NamespaceCleaner --------------------------
(***************************************************************************)
(* InvalidNamespacesCleaner of                                             *)
(* src/carbonj.service/src/main/docker/files/delete-invalid-namespaces.py: *)
(* clean() reads the invalid namespaces file line by line, cuts each name  *)
(* to its first --prefix-parts segments (when that is > 0), and asks the   *)
(* deleteAPI of one CarbonJ replica to delete every namespace it has not   *)
(* asked for yet.  Deleting a namespace removes it and every name under    *)
(* it.                                                                     *)
(*                                                                         *)
(* A name is the list of its segments.  The HTTP status of a delete is     *)
(* only logged (lines 64-67).  An exception is not caught and ends the     *)
(* script: of requests.delete (no connection), or of response.json() on a  *)
(* 200 whose body is not JSON, after the namespace was deleted.  The       *)
(* request has no timeout (line 63): a replica that never answers blocks   *)
(* the script.                                                             *)
(***************************************************************************)
EXTENDS Integers, Sequences, SequencesExt

CONSTANTS
    PrefixParts,    \* --prefix-parts, default 0
    DryRun,         \* --dry-run
    HttpOutcomes    \* what requests.delete may give: "200", "200_bad_json",
                    \* "error", "raise", "hang"

VARIABLES
    lines,              \* the invalid namespaces file, one name per line
    pos,                \* the line f.readline() returns next
    deleted_namespaces, \* line 42: the namespaces asked for, in order
    removed,            \* the namespaces the replica deleted
    cleanPc             \* "run", "done", "failed" or "hung"

cleanerVars == <<lines, pos, deleted_namespaces, removed, cleanPc>>

\* Lines 51-52: '.'.join(namespace.split('.')[:prefix_parts]) when
\* prefix_parts > 0.
NamespaceOf(name) ==
    IF PrefixParts > 0
       THEN SubSeq(name, 1, IF Len(name) < PrefixParts THEN Len(name) ELSE PrefixParts)
       ELSE name

\* Whether deleting namespace ns removes the name.
Covers(ns, name) == IsPrefix(ns, name)

CleanInit ==
    /\ pos = 1
    /\ deleted_namespaces = <<>>
    /\ removed = {}
    /\ cleanPc = "run"

\* Lines 45-54: the next line's namespace was asked for already.
SkipNamespace ==
    /\ cleanPc = "run"
    /\ pos <= Len(lines)
    /\ NamespaceOf(lines[pos]) \in Range(deleted_namespaces)
    /\ pos' = pos + 1
    /\ UNCHANGED <<lines, deleted_namespaces, removed, cleanPc>>

\* Lines 45-59 and delete_namespace (lines 61-67) for a new namespace: it
\* is appended to deleted_namespaces before the request is made.
CleanNamespace ==
    LET ns == NamespaceOf(lines[pos])
    IN  /\ cleanPc = "run"
        /\ pos <= Len(lines)
        /\ ns \notin Range(deleted_namespaces)
        /\ pos' = pos + 1
        /\ deleted_namespaces' = Append(deleted_namespaces, ns)
        /\ IF DryRun
              THEN UNCHANGED <<removed, cleanPc>>
              ELSE \E o \in HttpOutcomes :
                      /\ removed' = IF o \in {"200", "200_bad_json"}
                                     THEN removed \cup {ns} ELSE removed
                      /\ cleanPc' = CASE o \in {"raise", "200_bad_json"} -> "failed"
                                       [] o = "hang"  -> "hung"
                                       [] OTHER       -> cleanPc
        /\ UNCHANGED lines

\* Lines 46-47: readline() returns '' at the end of the file.
CleanDone ==
    /\ cleanPc = "run"
    /\ pos > Len(lines)
    /\ cleanPc' = "done"
    /\ UNCHANGED <<lines, pos, deleted_namespaces, removed>>

CleanNext == SkipNamespace \/ CleanNamespace \/ CleanDone

CleanTypeOK ==
    /\ pos \in 1..(Len(lines) + 1)
    /\ Len(deleted_namespaces) < pos
    /\ \A ns \in removed : ns \in Range(deleted_namespaces)
    /\ cleanPc \in {"run", "done", "failed", "hung"}

====
