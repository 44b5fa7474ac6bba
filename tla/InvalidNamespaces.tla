------------------------- MODULE InvalidNamespaces --------------------------
(***************************************************************************)
(* The invalid-namespace clean-up of one replica: check-invalid-namespaces *)
(* (module NamespaceChecker) writes /data/invalid_namespaces, then         *)
(* delete-invalid-namespaces (module NamespaceCleaner) is run on that file *)
(* and deletes the namespaces it lists.  The cleaner reads the file the    *)
(* checker wrote once the checker has exited.                              *)
(***************************************************************************)
EXTENDS NamespaceChecker

CONSTANTS
    CleanPrefixParts,   \* the cleaner's --prefix-parts
    DryRun, HttpOutcomes

VARIABLES pos, deleted_namespaces, removed, cleanPc

Cleaner == INSTANCE NamespaceCleaner WITH lines <- written, PrefixParts <- CleanPrefixParts

allVars == <<vars, pos, deleted_namespaces, removed, cleanPc>>

PipelineInit == Init /\ Cleaner!CleanInit

\* The checker runs to its end; then the cleaner reads its file.
PipelineNext ==
    \/ Next /\ UNCHANGED <<pos, deleted_namespaces, removed, cleanPc>>
    \/ pc = "done" /\ Cleaner!CleanNext /\ UNCHANGED vars

\* Both tools are one sequential process each, the cleaner started on the
\* checker's file once the checker is done.
PipelineSpec == PipelineInit /\ [][PipelineNext]_allVars /\ WF_allVars(PipelineNext)

-----------------------------------------------------------------------------

PipelineTypeOK == TypeOK /\ Cleaner!CleanTypeOK

\* A name that has a data point is never deleted along with a namespace the
\* cleaner removed, unless the checker wrote it because an ldb command
\* failed.  Whether this holds depends on how the checker's sampling of a
\* prefix (--common-prefix, --check-count) and the cleaner's
\* --prefix-parts fit together, since the cleaner deletes a whole namespace
\* for one name of it the checker found without data, and on dump()
\* emptying the file check_invalid_ids() appends to.
NoNameWithDataRemoved ==
    \A id \in Ids :
        (\E ns \in removed : Cleaner!Covers(ns, index[id])) =>
            data[id] = {} \/ index[id] \in failedNames

====
