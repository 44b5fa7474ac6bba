-------------------------- MODULE NamespaceChecker --------------------------
(***************************************************************************)
(* RocksDbKeyDumper of                                                     *)
(* src/carbonj.service/src/main/docker/files/check-invalid-namespaces.py:  *)
(* dump() pages through the index-id store with `ldb scan` into numbered   *)
(* files, then check_invalid_ids() reads the files and, for each name in   *)
(* scope, asks the three data stores with `ldb scan --from=<id>` whether   *)
(* the id has any data point, writing the names that have none to          *)
(* /data/invalid_namespaces.                                               *)
(*                                                                         *)
(* Keys are ids, ordered as their hex strings; 0 stands for ''.  A name is *)
(* the list of its dot-separated segments.  An `ldb` process can fail:     *)
(* subprocess.run in dump() has no check=True, so a failing scan just      *)
(* leaves a prefix of its page in the file; in check_id_in_db a command    *)
(* that fails `retry` times makes run_command return ''.                   *)
(*                                                                         *)
(* The files live in /data and outlive a run: dump() first removes the     *)
(* scan files and invalid_namespaces an earlier run left, but with         *)
(* --no-dump it returns at once, and check_invalid_ids() reads the earlier *)
(* scan files and appends to the earlier invalid_namespaces (mode 'a').    *)
(***************************************************************************)
EXTENDS Integers, Sequences, FiniteSets, SequencesExt

CONSTANTS
    Ids,            \* the ids of the index-id store, a set of positive integers
    NameSet,        \* the names an id may map to
    Root,           \* the name 'root'
    DataDbs,        \* <<'30m2y', '5m7d', '60s24h'>>, line 152
    CommonPrefix,   \* --common-prefix as a list of segments, <<>> for ''
    SkipPrefix,     \* --skip-prefix as a set of first segments
    CheckCount,     \* --check-count
    PageSize,       \* --max_keys of the dump scan (100000000, line 94)
    MaxFiles,       \* bound on the scan files dump() writes
    LdbMayFail,     \* whether an ldb command may fail
    Failed,         \* the outcome of a command whose every try failed
    NoDumpModes,    \* the values --no-dump is run with
    EarlierLines    \* the invalid_namespaces files an earlier run may leave

ASSUME CheckCount \in Nat \ {0} /\ PageSize \in Nat \ {0}

VARIABLES
    index,          \* id -> name: the index-id store
    data,           \* id -> the data stores holding a data point of the id
    files,          \* the scan files, each the list of keys it holds
    last_key,       \* dump(): the key the next scan starts from
    cursor,         \* check_invalid_ids(): <<file, line>> read next
    skip_prefixes, checked_prefixes, invalid_id_count,
    written,        \* the lines of /data/invalid_namespaces
    pc,             \* "start", "dump", "check" or "done"
    no_dump,        \* --no-dump
    earlier,        \* history: the lines invalid_namespaces held at the start
    failedNames,    \* history: names whose check saw an ldb failure
    dumpFailed      \* history: some scan or tail of dump() failed

vars == <<index, data, files, last_key, cursor, skip_prefixes, checked_prefixes,
          invalid_id_count, written, pc, no_dump, earlier, failedNames, dumpFailed>>

DbNames == Range(DataDbs)

\* Lines 80-82: the common prefix ends with '.'; prefix_parts counts the
\* fields of its split, the trailing '' included.
DotMode == CommonPrefix = <<>>
PrefixParts == IF DotMode THEN 2 ELSE Len(CommonPrefix) + 1

\* name.startswith(common_prefix), with common_prefix ending with '.'.
StartsWithCommon(name) ==
    Len(name) > Len(CommonPrefix) /\ SubSeq(name, 1, Len(CommonPrefix)) = CommonPrefix

\* '.'.join(name.split('.')[:prefix_parts])
PrefixOf(name) == SubSeq(name, 1, IF Len(name) < PrefixParts THEN Len(name) ELSE PrefixParts)

\* The outcomes of a command run by run_command: its output, or '' when
\* every try fails (lines 36-46).
Outcomes(output) == IF LdbMayFail THEN {output, Failed} ELSE {output}

-----------------------------------------------------------------------------
(* dump() (lines 86-116)                                                    *)

\* Mutant: the scan starts after last_key.
ScanPageExclusive(from) ==
    LET ks == SetToSortSeq({k \in Ids : k > from}, <)
    IN  IF Len(ks) <= PageSize THEN ks ELSE SubSeq(ks, 1, PageSize)

\* `ldb scan [--from=last_key] --max_keys=PageSize`: the keys >= last_key in
\* order, at most PageSize of them.
ScanPage(from) ==
    LET ks == SetToSortSeq({k \in Ids : k >= from}, <)
    IN  IF Len(ks) <= PageSize THEN ks ELSE SubSeq(ks, 1, PageSize)

\* What a scan leaves in its file: the whole page, or, when the process
\* fails, any prefix of it.
ScanOutput(page) ==
    IF LdbMayFail THEN {SubSeq(page, 1, n) : n \in 0..Len(page)} ELSE {page}

\* Mutant: `head -1` in place of `tail -1`.
LastKeyHead(f) == IF f = <<>> THEN 0 ELSE f[1]

\* `tail -1 file`, then get_key_value: the key of the last line, '' for an
\* empty file.
LastKey(f) == IF f = <<>> THEN 0 ELSE f[Len(f)]

\* The scan files a dump() of the index with no failure writes, from its
\* first page to the page that ends on the key it starts from, or to the
\* n-th file.
RECURSIVE FullDump(_, _)
FullDump(from, n) ==
    LET page == ScanPage(from)
    IN  IF n = 0 THEN <<>>
        ELSE <<page>> \o (IF LastKey(page) = from THEN <<>> ELSE FullDump(LastKey(page), n - 1))

\* Lines 75-91 and 186-187: a new run, on the files an earlier run left in
\* /data (none, or the scan files of a whole dump, and its
\* invalid_namespaces).
Init ==
    /\ index \in {f \in [Ids -> NameSet] : IsInjective(f)}
    /\ data \in [Ids -> SUBSET DbNames]
    /\ files \in {<<>>, FullDump(0, MaxFiles)}
    /\ last_key = 0
    /\ cursor = <<1, 1>>
    /\ skip_prefixes = SkipPrefix
    /\ checked_prefixes = {}
    /\ invalid_id_count = 0
    /\ earlier \in EarlierLines
    /\ written = earlier
    /\ no_dump \in NoDumpModes
    /\ pc = "start"
    /\ failedNames = {}
    /\ dumpFailed = FALSE

\* Mutant: invalid_namespaces is not in the list of files removed.
CleanupFilesKeepsNamespaces ==
    /\ files' = <<>>
    /\ UNCHANGED written

\* cleanup_files (lines 171-178): removes every scan file and
\* invalid_namespaces (a file that is missing is an error only logged).
CleanupFiles ==
    /\ files' = <<>>
    /\ written' = <<>>

\* Lines 87-89: with --no-dump, dump() returns at once.
SkipDump ==
    /\ pc = "start"
    /\ no_dump
    /\ pc' = "check"
    /\ UNCHANGED <<index, data, files, last_key, cursor, skip_prefixes,
                   checked_prefixes, invalid_id_count, written, no_dump, earlier,
                   failedNames, dumpFailed>>

\* Lines 90-91: dump() removes the earlier files before its first scan.
StartDump ==
    /\ pc = "start"
    /\ ~no_dump
    /\ CleanupFiles
    /\ pc' = "dump"
    /\ UNCHANGED <<index, data, last_key, cursor, skip_prefixes, checked_prefixes,
                   invalid_id_count, no_dump, earlier, failedNames, dumpFailed>>

\* One iteration of the while loop of dump(): scan into the next file, read
\* its last key with tail (run_command, one try), and stop when it is the
\* key the scan started from.
DumpScan ==
    /\ pc = "dump"
    /\ Len(files) < MaxFiles
    /\ \E f \in ScanOutput(ScanPage(last_key)) :
       \E key \in Outcomes(LastKey(f)) :
          LET k == IF key = Failed THEN 0 ELSE key
          IN  /\ files' = Append(files, f)
              /\ dumpFailed' = (dumpFailed \/ f # ScanPage(last_key) \/ key = Failed)
              /\ IF k = last_key
                    THEN pc' = "check" /\ UNCHANGED last_key
                    ELSE last_key' = k /\ UNCHANGED pc
    /\ UNCHANGED <<index, data, cursor, skip_prefixes, checked_prefixes,
                   invalid_id_count, written, no_dump, earlier, failedNames>>

-----------------------------------------------------------------------------
(* check_invalid_ids() (lines 118-169)                                     *)

\* check_id_in_db(db, key) (lines 49-59): `ldb scan --from=key --max_keys=1`
\* prints the first data key at or after key, which starts with key exactly
\* when the id has a data point in db; '' (every try failed) reads as no.
CheckIdInDb(key, db) ==
    {[found |-> o = TRUE, failed |-> o = Failed] : o \in Outcomes(db \in data[key])}

\* Mutant: valid_id = check_id_in_db(...) for every store, no break.
RECURSIVE CheckDbsLastWins(_, _)
CheckDbsLastWins(key, k) ==
    IF k > Len(DataDbs) THEN {[valid |-> FALSE, failed |-> FALSE]}
    ELSE UNION {IF k = Len(DataDbs) THEN {[valid |-> r.found, failed |-> r.failed]}
                ELSE {[valid |-> s.valid, failed |-> s.failed \/ r.failed] :
                          s \in CheckDbsLastWins(key, k + 1)}
                : r \in CheckIdInDb(key, DataDbs[k])}

\* Lines 151-155: the stores in order, stopping at the first that has the
\* id.  The result says whether the id was found valid and whether some
\* check failed on the way.
RECURSIVE CheckDbsFrom(_, _)
CheckDbsFrom(key, k) ==
    IF k > Len(DataDbs) THEN {[valid |-> FALSE, failed |-> FALSE]}
    ELSE UNION {IF r.found THEN {[valid |-> TRUE, failed |-> FALSE]}
                ELSE {[valid |-> s.valid, failed |-> s.failed \/ r.failed] :
                          s \in CheckDbsFrom(key, k + 1)}
                : r \in CheckIdInDb(key, DataDbs[k])}

\* Mutant: invalid_id_count never reset.
CountAfterInvalidNoReset(c) == c + 1

\* Lines 158-160: invalid_id_count after one more invalid id.
CountAfterInvalid(c) == IF c + 1 >= CheckCount THEN 0 ELSE c + 1

\* Lines 159-169: the id's first segment (dot mode) or prefix is not
\* checked again.
MarkChecked(name) ==
    IF DotMode
       THEN /\ skip_prefixes' = skip_prefixes \cup {name[1]}
            /\ UNCHANGED checked_prefixes
       ELSE /\ checked_prefixes' = checked_prefixes \cup {PrefixOf(name)}
            /\ UNCHANGED skip_prefixes

\* Lines 126-127 and 133: the line read next, if any.
AtLine == cursor[1] <= Len(files) /\ cursor[2] <= Len(files[cursor[1]])
KeyAt == files[cursor[1]][cursor[2]]
NextLine == [cursor EXCEPT ![2] = @ + 1]

\* Lines 138-148: names that are not checked.
Skipped(name) ==
    \/ name = Root
    \/ ~DotMode /\ (~StartsWithCommon(name) \/ PrefixOf(name) \in checked_prefixes)
    \/ DotMode /\ name[1] \in skip_prefixes

\* Line 132: the end of a file; the next file in sorted order.
NextFile ==
    /\ pc = "check"
    /\ cursor[1] <= Len(files) /\ ~AtLine
    /\ cursor' = <<cursor[1] + 1, 1>>
    /\ UNCHANGED <<index, data, files, last_key, skip_prefixes, checked_prefixes,
                   invalid_id_count, written, pc, no_dump, earlier, failedNames, dumpFailed>>

\* Line 125: no file left.
ChecksDone ==
    /\ pc = "check"
    /\ cursor[1] > Len(files)
    /\ pc' = "done"
    /\ UNCHANGED <<index, data, files, last_key, cursor, skip_prefixes,
                   checked_prefixes, invalid_id_count, written, no_dump, earlier, failedNames,
                   dumpFailed>>

\* Lines 131-148: a line whose name is not checked.
SkipLine ==
    /\ pc = "check"
    /\ AtLine
    /\ Skipped(index[KeyAt])
    /\ cursor' = NextLine
    /\ UNCHANGED <<index, data, files, last_key, skip_prefixes, checked_prefixes,
                   invalid_id_count, written, pc, no_dump, earlier, failedNames, dumpFailed>>

\* Lines 131-169: a line whose name is checked against the data stores.
CheckName ==
    LET key  == KeyAt
        name == index[key]
    IN  /\ pc = "check"
        /\ AtLine
        /\ ~Skipped(name)
        /\ cursor' = NextLine
        /\ \E r \in CheckDbsFrom(key, 1) :
             /\ failedNames' = IF r.failed THEN failedNames \cup {name} ELSE failedNames
             /\ IF r.valid
                   THEN /\ MarkChecked(name)
                        /\ UNCHANGED <<written, invalid_id_count>>
                   ELSE /\ written' = Append(written, name)
                        /\ invalid_id_count' = CountAfterInvalid(invalid_id_count)
                        /\ IF invalid_id_count + 1 >= CheckCount
                              THEN MarkChecked(name)
                              ELSE UNCHANGED <<skip_prefixes, checked_prefixes>>
        /\ UNCHANGED <<index, data, files, last_key, pc, no_dump, earlier, dumpFailed>>

Next ==
    \/ SkipDump \/ StartDump \/ DumpScan
    \/ NextFile \/ ChecksDone \/ SkipLine \/ CheckName

\* One sequential process: it keeps taking steps while it runs.
Spec == Init /\ [][Next]_vars /\ WF_vars(Next)

-----------------------------------------------------------------------------
(* Properties.                                                             *)

Dumped == UNION {Range(files[k]) : k \in DOMAIN files}

TypeOK ==
    /\ index \in [Ids -> NameSet] /\ data \in [Ids -> SUBSET DbNames]
    /\ files \in Seq(Seq(Ids)) /\ Len(files) <= MaxFiles
    /\ last_key \in Ids \cup {0}
    /\ invalid_id_count \in 0..(CheckCount - 1)
    /\ Range(written) \subseteq NameSet
    /\ pc \in {"start", "dump", "check", "done"}
    /\ no_dump \in BOOLEAN

\* When no scan or tail of dump() has failed, dump() pages through the
\* whole store: once its loop ends, the scan files hold every key.  The loop stops when a page
\* ends on the key it started from (lines 111-116), so this depends on
\* --from being inclusive and on tail reading the last line.
\* With --no-dump the files are an earlier run's.
DumpCoversIndex == pc \in {"check", "done"} /\ ~no_dump /\ ~dumpFailed => Dumped = Ids

\* Every name written to invalid_namespaces either has no data point in any
\* store, or its check met an ldb command that failed all its tries (and so
\* read as "no data", line 53), or it is a line an earlier run wrote that
\* dump() has not removed yet or that a --no-dump run keeps.  Without
\* --no-dump, dump() must remove invalid_namespaces, as check_invalid_ids()
\* appends to it.
ReportedNamesHaveNoData ==
    \A k \in DOMAIN written :
        \/ k <= Len(earlier) /\ (no_dump \/ pc = "start")
        \/ written[k] \in failedNames
        \/ \A id \in Ids : index[id] = written[k] => data[id] = {}

\* Unless a scan or tail of dump() fails, the tool terminates: dump()
\* reaches a page that ends on its start key and check_invalid_ids()
\* reaches the end of the last file.
Terminates == [](~dumpFailed) => <>(pc = "done")

\* The --check-count option ("The number of invalid checks"): in dot mode at
\* most CheckCount names of one first segment are written before the
\* segment is skipped.  invalid_id_count is one counter for all segments
\* (lines 158-162), so the names of one segment can be counted towards
\* another's limit.
ReportsPerPrefixWithinCheckCount ==
    \A f \in {n[1] : n \in Range(written)} :
        Cardinality({k \in DOMAIN written : written[k][1] = f}) <= CheckCount

====
