---------------------------- MODULE ChunkWorker ----------------------------
(***************************************************************************)
(* The per-chunk parser and the merge of                                   *)
(* src/carbonj.service/src/main/scripts/analyze_cardinality.py:            *)
(* process_chunk (lines 56-83), the union of the metric-name sets (lines   *)
(* 126-128) and merge_prefix_children (lines 86-92).                       *)
(*                                                                         *)
(* Bytes are one-character strings and the file is a sequence of them.    *)
(* A metric name is the sequence of its bytes; a prefix                    *)
(* '.'.join(parts[:depth]) is kept as the sequence of its segments, which  *)
(* determines the joined string since no segment contains '.'.  A          *)
(* prefix_children dict is a function from prefixes to non-empty sets of   *)
(* child segments (defaultdict(set) only creates a key when it adds to     *)
(* it).  The bytes are ASCII, so decode(errors='replace') is the identity. *)
(***************************************************************************)
EXTENDS Integers, Sequences, FiniteSets, SequencesExt

NL == "\n"
SP == " "
DOT == "."

\* Index of the first occurrence of x in s, 0 when there is none (bytes.find
\* + 1).
FirstIndexOf(s, x) == SelectInSeq(s, LAMBDA c : c = x)

\* bytes.split(sep) / str.split(sep): n separators give n + 1 pieces,
\* empty ones included.
RECURSIVE SplitOn(_, _)
SplitOn(s, sep) ==
    LET k == FirstIndexOf(s, sep)
    IN  IF k = 0 THEN <<s>>
        ELSE <<SubSeq(s, 1, k - 1)>> \o SplitOn(SubSeq(s, k + 1, Len(s)), sep)

\* Lines 68-73: the lines of a chunk that are kept, i.e. non-empty and
\* containing a space.  The summary is a set union, so line order is
\* irrelevant.
KeptLines(data) ==
    {l \in Range(SplitOn(data, NL)) : l # <<>> /\ FirstIndexOf(l, SP) # 0}

\* Mutant: line[:space_idx + 1], the separator kept in the name.
MetricWithSeparator(line) == SubSeq(line, 1, FirstIndexOf(line, SP))

\* Line 74: the bytes before the first space.
MetricOf(line) == SubSeq(line, 1, FirstIndexOf(line, SP) - 1)

\* Lines 77-81: the (prefix, child) pairs of one metric name, for every
\* depth 1..len(parts)-1.
PrefixPairs(metric) ==
    LET parts == SplitOn(metric, DOT)
    IN  {<<SubSeq(parts, 1, d), parts[d + 1]>> : d \in 1..(Len(parts) - 1)}

\* Turns a set of (prefix, child) pairs into the prefix -> children dict.
AsDict(pairs) ==
    [p \in {pr[1] : pr \in pairs} |-> {pr[2] : pr \in {q \in pairs : q[1] = p}}]

\* process_chunk (lines 56-83) applied to the bytes of its range.
ProcessChunk(data) ==
    LET names == {MetricOf(l) : l \in KeptLines(data)}
    IN  [metric_names    |-> names,
         prefix_children |-> AsDict(UNION {PrefixPairs(m) : m \in names})]

\* Mutant: merged.update(prefix_children), a dict update that replaces a
\* prefix's children instead of adding to them.
MergeIntoByReplace(merged, pc) ==
    [p \in DOMAIN merged \cup DOMAIN pc |->
        IF p \in DOMAIN pc THEN pc[p] ELSE merged[p]]

\* Lines 90-91: merged[prefix].update(children) for every prefix of one
\* chunk's dict.
MergeInto(merged, pc) ==
    [p \in DOMAIN merged \cup DOMAIN pc |->
        (IF p \in DOMAIN merged THEN merged[p] ELSE {})
            \cup (IF p \in DOMAIN pc THEN pc[p] ELSE {})]

\* merge_prefix_children (lines 86-92): the chunk results in list order.
MergePrefixChildren(results) ==
    FoldLeft(LAMBDA acc, r : MergeInto(acc, r.prefix_children),
             [p \in {} |-> {}], results)

\* Lines 126-128: the union of every chunk's metric names, in list order.
MergeMetricNames(results) ==
    FoldLeft(LAMBDA acc, r : acc \cup r.metric_names, {}, results)

=============================================================================
