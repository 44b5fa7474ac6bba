------------------------- MODULE CardinalityReport -------------------------
(***************************************************************************)
(* The four report views of main() in                                      *)
(* src/carbonj.service/src/main/scripts/analyze_cardinality.py (lines      *)
(* 136-230), computed from the merged index, for two runs of the tool on   *)
(* the same file.                                                          *)
(*                                                                         *)
(* A metric name is its list of segments; a segment is a number standing   *)
(* for a one-letter string, so < on numbers is the string order used by    *)
(* sorted() and a prefix compares like its joined string.                  *)
(*                                                                         *)
(* Two orders decide ties in the views:                                    *)
(*  - merged_prefixes is a dict filled by merge_prefix_children, chunk by  *)
(*    chunk, each chunk's dict in the order process_chunk first met its    *)
(*    keys; so its keys are in order of first occurrence in the file,      *)
(*    whatever the chunking (PrefixOrder);                                 *)
(*  - all_metrics is a set of str, iterated in an order that depends on    *)
(*    the per-process string hash seed, so it can differ between two runs  *)
(*    on the same file.  Each run chooses its own iteration order          *)
(*    (hashOrder) when it starts.                                          *)
(***************************************************************************)
EXTENDS Integers, Sequences, FiniteSets, SequencesExt

CONSTANTS
    Segments,       \* segment values, ordered as their strings
    MaxSegs,        \* bound on the segments of a name
    MaxLines,       \* bound on the lines of the file
    TopPrefixesN,   \* 50 on line 148
    FamilyDepths,   \* <<3, 4, 5, 6>> on line 166
    FamilyTopN,     \* 15 on line 175
    Threshold,      \* 500 on lines 203 and 211
    DrillTopN,      \* 20 on line 223
    SampleN,        \* 5 on lines 151, 199 and 224
    Runs,           \* the runs of the tool (model values)
    None

Names == UNION {[1..n -> Segments] : n \in 1..MaxSegs}

Files == UNION {[1..k -> Names] : k \in 0..MaxLines}

VARIABLES
    file,       \* the metric name of each line of the audit file
    hashOrder,  \* run -> the iteration order of all_metrics in that run
    pc,         \* run -> the next section to print
    out         \* run -> the views printed so far

vars == <<file, hashOrder, pc, out>>

-----------------------------------------------------------------------------
(* Helpers for the Python built-ins.                                       *)

\* s[:n]
Take(s, n) == IF Len(s) <= n THEN s ELSE SubSeq(s, 1, n)

\* sorted(s, key=key, reverse=True): stable, so equal keys keep their order.
SortDesc(s, key(_)) ==
    LET pos(i) == 1 + Cardinality({j \in DOMAIN s :
                        key(s[j]) > key(s[i]) \/ (key(s[j]) = key(s[i]) /\ j < i)})
    IN  [k \in DOMAIN s |-> s[CHOOSE i \in DOMAIN s : pos(i) = k]]

\* The distinct values of s in order of first occurrence (dict key order).
FirstSeen(s) ==
    LET firsts == {i \in DOMAIN s : \A j \in 1..(i - 1) : s[j] # s[i]}
    IN  [k \in 1..Cardinality(firsts) |->
            s[CHOOSE i \in firsts : Cardinality({j \in firsts : j < i}) = k - 1]]

\* Mutant: sorted(children)[:SampleN + 1].
SampleOverrun(S) == Take(SetToSortSeq(S, <), SampleN + 1)

\* sorted(children)[:5] (lines 151, 199, 224).
Sample(S) == Take(SetToSortSeq(S, <), SampleN)

-----------------------------------------------------------------------------
(* The merged index (lines 125-134).                                       *)

AllMetrics == Range(file)

Prefix(m, d) == SubSeq(m, 1, d)

\* Keys of merged_prefixes in dict order: first occurrence in the file,
\* line by line, depth by depth (lines 77-81, 88-91).
PrefixOrder ==
    LET perLine(m) == [d \in 1..(Len(m) - 1) |-> Prefix(m, d)]
    IN  FirstSeen(FoldLeft(LAMBDA acc, m : acc \o perLine(m), <<>>, file))

\* merged_prefixes[p]
Children(p) == {m[Len(p) + 1] : m \in {n \in AllMetrics : Len(n) > Len(p) /\ Prefix(n, Len(p)) = p}}

-----------------------------------------------------------------------------
(* The views.                                                              *)

\* Lines 142-153: the row of each prefix of merged_prefixes, in dict order.
PrefixRows ==
    [k \in DOMAIN PrefixOrder |->
        LET p == PrefixOrder[k]
        IN  [card |-> Cardinality(Children(p)), depth |-> Len(p), prefix |-> p,
             sample |-> Sample(Children(p)),
             more |-> Cardinality(Children(p)) - Len(Sample(Children(p)))]]

\* Mutant: the first TopPrefixesN prefixes taken before sorting.
TopPrefixesCutFirst == SortDesc(Take(PrefixRows, TopPrefixesN), LAMBDA r : r.card)

\* Lines 142-158: prefixes by number of children, the first TopPrefixesN.
TopPrefixes == Take(SortDesc(PrefixRows, LAMBDA r : r.card), TopPrefixesN)

\* Lines 166-172 for one depth: the Counter filled while iterating
\* all_metrics in order, one row per family in insertion order.
FamilyRows(order, depth) ==
    LET long     == SelectSeq(order, LAMBDA m : Len(m) >= depth)
        families == FirstSeen([k \in DOMAIN long |-> Prefix(long[k], depth)])
    IN  [k \in DOMAIN families |->
            [family |-> families[k],
             count  |-> Cardinality({m \in AllMetrics :
                            Len(m) >= depth /\ Prefix(m, depth) = families[k]})]]

\* Line 175: most_common(FamilyTopN), which is stable on ties.
FamilyTop(order, depth) == Take(SortDesc(FamilyRows(order, depth), LAMBDA r : r.count), FamilyTopN)

MaxDepth == IF AllMetrics = {} THEN 0 ELSE Max({Len(m) : m \in AllMetrics})

\* depth_values[i] (lines 185-191).
ValuesAt(i) == {m[i + 1] : m \in {n \in AllMetrics : Len(n) > i}}

\* Lines 196-204: one row per position.
PositionRows ==
    [k \in 1..MaxDepth |->
        [pos |-> k - 1, count |-> Cardinality(ValuesAt(k - 1)),
         sample |-> Sample(ValuesAt(k - 1)),
         more |-> Cardinality(ValuesAt(k - 1)) > SampleN,
         flagged |-> Cardinality(ValuesAt(k - 1)) > Threshold]]

\* Mutant: >= instead of > on line 211.
HighCardPositionsAtLeast == SelectSeq([k \in 1..MaxDepth |-> k - 1],
                                      LAMBDA i : Cardinality(ValuesAt(i)) >= Threshold)

\* Line 211.
HighCardPositions == SelectSeq([k \in 1..MaxDepth |-> k - 1],
                               LAMBDA i : Cardinality(ValuesAt(i)) > Threshold)

\* Lines 213-229 for one position: parent_child filled while iterating
\* all_metrics in order (the parent of position 0 is '<root>', here <<>>),
\* sorted by number of children, the first DrillTopN.
DrillDown(order, pos) ==
    LET long    == SelectSeq(order, LAMBDA m : Len(m) > pos)
        parents == FirstSeen([k \in DOMAIN long |-> Prefix(long[k], pos)])
        kids(p) == {m[pos + 1] : m \in {n \in AllMetrics : Len(n) > pos /\ Prefix(n, pos) = p}}
        rows    == [k \in DOMAIN parents |->
                       [count |-> Cardinality(kids(parents[k])), parent |-> parents[k],
                        sample |-> Sample(kids(parents[k])),
                        more |-> Cardinality(kids(parents[k])) > SampleN]]
    IN  Take(SortDesc(rows, LAMBDA r : r.count), DrillTopN)

-----------------------------------------------------------------------------
(* Two runs of the tool on the same file, one after the other.             *)

\* The orders in which a set can be iterated.
Orders(S) == {f \in [1..Cardinality(S) -> S] : Range(f) = S}

EmptyReport == [top |-> <<>>, families |-> <<>>, positions |-> <<>>, drill |-> <<>>]

Init ==
    /\ file \in Files
    /\ hashOrder = [r \in Runs |-> None]
    /\ pc = [r \in Runs |-> "idle"]
    /\ out = [r \in Runs |-> EmptyReport]

\* Lines 110-134: the run builds all_metrics; its iteration order is fixed
\* by the hash seed of this process.  Runs are sequential invocations.
StartRun(r) ==
    /\ pc[r] = "idle"
    /\ \A q \in Runs : pc[q] \in {"idle", "done"}
    /\ \E o \in Orders(AllMetrics) : hashOrder' = [hashOrder EXCEPT ![r] = o]
    /\ pc' = [pc EXCEPT ![r] = "top"]
    /\ UNCHANGED <<file, out>>

PrintTopPrefixes(r) ==
    /\ pc[r] = "top"
    /\ out' = [out EXCEPT ![r].top = TopPrefixes]
    /\ pc' = [pc EXCEPT ![r] = "families"]
    /\ UNCHANGED <<file, hashOrder>>

PrintFamilies(r) ==
    /\ pc[r] = "families"
    /\ out' = [out EXCEPT ![r].families =
                  [k \in DOMAIN FamilyDepths |-> FamilyTop(hashOrder[r], FamilyDepths[k])]]
    /\ pc' = [pc EXCEPT ![r] = "positions"]
    /\ UNCHANGED <<file, hashOrder>>

PrintPositions(r) ==
    /\ pc[r] = "positions"
    /\ out' = [out EXCEPT ![r].positions = PositionRows]
    /\ pc' = [pc EXCEPT ![r] = "drill"]
    /\ UNCHANGED <<file, hashOrder>>

PrintDrillDown(r) ==
    /\ pc[r] = "drill"
    /\ out' = [out EXCEPT ![r].drill =
                  [k \in DOMAIN HighCardPositions |->
                      DrillDown(hashOrder[r], HighCardPositions[k])]]
    /\ pc' = [pc EXCEPT ![r] = "done"]
    /\ UNCHANGED <<file, hashOrder>>

Next ==
    \E r \in Runs :
        \/ StartRun(r)
        \/ PrintTopPrefixes(r)
        \/ PrintFamilies(r)
        \/ PrintPositions(r)
        \/ PrintDrillDown(r)

Spec == Init /\ [][Next]_vars

-----------------------------------------------------------------------------
(* Properties.                                                             *)

Done(r) == pc[r] = "done"

RowsSampled(rows) == \A k \in DOMAIN rows : Len(rows[k].sample) <= SampleN

TypeOK ==
    /\ file \in Files
    /\ \A r \in Runs :
        /\ pc[r] \in {"idle", "top", "families", "positions", "drill", "done"}
        /\ hashOrder[r] = None \/ hashOrder[r] \in Orders(AllMetrics)
        /\ RowsSampled(out[r].top) /\ RowsSampled(out[r].positions)
        /\ \A k \in DOMAIN out[r].drill : RowsSampled(out[r].drill[k])

\* The top-prefix view lists prefixes by decreasing number of children, and
\* no prefix left out of it has more children than the last one listed
\* (lines 142-148).
TopPrefixesRanked ==
    \A r \in Runs : Done(r) =>
        LET top == out[r].top
            listed == {top[k].prefix : k \in DOMAIN top}
        IN  /\ \A k \in 1..(Len(top) - 1) : top[k].card >= top[k + 1].card
            /\ Len(top) = IF Len(PrefixOrder) < TopPrefixesN THEN Len(PrefixOrder) ELSE TopPrefixesN
            /\ \A k \in 1..Len(PrefixOrder) :
                   PrefixOrder[k] \notin listed =>
                       Cardinality(Children(PrefixOrder[k])) <= top[Len(top)].card

\* The views, computed separately from depth_values, merged_prefixes and
\* parent_child, agree: a depth-d prefix has at most as many children as
\* position d has values; the drill-down covers exactly the positions the
\* position view flags, in order (spec section 8, "Cardinality threshold");
\* and each drill-down block accounts for its position: no parent has more
\* values than the position, and an untruncated block's counts add up to at
\* least the position's count.
ViewsAgree ==
    \A r \in Runs : Done(r) =>
        LET o == out[r]
            flagged == SelectSeq(o.positions, LAMBDA row : row.flagged)
        IN  /\ \A k \in DOMAIN o.top : o.top[k].card <= o.positions[o.top[k].depth + 1].count
            /\ Len(o.drill) = Len(flagged)
            /\ \A k \in DOMAIN o.drill :
                 LET block == o.drill[k]
                     n     == flagged[k].count
                 IN  /\ \A j \in DOMAIN block : block[j].count <= n
                     /\ Len(block) < DrillTopN =>
                            FoldLeft(LAMBDA acc, row : acc + row.count, 0, block) >= n

\* Lexicographic order of prefixes ('.'.join order for one-letter segments).
RECURSIVE LexLT(_, _)
LexLT(a, b) ==
    \/ a = <<>> /\ b # <<>>
    \/ a # <<>> /\ b # <<>> /\ (Head(a) < Head(b) \/ (Head(a) = Head(b) /\ LexLT(Tail(a), Tail(b))))

\* The order spec section 4.4 gives views 1 and 2: by count, larger first,
\* ties by the lexicographically smaller key.
SpecBefore(c1, key1, c2, key2) == c1 > c2 \/ (c1 = c2 /\ LexLT(key1, key2))

\* Spec section 4.4: the top prefixes and the family totals are the first
\* rows in the order above, which also makes them the same in every run on
\* the same file (section 8, idempotence).  Line 142 sorts prefixes on the
\* count only, keeping ties in the order merged_prefixes met them in the
\* file; lines 167-175 rank families by a Counter filled in the iteration
\* order of the set all_metrics, so ties at the cut of most_common(15)
\* depend on the run's string hash seed.
ReportOrderAsSpecified ==
    \A r \in Runs : Done(r) =>
        /\ out[r].top = Take(SortSeq(PrefixRows, LAMBDA x, y :
                                 SpecBefore(x.card, x.prefix, y.card, y.prefix)), TopPrefixesN)
        /\ out[r].families =
              [k \in DOMAIN FamilyDepths |->
                  Take(SortSeq(FamilyRows(hashOrder[r], FamilyDepths[k]), LAMBDA x, y :
                           SpecBefore(x.count, x.family, y.count, y.family)), FamilyTopN)]

=============================================================================
