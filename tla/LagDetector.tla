---------------------------- MODULE LagDetector ----------------------------
(***************************************************************************)
(* The streaming lag detector of                                           *)
(* src/carbonj.service/src/main/scripts/analyze_audit_lagging_metrics.py   *)
(* (main, lines 50-123): one sequential pass over the audit file keeping   *)
(* min_ts, max_ts, seen_max, out_of_order_count, seq and a bounded min-    *)
(* heap top_heap of (lag, seq, metric) tuples, followed by the report.     *)
(*                                                                         *)
(* A line is modelled by the list of its whitespace-separated fields       *)
(* (what line.strip().split() yields): a metric name (a model value), the  *)
(* value field (the model value Value), and a timestamp field that is      *)
(* either an unsigned integer or a token that does not match ^[0-9]+$      *)
(* (the model value Junk).  heapq.heappush and heapq.heapreplace are       *)
(* modelled by what CPython's heapq does to the list (_siftdown,           *)
(* _siftup), because the report's order depends on the list's layout.     *)
(*                                                                         *)
(* tsLog is a history variable: the valid (timestamp, metric) lines read   *)
(* so far.  It is not program state; the properties compare the program   *)
(* state with a reference computed from it.                                *)
(***************************************************************************)
EXTENDS Integers, Sequences, FiniteSets, SequencesExt

CONSTANTS
    Metrics,    \* metric names (model values)
    MaxTs,      \* timestamps are 0..MaxTs
    TopN,       \* the topN argument (default 10), capacity of top_heap
    MaxLines,   \* bound on the number of lines in the file
    None,       \* Python None
    Value,      \* the value field of a line
    Junk        \* a last field that is not an unsigned integer

ASSUME TopN \in Nat \ {0}          \* main returns 2 when topN < 1 (line 42)
ASSUME MaxTs \in Nat /\ MaxLines \in Nat

Timestamps == 0..MaxTs

\* The lines the file may contain, as split into fields.  <<>> is a blank
\* line, <<m>> a line with one field, <<m, Value, Junk>> a line whose last
\* field is not an integer.
InputLines ==
    {<<>>} \cup {<<m>> : m \in Metrics} \cup {<<m, Value, Junk>> : m \in Metrics}
        \cup {<<m, Value, t>> : m \in Metrics, t \in Timestamps}

VARIABLES
    min_ts, max_ts, seen_max,   \* running scalars, None until the first valid line
    out_of_order_count, seq,
    top_heap,                   \* the heapq list of <<lag, seq, metric>>
    eof,                        \* the for loop over f has ended
    linesRead,                  \* lines consumed (bounded by MaxLines)
    tsLog                       \* history: valid <<ts, metric>> lines in file order

vars == <<min_ts, max_ts, seen_max, out_of_order_count, seq, top_heap,
          eof, linesRead, tsLog>>

-----------------------------------------------------------------------------
(* CPython heapq on a TLA+ sequence; positions are 0-based as in heapq.    *)

\* Mutant: the tuples compared on lag alone.
TupleLTLagOnly(a, b) == a[1] < b[1]

\* Tuple comparison (lag, seq, metric) < (lag', seq', metric'): seq is
\* unique, so the metric is never compared.
TupleLT(a, b) == a[1] < b[1] \/ (a[1] = b[1] /\ a[2] < b[2])

SwapAt(h, i, j) == [h EXCEPT ![i+1] = h[j+1], ![j+1] = h[i+1]]

\* heapq._siftdown(heap, startpos, pos): move heap[pos] up towards startpos
\* while it is smaller than its parent.
RECURSIVE SiftDown(_, _, _)
SiftDown(h, startpos, pos) ==
    LET parentpos == (pos - 1) \div 2
    IN  IF pos > startpos /\ TupleLT(h[pos+1], h[parentpos+1])
        THEN SiftDown(SwapAt(h, pos, parentpos), startpos, parentpos)
        ELSE h

\* The first loop of heapq._siftup: move heap[pos] down to a leaf along the
\* path of smaller children; returns the list and the leaf position.
RECURSIVE SiftToLeaf(_, _)
SiftToLeaf(h, pos) ==
    LET childpos == 2 * pos + 1
        rightpos == childpos + 1
        smaller  == IF rightpos < Len(h) /\ ~TupleLT(h[childpos+1], h[rightpos+1])
                    THEN rightpos ELSE childpos
    IN  IF childpos >= Len(h) THEN <<h, pos>>
        ELSE SiftToLeaf(SwapAt(h, pos, smaller), smaller)

\* heapq._siftup(heap, pos)
SiftUp(h, pos) ==
    LET leaf == SiftToLeaf(h, pos) IN SiftDown(leaf[1], pos, leaf[2])

HeapPush(h, item) == SiftDown(Append(h, item), 0, Len(h))

HeapReplace(h, item) == SiftUp([h EXCEPT ![1] = item], 0)

\* Mutant: the eviction test reads the last list element instead of the
\* heap minimum top_heap[0].
OfferLagVsLast(h, item) ==
    IF Len(h) < TopN THEN HeapPush(h, item)
    ELSE IF item[1] > h[Len(h)][1] THEN HeapReplace(h, item)
    ELSE h

\* Lines 86-90: keep the TopN largest lags.
OfferLag(h, item) ==
    IF Len(h) < TopN THEN HeapPush(h, item)
    ELSE IF item[1] > h[1][1] THEN HeapReplace(h, item)
    ELSE h

-----------------------------------------------------------------------------
(* The pass over the file (lines 61-93).                                   *)

\* Lines 63-73: blank lines, lines with fewer than two fields and lines
\* whose last field is not an unsigned integer are skipped.
IsValidLine(parts) == Len(parts) >= 2 /\ parts[Len(parts)] \in Timestamps

Init ==
    /\ min_ts = None /\ max_ts = None /\ seen_max = None
    /\ out_of_order_count = 0 /\ seq = 0
    /\ top_heap = <<>>
    /\ eof = FALSE /\ linesRead = 0
    /\ tsLog = <<>>

\* Lines 63-73 for a line that is skipped.
SkipLine(parts) ==
    /\ ~IsValidLine(parts)
    /\ linesRead' = linesRead + 1
    /\ UNCHANGED <<min_ts, max_ts, seen_max, out_of_order_count, seq,
                   top_heap, eof, tsLog>>

\* Mutant: equal timestamps counted as out of order.
OutOfOrderOrEqual(ts) == seen_max # None /\ ts <= seen_max

\* Line 81: compared with the maximum seen before this line.
OutOfOrder(ts) == seen_max # None /\ ts < seen_max

\* Mutant: the lag computed the wrong way round.
NewEventSwapped(ts, metric) == <<ts - seen_max, seq + 1, metric>>

\* Lines 82-87: the heap entry (lag, seq, metric) with seq already incremented.
NewEvent(ts, metric) == <<seen_max - ts, seq + 1, metric>>

\* Lines 70-93 for a valid line: the min/max update, the out-of-order test
\* against the maximum seen before this line, then the seen_max update.
ProcessLine(parts) ==
    LET metric == parts[1]
        ts     == parts[Len(parts)]
        late   == OutOfOrder(ts)
    IN  /\ IsValidLine(parts)
        /\ min_ts' = IF min_ts = None \/ ts < min_ts THEN ts ELSE min_ts
        /\ max_ts' = IF max_ts = None \/ ts > max_ts THEN ts ELSE max_ts
        /\ out_of_order_count' = IF late THEN out_of_order_count + 1 ELSE out_of_order_count
        /\ seq' = IF late THEN seq + 1 ELSE seq
        /\ top_heap' = IF late THEN OfferLag(top_heap, NewEvent(ts, metric)) ELSE top_heap
        /\ seen_max' = IF seen_max = None \/ ts > seen_max THEN ts ELSE seen_max
        /\ linesRead' = linesRead + 1
        /\ tsLog' = Append(tsLog, <<ts, metric>>)
        /\ UNCHANGED eof

ReadLine ==
    /\ ~eof
    /\ linesRead < MaxLines
    /\ \E parts \in InputLines : SkipLine(parts) \/ ProcessLine(parts)

\* The file ends (after any number of lines); the report is then printed.
EndOfFile ==
    /\ ~eof
    /\ eof' = TRUE
    /\ UNCHANGED <<min_ts, max_ts, seen_max, out_of_order_count, seq,
                   top_heap, linesRead, tsLog>>

Next == ReadLine \/ EndOfFile

Spec == Init /\ [][Next]_vars

-----------------------------------------------------------------------------
(* The report (lines 95-123).                                              *)

\* Lines 111-115: sorted(..., key=lag, reverse=True) is stable, so events
\* of equal lag keep their order in the heap list.  Position of h[i]:
RankIn(h, i) ==
    1 + Cardinality({j \in 1..Len(h) :
                        h[j][1] > h[i][1] \/ (h[j][1] = h[i][1] /\ j < i)})

\* Mutant: sorted without reverse=True.
RankedEventsAscending(h) ==
    [k \in 1..Len(h) |-> h[CHOOSE i \in 1..Len(h) : RankIn(h, i) = Len(h) + 1 - k]]

RankedEvents(h) == [k \in 1..Len(h) |-> h[CHOOSE i \in 1..Len(h) : RankIn(h, i) = k]]

\* What main prints: NA values when no valid line was read (lines 95-100),
\* no event list when nothing was out of order (lines 107-109).
Report ==
    [ min_ts       |-> IF min_ts = None THEN "NA" ELSE min_ts,
      max_ts       |-> IF max_ts = None THEN "NA" ELSE max_ts,
      span_seconds |-> IF min_ts = None \/ max_ts = None THEN 0 ELSE max_ts - min_ts,
      out_of_order |-> min_ts # None /\ out_of_order_count > 0,
      count        |-> out_of_order_count,
      events       |-> IF out_of_order_count = 0 THEN <<>> ELSE RankedEvents(top_heap) ]

-----------------------------------------------------------------------------
(* Reference definitions over the valid lines read so far (tsLog).         *)

TsAt(i) == tsLog[i][1]

\* The high-water mark before line i of tsLog.
MaxBefore(i) == Max({TsAt(j) : j \in 1..(i-1)})

\* Line i arrives after a later timestamp was already seen.
IsLate(i) == i > 1 /\ TsAt(i) < MaxBefore(i)

LateLines == {i \in DOMAIN tsLog : IsLate(i)}

\* Every lag event of the file: its lag, its detection number, its metric.
RefEvents ==
    {<<MaxBefore(i) - TsAt(i), Quantify(1..i, IsLate), tsLog[i][2]>> : i \in LateLines}

-----------------------------------------------------------------------------
(* Properties.                                                             *)

TypeOK ==
    /\ min_ts \in Timestamps \cup {None}
    /\ max_ts \in Timestamps \cup {None}
    /\ seen_max \in Timestamps \cup {None}
    /\ out_of_order_count \in Nat /\ seq \in Nat
    /\ top_heap \in Seq(Timestamps \X Nat \X Metrics)
    /\ eof \in BOOLEAN /\ linesRead \in 0..MaxLines

\* The running scalars of the single pass (lines 76-93) agree with the whole
\* prefix of the file read so far: min_ts and max_ts are its extremes (None
\* when no valid line was read), and out_of_order_count is the number of
\* lines whose timestamp is below the maximum of all earlier lines.  This is
\* what breaks if the comparison on line 81 used the seen_max already
\* updated by the current line, or counted equal timestamps.
StreamMatchesReference ==
    LET T == {TsAt(i) : i \in DOMAIN tsLog}
    IN  /\ min_ts = IF T = {} THEN None ELSE Min(T)
        /\ max_ts = IF T = {} THEN None ELSE Max(T)
        /\ seen_max = max_ts
        /\ out_of_order_count = Cardinality(LateLines)

\* top_heap always holds exactly min(TopN, #events) of the lag events seen so
\* far, each at most once, and no dropped event has a larger lag than a kept
\* one (lines 86-90 with heapq keeping its minimum at top_heap[0]).
HeapHoldsTopN ==
    LET kept == Range(top_heap)
    IN  /\ Len(top_heap) = IF Cardinality(RefEvents) < TopN
                           THEN Cardinality(RefEvents) ELSE TopN
        /\ Cardinality(kept) = Len(top_heap)
        /\ kept \subseteq RefEvents
        /\ \A d \in RefEvents \ kept, k \in kept : d[1] <= k[1]

\* Once the file ends, the report's event list is ordered by lag, largest
\* first, and its first entry (printed as max_lag_seconds, line 119) is the
\* largest lag of the whole file, whichever events the heap dropped.
ReportRanksLargestFirst ==
    eof /\ Report.out_of_order =>
        /\ Report.events[1][1] = Max({e[1] : e \in RefEvents})
        /\ \A k \in 1..(Len(Report.events) - 1) :
               Report.events[k][1] >= Report.events[k+1][1]

\* The detector implements the TopKHeap the spec describes (module
\* LagReportSpec): seen_max is the high-water mark, out_of_order_count the
\* count, and the events in the heapq list are exactly the set the abstract
\* TopKHeap keeps, step by step.  In particular heapq must keep the
\* (lag, seq) minimum at top_heap[0], since line 89 compares with it and
\* heapreplace evicts it: a list whose first element is not the minimum
\* evicts another event, possibly one of the same lag detected later.
LagReport == INSTANCE LagReportSpec
                 WITH Timestamps <- Timestamps, K <- TopN, highWater <- seen_max,
                      count <- out_of_order_count, topK <- Range(top_heap), done <- eof

ImplementsLagReport == LagReport!AbsSpec

\* The spec (section 4.5, section 9) asks that events of equal lag be listed
\* first-detected first.  Lines 111-115 sort the heap list by lag only, so
\* equal-lag events come out in heap-list order.
RankTiesFirstDetected ==
    eof /\ Report.out_of_order =>
        \A k \in 1..(Len(Report.events) - 1) :
            Report.events[k][1] = Report.events[k+1][1] =>
                Report.events[k][2] < Report.events[k+1][2]

=============================================================================
