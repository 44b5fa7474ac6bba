--------------------------- MODULE LagReportSpec ---------------------------
(***************************************************************************)
(* What the lag detector promises (spec section 4.5 and the TopKHeap of     *)
(* section 3), with no heap layout: the state is the high-water mark, the  *)
(* number of out-of-order lines and the set of kept lag events.  A kept    *)
(* event is <<lag, sequence, metric>>; events are ordered by lag, then by  *)
(* sequence, so the minimum is unique.  Below capacity K an event is       *)
(* added; at capacity it replaces the minimum only if its lag exceeds the  *)
(* minimum's.                                                              *)
(***************************************************************************)
EXTENDS Integers, FiniteSets

CONSTANTS Metrics, Timestamps, K, None

VARIABLES highWater, count, topK, done

absVars == <<highWater, count, topK, done>>

\* (lag, sequence) order of two events.
Below(e, f) == e[1] < f[1] \/ (e[1] = f[1] /\ e[2] < f[2])

Minimum(S) == CHOOSE e \in S : \A f \in S \ {e} : Below(e, f)

\* The TopKHeap insertion.
Insert(S, e) ==
    CASE Cardinality(S) < K     -> S \cup {e}
      [] e[1] > Minimum(S)[1]   -> (S \ {Minimum(S)}) \cup {e}
      [] OTHER                  -> S

AbsInit ==
    /\ highWater = None
    /\ count = 0
    /\ topK = {}
    /\ done = FALSE

\* A valid line: an out-of-order one is counted, numbered and offered to
\* the TopKHeap; then the high-water mark moves up.
Observe(ts, m) ==
    LET late == highWater # None /\ ts < highWater
    IN  /\ ~done
        /\ count' = IF late THEN count + 1 ELSE count
        /\ topK' = IF late THEN Insert(topK, <<highWater - ts, count + 1, m>>) ELSE topK
        /\ highWater' = IF highWater = None \/ ts > highWater THEN ts ELSE highWater
        /\ UNCHANGED done

\* The end of the file.
Finish == ~done /\ done' = TRUE /\ UNCHANGED <<highWater, count, topK>>

AbsNext == (\E ts \in Timestamps, m \in Metrics : Observe(ts, m)) \/ Finish

AbsSpec == AbsInit /\ [][AbsNext]_absVars

=============================================================================
