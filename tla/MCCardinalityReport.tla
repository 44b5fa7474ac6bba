------------------------ MODULE MCCardinalityReport ------------------------
(* Instantiates CardinalityReport for TLC with the report's limits scaled   *)
(* down so that truncation, flagging and ties happen on files of 3 lines.  *)
EXTENDS CardinalityReport

CONSTANTS r1, r2

MCRuns == {r1, r2}

\* Two segment values, standing for "a" < "b".
MCSegments == {1, 2}

\* The depths [3, 4, 5, 6] of line 166, scaled to names of at most 3 segments.
MCFamilyDepths == <<1, 2>>

=============================================================================
