------------------------ MODULE MCInvalidNamespaces -------------------------
(* Instantiates InvalidNamespaces with the checker's model of              *)
(* MCNamespaceChecker, and names of three segments for the cleaner's       *)
(* --prefix-parts.                                                         *)
EXTENDS InvalidNamespaces, MCNamespaceChecker

\* Names of three segments under a.a, with 'root'.
MCNameSet3 == {MCRoot, <<a, a, a>>, <<a, a, b>>, <<a, b, a>>}

\* Two of the three stores: the loop of lines 151-155 still stops at the
\* first store that has the id, which is all the checks tell apart.
MCDataDbs2 == <<s30m2y, s5m7d>>

MCHttpOutcomes == {"200", "200_bad_json", "error", "raise", "hang"}

====
