------------------------- MODULE MCNamespaceChecker -------------------------
(* Instantiates NamespaceChecker with three ids, names of two segments     *)
(* over {a, b} and the three data stores.                                  *)
EXTENDS NamespaceChecker

CONSTANTS a, b, root, s30m2y, s5m7d, s60s24h

MCIds == {1, 2, 3}

MCRoot == <<root>>

\* 'root' and names of two segments.
MCNameSet == {MCRoot, <<a, a>>, <<a, b>>, <<b, a>>}

MCDataDbs == <<s30m2y, s5m7d, s60s24h>>

\* --skip-prefix '' splits to [''], which no first segment equals.
MCSkipPrefix == {}

\* --common-prefix '' (dot mode) and --common-prefix a.
MCCommonDot == <<>>
MCCommonA == <<a>>

\* --no-dump given or not.
MCNoDumpModes == BOOLEAN
MCDumpOnly == {FALSE}

\* invalid_namespaces as an earlier run left it, having found b.a without
\* data.
MCEarlierLines == {<<<<b, a>>>>}
MCNoEarlierLines == {<<>>}

====
