------------------------ MODULE MCParentLeafCleaner ------------------------
(* Instantiates ParentLeafCleaner with two leaves and the three stores.    *)
EXTENDS ParentLeafCleaner

CONSTANTS s30m2y, s5m7d, s60s24h, l1, l2

\* Two leaf ids.
MCIds == {l1, l2}

MCDataDbs == <<s30m2y, s5m7d, s60s24h>>

\* Runs without --dry-run; runs with or without it.
MCRealRuns == {FALSE}
MCAnyRuns == {FALSE, TRUE}

====
