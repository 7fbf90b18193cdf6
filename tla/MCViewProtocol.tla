--------------------------- MODULE MCViewProtocol ---------------------------
(* A page of two tiles, two scroll positions and two or three sizes to be in.*)
EXTENDS ViewProtocol

TwoScrolls == {0, 1}
ThreeSizes == {0, 1, 2}
TwoSizes   == {0, 1}

\* Nothing tells the two sizes a page can be laid out for apart, so a view that
\* is laid out at the start has the first of them.
MCViewInit == ViewInit /\ view.size < 2
MCViewSpec == MCViewInit /\ [][ViewNext]_vars /\ ViewFairness
=============================================================================
