----------------------------- MODULE MC_PageRank -----------------------------
EXTENDS PageRank

(* Numbers of a header, then the edges by their sources.  Three vertices    *)
(* are counted, and the last source gives to one of them.  In the second    *)
(* graph an edge comes twice, and a vertex has no edge in, another none out. *)
TwoWays == <<4, 5, 0, 1, 0, 2, 1, 0, 2, 0, 2, 1, 3, 1>>
NoWayOut == <<0, 2, 0, 2, 2, 1, 3, 2>>
MCInputs == {TwoWays, NoWayOut}
MCParts == <<2, 1>>
=============================================================================
