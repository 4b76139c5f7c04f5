----------------------------- MODULE MC_KMeans ------------------------------
EXTENDS KMeans, SequencesExt

Line(coords) == [i \in 0 .. (N - 1) |-> [d \in Dims |-> coords[i + 1]]]

(* Clusters that change from iteration to iteration, ties, quotients that   *)
(* are rounded toward zero from both sides, and a centroid disabled where   *)
(* every point is too negative to be drawn to it.                          *)
MCInputs == {Line(<<12, 10, 6, -9>>), Line(<<-3, -3, -4, -8>>)}

=============================================================================
