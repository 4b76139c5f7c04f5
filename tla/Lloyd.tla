------------------------------- MODULE Lloyd --------------------------------
(***************************************************************************)
(* What kmeans promises: Lloyd's algorithm on one machine, in integers      *)
(* without a width.  A centroid that no point is nearest to is disabled.    *)
(***************************************************************************)
EXTENDS Integers, FiniteSets, Functions

CONSTANTS K, MAX_ITER, Dims, Disabled

VARIABLES
  points,     \* the N points
  centroid,   \* the K centroids, <<>> before there are any
  iter        \* iterations done

lloyd == <<points, centroid, iter>>

Enabled == {k \in DOMAIN centroid : centroid[k] # Disabled}

SquaredDistance(p, c) ==
  SumFunction([d \in Dims |-> (p[d] - c[d]) * (p[d] - c[d])])

(* The cluster of a point: the nearest centroid, of equally near ones the  *)
(* first.                                                                  *)
Nearest(p) ==
  LET distance == {<<SquaredDistance(p, centroid[k]), k>> : k \in Enabled}
      Before(m, o) == m[1] < o[1] \/ (m[1] = o[1] /\ m[2] <= o[2])
  IN (CHOOSE m \in distance : \A o \in distance : Before(m, o))[2]

Magnitude(n) == IF n < 0 THEN -n ELSE n
Mean(S) == [d \in Dims |->
              LET total == SumFunction([i \in S |-> points[i][d]])
                  size == Magnitude(total) \div Cardinality(S)
              IN IF total < 0 THEN -size ELSE size]

LInit == centroid = <<>> /\ iter = 0

Begin == /\ centroid = <<>>
         /\ centroid' = [k \in 0 .. (K - 1) |-> points[k]]
         /\ UNCHANGED <<points, iter>>

Iterate == /\ centroid # <<>> /\ iter < MAX_ITER
           /\ LET clusters == {<<i, Nearest(points[i])>> : i \in DOMAIN points}
                  Cluster(k) == {c[1] : c \in {d \in clusters : d[2] = k}}
              IN centroid' = [k \in DOMAIN centroid |->
                   IF Cluster(k) = {} THEN Disabled ELSE Mean(Cluster(k))]
           /\ iter' = iter + 1
           /\ UNCHANGED points

LNext == Begin \/ Iterate
LSpec == LInit /\ [][LNext]_lloyd /\ <>(iter = MAX_ITER)
=============================================================================
