--------------------------- MODULE PowerIteration ---------------------------
(***************************************************************************)
(* What pagerank promises, by the comment it starts with                   *)
(* (apps/pagerank/pagerank-frompmem.c0:3): PR[i] = alpha + (1 - alpha) *    *)
(* the sum of oldPR[j] / outDeg[j] over the in-neighbors j of i, from 1.0   *)
(* on, as often as MAX_ITER says; the ranks are then printed.  What is kept *)
(* of a rank is what a vertex gives over each of its edges, the rank        *)
(* divided by the outdegree.  Numbers are multiples of 1/Scale.             *)
(***************************************************************************)
EXTENDS Totals, FiniteSets

CONSTANTS
  MAX_ITER, PR_alpha, PR_initial, Scale,
  Unranked      \* what a vertex without a rank gives

VARIABLES
  edges,        \* the graph
  ranked,       \* the vertices to rank
  given,        \* what each of them gives over an edge, <<>> at first
  iter,         \* how often the ranks have been computed
  printed

power == <<edges, ranked, given, iter, printed>>

Times(x, y) == (x * y) \div Scale

(* 1/outDeg; a vertex without a way out counts as one with a single one.   *)
OutDeg(v) == Cardinality({j \in DOMAIN edges : edges[j].src = v})
Inverse(n) == IF n = 0 THEN Scale ELSE Scale \div n

Gives(v) == IF v \in DOMAIN given THEN given[v] ELSE Unranked
PR(v) ==
  LET sum == Total([j \in 1 .. Len(edges) |->
                      IF edges[j].dst = v THEN Gives(edges[j].src) ELSE 0])
  IN PR_alpha + Times(sum, Scale - PR_alpha)

Share(v) == Times(IF iter = 0 THEN PR_initial ELSE PR(v), Inverse(OutDeg(v)))
Rank(v) == (given[v] * Scale) \div Inverse(OutDeg(v))

PInit == given = <<>> /\ iter = 0 /\ printed = <<>>

Compute ==
  /\ iter <= MAX_ITER
  /\ given' = [v \in ranked |-> Share(v)]
  /\ iter' = iter + 1
  /\ UNCHANGED <<edges, ranked, printed>>

PrintRanks ==
  /\ iter = MAX_ITER + 1 /\ printed = <<>>
  /\ printed' = [v \in ranked |-> Rank(v)]
  /\ UNCHANGED <<edges, ranked, given, iter>>

PNext == Compute \/ PrintRanks
PSpec == PInit /\ [][PNext]_power /\ <>(printed # <<>>)
=============================================================================
