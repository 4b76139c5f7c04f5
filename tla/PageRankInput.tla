---------------------------- MODULE PageRankInput ----------------------------
(***************************************************************************)
(* The program that puts a graph into persistent memory                    *)
(* (apps/pagerank/pagerank-stdin2pmem.c0): init reads the edges and builds  *)
(* the vertices and the lists of their in-neighbors, three runners then     *)
(* write pages of them again.                                              *)
(*                                                                         *)
(* A double is a multiple of 1/Scale, and what is computed is exact: the    *)
(* graphs and the numbers chosen keep it so.                               *)
(***************************************************************************)
EXTENDS Totals, SequencesExt, L0

CONSTANTS
  Inputs,                 \* what may be on stdin: sequences of numbers
  VERTICES_MAX_CNT,
  IN_NEIGHBORS_MAX_LEN,
  Scale

ASSUME InputAssumption ==
  /\ VERTICES_MAX_CNT \in Nat /\ IN_NEIGHBORS_MAX_LEN \in Nat
  /\ Scale \in Nat \ {0}
  /\ \A in \in Inputs : in \in Seq(Nat)

VERTEX_SIZE == 3
INDEGREE == 0
OUTDEGREE == 1
IN_NEIGHBORS == 2

(* The region of the vertices has their number in its first word.          *)
VerticesCnt == <<"vertices", 0>>
Vertex(v, offset) == <<"vertices", 1 + VERTEX_SIZE * v + offset>>
Neighbor(j) == <<"in_neighbors", j>>

GraphLocations ==
  {<<"vertices", j>> : j \in 0 .. VERTEX_SIZE * VERTICES_MAX_CNT}
    \cup {Neighbor(j) : j \in 0 .. (IN_NEIGHBORS_MAX_LEN - 1)}

-----------------------------------------------------------------------------
(* read_input: edges are the pairs of numbers from the first 0 on.         *)

EdgesFrom(in, first) ==
  [j \in 1 .. ((Len(in) - first + 1) \div 2) |->
     [src |-> in[first + 2 * j - 2], dst |-> in[first + 2 * j - 1]]]

Edges(in) ==
  IF \A n \in DOMAIN in : in[n] # 0 THEN <<>>
  ELSE EdgesFrom(in, Min({n \in DOMAIN in : in[n] = 0}))

(* pr_find_vertices_cnt                                                    *)
CountOf(edges) == Last(edges).src

-----------------------------------------------------------------------------
(* pr_build_graph.  What is known of the vertices above the count stays     *)
(* what the memory held, but for the edges counted.                        *)

Named(edges) == UNION {{edges[j].src, edges[j].dst} : j \in DOMAIN edges}

Degrees(edges, memory) ==
  LET count == CountOf(edges)
      Before(l, v) == IF v < count THEN 0 ELSE memory[l]
      Out(v) == Cardinality({j \in DOMAIN edges : edges[j].src = v})
      In(v) == Cardinality({j \in DOMAIN edges : edges[j].dst = v})
  IN [v \in Named(edges) \cup 0 .. (count - 1) |->
        [in |-> Before(Vertex(v, INDEGREE), v) + In(v),
         out |-> Before(Vertex(v, OUTDEGREE), v) + Out(v)]]

(* "outdegree contains 1.0/outdegree as double"                            *)
OneOver(outdegree) == IF outdegree = 0 THEN Scale ELSE Scale \div outdegree

LocationsFromEnd(edges, degrees, memory) ==      \* mutant
  LET tmp1 == Accumulated([v \in 1 .. CountOf(edges) |-> degrees[v - 1].in])
  IN [v \in DOMAIN degrees |->
        IF v < CountOf(edges) THEN tmp1[v + 1] ELSE memory[Vertex(v, IN_NEIGHBORS)]]

(* Where the list of the in-neighbors of a vertex begins.                  *)
NeighborLocations(edges, degrees, memory) ==
  LET tmp1 == Accumulated([v \in 1 .. CountOf(edges) |-> degrees[v - 1].in])
  IN [v \in DOMAIN degrees |->
        IF v < CountOf(edges) THEN tmp1[v] ELSE memory[Vertex(v, IN_NEIGHBORS)]]

(* Edge j goes behind those to the same vertex before it (filled[dst]); of  *)
(* edges that go to the same place the last one stays.                     *)
NeighborsFilled(edges, locations) ==
  LET filled(j) == Cardinality({h \in 1 .. (j - 1) : edges[h].dst = edges[j].dst})
      slot == [j \in DOMAIN edges |-> locations[edges[j].dst] + filled(j)]
  IN [l \in {Neighbor(slot[j]) : j \in DOMAIN edges} |->
        edges[Max({j \in DOMAIN edges : slot[j] = l[2]})].src]

VerticesFilled(edges, degrees, locations) ==
  LET Word(v, offset) ==
        CASE offset = INDEGREE -> degrees[v].in
          [] offset = OUTDEGREE -> IF v < CountOf(edges) THEN OneOver(degrees[v].out)
                                   ELSE degrees[v].out
          [] offset = IN_NEIGHBORS -> locations[v]
  IN [l \in {Vertex(v, o) : v \in DOMAIN degrees,
                            o \in {INDEGREE, OUTDEGREE, IN_NEIGHBORS}} |->
        Word((l[2] - 1) \div VERTEX_SIZE, (l[2] - 1) % VERTEX_SIZE)]

GraphOf(edges, memory) ==
  LET degrees == Degrees(edges, memory)
      locations == NeighborLocations(edges, degrees, memory)
  IN Over(NeighborsFilled(edges, locations),
          Over(VerticesFilled(edges, degrees, locations),
               Holds(VerticesCnt, CountOf(edges))))

(* The graphs that fit: their edges are listed by source, and none goes to  *)
(* the vertex that is not counted.  The inverse of an outdegree is exact.   *)
ASSUME InputsFit ==
  \A in \in Inputs :
    LET edges == Edges(in)
        count == CountOf(edges)
        Out(v) == Cardinality({j \in DOMAIN edges : edges[j].src = v})
    IN /\ edges # <<>> /\ Len(edges) <= IN_NEIGHBORS_MAX_LEN
       /\ count \in 1 .. (VERTICES_MAX_CNT - 1)
       /\ \A j \in DOMAIN edges : edges[j].src <= count /\ edges[j].dst < count
       /\ \A v \in 0 .. (count - 1) : Out(v) > 0 => Scale % Out(v) = 0

-----------------------------------------------------------------------------
(* The tasks.  Pages the loops of shuffle touch: the one called with 3      *)
(* would have the first third.                                             *)

Every(l, first, past) == {<<l, j>> : j \in
  {first + N_LONG_PAGE * n : n \in 0 .. past} \cap (first .. (past - 1))}

ThirdOf(l, len, id) ==
  IF id = 2 THEN Every(l, len \div 3, (len * 2) \div 3 - N_LONG_PAGE * 2)
  ELSE Every(l, (len * 2) \div 3, len - 1)

Touched(id) ==
  ThirdOf("in_neighbors", IN_NEIGHBORS_MAX_LEN, id)
    \cup {<<"vertices", l[2] + 1>> :
            l \in ThirdOf("vertices", VERTICES_MAX_CNT * VERTEX_SIZE, id)}

Shuffle(id, view) == Ends("commit", [l \in Touched(id) |-> view[l]], {}, {})

InitGraph(in, view) ==
  IF Edges(in) = <<>> \/ CountOf(Edges(in)) = 0 THEN Aborts("abort")
  ELSE Ends("commit", GraphOf(Edges(in), view),
            {Task("shuffle", id) : id \in 0 .. 2}, {})

-----------------------------------------------------------------------------
(* What the graph in memory stands for: every vertex that is counted has    *)
(* the sources of its edges, in their order, and the inverse of its        *)
(* outdegree, or 1.                                                        *)
NeighborsIn(memory, v) ==
  LET first == memory[Vertex(v, IN_NEIGHBORS)]
  IN [n \in 1 .. memory[Vertex(v, INDEGREE)] |-> memory[Neighbor(first + n - 1)]]

(* The list of the numbers in a set, the lowest first.                     *)
Lists(order, set) ==
  /\ {order[n] : n \in DOMAIN order} = set
  /\ \A m, n \in DOMAIN order : m < n => order[m] < order[n]

Represents(memory, edges) ==
  \A v \in 0 .. (memory[VerticesCnt] - 1) :
    LET to == {j \in DOMAIN edges : edges[j].dst = v}
        from == {j \in DOMAIN edges : edges[j].src = v}
        neighbors == NeighborsIn(memory, v)
    IN /\ \E order \in [DOMAIN neighbors -> DOMAIN edges] :
            /\ Lists(order, to)
            /\ \A n \in DOMAIN order : neighbors[n] = edges[order[n]].src
       /\ memory[Vertex(v, OUTDEGREE)]
            * (IF from = {} THEN 1 ELSE Cardinality(from)) = Scale
=============================================================================
