--------------------------- MODULE PageRankProofs ---------------------------
(***************************************************************************)
(* For every graph, any number of vertices, parts and iterations: the graph *)
(* in memory is that of the edges read, a space copies all that its task    *)
(* will read, no value in the phasing cache is ever changed, and the ranks  *)
(* that are computed and printed are those of the formula.                 *)
(***************************************************************************)
EXTENDS PageRank, L0Proofs, SumProofs, SequenceTheorems

-----------------------------------------------------------------------------
(* The edges and the places of the lists of in-neighbors.                  *)

Fits(edges) ==
  /\ DOMAIN edges = 1 .. Len(edges) /\ Len(edges) \in Nat \ {0}
  /\ Len(edges) <= IN_NEIGHBORS_MAX_LEN
  /\ CountOf(edges) \in 1 .. (VERTICES_MAX_CNT - 1)
  /\ \A j \in DOMAIN edges : /\ edges[j].src \in 0 .. CountOf(edges)
                             /\ edges[j].dst \in 0 .. (CountOf(edges) - 1)

LEMMA InputsAreFit ==
  ASSUME NEW input \in Inputs
  PROVE  Fits(Edges(input))
<1> DEFINE edges == Edges(input)
           zeros == {n \in DOMAIN input : input[n] = 0}
           first == Min(zeros)
           len == (Len(input) - first + 1) \div 2
<1>1. /\ edges # <<>> /\ Len(edges) <= IN_NEIGHBORS_MAX_LEN
      /\ CountOf(edges) \in 1 .. (VERTICES_MAX_CNT - 1)
      /\ \A j \in DOMAIN edges :
           edges[j].src <= CountOf(edges) /\ edges[j].dst < CountOf(edges)
  BY InputsFit
<1>2. input \in Seq(Nat) /\ Len(input) \in Nat /\ DOMAIN input = 1 .. Len(input)
  BY InputAssumption
<1>3. zeros # {} /\ edges = EdgesFrom(input, first)
  BY <1>1 DEF Edges
<1>4. first \in 1 .. Len(input)
  <2>1. zeros \in SUBSET Nat /\ zeros \subseteq 1 .. Len(input)
    BY <1>2
  <2>2. \E x \in zeros : \A y \in zeros : x <= y
    BY <1>3, <2>1, Least
  <2>3. Min(zeros) \in zeros
    <3> HIDE DEF zeros
    <3>1. QED
      BY <2>2 DEF Min
  <2>4. QED
    BY <2>1, <2>3
<1> HIDE DEF first, zeros
<1>5. len \in Nat /\ 2 * len <= Len(input) - first + 1
  BY <1>2, <1>4
<1> HIDE DEF len
<1>6. edges = [j \in 1 .. len |->
                [src |-> input[first + 2 * j - 2], dst |-> input[first + 2 * j - 1]]]
  BY <1>3 DEF EdgesFrom, len
<1>7. DOMAIN edges = 1 .. Len(edges) /\ Len(edges) \in Nat
  BY <1>5, <1>6
<1>8. ASSUME NEW j \in DOMAIN edges
      PROVE  edges[j].src \in Nat /\ edges[j].dst \in Nat
  <2>0. j \in Nat /\ 1 <= j /\ j <= len /\ first \in Nat /\ 1 <= first
    BY <1>4, <1>5, <1>6
  <2>1. /\ first + 2 * j - 2 \in 1 .. Len(input)
        /\ first + 2 * j - 1 \in 1 .. Len(input)
    BY <1>2, <1>5, <2>0
  <2>2. input[first + 2 * j - 2] \in Nat /\ input[first + 2 * j - 1] \in Nat
    BY <1>2, <2>1
  <2>3. QED
    BY <1>6, <2>2
<1>9. Len(edges) # 0
  <2>1. ASSUME Len(edges) = 0 PROVE FALSE
    <3>1. len = 0 /\ 1 .. len = {}
      BY <1>5, <1>6, <2>1
    <3>2. edges = <<>>
      BY <1>6, <3>1
    <3>3. QED
      BY <1>1, <3>2
  <2>2. QED
    BY <2>1
<1> HIDE DEF edges
<1>10. QED
  BY <1>1, <1>7, <1>8, <1>9 DEF Fits, edges

To(edges, v) == {j \in DOMAIN edges : edges[j].dst = v}
From(edges, v) == {j \in DOMAIN edges : edges[j].src = v}
Below(edges, v) == {j \in DOMAIN edges : edges[j].dst < v}
Earlier(edges, j) == {h \in 1 .. (j - 1) : edges[h].dst = edges[j].dst}
Place(edges, j) ==
  Cardinality(Below(edges, edges[j].dst)) + Cardinality(Earlier(edges, j))

LEMMA EdgeSets ==
  ASSUME NEW edges, Fits(edges), NEW S \in SUBSET DOMAIN edges
  PROVE  /\ IsFiniteSet(S) /\ Cardinality(S) \in Nat
         /\ Cardinality(S) <= Len(edges)
         /\ \A T \in SUBSET S : Cardinality(T) <= Cardinality(S)
<1>1. /\ IsFiniteSet(DOMAIN edges) /\ Cardinality(DOMAIN edges) = Len(edges)
  BY FS_Interval DEF Fits
<1>2. IsFiniteSet(S) /\ Cardinality(S) <= Len(edges)
  BY <1>1, FS_Subset
<1>3. Cardinality(S) \in Nat /\ \A T \in SUBSET S : Cardinality(T) <= Cardinality(S)
  BY <1>2, FS_Subset, FS_CardinalityType
<1>4. QED
  BY <1>2, <1>3

LEMMA BelowNext ==
  ASSUME NEW edges, Fits(edges), NEW v \in Nat
  PROVE  /\ Cardinality(Below(edges, v)) \in Nat /\ Cardinality(To(edges, v)) \in Nat
         /\ Cardinality(Below(edges, v + 1))
              = Cardinality(Below(edges, v)) + Cardinality(To(edges, v))
<1>1. \A j \in DOMAIN edges : edges[j].dst \in Nat
  BY DEF Fits
<1>2. Below(edges, v + 1) = Below(edges, v) \cup To(edges, v)
  BY <1>1 DEF Below, To
<1>3. Below(edges, v) \cap To(edges, v) = {}
  BY <1>1 DEF Below, To
<1>4. Below(edges, v) \in SUBSET DOMAIN edges /\ To(edges, v) \in SUBSET DOMAIN edges
  BY DEF Below, To
<1>5. /\ IsFiniteSet(Below(edges, v)) /\ Cardinality(Below(edges, v)) \in Nat
      /\ IsFiniteSet(To(edges, v)) /\ Cardinality(To(edges, v)) \in Nat
  BY <1>4, EdgeSets
<1>6. Cardinality({}) = 0
  BY FS_EmptySet
<1>7. Cardinality(Below(edges, v) \cup To(edges, v))
        = Cardinality(Below(edges, v)) + Cardinality(To(edges, v))
  BY <1>3, <1>5, <1>6, FS_Union
<1>8. QED
  BY <1>2, <1>5, <1>7

LEMMA BelowGrows ==
  ASSUME NEW edges, Fits(edges), NEW v \in Nat, NEW w \in Nat, v <= w
  PROVE  /\ Cardinality(Below(edges, v)) <= Cardinality(Below(edges, w))
         /\ Cardinality(Below(edges, w)) <= Len(edges)
<1>1. \A j \in DOMAIN edges : edges[j].dst \in Nat
  BY DEF Fits
<1>2. Below(edges, v) \in SUBSET Below(edges, w) /\ Below(edges, w) \in SUBSET DOMAIN edges
  BY <1>1 DEF Below
<1>3. QED
  BY <1>2, EdgeSets

\* An edge lies in the list of its vertex, behind the earlier ones.
LEMMA EarlierEdges ==
  ASSUME NEW edges, Fits(edges), NEW j \in DOMAIN edges
  PROVE  LET v == edges[j].dst IN
         /\ v \in Nat
         /\ Cardinality(Earlier(edges, j)) \in Nat
         /\ Cardinality(Earlier(edges, j)) < Cardinality(To(edges, v))
         /\ \A i \in Earlier(edges, j) :
              Cardinality(Earlier(edges, i)) < Cardinality(Earlier(edges, j))
<1> DEFINE v == edges[j].dst
<1>1. j \in 1 .. Len(edges) /\ Len(edges) \in Nat /\ v \in Nat
  BY DEF Fits
<1>2. /\ Earlier(edges, j) \in SUBSET (To(edges, v) \ {j})
      /\ To(edges, v) \in SUBSET DOMAIN edges /\ j \in To(edges, v)
  BY <1>1 DEF Fits, Earlier, To
<1>3. /\ IsFiniteSet(To(edges, v)) /\ Cardinality(To(edges, v)) \in Nat
      /\ Cardinality(To(edges, v) \ {j}) = Cardinality(To(edges, v)) - 1
  BY <1>2, EdgeSets, FS_RemoveElement
<1>4. /\ Cardinality(Earlier(edges, j)) <= Cardinality(To(edges, v) \ {j})
      /\ Cardinality(Earlier(edges, j)) \in Nat /\ IsFiniteSet(Earlier(edges, j))
  <2>1. To(edges, v) \ {j} \in SUBSET DOMAIN edges /\ Earlier(edges, j) \in SUBSET DOMAIN edges
    BY <1>2
  <2>2. QED
    BY <1>2, <2>1, EdgeSets
<1>5. ASSUME NEW i \in Earlier(edges, j)
      PROVE  Cardinality(Earlier(edges, i)) < Cardinality(Earlier(edges, j))
  <2>1. i \in 1 .. (j - 1) /\ edges[i].dst = v
    BY DEF Earlier
  <2>2. Earlier(edges, i) \in SUBSET (Earlier(edges, j) \ {i})
    BY <1>1, <2>1 DEF Earlier
  <2>3. /\ IsFiniteSet(Earlier(edges, j) \ {i})
        /\ Cardinality(Earlier(edges, j) \ {i}) = Cardinality(Earlier(edges, j)) - 1
    BY <1>4, FS_RemoveElement
  <2>4. /\ Cardinality(Earlier(edges, i)) <= Cardinality(Earlier(edges, j) \ {i})
        /\ IsFiniteSet(Earlier(edges, i))
    BY <2>2, <2>3, FS_Subset
  <2>5. Cardinality(Earlier(edges, i)) \in Nat
    BY <2>4, FS_CardinalityType
  <2>6. QED
    BY <1>4, <2>3, <2>4, <2>5
<1>6. QED
  BY <1>1, <1>3, <1>4, <1>5

LEMMA PlaceInList ==
  ASSUME NEW edges, Fits(edges), NEW j \in DOMAIN edges
  PROVE  LET v == edges[j].dst IN
         /\ v \in Nat /\ Place(edges, j) \in Nat
         /\ Cardinality(Below(edges, v)) <= Place(edges, j)
         /\ Place(edges, j) < Cardinality(Below(edges, v + 1))
<1> DEFINE v == edges[j].dst
           e == Cardinality(Earlier(edges, j))
<1>1. v \in Nat /\ e \in Nat /\ e < Cardinality(To(edges, v))
  BY EarlierEdges
<1>2. /\ Cardinality(Below(edges, v)) \in Nat /\ Cardinality(To(edges, v)) \in Nat
      /\ Cardinality(Below(edges, v + 1))
           = Cardinality(Below(edges, v)) + Cardinality(To(edges, v))
  BY <1>1, BelowNext
<1>3. Place(edges, j) = Cardinality(Below(edges, v)) + e
  BY DEF Place
<1> HIDE DEF e, v
<1>4. QED
  BY <1>1, <1>2, <1>3 DEF v

\* No two edges have the same place.
LEMMA PlacesApart ==
  ASSUME NEW edges, Fits(edges), NEW i \in DOMAIN edges, NEW j \in DOMAIN edges, i < j
  PROVE  Place(edges, i) # Place(edges, j)
<1> DEFINE Lower(a, b) ==
     edges[a].dst < edges[b].dst => Place(edges, a) < Place(edges, b)
<1>1. ASSUME NEW a \in DOMAIN edges, NEW b \in DOMAIN edges
      PROVE  Lower(a, b)
  <2>1. SUFFICES ASSUME edges[a].dst < edges[b].dst
                 PROVE  Place(edges, a) < Place(edges, b)
    OBVIOUS
  <2>2. /\ edges[a].dst \in Nat /\ Place(edges, a) \in Nat
        /\ Place(edges, a) < Cardinality(Below(edges, edges[a].dst + 1))
    BY PlaceInList
  <2>3. /\ edges[b].dst \in Nat /\ Place(edges, b) \in Nat
        /\ Cardinality(Below(edges, edges[b].dst)) <= Place(edges, b)
    BY PlaceInList
  <2>4. edges[a].dst + 1 \in Nat /\ edges[a].dst + 1 <= edges[b].dst
    BY <2>1, <2>2, <2>3
  <2>5. Cardinality(Below(edges, edges[a].dst + 1)) <= Cardinality(Below(edges, edges[b].dst))
    BY <2>3, <2>4, BelowGrows
  <2>6. /\ Cardinality(Below(edges, edges[a].dst + 1)) \in Nat
        /\ Cardinality(Below(edges, edges[b].dst)) \in Nat
    BY <2>3, <2>4, BelowNext
  <2>7. QED
    BY <2>2, <2>3, <2>5, <2>6
<1>2. /\ Place(edges, i) \in Nat /\ Place(edges, j) \in Nat
      /\ edges[i].dst \in Nat /\ edges[j].dst \in Nat
  BY PlaceInList
<1>3. CASE edges[i].dst = edges[j].dst
  <2>1. i \in Earlier(edges, j)
    BY <1>3 DEF Earlier, Fits
  <2>2. Cardinality(Earlier(edges, i)) < Cardinality(Earlier(edges, j))
    BY <2>1, EarlierEdges
  <2>3. Cardinality(Earlier(edges, i)) \in Nat /\ Cardinality(Earlier(edges, j)) \in Nat
    BY EarlierEdges
  <2>4. Cardinality(Below(edges, edges[j].dst)) \in Nat
    BY <1>2, BelowNext
  <2>5. QED
    BY <1>3, <2>2, <2>3, <2>4 DEF Place
<1>4. CASE edges[i].dst # edges[j].dst
  <2>1. Lower(i, j) /\ Lower(j, i)
    BY <1>1
  <2>2. QED
    BY <1>2, <1>4, <2>1
<1>5. QED
  BY <1>3, <1>4

-----------------------------------------------------------------------------
(* The graph that is built from them on memory that holds nothing.         *)

LEMMA Constants ==
  /\ N_LONG_PAGE \in Nat \ {0} /\ VERTICES_MAX_CNT \in Nat /\ IN_NEIGHBORS_MAX_LEN \in Nat
  /\ Scale \in Nat \ {0} /\ MAX_ITER \in Nat
  /\ Len(cnt) \in Nat \ {0} /\ DOMAIN cnt = 1 .. Len(cnt)
  /\ \A k \in 1 .. Len(cnt) : cnt[k] \in Nat \ {0}
<1>1. cnt \in Seq(Nat \ {0}) /\ cnt # <<>>
  BY PageRankAssumption
<1>2. Len(cnt) \in Nat \ {0} /\ DOMAIN cnt = 1 .. Len(cnt)
  BY <1>1
<1>3. QED
  BY <1>1, <1>2, L0Assumption, InputAssumption, PageRankAssumption

Words == {INDEGREE, OUTDEGREE, IN_NEIGHBORS}
WordsOf(vertices) == {Vertex(v, o) : v \in vertices, o \in Words}

\* The words of a vertex, and where a word belongs to.
LEMMA VertexWords ==
  ASSUME NEW v \in Nat, NEW o \in Words
  PROVE  /\ Vertex(v, o) = <<"vertices", 1 + 3 * v + o>>
         /\ o \in 0 .. 2
         /\ (Vertex(v, o)[2] - 1) \div VERTEX_SIZE = v
         /\ (Vertex(v, o)[2] - 1) % VERTEX_SIZE = o
         /\ v < VERTICES_MAX_CNT => Vertex(v, o) \in GraphLocations
<1>1. Vertex(v, o) = <<"vertices", 1 + 3 * v + o>> /\ o \in 0 .. 2
  BY DEF Vertex, VERTEX_SIZE, Words, INDEGREE, OUTDEGREE, IN_NEIGHBORS
<1>2. Vertex(v, o)[2] - 1 = 3 * v + o
  BY <1>1
<1>3. (3 * v + o) \div 3 = v /\ (3 * v + o) % 3 = o
  BY <1>1
<1>4. v < VERTICES_MAX_CNT => 1 + 3 * v + o \in 0 .. 3 * VERTICES_MAX_CNT
  BY <1>1, Constants
<1>5. v < VERTICES_MAX_CNT => Vertex(v, o) \in GraphLocations
  BY <1>1, <1>4 DEF GraphLocations, VERTEX_SIZE
<1>6. QED
  BY <1>1, <1>2, <1>3, <1>5 DEF VERTEX_SIZE

LEMMA BlankFacts ==
  /\ DOMAIN Blank = Locations
  /\ \A l \in Locations : Blank[l] = 0
  /\ GraphLocations \subseteq Locations
  BY DEF Blank, Locations

LEMMA DegreesFacts ==
  ASSUME NEW edges, Fits(edges)
  PROVE  LET degrees == Degrees(edges, Blank) IN
         /\ 0 .. (CountOf(edges) - 1) \subseteq DOMAIN degrees
         /\ DOMAIN degrees \subseteq 0 .. CountOf(edges)
         /\ \A v \in DOMAIN degrees : /\ degrees[v].in = Cardinality(To(edges, v))
                                      /\ degrees[v].out = Cardinality(From(edges, v))
         /\ \A v \in DOMAIN degrees : v \in Nat /\ v < VERTICES_MAX_CNT
<1> DEFINE count == CountOf(edges)
           degrees == Degrees(edges, Blank)
           D == Named(edges) \cup 0 .. (count - 1)
           Was(l, v) == IF v < count THEN 0 ELSE Blank[l]
<1>1. degrees = [v \in D |-> [in |-> Was(Vertex(v, INDEGREE), v) + Cardinality(To(edges, v)),
                              out |-> Was(Vertex(v, OUTDEGREE), v) + Cardinality(From(edges, v))]]
  BY DEF Degrees, To, From
<1>2. count \in 1 .. (VERTICES_MAX_CNT - 1) /\ count \in Nat
  BY DEF Fits
<1>3. Named(edges) \subseteq 0 .. count
  <2>1. \A j \in DOMAIN edges : edges[j].src \in 0 .. count /\ edges[j].dst \in 0 .. count
    BY <1>2 DEF Fits
  <2>2. QED
    BY <2>1 DEF Named
<1>4. D \subseteq 0 .. count /\ 0 .. (count - 1) \subseteq D
  BY <1>2, <1>3
<1>5. ASSUME NEW v \in D
      PROVE  /\ v \in Nat /\ v < VERTICES_MAX_CNT
             /\ Was(Vertex(v, INDEGREE), v) = 0 /\ Was(Vertex(v, OUTDEGREE), v) = 0
             /\ Cardinality(To(edges, v)) \in Nat /\ Cardinality(From(edges, v)) \in Nat
  <2>1. v \in Nat /\ v < VERTICES_MAX_CNT
    BY <1>2, <1>4, Constants
  <2>2. Vertex(v, INDEGREE) \in Locations /\ Vertex(v, OUTDEGREE) \in Locations
    BY <2>1, VertexWords, BlankFacts DEF Words
  <2>3. To(edges, v) \in SUBSET DOMAIN edges /\ From(edges, v) \in SUBSET DOMAIN edges
    BY DEF To, From
  <2>4. QED
    BY <2>1, <2>2, <2>3, BlankFacts, EdgeSets
<1> HIDE DEF D, Was, count, degrees
<1>6. DOMAIN degrees = D
  BY <1>1
<1>7. \A v \in D : /\ degrees[v].in = Cardinality(To(edges, v))
                   /\ degrees[v].out = Cardinality(From(edges, v))
  BY <1>1, <1>5
<1>8. QED
  BY <1>4, <1>5, <1>6, <1>7 DEF degrees, count

LEMMA LocationsFacts ==
  ASSUME NEW edges, Fits(edges)
  PROVE  LET degrees == Degrees(edges, Blank)
             locations == NeighborLocations(edges, degrees, Blank)
         IN /\ DOMAIN locations = DOMAIN degrees
            /\ \A v \in 0 .. (CountOf(edges) - 1) :
                 locations[v] = Cardinality(Below(edges, v))
            /\ \A v \in DOMAIN degrees : locations[v] \in Nat
<1> DEFINE count == CountOf(edges)
           degrees == Degrees(edges, Blank)
           locations == NeighborLocations(edges, degrees, Blank)
           ins == [v \in 1 .. count |-> degrees[v - 1].in]
           A == Accumulated(ins)
<1>1. locations = [v \in DOMAIN degrees |->
                     IF v < count THEN A[v] ELSE Blank[Vertex(v, IN_NEIGHBORS)]]
  BY DEF NeighborLocations
<1>2. count \in Nat /\ count < VERTICES_MAX_CNT
  BY Constants DEF Fits
<1>3. /\ 0 .. (count - 1) \subseteq DOMAIN degrees
      /\ \A v \in DOMAIN degrees : degrees[v].in = Cardinality(To(edges, v))
      /\ \A v \in DOMAIN degrees : v \in Nat /\ v < VERTICES_MAX_CNT
      /\ DOMAIN degrees \subseteq 0 .. count
  BY DegreesFacts
<1>4. Len(ins) = count
  BY <1>2
<1>5. \A k \in 1 .. count : ins[k] = Cardinality(To(edges, k - 1))
  BY <1>2, <1>3
<1> HIDE DEF ins, degrees, locations, count
<1>6. /\ A[0] = 0
      /\ \A k \in 0 .. count : k # 0 => A[k] = A[k - 1] + ins[k]
  BY <1>2, <1>4, TotalsAre
<1> HIDE DEF A
<1> DEFINE P == {k \in Nat : k <= count => A[k] = Cardinality(Below(edges, k))}
<1>7. 0 \in P
  <2>1. Below(edges, 0) = {}
    BY DEF Below, Fits
  <2>2. QED
    BY <1>6, <2>1, FS_EmptySet
<1>8. ASSUME NEW k \in P PROVE k + 1 \in P
  <2>1. k \in Nat /\ k + 1 \in Nat /\ k + 1 # 0 /\ (k + 1) - 1 = k
    OBVIOUS
  <2>2. CASE k + 1 <= count
    <3>1. k <= count /\ k + 1 \in 0 .. count /\ k + 1 \in 1 .. count
      BY <1>2, <2>1, <2>2
    <3>2. A[k + 1] = A[k] + Cardinality(To(edges, k))
      BY <1>5, <1>6, <2>1, <3>1
    <3>3. A[k] = Cardinality(Below(edges, k))
      BY <3>1
    <3>4. A[k + 1] = Cardinality(Below(edges, k + 1))
      BY <2>1, <3>2, <3>3, BelowNext
    <3>5. QED
      BY <2>1, <3>4
  <2>3. QED
    BY <2>1, <2>2
<1>9. P = Nat
  <2> HIDE DEF P
  <2>1. P \in SUBSET Nat
    BY DEF P
  <2>2. QED
    BY <1>7, <1>8, <2>1, EveryNat
<1>10. \A v \in 0 .. (count - 1) : locations[v] = Cardinality(Below(edges, v))
  <2>1. \A v \in 0 .. (count - 1) : v \in Nat /\ v < count /\ v <= count
    BY <1>2
  <2>2. QED
    BY <1>1, <1>3, <1>9, <2>1
<1>11. ASSUME NEW v \in DOMAIN degrees PROVE locations[v] \in Nat
  <2>1. v \in Nat /\ v < VERTICES_MAX_CNT
    BY <1>3
  <2>2. CASE v < count
    <3>1. v \in 0 .. (count - 1)
      BY <1>2, <2>1, <2>2
    <3>2. QED
      BY <1>10, <2>1, <3>1, BelowNext
  <2>3. CASE ~(v < count)
    <3>1. Vertex(v, IN_NEIGHBORS) \in Locations
      BY <2>1, VertexWords, BlankFacts DEF Words
    <3>2. QED
      BY <1>1, <2>3, <3>1, BlankFacts
  <2>4. QED
    BY <2>2, <2>3
<1>12. DOMAIN locations = DOMAIN degrees
  BY <1>1
<1>13. QED
  BY <1>10, <1>11, <1>12 DEF degrees, locations, count

LEMMA PlaceFits ==
  ASSUME NEW edges, Fits(edges)
  PROVE  \A j \in DOMAIN edges : Neighbor(Place(edges, j)) \in GraphLocations
<1>1. ASSUME NEW j \in DOMAIN edges
      PROVE  Place(edges, j) \in 0 .. (IN_NEIGHBORS_MAX_LEN - 1)
  <2>1. /\ edges[j].dst + 1 \in Nat /\ Place(edges, j) \in Nat
        /\ Place(edges, j) < Cardinality(Below(edges, edges[j].dst + 1))
        /\ edges[j].dst + 1 <= edges[j].dst + 1
    BY PlaceInList
  <2>2. /\ Cardinality(Below(edges, edges[j].dst + 1)) \in Nat
        /\ Cardinality(Below(edges, edges[j].dst + 1)) <= Len(edges)
    BY <2>1, BelowGrows, BelowNext
  <2>3. Len(edges) \in Nat /\ Len(edges) <= IN_NEIGHBORS_MAX_LEN
    BY DEF Fits
  <2>4. QED
    BY <2>1, <2>2, <2>3, Constants
<1>2. QED
  BY <1>1 DEF GraphLocations

LEMMA NeighborsFacts ==
  ASSUME NEW edges, Fits(edges),
         NEW locations,
         \A v \in 0 .. (CountOf(edges) - 1) : locations[v] = Cardinality(Below(edges, v))
  PROVE  LET g == NeighborsFilled(edges, locations) IN
         /\ DOMAIN g = {Neighbor(Place(edges, j)) : j \in DOMAIN edges}
         /\ \A j \in DOMAIN edges : g[Neighbor(Place(edges, j))] = edges[j].src
         /\ DOMAIN g \subseteq GraphLocations
<1> DEFINE slot == [j \in DOMAIN edges |->
                      locations[edges[j].dst] + Cardinality(Earlier(edges, j))]
           At(p) == {j \in DOMAIN edges : slot[j] = p}
           g == NeighborsFilled(edges, locations)
<1>1. g = [l \in {Neighbor(slot[j]) : j \in DOMAIN edges} |-> edges[Max(At(l[2]))].src]
  BY DEF NeighborsFilled, Earlier
<1>2. \A j \in DOMAIN edges : edges[j].dst \in 0 .. (CountOf(edges) - 1)
  BY DEF Fits
<1>3. \A j \in DOMAIN edges : slot[j] = Place(edges, j)
  BY <1>2 DEF Place
<1> HIDE DEF slot
<1>4. ASSUME NEW j \in DOMAIN edges
      PROVE  At(Place(edges, j)) = {j} /\ Max(At(Place(edges, j))) = j
  <2>1. \A i \in DOMAIN edges : Place(edges, i) = Place(edges, j) => i = j
    <3>1. ASSUME NEW i \in DOMAIN edges, i # j PROVE Place(edges, i) # Place(edges, j)
      <4>1. i < j \/ j < i
        BY <3>1 DEF Fits
      <4>2. QED
        BY <4>1, PlacesApart
    <3>2. QED
      BY <3>1
  <2>2. At(Place(edges, j)) = {j}
    BY <1>3, <2>1
  <2>3. j <= j
    BY DEF Fits
  <2>4. Max({j}) = j
    BY <2>3 DEF Max
  <2>5. QED
    BY <2>2, <2>4
<1> HIDE DEF At, g
<1>5. DOMAIN g = {Neighbor(Place(edges, j)) : j \in DOMAIN edges}
  BY <1>1, <1>3
<1>6. \A j \in DOMAIN edges : g[Neighbor(Place(edges, j))] = edges[j].src
  <2>1. \A j \in DOMAIN edges : Neighbor(Place(edges, j))[2] = Place(edges, j)
    BY DEF Neighbor
  <2>2. QED
    BY <1>1, <1>3, <1>4, <2>1
<1>7. \A j \in DOMAIN edges : Neighbor(Place(edges, j)) \in GraphLocations
  BY PlaceFits
<1>8. QED
  BY <1>5, <1>6, <1>7 DEF g

LEMMA VerticesFacts ==
  ASSUME NEW edges, Fits(edges)
  PROVE  LET degrees == Degrees(edges, Blank)
             locations == NeighborLocations(edges, degrees, Blank)
             g == VerticesFilled(edges, degrees, locations)
         IN /\ DOMAIN g = WordsOf(DOMAIN degrees)
            /\ DOMAIN g \subseteq GraphLocations
            /\ \A l \in DOMAIN g : g[l] \in Nat
            /\ \A v \in 0 .. (CountOf(edges) - 1) :
                 /\ g[Vertex(v, INDEGREE)] = Cardinality(To(edges, v))
                 /\ g[Vertex(v, OUTDEGREE)] = OneOver(Cardinality(From(edges, v)))
                 /\ g[Vertex(v, IN_NEIGHBORS)] = Cardinality(Below(edges, v))
<1> DEFINE count == CountOf(edges)
           degrees == Degrees(edges, Blank)
           locations == NeighborLocations(edges, degrees, Blank)
           g == VerticesFilled(edges, degrees, locations)
           Word(v, o) == CASE o = INDEGREE -> degrees[v].in
                           [] o = OUTDEGREE -> IF v < count THEN OneOver(degrees[v].out)
                                               ELSE degrees[v].out
                           [] o = IN_NEIGHBORS -> locations[v]
<1>1. g = [l \in {Vertex(v, o) : v \in DOMAIN degrees, o \in Words} |->
             Word((l[2] - 1) \div VERTEX_SIZE, (l[2] - 1) % VERTEX_SIZE)]
  BY DEF VerticesFilled, Words
<1>2. /\ 0 .. (count - 1) \subseteq DOMAIN degrees
      /\ \A v \in DOMAIN degrees : /\ degrees[v].in = Cardinality(To(edges, v))
                                   /\ degrees[v].out = Cardinality(From(edges, v))
      /\ \A v \in DOMAIN degrees : v \in Nat /\ v < VERTICES_MAX_CNT
  BY DegreesFacts
<1>3. /\ \A v \in 0 .. (count - 1) : locations[v] = Cardinality(Below(edges, v))
      /\ \A v \in DOMAIN degrees : locations[v] \in Nat
  BY LocationsFacts
<1>4. \A v \in DOMAIN degrees :
        Cardinality(To(edges, v)) \in Nat /\ Cardinality(From(edges, v)) \in Nat
  <2>1. \A v : To(edges, v) \in SUBSET DOMAIN edges /\ From(edges, v) \in SUBSET DOMAIN edges
    BY DEF To, From
  <2>2. QED
    BY <2>1, EdgeSets
<1>5. \A n \in Nat : OneOver(n) \in Nat
  BY Constants DEF OneOver
<1>6. INDEGREE = 0 /\ OUTDEGREE = 1 /\ IN_NEIGHBORS = 2
  BY DEF INDEGREE, OUTDEGREE, IN_NEIGHBORS
<1> HIDE DEF degrees, locations, count
<1>7. \A v \in DOMAIN degrees, o \in Words : Word(v, o) \in Nat
  <2>1. \A v \in DOMAIN degrees : degrees[v].in \in Nat /\ degrees[v].out \in Nat
    BY <1>2, <1>4
  <2>2. \A v \in DOMAIN degrees : OneOver(degrees[v].out) \in Nat
    BY <1>5, <2>1
  <2>3. QED
    BY <1>3, <1>6, <2>1, <2>2 DEF Words
<1>8. \A v \in 0 .. (count - 1) :
        /\ Word(v, INDEGREE) = Cardinality(To(edges, v))
        /\ Word(v, OUTDEGREE) = OneOver(Cardinality(From(edges, v)))
        /\ Word(v, IN_NEIGHBORS) = Cardinality(Below(edges, v))
  <2>1. ASSUME NEW v \in 0 .. (count - 1)
        PROVE  /\ Word(v, INDEGREE) = degrees[v].in
               /\ Word(v, OUTDEGREE) = OneOver(degrees[v].out)
               /\ Word(v, IN_NEIGHBORS) = locations[v]
    <3>1. v < count
      BY DEF count, Fits
    <3>2. QED
      BY <1>6, <3>1
  <2>2. QED
    BY <1>2, <1>3, <2>1
<1> HIDE DEF Word, g
<1>9. \A v \in DOMAIN degrees, o \in Words :
        Vertex(v, o) \in DOMAIN g /\ g[Vertex(v, o)] = Word(v, o)
  <2>1. ASSUME NEW v \in DOMAIN degrees, NEW o \in Words
        PROVE  g[Vertex(v, o)] = Word(v, o)
    <3>1. /\ (Vertex(v, o)[2] - 1) \div VERTEX_SIZE = v
          /\ (Vertex(v, o)[2] - 1) % VERTEX_SIZE = o
      BY <1>2, VertexWords
    <3>2. Vertex(v, o) \in {Vertex(w, p) : w \in DOMAIN degrees, p \in Words}
      OBVIOUS
    <3>3. QED
      BY <1>1, <3>1, <3>2
  <2>2. QED
    BY <1>1, <2>1
<1>10. DOMAIN g = {Vertex(v, o) : v \in DOMAIN degrees, o \in Words}
  BY <1>1
<1>11. DOMAIN g \subseteq GraphLocations
  <2>1. \A v \in DOMAIN degrees, o \in Words : Vertex(v, o) \in GraphLocations
    BY <1>2, VertexWords
  <2>2. QED
    BY <1>10, <2>1
<1>12. ASSUME NEW l \in DOMAIN g PROVE g[l] \in Nat
  <2>1. PICK v \in DOMAIN degrees, o \in Words : l = Vertex(v, o)
    BY <1>10
  <2>2. QED
    BY <1>7, <1>9, <2>1
<1>13. \A v \in 0 .. (count - 1) :
         /\ g[Vertex(v, INDEGREE)] = Cardinality(To(edges, v))
         /\ g[Vertex(v, OUTDEGREE)] = OneOver(Cardinality(From(edges, v)))
         /\ g[Vertex(v, IN_NEIGHBORS)] = Cardinality(Below(edges, v))
  <2>1. INDEGREE \in Words /\ OUTDEGREE \in Words /\ IN_NEIGHBORS \in Words
    BY DEF Words
  <2>2. QED
    BY <1>2, <1>8, <1>9, <2>1
<1>14. QED
  BY <1>10, <1>11, <1>12, <1>13 DEF g, degrees, locations, count, WordsOf

\* What memory holds of a graph.
Holding(memory, edges) ==
  /\ memory[VerticesCnt] = CountOf(edges)
  /\ \A v \in 0 .. (CountOf(edges) - 1) :
       /\ memory[Vertex(v, INDEGREE)] = Cardinality(To(edges, v))
       /\ memory[Vertex(v, OUTDEGREE)] = OneOver(Cardinality(From(edges, v)))
       /\ memory[Vertex(v, IN_NEIGHBORS)] = Cardinality(Below(edges, v))
  /\ \A j \in DOMAIN edges : memory[Neighbor(Place(edges, j))] = edges[j].src

LEMMA GraphFacts ==
  ASSUME NEW edges, Fits(edges)
  PROVE  LET g == GraphOf(edges, Blank) IN
         /\ DOMAIN g \subseteq GraphLocations
         /\ \A l \in DOMAIN g : g[l] \in Nat
         /\ Holding(Over(g, Blank), edges)
         /\ VerticesCnt \in GraphLocations
<1> DEFINE degrees == Degrees(edges, Blank)
           locations == NeighborLocations(edges, degrees, Blank)
           n == NeighborsFilled(edges, locations)
           w == VerticesFilled(edges, degrees, locations)
           c == Holds(VerticesCnt, CountOf(edges))
           wc == Over(w, c)
           g == GraphOf(edges, Blank)
           m == Over(g, Blank)
<1>1. g = Over(n, wc)
  BY DEF GraphOf
<1>2. /\ DOMAIN n = {Neighbor(Place(edges, j)) : j \in DOMAIN edges}
      /\ \A j \in DOMAIN edges : n[Neighbor(Place(edges, j))] = edges[j].src
      /\ DOMAIN n \subseteq GraphLocations
  BY LocationsFacts, NeighborsFacts
<1>3. /\ DOMAIN w = WordsOf(DOMAIN degrees)
      /\ DOMAIN w \subseteq GraphLocations
      /\ \A l \in DOMAIN w : w[l] \in Nat
      /\ \A v \in 0 .. (CountOf(edges) - 1) :
           /\ w[Vertex(v, INDEGREE)] = Cardinality(To(edges, v))
           /\ w[Vertex(v, OUTDEGREE)] = OneOver(Cardinality(From(edges, v)))
           /\ w[Vertex(v, IN_NEIGHBORS)] = Cardinality(Below(edges, v))
  BY VerticesFacts
<1>4. /\ 0 .. (CountOf(edges) - 1) \subseteq DOMAIN degrees
      /\ \A v \in DOMAIN degrees : v \in Nat
  BY DegreesFacts
<1>5. DOMAIN c = {VerticesCnt} /\ c[VerticesCnt] = CountOf(edges)
  BY HoldsFacts
<1>6. CountOf(edges) \in Nat
  BY DEF Fits
<1> HIDE DEF degrees, locations, n, w, c, g
<1>7. \A j : Neighbor(j)[1] = "in_neighbors"
  BY DEF Neighbor
<1>8. \A v \in Nat, o \in Words : /\ Vertex(v, o)[1] = "vertices"
                                  /\ Vertex(v, o) # VerticesCnt
  BY VertexWords DEF VerticesCnt
<1>9. VerticesCnt[1] = "vertices" /\ VerticesCnt \in GraphLocations
  <2>1. 0 \in 0 .. VERTEX_SIZE * VERTICES_MAX_CNT
    BY Constants DEF VERTEX_SIZE
  <2>2. QED
    BY <2>1 DEF VerticesCnt, GraphLocations
<1>10. /\ \A l \in DOMAIN n : l \notin DOMAIN w /\ l # VerticesCnt
       /\ \A l \in DOMAIN w : l \notin DOMAIN n /\ l # VerticesCnt
       /\ VerticesCnt \notin DOMAIN n /\ VerticesCnt \notin DOMAIN w
  BY <1>2, <1>3, <1>4, <1>7, <1>8, <1>9 DEF WordsOf
<1>11. DOMAIN wc = DOMAIN w \cup {VerticesCnt}
  BY <1>5, OverDomain
<1>12. \A l \in DOMAIN w : wc[l] = w[l]
  BY OverNew
<1>13. wc[VerticesCnt] = CountOf(edges)
  BY <1>5, <1>10, OverOld
<1> HIDE DEF wc
<1>14. DOMAIN g = DOMAIN n \cup DOMAIN w \cup {VerticesCnt}
  <2>1. DOMAIN g = DOMAIN n \cup DOMAIN wc
    BY <1>1, OverDomain
  <2>2. QED
    BY <1>11, <2>1
<1>15. /\ \A l \in DOMAIN n : g[l] = n[l]
       /\ \A l \in DOMAIN wc : l \notin DOMAIN n => g[l] = wc[l]
  BY <1>1, OverNew, OverOld
<1>16. /\ \A l \in DOMAIN w : g[l] = w[l]
       /\ g[VerticesCnt] = CountOf(edges)
  BY <1>10, <1>11, <1>12, <1>13, <1>15
<1>17. DOMAIN g \subseteq GraphLocations
  BY <1>2, <1>3, <1>9, <1>14
<1>18. \A l \in DOMAIN g : g[l] \in Nat
  <2>1. \A j \in DOMAIN edges : edges[j].src \in Nat
    BY DEF Fits
  <2>2. \A l \in DOMAIN n : n[l] \in Nat
    BY <1>2, <2>1
  <2>3. QED
    BY <1>3, <1>6, <1>14, <1>15, <1>16, <2>2
<1>19. \A l \in DOMAIN g : m[l] = g[l]
  BY OverNew
<1> HIDE DEF m
<1>20. Holding(m, edges)
  <2>1. m[VerticesCnt] = CountOf(edges)
    BY <1>14, <1>16, <1>19
  <2>2. \A v \in 0 .. (CountOf(edges) - 1), o \in Words :
          m[Vertex(v, o)] = w[Vertex(v, o)]
    BY <1>3, <1>4, <1>14, <1>16, <1>19 DEF WordsOf
  <2>3. \A j \in DOMAIN edges : m[Neighbor(Place(edges, j))] = edges[j].src
    BY <1>2, <1>14, <1>15, <1>19
  <2>4. INDEGREE \in Words /\ OUTDEGREE \in Words /\ IN_NEIGHBORS \in Words
    BY DEF Words
  <2>5. QED
    BY <1>3, <2>1, <2>2, <2>3, <2>4 DEF Holding
<1>21. QED
  BY <1>9, <1>17, <1>18, <1>20 DEF g, m

\* The edges to a vertex, listed.
LEMMA InOrder ==
  ASSUME NEW edges, Fits(edges), NEW v \in Nat, NEW n, n = Cardinality(To(edges, v))
  PROVE  \E order \in [1 .. n -> DOMAIN edges] :
           /\ Lists(order, To(edges, v))
           /\ \A k \in 1 .. n : /\ order[k] \in To(edges, v)
                                /\ Cardinality(Earlier(edges, order[k])) = k - 1
<1> DEFINE S == To(edges, v)
           c(j) == Cardinality(Earlier(edges, j))
           T == 0 .. (n - 1)
           f == [j \in S |-> c(j)]
<1>1. S \in SUBSET DOMAIN edges /\ \A j \in S : edges[j].dst = v
  BY DEF To
<1>2. IsFiniteSet(S) /\ n \in Nat
  BY <1>1, EdgeSets
<1>3. \A j \in S : c(j) \in Nat /\ c(j) < n
  BY <1>1, EarlierEdges
<1>4. ASSUME NEW i \in S, NEW j \in S, i < j
      PROVE  c(i) < c(j)
  <2>1. i \in Earlier(edges, j)
    BY <1>1, <1>4 DEF Earlier, Fits
  <2>2. QED
    BY <1>1, <2>1, EarlierEdges
<1>5. \A i \in S : i \in Nat
  BY <1>1 DEF Fits
<1> HIDE DEF S, c
<1>6. \A i, j \in S : c(i) = c(j) => i = j
  <2>1. ASSUME NEW i \in S, NEW j \in S, i # j PROVE c(i) # c(j)
    <3>1. i < j \/ j < i
      BY <1>5, <2>1
    <3>2. c(i) \in Nat /\ c(j) \in Nat
      BY <1>3
    <3>3. QED
      BY <1>4, <3>1, <3>2
  <2>2. QED
    BY <2>1
<1>7. f \in Injection(S, T)
  <2>1. \A j \in S : c(j) \in T
    BY <1>2, <1>3
  <2>2. QED
    BY <1>6, <2>1 DEF Injection, IsInjective
<1>8. IsFiniteSet(T) /\ Cardinality(T) = n
  <2>1. 0 \in Int /\ n - 1 \in Int /\ (0 > n - 1 => n = 0) /\ (n - 1) - 0 + 1 = n
    BY <1>2
  <2>2. QED
    BY <2>1, FS_Interval
<1>9. f \in Surjection(S, T)
  BY <1>7, <1>8, FS_Injection DEF S
<1>10. \A m \in T : \E j \in S : c(j) = m
  BY <1>9 DEF Surjection
<1> DEFINE order == [k \in 1 .. n |-> CHOOSE j \in S : c(j) = k - 1]
<1>11. \A k \in 1 .. n : order[k] \in S /\ c(order[k]) = k - 1
  <2>1. ASSUME NEW k \in 1 .. n PROVE \E j \in S : c(j) = k - 1
    <3>1. k - 1 \in T
      BY <1>2
    <3>2. QED
      BY <1>10, <3>1
  <2>2. QED
    BY <2>1
<1>12. order \in [1 .. n -> DOMAIN edges]
  BY <1>1, <1>11
<1>13. DOMAIN order = 1 .. n
  OBVIOUS
<1> HIDE DEF order
<1>14. \A j \in S : \E k \in 1 .. n : order[k] = j
  <2>1. ASSUME NEW j \in S PROVE \E k \in 1 .. n : order[k] = j
    <3>1. c(j) + 1 \in 1 .. n /\ (c(j) + 1) - 1 = c(j)
      BY <1>2, <1>3
    <3>2. order[c(j) + 1] = j
      BY <1>6, <1>11, <3>1
    <3>3. QED
      BY <3>1, <3>2
  <2>2. QED
    BY <2>1
<1>15. {order[k] : k \in DOMAIN order} = S
  BY <1>11, <1>13, <1>14
<1>16. ASSUME NEW m \in 1 .. n, NEW k \in 1 .. n, m < k
       PROVE  order[m] < order[k]
  <2>1. order[m] \in S /\ order[k] \in S /\ c(order[m]) = m - 1 /\ c(order[k]) = k - 1
    BY <1>11
  <2>2. order[m] \in Nat /\ order[k] \in Nat /\ m \in Nat /\ k \in Nat
    BY <1>2, <1>5, <2>1
  <2>3. order[m] # order[k]
    BY <1>16, <2>1, <2>2
  <2>4. ~(order[k] < order[m])
    BY <1>4, <1>16, <2>1, <2>2
  <2>5. QED
    BY <2>2, <2>3, <2>4
<1>17. Lists(order, S)
  BY <1>13, <1>15, <1>16 DEF Lists
<1>18. QED
  BY <1>11, <1>12, <1>17 DEF S, c

LEMMA ExactInverse ==
  ASSUME NEW n \in Nat, n > 0 => Scale % n = 0
  PROVE  OneOver(n) * (IF n = 0 THEN 1 ELSE n) = Scale
<1>1. Scale \in Nat
  BY Constants
<1>2. CASE n = 0
  BY <1>1, <1>2 DEF OneOver
<1>3. CASE n # 0
  <2>1. n \in Nat \ {0} /\ Scale % n = 0
    BY <1>3
  <2>2. Scale = (Scale \div n) * n
    BY <1>1, <2>1
  <2>3. QED
    BY <1>3, <2>2 DEF OneOver
<1>4. QED
  BY <1>2, <1>3

LEMMA HoldingRepresents ==
  ASSUME NEW input \in Inputs, NEW memory, Holding(memory, Edges(input))
  PROVE  Represents(memory, Edges(input))
<1> DEFINE edges == Edges(input)
           count == CountOf(edges)
<1>1. Fits(edges)
  BY InputsAreFit
<1>2. \A v \in 0 .. (count - 1) :
        Cardinality(From(edges, v)) > 0 => Scale % Cardinality(From(edges, v)) = 0
  BY InputsFit DEF From
<1>3. count \in Nat /\ memory[VerticesCnt] = count
  BY <1>1 DEF Fits, Holding
<1> HIDE DEF edges
<1>4. ASSUME NEW v \in 0 .. (count - 1)
      PROVE  LET neighbors == NeighborsIn(memory, v)
             IN /\ \E order \in [DOMAIN neighbors -> DOMAIN edges] :
                     /\ Lists(order, To(edges, v))
                     /\ \A n \in DOMAIN order : neighbors[n] = edges[order[n]].src
                /\ memory[Vertex(v, OUTDEGREE)]
                     * (IF From(edges, v) = {} THEN 1 ELSE Cardinality(From(edges, v))) = Scale
  <2> DEFINE n == Cardinality(To(edges, v))
             b == Cardinality(Below(edges, v))
             out == Cardinality(From(edges, v))
             neighbors == NeighborsIn(memory, v)
  <2>1. /\ memory[Vertex(v, INDEGREE)] = n
        /\ memory[Vertex(v, OUTDEGREE)] = OneOver(out)
        /\ memory[Vertex(v, IN_NEIGHBORS)] = b
        /\ \A j \in DOMAIN edges : memory[Neighbor(Place(edges, j))] = edges[j].src
    BY DEF Holding, edges
  <2>2. neighbors = [k \in 1 .. n |-> memory[Neighbor(b + k - 1)]]
    BY <2>1 DEF NeighborsIn
  <2>3. v \in Nat /\ n \in Nat /\ b \in Nat
    BY <1>1, <1>3, BelowNext
  <2>4. PICK order \in [1 .. n -> DOMAIN edges] :
          /\ Lists(order, To(edges, v))
          /\ \A k \in 1 .. n : /\ order[k] \in To(edges, v)
                               /\ Cardinality(Earlier(edges, order[k])) = k - 1
    BY <1>1, <2>3, InOrder
  <2> HIDE DEF n, b, neighbors
  <2>5. ASSUME NEW k \in 1 .. n
        PROVE  neighbors[k] = edges[order[k]].src
    <3>1. edges[order[k]].dst = v /\ order[k] \in DOMAIN edges
      BY <2>4 DEF To
    <3>2. Place(edges, order[k]) = b + (k - 1)
      BY <2>4, <3>1 DEF Place, b
    <3>3. b + (k - 1) = b + k - 1
      BY <2>3
    <3>4. QED
      BY <2>1, <2>2, <3>1, <3>2, <3>3
  <2>6. DOMAIN neighbors = 1 .. n /\ DOMAIN order = 1 .. n
    BY <2>2, <2>4
  <2>7. \E p \in [DOMAIN neighbors -> DOMAIN edges] :
          /\ Lists(p, To(edges, v))
          /\ \A k \in DOMAIN p : neighbors[k] = edges[p[k]].src
    BY <2>4, <2>5, <2>6
  <2>8. out \in Nat /\ (out = 0 <=> From(edges, v) = {})
    <3>1. From(edges, v) \in SUBSET DOMAIN edges
      BY DEF From
    <3>2. IsFiniteSet(From(edges, v)) /\ out \in Nat
      BY <1>1, <3>1, EdgeSets
    <3>3. QED
      BY <3>2, FS_EmptySet
  <2>9. OneOver(out) * (IF out = 0 THEN 1 ELSE out) = Scale
    BY <1>2, <2>8, ExactInverse
  <2>10. memory[Vertex(v, OUTDEGREE)]
           * (IF From(edges, v) = {} THEN 1 ELSE Cardinality(From(edges, v))) = Scale
    BY <2>1, <2>8, <2>9
  <2>11. QED
    BY <2>7, <2>10 DEF neighbors
<1>5. Represents(memory, edges)
  BY <1>3, <1>4 DEF Represents, To, From
<1>6. QED
  BY <1>5 DEF edges

-----------------------------------------------------------------------------
(* Where the variables lie, and how the vertices are divided into parts.   *)

LEMMA Places ==
  /\ \A l \in GraphLocations : l[1] = "vertices" \/ l[1] = "in_neighbors"
  /\ \A id : Status(id)[1] = "task_status"
  /\ \A id, o : Partition(id, o)[1] = "partitions"
  /\ Iter[1] = "iter" /\ Count[1] = "vertices_cnt"
  /\ \A id \in Ids : Status(id) \in Locations
  /\ \A id \in Ids, o \in BEGIN .. IN_END : Partition(id, o) \in Locations
  /\ Iter \in Locations /\ Count \in Locations
  BY DEF GraphLocations, Neighbor, Status, Partition, Iter, Count, Locations

LEMMA IdsFacts == \A id \in Ids : id \in Nat /\ id < Len(cnt)
  BY Constants DEF Ids

\* The status of each task has a page for itself.
LEMMA StatusPages ==
  ASSUME NEW id \in Ids
  PROVE  /\ PageOf(Status(id)) = <<"task_status", id>>
         /\ PagesOf({Status(id)}) = {<<"task_status", id>>}
         /\ \A other \in Ids : Status(other) = Status(id) => other = id
<1>1. \A i \in Ids : (i * N_LONG_PAGE) \div N_LONG_PAGE = i
  BY IdsFacts, Constants
<1>2. \A i \in Ids : PageOf(Status(i)) = <<"task_status", i>>
  BY <1>1 DEF PageOf, Status
<1>3. \A other \in Ids : Status(other) = Status(id) => other = id
  <2>1. ASSUME NEW other \in Ids, Status(other) = Status(id) PROVE other = id
    <3>1. <<"task_status", other>> = <<"task_status", id>>
      BY <1>2, <2>1
    <3>2. QED
      BY <3>1
  <2>2. QED
    BY <2>1
<1>4. QED
  BY <1>2, <1>3 DEF PagesOf

LEMMA IterPage == PagesOf({Iter}) = {PageOf(Iter)} /\ PageOf(Iter)[1] = "iter"
  BY DEF PagesOf, PageOf, Iter

LEMMA LoadedFacts ==
  ASSUME in \in Inputs
  PROVE  /\ DOMAIN Loaded = Locations
         /\ Loaded = [l \in Locations |-> Loaded[l]]
         /\ \A l \in Locations : Loaded[l] \in Nat
         /\ \A l \in Locations \ GraphLocations : Loaded[l] = 0
         /\ Holding(Loaded, Edges(in))
<1> DEFINE g == GraphOf(Edges(in), Blank)
<1>1. Fits(Edges(in))
  BY InputsAreFit
<1>2. /\ DOMAIN g \subseteq GraphLocations
      /\ \A l \in DOMAIN g : g[l] \in Nat
      /\ Holding(Over(g, Blank), Edges(in))
  BY <1>1, GraphFacts
<1>3. Loaded = Over(g, Blank)
  BY DEF Loaded
<1> HIDE DEF g
<1>4. /\ DOMAIN Blank = Locations
      /\ \A l \in Locations : Blank[l] = 0
      /\ GraphLocations \subseteq Locations
  BY BlankFacts
<1>5. DOMAIN Loaded = DOMAIN g \cup DOMAIN Blank
  BY <1>3, OverDomain
<1>6. DOMAIN Loaded = Locations
  BY <1>2, <1>4, <1>5
<1>7. \A l \in DOMAIN g : Loaded[l] = g[l]
  BY <1>3, OverNew
<1>8. \A l \in Locations : l \notin DOMAIN g => Loaded[l] = 0
  <2>1. \A l \in DOMAIN Blank : l \notin DOMAIN g => Loaded[l] = Blank[l]
    BY <1>3, OverOld
  <2>2. QED
    BY <1>4, <2>1
<1>9. \A l \in Locations : Loaded[l] \in Nat
  BY <1>2, <1>7, <1>8
<1>10. Loaded = [l \in Locations |-> Loaded[l]]
  <2>1. Loaded = [l \in DOMAIN g \cup DOMAIN Blank |-> Loaded[l]]
    BY <1>3 DEF Over
  <2>2. QED
    BY <1>5, <1>6, <2>1
<1>11. QED
  BY <1>2, <1>3, <1>6, <1>8, <1>9, <1>10

\* cur in build_partitions: where the parts begin.
Cur == Accumulated(cnt)

LEMMA CurFacts ==
  ASSUME NEW input \in Inputs
  PROVE  /\ \A id \in Ids : /\ Cur[id] \in Nat /\ Cur[id + 1] \in Nat
                            /\ Cur[id] < Cur[id + 1]
                            /\ Cur[id + 1] <= CountOf(Edges(input))
         /\ \A id, other \in Ids : id < other => Cur[id + 1] <= Cur[other]
<1> DEFINE n == Len(cnt)
<1>1. n \in Nat \ {0} /\ \A k \in 1 .. n : cnt[k] \in Nat \ {0}
  BY Constants
<1>2. \A k \in 0 .. n : k # 0 => Cur[k] = Cur[k - 1] + cnt[k]
  BY <1>1, TotalsAre DEF Cur
<1>3. /\ \A k \in 0 .. n : Cur[k] \in Nat
      /\ \A a, b \in 0 .. n : a <= b => Cur[a] <= Cur[b]
  BY <1>1, TotalsGrow DEF Cur
<1>4. Cur[n] = CountOf(Edges(input))
  BY PartitionsFit DEF Cur
<1> HIDE DEF n
<1>5. \A id \in Ids : /\ id \in 0 .. n /\ id + 1 \in 0 .. n /\ id + 1 \in 1 .. n
                      /\ id + 1 # 0 /\ (id + 1) - 1 = id /\ id + 1 <= n /\ n \in 0 .. n
  BY <1>1 DEF Ids, n
<1>6. ASSUME NEW id \in Ids
      PROVE  /\ Cur[id] \in Nat /\ Cur[id + 1] \in Nat
             /\ Cur[id] < Cur[id + 1]
             /\ Cur[id + 1] <= CountOf(Edges(input))
  <2>1. Cur[id] \in Nat /\ Cur[id + 1] \in Nat
    BY <1>3, <1>5
  <2>2. Cur[id + 1] = Cur[id] + cnt[id + 1] /\ cnt[id + 1] \in Nat \ {0}
    BY <1>1, <1>2, <1>5
  <2>3. Cur[id + 1] <= Cur[n]
    BY <1>3, <1>5
  <2>4. QED
    BY <1>4, <2>1, <2>2, <2>3
<1>7. ASSUME NEW id \in Ids, NEW other \in Ids, id < other
      PROVE  Cur[id + 1] <= Cur[other]
  <2>1. id + 1 <= other
    BY <1>7, IdsFacts
  <2>2. QED
    BY <1>3, <1>5, <2>1
<1>8. QED
  BY <1>6, <1>7

LEMMA TwoPairs ==
  ASSUME NEW a, NEW b, NEW c, NEW d
  PROVE  <<a, b>> \o <<c, d>> = <<a, b, c, d>>
<1> DEFINE S == {a, b, c, d}
           s == <<a, b>> \o <<c, d>>
<1>1. <<a, b>> \in Seq(S) /\ <<c, d>> \in Seq(S) /\ <<a, b, c, d>> \in Seq(S)
  OBVIOUS
<1>2. Len(<<a, b>>) = 2 /\ Len(<<c, d>>) = 2 /\ Len(<<a, b, c, d>>) = 4
  OBVIOUS
<1>3. /\ s \in Seq(S) /\ Len(s) = 4
      /\ \A i \in 1 .. 4 : s[i] = IF i <= 2 THEN <<a, b>>[i] ELSE <<c, d>>[i - 2]
  BY <1>1, <1>2, ConcatProperties
<1> HIDE DEF s
<1>4. \A i \in 1 .. 4 : s[i] = <<a, b, c, d>>[i]
  BY <1>3
<1>5. s = <<a, b, c, d>>
  BY <1>1, <1>2, <1>3, <1>4, SeqEqual
<1>6. QED
  BY <1>5 DEF s

LEMMA PartitionIndex ==
  ASSUME NEW id \in Ids, NEW o \in BEGIN .. IN_END
  PROVE  /\ Partition(id, o)[2] \div 4 = id /\ Partition(id, o)[2] % 4 = o
         /\ o \in {0, 1, 2, 3}
<1>1. id \in Nat /\ o \in 0 .. 3
  BY IdsFacts DEF BEGIN, IN_END
<1>2. (id * 4 + o) \div 4 = id /\ (id * 4 + o) % 4 = o
  BY <1>1
<1>3. QED
  BY <1>1, <1>2 DEF Partition

\* What memory says of the parts.
Divided(memory, edges) ==
  \A id \in Ids :
    /\ memory[Partition(id, BEGIN)] = Cur[id]
    /\ memory[Partition(id, END)] = Cur[id + 1]
    /\ memory[Partition(id, IN_BEGIN)] = Cardinality(Below(edges, Cur[id]))
    /\ memory[Partition(id, IN_END)] = Cardinality(Below(edges, Cur[id + 1]))

LEMMA PartitionsFacts ==
  ASSUME in \in Inputs
  PROVE  LET p == BuildPartitions(Loaded) IN
         /\ DOMAIN p = {Partition(id, o) : id \in Ids, o \in BEGIN .. IN_END}
         /\ \A id \in Ids, o \in BEGIN .. IN_END : p[Partition(id, o)] \in Nat
         /\ Divided(p, Edges(in))
<1> DEFINE edges == Edges(in)
           p == BuildPartitions(Loaded)
           Ins(id) == InNeighborsRange(Loaded, Cur[id], Cur[id + 1])
           Entries(id) == << Cur[id], Cur[id + 1] >> \o Ins(id)
<1>1. p = [l \in {Partition(id, o) : id \in Ids, o \in BEGIN .. IN_END} |->
             Entries(l[2] \div 4)[(l[2] % 4) + 1]]
  BY DEF BuildPartitions, Cur
<1>2. Fits(edges)
  BY InputsAreFit
<1>3. ASSUME NEW id \in Ids
      PROVE  /\ Ins(id) = << Cardinality(Below(edges, Cur[id])),
                               Cardinality(Below(edges, Cur[id + 1])) >>
             /\ Cardinality(Below(edges, Cur[id])) \in Nat
             /\ Cardinality(Below(edges, Cur[id + 1])) \in Nat
             /\ Cur[id] \in Nat /\ Cur[id + 1] \in Nat
  <2> DEFINE last == Cur[id + 1] - 1
  <2>1. /\ Cur[id] \in Nat /\ Cur[id + 1] \in Nat /\ Cur[id] < Cur[id + 1]
        /\ Cur[id + 1] <= CountOf(edges)
    BY CurFacts
  <2>2. CountOf(edges) \in Nat
    BY <1>2 DEF Fits
  <2>3. /\ last \in Nat /\ last \in 0 .. (CountOf(edges) - 1) /\ last + 1 = Cur[id + 1]
        /\ Cur[id] \in 0 .. (CountOf(edges) - 1)
    BY <2>1, <2>2
  <2>4. Holding(Loaded, edges)
    BY LoadedFacts
  <2> HIDE DEF edges
  <2>5. /\ Loaded[Vertex(Cur[id], IN_NEIGHBORS)] = Cardinality(Below(edges, Cur[id]))
        /\ Loaded[Vertex(last, IN_NEIGHBORS)] = Cardinality(Below(edges, last))
        /\ Loaded[Vertex(last, INDEGREE)] = Cardinality(To(edges, last))
    BY <2>3, <2>4 DEF Holding
  <2>6. Cardinality(Below(edges, Cur[id + 1]))
          = Cardinality(Below(edges, last)) + Cardinality(To(edges, last))
    BY <1>2, <2>3, BelowNext
  <2>7. Cardinality(Below(edges, Cur[id])) \in Nat
         /\ Cardinality(Below(edges, Cur[id + 1])) \in Nat
    BY <1>2, <2>1, BelowNext
  <2>8. QED
    BY <2>1, <2>5, <2>6, <2>7 DEF InNeighborsRange
<1>4. ASSUME NEW id \in Ids
      PROVE  Entries(id) = << Cur[id], Cur[id + 1], Cardinality(Below(edges, Cur[id])),
                              Cardinality(Below(edges, Cur[id + 1])) >>
  <2> DEFINE a == Cur[id]
             b == Cur[id + 1]
             c == Cardinality(Below(edges, Cur[id]))
             d == Cardinality(Below(edges, Cur[id + 1]))
  <2>1. Ins(id) = <<c, d>>
    BY <1>3
  <2> HIDE DEF a, b, c, d
  <2>2. <<a, b>> \o <<c, d>> = <<a, b, c, d>>
    BY TwoPairs
  <2>3. QED
    BY <2>1, <2>2 DEF a, b, c, d
<1> HIDE DEF Entries, p, edges
<1>5. ASSUME NEW id \in Ids, NEW o \in BEGIN .. IN_END
      PROVE  p[Partition(id, o)] = Entries(id)[o + 1]
  <2>1. Partition(id, o) \in {Partition(i, q) : i \in Ids, q \in BEGIN .. IN_END}
    OBVIOUS
  <2>2. QED
    BY <1>1, <2>1, PartitionIndex
<1>6. /\ BEGIN = 0 /\ END = 1 /\ IN_BEGIN = 2 /\ IN_END = 3
      /\ BEGIN \in BEGIN .. IN_END /\ END \in BEGIN .. IN_END
      /\ IN_BEGIN \in BEGIN .. IN_END /\ IN_END \in BEGIN .. IN_END
  BY DEF BEGIN, END, IN_BEGIN, IN_END
<1>7. ASSUME NEW id \in Ids
      PROVE  /\ p[Partition(id, BEGIN)] = Cur[id]
             /\ p[Partition(id, END)] = Cur[id + 1]
             /\ p[Partition(id, IN_BEGIN)] = Cardinality(Below(edges, Cur[id]))
             /\ p[Partition(id, IN_END)] = Cardinality(Below(edges, Cur[id + 1]))
  <2>1. /\ p[Partition(id, BEGIN)] = Entries(id)[0 + 1]
        /\ p[Partition(id, END)] = Entries(id)[1 + 1]
        /\ p[Partition(id, IN_BEGIN)] = Entries(id)[2 + 1]
        /\ p[Partition(id, IN_END)] = Entries(id)[3 + 1]
    BY <1>5, <1>6
  <2>2. QED
    BY <1>4, <2>1
<1>8. Divided(p, edges)
  BY <1>7 DEF Divided
<1>9. ASSUME NEW id \in Ids, NEW o \in BEGIN .. IN_END
      PROVE  p[Partition(id, o)] \in Nat
  <2>1. o \in {BEGIN, END, IN_BEGIN, IN_END}
    BY <1>6, PartitionIndex
  <2>2. /\ p[Partition(id, BEGIN)] \in Nat /\ p[Partition(id, END)] \in Nat
        /\ p[Partition(id, IN_BEGIN)] \in Nat /\ p[Partition(id, IN_END)] \in Nat
    BY <1>3, <1>7 DEF edges
  <2>3. QED
    BY <2>1, <2>2
<1>10. DOMAIN p = {Partition(id, o) : id \in Ids, o \in BEGIN .. IN_END}
  BY <1>1
<1>11. QED
  BY <1>8, <1>9, <1>10 DEF p, edges

-----------------------------------------------------------------------------
(* What the invariant says of memory while iterations run.                 *)

LEMMA WordsFit ==
  ASSUME NEW edges, Fits(edges), NEW v \in 0 .. (CountOf(edges) - 1)
  PROVE  /\ v \in Nat
         /\ Vertex(v, INDEGREE) \in GraphLocations
         /\ Vertex(v, OUTDEGREE) \in GraphLocations
         /\ Vertex(v, IN_NEIGHBORS) \in GraphLocations
<1>1. v \in Nat /\ v < VERTICES_MAX_CNT
  BY Constants DEF Fits
<1>2. INDEGREE \in Words /\ OUTDEGREE \in Words /\ IN_NEIGHBORS \in Words
  BY DEF Words
<1>3. QED
  BY <1>1, <1>2, VertexWords

LEMMA KeptFacts ==
  ASSUME in \in Inputs, GraphKept
  PROVE  /\ DOMAIN heap = Locations
         /\ \A l \in Locations : heap[l] \in Nat
         /\ Holding(heap, Edges(in)) /\ Divided(heap, Edges(in))
         /\ \A id \in Ids : VerticesOf(heap, id) = Cur[id] .. (Cur[id + 1] - 1)
<1> DEFINE edges == Edges(in)
<1>1. Fits(edges)
  BY InputsAreFit
<1>2. /\ heap = [l \in Locations |-> heap[l]]
      /\ \A l \in GraphLocations : heap[l] = Loaded[l]
      /\ \A id \in Ids, o \in BEGIN .. IN_END :
           heap[Partition(id, o)] = BuildPartitions(Loaded)[Partition(id, o)]
      /\ heap[Count] = CountOf(edges) /\ heap[Iter] \in Nat
      /\ \A id \in Ids : heap[Status(id)] \in Nat
  <2>1. /\ heap = [l \in Locations |-> heap[l]]
        /\ \A l \in GraphLocations : heap[l] = Loaded[l]
        /\ \A id \in Ids, o \in BEGIN .. IN_END :
             heap[Partition(id, o)] = BuildPartitions(Loaded)[Partition(id, o)]
        /\ heap[Count] = CountOf(edges)
        /\ heap[Iter] \in 0 .. (MAX_ITER + 1)
        /\ \A id \in Ids : heap[Status(id)] \in {TASK_STATUS_CREATED, TASK_STATUS_FINISHED}
    BY DEF GraphKept
  <2>2. heap[Iter] \in Nat
    BY <2>1, Constants
  <2>3. TASK_STATUS_CREATED \in Nat /\ TASK_STATUS_FINISHED \in Nat
    BY DEF TASK_STATUS_CREATED, TASK_STATUS_FINISHED
  <2>4. \A id \in Ids : heap[Status(id)] \in Nat
    BY <2>1, <2>3
  <2>5. QED
    BY <2>1, <2>2, <2>4
<1>3. /\ \A l \in Locations : Loaded[l] \in Nat
      /\ GraphLocations \subseteq Locations
      /\ Holding(Loaded, edges)
  BY LoadedFacts, BlankFacts
<1>4. /\ \A id \in Ids, o \in BEGIN .. IN_END : BuildPartitions(Loaded)[Partition(id, o)] \in Nat
      /\ Divided(BuildPartitions(Loaded), edges)
  BY PartitionsFacts
<1> HIDE DEF edges
<1>5. DOMAIN heap = Locations
  BY <1>2
<1>6. ASSUME NEW l \in Locations PROVE heap[l] \in Nat
  <2>1. CASE l \in GraphLocations
    BY <1>2, <1>3, <2>1
  <2>2. CASE \E id \in Ids : l = Status(id)
    BY <1>2, <2>2
  <2>3. CASE l = Iter \/ l = Count
    BY <1>1, <1>2, <2>3 DEF Fits
  <2>4. CASE \E id \in Ids, o \in BEGIN .. IN_END : l = Partition(id, o)
    BY <1>2, <1>4, <2>4
  <2>5. QED
    BY <2>1, <2>2, <2>3, <2>4 DEF Locations
<1>7. Holding(heap, edges)
  <2>1. VerticesCnt \in GraphLocations
    BY <1>1, GraphFacts
  <2>2. \A j \in DOMAIN edges : Neighbor(Place(edges, j)) \in GraphLocations
    BY <1>1, PlaceFits
  <2>3. \A v \in 0 .. (CountOf(edges) - 1) :
          /\ Vertex(v, INDEGREE) \in GraphLocations
          /\ Vertex(v, OUTDEGREE) \in GraphLocations
          /\ Vertex(v, IN_NEIGHBORS) \in GraphLocations
    BY <1>1, WordsFit
  <2>4. QED
    BY <1>2, <1>3, <2>1, <2>2, <2>3 DEF Holding
<1>8. Divided(heap, edges)
  <2>1. /\ BEGIN \in BEGIN .. IN_END /\ END \in BEGIN .. IN_END
        /\ IN_BEGIN \in BEGIN .. IN_END /\ IN_END \in BEGIN .. IN_END
    BY DEF BEGIN, END, IN_BEGIN, IN_END
  <2>2. QED
    BY <1>2, <1>4, <2>1 DEF Divided
<1>9. \A id \in Ids : VerticesOf(heap, id) = Cur[id] .. (Cur[id + 1] - 1)
  BY <1>8 DEF Divided, VerticesOf
<1>10. QED
  BY <1>5, <1>6, <1>7, <1>8, <1>9 DEF edges

\* Parts have no vertex in common, and only vertices that are counted.
LEMMA PartsFacts ==
  ASSUME in \in Inputs, GraphKept, NEW id \in Ids
  PROVE  /\ VerticesOf(heap, id) \subseteq Counted
         /\ \A other \in Ids :
              VerticesOf(heap, id) \cap VerticesOf(heap, other) # {} => other = id
<1>1. \A i \in Ids : VerticesOf(heap, i) = Cur[i] .. (Cur[i + 1] - 1)
  BY KeptFacts
<1>2. \A i \in Ids : /\ Cur[i] \in Nat /\ Cur[i + 1] \in Nat
                     /\ Cur[i + 1] <= CountOf(Edges(in))
  BY CurFacts
<1>3. CountOf(Edges(in)) \in Nat
  BY InputsAreFit DEF Fits
<1>4. VerticesOf(heap, id) \subseteq Counted
  BY <1>1, <1>2, <1>3 DEF Counted
<1>5. ASSUME NEW a \in Ids, NEW b \in Ids, a < b
      PROVE  VerticesOf(heap, a) \cap VerticesOf(heap, b) = {}
  <2>1. Cur[a + 1] <= Cur[b]
    BY <1>5, CurFacts
  <2>2. QED
    BY <1>1, <1>2, <2>1
<1>6. ASSUME NEW other \in Ids, VerticesOf(heap, id) \cap VerticesOf(heap, other) # {}
      PROVE  other = id
  <2>1. ~(other < id) /\ ~(id < other)
    BY <1>5, <1>6
  <2>2. QED
    BY <2>1, IdsFacts
<1>7. QED
  BY <1>4, <1>6

\* A space copies all that its task reads of the graph.
LEMMA CopyHolds ==
  ASSUME in \in Inputs, GraphKept, NEW id \in Ids, NEW v \in VerticesOf(heap, id),
         NEW l \in Range(NeighborsOf(heap, v))
                     \cup {Vertex(v, o) : o \in {INDEGREE, OUTDEGREE, IN_NEIGHBORS}}
  PROVE  l \in Copied(heap, id) /\ l \in DOMAIN heap
<1> DEFINE edges == Edges(in)
           B(w) == Cardinality(Below(edges, w))
<1>1. Fits(edges)
  BY InputsAreFit
<1>2. /\ DOMAIN heap = Locations
      /\ Holding(heap, edges) /\ Divided(heap, edges)
      /\ GraphLocations \subseteq Locations
  BY KeptFacts, BlankFacts
<1> HIDE DEF edges
<1>5. /\ Cur[id] \in Nat /\ Cur[id + 1] \in Nat /\ Cur[id + 1] <= CountOf(edges)
      /\ CountOf(edges) \in Nat
  BY <1>1, CurFacts DEF edges, Fits
<1>6. /\ v \in Cur[id] .. (Cur[id + 1] - 1) /\ v \in Nat /\ Cur[id] <= v
      /\ v + 1 \in Nat /\ v + 1 <= Cur[id + 1] /\ v \in 0 .. (CountOf(edges) - 1)
  <2>1. v \in Cur[id] .. (Cur[id + 1] - 1)
    BY KeptFacts
  <2>2. QED
    BY <1>5, <2>1
<1>7. Copied(heap, id) = {<<"vertices", j>> : j \in (1 + 3 * Cur[id]) .. (3 + 3 * Cur[id + 1])}
                           \cup {Neighbor(j) : j \in B(Cur[id]) .. B(Cur[id + 1])}
  <2>1. /\ Vertex(Cur[id], INDEGREE) = <<"vertices", 1 + 3 * Cur[id] + 0>>
        /\ Vertex(Cur[id + 1], IN_NEIGHBORS) = <<"vertices", 1 + 3 * Cur[id + 1] + 2>>
    BY DEF Vertex, VERTEX_SIZE, INDEGREE, IN_NEIGHBORS
  <2>2. /\ 1 + 3 * Cur[id] + 0 = 1 + 3 * Cur[id]
        /\ 1 + 3 * Cur[id + 1] + 2 = 3 + 3 * Cur[id + 1]
    BY <1>5
  <2>3. /\ Vertex(Cur[id], INDEGREE)[2] = 1 + 3 * Cur[id]
        /\ Vertex(Cur[id + 1], IN_NEIGHBORS)[2] = 3 + 3 * Cur[id + 1]
    BY <2>1, <2>2
  <2>4. /\ heap[Partition(id, BEGIN)] = Cur[id]
        /\ heap[Partition(id, END)] = Cur[id + 1]
        /\ heap[Partition(id, IN_BEGIN)] = B(Cur[id])
        /\ heap[Partition(id, IN_END)] = B(Cur[id + 1])
    BY <1>2 DEF Divided
  <2>5. QED
    BY <2>3, <2>4 DEF Copied
<1>8. /\ Vertex(v, INDEGREE) \in GraphLocations
      /\ Vertex(v, OUTDEGREE) \in GraphLocations
      /\ Vertex(v, IN_NEIGHBORS) \in GraphLocations
  BY <1>1, <1>6, WordsFit
<1>9. l \in Copied(heap, id) /\ l \in GraphLocations
  <2>1. CASE l \in {Vertex(v, o) : o \in Words}
    <3>1. PICK o \in Words : l = Vertex(v, o)
      BY <2>1
    <3>2. l = <<"vertices", 1 + 3 * v + o>> /\ o \in 0 .. 2
      BY <1>6, <3>1, VertexWords
    <3>3. 1 + 3 * v + o \in (1 + 3 * Cur[id]) .. (3 + 3 * Cur[id + 1])
      BY <1>5, <1>6, <3>2
    <3>4. l \in GraphLocations
      BY <1>8, <3>1 DEF Words
    <3>5. QED
      BY <1>7, <3>2, <3>3, <3>4
  <2>2. CASE l \in Range(NeighborsOf(heap, v))
    <3>1. /\ Read(heap, Vertex(v, IN_NEIGHBORS)) = B(v)
          /\ Read(heap, Vertex(v, INDEGREE)) = Cardinality(To(edges, v))
      BY <1>2, <1>6, <1>8 DEF Read, Holding
    <3>2. NeighborsOf(heap, v)
            = [j \in 1 .. Cardinality(To(edges, v)) |-> Neighbor(B(v) + j - 1)]
      BY <3>1 DEF NeighborsOf
    <3>3. PICK j \in 1 .. Cardinality(To(edges, v)) : l = Neighbor(B(v) + j - 1)
      BY <2>2, <3>2 DEF Range
    <3>4. /\ B(v) \in Nat /\ Cardinality(To(edges, v)) \in Nat
          /\ B(v + 1) = B(v) + Cardinality(To(edges, v)) /\ B(v + 1) \in Nat
          /\ B(Cur[id]) \in Nat /\ B(Cur[id + 1]) \in Nat
      BY <1>1, <1>5, <1>6, BelowNext
    <3>5. /\ B(Cur[id]) <= B(v) /\ B(v + 1) <= B(Cur[id + 1])
          /\ B(Cur[id + 1]) <= Len(edges)
      BY <1>1, <1>5, <1>6, BelowGrows
    <3>6. Len(edges) \in Nat /\ Len(edges) <= IN_NEIGHBORS_MAX_LEN /\ IN_NEIGHBORS_MAX_LEN \in Nat
      BY <1>1, Constants DEF Fits
    <3> HIDE DEF B
    <3>7. /\ B(v) + j - 1 \in B(Cur[id]) .. B(Cur[id + 1])
          /\ B(v) + j - 1 \in 0 .. (IN_NEIGHBORS_MAX_LEN - 1)
      BY <3>3, <3>4, <3>5, <3>6
    <3>8. l \in GraphLocations
      BY <3>3, <3>7 DEF GraphLocations
    <3>9. QED
      BY <1>7, <3>3, <3>7, <3>8
  <2>3. QED
    BY <2>1, <2>2 DEF Words
<1>10. QED
  BY <1>2, <1>9

\* What a space has copied is all that its task reads of the graph.
LEMMA CopiesSuffice ==
  ASSUME in \in Inputs, GraphKept, CopiesKept
  PROVE  CacheSuffices
<1>1. SUFFICES ASSUME NEW id \in Ids, sticky[id] # <<>>,
                      NEW v \in VerticesOf(heap, id),
                      NEW l \in Range(NeighborsOf(heap, v))
                        \cup {Vertex(v, o) : o \in {INDEGREE, OUTDEGREE, IN_NEIGHBORS}}
               PROVE  l \in DOMAIN sticky[id] /\ sticky[id][l] = heap[l]
  BY DEF CacheSuffices
<1>2. sticky[id] = [m \in Copied(heap, id) |-> Read(heap, m)]
  BY <1>1 DEF CopiesKept
<1>3. l \in Copied(heap, id) /\ l \in DOMAIN heap
  BY CopyHolds
<1>4. QED
  BY <1>2, <1>3 DEF Read

\* order lists the edges to v; short has a value for each of them in that order, long
\* for all edges, 0 for those that go elsewhere.
ListsTo(order, edges, v, n) ==
  /\ n = Cardinality(To(edges, v))
  /\ \A k \in 1 .. n : order[k] \in To(edges, v) /\ Cardinality(Earlier(edges, order[k])) = k - 1
Gathers(short, long, val, order, edges, v, n) ==
  /\ \A j \in DOMAIN edges : val[j] \in Nat
  /\ Len(short) = n /\ \A k \in 1 .. n : short[k] = val[order[k]]
  /\ Len(long) = Len(edges)
  /\ \A j \in 1 .. Len(edges) : long[j] = IF edges[j].dst = v THEN val[j] ELSE 0

\* The total along the list of the edges to v is that over all edges.
LEMMA ListedTotal ==
  ASSUME NEW edges, Fits(edges), NEW v \in Nat, NEW n, NEW order, ListsTo(order, edges, v, n),
         NEW val, NEW short, NEW long, Gathers(short, long, val, order, edges, v, n)
  PROVE  Total(short) = Total(long) /\ Total(short) \in Nat
<1> DEFINE R == Accumulated(short)
           S == Accumulated(long)
           len == Len(edges)
           Upto(m) == {h \in 1 .. m : edges[h].dst = v}
           c(m) == Cardinality(Upto(m))
<1>0. /\ n = Cardinality(To(edges, v)) /\ \A j \in DOMAIN edges : val[j] \in Nat
      /\ \A k \in 1 .. n : order[k] \in To(edges, v)
      /\ \A k \in 1 .. n : Cardinality(Earlier(edges, order[k])) = k - 1
  BY DEF ListsTo, Gathers
<1>1. /\ DOMAIN edges = 1 .. len /\ len \in Nat
      /\ To(edges, v) = Upto(len) /\ n \in Nat
  <2>1. To(edges, v) \in SUBSET DOMAIN edges
    BY DEF To
  <2>2. QED
    BY <1>0, <2>1, EdgeSets DEF Fits, To
<1>2. Len(short) = n /\ Len(long) = len /\ \A k \in 1 .. n : short[k] \in Nat
  <2>1. \A k \in 1 .. n : order[k] \in DOMAIN edges /\ val[order[k]] \in Nat
    BY <1>0 DEF To
  <2>2. QED
    BY <2>1 DEF Gathers
<1>3. /\ \A k \in 1 .. n : short[k] = val[order[k]]
      /\ \A j \in 1 .. len : long[j] = IF edges[j].dst = v THEN val[j] ELSE 0
  BY DEF Gathers
<1>4. Total(short) = R[n] /\ Total(long) = S[len]
  BY <1>2 DEF Total
<1>5. /\ R[0] = 0 /\ \A k \in 0 .. n : k # 0 => R[k] = R[k - 1] + short[k]
      /\ \A k \in 0 .. n : R[k] \in Nat
  BY <1>1, <1>2, TotalsAre, TotalsGrow
<1>6. S[0] = 0 /\ \A k \in 0 .. len : k # 0 => S[k] = S[k - 1] + long[k]
  BY <1>1, <1>2, TotalsAre
<1> HIDE DEF R, S
<1>7. ASSUME NEW i \in To(edges, v), NEW j \in To(edges, v),
             Cardinality(Earlier(edges, i)) = Cardinality(Earlier(edges, j))
      PROVE  i = j
  <2>1. /\ i \in DOMAIN edges /\ j \in DOMAIN edges /\ edges[i].dst = v /\ edges[j].dst = v
        /\ i \in Nat /\ j \in Nat /\ 1 <= i /\ 1 <= j
    BY <1>1 DEF To
  <2>2. ASSUME NEW a \in DOMAIN edges, NEW b \in DOMAIN edges, edges[a].dst = v, edges[b].dst = v,
               a \in Nat, b \in Nat, 1 <= a, a < b
        PROVE  Cardinality(Earlier(edges, a)) # Cardinality(Earlier(edges, b))
    <3>1. a \in Earlier(edges, b)
      BY <2>2 DEF Earlier
    <3>2. /\ Cardinality(Earlier(edges, b)) \in Nat
          /\ Cardinality(Earlier(edges, a)) < Cardinality(Earlier(edges, b))
      BY <3>1, EarlierEdges
    <3>3. Cardinality(Earlier(edges, a)) \in Nat
      BY EarlierEdges
    <3>4. QED
      BY <3>2, <3>3
  <2>3. ~(i < j) /\ ~(j < i)
    BY <1>7, <2>1, <2>2
  <2>4. QED
    BY <2>1, <2>3
<1> DEFINE P == {m \in Nat : m <= len => c(m) \in 0 .. n /\ S[m] = R[c(m)]}
<1>8. 0 \in P
  <2>1. Upto(0) = {}
    OBVIOUS
  <2>2. c(0) = 0
    BY <2>1, FS_EmptySet
  <2>3. QED
    BY <1>1, <1>5, <1>6, <2>2
<1>9. ASSUME NEW m \in P PROVE m + 1 \in P
  <2>1. m \in Nat /\ m + 1 \in Nat /\ (m + 1) - 1 = m /\ m + 1 # 0
    OBVIOUS
  <2>2. CASE m + 1 <= len
    <3>1. m <= len /\ m + 1 \in 0 .. len /\ m + 1 \in 1 .. len /\ m + 1 \in DOMAIN edges
      BY <1>1, <2>1, <2>2
    <3>2. c(m) \in 0 .. n /\ S[m] = R[c(m)]
      BY <3>1
    <3>3. S[m + 1] = S[m] + long[m + 1]
      BY <1>6, <2>1, <3>1
    <3>4. CASE edges[m + 1].dst # v
      <4>1. Upto(m + 1) = Upto(m)
        BY <2>1, <3>4
      <4>2. long[m + 1] = 0 /\ S[m] \in Nat
        BY <1>3, <1>5, <3>1, <3>2, <3>4
      <4>3. c(m + 1) = c(m) /\ S[m + 1] = S[m]
        <5>1. c(m + 1) = c(m)
          BY <4>1
        <5>2. QED
          BY <3>3, <4>2, <5>1
      <4>4. QED
        BY <2>1, <3>2, <4>3
    <3>5. CASE edges[m + 1].dst = v
      <4>1. Upto(m + 1) = Upto(m) \cup {m + 1} /\ m + 1 \notin Upto(m)
        <5>1. 1 .. (m + 1) = (1 .. m) \cup {m + 1} /\ m + 1 \notin 1 .. m
          BY <2>1
        <5>2. QED
          BY <3>5, <5>1
      <4>2. Earlier(edges, m + 1) = Upto(m)
        BY <2>1, <3>5 DEF Earlier
      <4>3. c(m) \in Nat /\ c(m) < n
        <5>1. /\ Cardinality(Earlier(edges, m + 1)) \in Nat
              /\ Cardinality(Earlier(edges, m + 1)) < n
          BY <1>0, <3>1, <3>5, EarlierEdges
        <5>2. QED
          BY <4>2, <5>1
      <4>4. IsFiniteSet(Upto(m))
        <5>1. Upto(m) \in SUBSET DOMAIN edges
          BY <1>1, <2>1, <3>1
        <5>2. QED
          BY <5>1, EdgeSets
      <4>5. c(m + 1) = c(m) + 1
        <5> DEFINE T == Upto(m)
        <5>1. T = Upto(m) /\ Upto(m + 1) = T \cup {m + 1}
          BY <4>1
        <5> HIDE DEF T
        <5>2. IsFiniteSet(T) /\ m + 1 \notin T
          BY <4>1, <4>4, <5>1
        <5>3. Cardinality(T \cup {m + 1}) = Cardinality(T) + 1
          BY <5>2, FS_AddElement
        <5>4. QED
          BY <5>1, <5>3
      <4> DEFINE k == c(m) + 1
      <4>6. k \in 1 .. n /\ k \in 0 .. n /\ k # 0 /\ k - 1 = c(m)
        BY <1>1, <4>3
      <4> HIDE DEF c
      <4>7. order[k] = m + 1
        <5>1. m + 1 \in To(edges, v)
          BY <3>1, <3>5 DEF To
        <5>2. Cardinality(Earlier(edges, m + 1)) = k - 1
          BY <4>2, <4>6 DEF c
        <5>3. order[k] \in To(edges, v) /\ Cardinality(Earlier(edges, order[k])) = k - 1
          BY <1>0, <4>6
        <5>4. QED
          BY <1>7, <5>1, <5>2, <5>3
      <4>8. R[k] = R[c(m)] + val[m + 1]
        BY <1>3, <1>5, <4>6, <4>7
      <4>9. S[m + 1] = R[c(m)] + val[m + 1]
        BY <1>3, <3>1, <3>2, <3>3, <3>5
      <4>10. c(m + 1) \in 0 .. n /\ S[m + 1] = R[c(m + 1)]
        BY <4>5, <4>6, <4>8, <4>9
      <4>11. QED
        BY <2>1, <4>10
    <3>6. QED
      BY <3>4, <3>5
  <2>3. QED
    BY <2>1, <2>2
<1>10. P = Nat
  <2> HIDE DEF P
  <2>1. P \in SUBSET Nat
    BY DEF P
  <2>2. QED
    BY <1>8, <1>9, <2>1, EveryNat
<1>11. len <= len /\ c(len) = n
  BY <1>0, <1>1
<1>12. S[len] = R[n] /\ R[n] \in Nat
  <2>1. c(len) \in 0 .. n /\ S[len] = R[c(len)]
    <3>1. len \in P
      BY <1>1, <1>10
    <3>2. QED
      BY <1>11, <3>1
  <2>2. QED
    BY <1>5, <1>11, <2>1
<1>13. QED
  BY <1>4, <1>12

LEMMA TimesNat ==
  ASSUME NEW x \in Nat, NEW y \in Nat
  PROVE  Times(x, y) \in Nat
<1>1. x * y \in Nat /\ Scale \in Nat \ {0}
  BY Constants
<1>2. \A p \in Nat : p \div Scale \in Nat
  BY <1>1
<1>3. QED
  BY <1>1, <1>2 DEF Times

\* Every vertex that is counted is in a part.
LEMMA AllInParts ==
  ASSUME in \in Inputs, GraphKept, NEW v \in Counted
  PROVE  \E id \in Ids : v \in VerticesOf(heap, id)
<1> DEFINE n == Len(cnt)
           Past == {k \in 0 .. n : v < Cur[k]}
<1>1. n \in Nat \ {0} /\ Ids = 0 .. (n - 1)
  BY Constants DEF Ids
<1>2. Cur[n] = CountOf(Edges(in)) /\ Cur[0] = 0
  <2>1. Cur[0] = 0
    BY <1>1, TotalsAre DEF Cur
  <2>2. QED
    BY <2>1, PartitionsFit DEF Cur
<1>3. CountOf(Edges(in)) \in Nat
  BY InputsAreFit DEF Fits
<1>4. v \in Nat /\ v < CountOf(Edges(in))
  BY <1>3 DEF Counted
<1> HIDE DEF n
<1>5. n \in Past /\ Past \in SUBSET Nat
  BY <1>1, <1>2, <1>4
<1>6. PICK k \in Past : \A m \in Past : k <= m
  <2> HIDE DEF Past
  <2>1. QED
    BY <1>5, Least
<1>7. k \in 0 .. n /\ v < Cur[k] /\ k # 0
  BY <1>2, <1>4, <1>6
<1>8. k - 1 \in Ids /\ (k - 1) + 1 = k /\ k - 1 \in 0 .. n /\ ~(k <= k - 1)
  BY <1>1, <1>7
<1>9. ~(v < Cur[k - 1])
  BY <1>6, <1>8
<1>10. Cur[k - 1] \in Nat /\ Cur[k] \in Nat
  BY <1>8, CurFacts
<1>11. v \in Cur[k - 1] .. (Cur[k] - 1)
  BY <1>4, <1>7, <1>9, <1>10
<1>12. VerticesOf(heap, k - 1) = Cur[k - 1] .. (Cur[k] - 1)
  BY <1>8, KeptFacts
<1>13. QED
  BY <1>8, <1>11, <1>12

\* Where the list of the in-neighbors of v is in memory, and what it holds.
LEMMA ListOf ==
  ASSUME in \in Inputs, GraphKept, NEW v \in Counted
  PROVE  LET edges == Edges(in)
             n == Cardinality(To(edges, v))
         IN /\ n \in Nat
            /\ DOMAIN NeighborsOf(heap, v) = 1 .. n
            /\ Read(heap, Vertex(v, OUTDEGREE)) = OneOver(Cardinality(From(edges, v)))
            /\ \E order \in [1 .. n -> DOMAIN edges] :
                 \A k \in 1 .. n : /\ order[k] \in To(edges, v)
                                   /\ Cardinality(Earlier(edges, order[k])) = k - 1
                                   /\ Read(heap, NeighborsOf(heap, v)[k]) = edges[order[k]].src
<1> DEFINE edges == Edges(in)
           n == Cardinality(To(edges, v))
           b == Cardinality(Below(edges, v))
<1>1. Fits(edges)
  BY InputsAreFit
<1>2. /\ DOMAIN heap = Locations
      /\ Holding(heap, edges)
      /\ GraphLocations \subseteq Locations
  BY KeptFacts, BlankFacts
<1>3. v \in 0 .. (CountOf(edges) - 1)
  BY DEF Counted
<1> HIDE DEF edges
<1>4. /\ v \in Nat /\ Vertex(v, INDEGREE) \in DOMAIN heap /\ Vertex(v, OUTDEGREE) \in DOMAIN heap
      /\ Vertex(v, IN_NEIGHBORS) \in DOMAIN heap
  BY <1>1, <1>2, <1>3, WordsFit
<1>5. /\ Read(heap, Vertex(v, INDEGREE)) = n
      /\ Read(heap, Vertex(v, OUTDEGREE)) = OneOver(Cardinality(From(edges, v)))
      /\ Read(heap, Vertex(v, IN_NEIGHBORS)) = b
      /\ \A j \in DOMAIN edges : heap[Neighbor(Place(edges, j))] = edges[j].src
  BY <1>2, <1>3, <1>4 DEF Holding, Read
<1>6. NeighborsOf(heap, v) = [k \in 1 .. n |-> Neighbor(b + k - 1)]
  BY <1>5 DEF NeighborsOf
<1>7. n \in Nat /\ b \in Nat
  BY <1>1, <1>4, BelowNext
<1>8. PICK order \in [1 .. n -> DOMAIN edges] :
        \A k \in 1 .. n : /\ order[k] \in To(edges, v)
                          /\ Cardinality(Earlier(edges, order[k])) = k - 1
  BY <1>1, <1>4, InOrder
<1> HIDE DEF n, b
<1>9. ASSUME NEW k \in 1 .. n
      PROVE  Read(heap, NeighborsOf(heap, v)[k]) = edges[order[k]].src
  <2>1. edges[order[k]].dst = v /\ order[k] \in DOMAIN edges
    BY <1>8 DEF To
  <2>2. Place(edges, order[k]) = b + (k - 1)
    BY <1>8, <2>1 DEF Place, b
  <2>3. b + (k - 1) = b + k - 1
    BY <1>7
  <2>4. NeighborsOf(heap, v)[k] = Neighbor(Place(edges, order[k]))
    BY <1>6, <2>2, <2>3
  <2>5. Neighbor(Place(edges, order[k])) \in DOMAIN heap
    BY <1>1, <1>2, <2>1, PlaceFits
  <2>6. QED
    BY <1>5, <2>1, <2>4, <2>5 DEF Read
<1>10. DOMAIN NeighborsOf(heap, v) = 1 .. n
  BY <1>6
<1>11. QED
  BY <1>5, <1>7, <1>8, <1>9, <1>10 DEF n, edges

\* What calc_task computes of the copies is what the formula says of the edges.
LEMMA ValuesComputed ==
  ASSUME in \in Inputs, GraphKept, NEW id \in Ids, NEW v \in VerticesOf(heap, id),
         NEW last, WrittenUpTo(last), LastSynced
  PROVE  LET graph == [l \in Copied(heap, id) |-> Read(heap, l)]
         IN /\ NewValue(graph, heap[Iter], v) = Iterates!Share(v)
            /\ NewValue(graph, heap[Iter], v) \in Nat
<1> DEFINE edges == Edges(in)
           n == Cardinality(To(edges, v))
           graph == [l \in Copied(heap, id) |-> Read(heap, l)]
           iter == heap[Iter]
           List == NeighborsOf(heap, v)
<1>1. v \in Counted
  BY PartsFacts
<1>2. PICK order \in [1 .. n -> DOMAIN edges] :
        \A k \in 1 .. n : /\ order[k] \in To(edges, v)
                          /\ Cardinality(Earlier(edges, order[k])) = k - 1
                          /\ Read(heap, List[k]) = edges[order[k]].src
  BY <1>1, ListOf
<1>3. /\ n \in Nat /\ DOMAIN List = 1 .. n
      /\ Read(heap, Vertex(v, OUTDEGREE)) = OneOver(Cardinality(From(edges, v)))
  BY <1>1, ListOf
<1>4. Fits(edges)
  BY InputsAreFit
<1>5. \A l \in Range(List) \cup {Vertex(v, o) : o \in {INDEGREE, OUTDEGREE, IN_NEIGHBORS}} :
        Read(graph, l) = Read(heap, l)
  <2>1. ASSUME NEW l \in Range(List)
                     \cup {Vertex(v, o) : o \in {INDEGREE, OUTDEGREE, IN_NEIGHBORS}}
        PROVE  Read(graph, l) = Read(heap, l)
    <3>1. l \in Copied(heap, id)
      BY CopyHolds
    <3>2. QED
      BY <3>1 DEF Read
  <2>2. QED
    BY <2>1
<1>6. iter \in Nat
  BY KeptFacts, Places
<1> DEFINE given == IF iter = 0 THEN <<>> ELSE [w \in Counted |-> written[<<iter, w>>]]
           Gives(w) == IF w \in DOMAIN given THEN given[w] ELSE 0
           val == [j \in DOMAIN edges |-> PcGet(synced, iter, edges[j].src)]
<1>7. ASSUME NEW w, iter # 0
      PROVE  PcGet(synced, iter, w) = Gives(w) /\ PcGet(synced, iter, w) \in Nat
  <2>1. /\ DOMAIN written \subseteq (1 .. last) \X Counted
        /\ \A u \in DOMAIN written : written[u] \in Nat
        /\ \A u \in DOMAIN synced : u \in DOMAIN written /\ synced[u] = written[u]
    BY DEF WrittenUpTo
  <2>2. \A u \in Counted : <<iter, u>> \in DOMAIN synced
    BY <1>6, <1>7 DEF LastSynced, Complete
  <2>3. DOMAIN given = Counted /\ \A u \in Counted : given[u] = written[<<iter, u>>]
    BY <1>7
  <2> HIDE DEF given
  <2>4. CASE w \in Counted
    <3>1. <<iter, w>> \in DOMAIN synced
      BY <2>2, <2>4
    <3>2. PcGet(synced, iter, w) = written[<<iter, w>>] /\ written[<<iter, w>>] \in Nat
      BY <2>1, <3>1 DEF PcGet, Read
    <3>3. QED
      BY <2>3, <2>4, <3>2
  <2>5. CASE w \notin Counted
    <3>1. <<iter, w>> \notin DOMAIN synced
      BY <2>1, <2>5
    <3>2. QED
      BY <2>3, <2>5, <3>1 DEF PcGet, Read
  <2>6. QED
    BY <2>4, <2>5
<1> DEFINE inherited == Total([k \in 1 .. n |-> PcGet(synced, iter, edges[order[k]].src)])
           sum == Total([j \in 1 .. Len(edges) |-> IF edges[j].dst = v THEN Gives(edges[j].src) ELSE 0])
<1>8. ASSUME iter # 0 PROVE inherited = sum /\ inherited \in Nat
  <2>1. val \in [DOMAIN edges -> Nat]
    BY <1>7, <1>8
  <2>2. \A j \in DOMAIN edges : val[j] = Gives(edges[j].src)
    BY <1>7, <1>8
  <2> HIDE DEF Gives
  <2> DEFINE short == [k \in 1 .. n |-> PcGet(synced, iter, edges[order[k]].src)]
             long == [j \in 1 .. Len(edges) |->
                        IF edges[j].dst = v THEN Gives(edges[j].src) ELSE 0]
  <2>3. Len(short) = n /\ \A k \in 1 .. n : short[k] = val[order[k]]
    BY <1>2, <1>3
  <2>4. /\ Len(long) = Len(edges)
        /\ \A j \in 1 .. Len(edges) : long[j] = IF edges[j].dst = v THEN val[j] ELSE 0
    BY <1>4, <2>2 DEF Fits
  <2>5. v \in Nat
    <3>1. CountOf(edges) \in Nat
      BY <1>4 DEF Fits
    <3>2. QED
      BY <1>1, <3>1 DEF Counted
  <2> HIDE DEF val, short, long
  <2>6. Total(short) = Total(long) /\ Total(short) \in Nat
    <3>1. ListsTo(order, edges, v, n)
      BY <1>2 DEF ListsTo
    <3>2. Gathers(short, long, val, order, edges, v, n)
      BY <2>1, <2>3, <2>4 DEF Gathers
    <3> HIDE DEF edges, n
    <3>3. QED
      BY <1>4, <2>5, <3>1, <3>2, ListedTotal
  <2>7. QED
    BY <2>6 DEF short, long
<1>9. NewValue(graph, iter, v)
        = Times(IF iter = 0 THEN PR_initial ELSE PR_alpha + Times(inherited, Scale - PR_alpha),
                OneOver(Cardinality(From(edges, v))))
  <2>1. NeighborsOf(graph, v) = List
    <3>1. /\ Read(graph, Vertex(v, IN_NEIGHBORS)) = Read(heap, Vertex(v, IN_NEIGHBORS))
          /\ Read(graph, Vertex(v, INDEGREE)) = Read(heap, Vertex(v, INDEGREE))
      BY <1>5
    <3> HIDE DEF graph
    <3>2. QED
      BY <3>1 DEF NeighborsOf
  <2>2. Read(graph, Vertex(v, OUTDEGREE)) = OneOver(Cardinality(From(edges, v)))
    BY <1>3, <1>5
  <2>3. \A k \in 1 .. n : Read(graph, List[k]) = edges[order[k]].src
    BY <1>2, <1>3, <1>5 DEF Range
  <2> HIDE DEF graph, List
  <2>4. [k \in DOMAIN List |-> PcGet(synced, iter, Read(graph, List[k]))]
          = [k \in 1 .. n |-> PcGet(synced, iter, edges[order[k]].src)]
    BY <1>3, <2>3
  <2>5. NewValue(graph, iter, v)
          = Times(IF iter = 0 THEN PR_initial
                  ELSE PR_alpha + Times(Total([k \in DOMAIN List |-> PcGet(synced, iter, Read(graph, List[k]))]),
                                        Scale - PR_alpha),
                  Read(graph, Vertex(v, OUTDEGREE)))
    BY <2>1 DEF NewValue
  <2>6. QED
    BY <2>2, <2>4, <2>5
<1>10. Iterates!Share(v)
         = Times(IF iter = 0 THEN PR_initial ELSE PR_alpha + Times(sum, Scale - PR_alpha),
                 OneOver(Cardinality(From(edges, v))))
  <2>1. \A x, y : Iterates!Times(x, y) = Times(x, y)
    BY DEF Iterates!Times, Times
  <2>2. Iterates!Inverse(Iterates!OutDeg(v)) = OneOver(Cardinality(From(edges, v)))
    <3>1. Iterates!OutDeg(v) = Cardinality(From(edges, v))
      BY DEF Iterates!OutDeg, From, Iterates!Cardinality, Cardinality
    <3>2. \A m : Iterates!Inverse(m) = OneOver(m)
      BY DEF Iterates!Inverse, OneOver
    <3>3. QED
      BY <3>1, <3>2
  <2>3. \A w : Iterates!Gives(w) = Gives(w)
    BY DEF Iterates!Gives
  <2>4. Iterates!PR(v) = PR_alpha + Times(sum, Scale - PR_alpha)
    <3>1. \A s : Iterates!Total(s) = Total(s)
      BY DEF Iterates!Total, Total, Iterates!Accumulated, Accumulated
    <3> HIDE DEF Gives
    <3>2. QED
      BY <2>1, <2>3, <3>1 DEF Iterates!PR
  <2>5. Iterates!Share(v)
          = Iterates!Times(IF iter = 0 THEN PR_initial ELSE Iterates!PR(v),
                           Iterates!Inverse(Iterates!OutDeg(v)))
    BY DEF Iterates!Share
  <2> HIDE DEF sum
  <2>6. QED
    BY <2>1, <2>2, <2>4, <2>5
<1> HIDE DEF inherited, sum, graph
<1>11. OneOver(Cardinality(From(edges, v))) \in Nat
  <2>1. From(edges, v) \in SUBSET DOMAIN edges
    BY DEF From
  <2>2. Cardinality(From(edges, v)) \in Nat
    BY <1>4, <2>1, EdgeSets
  <2>3. QED
    BY <2>2, Constants DEF OneOver
<1>12. PR_initial \in Nat /\ PR_alpha \in Nat /\ Scale - PR_alpha \in Nat
  BY Constants, PageRankAssumption
<1>13. (IF iter = 0 THEN PR_initial ELSE PR_alpha + Times(inherited, Scale - PR_alpha)) \in Nat
  <2>1. CASE iter = 0
    BY <1>12, <2>1
  <2>2. CASE iter # 0
    <3>1. Times(inherited, Scale - PR_alpha) \in Nat
      BY <1>8, <1>12, <2>2, TimesNat
    <3>2. QED
      BY <1>12, <2>2, <3>1
  <2>3. QED
    BY <2>1, <2>2
<1>14. NewValue(graph, iter, v) \in Nat
  BY <1>9, <1>11, <1>13, TimesNat
<1>15. NewValue(graph, iter, v) = Iterates!Share(v)
  <2>1. CASE iter = 0
    BY <1>9, <1>10, <2>1
  <2>2. CASE iter # 0
    BY <1>8, <1>9, <1>10, <2>2
  <2>3. QED
    BY <2>1, <2>2
<1>16. QED
  BY <1>14, <1>15 DEF graph

\* What a vertex gives next depends on the iteration that is over only.
LEMMA ShareKept ==
  ASSUME in' = in, heap'[Iter] = heap[Iter], heap[Iter] \in Nat,
         \A w \in DOMAIN written : w \in DOMAIN written' /\ written'[w] = written[w],
         heap[Iter] > 0 => Complete(heap[Iter], written)
  PROVE  \A v : Iterates!Share(v)' = Iterates!Share(v)
<1> DEFINE iter == heap[Iter]
           given == IF iter = 0 THEN <<>> ELSE [w \in Counted |-> written[<<iter, w>>]]
<1>1. Counted' = Counted
  BY DEF Counted
<1>2. given' = given
  <2>1. CASE iter = 0
    BY <2>1
  <2>2. CASE iter # 0
    <3>1. \A w \in Counted : written'[<<iter, w>>] = written[<<iter, w>>]
      BY <2>2 DEF Complete
    <3>2. QED
      BY <1>1, <2>2, <3>1
  <2>3. QED
    BY <2>1, <2>2
<1>3. \A v : Iterates!Share(v)' = Iterates!Share(v)
  BY <1>2 DEF Iterates!Share, Iterates!PR, Iterates!Times, Iterates!Inverse, Iterates!OutDeg,
         Iterates!Gives
<1>4. QED
  BY <1>3

-----------------------------------------------------------------------------
(***************************************************************************)
(* The tasks.                                                              *)
(***************************************************************************)
LEMMA Bodies ==
  ASSUME NEW t, NEW view
  PROVE  /\ t.do = "main" => Body(t, view) = Ends("commit", NoWrites,
              {Task(IF program = "pagerank-stdin2pmem" THEN "init" ELSE "init_task", 0)}, {})
         /\ t.do = "init" => Body(t, view) = InitGraph(in, view)
         /\ t.do = "shuffle" => Body(t, view) = Shuffle(t.arg, view)
         /\ t.do = "init_task" => Body(t, view) = InitTask(view)
         /\ t.do = "new_iter_task" => Body(t, view) = NewIterTask(view)
         /\ t.do = "calc_task" => Body(t, view) = CalcTask(t.arg)
         /\ t.do = "barrier_task" => Body(t, view) = BarrierTask(view, t.arg)
         /\ t.do = "topk" => Body(t, view) = Ends("commit", NoWrites, {}, {})
  BY DEF Body

LEMMA BodySame ==
  ASSUME NEW t, NEW u, t.do = u.do, t.arg = u.arg, NEW view
  PROVE  Body(t, view) = Body(u, view)
  BY DEF Body

LEMMA BodyNext ==
  ASSUME Unchanged, NEW t
  PROVE  Body(t, heap)' = Body(t, heap')
  BY DEF Body, Unchanged

\* A step that leaves memory alone: a task is scheduled, takes its snapshot, is
\* given up or runs again.
Again(t, u) ==
  /\ IsTask(u) /\ u.do = t.do /\ u.arg = t.arg /\ u.missed = {} /\ ~Refused(u)
  /\ Runs(u) => u.end = Body(t, heap) /\ ~Runs(t)
Quiet(t) ==
  /\ heap' = heap /\ watchers' \subseteq watchers
  /\ \/ /\ Runs(t) /\ (~Commits(t.end) \/ Refused(t))
        /\ tasks' = tasks \ {t}
     \/ \E u : /\ Again(t, u) /\ tasks' = (tasks \ {t}) \cup {u}
               /\ Runs(t) => Commits(t.end) /\ Refused(t)

LEMMA QuietSteps ==
  ASSUME TasksKept, NEW t \in tasks,
         Schedule(t) \/ Start(t, Body(t, heap)) \/ Abort(t) \/ Refuse(t)
  PROVE  Quiet(t)
<1>1. IsTask(t) /\ (~Runs(t) => t.missed = {})
  BY DEF TasksKept
<1>2. CASE Schedule(t)
  <2> DEFINE u == [t EXCEPT !.end = Scheduled]
  <2>1. tasks' = (tasks \ {t}) \cup {u} /\ heap' = heap /\ watchers' = watchers /\ ~Runs(t)
    BY <1>2 DEF Schedule, Runs
  <2>2. Again(t, u) /\ ~Runs(u)
    BY <1>1, <2>1, EndFacts DEF Runs, Again
  <2> HIDE DEF u
  <2>3. QED
    BY <2>1, <2>2 DEF Quiet
<1>3. CASE Start(t, Body(t, heap))
  <2> DEFINE u == [t EXCEPT !.end = Body(t, heap)]
  <2>1. tasks' = (tasks \ {t}) \cup {u} /\ heap' = heap /\ watchers' = watchers /\ ~Runs(t)
    BY <1>3 DEF Start, Runs
  <2>2. Again(t, u)
    BY <1>1, <2>1, EndFacts DEF Again
  <2> HIDE DEF u
  <2>3. QED
    BY <2>1, <2>2 DEF Quiet
<1>4. CASE Abort(t)
  BY <1>4 DEF Abort, Quiet, Staying
<1>5. CASE Refuse(t)
  <2> DEFINE u == Instance(t.do, t.arg, t.no)
  <2>1. PICK new \in {{}, {u}} : tasks' = (tasks \ {t}) \cup new
    BY <1>5 DEF Refuse
  <2>2. heap' = heap /\ watchers' = watchers /\ Runs(t) /\ Commits(t.end) /\ Refused(t)
    BY <1>5 DEF Refuse
  <2>3. Again(t, u)
    BY InstanceFacts DEF Again
  <2> HIDE DEF u
  <2>4. CASE new = {}
    BY <2>1, <2>2, <2>4 DEF Quiet
  <2>5. CASE new = {u}
    BY <2>1, <2>2, <2>3, <2>5 DEF Quiet
  <2>6. QED
    BY <2>1, <2>4, <2>5
<1>6. QED
  BY <1>2, <1>3, <1>4, <1>5

\* The tasks after a quiet step.
LEMMA QuietTasks ==
  ASSUME TasksKept, Unchanged, NEW t \in tasks, Quiet(t)
  PROVE  /\ TasksKept'
         /\ \A v \in tasks' : (v \in tasks /\ v # t) \/ Again(t, v)
<1>1. \A v \in tasks' : (v \in tasks /\ v # t) \/ Again(t, v)
  BY DEF Quiet
<1>2. heap' = heap
  BY DEF Quiet
<1>3. \A v \in tasks' : IsTask(v) /\ (Runs(v) \/ v.missed = {})
  BY <1>1 DEF TasksKept, Again
<1>4. ASSUME NEW v \in Runners', Runs(v) PROVE v.end = Body(v, heap)
  <2>1. v \in tasks' /\ v.do # "barrier_task"
    BY DEF Runners
  <2>2. CASE v \in tasks /\ v # t
    BY <1>4, <2>1, <2>2 DEF TasksKept, Runners
  <2>3. CASE Again(t, v)
    BY <1>4, <2>3, BodySame DEF Again
  <2>4. QED
    BY <1>1, <2>1, <2>2, <2>3
<1>5. \A v \in Runners' : Runs(v) => v.end = Body(v, heap)'
  BY <1>2, <1>4, BodyNext
<1>6. QED
  BY <1>1, <1>3, <1>5 DEF TasksKept

-----------------------------------------------------------------------------
(* The first program, and the second one's first tasks.                    *)

\* What the tasks come to that have nobody beside them: they always commit.
LEMMA AloneEnds ==
  ASSUME in \in Inputs, NEW t, t.do \in {"main", "init", "init_task"}
  PROVE  /\ Commits(Body(t, heap)) /\ Body(t, heap).types = {}
         /\ t.do = "main" => /\ Body(t, heap).writes = NoWrites
              /\ Body(t, heap).runners = {Task(IF program = "pagerank-stdin2pmem"
                                               THEN "init" ELSE "init_task", 0)}
         /\ t.do = "init" => /\ Body(t, heap).writes = GraphOf(Edges(in), heap)
              /\ Body(t, heap).runners = {Task("shuffle", id) : id \in 0 .. 2}
         /\ t.do = "init_task" => /\ Body(t, heap).runners = {Task("new_iter_task", 0)}
              /\ Body(t, heap).writes = Over(BuildPartitions(heap),
                    Over(Holds(Iter, 0), Holds(Count, heap[VerticesCnt])))
<1>1. CASE t.do = "main"
  BY <1>1, Bodies, EndsFacts DEF Commits
<1>2. CASE t.do = "init"
  <2>1. Edges(in) # <<>> /\ CountOf(Edges(in)) # 0
    BY InputsAreFit DEF Fits
  <2>2. Body(t, heap) = Ends("commit", GraphOf(Edges(in), heap),
                             {Task("shuffle", id) : id \in 0 .. 2}, {})
    BY <1>2, <2>1, Bodies DEF InitGraph
  <2>3. QED
    BY <1>2, <2>2, EndsFacts DEF Commits
<1>3. CASE t.do = "init_task"
  BY <1>3, Bodies, EndsFacts DEF Commits, InitTask
<1>4. QED
  BY <1>1, <1>2, <1>3

LEMMA AloneQuiet ==
  ASSUME TasksKept, in \in Inputs, NEW dos, dos \subseteq {"main", "init", "init_task"},
         Alone(dos), NEW t \in tasks, Quiet(t)
  PROVE  Alone(dos)'
<1>1. tasks = {t} /\ t.do \in dos /\ t.missed = {} /\ t \in Runners
  BY DEF Alone, Runners
<1>2. Runs(t) => Commits(t.end) /\ ~Refused(t)
  <2>1. t.do \in {"main", "init", "init_task"}
    BY <1>1
  <2>2. Commits(Body(t, heap))
    BY <2>1, AloneEnds
  <2>3. Runs(t) => t.end = Body(t, heap)
    BY <1>1 DEF TasksKept
  <2>4. QED
    BY <1>1, <2>2, <2>3 DEF Refused
<1>3. PICK u : Again(t, u) /\ tasks' = (tasks \ {t}) \cup {u}
  BY <1>2 DEF Quiet
<1>4. tasks' = {u} /\ u.do \in dos /\ u.missed = {}
  BY <1>1, <1>3 DEF Again
<1>5. QED
  BY <1>4 DEF Alone

\* With nobody watching, a commit leaves what the task has started.
LEMMA AloneCommits ==
  ASSUME TasksKept, in \in Inputs, watchers = {}, NEW dos,
         dos \subseteq {"main", "init", "init_task"},
         Alone(dos), NEW t \in tasks, Commit(t)
  PROVE  /\ heap' = Over(Body(t, heap).writes, heap)
         /\ tasks' = Body(t, heap).runners /\ watchers' = {} /\ t.do \in dos
<1>1. tasks = {t} /\ t.do \in dos /\ t \in Runners
  BY DEF Alone, Runners
<1>2. t.end = Body(t, heap) /\ t.end.types = {}
  <2>1. t.do \in {"main", "init", "init_task"} /\ Runs(t)
    BY <1>1, CommitFacts
  <2>2. Body(t, heap).types = {}
    BY <2>1, AloneEnds
  <2>3. QED
    BY <1>1, <2>1, <2>2 DEF TasksKept
<1>3. heap' = Over(t.end.writes, heap) /\ watchers' \subseteq watchers \cup t.end.types
  BY CommitFacts
<1>4. /\ t.end.runners \subseteq tasks'
      /\ \A v \in tasks' :
           \/ \E u \in tasks \ {t} : v = Missing(u, PagesOf(DOMAIN t.end.writes))
           \/ v \in t.end.runners
           \/ \E w \in watchers \cup t.end.types : v.do = w.do /\ v.arg = w.arg
  BY CommitFacts
<1>5. tasks' = Body(t, heap).runners
  BY <1>1, <1>2, <1>4
<1>6. heap' = Over(Body(t, heap).writes, heap)
  BY <1>2, <1>3
<1>7. watchers' = {}
  BY <1>2, <1>3
<1>8. QED
  BY <1>1, <1>5, <1>6, <1>7

LEMMA NothingMore ==
  ASSUME NothingDone, Unchanged, UNCHANGED Outside, watchers' = {}
  PROVE  NothingDone'
  BY DEF NothingDone, Unchanged, Outside

LEMMA NewTasks ==
  ASSUME \A v \in tasks' : \E do, arg : v = Task(do, arg)
  PROVE  TasksKept'
<1>1. \A v \in tasks' : IsTask(v) /\ v.missed = {} /\ ~Runs(v)
  BY TaskFacts
<1>2. QED
  BY <1>1 DEF TasksKept, Runners

LEMMA NewTask ==
  ASSUME NEW do, NEW arg, tasks' = {Task(do, arg)}
  PROVE  /\ TasksKept'
         /\ \A dos : do \in dos => Alone(dos)'
<1>1. TasksKept'
  BY NewTasks
<1>2. Task(do, arg).do = do /\ Task(do, arg).missed = {}
  BY TaskFacts
<1>3. QED
  BY <1>1, <1>2 DEF Alone

LEMMA BlankCommits ==
  ASSUME PageRankInv, Inputting, heap = Blank, Alone({"main", "init"}),
         Unchanged, UNCHANGED Outside, NEW t \in tasks, Commit(t)
  PROVE  PageRankInv'
<1>1. program = "pagerank-stdin2pmem" /\ watchers = {} /\ NothingDone
  BY DEF Inputting, NothingDone
<1>2. /\ heap' = Over(Body(t, heap).writes, heap)
      /\ tasks' = Body(t, heap).runners /\ watchers' = {}
      /\ t.do \in {"main", "init"}
  BY <1>1, AloneCommits DEF PageRankInv
<1>3. NothingDone' /\ program' = program /\ in' = in
  BY <1>1, <1>2, NothingMore DEF Unchanged
<1>4. CASE t.do = "main"
  <2>1. tasks' = {Task("init", 0)}
    BY <1>1, <1>2, <1>4, AloneEnds DEF PageRankInv
  <2>2. heap' = Blank
    <3>1. Body(t, heap).writes = NoWrites
      BY <1>4, AloneEnds DEF PageRankInv
    <3>2. heap' = Over(NoWrites, Blank)
      BY <1>2, <3>1
    <3>3. QED
      BY <3>2, OverSame, NothingWritten DEF Blank
  <2>3. TasksKept' /\ Alone({"main", "init"})'
    BY <2>1, NewTask
  <2>4. Inputting'
    BY <1>1, <1>3, <2>2, <2>3 DEF Inputting
  <2>5. QED
    BY <1>3, <2>3, <2>4 DEF PageRankInv
<1>5. CASE t.do = "init"
  <2>1. /\ Body(t, heap).writes = GraphOf(Edges(in), Blank)
        /\ tasks' = {Task("shuffle", id) : id \in 0 .. 2}
    BY <1>2, <1>5, AloneEnds DEF PageRankInv
  <2>2. heap' = Loaded'
    BY <1>2, <1>3, <2>1 DEF Loaded
  <2>3. TasksKept'
    BY <2>1, NewTasks
  <2>4. \A v \in tasks' : v.do = "shuffle" /\ v.arg \in 0 .. 2
    BY <2>1, TaskFacts
  <2>5. Inputting'
    BY <1>1, <1>3, <2>2, <2>4 DEF Inputting
  <2>6. QED
    BY <1>3, <2>3, <2>5 DEF PageRankInv
<1>6. QED
  BY <1>2, <1>4, <1>5

\* The shuffles write the pages back as they are.
LEMMA TouchedFits == ASSUME NEW id \in 0 .. 2 PROVE Touched(id) \subseteq GraphLocations
<1> DEFINE L == IN_NEIGHBORS_MAX_LEN
           W == VERTICES_MAX_CNT * VERTEX_SIZE
<1>1. L \in Nat /\ W \in Nat /\ W = 3 * VERTICES_MAX_CNT
  BY Constants DEF VERTEX_SIZE
<1>2. ASSUME NEW len \in Nat, NEW l, NEW x \in ThirdOf(l, len, id)
      PROVE  \E j \in 0 .. (len - 1) : x = <<l, j>>
  <2>1. /\ len \div 3 \in Nat /\ (len * 2) \div 3 \in Nat
        /\ (len * 2) \div 3 <= len /\ N_LONG_PAGE \in Nat
    BY Constants
  <2>2. CASE id = 2
    <3>1. PICK j \in (len \div 3) .. ((len * 2) \div 3 - N_LONG_PAGE * 2 - 1) : x = <<l, j>>
      BY <1>2, <2>2 DEF ThirdOf, Every
    <3>2. j \in 0 .. (len - 1)
      <4> DEFINE m == N_LONG_PAGE * 2
      <4>1. m \in Nat
        BY <2>1
      <4> HIDE DEF m
      <4>2. j \in (len \div 3) .. ((len * 2) \div 3 - m - 1)
        BY DEF m
      <4>3. QED
        BY <2>1, <4>1, <4>2
    <3>3. QED
      BY <3>1, <3>2
  <2>3. CASE id # 2
    <3>1. PICK j \in ((len * 2) \div 3) .. (len - 1 - 1) : x = <<l, j>>
      BY <1>2, <2>3 DEF ThirdOf, Every
    <3>2. j \in 0 .. (len - 1)
      BY <2>1
    <3>3. QED
      BY <3>1, <3>2
  <2>4. QED
    BY <2>2, <2>3
<1> HIDE DEF L, W
<1>3. SUFFICES ASSUME NEW x \in Touched(id) PROVE x \in GraphLocations
  OBVIOUS
<1>4. CASE x \in ThirdOf("in_neighbors", L, id)
  <2>1. PICK j \in 0 .. (L - 1) : x = <<"in_neighbors", j>>
    BY <1>1, <1>2, <1>4
  <2>2. QED
    BY <2>1 DEF GraphLocations, Neighbor, L
<1>5. CASE x \in {<<"vertices", l[2] + 1>> : l \in ThirdOf("vertices", W, id)}
  <2>1. PICK l \in ThirdOf("vertices", W, id) : x = <<"vertices", l[2] + 1>>
    BY <1>5
  <2>2. PICK j \in 0 .. (W - 1) : l = <<"vertices", j>>
    BY <1>1, <1>2
  <2>3. j + 1 \in 0 .. VERTEX_SIZE * VERTICES_MAX_CNT
    BY <1>1 DEF VERTEX_SIZE
  <2>4. x = <<"vertices", j + 1>>
    BY <2>1, <2>2
  <2>5. QED
    BY <2>3, <2>4 DEF GraphLocations
<1>6. QED
  BY <1>4, <1>5 DEF Touched, L, W

LEMMA ShuffleCommits ==
  ASSUME PageRankInv, Inputting, heap = Loaded, \A v \in tasks : v.do = "shuffle" /\ v.arg \in 0 .. 2,
         Unchanged, UNCHANGED Outside, NEW t \in tasks, Commit(t)
  PROVE  PageRankInv'
<1>1. program = "pagerank-stdin2pmem" /\ watchers = {} /\ NothingDone
  BY DEF Inputting, NothingDone
<1>2. t.end = Ends("commit", [l \in Touched(t.arg) |-> heap[l]], {}, {})
  <2>1. t \in Runners /\ t.do = "shuffle"
    BY DEF Runners
  <2>2. t.end = Body(t, heap)
    BY <2>1, CommitFacts DEF PageRankInv, TasksKept
  <2>3. QED
    BY <2>1, <2>2, Bodies DEF Shuffle
<1>3. t.end.runners = {} /\ t.end.types = {} /\ t.end.writes = [l \in Touched(t.arg) |-> heap[l]]
  BY <1>2, EndsFacts
<1> DEFINE pages == PagesOf(DOMAIN t.end.writes)
<1>4. /\ heap' = Over(t.end.writes, heap) /\ watchers' = {}
      /\ \A v \in tasks' : \E u \in tasks \ {t} : v = Missing(u, pages)
  BY <1>1, <1>3, CommitFacts
<1>5. heap' = heap
  <2>1. Touched(t.arg) \subseteq Locations /\ DOMAIN heap = Locations
    BY TouchedFits, BlankFacts, LoadedFacts DEF PageRankInv
  <2>2. heap = [l \in Locations |-> heap[l]]
    BY LoadedFacts DEF PageRankInv
  <2>3. DOMAIN t.end.writes = Touched(t.arg) /\ \A l \in Touched(t.arg) : t.end.writes[l] = heap[l]
    BY <1>3
  <2>4. QED
    BY <1>4, <2>1, <2>2, <2>3, OverSame
<1>6. NothingDone' /\ program' = program /\ in' = in
  BY <1>1, <1>4, NothingMore DEF Unchanged
<1>7. \A u \in tasks : LET v == Missing(u, pages) IN
        /\ IsTask(v) /\ v.do = "shuffle" /\ v.arg = u.arg /\ v.end = u.end
        /\ Runs(v) <=> Runs(u)
        /\ ~Runs(u) => v = u
  BY MissingFacts DEF PageRankInv, TasksKept
<1> HIDE DEF pages
<1>8. TasksKept'
  <2>1. \A v \in tasks' : IsTask(v) /\ (Runs(v) \/ v.missed = {})
    BY <1>4, <1>7 DEF PageRankInv, TasksKept
  <2>2. ASSUME NEW v \in tasks', Runs(v) PROVE v.end = Body(v, heap)
    <3>1. PICK u \in tasks \ {t} : v = Missing(u, pages)
      BY <1>4
    <3>2. u \in Runners /\ Runs(u) /\ u.do = "shuffle"
      BY <1>7, <2>2, <3>1 DEF Runners
    <3>3. u.end = Body(u, heap)
      BY <3>2 DEF PageRankInv, TasksKept
    <3>4. QED
      BY <1>7, <3>1, <3>2, <3>3, BodySame
  <2>3. \A v \in Runners' : Runs(v) => v.end = Body(v, heap)'
    BY <1>5, <2>2, BodyNext DEF Runners
  <2>4. QED
    BY <2>1, <2>3 DEF TasksKept
<1>9. heap' = Loaded'
  BY <1>5, <1>6 DEF Loaded
<1>10. \A v \in tasks' : v.do = "shuffle" /\ v.arg \in 0 .. 2
  BY <1>4, <1>7
<1>11. Inputting'
  BY <1>1, <1>6, <1>9, <1>10 DEF Inputting
<1>12. QED
  BY <1>6, <1>8, <1>11 DEF PageRankInv

\* init_task leaves the graph and adds the partition.
LEMMA InitTaskCommits ==
  ASSUME PageRankInv, SettingUp, Unchanged, UNCHANGED Outside,
         NEW t \in tasks, t.do = "init_task", Commit(t)
  PROVE  PageRankInv' /\ heap'[Iter] = 0
<1> DEFINE p == BuildPartitions(Loaded)
           rest == Over(Holds(Iter, 0), Holds(Count, Loaded[VerticesCnt]))
           writes == Over(p, rest)
<1>1. program = "pagerank-frompmem" /\ watchers = {} /\ NothingDone /\ heap = Loaded
  BY DEF SettingUp, NothingDone
<1>2. /\ heap' = Over(writes, Loaded)
      /\ tasks' = {Task("new_iter_task", 0)} /\ watchers' = {}
  <2>1. Alone({"main", "init_task"}) /\ TasksKept /\ in \in Inputs
    BY DEF SettingUp, PageRankInv
  <2>2. /\ heap' = Over(Body(t, heap).writes, heap)
        /\ tasks' = Body(t, heap).runners /\ watchers' = {}
    BY <1>1, <2>1, AloneCommits
  <2>3. /\ Body(t, heap).writes = Over(BuildPartitions(heap),
                                       Over(Holds(Iter, 0), Holds(Count, heap[VerticesCnt])))
        /\ Body(t, heap).runners = {Task("new_iter_task", 0)}
    BY <2>1, AloneEnds
  <2>4. QED
    BY <1>1, <2>2, <2>3
<1>3. NothingDone' /\ program' = program /\ in' = in
  BY <1>1, <1>2, NothingMore DEF Unchanged
<1>4. /\ DOMAIN Loaded = Locations
      /\ \A l \in Locations \ GraphLocations : Loaded[l] = 0
      /\ Loaded[VerticesCnt] = CountOf(Edges(in))
      /\ GraphLocations \subseteq Locations
  BY LoadedFacts, BlankFacts DEF PageRankInv, Holding
<1>5. DOMAIN p = {Partition(id, o) : id \in Ids, o \in BEGIN .. IN_END}
  BY PartitionsFacts DEF PageRankInv
<1>6. Iter # Count /\ \A id, o : Partition(id, o) # Iter /\ Partition(id, o) # Count
  BY Places
<1> HIDE DEF p, rest
<1>7. /\ DOMAIN rest = {Iter, Count} /\ rest[Iter] = 0
      /\ rest[Count] = Loaded[VerticesCnt]
  <2> DEFINE h1 == Holds(Iter, 0)
             h2 == Holds(Count, Loaded[VerticesCnt])
  <2>1. /\ DOMAIN h1 = {Iter} /\ h1[Iter] = 0
        /\ DOMAIN h2 = {Count} /\ h2[Count] = Loaded[VerticesCnt]
    BY HoldsFacts
  <2>2. rest = Over(h1, h2)
    BY DEF rest
  <2> HIDE DEF h1, h2
  <2>3. DOMAIN rest = {Iter, Count}
    BY <2>1, <2>2, OverDomain
  <2>4. rest[Iter] = h1[Iter]
    BY <2>1, <2>2, OverNew
  <2>5. rest[Count] = h2[Count]
    BY <1>6, <2>1, <2>2, OverOld
  <2>6. QED
    BY <2>1, <2>3, <2>4, <2>5
<1>8. /\ DOMAIN writes = DOMAIN p \cup {Iter, Count}
      /\ \A l \in DOMAIN p : writes[l] = p[l]
      /\ writes[Iter] = 0 /\ writes[Count] = CountOf(Edges(in))
  <2>1. DOMAIN writes = DOMAIN p \cup {Iter, Count}
    BY <1>7, OverDomain
  <2>2. \A l \in DOMAIN p : writes[l] = p[l]
    BY OverNew
  <2>3. Iter \notin DOMAIN p /\ Count \notin DOMAIN p
    BY <1>5, <1>6
  <2>4. writes[Iter] = rest[Iter] /\ writes[Count] = rest[Count]
    BY <1>7, <2>3, OverOld
  <2>5. QED
    BY <1>4, <1>7, <2>1, <2>2, <2>4
<1> HIDE DEF writes
<1>9. DOMAIN writes \subseteq Locations
  BY <1>5, <1>8, Places
<1>10. heap' = [l \in Locations |-> heap'[l]]
  <2> DEFINE all == DOMAIN writes \cup DOMAIN Loaded
  <2>1. all = Locations
    BY <1>4, <1>9
  <2>2. heap' = [l \in all |-> Over(writes, Loaded)[l]]
    BY <1>2, OverFunction
  <2> HIDE DEF all
  <2>3. QED
    BY <1>2, <2>1, <2>2
<1>11. /\ \A l \in DOMAIN writes : heap'[l] = writes[l]
       /\ \A l \in Locations : l \notin DOMAIN writes => heap'[l] = Loaded[l]
  BY <1>2, <1>4, OverNew, OverOld
<1>12. \A l \in GraphLocations : heap'[l] = Loaded[l]
  <2>1. \A l \in GraphLocations : l \notin DOMAIN writes
    BY <1>5, <1>8, Places
  <2>2. QED
    BY <1>4, <1>11, <2>1
<1>13. \A id \in Ids, o \in BEGIN .. IN_END : heap'[Partition(id, o)] = p[Partition(id, o)]
  BY <1>5, <1>8, <1>11
<1>14. heap'[Iter] = 0 /\ heap'[Count] = CountOf(Edges(in))
  BY <1>8, <1>11
<1>15. \A id \in Ids : heap'[Status(id)] = TASK_STATUS_CREATED
  <2>1. \A id \in Ids : /\ Status(id) \notin DOMAIN writes /\ Status(id) \in Locations
                        /\ Status(id) \notin GraphLocations
    BY <1>5, <1>8, Places
  <2>2. QED
    BY <1>4, <1>11, <2>1 DEF TASK_STATUS_CREATED
<1>16. GraphKept'
  <2>1. Loaded' = Loaded
    BY <1>3 DEF Loaded
  <2>2. 0 \in 0 .. (MAX_ITER + 1)
    BY Constants
  <2>3. QED
    BY <1>3, <1>10, <1>12, <1>13, <1>14, <1>15, <2>1, <2>2 DEF GraphKept, p
<1>17. sticky' = [id \in Ids |-> <<>>] /\ written' = <<>> /\ synced' = <<>>
       /\ printed' = <<>>
  BY <1>3 DEF NothingDone
<1>18. CopiesKept'
  BY <1>17 DEF CopiesKept
<1>19. \A v \in tasks' : v = Task("new_iter_task", 0) /\ v.do = "new_iter_task"
                      /\ ~Refused(v) /\ ~Runs(v)
  BY <1>2, TaskFacts
<1>20. \A v \in Runners' : v \in tasks'
  BY DEF Runners
<1>21. BarriersFit(heap[Iter] - 1)'
  <2>1. tasks' \ Runners' = {}
    BY <1>19 DEF Runners
  <2>2. QED
    BY <1>2, <2>1 DEF BarriersFit
<1>22. WrittenUpTo(heap[Iter])'
  BY <1>14, <1>17 DEF WrittenUpTo
<1>23. Between'
  <2>1. heap'[Iter] <= MAX_ITER /\ ~(heap'[Iter] > 0)
    BY <1>14, Constants
  <2>2. /\ \A v \in Runners' : v.do = "new_iter_task" /\ ~Runs(v)
        /\ \A u, v \in Runners' : u = v
    BY <1>19, <1>20
  <2>3. QED
    BY <1>17, <1>21, <1>22, <2>1, <2>2 DEF Between
<1>24. TasksKept'
  BY <1>2, NewTask
<1>25. QED
  BY <1>1, <1>3, <1>14, <1>16, <1>18, <1>19, <1>20, <1>23, <1>24 DEF PageRankInv, Iterating

LEMMA MainCommits ==
  ASSUME PageRankInv, SettingUp, Unchanged, UNCHANGED Outside,
         NEW t \in tasks, t.do = "main", Commit(t)
  PROVE  PageRankInv' /\ heap' = Loaded
<1>1. program = "pagerank-frompmem" /\ watchers = {} /\ NothingDone /\ heap = Loaded
  BY DEF SettingUp, NothingDone
<1>2. Alone({"main", "init_task"}) /\ TasksKept /\ in \in Inputs
  BY DEF SettingUp, PageRankInv
<1>3. /\ heap' = Over(Body(t, heap).writes, heap)
      /\ tasks' = Body(t, heap).runners /\ watchers' = {}
  BY <1>1, <1>2, AloneCommits
<1>4. Body(t, heap).writes = NoWrites /\ Body(t, heap).runners = {Task("init_task", 0)}
  BY <1>1, <1>2, AloneEnds
<1>5. heap' = Loaded
  <2>1. Loaded = [l \in Locations |-> Loaded[l]]
    BY <1>2, LoadedFacts
  <2>2. QED
    BY <1>1, <1>3, <1>4, <2>1, OverSame, NothingWritten
<1>6. TasksKept' /\ Alone({"main", "init_task"})'
  BY <1>3, <1>4, NewTask
<1>7. NothingDone' /\ program' = program /\ in' = in
  BY <1>1, <1>3, NothingMore DEF Unchanged
<1>8. heap' = Loaded'
  BY <1>5, <1>7 DEF Loaded
<1>9. QED
  BY <1>1, <1>2, <1>5, <1>6, <1>7, <1>8 DEF PageRankInv, SettingUp

LEMMA QuietBefore ==
  ASSUME PageRankInv, Inputting \/ SettingUp, Unchanged, UNCHANGED Outside,
         NEW t \in tasks, Quiet(t)
  PROVE  PageRankInv'
<1>1. TasksKept /\ in \in Inputs /\ NothingDone /\ watchers = {}
  BY DEF PageRankInv, Inputting, SettingUp, NothingDone
<1>2. /\ TasksKept'
      /\ \A v \in tasks' : (v \in tasks /\ v # t) \/ Again(t, v)
  BY <1>1, QuietTasks
<1>3. heap' = heap /\ watchers' = {}
  BY <1>1 DEF Quiet
<1>4. NothingDone' /\ program' = program /\ in' = in /\ Loaded' = Loaded
  BY <1>1, <1>3, NothingMore DEF Unchanged, Loaded
<1>5. CASE Inputting /\ heap = Blank /\ Alone({"main", "init"})
  <2>1. Alone({"main", "init"})'
    BY <1>1, <1>5, AloneQuiet
  <2>2. Inputting'
    BY <1>3, <1>4, <1>5, <2>1 DEF Inputting
  <2>3. QED
    BY <1>1, <1>2, <1>4, <2>2 DEF PageRankInv
<1>6. CASE Inputting /\ heap = Loaded /\ \A v \in tasks : v.do = "shuffle" /\ v.arg \in 0 .. 2
  <2>1. \A v \in tasks' : v.do = "shuffle" /\ v.arg \in 0 .. 2
    BY <1>2, <1>6 DEF Again
  <2>2. Inputting'
    BY <1>3, <1>4, <1>6, <2>1 DEF Inputting
  <2>3. QED
    BY <1>1, <1>2, <1>4, <2>2 DEF PageRankInv
<1>7. CASE SettingUp
  <2>1. Alone({"main", "init_task"})'
    BY <1>1, <1>7, AloneQuiet DEF SettingUp
  <2>2. SettingUp'
    BY <1>3, <1>4, <1>7, <2>1 DEF SettingUp
  <2>3. QED
    BY <1>1, <1>2, <1>4, <2>2 DEF PageRankInv
<1>8. QED
  BY <1>5, <1>6, <1>7 DEF Inputting

\* All commits but those of iterations.
LEMMA CommitBefore ==
  ASSUME PageRankInv, Inputting \/ SettingUp, Unchanged, UNCHANGED Outside,
         NEW t \in tasks, Commit(t)
  PROVE  PageRankInv' /\ heap'[Iter] = 0
<1>1. Blank[Iter] = 0 /\ Loaded[Iter] = 0
  <2>1. Iter \in Locations \ GraphLocations /\ in \in Inputs
    BY Places DEF PageRankInv
  <2>2. QED
    BY <2>1, LoadedFacts DEF Blank
<1>2. CASE Inputting
  <2>1. PageRankInv'
    BY <1>2, BlankCommits, ShuffleCommits DEF Inputting
  <2>2. program' = "pagerank-stdin2pmem" /\ Loaded' = Loaded
    BY <1>2 DEF Inputting, Unchanged, Loaded
  <2>3. Inputting'
    BY <2>1, <2>2 DEF PageRankInv, SettingUp, Iterating
  <2>4. heap' = Blank \/ heap' = Loaded
    BY <2>2, <2>3 DEF Inputting
  <2>5. QED
    BY <1>1, <2>1, <2>4
<1>3. CASE SettingUp
  <2>1. t.do \in {"main", "init_task"}
    BY <1>3 DEF SettingUp, Alone
  <2>2. QED
    BY <1>1, <1>3, <2>1, MainCommits, InitTaskCommits
<1>4. QED
  BY <1>2, <1>3

\* The second program is run when nothing is left of the first.
LEMMA SecondProgram ==
  ASSUME PageRankInv, RunPageRank
  PROVE  PageRankInv'
<1>1. /\ program = "pagerank-stdin2pmem" /\ tasks = {} /\ program' = "pagerank-frompmem"
      /\ tasks' = {Task("main", 0)}
      /\ in' = in /\ heap' = heap /\ watchers' = watchers
      /\ sticky' = sticky /\ written' = written /\ synced' = synced /\ printed' = printed
  BY DEF RunPageRank, Outside
<1>2. Inputting /\ heap = Loaded /\ NothingDone
  BY <1>1 DEF PageRankInv, SettingUp, Iterating, Inputting, Alone
<1>3. NothingDone' /\ Loaded' = Loaded
  BY <1>1, <1>2 DEF NothingDone, Loaded
<1>4. TasksKept' /\ Alone({"main", "init_task"})'
  BY <1>1, NewTask
<1>5. SettingUp'
  BY <1>1, <1>2, <1>3, <1>4 DEF SettingUp
<1>6. QED
  BY <1>1, <1>4, <1>5 DEF PageRankInv

-----------------------------------------------------------------------------
(* Iterations.                                                             *)

\* A barrier that fits, with what memory holds: BarriersFit of each one.
Fitting(t, last, memory) ==
  /\ t.arg \in 0 .. last
  /\ Runs(t) => \/ t.end \in {Aborts("abortd"), Aborts("abort")}
                \/ /\ t.end = Proceed(t.arg + 1)
                   /\ Refused(t) \/ (t.arg = memory[Iter] /\ AllFinished(memory))

\* What the tasks of an iteration come to.
LEMMA RunnerEnds ==
  ASSUME NEW t, NEW view
  PROVE  /\ t.do = "topk" =>
              LET e == Body(t, view) IN
              Commits(e) /\ e.writes = NoWrites /\ e.runners = {} /\ e.types = {}
         /\ t.do = "calc_task" =>
              LET e == Body(t, view) IN
              /\ Commits(e) /\ e.runners = {} /\ e.types = {}
              /\ e.writes = Holds(Status(t.arg), TASK_STATUS_FINISHED)
         /\ t.do = "new_iter_task" =>
              LET e == Body(t, view) IN
              /\ Commits(e) /\ e.runners = CalcTasks /\ e.types = {Barrier(view[Iter])}
              /\ e.writes = [l \in {Status(id) : id \in Ids} |-> TASK_STATUS_CREATED]
<1>1. CASE t.do = "topk"
  BY <1>1, Bodies, EndsFacts DEF Commits
<1>2. CASE t.do = "calc_task"
  BY <1>2, Bodies, EndsFacts DEF Commits, CalcTask
<1>3. CASE t.do = "new_iter_task"
  <2> DEFINE created == [l \in {Status(id) : id \in Ids} |-> TASK_STATUS_CREATED]
  <2>1. Body(t, view) = Ends("commit", created, CalcTasks, {Barrier(view[Iter])})
    BY <1>3, Bodies DEF NewIterTask
  <2> HIDE DEF created
  <2>2. /\ Commits(Body(t, view)) /\ Body(t, view).runners = CalcTasks
        /\ Body(t, view).types = {Barrier(view[Iter])} /\ Body(t, view).writes = created
    BY <2>1, EndsFacts DEF Commits
  <2>3. QED
    BY <1>3, <2>2 DEF created
<1>4. QED
  BY <1>1, <1>2, <1>3

LEMMA BarrierEnds ==
  ASSUME NEW view, NEW iter
  PROVE  LET e == BarrierTask(view, iter) IN
         \/ e \in {Aborts("abortd"), Aborts("abort")}
         \/ e = Proceed(iter + 1) /\ iter = view[Iter] /\ AllFinished(view)
  BY DEF BarrierTask

LEMMA AbortFacts ==
  ASSUME NEW exit \in {"abort", "abortd"}
  PROVE  ~Commits(Aborts(exit))
  BY EndsFacts DEF Aborts, Commits

LEMMA ProceedFacts ==
  ASSUME NEW iter
  PROVE  /\ Proceed(iter).writes = Holds(Iter, iter) /\ Proceed(iter).types = {}
         /\ Proceed(iter).runners
              = {Task(IF iter = MAX_ITER + 1 THEN "topk" ELSE "new_iter_task", 0)}
  BY EndsFacts DEF Proceed

LEMMA IterRunners ==
  ASSUME PageRankInv, Iterating
  PROVE  /\ TasksKept /\ in \in Inputs /\ GraphKept /\ CopiesKept
         /\ program = "pagerank-frompmem" /\ heap[Iter] \in Nat
         /\ \A t \in Runners : /\ t.do \in {"new_iter_task", "calc_task", "topk"}
                               /\ ~Refused(t)
                               /\ Runs(t) => t.end = Body(t, heap) /\ Commits(t.end)
<1>1. /\ TasksKept /\ in \in Inputs /\ GraphKept /\ CopiesKept
      /\ program = "pagerank-frompmem"
      /\ \A t \in Runners : ~Refused(t)
      /\ \A t \in Runners : t.do \in {"new_iter_task", "calc_task", "topk"}
  BY DEF PageRankInv, Iterating, Between, Calculating
<1>2. heap[Iter] \in Nat
  BY <1>1, KeptFacts, Places
<1>3. \A t \in Runners : Runs(t) => t.end = Body(t, heap)
  BY <1>1 DEF TasksKept
<1>4. \A t \in Runners : Commits(Body(t, heap))
  BY <1>1, RunnerEnds
<1>5. QED
  BY <1>1, <1>2, <1>3, <1>4

\* What a quiet step keeps, whatever it writes besides.
LEMMA QuietIterating ==
  ASSUME PageRankInv, Iterating, Unchanged, NEW t \in tasks, Quiet(t)
  PROVE  /\ TasksKept' /\ GraphKept'
         /\ heap' = heap /\ in' = in /\ program' = program /\ watchers' \subseteq watchers
         /\ \A v \in Runners' : ~Refused(v)
         /\ \A last : (\A v \in tasks \ Runners : Fitting(v, last, heap))
                        => \A v \in tasks' \ Runners' : Fitting(v, last, heap)
         /\ \/ t \notin Runners /\ Runners' = Runners
            \/ /\ t \in Runners /\ ~Runs(t)
               /\ \E u : Again(t, u) /\ Runners' = (Runners \ {t}) \cup {u}
<1>1. /\ TasksKept /\ GraphKept
      /\ \A r \in Runners : ~Refused(r) /\ (Runs(r) => Commits(r.end))
  BY IterRunners
<1>2. /\ heap' = heap /\ in' = in /\ program' = program /\ watchers' \subseteq watchers
  BY DEF Quiet, Unchanged
<1>3. /\ TasksKept'
      /\ \A v \in tasks' : (v \in tasks /\ v # t) \/ Again(t, v)
  BY <1>1, QuietTasks
<1>4. GraphKept'
  BY <1>1, <1>2 DEF GraphKept, Loaded
<1>5. /\ \A v : v \in Runners' <=> v \in tasks' /\ v.do # "barrier_task"
      /\ \A v : v \in Runners <=> v \in tasks /\ v.do # "barrier_task"
  BY DEF Runners
<1>6. \A v \in Runners' : ~Refused(v)
  BY <1>1, <1>3, <1>5 DEF Again
<1>7. ASSUME NEW last, \A v \in tasks \ Runners : Fitting(v, last, heap),
             NEW v \in tasks' \ Runners'
      PROVE  Fitting(v, last, heap)
  <2>1. CASE v \in tasks /\ v # t
    BY <1>5, <1>7, <2>1
  <2>2. CASE Again(t, v)
    <3>1. t \in tasks \ Runners /\ t.do = "barrier_task" /\ v.do = "barrier_task"
      BY <1>5, <1>7, <2>2 DEF Again
    <3>2. v.arg = t.arg /\ v.arg \in 0 .. last
      BY <1>7, <2>2, <3>1 DEF Again, Fitting
    <3>3. Runs(v) => v.end = BarrierTask(heap, v.arg)
      BY <2>2, <3>1, <3>2, Bodies DEF Again
    <3>4. QED
      BY <3>2, <3>3, BarrierEnds DEF Fitting
  <2>3. QED
    BY <1>3, <2>1, <2>2
<1>8. CASE t \notin Runners
  <2>1. t.do = "barrier_task"
    BY <1>5, <1>8
  <2>2. \A u : Again(t, u) => u.do = "barrier_task"
    BY <2>1 DEF Again
  <2>3. \A v \in tasks : v # t => v \in tasks'
    BY DEF Quiet
  <2>4. \A v : v \in Runners' <=> v \in Runners
    BY <1>3, <1>5, <2>1, <2>2, <2>3
  <2>5. Runners' = Runners
    BY <2>4
  <2>6. QED
    BY <1>2, <1>3, <1>4, <1>6, <1>7, <1>8, <2>5
<1>9. CASE t \in Runners
  <2>1. ~Runs(t)
    BY <1>1, <1>9 DEF Quiet
  <2>2. PICK u : Again(t, u) /\ tasks' = (tasks \ {t}) \cup {u}
    BY <2>1 DEF Quiet
  <2>3. u.do # "barrier_task"
    BY <1>5, <1>9, <2>2 DEF Again
  <2>4. \A v : v \in Runners' <=> v \in (Runners \ {t}) \cup {u}
    BY <1>5, <2>2, <2>3
  <2>5. Runners' = (Runners \ {t}) \cup {u}
    BY <2>4
  <2>6. QED
    BY <1>2, <1>3, <1>4, <1>6, <1>7, <1>9, <2>1, <2>2, <2>5
<1>10. QED
  BY <1>8, <1>9

LEMMA BetweenQuiet ==
  ASSUME PageRankInv, Iterating, Between, Unchanged, UNCHANGED <<sticky, written>>,
         \A w \in DOMAIN synced' : w \in DOMAIN written /\ synced'[w] = written[w],
         DOMAIN synced \subseteq DOMAIN synced', NEW t \in tasks, Quiet(t),
         t \notin Runners => printed' = printed,
         t \in Runners =>
           \E u : /\ Again(t, u) /\ tasks' = (tasks \ {t}) \cup {u}
                 /\ \/ ~Runs(u) /\ printed' = printed
                    \/ u.do = "new_iter_task" /\ printed' = printed /\ LastSynced'
                    \/ u.do = "topk" /\ Runs(u)
  PROVE  PageRankInv'
<1>1. /\ in \in Inputs /\ CopiesKept /\ program = "pagerank-frompmem"
      /\ heap[Iter] \in Nat
  BY IterRunners
<1>2. /\ TasksKept' /\ GraphKept'
      /\ heap' = heap /\ in' = in /\ program' = program /\ watchers' \subseteq watchers
      /\ \A v \in Runners' : ~Refused(v)
      /\ \A last : (\A v \in tasks \ Runners : Fitting(v, last, heap))
                     => \A v \in tasks' \ Runners' : Fitting(v, last, heap)
      /\ \/ t \notin Runners /\ Runners' = Runners
         \/ /\ t \in Runners /\ ~Runs(t)
            /\ \E u : Again(t, u) /\ Runners' = (Runners \ {t}) \cup {u}
  BY QuietIterating
<1>3. CopiesKept'
  BY <1>1, <1>2 DEF CopiesKept
<1>4. /\ \A v \in Runners' : \/ /\ v.do = "new_iter_task" /\ heap[Iter] <= MAX_ITER
                                /\ Runs(v) => LastSynced'
                             \/ /\ v.do = "topk" /\ heap[Iter] = MAX_ITER + 1
                                /\ Runs(v) \/ printed' = <<>>
      /\ \A u, v \in Runners' : u = v
      /\ heap[Iter] <= MAX_ITER => printed' = <<>>
  <2>1. CASE t \notin Runners
    <3>1. Runners' = Runners /\ printed' = printed
      BY <1>2, <2>1
    <3>2. LastSynced => LastSynced'
      BY <1>2 DEF LastSynced, Complete, Counted
    <3>3. QED
      BY <3>1, <3>2 DEF Between
  <2>2. CASE t \in Runners
    <3>1. PICK u : /\ Again(t, u) /\ tasks' = (tasks \ {t}) \cup {u}
                   /\ \/ ~Runs(u) /\ printed' = printed
                      \/ u.do = "new_iter_task" /\ printed' = printed /\ LastSynced'
                      \/ u.do = "topk" /\ Runs(u)
      BY <2>2
    <3>2. u.do = t.do /\ (t.do = "topk" => ~(heap[Iter] <= MAX_ITER)) /\ ~Runs(t)
      <4>1. heap[Iter] = MAX_ITER + 1 => ~(heap[Iter] <= MAX_ITER)
        BY Constants
      <4>2. t.do = "topk" => heap[Iter] = MAX_ITER + 1
        BY <2>2 DEF Between
      <4>3. ~Runs(t)
        BY <1>2, <2>2
      <4>4. QED
        BY <3>1, <4>1, <4>2, <4>3 DEF Again
    <3>3. Runners' = {u}
      <4>1. u.do # "barrier_task" /\ Runners = {t}
        BY <2>2, <3>2 DEF Between, Runners
      <4>2. QED
        BY <3>1, <4>1 DEF Runners
    <3>4. \/ /\ u.do = "new_iter_task" /\ heap[Iter] <= MAX_ITER
             /\ Runs(u) => LastSynced'
          \/ /\ u.do = "topk" /\ heap[Iter] = MAX_ITER + 1
             /\ Runs(u) \/ printed' = <<>>
      BY <2>2, <3>1, <3>2 DEF Between
    <3>5. heap[Iter] <= MAX_ITER => printed' = <<>>
      BY <2>2, <3>1, <3>2 DEF Between
    <3>6. QED
      BY <3>3, <3>4, <3>5
  <2>3. QED
    BY <2>1, <2>2
<1>5. /\ \A w \in watchers' : w.do = "barrier_task" /\ w.arg \in 0 .. (heap[Iter] - 1)
      /\ \A v \in tasks' \ Runners' : Fitting(v, heap[Iter] - 1, heap)
  <2>1. \A v \in tasks \ Runners : Fitting(v, heap[Iter] - 1, heap)
    BY DEF Between, BarriersFit, Fitting
  <2>2. \A w \in watchers : w.do = "barrier_task" /\ w.arg \in 0 .. (heap[Iter] - 1)
    BY DEF Between, BarriersFit
  <2>3. QED
    BY <1>2, <2>1, <2>2
<1>6. BarriersFit(heap[Iter] - 1)'
  BY <1>2, <1>5 DEF BarriersFit, Fitting
<1>7. WrittenUpTo(heap[Iter])'
  <2>1. Counted' = Counted
    BY <1>2 DEF Counted
  <2>2. QED
    BY <1>2, <2>1 DEF Between, WrittenUpTo, Complete
<1>8. (heap[Iter] > 0 => \A id \in Ids : HasCopied(id))'
  BY <1>2 DEF Between, HasCopied
<1>9. Between'
  BY <1>2, <1>4, <1>6, <1>7, <1>8 DEF Between
<1>10. QED
  BY <1>1, <1>2, <1>3, <1>9 DEF PageRankInv, Iterating

LEMMA CalculatingQuiet ==
  ASSUME PageRankInv, Iterating, Calculating, Unchanged, UNCHANGED <<sticky, written>>,
         synced' = synced, printed' = printed, NEW t \in tasks, Quiet(t),
         t \in Runners => \E u : Again(t, u) /\ ~Runs(u) /\ tasks' = (tasks \ {t}) \cup {u}
  PROVE  PageRankInv'
<1>1. /\ in \in Inputs /\ CopiesKept /\ program = "pagerank-frompmem"
      /\ heap[Iter] \in Nat
  BY IterRunners
<1>2. /\ TasksKept' /\ GraphKept'
      /\ heap' = heap /\ in' = in /\ program' = program /\ watchers' \subseteq watchers
      /\ \A v \in Runners' : ~Refused(v)
      /\ \A last : (\A v \in tasks \ Runners : Fitting(v, last, heap))
                     => \A v \in tasks' \ Runners' : Fitting(v, last, heap)
      /\ \/ t \notin Runners /\ Runners' = Runners
         \/ /\ t \in Runners /\ ~Runs(t)
            /\ \E u : Again(t, u) /\ Runners' = (Runners \ {t}) \cup {u}
  BY QuietIterating
<1>3. CopiesKept'
  BY <1>1, <1>2 DEF CopiesKept
<1>4. \/ Runners' = Runners
      \/ /\ t \in Runners /\ ~Runs(t)
         /\ \E u : Again(t, u) /\ ~Runs(u) /\ Runners' = (Runners \ {t}) \cup {u}
  <2>1. CASE t \in Runners
    <3>1. PICK u : Again(t, u) /\ ~Runs(u) /\ tasks' = (tasks \ {t}) \cup {u}
      BY <2>1
    <3>2. u.do # "barrier_task"
      BY <2>1, <3>1 DEF Again, Runners
    <3>3. Runners' = (Runners \ {t}) \cup {u}
      BY <3>1, <3>2 DEF Runners
    <3>4. QED
      BY <1>2, <2>1, <3>1, <3>3
  <2>2. QED
    BY <1>2, <2>1
<1>5. /\ \A v \in Runners' : /\ v.do = "calc_task" /\ v.arg \in Ids
                             /\ heap[Status(v.arg)] = TASK_STATUS_CREATED
      /\ \A u, v \in Runners' : u.arg = v.arg => u = v
      /\ \A id : (\A v \in Runners' : v.arg = id => Runs(v)) <=> Begun(id)
  <2>1. CASE Runners' = Runners
    BY <2>1 DEF Calculating, Begun
  <2>2. CASE /\ t \in Runners /\ ~Runs(t)
             /\ \E u : Again(t, u) /\ ~Runs(u) /\ Runners' = (Runners \ {t}) \cup {u}
    <3>1. PICK u : Again(t, u) /\ ~Runs(u) /\ Runners' = (Runners \ {t}) \cup {u}
      BY <2>2
    <3>2. u.arg = t.arg /\ u.do = t.do
      BY <3>1 DEF Again
    <3>3. QED
      BY <2>2, <3>1, <3>2 DEF Calculating, Begun
  <2>3. QED
    BY <1>4, <2>1, <2>2
<1>6. /\ \A w \in watchers' : w.do = "barrier_task" /\ w.arg \in 0 .. heap[Iter]
      /\ \A v \in tasks' \ Runners' : Fitting(v, heap[Iter], heap)
  <2>1. \A v \in tasks \ Runners : Fitting(v, heap[Iter], heap)
    BY DEF Calculating, BarriersFit, Fitting
  <2>2. \A w \in watchers : w.do = "barrier_task" /\ w.arg \in 0 .. heap[Iter]
    BY DEF Calculating, BarriersFit
  <2>3. QED
    BY <1>2, <2>1, <2>2
<1>7. BarriersFit(heap[Iter])'
  BY <1>2, <1>6 DEF BarriersFit, Fitting
<1>8. WrittenUpTo(heap[Iter] + 1)'
  <2>1. Counted' = Counted
    BY <1>2 DEF Counted
  <2>2. QED
    BY <1>2, <2>1 DEF Calculating, WrittenUpTo, Complete
<1>9. /\ \A id \in Ids : Begun(id)' <=> Begun(id)
      /\ \A id \in Ids : HasCopied(id)' <=> HasCopied(id)
  BY <1>5 DEF Begun, HasCopied
<1>10. /\ \A id \in Ids : Begun(id)' \/ heap'[Iter] > 0 => HasCopied(id)'
       /\ \A id \in Ids, v \in Counted' : v \in VerticesOf(heap', id) =>
            (Begun(id)' <=> <<heap'[Iter] + 1, v>> \in DOMAIN written')
       /\ \A w \in DOMAIN written' :
            w[1] = heap'[Iter] + 1 => written'[w] = Iterates!Share(w[2])'
       /\ LastSynced'
  <2>1. Counted' = Counted /\ (LastSynced => LastSynced')
    BY <1>2 DEF Counted, LastSynced, Complete
  <2>2. \A v : Iterates!Share(v)' = Iterates!Share(v)
    BY <1>1, <1>2, ShareKept DEF Calculating, WrittenUpTo
  <2>3. QED
    BY <1>2, <1>9, <2>1, <2>2 DEF Calculating
<1>11. Calculating'
  BY <1>2, <1>5, <1>7, <1>8, <1>10 DEF Calculating
<1>12. QED
  BY <1>1, <1>2, <1>3, <1>11 DEF PageRankInv, Iterating

\* What the memcpy of a task take: never nothing, and only of the graph.
LEMMA CopiedFacts ==
  ASSUME in \in Inputs, GraphKept, NEW id \in Ids
  PROVE  /\ \A f : Copied(heap, id) # {} /\ [l \in Copied(heap, id) |-> f[l]] # <<>>
         /\ \A l \in Copied(heap, id) : l[1] = "vertices" \/ l[1] = "in_neighbors"
<1>1. /\ Cur[id] \in Nat /\ Cur[id + 1] \in Nat /\ Cur[id] < Cur[id + 1]
      /\ heap[Partition(id, BEGIN)] = Cur[id]
      /\ heap[Partition(id, END)] = Cur[id + 1]
  BY CurFacts, KeptFacts DEF Divided
<1>2. <<"vertices", 1 + 3 * Cur[id]>> \in Copied(heap, id)
  <2>1. /\ Vertex(Cur[id], INDEGREE) = <<"vertices", 1 + 3 * Cur[id] + 0>>
        /\ Vertex(Cur[id + 1], IN_NEIGHBORS) = <<"vertices", 1 + 3 * Cur[id + 1] + 2>>
    BY DEF Vertex, VERTEX_SIZE, INDEGREE, IN_NEIGHBORS
  <2>2. /\ Vertex(Cur[id], INDEGREE)[2] = 1 + 3 * Cur[id]
        /\ Vertex(Cur[id + 1], IN_NEIGHBORS)[2] = 3 + 3 * Cur[id + 1]
    BY <1>1, <2>1
  <2>3. 1 + 3 * Cur[id] \in (1 + 3 * Cur[id]) .. (3 + 3 * Cur[id + 1])
    BY <1>1
  <2>4. QED
    BY <1>1, <2>2, <2>3 DEF Copied
<1>3. ASSUME NEW f PROVE [l \in Copied(heap, id) |-> f[l]] # <<>>
  <2> DEFINE g == [l \in Copied(heap, id) |-> f[l]]
  <2>1. DOMAIN g # {}
    BY <1>2
  <2> HIDE DEF g
  <2>2. g # NoWrites
    BY <2>1, NothingWritten
  <2>3. QED
    BY <2>2 DEF g, NoWrites
<1>4. \A l \in Copied(heap, id) : l[1] = "vertices" \/ l[1] = "in_neighbors"
  BY DEF Copied, Neighbor
<1>5. QED
  BY <1>2, <1>3, <1>4

\* A task copies the graph the first time and writes the values of its part, which
\* nobody has written yet.
LEMMA CalcStarts ==
  ASSUME PageRankInv, Iterating, Calculating, Unchanged,
         NEW t \in tasks, t.do = "calc_task", Start(t, Body(t, heap)),
         sticky' = [sticky EXCEPT ![t.arg] = Cached(heap, t.arg)],
         written' = Over(PcWrites(heap, t.arg), written), synced' = synced, printed' = printed
  PROVE  /\ PageRankInv'
         /\ \A w \in DOMAIN written : w \in DOMAIN written' /\ written'[w] = written[w]
<1> DEFINE me == t.arg
           u == [t EXCEPT !.end = Body(t, heap)]
<1>1. /\ in \in Inputs /\ CopiesKept /\ GraphKept /\ program = "pagerank-frompmem"
      /\ TasksKept /\ heap[Iter] \in Nat
  BY IterRunners
<1>2. t \in Runners /\ me \in Ids
  BY DEF Calculating, Runners
<1>3. Quiet(t) /\ ~Runs(t)
  BY <1>1, QuietSteps DEF Start, Runs
<1>4. /\ TasksKept' /\ GraphKept'
      /\ heap' = heap /\ in' = in /\ program' = program /\ watchers' \subseteq watchers
      /\ \A v \in Runners' : ~Refused(v)
      /\ \A last : (\A v \in tasks \ Runners : Fitting(v, last, heap))
                     => \A v \in tasks' \ Runners' : Fitting(v, last, heap)
  BY <1>3, QuietIterating
<1>5. u.do = "calc_task" /\ u.arg = me /\ Runs(u)
  <2>1. IsTask(t)
    BY <1>1 DEF TasksKept
  <2>2. u.do = t.do /\ u.arg = t.arg /\ u.end = Body(t, heap)
    BY <2>1, EndFacts
  <2>3. Commits(Body(t, heap))
    BY RunnerEnds
  <2>4. QED
    BY <2>2, <2>3, CommittingRuns
<1>6. tasks' = (tasks \ {t}) \cup {u}
  BY DEF Start
<1> HIDE DEF u
<1>7. Runners' = (Runners \ {t}) \cup {u}
  BY <1>2, <1>5, <1>6 DEF Runners
<1>8. /\ \A v \in Runners' : /\ v.do = "calc_task" /\ v.arg \in Ids
                             /\ heap[Status(v.arg)] = TASK_STATUS_CREATED
      /\ \A v, w \in Runners' : v.arg = w.arg => v = w
      /\ \A id : Begun(id)' => Begun(id) \/ id = me
      /\ \A id : ~Begun(id)' => ~Begun(id) /\ id # me
      /\ \A id : Begun(id) => Begun(id)'
      /\ Begun(me)' /\ ~Begun(me)
  BY <1>2, <1>3, <1>5, <1>7 DEF Calculating, Begun
<1>9. /\ \A v \in VerticesOf(heap, me) : v \in Counted /\ <<heap[Iter] + 1, v>> \notin DOMAIN written
      /\ heap[Iter] > 0 => HasCopied(me)
  <2>1. VerticesOf(heap, me) \subseteq Counted
    BY <1>1, <1>2, PartsFacts
  <2>2. QED
    BY <1>2, <1>8, <2>1 DEF Calculating
<1>10. DOMAIN PcWrites(heap, me) = {<<heap[Iter] + 1, v>> : v \in VerticesOf(heap, me)}
  BY DEF PcWrites
<1> DEFINE new == PcWrites(heap, me)
<1> HIDE DEF new
<1>11. /\ DOMAIN written' = DOMAIN new \cup DOMAIN written
       /\ \A w \in DOMAIN written : w \notin DOMAIN new => written'[w] = written[w]
       /\ \A w \in DOMAIN new : written'[w] = new[w]
  <2>1. written' = Over(new, written)
    BY DEF new
  <2>2. DOMAIN written' = DOMAIN new \cup DOMAIN written
    BY <2>1, OverDomain
  <2>3. ASSUME NEW w \in DOMAIN written, w \notin DOMAIN new
        PROVE  written'[w] = written[w]
    BY <2>1, <2>3, OverOld
  <2>4. \A w \in DOMAIN new : written'[w] = new[w]
    BY <2>1, OverNew
  <2>5. QED
    BY <2>2, <2>3, <2>4
<1>12. \A w \in DOMAIN written : w \in DOMAIN written' /\ written'[w] = written[w]
  BY <1>9, <1>10, <1>11 DEF new
<1>13. \A id \in Ids : id # me => sticky'[id] = sticky[id]
  BY <1>1 DEF CopiesKept
<1>14. /\ DOMAIN sticky' = Ids
       /\ sticky'[me] = [l \in Copied(heap, me) |-> Read(heap, l)]
  <2>1. DOMAIN sticky = Ids
        /\ sticky[me] \in {<<>>, [l \in Copied(heap, me) |-> Read(heap, l)]}
    BY <1>1, <1>2 DEF CopiesKept
  <2>2. DOMAIN sticky' = Ids /\ sticky'[me] = Cached(heap, me)
    BY <1>2, <2>1
  <2>3. CASE sticky[me] # <<>>
    BY <2>1, <2>2, <2>3 DEF Cached
  <2>4. CASE sticky[me] = <<>>
    <3>1. heap[Iter] = 0
      BY <1>1, <1>9, <2>4 DEF HasCopied
    <3>2. Snapshot(heap) = heap
      BY <3>1 DEF Snapshot
    <3>3. QED
      BY <2>2, <2>4, <3>2 DEF Cached
  <2>5. QED
    BY <2>3, <2>4
<1>15. sticky'[me] # <<>>
  <2>1. [l \in Copied(heap, me) |-> Read(heap, l)]
          = [l \in Copied(heap, me) |-> [x \in Copied(heap, me) |-> Read(heap, x)][l]]
    OBVIOUS
  <2>2. QED
    BY <1>1, <1>2, <1>14, <2>1, CopiedFacts
<1>16. CopiesKept'
  <2>1. \A id \in Ids : sticky'[id] \in {<<>>, [l \in Copied(heap, id) |-> Read(heap, l)]}
    BY <1>1, <1>13, <1>14 DEF CopiesKept
  <2>2. QED
    BY <1>4, <1>14, <2>1 DEF CopiesKept
<1>17. /\ \A w \in watchers' : w.do = "barrier_task" /\ w.arg \in 0 .. heap[Iter]
       /\ \A v \in tasks' \ Runners' : Fitting(v, heap[Iter], heap)
  <2>1. \A v \in tasks \ Runners : Fitting(v, heap[Iter], heap)
    BY DEF Calculating, BarriersFit, Fitting
  <2>2. \A w \in watchers : w.do = "barrier_task" /\ w.arg \in 0 .. heap[Iter]
    BY DEF Calculating, BarriersFit
  <2>3. QED
    BY <1>4, <2>1, <2>2
<1>18. BarriersFit(heap[Iter])'
  BY <1>4, <1>17 DEF BarriersFit, Fitting
<1>24. /\ \A w \in DOMAIN new : new[w] \in Nat /\ new[w] = Iterates!Share(w[2])
       /\ \A v : Iterates!Share(v)' = Iterates!Share(v)
  <2>1. Cached(heap, me) = [l \in Copied(heap, me) |-> Read(heap, l)]
    BY <1>2, <1>14, <1>1 DEF CopiesKept
  <2>2. \A v \in VerticesOf(heap, me) :
          /\ NewValue(Cached(heap, me), heap[Iter], v) = Iterates!Share(v)
          /\ NewValue(Cached(heap, me), heap[Iter], v) \in Nat
    BY <1>1, <1>2, <2>1, ValuesComputed DEF Calculating
  <2>3. \A w \in DOMAIN new : /\ w[2] \in VerticesOf(heap, me)
                             /\ new[w] = NewValue(Cached(heap, me), heap[Iter], w[2])
    BY DEF PcWrites, new
  <2>4. \A v : Iterates!Share(v)' = Iterates!Share(v)
    BY <1>1, <1>4, <1>12, ShareKept DEF Calculating, WrittenUpTo
  <2>5. QED
    BY <2>2, <2>3, <2>4
<1>25. Counted' = Counted
  BY <1>4 DEF Counted
<1>19. WrittenUpTo(heap[Iter] + 1)' /\ LastSynced'
  <2>1. VerticesOf(heap, me) \subseteq Counted
    BY <1>1, <1>2, PartsFacts
  <2>2. heap[Iter] + 1 \in 1 .. (heap[Iter] + 1)
    BY <1>1
  <2>3. DOMAIN new \subseteq (1 .. (heap[Iter] + 1)) \X Counted
    BY <1>10, <2>1, <2>2 DEF new
  <2>4. /\ DOMAIN written \subseteq (1 .. (heap[Iter] + 1)) \X Counted
        /\ \A w \in DOMAIN written : written[w] \in Nat
        /\ \A w \in DOMAIN synced : w \in DOMAIN written /\ synced[w] = written[w]
        /\ heap[Iter] > 0 => Complete(heap[Iter], written)
        /\ LastSynced
    BY DEF Calculating, WrittenUpTo
  <2>5. DOMAIN written' \subseteq (1 .. (heap[Iter] + 1)) \X Counted
    BY <1>11, <2>3, <2>4
  <2>6. \A w \in DOMAIN written' : written'[w] \in Nat
    BY <1>11, <1>12, <1>24, <2>4
  <2>7. \A w \in DOMAIN synced' : w \in DOMAIN written' /\ synced'[w] = written'[w]
    BY <1>12, <2>4
  <2>8. heap[Iter] > 0 => Complete(heap[Iter], written)' /\ Complete(heap[Iter], synced)'
    BY <1>4, <1>12, <1>25, <2>4 DEF Complete, LastSynced
  <2>9. QED
    BY <1>4, <1>25, <2>5, <2>6, <2>7, <2>8 DEF WrittenUpTo, LastSynced, Complete
<1>20. \A id \in Ids : Begun(id)' \/ heap'[Iter] > 0 => HasCopied(id)'
  BY <1>4, <1>8, <1>13, <1>15 DEF Calculating, HasCopied
<1>21. ASSUME NEW id \in Ids, NEW v \in Counted, v \in VerticesOf(heap, id)
       PROVE  Begun(id)' <=> <<heap[Iter] + 1, v>> \in DOMAIN written'
  <2>1. CASE id = me
    BY <1>8, <1>10, <1>11, <1>21, <2>1 DEF new
  <2>2. CASE id # me
    <3>1. v \notin VerticesOf(heap, me)
      BY <1>1, <1>2, <1>21, <2>2, PartsFacts
    <3>2. <<heap[Iter] + 1, v>> \notin DOMAIN new
      BY <1>10, <3>1 DEF new
    <3>3. Begun(id) <=> <<heap[Iter] + 1, v>> \in DOMAIN written
      BY <1>21 DEF Calculating
    <3>4. Begun(id)' <=> Begun(id)
      BY <1>8, <2>2
    <3>5. QED
      BY <1>11, <3>2, <3>3, <3>4
  <2>3. QED
    BY <2>1, <2>2
<1>26. ASSUME NEW w \in DOMAIN written', w[1] = heap[Iter] + 1
       PROVE  written'[w] = Iterates!Share(w[2])'
  <2>1. CASE w \in DOMAIN new
    BY <1>11, <1>24, <2>1
  <2>2. CASE w \notin DOMAIN new
    <3>1. w \in DOMAIN written
      BY <1>11, <2>2
    <3>2. written[w] = Iterates!Share(w[2])
      BY <1>26, <3>1 DEF Calculating
    <3>3. QED
      BY <1>12, <1>24, <3>1, <3>2
  <2>3. QED
    BY <2>1, <2>2
<1>22. Calculating'
  <2>1. heap'[Iter] <= MAX_ITER /\ printed' = <<>>
    BY <1>4 DEF Calculating
  <2>2. /\ \A id \in Ids, v \in Counted' : v \in VerticesOf(heap', id) =>
             (Begun(id)' <=> <<heap'[Iter] + 1, v>> \in DOMAIN written')
        /\ \A w \in DOMAIN written' :
             w[1] = heap'[Iter] + 1 => written'[w] = Iterates!Share(w[2])'
    BY <1>4, <1>21, <1>25, <1>26
  <2>3. QED
    BY <1>4, <1>8, <1>18, <1>19, <1>20, <2>1, <2>2 DEF Calculating
<1>23. QED
  BY <1>1, <1>4, <1>12, <1>16, <1>22 DEF PageRankInv, Iterating

-----------------------------------------------------------------------------
(* Commits of iterations: they write the status and iter only.             *)

LEMMA MemoryKept ==
  ASSUME in \in Inputs, GraphKept, in' = in, NEW writes, heap' = Over(writes, heap),
         DOMAIN writes \subseteq {Status(id) : id \in Ids} \cup {Iter},
         \A id \in Ids : Status(id) \in DOMAIN writes
           => writes[Status(id)] \in {TASK_STATUS_CREATED, TASK_STATUS_FINISHED},
         Iter \in DOMAIN writes => writes[Iter] \in 0 .. (MAX_ITER + 1)
  PROVE  /\ GraphKept'
         /\ \A l \in DOMAIN writes : heap'[l] = writes[l]
         /\ \A l \in Locations : l \notin DOMAIN writes => heap'[l] = heap[l]
         /\ \A id \in Ids : VerticesOf(heap', id) = VerticesOf(heap, id)
         /\ CopiesKept /\ sticky' = sticky => CopiesKept'
<1>1. DOMAIN heap = Locations
  BY KeptFacts
<1>2. DOMAIN writes \subseteq Locations
  BY Places
<1>3. heap' = [l \in Locations |-> heap'[l]]
  <2> DEFINE all == DOMAIN writes \cup DOMAIN heap
  <2>1. all = Locations
    BY <1>1, <1>2
  <2>2. heap' = [l \in all |-> Over(writes, heap)[l]]
    BY OverFunction
  <2> HIDE DEF all
  <2>3. QED
    BY <2>1, <2>2
<1>4. /\ \A l \in DOMAIN writes : heap'[l] = writes[l]
      /\ \A l \in Locations : l \notin DOMAIN writes => heap'[l] = heap[l]
  BY <1>1, OverNew, OverOld
<1>5. /\ \A l \in GraphLocations : l \in Locations /\ l \notin DOMAIN writes
      /\ \A id \in Ids, o \in BEGIN .. IN_END :
           Partition(id, o) \in Locations /\ Partition(id, o) \notin DOMAIN writes
      /\ Count \in Locations /\ Count \notin DOMAIN writes
  BY Places, BlankFacts
<1>6. /\ \A l \in GraphLocations : heap'[l] = heap[l]
      /\ \A id \in Ids, o \in BEGIN .. IN_END :
           heap'[Partition(id, o)] = heap[Partition(id, o)]
      /\ heap'[Count] = heap[Count]
  BY <1>4, <1>5
<1>7. /\ \A l \in GraphLocations : heap[l] = Loaded[l]
      /\ \A id \in Ids, o \in BEGIN .. IN_END :
           heap[Partition(id, o)] = BuildPartitions(Loaded)[Partition(id, o)]
      /\ heap[Count] = CountOf(Edges(in))
      /\ heap[Iter] \in 0 .. (MAX_ITER + 1)
      /\ \A id \in Ids : heap[Status(id)] \in {TASK_STATUS_CREATED, TASK_STATUS_FINISHED}
  BY DEF GraphKept
<1>8. heap'[Iter] \in 0 .. (MAX_ITER + 1)
  BY <1>4, <1>7, Places
<1>9. \A id \in Ids : heap'[Status(id)] \in {TASK_STATUS_CREATED, TASK_STATUS_FINISHED}
  BY <1>4, <1>7, Places
<1>10. GraphKept'
  <2>1. Loaded' = Loaded
    BY DEF Loaded
  <2>2. QED
    BY <1>3, <1>6, <1>7, <1>8, <1>9, <2>1 DEF GraphKept
<1>11. /\ BEGIN \in BEGIN .. IN_END /\ END \in BEGIN .. IN_END
       /\ IN_BEGIN \in BEGIN .. IN_END /\ IN_END \in BEGIN .. IN_END
  BY DEF BEGIN, END, IN_BEGIN, IN_END
<1>12. \A id \in Ids : /\ VerticesOf(heap', id) = VerticesOf(heap, id)
                       /\ Copied(heap', id) = Copied(heap, id)
  BY <1>6, <1>11 DEF VerticesOf, Copied
<1>13. ASSUME NEW id \in Ids, NEW l \in Copied(heap, id)
       PROVE  Read(heap', l) = Read(heap, l)
  <2>1. l \notin DOMAIN writes
    BY CopiedFacts, Places
  <2>2. DOMAIN heap' = Locations
    BY <1>3
  <2>3. QED
    BY <1>1, <1>4, <2>1, <2>2 DEF Read
<1>14. \A id \in Ids : [l \in Copied(heap', id) |-> Read(heap', l)]
                         = [l \in Copied(heap, id) |-> Read(heap, l)]
  BY <1>12, <1>13
<1>15. ASSUME CopiesKept, sticky' = sticky PROVE CopiesKept'
  BY <1>14, <1>15 DEF CopiesKept
<1>16. QED
  BY <1>4, <1>10, <1>12, <1>15

\* The tasks after a commit.
LEMMA CommitTasks ==
  ASSUME TasksKept, NEW t \in tasks, Commit(t), NEW last,
         \A w \in watchers \cup t.end.types : w.do = "barrier_task" /\ w.arg \in 0 .. last,
         \A u \in tasks \ Runners : u # t =>
           Fitting(Missing(u, PagesOf(DOMAIN t.end.writes)), last, heap'),
         \A r \in t.end.runners : \E do, arg : r = Task(do, arg) /\ do # "barrier_task"
  PROVE  /\ \A w \in watchers' : w.do = "barrier_task" /\ w.arg \in 0 .. last
         /\ \A v \in tasks' \ Runners' : Fitting(v, last, heap')
         /\ \A v \in Runners' :
              \/ v \in t.end.runners
              \/ \E u \in Runners \ {t} : v = Missing(u, PagesOf(DOMAIN t.end.writes))
         /\ t.end.runners \subseteq Runners'
         /\ \A v \in tasks' : IsTask(v) /\ (Runs(v) \/ v.missed = {})
<1> DEFINE pages == PagesOf(DOMAIN t.end.writes)
<1>1. /\ watchers' \subseteq watchers \cup t.end.types
      /\ t.end.runners \subseteq tasks'
      /\ \A v \in tasks' :
           \/ \E u \in tasks \ {t} : v = Missing(u, pages)
           \/ v \in t.end.runners
           \/ /\ IsTask(v) /\ v.missed = {} /\ ~Runs(v)
              /\ \E w \in watchers \cup t.end.types : v.do = w.do /\ v.arg = w.arg
  BY CommitFacts
<1>2. \A r \in t.end.runners : /\ IsTask(r) /\ r.missed = {} /\ ~Runs(r)
                               /\ r.do # "barrier_task"
  BY TaskFacts
<1>3. \A u \in tasks : LET v == Missing(u, pages) IN
        /\ IsTask(v) /\ v.do = u.do /\ (Runs(v) <=> Runs(u)) /\ (~Runs(u) => v = u)
  BY MissingFacts DEF TasksKept
<1> HIDE DEF pages
<1>4. \A v \in tasks' : IsTask(v) /\ (Runs(v) \/ v.missed = {})
  BY <1>1, <1>2, <1>3 DEF TasksKept
<1>5. ASSUME NEW v \in tasks', v.do = "barrier_task" PROVE Fitting(v, last, heap')
  <2>1. CASE \E u \in tasks \ {t} : v = Missing(u, pages)
    <3>1. PICK u \in tasks \ {t} : v = Missing(u, pages)
      BY <2>1
    <3>2. u \in tasks \ Runners
      BY <1>3, <1>5, <3>1 DEF Runners
    <3>3. QED
      BY <3>1, <3>2 DEF pages
  <2>2. CASE v \in t.end.runners
    BY <1>2, <1>5, <2>2
  <2>3. CASE /\ ~Runs(v)
             /\ \E w \in watchers \cup t.end.types : v.do = w.do /\ v.arg = w.arg
    BY <2>3 DEF Fitting
  <2>4. QED
    BY <1>1, <2>1, <2>2, <2>3
<1>6. \A v \in tasks' \ Runners' : Fitting(v, last, heap')
  BY <1>5 DEF Runners
<1>7. ASSUME NEW v \in Runners'
      PROVE  v \in t.end.runners \/ \E u \in Runners \ {t} : v = Missing(u, pages)
  <2>1. v \in tasks' /\ v.do # "barrier_task"
    BY DEF Runners
  <2>2. CASE \E u \in tasks \ {t} : v = Missing(u, pages)
    BY <1>3, <2>1, <2>2 DEF Runners
  <2>3. CASE \E w \in watchers \cup t.end.types : v.do = w.do /\ v.arg = w.arg
    BY <2>1, <2>3
  <2>4. QED
    BY <1>1, <2>1, <2>2, <2>3
<1>8. t.end.runners \subseteq Runners'
  BY <1>1, <1>2 DEF Runners
<1>9. QED
  BY <1>1, <1>4, <1>6, <1>7, <1>8 DEF pages

\* topk writes nothing.
LEMMA TopkCommits ==
  ASSUME PageRankInv, Iterating, Between, Unchanged, UNCHANGED Outside,
         NEW t \in tasks, t.do = "topk", Commit(t)
  PROVE  PageRankInv'
<1> DEFINE pages == PagesOf(DOMAIN t.end.writes)
<1>1. /\ in \in Inputs /\ CopiesKept /\ GraphKept /\ program = "pagerank-frompmem"
      /\ TasksKept
  BY IterRunners
<1>2. t \in Runners /\ t.end = Body(t, heap)
  BY <1>1, CommitFacts DEF Runners, TasksKept
<1>3. t.end.writes = NoWrites /\ t.end.runners = {} /\ t.end.types = {}
  BY <1>2, RunnerEnds
<1>4. heap' = heap
  <2>1. heap' = Over(NoWrites, heap)
    BY <1>3, CommitFacts
  <2>2. heap = [l \in Locations |-> heap[l]]
    BY <1>1 DEF GraphKept
  <2>3. QED
    BY <2>1, <2>2, OverSame, NothingWritten
<1>5. /\ in' = in /\ program' = program /\ sticky' = sticky
      /\ written' = written /\ synced' = synced /\ printed' = printed
  BY DEF Unchanged, Outside
<1>6. /\ \A w \in watchers : w.do = "barrier_task" /\ w.arg \in 0 .. (heap[Iter] - 1)
      /\ \A u \in tasks \ Runners : Fitting(u, heap[Iter] - 1, heap)
  BY DEF Between, BarriersFit, Fitting
<1>7. \A u \in tasks \ Runners : Fitting(Missing(u, pages), heap[Iter] - 1, heap)
  <2>1. pages = {}
    BY <1>3, NothingWritten
  <2>2. ASSUME NEW u \in tasks
        PROVE  LET v == Missing(u, {}) IN
               /\ v.arg = u.arg /\ v.end = u.end
               /\ Runs(v) <=> Runs(u) /\ (Refused(v) <=> Refused(u))
    <3>1. IsTask(u)
      BY <1>1 DEF TasksKept
    <3>2. PagesOf(DOMAIN u.end.writes) \cap {} = {}
      OBVIOUS
    <3>3. QED
      BY <3>1, <3>2, MissingFacts
  <2>3. ASSUME NEW u \in tasks \ Runners
        PROVE  Fitting(Missing(u, {}), heap[Iter] - 1, heap)
    BY <1>6, <2>2 DEF Fitting
  <2>4. QED
    BY <2>1, <2>3
<1>8. /\ \A w \in watchers' : w.do = "barrier_task" /\ w.arg \in 0 .. (heap[Iter] - 1)
      /\ \A v \in tasks' \ Runners' : Fitting(v, heap[Iter] - 1, heap)
      /\ \A v \in Runners' : \E u \in Runners \ {t} : v = Missing(u, pages)
      /\ \A v \in tasks' : IsTask(v) /\ (Runs(v) \/ v.missed = {})
  BY <1>1, <1>3, <1>4, <1>6, <1>7, CommitTasks
<1>9. Runners' = {}
  BY <1>2, <1>8 DEF Between
<1>10. TasksKept'
  BY <1>8, <1>9 DEF TasksKept
<1>11. GraphKept' /\ CopiesKept'
  BY <1>1, <1>4, <1>5 DEF GraphKept, CopiesKept, Loaded
<1>12. BarriersFit(heap[Iter] - 1)'
  BY <1>4, <1>8 DEF BarriersFit, Fitting
<1>13. WrittenUpTo(heap[Iter])' /\ (heap[Iter] > 0 => \A id \in Ids : HasCopied(id))'
  <2>1. Counted' = Counted
    BY <1>5 DEF Counted
  <2>2. QED
    BY <1>4, <1>5, <2>1 DEF Between, WrittenUpTo, HasCopied, Complete
<1>14. Between'
  <2>1. heap'[Iter] <= MAX_ITER => printed' = <<>>
    BY <1>4, <1>5 DEF Between
  <2>2. QED
    BY <1>9, <1>12, <1>13, <2>1 DEF Between
<1>15. QED
  BY <1>1, <1>5, <1>9, <1>10, <1>11, <1>14 DEF PageRankInv, Iterating

\* new_iter_task creates a runner for each part and a barrier: an iteration begins.
LEMMA NewIterCommits ==
  ASSUME PageRankInv, Iterating, Between, Unchanged, UNCHANGED Outside,
         NEW t \in tasks, t.do = "new_iter_task", Commit(t)
  PROVE  PageRankInv'
<1> DEFINE pages == PagesOf(DOMAIN t.end.writes)
           created == [l \in {Status(id) : id \in Ids} |-> TASK_STATUS_CREATED]
<1>1. /\ in \in Inputs /\ CopiesKept /\ GraphKept /\ program = "pagerank-frompmem"
      /\ TasksKept /\ heap[Iter] \in Nat
  BY IterRunners
<1>2. t \in Runners /\ t.end = Body(t, heap) /\ Commit(t)
  BY <1>1, CommitFacts DEF Runners, TasksKept
<1>3. /\ t.end.writes = created /\ t.end.runners = CalcTasks
      /\ t.end.types = {Barrier(heap[Iter])}
  BY <1>2, RunnerEnds
<1>4. /\ DOMAIN created = {Status(id) : id \in Ids}
      /\ \A id \in Ids : created[Status(id)] = TASK_STATUS_CREATED
      /\ \A id : Status(id) # Iter
  BY Places
<1>5. heap' = Over(created, heap)
  BY <1>3, CommitFacts
<1> HIDE DEF created
<1>6. /\ in' = in /\ program' = program /\ sticky' = sticky
      /\ written' = written /\ synced' = synced /\ printed' = printed
  BY DEF Unchanged, Outside
<1>7. /\ GraphKept' /\ CopiesKept'
      /\ \A l \in DOMAIN created : heap'[l] = created[l]
      /\ \A l \in Locations : l \notin DOMAIN created => heap'[l] = heap[l]
  BY <1>1, <1>4, <1>5, <1>6, MemoryKept
<1>8. /\ heap'[Iter] = heap[Iter]
      /\ \A id \in Ids : heap'[Status(id)] = TASK_STATUS_CREATED
  BY <1>4, <1>7, Places
<1>9. \A w \in watchers \cup t.end.types : w.do = "barrier_task" /\ w.arg \in 0 .. heap[Iter]
  <2>1. \A w \in watchers : w.do = "barrier_task" /\ w.arg \in 0 .. (heap[Iter] - 1)
    BY DEF Between, BarriersFit
  <2>2. LET w == Barrier(heap[Iter]) IN w.do = "barrier_task" /\ w.arg = heap[Iter]
    BY DEF Barrier, Watcher
  <2>3. QED
    BY <1>1, <1>3, <2>1, <2>2
<1>10. ASSUME NEW u \in tasks \ Runners
       PROVE  Fitting(Missing(u, pages), heap[Iter], heap')
  <2>1. /\ u.arg \in 0 .. (heap[Iter] - 1)
        /\ Runs(u) => \/ u.end \in {Aborts("abortd"), Aborts("abort")}
                      \/ /\ u.end = Proceed(u.arg + 1)
                         /\ Refused(u) \/ u.arg = heap[Iter]
    BY DEF Between, BarriersFit
  <2>2. u.arg \in 0 .. heap[Iter] /\ u.arg # heap[Iter]
    BY <1>1, <2>1
  <2>3. IsTask(u)
    BY <1>1 DEF TasksKept
  <2>4. LET v == Missing(u, pages) IN
        /\ v.arg = u.arg /\ v.end = u.end
        /\ Runs(v) <=> Runs(u)
        /\ Refused(u) => Refused(v)
    BY <2>3, MissingFacts
  <2> HIDE DEF pages
  <2>5. QED
    BY <2>1, <2>2, <2>4 DEF Fitting
<1>11. /\ CalcTasks = {Task("calc_task", id) : id \in Ids}
       /\ \A id : LET r == Task("calc_task", id) IN
            r.do = "calc_task" /\ r.arg = id /\ IsTask(r) /\ ~Runs(r) /\ ~Refused(r)
  BY TaskFacts DEF CalcTasks
<1>12. /\ \A w \in watchers' : w.do = "barrier_task" /\ w.arg \in 0 .. heap[Iter]
       /\ \A v \in tasks' \ Runners' : Fitting(v, heap[Iter], heap')
       /\ \A v \in Runners' : \/ v \in t.end.runners
                              \/ \E u \in Runners \ {t} : v = Missing(u, pages)
       /\ t.end.runners \subseteq Runners'
       /\ \A v \in tasks' : IsTask(v) /\ (Runs(v) \/ v.missed = {})
  <2>1. \A r \in t.end.runners : \E do, arg : r = Task(do, arg) /\ do # "barrier_task"
    BY <1>3, <1>11
  <2>2. QED
    BY <1>1, <1>2, <1>9, <1>10, <2>1, CommitTasks
<1>13. Runners' = CalcTasks
  <2>1. Runners \ {t} = {}
    BY <1>2 DEF Between
  <2>2. QED
    BY <1>3, <1>12, <2>1
<1>14. \A v \in Runners' : /\ \E id \in Ids : v = Task("calc_task", id)
                           /\ v.do = "calc_task" /\ v.arg \in Ids /\ ~Runs(v) /\ ~Refused(v)
                           /\ v = Task("calc_task", v.arg)
  BY <1>11, <1>13
<1>15. TasksKept'
  BY <1>12, <1>14 DEF TasksKept
<1>16. BarriersFit(heap[Iter])'
  BY <1>8, <1>12 DEF BarriersFit, Fitting
<1>17. WrittenUpTo(heap[Iter] + 1)'
  <2>1. 1 .. heap[Iter] \subseteq 1 .. (heap[Iter] + 1)
    BY <1>1
  <2>2. WrittenUpTo(heap[Iter])
    BY DEF Between
  <2>3. Counted' = Counted
    BY <1>6 DEF Counted
  <2>4. DOMAIN written' \subseteq (1 .. (heap[Iter] + 1)) \X Counted
    BY <1>6, <2>1, <2>2 DEF WrittenUpTo
  <2>5. QED
    BY <1>6, <1>8, <2>2, <2>3, <2>4 DEF WrittenUpTo, Complete
<1>18. \A id \in Ids : ~Begun(id)'
  <2>1. \A id \in Ids : Task("calc_task", id) \in Runners'
    BY <1>11, <1>13
  <2>2. QED
    BY <1>11, <2>1 DEF Begun
<1>19. \A id \in Ids : heap'[Iter] > 0 => HasCopied(id)'
  BY <1>6, <1>8 DEF Between, HasCopied
<1>20. \A v : <<heap[Iter] + 1, v>> \notin DOMAIN written
  <2>1. heap[Iter] + 1 \notin 1 .. heap[Iter]
    BY <1>1
  <2>2. QED
    BY <2>1 DEF Between, WrittenUpTo
<1>21. heap[Iter] <= MAX_ITER /\ LastSynced /\ printed = <<>>
  <2>1. Runs(t)
    BY CommitFacts
  <2>2. QED
    BY <1>2, <2>1 DEF Between
<1>24. heap'[Iter] <= MAX_ITER /\ LastSynced' /\ printed' = <<>>
  BY <1>6, <1>8, <1>21 DEF LastSynced, Complete, Counted
<1>25. \A w \in DOMAIN written' : w[1] # heap'[Iter] + 1
  <2>1. ASSUME NEW w \in DOMAIN written PROVE w = <<w[1], w[2]>>
    BY DEF Between, WrittenUpTo
  <2>2. QED
    BY <1>6, <1>8, <1>20, <2>1
<1>22. Calculating'
  BY <1>6, <1>8, <1>14, <1>16, <1>17, <1>18, <1>19, <1>20, <1>24, <1>25 DEF Calculating
<1>23. QED
  BY <1>1, <1>6, <1>7, <1>14, <1>15, <1>22 DEF PageRankInv, Iterating

\* A task has finished with its part: whatever happened meanwhile, nobody else has
\* written its status.
LEMMA CalcCommits ==
  ASSUME PageRankInv, Iterating, Calculating, Unchanged, UNCHANGED Outside,
         NEW t \in tasks, t.do = "calc_task", Commit(t)
  PROVE  PageRankInv'
<1> DEFINE pages == PagesOf(DOMAIN t.end.writes)
           me == t.arg
           done == Holds(Status(me), TASK_STATUS_FINISHED)
<1>1. /\ in \in Inputs /\ CopiesKept /\ GraphKept /\ program = "pagerank-frompmem"
      /\ TasksKept /\ heap[Iter] \in Nat
      /\ \A r \in Runners : ~Refused(r) /\ (Runs(r) => r.end = Body(r, heap))
  BY IterRunners
<1>2. t \in Runners /\ Runs(t) /\ t.end = Body(t, heap) /\ me \in Ids
  BY <1>1, CommitFacts DEF Runners, TasksKept, Calculating
<1>3. t.end.writes = done /\ t.end.runners = {} /\ t.end.types = {}
  BY <1>2, RunnerEnds
<1>4. DOMAIN done = {Status(me)} /\ done[Status(me)] = TASK_STATUS_FINISHED
  BY HoldsFacts
<1>5. heap' = Over(done, heap) /\ pages = {<<"task_status", me>>}
  BY <1>2, <1>3, <1>4, CommitFacts, StatusPages
<1> HIDE DEF done, pages
<1>6. /\ in' = in /\ program' = program /\ sticky' = sticky
      /\ written' = written /\ synced' = synced /\ printed' = printed
  BY DEF Unchanged, Outside
<1>7. \A id \in Ids : Status(id) # Iter /\ (Status(id) = Status(me) => id = me)
  BY <1>2, Places, StatusPages
<1>8. /\ GraphKept' /\ CopiesKept'
      /\ \A l \in DOMAIN done : heap'[l] = done[l]
      /\ \A l \in Locations : l \notin DOMAIN done => heap'[l] = heap[l]
      /\ \A id \in Ids : VerticesOf(heap', id) = VerticesOf(heap, id)
  <2>1. DOMAIN done \subseteq {Status(id) : id \in Ids} \cup {Iter}
    BY <1>2, <1>4
  <2>2. \A id \in Ids : Status(id) \in DOMAIN done
          => done[Status(id)] \in {TASK_STATUS_CREATED, TASK_STATUS_FINISHED}
    BY <1>4
  <2>3. Iter \notin DOMAIN done
    BY <1>2, <1>4, <1>7
  <2>4. QED
    BY <1>1, <1>5, <1>6, <2>1, <2>2, <2>3, MemoryKept
<1>9. /\ heap'[Iter] = heap[Iter]
      /\ \A id \in Ids : id # me => heap'[Status(id)] = heap[Status(id)]
  BY <1>2, <1>4, <1>7, <1>8, Places
<1>10. \A w \in watchers \cup t.end.types : w.do = "barrier_task" /\ w.arg \in 0 .. heap[Iter]
  BY <1>3 DEF Calculating, BarriersFit
<1>11. ~AllFinished(heap)
  BY <1>2 DEF Calculating, AllFinished, TASK_STATUS_CREATED, TASK_STATUS_FINISHED
<1>12. ASSUME NEW u \in tasks \ Runners
       PROVE  Fitting(Missing(u, pages), heap[Iter], heap')
  <2>1. /\ u.arg \in 0 .. heap[Iter]
        /\ Runs(u) => \/ u.end \in {Aborts("abortd"), Aborts("abort")}
                      \/ u.end = Proceed(u.arg + 1) /\ Refused(u)
    BY <1>11 DEF Calculating, BarriersFit
  <2>2. IsTask(u)
    BY <1>1 DEF TasksKept
  <2>3. LET v == Missing(u, pages) IN
        /\ v.arg = u.arg /\ v.end = u.end
        /\ Runs(v) <=> Runs(u)
        /\ Refused(u) => Refused(v)
    BY <2>2, MissingFacts
  <2>4. QED
    BY <2>1, <2>3 DEF Fitting
<1>13. /\ \A w \in watchers' : w.do = "barrier_task" /\ w.arg \in 0 .. heap[Iter]
       /\ \A v \in tasks' \ Runners' : Fitting(v, heap[Iter], heap')
       /\ \A v \in Runners' : \E u \in Runners \ {t} : v = Missing(u, pages)
       /\ \A v \in tasks' : IsTask(v) /\ (Runs(v) \/ v.missed = {})
  BY <1>1, <1>3, <1>10, <1>12, CommitTasks DEF pages
<1>14. ASSUME NEW u \in Runners \ {t}
       PROVE  LET v == Missing(u, pages) IN
              /\ v.do = "calc_task" /\ v.arg = u.arg /\ u.arg \in Ids /\ u.arg # me
              /\ v.end = u.end /\ (Runs(v) <=> Runs(u)) /\ ~Refused(v)
              /\ Runs(v) => v.end = CalcTask(v.arg)
              /\ ~Runs(u) => v = u
  <2>1. IsTask(u) /\ ~Refused(u)
    BY <1>1 DEF TasksKept, Runners
  <2>2. u.do = "calc_task" /\ u.arg \in Ids /\ u.arg # me
    BY <1>2 DEF Calculating
  <2>3. Runs(u) => u.end = CalcTask(u.arg)
    BY <1>1, <2>2, Bodies
  <2>4. Runs(u) => PagesOf(DOMAIN u.end.writes) \cap pages = {}
    <3>1. SUFFICES ASSUME Runs(u) PROVE PagesOf(DOMAIN u.end.writes) \cap pages = {}
      OBVIOUS
    <3>2. u.end.writes = Holds(Status(u.arg), TASK_STATUS_FINISHED)
      BY <1>1, <2>2, <3>1, RunnerEnds
    <3>3. DOMAIN u.end.writes = {Status(u.arg)}
      BY <3>2, HoldsFacts
    <3>4. PagesOf(DOMAIN u.end.writes) = {<<"task_status", u.arg>>}
      BY <2>2, <3>3, StatusPages
    <3>5. QED
      BY <1>5, <2>2, <3>4
  <2>5. LET v == Missing(u, pages) IN
        /\ v.do = u.do /\ v.arg = u.arg /\ v.end = u.end
        /\ Runs(v) <=> Runs(u)
        /\ ~Runs(u) => v = u
        /\ PagesOf(DOMAIN u.end.writes) \cap pages = {} => (Refused(v) <=> Refused(u))
    BY <2>1, MissingFacts
  <2>6. QED
    BY <2>1, <2>2, <2>3, <2>4, <2>5
<1>15. /\ \A v \in Runners' : /\ v.do = "calc_task" /\ v.arg \in Ids /\ ~Refused(v)
                              /\ heap[Status(v.arg)] = TASK_STATUS_CREATED /\ v.arg # me
                              /\ Runs(v) => v.end = CalcTask(v.arg)
       /\ \A v, w \in Runners' : v.arg = w.arg => v = w
  <2>1. /\ \A r \in Runners : heap[Status(r.arg)] = TASK_STATUS_CREATED
        /\ \A r, u \in Runners : r.arg = u.arg => r = u
    BY DEF Calculating
  <2>2. /\ \A v \in Runners' : /\ v.do = "calc_task" /\ v.arg \in Ids /\ ~Refused(v)
                               /\ heap[Status(v.arg)] = TASK_STATUS_CREATED /\ v.arg # me
                               /\ Runs(v) => v.end = CalcTask(v.arg)
    BY <1>13, <1>14, <2>1
  <2>3. \A v, w \in Runners' : v.arg = w.arg => v = w
    BY <1>13, <1>14, <2>1
  <2>4. QED
    BY <2>2, <2>3
<1>16. \A id \in Ids : Begun(id)' <=> Begun(id)
  <2>1. ASSUME NEW id \in Ids, Begun(id)', NEW r \in Runners, r.arg = id
        PROVE  Runs(r)
    <3>1. CASE r = t
      BY <1>2, <3>1
    <3>2. CASE r # t
      <4>1. r \in Runners \ {t}
        BY <3>2
      <4> DEFINE v == Missing(r, pages)
      <4>2. v \in tasks'
        BY <4>1, CommitFacts DEF Runners, pages
      <4>3. v.do = "calc_task" /\ v.arg = id /\ (Runs(v) <=> Runs(r))
        BY <1>14, <2>1, <4>1
      <4> HIDE DEF v
      <4>4. v \in Runners'
        BY <4>2, <4>3 DEF Runners
      <4>5. QED
        BY <2>1, <4>3, <4>4 DEF Begun
    <3>3. QED
      BY <3>1, <3>2
  <2>2. ASSUME NEW id \in Ids, Begun(id), NEW v \in Runners', v.arg = id
        PROVE  Runs(v)
    <3>1. PICK u \in Runners \ {t} : v = Missing(u, pages)
      BY <1>13
    <3>2. u.arg = id /\ (Runs(v) <=> Runs(u))
      BY <1>14, <2>2, <3>1
    <3>3. QED
      BY <2>2, <3>1, <3>2 DEF Begun
  <2>3. QED
    BY <2>1, <2>2 DEF Begun
<1>17. TasksKept'
  <2>1. \A v \in Runners' : Runs(v) => v.end = Body(v, heap')
    BY <1>15, Bodies
  <2>2. \A v \in Runners' : Runs(v) => v.end = Body(v, heap)'
    BY <2>1, BodyNext
  <2>3. QED
    BY <1>13, <2>2 DEF TasksKept
<1>18. BarriersFit(heap[Iter])'
  BY <1>9, <1>13 DEF BarriersFit, Fitting
<1>19. WrittenUpTo(heap[Iter] + 1)'
  <2>1. Counted' = Counted
    BY <1>6 DEF Counted
  <2>2. QED
    BY <1>6, <1>9, <2>1 DEF Calculating, WrittenUpTo, Complete
<1>20. /\ \A id \in Ids : Begun(id)' \/ heap'[Iter] > 0 => HasCopied(id)'
       /\ \A id \in Ids, v \in Counted' : v \in VerticesOf(heap', id) =>
            (Begun(id)' <=> <<heap'[Iter] + 1, v>> \in DOMAIN written')
       /\ \A w \in DOMAIN written' :
            w[1] = heap'[Iter] + 1 => written'[w] = Iterates!Share(w[2])'
       /\ LastSynced' /\ printed' = <<>>
  <2>1. \A id \in Ids : HasCopied(id)' <=> HasCopied(id)
    BY <1>6 DEF HasCopied
  <2>2. Counted' = Counted /\ (LastSynced => LastSynced')
    BY <1>6, <1>9 DEF Counted, LastSynced, Complete
  <2>3. \A v : Iterates!Share(v)' = Iterates!Share(v)
    BY <1>1, <1>6, <1>9, ShareKept DEF Calculating, WrittenUpTo
  <2>4. QED
    BY <1>6, <1>8, <1>9, <1>16, <2>1, <2>2, <2>3 DEF Calculating
<1>21. Calculating'
  <2>1. heap'[Iter] <= MAX_ITER
    BY <1>9 DEF Calculating
  <2>2. \A v \in Runners' : heap'[Status(v.arg)] = TASK_STATUS_CREATED
    BY <1>9, <1>15
  <2>3. QED
    BY <1>15, <1>18, <1>19, <1>20, <2>1, <2>2 DEF Calculating
<1>22. QED
  BY <1>1, <1>6, <1>8, <1>15, <1>17, <1>21 DEF PageRankInv, Iterating

\* The barrier moves on: every task has finished, and any other barrier that ended
\* with a commit is refused now, because it wrote iter as well.
LEMMA BarrierCommits ==
  ASSUME PageRankInv, Iterating, Unchanged, UNCHANGED Outside,
         NEW t \in tasks, t \notin Runners, Commit(t)
  PROVE  /\ PageRankInv'
         /\ Calculating /\ heap'[Iter] = heap[Iter] + 1 /\ Complete(heap[Iter] + 1, written)
<1> DEFINE pages == PagesOf(DOMAIN t.end.writes)
           next == t.arg + 1
           more == Holds(Iter, next)
           r == Task(IF next = MAX_ITER + 1 THEN "topk" ELSE "new_iter_task", 0)
<1>1. /\ in \in Inputs /\ CopiesKept /\ GraphKept /\ program = "pagerank-frompmem"
      /\ TasksKept /\ heap[Iter] \in Nat
  BY IterRunners
<1>2. Runs(t) /\ Commits(t.end) /\ ~Refused(t)
  BY CommitFacts
<1>3. \A last : BarriersFit(last) =>
        t.arg \in 0 .. last /\ t.end = Proceed(t.arg + 1) /\ t.arg = heap[Iter] /\ AllFinished(heap)
  BY <1>2, AbortFacts DEF BarriersFit
<1>4. ~Between
  BY <1>1, <1>3 DEF Between
<1>5. /\ Calculating /\ t.end = Proceed(next) /\ t.arg = heap[Iter] /\ AllFinished(heap)
      /\ next = heap[Iter] + 1
  BY <1>3, <1>4 DEF Iterating, Calculating
<1>6. Runners = {}
  BY <1>5 DEF Calculating, AllFinished, TASK_STATUS_CREATED, TASK_STATUS_FINISHED
<1>7. t.end.writes = more /\ t.end.types = {} /\ t.end.runners = {r}
  BY <1>5, ProceedFacts
<1>8. /\ DOMAIN more = {Iter} /\ more[Iter] = next
      /\ pages = {PageOf(Iter)} /\ heap' = Over(more, heap)
  <2>1. DOMAIN more = {Iter} /\ more[Iter] = next
    BY HoldsFacts
  <2>2. pages = {PageOf(Iter)}
    BY <1>7, <2>1, IterPage
  <2>3. heap' = Over(more, heap)
    BY <1>7, CommitFacts
  <2>4. QED
    BY <2>1, <2>2, <2>3
<1>9. /\ r.do \in {"topk", "new_iter_task"} /\ (next # MAX_ITER + 1 => r.do = "new_iter_task")
      /\ (next = MAX_ITER + 1 => r.do = "topk")
      /\ IsTask(r) /\ ~Runs(r) /\ ~Refused(r)
      /\ \E do : r = Task(do, 0) /\ do # "barrier_task"
  BY TaskFacts
<1>10. /\ next \in 0 .. (MAX_ITER + 1) /\ next \in Nat /\ next > 0
       /\ next # MAX_ITER + 1 => next <= MAX_ITER
       /\ next - 1 = heap[Iter]
  BY <1>1, <1>5, Constants DEF Calculating
<1> HIDE DEF more, pages, next, r
<1>11. /\ in' = in /\ program' = program /\ sticky' = sticky
       /\ written' = written /\ synced' = synced /\ printed' = printed
  BY DEF Unchanged, Outside
<1>12. GraphKept' /\ CopiesKept' /\ \A l \in DOMAIN more : heap'[l] = more[l]
  <2>1. \A id \in Ids : Status(id) \notin DOMAIN more
    BY <1>8, Places
  <2>2. QED
    BY <1>1, <1>8, <1>10, <1>11, <2>1, MemoryKept
<1>13. heap'[Iter] = next
  BY <1>8, <1>12
<1>14. \A w \in watchers \cup t.end.types : w.do = "barrier_task" /\ w.arg \in 0 .. heap[Iter]
  BY <1>5, <1>7 DEF Calculating, BarriersFit
<1>15. ASSUME NEW u \in tasks \ Runners
       PROVE  Fitting(Missing(u, pages), heap[Iter], heap')
  <2>1. /\ u.arg \in 0 .. heap[Iter]
        /\ Runs(u) => \/ u.end \in {Aborts("abortd"), Aborts("abort")}
                      \/ u.end = Proceed(u.arg + 1)
    BY <1>5 DEF Calculating, BarriersFit
  <2>2. IsTask(u)
    BY <1>1 DEF TasksKept
  <2>3. u.end = Proceed(u.arg + 1) => PagesOf(DOMAIN u.end.writes) \cap pages # {}
    <3>1. SUFFICES ASSUME u.end = Proceed(u.arg + 1)
                   PROVE  PagesOf(DOMAIN u.end.writes) \cap pages # {}
      OBVIOUS
    <3>2. u.end.writes = Holds(Iter, u.arg + 1)
      BY <3>1, ProceedFacts
    <3>3. PagesOf(DOMAIN u.end.writes) = {PageOf(Iter)}
      BY <3>2, HoldsFacts, IterPage
    <3>4. QED
      BY <1>8, <3>3
  <2>4. LET v == Missing(u, pages) IN
        /\ v.arg = u.arg /\ v.end = u.end
        /\ Runs(v) <=> Runs(u)
        /\ Runs(u) /\ PagesOf(DOMAIN u.end.writes) \cap pages # {} => Refused(v)
    BY <2>2, MissingFacts
  <2>5. QED
    BY <2>1, <2>3, <2>4 DEF Fitting
<1>16. /\ \A w \in watchers' : w.do = "barrier_task" /\ w.arg \in 0 .. heap[Iter]
       /\ \A v \in tasks' \ Runners' : Fitting(v, heap[Iter], heap')
       /\ \A v \in Runners' : v = r
       /\ \A v \in tasks' : IsTask(v) /\ (Runs(v) \/ v.missed = {})
  <2>1. \A x \in t.end.runners : \E do, arg : x = Task(do, arg) /\ do # "barrier_task"
    BY <1>7, <1>9
  <2>2. QED
    BY <1>1, <1>6, <1>7, <1>14, <1>15, <2>1, CommitTasks DEF pages
<1>17. TasksKept'
  BY <1>9, <1>16 DEF TasksKept
<1>18. BarriersFit(heap[Iter] - 1)'
  BY <1>10, <1>13, <1>16 DEF BarriersFit, Fitting
<1>19. WrittenUpTo(heap[Iter])' /\ Complete(next, written)
  <2>1. WrittenUpTo(next)
    BY <1>5 DEF Calculating
  <2>2. \A v \in Counted : <<next, v>> \in DOMAIN written
    <3>1. ASSUME NEW v \in Counted PROVE <<next, v>> \in DOMAIN written
      <4>1. PICK id \in Ids : v \in VerticesOf(heap, id)
        BY <1>1, AllInParts
      <4>2. Begun(id)
        BY <1>6 DEF Begun
      <4>3. QED
        BY <1>5, <4>1, <4>2 DEF Calculating
    <3>2. QED
      BY <3>1
  <2>3. Counted' = Counted
    BY <1>11 DEF Counted
  <2>4. QED
    BY <1>11, <1>13, <2>1, <2>2, <2>3 DEF WrittenUpTo, Complete
<1>20. \A id \in Ids : HasCopied(id)'
  <2>1. \A id \in Ids : Begun(id)
    BY <1>6 DEF Begun
  <2>2. QED
    BY <1>5, <1>11, <2>1 DEF Calculating, HasCopied
<1>21. Between'
  <2>1. printed' = <<>>
    BY <1>5, <1>11 DEF Calculating
  <2>2. \A v \in Runners' : \/ /\ v.do = "new_iter_task" /\ heap'[Iter] <= MAX_ITER
                               /\ Runs(v) => LastSynced'
                            \/ /\ v.do = "topk" /\ heap'[Iter] = MAX_ITER + 1
                               /\ Runs(v) \/ printed' = <<>>
    BY <1>9, <1>10, <1>13, <1>16, <2>1
  <2>3. QED
    BY <1>16, <1>18, <1>19, <1>20, <2>1, <2>2 DEF Between
<1>22. QED
  BY <1>1, <1>5, <1>9, <1>11, <1>12, <1>13, <1>16, <1>17, <1>19, <1>21
     DEF PageRankInv, Iterating

-----------------------------------------------------------------------------
(* The invariant.                                                          *)

\* What is synchronised is what has been written, all of the version in it.
LEMMA SyncedFits ==
  ASSUME NEW version,
         \A w \in DOMAIN synced : w \in DOMAIN written /\ synced[w] = written[w]
  PROVE  LET s == Synchronised(version) IN
         /\ \A w \in DOMAIN s : w \in DOMAIN written /\ s[w] = written[w]
         /\ DOMAIN synced \subseteq DOMAIN s
         /\ \A w \in DOMAIN written : w[1] = version => w \in DOMAIN s
<1> DEFINE those == {u \in DOMAIN written : u[1] = version}
           shown == [w \in those |-> written[w]]
           s == Over(shown, synced)
<1>1. DOMAIN shown = those /\ \A w \in those : shown[w] = written[w]
  OBVIOUS
<1> HIDE DEF shown
<1>2. DOMAIN s = DOMAIN shown \cup DOMAIN synced
  BY OverDomain
<1>3. ASSUME NEW w \in DOMAIN s PROVE w \in DOMAIN written /\ s[w] = written[w]
  <2>1. CASE w \in DOMAIN shown
    BY <1>1, <2>1, OverNew
  <2>2. CASE w \notin DOMAIN shown
    <3>1. w \in DOMAIN synced
      BY <1>2, <2>2
    <3>2. s[w] = synced[w]
      BY <2>2, <3>1, OverOld
    <3>3. QED
      BY <3>1, <3>2
  <2>3. QED
    BY <2>1, <2>2
<1>4. Synchronised(version) = s
  BY DEF Synchronised, shown
<1> HIDE DEF s
<1>5. QED
  BY <1>1, <1>2, <1>3, <1>4

\* Tasks that are not of the iterations, before them.
LEMMA BeforeTasks ==
  ASSUME PageRankInv, Inputting \/ SettingUp, NEW t \in tasks
  PROVE  t.do \in {"main", "init", "shuffle", "init_task"}
  BY DEF Inputting, SettingUp, Alone

\* A runner of the iterations is not aborted or refused.
LEMMA RunnerWaits ==
  ASSUME PageRankInv, Iterating, NEW t \in Runners,
         \/ Schedule(t)
         \/ Start(t, Body(t, heap)) /\ t.do \notin {"calc_task", "new_iter_task", "topk"}
         \/ Abort(t) \/ Refuse(t)
  PROVE  \E u : Again(t, u) /\ ~Runs(u) /\ tasks' = (tasks \ {t}) \cup {u}
<1>1. /\ t.do \in {"calc_task", "new_iter_task", "topk"}
      /\ ~Refused(t) /\ (Runs(t) => Commits(t.end)) /\ TasksKept /\ t \in tasks
  BY IterRunners DEF Runners
<1>2. Schedule(t)
  BY <1>1 DEF Abort, Refuse
<1> DEFINE u == [t EXCEPT !.end = Scheduled]
<1>3. tasks' = (tasks \ {t}) \cup {u} /\ ~Runs(t) /\ IsTask(t) /\ t.missed = {}
  BY <1>1, <1>2 DEF Schedule, Runs, TasksKept
<1>4. Again(t, u) /\ ~Runs(u)
  BY <1>3, EndFacts DEF Runs, Again
<1> HIDE DEF u
<1>5. QED
  BY <1>3, <1>4

LEMMA QuietStep ==
  ASSUME PageRankInv, Unchanged, UNCHANGED Outside, NEW t \in tasks,
         \/ Schedule(t)
         \/ Start(t, Body(t, heap)) /\ t.do \notin {"calc_task", "new_iter_task", "topk"}
         \/ Abort(t) \/ Refuse(t)
  PROVE  PageRankInv'
<1>1. TasksKept
  BY DEF PageRankInv
<1>2. Quiet(t)
  BY <1>1, QuietSteps
<1>3. sticky' = sticky /\ written' = written /\ synced' = synced /\ printed' = printed
  BY DEF Outside
<1>4. CASE Inputting \/ SettingUp
  BY <1>2, <1>4, QuietBefore
<1>5. Iterating /\ t \in Runners =>
        \E u : Again(t, u) /\ ~Runs(u) /\ tasks' = (tasks \ {t}) \cup {u}
  BY RunnerWaits
<1>6. CASE Iterating /\ Between
  <2>1. /\ \A w \in DOMAIN synced' : w \in DOMAIN written /\ synced'[w] = written[w]
        /\ DOMAIN synced \subseteq DOMAIN synced'
    BY <1>3, <1>6 DEF Between, WrittenUpTo
  <2>2. t \in Runners =>
          \E u : /\ Again(t, u) /\ tasks' = (tasks \ {t}) \cup {u}
                /\ \/ ~Runs(u) /\ printed' = printed
                   \/ u.do = "new_iter_task" /\ printed' = printed /\ LastSynced'
                   \/ u.do = "topk" /\ Runs(u)
    BY <1>3, <1>5, <1>6
  <2>3. QED
    BY <1>2, <1>3, <1>6, <2>1, <2>2, BetweenQuiet
<1>7. CASE Iterating /\ Calculating
  BY <1>2, <1>3, <1>5, <1>7, CalculatingQuiet
<1>8. QED
  BY <1>4, <1>6, <1>7 DEF PageRankInv, Iterating

\* new_iter_task and topk run between iterations.
LEMMA SyncsBetween ==
  ASSUME PageRankInv, NEW t \in tasks, t.do \in {"new_iter_task", "topk"}
  PROVE  Iterating /\ Between /\ t \in Runners
<1>1. ~Inputting /\ ~SettingUp
  BY BeforeTasks
<1>2. t \in Runners
  BY DEF Runners
<1>3. ~Calculating
  BY <1>2 DEF Calculating
<1>4. QED
  BY <1>1, <1>2, <1>3 DEF PageRankInv, Iterating

LEMMA SyncStep ==
  ASSUME PageRankInv, Unchanged, UNCHANGED <<sticky, written>>,
         NEW t \in tasks, Start(t, Body(t, heap)),
         \/ t.do = "new_iter_task" /\ synced' = SyncForIteration(heap) /\ printed' = printed
         \/ t.do = "topk" /\ synced' = Synchronised(MAX_ITER + 1)
  PROVE  PageRankInv'
<1>1. Iterating /\ Between /\ t \in Runners
  BY SyncsBetween
<1>2. /\ Quiet(t) /\ IsTask(t) /\ heap' = heap /\ ~Runs(t)
      /\ tasks' = (tasks \ {t}) \cup {[t EXCEPT !.end = Body(t, heap)]}
  BY QuietSteps DEF PageRankInv, Start, TasksKept, Runs
<1> DEFINE u == [t EXCEPT !.end = Body(t, heap)]
<1>3. Again(t, u) /\ Runs(u) /\ u.do = t.do
  <2>1. u.do = t.do /\ u.arg = t.arg /\ u.end = Body(t, heap)
    BY <1>2, EndFacts
  <2>2. Commits(Body(t, heap))
    BY RunnerEnds
  <2>3. Runs(u)
    BY <2>1, <2>2, CommittingRuns
  <2>4. t.missed = {}
    BY <1>2 DEF PageRankInv, TasksKept
  <2>5. IsTask(u) /\ u.missed = {} /\ ~Refused(u)
    BY <1>2, <2>4, EndFacts
  <2> HIDE DEF u
  <2>6. QED
    BY <1>2, <2>1, <2>3, <2>5 DEF Again
<1>4. /\ \A w \in DOMAIN synced : w \in DOMAIN written /\ synced[w] = written[w]
      /\ heap[Iter] > 0 => Complete(heap[Iter], written)
  BY <1>1 DEF Between, WrittenUpTo
<1>5. \A version : LET s == Synchronised(version) IN
        /\ \A w \in DOMAIN s : w \in DOMAIN written /\ s[w] = written[w]
        /\ DOMAIN synced \subseteq DOMAIN s
        /\ \A w \in DOMAIN written : w[1] = version => w \in DOMAIN s
  BY <1>4, SyncedFits
<1>6. /\ \A w \in DOMAIN synced' : w \in DOMAIN written /\ synced'[w] = written[w]
      /\ DOMAIN synced \subseteq DOMAIN synced'
  BY <1>4, <1>5 DEF SyncForIteration
<1>7. t.do = "new_iter_task" => printed' = printed /\ LastSynced'
  <2>1. SUFFICES ASSUME t.do = "new_iter_task" PROVE LastSynced'
    OBVIOUS
  <2>2. CASE ~(heap[Iter] > 0)
    BY <1>2, <2>2 DEF LastSynced
  <2>3. CASE heap[Iter] > 0
    <3>1. synced' = Synchronised(heap[Iter])
      BY <2>1, <2>3 DEF SyncForIteration
    <3>2. \A v \in Counted : <<heap[Iter], v>> \in DOMAIN written
      BY <1>4, <2>3 DEF Complete
    <3>3. \A v \in Counted : <<heap[Iter], v>> \in DOMAIN synced'
      BY <1>5, <3>1, <3>2
    <3>4. Counted' = Counted
      BY DEF Counted, Unchanged
    <3>5. QED
      BY <1>2, <3>3, <3>4 DEF LastSynced, Complete
  <2>4. QED
    BY <2>2, <2>3
<1> HIDE DEF u
<1>8. t \in Runners => \E x : /\ Again(t, x) /\ tasks' = (tasks \ {t}) \cup {x}
                             /\ \/ ~Runs(x) /\ printed' = printed
                                \/ x.do = "new_iter_task" /\ printed' = printed /\ LastSynced'
                                \/ x.do = "topk" /\ Runs(x)
  BY <1>2, <1>3, <1>7 DEF u
<1>9. QED
  BY <1>1, <1>2, <1>6, <1>8, BetweenQuiet

LEMMA CalcStep ==
  ASSUME PageRankInv, StartCalc
  PROVE  /\ PageRankInv'
         /\ \A w \in DOMAIN written : w \in DOMAIN written' /\ written'[w] = written[w]
<1>1. PICK t \in tasks :
        /\ t.do = "calc_task" /\ Start(t, Body(t, heap)) /\ Unchanged
        /\ sticky' = [sticky EXCEPT ![t.arg] = Cached(heap, t.arg)]
        /\ written' = Over(PcWrites(heap, t.arg), written)
        /\ synced' = synced /\ printed' = printed
  BY DEF StartCalc, StartTask
<1>2. Iterating /\ Calculating
  <2>1. ~Inputting /\ ~SettingUp
    BY <1>1, BeforeTasks
  <2>2. t \in Runners
    BY <1>1 DEF Runners
  <2>3. ~Between
    BY <1>1, <2>2 DEF Between
  <2>4. QED
    BY <2>1, <2>3 DEF PageRankInv, Iterating
<1>3. QED
  BY <1>1, <1>2, CalcStarts

LEMMA CommitStep ==
  ASSUME PageRankInv, Unchanged, UNCHANGED Outside, NEW t \in tasks, Commit(t)
  PROVE  PageRankInv'
<1>1. CASE Inputting \/ SettingUp
  BY <1>1, CommitBefore
<1>2. CASE Iterating /\ t \notin Runners
  BY <1>2, BarrierCommits
<1>3. CASE Iterating /\ Between /\ t \in Runners
  <2>1. t.do \in {"new_iter_task", "topk"}
    BY <1>3 DEF Between
  <2>2. QED
    BY <1>3, <2>1, NewIterCommits, TopkCommits
<1>4. CASE Iterating /\ Calculating /\ t \in Runners
  <2>1. t.do = "calc_task"
    BY <1>4 DEF Calculating
  <2>2. QED
    BY <1>4, <2>1, CalcCommits
<1>5. QED
  BY <1>1, <1>2, <1>3, <1>4 DEF PageRankInv, Iterating

LEMMA InvNext == ASSUME PageRankInv, [Next]_vars PROVE PageRankInv'
<1>1. CASE ScheduleTask
  BY <1>1, QuietStep DEF ScheduleTask
<1>2. CASE StartCalc
  BY <1>2, CalcStep
<1>3. CASE StartNewIter
  BY <1>3, SyncStep DEF StartNewIter, StartTask
<1>4. CASE StartTopK
  <2>1. PICK t \in tasks :
          /\ t.do = "topk" /\ Start(t, Body(t, heap)) /\ Unchanged
          /\ synced' = Synchronised(MAX_ITER + 1) /\ UNCHANGED <<sticky, written>>
    BY <1>4 DEF StartTopK, StartTask
  <2>2. QED
    BY <2>1, SyncStep
<1>5. CASE StartOther
  BY <1>5, QuietStep DEF StartOther, StartTask
<1>6. CASE CommitTask
  BY <1>6, CommitStep DEF CommitTask
<1>7. CASE AbortTask
  BY <1>7, QuietStep DEF AbortTask
<1>8. CASE RefuseTask
  BY <1>8, QuietStep DEF RefuseTask
<1>9. CASE RunPageRank
  BY <1>9, SecondProgram
<1>10. CASE UNCHANGED vars
  <2>1. /\ Unchanged /\ program' = program /\ in' = in /\ heap' = heap /\ tasks' = tasks
        /\ watchers' = watchers /\ sticky' = sticky /\ written' = written /\ synced' = synced
        /\ printed' = printed
    BY <1>10 DEF vars, Unchanged
  <2>2. \A t : Body(t, heap)' = Body(t, heap)
    BY <2>1, BodyNext
  <2>3. Runners' = Runners /\ Loaded' = Loaded /\ Counted' = Counted
    BY <2>1 DEF Runners, Loaded, Counted
  <2>4. TasksKept'
    BY <2>1, <2>2, <2>3 DEF PageRankInv, TasksKept
  <2>5. NothingDone => NothingDone'
    BY <2>1 DEF NothingDone
  <2>6. \A dos : Alone(dos) => Alone(dos)'
    BY <2>1 DEF Alone
  <2>7. Inputting => Inputting'
    BY <2>1, <2>3, <2>5, <2>6 DEF Inputting
  <2>8. SettingUp => SettingUp'
    BY <2>1, <2>3, <2>5, <2>6 DEF SettingUp
  <2>9. (GraphKept => GraphKept') /\ (CopiesKept => CopiesKept')
    BY <2>1, <2>3 DEF GraphKept, CopiesKept
  <2>10. Between => Between'
    BY <2>1, <2>3 DEF Between, BarriersFit, WrittenUpTo, HasCopied, LastSynced, Complete
  <2>11. Iterating /\ Calculating => Calculating'
    <3>1. SUFFICES ASSUME Iterating, Calculating PROVE Calculating'
      OBVIOUS
    <3>2. heap[Iter] \in Nat /\ (heap[Iter] > 0 => Complete(heap[Iter], written))
      BY <3>1, IterRunners DEF Calculating, WrittenUpTo
    <3>3. \A v : Iterates!Share(v)' = Iterates!Share(v)
      BY <2>1, <3>2, ShareKept
    <3>4. /\ LastSynced' /\ BarriersFit(heap[Iter])' /\ WrittenUpTo(heap[Iter] + 1)'
          /\ \A id : (Begun(id)' <=> Begun(id)) /\ (HasCopied(id)' <=> HasCopied(id))
      BY <2>1, <2>3, <3>1
         DEF Calculating, BarriersFit, WrittenUpTo, HasCopied, Begun, LastSynced, Complete
    <3>5. /\ \A id \in Ids, v \in Counted' : v \in VerticesOf(heap', id) =>
               (Begun(id)' <=> <<heap'[Iter] + 1, v>> \in DOMAIN written')
          /\ \A w \in DOMAIN written' :
               w[1] = heap'[Iter] + 1 => written'[w] = Iterates!Share(w[2])'
      BY <2>1, <2>3, <3>1, <3>3, <3>4 DEF Calculating
    <3>6. QED
      BY <2>1, <2>3, <3>1, <3>4, <3>5 DEF Calculating
  <2>12. Iterating => Iterating'
    BY <2>1, <2>3, <2>9, <2>10, <2>11 DEF Iterating
  <2>13. QED
    BY <2>1, <2>4, <2>7, <2>8, <2>12 DEF PageRankInv
<1>11. QED
  BY <1>1, <1>2, <1>3, <1>4, <1>5, <1>6, <1>7, <1>8, <1>9, <1>10 DEF Next, Step, Idle

LEMMA InvInit == ASSUME Init PROVE PageRankInv
<1>1. /\ program = "pagerank-stdin2pmem" /\ in \in Inputs /\ heap = Blank
      /\ tasks = {Task("main", 0)}
  BY DEF Init
<1>2. LET t == Task("main", 0)
      IN IsTask(t) /\ t.do = "main" /\ t.missed = {} /\ ~Runs(t)
  BY TaskFacts
<1>3. TasksKept
  BY <1>1, <1>2 DEF TasksKept, Runners
<1>4. NothingDone
  BY DEF Init, NothingDone
<1>5. Alone({"main", "init"})
  BY <1>1, <1>2 DEF Alone
<1>6. QED
  BY <1>1, <1>3, <1>4, <1>5 DEF PageRankInv, Inputting

\* The inductive invariant, which holds whatever graph is read and whatever the
\* runtime runs when, gives up or runs again.
THEOREM InvariantHolds == Spec => []PageRankInv
<1>1. Init => PageRankInv
  BY InvInit
<1>2. PageRankInv /\ [Next]_vars => PageRankInv'
  BY InvNext
<1>3. QED
  BY <1>1, <1>2, PTL DEF Spec

\* Every location, every value in the phasing cache and every copy a space has is of
\* its type; what others see of the cache is what was written, a copy is still what
\* the memory holds, and no task that calculates reads a value nobody has written.
THEOREM TypeCorrect == Spec => []TypeOK
<1>1. ASSUME PageRankInv PROVE TypeOK
  <2>1. in \in Inputs /\ CountOf(Edges(in)) \in Nat
    BY <1>1, InputsAreFit DEF PageRankInv, Fits
  <2>2. CASE Inputting \/ SettingUp
    <3>1. NothingDone /\ (heap = Blank \/ heap = Loaded)
      BY <2>2 DEF Inputting, SettingUp
    <3>2. /\ heap = [l \in Locations |-> heap[l]]
          /\ \A l \in Locations : heap[l] \in Nat
          /\ \A l \in Locations \ GraphLocations : heap[l] = 0
      <4>1. CASE heap = Blank
        <5>1. Blank = [l \in Locations |-> Blank[l]]
          BY DEF Blank
        <5>2. QED
          BY <4>1, <5>1, BlankFacts
      <4>2. CASE heap = Loaded
        BY <2>1, <4>2, LoadedFacts
      <4>3. QED
        BY <3>1, <4>1, <4>2
    <3>3. heap \in [Locations -> Nat]
      BY <3>2
    <3>4. heap[Iter] = 0 /\ \A id \in Ids : heap[Status(id)] = TASK_STATUS_CREATED
      BY <3>2, Places DEF TASK_STATUS_CREATED
    <3>5. Doing("calc_task") = {}
      BY <1>1, <2>2, BeforeTasks DEF Doing
    <3>6. DOMAIN written = {} /\ DOMAIN synced = {}
      BY <3>1, NothingWritten DEF NothingDone, NoWrites
    <3>7. 0 \in 0 .. (MAX_ITER + 1)
      BY Constants
    <3>8. CopiesTyped
      <4>1. DOMAIN sticky = Ids /\ \A id \in Ids : sticky[id] = <<>>
        BY <3>1 DEF NothingDone
      <4>2. \A id \in Ids : DOMAIN sticky[id] = {}
        BY <4>1
      <4>3. QED
        BY <4>1, <4>2 DEF CopiesTyped
    <3>9. QED
      BY <3>3, <3>4, <3>5, <3>6, <3>7, <3>8 DEF TypeOK, CacheTyped, ReadsWritten
  <2>3. CASE Iterating
    <3>1. /\ heap = [l \in Locations |-> heap[l]]
          /\ \A l \in Locations : heap[l] \in Nat
          /\ heap[Iter] \in 0 .. (MAX_ITER + 1)
          /\ \A id \in Ids : heap[Status(id)] \in {TASK_STATUS_CREATED, TASK_STATUS_FINISHED}
          /\ heap[Count] = CountOf(Edges(in))
      BY <2>1, <2>3, KeptFacts DEF Iterating, GraphKept
    <3>2. heap \in [Locations -> Nat]
      BY <3>1
    <3>3. \A t \in Doing("calc_task") : t.arg \in Ids
      <4>1. \A t \in Doing("calc_task") : t \in Runners /\ t.do = "calc_task"
        BY DEF Doing, Runners
      <4>2. QED
        BY <2>3, <4>1 DEF Iterating, Between, Calculating
    <3>4. /\ \E last \in 0 .. (MAX_ITER + 1) : DOMAIN written \subseteq (1 .. last) \X Counted
          /\ \A w \in DOMAIN written : written[w] \in Nat
          /\ \A w \in DOMAIN synced : w \in DOMAIN written /\ synced[w] = written[w]
      <4>1. CASE Between
        BY <3>1, <4>1 DEF Between, WrittenUpTo
      <4>2. CASE Calculating
        <5>1. heap[Iter] + 1 \in 0 .. (MAX_ITER + 1)
          BY <3>1, <4>2, Constants DEF Calculating
        <5>2. QED
          BY <4>2, <5>1 DEF Calculating, WrittenUpTo
      <4>3. QED
        BY <2>3, <4>1, <4>2 DEF Iterating
    <3>5. \A w \in DOMAIN written : w \in (1 .. (MAX_ITER + 1)) \X (0 .. (heap[Count] - 1))
      <4>1. PICK last \in 0 .. (MAX_ITER + 1) : DOMAIN written \subseteq (1 .. last) \X Counted
        BY <3>4
      <4>2. 1 .. last \subseteq 1 .. (MAX_ITER + 1)
        BY Constants
      <4>3. Counted = 0 .. (heap[Count] - 1)
        BY <3>1 DEF Counted
      <4>4. QED
        BY <4>1, <4>2, <4>3
    <3>6. CopiesTyped
      <4>1. ASSUME NEW id \in Ids, NEW l \in DOMAIN sticky[id]
            PROVE  sticky[id][l] \in Nat /\ sticky[id][l] = Read(heap, l)
        <5>1. sticky[id] # <<>>
          BY <4>1
        <5>2. sticky[id] = [c \in Copied(heap, id) |-> Read(heap, c)]
          BY <2>3, <5>1 DEF Iterating, CopiesKept
        <5>3. sticky[id][l] = Read(heap, l)
          BY <5>2
        <5>4. Read(heap, l) \in Nat
          BY <3>1 DEF Read
        <5>5. QED
          BY <5>3, <5>4
      <4>2. QED
        BY <2>3, <4>1 DEF Iterating, CopiesKept, CopiesTyped
    <3>7. ReadsWritten
      <4>1. ASSUME Doing("calc_task") # {}
            PROVE  ~Between
        <5>1. PICK t \in Runners : t.do = "calc_task"
          BY <4>1 DEF Doing, Runners
        <5>2. QED
          BY <5>1 DEF Between
      <4>2. QED
        BY <2>3, <4>1 DEF Iterating, Calculating, LastSynced, ReadsWritten
    <3>8. QED
      BY <3>1, <3>2, <3>3, <3>4, <3>5, <3>6, <3>7 DEF TypeOK, CacheTyped
  <2>4. QED
    BY <1>1, <2>2, <2>3 DEF PageRankInv
<1>2. QED
  BY <1>1, InvariantHolds, PTL

\* From the commit of init on the graph is that of the edges that were read: the
\* shuffles, at work or done, and the iterations leave it.
THEOREM GraphIsStored == Spec => []GraphStored
<1>1. ASSUME PageRankInv PROVE GraphStored
  <2>1. in \in Inputs
    BY <1>1 DEF PageRankInv
  <2>2. CASE heap = Loaded
    <3>1. Holding(Loaded, Edges(in))
      BY <2>1, LoadedFacts
    <3>2. QED
      BY <2>1, <2>2, <3>1, HoldingRepresents DEF GraphStored
  <2>3. CASE Inputting /\ heap # Loaded
    <3>1. program = "pagerank-stdin2pmem" /\ Alone({"main", "init"})
      BY <2>3 DEF Inputting
    <3>2. PICK t \in tasks : t.do = "main" \/ t.do = "init"
      BY <3>1 DEF Alone
    <3>3. Doing("main") \cup Doing("init") # {}
      BY <3>2 DEF Doing
    <3>4. QED
      BY <3>1, <3>3 DEF GraphStored
  <2>4. CASE Iterating
    <3>1. Holding(heap, Edges(in))
      BY <2>1, <2>4, KeptFacts DEF Iterating
    <3>2. QED
      BY <2>1, <3>1, HoldingRepresents DEF GraphStored
  <2>5. QED
    BY <1>1, <2>2, <2>3, <2>4 DEF PageRankInv, SettingUp
<1>2. QED
  BY <1>1, InvariantHolds, PTL

\* What a space has copied in the first iteration is all its task reads in later ones.
THEOREM CopiesHoldAll == Spec => []CacheSuffices
<1>1. ASSUME PageRankInv PROVE CacheSuffices
  <2>1. CASE Inputting \/ SettingUp
    <3>1. \A id \in Ids : sticky[id] = <<>>
      BY <2>1 DEF Inputting, SettingUp, NothingDone
    <3>2. QED
      BY <3>1 DEF CacheSuffices
  <2>2. CASE Iterating
    BY <1>1, <2>2, CopiesSuffice DEF Iterating, PageRankInv
  <2>3. QED
    BY <1>1, <2>1, <2>2 DEF PageRankInv
<1>2. QED
  BY <1>1, InvariantHolds, PTL

\* No step changes or removes a value in the phasing cache.
THEOREM ValuesStay == Spec => WrittenOnce
<1> DEFINE Kept == \A w \in DOMAIN written : w \in DOMAIN written' /\ written'[w] = written[w]
<1>1. ASSUME PageRankInv, [Next]_vars PROVE [Kept]_vars
  <2>1. CASE StartCalc
    BY <1>1, <2>1, CalcStep
  <2>2. CASE UNCHANGED written
    BY <2>2
  <2>3. StartCalc \/ UNCHANGED written
    BY <1>1 DEF Next, Step, Idle, vars, Outside, ScheduleTask, StartNewIter, StartTopK,
                StartOther, CommitTask, AbortTask, RefuseTask, RunPageRank
  <2>4. QED
    BY <2>1, <2>2, <2>3
<1>2. QED
  BY <1>1, InvariantHolds, PTL DEF Spec, WrittenOnce

-----------------------------------------------------------------------------
(***************************************************************************)
(* The refinement.                                                         *)
(***************************************************************************)

\* The values of the last iteration are there, and before the iterations none is.
LEMMA LastValues ==
  ASSUME PageRankInv
  PROVE  /\ in \in Inputs /\ heap[Iter] \in Nat /\ DOMAIN heap = Locations
         /\ heap[Iter] > 0 => Complete(heap[Iter], written)
         /\ Inputting \/ SettingUp => heap[Iter] = 0 /\ printed = <<>>
<1>1. in \in Inputs
  BY DEF PageRankInv
<1>2. CASE Inputting \/ SettingUp
  <2>1. (heap = Blank \/ heap = Loaded) /\ printed = <<>>
    BY <1>2 DEF Inputting, SettingUp, NothingDone
  <2>2. Iter \in Locations \ GraphLocations
    BY Places
  <2>3. Blank[Iter] = 0 /\ DOMAIN Blank = Locations
    BY <2>2, BlankFacts DEF Blank
  <2>4. Loaded[Iter] = 0 /\ DOMAIN Loaded = Locations
    BY <1>1, <2>2, LoadedFacts
  <2>5. QED
    BY <1>1, <2>1, <2>3, <2>4
<1>3. CASE Iterating
  <2>1. /\ ~Inputting /\ (SettingUp => heap[Iter] = 0 /\ printed = <<>>)
    BY <1>2, <1>3 DEF Inputting, Iterating
  <2>2. heap[Iter] > 0 => Complete(heap[Iter], written)
    BY <1>3 DEF Iterating, Between, Calculating, WrittenUpTo
  <2>3. heap[Iter] \in Nat /\ DOMAIN heap = Locations
    BY <1>3, IterRunners, KeptFacts
  <2>4. QED
    BY <1>1, <2>1, <2>2, <2>3
<1>4. QED
  BY <1>2, <1>3 DEF PageRankInv

\* A step is none of the formula's when it leaves iter and what is printed alone.
LEMMA PowerSame ==
  ASSUME PageRankInv, in' = in, heap'[Iter] = heap[Iter], printed' = printed,
         \A w \in DOMAIN written : w \in DOMAIN written' /\ written'[w] = written[w]
  PROVE  UNCHANGED Iterates!power
<1> DEFINE given == IF heap[Iter] = 0 THEN <<>>
                    ELSE [v \in Counted |-> written[<<heap[Iter], v>>]]
<1>1. heap[Iter] \in Nat /\ (heap[Iter] > 0 => Complete(heap[Iter], written))
  BY LastValues
<1>2. Counted' = Counted /\ Edges(in)' = Edges(in)
  BY DEF Counted
<1>3. given' = given
  <2>1. CASE heap[Iter] = 0
    BY <2>1
  <2>2. CASE heap[Iter] # 0
    <3>1. \A v \in Counted : written'[<<heap[Iter], v>>] = written[<<heap[Iter], v>>]
      BY <1>1, <2>2 DEF Complete
    <3>2. QED
      BY <1>2, <2>2, <3>1
  <2>3. QED
    BY <2>1, <2>2
<1>4. Iterates!power' = Iterates!power
  BY <1>2, <1>3 DEF Iterates!power
<1>5. QED
  BY <1>4

\* A commit is one of the formula's steps when it is the barrier's.
LEMMA CommitRefines ==
  ASSUME PageRankInv, Unchanged, UNCHANGED Outside, NEW t \in tasks, Commit(t)
  PROVE  Iterates!Compute \/ UNCHANGED Iterates!power
<1>1. /\ in' = in /\ printed' = printed /\ written' = written
      /\ \A w \in DOMAIN written : w \in DOMAIN written' /\ written'[w] = written[w]
  BY DEF Unchanged, Outside
<1>2. CASE Inputting \/ SettingUp
  <2>1. heap'[Iter] = heap[Iter]
    BY <1>2, LastValues, CommitBefore
  <2>2. QED
    BY <1>1, <2>1, PowerSame
<1>3. CASE Iterating /\ t \in Runners
  <2>1. t.do \in {"new_iter_task", "calc_task", "topk"} /\ t.end = Body(t, heap)
    BY <1>3, IterRunners, CommitFacts
  <2>2. Iter \notin DOMAIN t.end.writes
    <3>1. \A id : Status(id) # Iter
      BY Places
    <3>2. CASE t.do = "topk"
      <4>1. t.end.writes = NoWrites
        BY <2>1, <3>2, RunnerEnds
      <4>2. QED
        BY <4>1, NothingWritten
    <3>3. CASE t.do = "calc_task"
      <4>1. t.end.writes = Holds(Status(t.arg), TASK_STATUS_FINISHED)
        BY <2>1, <3>3, RunnerEnds
      <4>2. DOMAIN t.end.writes = {Status(t.arg)}
        BY <4>1, HoldsFacts
      <4>3. QED
        BY <3>1, <4>2
    <3>4. CASE t.do = "new_iter_task"
      <4>1. t.end.writes = [l \in {Status(id) : id \in Ids} |-> TASK_STATUS_CREATED]
        BY <2>1, <3>4, RunnerEnds
      <4>2. DOMAIN t.end.writes = {Status(id) : id \in Ids}
        BY <4>1
      <4>3. QED
        BY <3>1, <4>2
    <3>5. QED
      BY <2>1, <3>2, <3>3, <3>4
  <2>3. heap'[Iter] = heap[Iter]
    <3>1. heap' = Over(t.end.writes, heap) /\ Iter \in DOMAIN heap
      BY CommitFacts, LastValues, Places
    <3>2. QED
      BY <2>2, <3>1, OverOld
  <2>4. QED
    BY <1>1, <2>3, PowerSame
<1>4. CASE Iterating /\ t \notin Runners
  <2>1. /\ Calculating /\ heap'[Iter] = heap[Iter] + 1
        /\ Complete(heap[Iter] + 1, written) /\ heap[Iter] \in Nat
    BY <1>4, BarrierCommits, IterRunners
  <2>2. Counted' = Counted /\ Edges(in)' = Edges(in)
    BY <1>1 DEF Counted
  <2>3. \A v \in Counted : written[<<heap[Iter] + 1, v>>] = Iterates!Share(v)
    BY <2>1 DEF Calculating, Complete
  <2>4. heap'[Iter] # 0 /\ heap[Iter] <= MAX_ITER
    BY <2>1 DEF Calculating
  <2> DEFINE given == IF heap[Iter] = 0 THEN <<>>
                      ELSE [v \in Counted |-> written[<<heap[Iter], v>>]]
  <2>5. given' = [v \in Counted |-> Iterates!Share(v)]
    BY <1>1, <2>1, <2>2, <2>3, <2>4
  <2> HIDE DEF given
  <2>6. QED
    BY <1>1, <2>1, <2>2, <2>4, <2>5 DEF Iterates!Compute, given
<1>5. QED
  BY <1>2, <1>3, <1>4 DEF PageRankInv

\* topk reads the values of the last iteration, and the outdegrees of the graph.
LEMMA TopkRefines ==
  ASSUME PageRankInv, StartTopK
  PROVE  Iterates!PrintRanks
<1>1. PICK t \in tasks :
        /\ t.do = "topk" /\ Start(t, Body(t, heap)) /\ Unchanged
        /\ synced' = Synchronised(MAX_ITER + 1)
        /\ printed' = [v \in 0 .. (heap[Count] - 1) |-> ValueRanked(heap, synced', v)]
        /\ written' = written
  BY DEF StartTopK, StartTask
<1>2. Iterating /\ Between /\ t \in Runners
  BY <1>1, SyncsBetween
<1>3. /\ heap[Iter] = MAX_ITER + 1 /\ printed = <<>> /\ heap' = heap /\ in' = in
  BY <1>1, <1>2 DEF Between, Start, Runs, Unchanged
<1>4. /\ in \in Inputs /\ GraphKept /\ heap[Count] = CountOf(Edges(in))
      /\ heap[Iter] > 0 /\ Complete(heap[Iter], written)
  BY <1>2, <1>3, IterRunners, LastValues, Constants DEF GraphKept
<1>5. /\ \A w \in DOMAIN synced' : w \in DOMAIN written /\ synced'[w] = written[w]
      /\ \A w \in DOMAIN written : w[1] = MAX_ITER + 1 => w \in DOMAIN synced'
  <2>1. \A w \in DOMAIN synced : w \in DOMAIN written /\ synced[w] = written[w]
    BY <1>2 DEF Between, WrittenUpTo
  <2>2. QED
    BY <1>1, <2>1, SyncedFits
<1> DEFINE given == IF heap[Iter] = 0 THEN <<>>
                    ELSE [v \in Counted |-> written[<<heap[Iter], v>>]]
<1>6. Counted = 0 .. (heap[Count] - 1) /\ Counted' = Counted /\ Edges(in)' = Edges(in)
  BY <1>3, <1>4 DEF Counted
<1>7. ASSUME NEW v \in Counted PROVE ValueRanked(heap, synced', v) = Iterates!Rank(v)
  <2>1. <<MAX_ITER + 1, v>> \in DOMAIN written
    BY <1>3, <1>4 DEF Complete
  <2>2. <<MAX_ITER + 1, v>> \in DOMAIN synced'
    BY <1>5, <2>1
  <2>3. PcGet(synced', MAX_ITER + 1, v) = written[<<heap[Iter], v>>]
    BY <1>3, <1>5, <2>2 DEF PcGet, Read
  <2>4. given[v] = written[<<heap[Iter], v>>]
    BY <1>4
  <2>5. heap[Vertex(v, OUTDEGREE)] = Iterates!Inverse(Iterates!OutDeg(v))
    <3>1. Read(heap, Vertex(v, OUTDEGREE)) = OneOver(Cardinality(From(Edges(in), v)))
      BY <1>4, ListOf
    <3>2. Vertex(v, OUTDEGREE) \in DOMAIN heap
      <4>1. v \in 0 .. (CountOf(Edges(in)) - 1) /\ Fits(Edges(in))
        BY <1>4, InputsAreFit DEF Counted
      <4>2. Vertex(v, OUTDEGREE) \in GraphLocations
        BY <4>1, WordsFit
      <4>3. QED
        BY <4>2, LastValues, BlankFacts
    <3>3. Iterates!OutDeg(v) = Cardinality(From(Edges(in), v))
      BY DEF Iterates!OutDeg, From, Iterates!Cardinality, Cardinality
    <3>4. \A m : Iterates!Inverse(m) = OneOver(m)
      BY DEF Iterates!Inverse, OneOver
    <3>5. QED
      BY <3>1, <3>2, <3>3, <3>4 DEF Read
  <2> HIDE DEF given
  <2>6. Iterates!Rank(v) = (given[v] * Scale) \div Iterates!Inverse(Iterates!OutDeg(v))
    BY DEF Iterates!Rank, given
  <2>7. QED
    BY <2>3, <2>4, <2>5, <2>6 DEF ValueRanked, DividedBy
<1>8. printed' = [v \in Counted |-> Iterates!Rank(v)]
  BY <1>1, <1>6, <1>7
<1>9. given' = given
  BY <1>1, <1>3, <1>6
<1> HIDE DEF given
<1>10. QED
  BY <1>3, <1>6, <1>8, <1>9 DEF Iterates!PrintRanks, given

\* Whatever runs when, what the barrier commits and what is printed in the end are
\* the iterates of the formula, on the graph of all edges that were read.
THEOREM RanksComputed == Spec => Iterates!PInit /\ [][Iterates!PNext]_(Iterates!power)
<1>1. Init => Iterates!PInit
  <2>1. SUFFICES ASSUME Init PROVE Iterates!PInit
    OBVIOUS
  <2>2. PageRankInv /\ (Inputting \/ SettingUp)
    <3>1. PageRankInv
      BY <2>1, InvInit
    <3>2. program = "pagerank-stdin2pmem"
      BY <2>1 DEF Init
    <3>3. program # "pagerank-frompmem"
      BY <3>2
    <3>4. QED
      BY <3>1, <3>3 DEF PageRankInv, Iterating
  <2>3. heap[Iter] = 0 /\ printed = <<>>
    BY <2>2, LastValues
  <2>4. QED
    BY <2>3 DEF Iterates!PInit
<1>2. ASSUME PageRankInv, [Next]_vars PROVE [Iterates!PNext]_(Iterates!power)
  <2>1. CASE CommitTask
    BY <1>2, <2>1, CommitRefines DEF CommitTask, Iterates!PNext
  <2>2. CASE StartTopK
    BY <1>2, <2>2, TopkRefines DEF Iterates!PNext
  <2>3. CASE StartCalc
    <3>1. \A w \in DOMAIN written : w \in DOMAIN written' /\ written'[w] = written[w]
      BY <1>2, <2>3, CalcStep
    <3>2. in' = in /\ heap' = heap /\ printed' = printed
      BY <2>3 DEF StartCalc, StartTask, Start, Unchanged
    <3>3. QED
      BY <1>2, <3>1, <3>2, PowerSame
  <2>4. CASE UNCHANGED <<in, heap, written, printed>>
    BY <1>2, <2>4, PowerSame
  <2>5. \/ CommitTask \/ StartTopK \/ StartCalc
        \/ UNCHANGED <<in, heap, written, printed>>
    BY <1>2 DEF Next, Step, Idle, vars, Outside, Unchanged, ScheduleTask, StartNewIter,
                StartOther, StartTask, AbortTask, RefuseTask, RunPageRank,
                Schedule, Start, Abort, Refuse
  <2>6. QED
    BY <2>1, <2>2, <2>3, <2>4, <2>5
<1>3. QED
  BY <1>1, <1>2, InvariantHolds, PTL DEF Spec

=============================================================================
