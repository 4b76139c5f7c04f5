---------------------------- MODULE KMeansProofs ----------------------------
(***************************************************************************)
(* However many points, parts, clusters, iterations and processors there    *)
(* are: runners do not meet, a part has one runner as long as its trigger   *)
(* is 0, and no commit is stale.  What is computed is Lloyd's algorithm.    *)
(***************************************************************************)
EXTENDS KMeans, L0Proofs, SumProofs

-----------------------------------------------------------------------------
(***************************************************************************)
(* Lemmas about the layout: parts are pages apart.                          *)
(***************************************************************************)
LEMMA Constants ==
  /\ N \in Nat \ {0} /\ PSIZE \in Nat \ {0} /\ K \in Nat \ {0} /\ N_LONG_PAGE \in Nat \ {0}
  /\ MAX_ITER \in Nat \ {0} /\ Unset \notin Int /\ Unset \notin [Dims -> Int]
  BY LayoutAssumption, KMeansAssumption, L0Assumption

LEMMA PartOf ==
  ASSUME NEW s \in Starts
  PROVE  /\ s \in Nat
         /\ s \div PSIZE \in Parts /\ s = (s \div PSIZE) * PSIZE
         /\ s \div PSIZE \in Nat
         /\ s + PSIZE <= N
<1>1. PICK p \in Parts : s = p * PSIZE
  BY DEF Starts
<1>2. p \in Nat /\ p + 1 <= N \div PSIZE /\ N \div PSIZE \in Nat
  BY <1>1, Constants DEF Parts
<1>3. (p * PSIZE) \div PSIZE = p /\ p * PSIZE \in Nat
  BY <1>2, Constants
<1>4. N = (N \div PSIZE) * PSIZE
  BY LayoutAssumption, Constants
<1>5. (p + 1) * PSIZE <= (N \div PSIZE) * PSIZE
  BY <1>2, Constants
<1>6. p * PSIZE + PSIZE <= N
  BY <1>2, <1>4, <1>5, Constants
<1>7. QED
  BY <1>1, <1>2, <1>3, <1>6

LEMMA FirstStart == 0 \in Starts
<1>1. N \div PSIZE \in Nat /\ N = (N \div PSIZE) * PSIZE
  BY LayoutAssumption, Constants
<1>2. N \div PSIZE # 0
  BY <1>1, Constants
<1>3. 0 \in Parts
  BY <1>1, <1>2 DEF Parts
<1>4. 0 = 0 * PSIZE
  BY Constants
<1>5. QED
  BY <1>3, <1>4 DEF Starts

\* Two longs a page apart, or with a page's end between them.
LEMMA PageLess ==
  ASSUME NEW a \in Nat, NEW b \in Nat, a + N_LONG_PAGE <= b
  PROVE  a \div N_LONG_PAGE < b \div N_LONG_PAGE
  BY Constants

LEMMA PageEnds ==
  ASSUME NEW m \in Nat, NEW a \in Nat, NEW b \in Nat, a < m * N_LONG_PAGE, m * N_LONG_PAGE <= b
  PROVE  a \div N_LONG_PAGE < b \div N_LONG_PAGE
<1>1. a \div N_LONG_PAGE < m
  BY Constants
<1>2. m <= b \div N_LONG_PAGE
  BY Constants
<1>3. a \div N_LONG_PAGE \in Nat /\ b \div N_LONG_PAGE \in Nat
  BY Constants
<1>4. QED
  BY <1>1, <1>2, <1>3

LEMMA StepApart ==
  ASSUME NEW n \in Nat, NEW a \in Nat, NEW b \in Nat, a < b
  PROVE  n * a + n <= n * b
  OBVIOUS

\* An earlier part's pages are not a later one's.
LEMMA EarlierPart ==
  ASSUME NEW s \in Starts, NEW t \in Starts, s \div PSIZE < t \div PSIZE
  PROVE  /\ PageOf(Trigger(s)) # PageOf(Trigger(t))
         /\ \A k, l \in Clusters : PageOf(Sum(s, k)) # PageOf(Sum(t, l))
         /\ \A k, l \in Clusters : PageOf(Count(s, k)) # PageOf(Count(t, l))
         /\ \A i \in s .. (s + PSIZE - 1), j \in t .. (t + PSIZE - 1) :
              PageOf(Point(i)) # PageOf(Point(j))
<1> DEFINE p == s \div PSIZE
           q == t \div PSIZE
<1>1. /\ p \in Nat /\ q \in Nat /\ p < q
      /\ s \in Nat /\ t \in Nat /\ s = p * PSIZE /\ t = q * PSIZE
      /\ q \in Parts
  BY PartOf
<1> HIDE DEF p, q
<1>2. p * N_LONG_PAGE + N_LONG_PAGE <= q * N_LONG_PAGE
  BY <1>1, StepApart, Constants
<1>3. PageOf(Trigger(s)) # PageOf(Trigger(t))
  <2>1. p * N_LONG_PAGE \in Nat /\ q * N_LONG_PAGE \in Nat
    BY <1>1, Constants
  <2>2. (p * N_LONG_PAGE) \div N_LONG_PAGE # (q * N_LONG_PAGE) \div N_LONG_PAGE
    BY <1>2, <2>1, PageLess, Constants
  <2>3. Trigger(s) = <<"trigger", p * N_LONG_PAGE>> /\ Trigger(t) = <<"trigger", q * N_LONG_PAGE>>
    BY DEF Trigger, TriggerIndex, p, q
  <2>4. QED
    BY <2>2, <2>3 DEF PageOf
<1>4. ASSUME NEW k \in Clusters, NEW l \in Clusters
      PROVE  LocalIndex(s, k) \div N_LONG_PAGE # LocalIndex(t, l) \div N_LONG_PAGE
  <2>1. k \in Nat /\ k + 1 <= K /\ l \in Nat
    BY Constants DEF Clusters
  <2>2. PICK n \in Nat : n = K + N_LONG_PAGE
    BY Constants
  <2>3. n * p + n <= n * q /\ n * p \in Nat /\ n * q \in Nat
    BY <1>1, <2>2, StepApart
  <2>4. LocalIndex(s, k) = n * p + k /\ LocalIndex(t, l) = n * q + l
    BY <2>2 DEF LocalIndex, p, q
  <2>5. (n * p + k) + N_LONG_PAGE <= n * q + l /\ n * p + k \in Nat /\ n * q + l \in Nat
    BY <2>1, <2>2, <2>3, Constants
  <2>6. (n * p + k) \div N_LONG_PAGE # (n * q + l) \div N_LONG_PAGE
    BY <2>5, PageLess, Constants
  <2>7. QED
    BY <2>4, <2>6
<1>5. ASSUME NEW i \in s .. (s + PSIZE - 1), NEW j \in t .. (t + PSIZE - 1)
      PROVE  i \div N_LONG_PAGE # j \div N_LONG_PAGE
  <2>1. PSIZE # N
    <3>1. SUFFICES ASSUME PSIZE = N PROVE FALSE
      OBVIOUS
    <3>2. N \div PSIZE = 1
      BY <3>1, Constants
    <3>3. QED
      BY <1>1, <3>2 DEF Parts
  <2>2. PICK c \in Nat : PSIZE = c * N_LONG_PAGE
    <3>1. PSIZE % N_LONG_PAGE = 0
      BY <2>1, LayoutAssumption
    <3>2. PSIZE = (PSIZE \div N_LONG_PAGE) * N_LONG_PAGE /\ PSIZE \div N_LONG_PAGE \in Nat
      BY <3>1, Constants
    <3>3. QED
      BY <3>2
  <2>3. i \in Nat /\ j \in Nat /\ i < p * PSIZE + PSIZE /\ q * PSIZE <= j
    BY <1>1, Constants
  <2>4. PSIZE * p + PSIZE <= PSIZE * q
    BY <1>1, StepApart, Constants
  <2>5. i < q * PSIZE
    <3>1. PICK a \in Nat : a = p * PSIZE
      BY <1>1, Constants
    <3>2. PICK b \in Nat : b = q * PSIZE
      BY <1>1, Constants
    <3>3. PSIZE * p = a /\ PSIZE * q = b
      BY <1>1, <3>1, <3>2, Constants
    <3>4. QED
      BY <2>3, <2>4, <3>1, <3>2, <3>3, Constants
  <2>6. q * PSIZE = (q * c) * N_LONG_PAGE /\ q * c \in Nat
    BY <1>1, <2>2, Constants
  <2>7. i \div N_LONG_PAGE < j \div N_LONG_PAGE
    BY <2>3, <2>5, <2>6, PageEnds
  <2>8. QED
    BY <2>3, <2>7, Constants
<1>6. QED
  BY <1>3, <1>4, <1>5 DEF PageOf, Sum, Count, Point

LEMMA OtherPart ==
  ASSUME NEW s \in Starts, NEW t \in Starts, s # t
  PROVE  /\ PageOf(Trigger(s)) # PageOf(Trigger(t))
         /\ Trigger(s) # Trigger(t)
         /\ \A k, l \in Clusters : PageOf(Sum(s, k)) # PageOf(Sum(t, l))
         /\ \A k, l \in Clusters : PageOf(Count(s, k)) # PageOf(Count(t, l))
         /\ \A i \in s .. (s + PSIZE - 1), j \in t .. (t + PSIZE - 1) :
              PageOf(Point(i)) # PageOf(Point(j))
<1>1. s \div PSIZE \in Nat /\ t \div PSIZE \in Nat /\ s \div PSIZE # t \div PSIZE
  BY PartOf
<1>2. CASE s \div PSIZE < t \div PSIZE
  BY <1>2, EarlierPart
<1>3. CASE t \div PSIZE < s \div PSIZE
  BY <1>3, EarlierPart
<1>4. QED
  BY <1>1, <1>2, <1>3

-----------------------------------------------------------------------------
(***************************************************************************)
(* Lemmas about the bodies of the tasks.                                    *)
(***************************************************************************)
LEMMA Bodies ==
  ASSUME NEW t, NEW view
  PROVE  /\ t.do = "main" => Body(t, view) = Main
         /\ t.do = "init0" => Body(t, view) = Init0
         /\ t.do = "init_runner_stdin" => Body(t, view) = InitRunnerStdin
         /\ t.do = "init_runner_pmem" => Body(t, view) = InitRunnerPmem(t.arg)
         /\ t.do = "on_init1_finished" => Body(t, view) = OnInit1Finished(view)
         /\ t.do = "recluster_runner" => Body(t, view) = ReclusterRunner(view, t.arg)
         /\ t.do = "on_recluster_finished" => Body(t, view) = OnReclusterFinished(view, t.arg)
  BY DEF Body

LEMMA BodySame ==
  ASSUME NEW t, NEW u, t.do = u.do, t.arg = u.arg, NEW view
  PROVE  Body(t, view) = Body(u, view)
  BY DEF Body

LEMMA BodyNext ==
  ASSUME Unchanged, NEW t
  PROVE  Body(t, heap)' = Body(t, heap')
<1>1. Init0' = Init0
  BY DEF Init0, Unchanged
<1>2. InitRunnerStdin' = InitRunnerStdin
  BY DEF InitRunnerStdin, PointsOf, Unchanged
<1>3. InitRunnerPmem(t.arg)' = InitRunnerPmem(t.arg)
  BY DEF InitRunnerPmem, PointsOf, Unchanged
<1>4. QED
  BY <1>1, <1>2, <1>3 DEF Body

LEMMA BodyStays ==
  ASSUME Unchanged, heap' = heap, NEW t
  PROVE  Body(t, heap)' = Body(t, heap)
  BY BodyNext

\* What triggers are set to.
LEMMA SetTriggersFacts ==
  ASSUME NEW S, NEW value
  PROVE  /\ DOMAIN SetTriggers(S, value) = {Trigger(s) : s \in S}
         /\ \A s \in S : SetTriggers(S, value)[Trigger(s)] = value
  BY DEF SetTriggers

LEMMA SetTriggerFacts ==
  ASSUME NEW s, NEW value
  PROVE  /\ DOMAIN SetTriggers({s}, value) = {Trigger(s)}
         /\ SetTriggers({s}, value)[Trigger(s)] = value
<1>1. {Trigger(x) : x \in {s}} = {Trigger(s)}
  OBVIOUS
<1>2. QED
  BY <1>1 DEF SetTriggers

\* Arrays are apart.
LEMMA ArraysApart ==
  ASSUME NEW i, NEW k, NEW s, NEW l
  PROVE  /\ Trigger(s) # Iter /\ Trigger(s) # Point(i) /\ Trigger(s) # Centroid(k)
         /\ Trigger(s) # Sum(l, k) /\ Trigger(s) # Count(l, k)
         /\ Iter # Point(i) /\ Iter # Centroid(k) /\ Iter # Sum(l, k) /\ Iter # Count(l, k)
         /\ Point(i) # Centroid(k) /\ Point(i) # Sum(l, k) /\ Point(i) # Count(l, k)
         /\ Sum(l, k) # Count(s, i) /\ Centroid(i) # Sum(l, k) /\ Centroid(i) # Count(l, k)
  BY DEF Trigger, Iter, Point, Centroid, Sum, Count

LEMMA PagesApart ==
  ASSUME NEW i, NEW k, NEW s, NEW l
  PROVE  /\ PageOf(Trigger(s)) # PageOf(Point(i))
         /\ PageOf(Trigger(s)) # PageOf(Sum(l, k)) /\ PageOf(Trigger(s)) # PageOf(Count(l, k))
         /\ PageOf(Sum(l, k)) # PageOf(Count(s, i))
  BY DEF PageOf, Trigger, Point, Sum, Count

\* What the runners write.
LEMMA StdinWrites ==
  /\ InitRunnerStdin = Ends("commit", InitRunnerStdin.writes, {}, {})
  /\ DOMAIN InitRunnerStdin.writes = {Point(i) : i \in 0 .. (N - 1)} \cup {Trigger(s) : s \in Starts}
  /\ \A s \in Starts : InitRunnerStdin.writes[Trigger(s)] = 1
  /\ \A i \in 0 .. (N - 1) : InitRunnerStdin.writes[Point(i)] = in[i]
<1> DEFINE points == PointsOf(0, N)
<1>1. DOMAIN points = {Point(i) : i \in 0 .. (N - 1)}
  BY Constants DEF PointsOf
<1>2. \A i \in 0 .. (N - 1) : points[Point(i)] = in[i]
  BY Constants DEF PointsOf, Point
<1>3. InitRunnerStdin.writes = Over(points, SetTriggers(Starts, 1))
  BY DEF InitRunnerStdin, Ends
<1> HIDE DEF points
<1>4. \A s \in Starts : Trigger(s) \notin DOMAIN points
  BY <1>1, ArraysApart
<1> DEFINE triggers == SetTriggers(Starts, 1)
<1>5. /\ DOMAIN triggers = {Trigger(s) : s \in Starts}
      /\ \A s \in Starts : triggers[Trigger(s)] = 1
  BY SetTriggersFacts
<1>6. InitRunnerStdin = Ends("commit", Over(points, triggers), {}, {})
  BY DEF InitRunnerStdin, points
<1>7. InitRunnerStdin.writes = Over(points, triggers)
  BY <1>3
<1> HIDE DEF triggers
<1>8. DOMAIN Over(points, triggers) = DOMAIN points \cup DOMAIN triggers
  BY OverDomain
<1>9. ASSUME NEW s \in Starts PROVE Over(points, triggers)[Trigger(s)] = 1
  <2>1. Trigger(s) \in DOMAIN triggers
    BY <1>5
  <2>2. QED
    BY <1>4, <1>5, <2>1, OverOld
<1>10. ASSUME NEW i \in 0 .. (N - 1) PROVE Over(points, triggers)[Point(i)] = in[i]
  <2>1. Point(i) \in DOMAIN points
    BY <1>1
  <2>2. QED
    BY <1>2, <2>1, OverNew
<1>11. QED
  BY <1>1, <1>5, <1>6, <1>7, <1>8, <1>9, <1>10

LEMMA PmemWrites ==
  ASSUME NEW s \in Starts
  PROVE  LET writes == InitRunnerPmem(s).writes
         IN /\ InitRunnerPmem(s) = Ends("commit", writes, {}, {})
            /\ DOMAIN writes = {Point(i) : i \in s .. (s + PSIZE - 1)} \cup {Trigger(s)}
            /\ writes[Trigger(s)] = 1
            /\ \A i \in s .. (s + PSIZE - 1) : writes[Point(i)] = in[i]
<1> DEFINE points == PointsOf(s, PSIZE)
<1>1. DOMAIN points = {Point(i) : i \in s .. (s + PSIZE - 1)}
  BY DEF PointsOf
<1>2. \A i \in s .. (s + PSIZE - 1) : points[Point(i)] = in[i]
  BY DEF PointsOf, Point
<1>3. InitRunnerPmem(s).writes = Over(points, SetTriggers({s}, 1))
  BY DEF InitRunnerPmem, Ends
<1>4. InitRunnerPmem(s) = Ends("commit", Over(points, SetTriggers({s}, 1)), {}, {})
  BY DEF InitRunnerPmem
<1> HIDE DEF points
<1>5. Trigger(s) \notin DOMAIN points
  BY <1>1, ArraysApart
<1> DEFINE triggers == SetTriggers({s}, 1)
<1>6. DOMAIN triggers = {Trigger(s)} /\ triggers[Trigger(s)] = 1
  BY SetTriggerFacts
<1>7. /\ InitRunnerPmem(s) = Ends("commit", Over(points, triggers), {}, {})
      /\ InitRunnerPmem(s).writes = Over(points, triggers)
  BY <1>3, <1>4
<1> HIDE DEF triggers
<1>8. DOMAIN Over(points, triggers) = DOMAIN points \cup DOMAIN triggers
  BY OverDomain
<1>9. Over(points, triggers)[Trigger(s)] = 1
  <2>1. Trigger(s) \in DOMAIN triggers
    BY <1>6
  <2>2. QED
    BY <1>5, <1>6, <2>1, OverOld
<1>10. ASSUME NEW i \in s .. (s + PSIZE - 1) PROVE Over(points, triggers)[Point(i)] = in[i]
  <2>1. Point(i) \in DOMAIN points
    BY <1>1
  <2>2. QED
    BY <1>2, <2>1, OverNew
<1>11. QED
  BY <1>1, <1>6, <1>7, <1>8, <1>9, <1>10

LEMMA PartWritten ==
  ASSUME NEW s \in Starts, NEW mini
  PROVE  LET writes == PartWrites(s, mini)
         IN /\ DOMAIN writes = {Sum(s, k) : k \in Clusters} \cup {Count(s, k) : k \in Clusters}
                                 \cup {Trigger(s)}
            /\ writes[Trigger(s)] = 2
<1> DEFINE Members(k) == {m \in mini : m[2] = k}
           First == LocalIndex(s, 0)
           sums == [l \in {Sum(s, k) : k \in Clusters} |->
                      [d \in Dims |-> Wrap(SumFunction([m \in Members(l[2] - First) |-> m[1][d]]))]]
           counts == [l \in {Count(s, k) : k \in Clusters} |-> Cardinality(Members(l[2] - First))]
           triggers == SetTriggers({s}, 2)
           rest == Over(counts, triggers)
<1>1. PartWrites(s, mini) = Over(sums, rest)
  BY DEF PartWrites
<1>2. DOMAIN sums = {Sum(s, k) : k \in Clusters} /\ DOMAIN counts = {Count(s, k) : k \in Clusters}
  OBVIOUS
<1>0. DOMAIN triggers = {Trigger(s)} /\ triggers[Trigger(s)] = 2
  BY SetTriggerFacts
<1> HIDE DEF sums, counts, triggers
<1>3. Trigger(s) \notin DOMAIN sums /\ Trigger(s) \notin DOMAIN counts
  BY <1>2, ArraysApart
<1>4. DOMAIN rest = DOMAIN counts \cup DOMAIN triggers /\ rest[Trigger(s)] = triggers[Trigger(s)]
  <2>1. DOMAIN rest = DOMAIN counts \cup DOMAIN triggers
    BY OverDomain
  <2>2. Trigger(s) \in DOMAIN triggers
    BY <1>0
  <2>3. Trigger(s) \notin DOMAIN counts
    BY <1>3
  <2>4. rest[Trigger(s)] = triggers[Trigger(s)]
    BY <2>2, <2>3, OverOld
  <2>5. QED
    BY <2>1, <2>4
<1> HIDE DEF rest
<1>5. DOMAIN Over(sums, rest) = DOMAIN sums \cup DOMAIN rest
  BY OverDomain
<1>6. Over(sums, rest)[Trigger(s)] = rest[Trigger(s)]
  <2>1. Trigger(s) \in DOMAIN rest
    BY <1>0, <1>4
  <2>2. QED
    BY <1>3, <2>1, OverOld
<1>7. QED
  BY <1>0, <1>1, <1>2, <1>4, <1>5, <1>6

\* The runners of parts, and the parts they do.
IsRunner(t) ==
  /\ t.do \in {"init_runner_stdin", "init_runner_pmem", "recluster_runner"}
  /\ PartsOf(t) \subseteq Starts
Finishes(t) == IF t.do = "recluster_runner" THEN 2 ELSE 1

LEMMA RunnerParts ==
  ASSUME NEW t, IsRunner(t)
  PROVE  /\ t.do = "init_runner_stdin" => PartsOf(t) = Starts
         /\ t.do # "init_runner_stdin" => PartsOf(t) = {t.arg} /\ t.arg \in Starts
         /\ \E s \in Starts : s \in PartsOf(t)
  BY FirstStart DEF IsRunner, PartsOf

LEMMA RunnerEnds ==
  ASSUME NEW t, IsRunner(t), NEW view
  PROVE  LET end == Body(t, view)
         IN /\ end \notin {Waiting, Scheduled} /\ Commits(end)
            /\ end.runners = {} /\ end.types = {}
            /\ DOMAIN end.writes \subseteq Locations
            /\ \A s \in PartsOf(t) : Trigger(s) \in DOMAIN end.writes
                                       /\ end.writes[Trigger(s)] = Finishes(t)
            /\ \A s \in Starts \ PartsOf(t) : Trigger(s) \notin DOMAIN end.writes
            /\ Iter \notin DOMAIN end.writes
            /\ \A k : Centroid(k) \notin DOMAIN end.writes
            /\ t.do = "recluster_runner" => \A i : Point(i) \notin DOMAIN end.writes
<1>1. CASE t.do = "init_runner_stdin"
  <2>1. Body(t, view) = Ends("commit", InitRunnerStdin.writes, {}, {})
    BY <1>1, Bodies, StdinWrites
  <2>2. Commits(Body(t, view))
    BY <2>1, EndsFacts DEF Commits
  <2>3. Body(t, view).writes = InitRunnerStdin.writes
    BY <2>1, EndsFacts
  <2>4. DOMAIN InitRunnerStdin.writes \subseteq Locations
    BY StdinWrites DEF Locations
  <2>5. PartsOf(t) = Starts /\ Finishes(t) = 1
    BY <1>1 DEF PartsOf, Finishes
  <2>6. /\ Iter \notin DOMAIN InitRunnerStdin.writes
        /\ \A k : Centroid(k) \notin DOMAIN InitRunnerStdin.writes
    BY StdinWrites, ArraysApart
  <2>7. QED
    BY <1>1, <2>1, <2>2, <2>3, <2>4, <2>5, <2>6, StdinWrites, EndsFacts
<1>2. CASE t.do = "init_runner_pmem"
  <2> DEFINE writes == InitRunnerPmem(t.arg).writes
  <2>0. PartsOf(t) = {t.arg} /\ t.arg \in Starts /\ Finishes(t) = 1
    BY <1>2, RunnerParts DEF Finishes
  <2>1. Body(t, view) = Ends("commit", writes, {}, {})
    BY <1>2, <2>0, Bodies, PmemWrites
  <2>2. /\ DOMAIN writes = {Point(i) : i \in t.arg .. (t.arg + PSIZE - 1)} \cup {Trigger(t.arg)}
        /\ writes[Trigger(t.arg)] = 1
    BY <2>0, PmemWrites
  <2> HIDE DEF writes
  <2>3. /\ Commits(Body(t, view)) /\ Body(t, view).writes = writes
        /\ Body(t, view).runners = {} /\ Body(t, view).types = {}
        /\ Body(t, view) \notin {Waiting, Scheduled}
    BY <2>1, EndsFacts DEF Commits
  <2>4. t.arg .. (t.arg + PSIZE - 1) \subseteq 0 .. (N - 1)
    BY <2>0, PartOf, Constants
  <2>5. DOMAIN writes \subseteq Locations
    BY <2>0, <2>2, <2>4 DEF Locations
  <2>6. \A s \in Starts \ PartsOf(t) : Trigger(s) \notin DOMAIN writes
    BY <2>0, <2>2, OtherPart, ArraysApart
  <2>7. Iter \notin DOMAIN writes /\ \A k : Centroid(k) \notin DOMAIN writes
    BY <2>2, ArraysApart
  <2>8. QED
    BY <1>2, <2>0, <2>2, <2>3, <2>5, <2>6, <2>7
<1>3. CASE t.do = "recluster_runner"
  <2> DEFINE writes == PartWrites(t.arg, Minis(view, t.arg))
  <2>0. PartsOf(t) = {t.arg} /\ t.arg \in Starts /\ Finishes(t) = 2
    BY <1>3, RunnerParts DEF Finishes
  <2>1. Body(t, view) = Ends("commitd", writes, {}, {})
    BY <1>3, Bodies DEF ReclusterRunner
  <2>2. /\ DOMAIN writes = {Sum(t.arg, k) : k \in Clusters} \cup {Count(t.arg, k) : k \in Clusters}
                             \cup {Trigger(t.arg)}
        /\ writes[Trigger(t.arg)] = 2
    BY <2>0, PartWritten
  <2> HIDE DEF writes
  <2>3. /\ Commits(Body(t, view)) /\ Body(t, view).writes = writes
        /\ Body(t, view).runners = {} /\ Body(t, view).types = {}
        /\ Body(t, view) \notin {Waiting, Scheduled}
    BY <2>1, EndsFacts DEF Commits
  <2>5. DOMAIN writes \subseteq Locations
    BY <2>0, <2>2 DEF Locations
  <2>6. \A s \in Starts \ PartsOf(t) : Trigger(s) \notin DOMAIN writes
    BY <2>0, <2>2, OtherPart, ArraysApart
  <2>7. /\ Iter \notin DOMAIN writes
        /\ \A k : Centroid(k) \notin DOMAIN writes /\ Point(k) \notin DOMAIN writes
    BY <2>2, ArraysApart
  <2>8. QED
    BY <2>0, <2>2, <2>3, <2>5, <2>6, <2>7
<1>4. QED
  BY <1>1, <1>2, <1>3 DEF IsRunner

\* The runners of different parts never meet in a page.
LEMMA RunnersApart ==
  ASSUME NEW t, IsRunner(t), NEW u, IsRunner(u), PartsOf(t) \cap PartsOf(u) = {},
         t.do = "recluster_runner" <=> u.do = "recluster_runner",
         NEW view, NEW view2
  PROVE  PagesOf(DOMAIN Body(t, view).writes) \cap PagesOf(DOMAIN Body(u, view2).writes) = {}
<1>1. /\ t.do # "init_runner_stdin" /\ u.do # "init_runner_stdin"
      /\ t.arg \in Starts /\ u.arg \in Starts /\ t.arg # u.arg
  <2>1. PartsOf(t) \subseteq Starts /\ PartsOf(u) \subseteq Starts
    BY DEF IsRunner
  <2>2. PartsOf(t) # Starts /\ PartsOf(u) # Starts
    BY <2>1, RunnerParts
  <2>3. QED
    BY <2>2, RunnerParts
<1>2. CASE t.do = "init_runner_pmem"
  <2>1. u.do = "init_runner_pmem"
    BY <1>1, <1>2 DEF IsRunner
  <2>2. /\ Body(t, view).writes = InitRunnerPmem(t.arg).writes
        /\ Body(u, view2).writes = InitRunnerPmem(u.arg).writes
    BY <1>2, <2>1, Bodies
  <2>3. \A s \in Starts : DOMAIN InitRunnerPmem(s).writes =
          {Point(i) : i \in s .. (s + PSIZE - 1)} \cup {Trigger(s)}
    BY PmemWrites
  <2> DEFINE D(s) == {Point(i) : i \in s .. (s + PSIZE - 1)} \cup {Trigger(s)}
  <2>4. \A a \in D(t.arg), b \in D(u.arg) : PageOf(a) # PageOf(b)
    <3>1. /\ PageOf(Trigger(t.arg)) # PageOf(Trigger(u.arg))
          /\ \A i \in t.arg .. (t.arg + PSIZE - 1), j \in u.arg .. (u.arg + PSIZE - 1) :
               PageOf(Point(i)) # PageOf(Point(j))
      BY <1>1, OtherPart
    <3>2. QED
      BY <3>1, PagesApart
  <2>5. DOMAIN Body(t, view).writes = D(t.arg) /\ DOMAIN Body(u, view2).writes = D(u.arg)
    BY <1>1, <2>2, <2>3
  <2> HIDE DEF D
  <2>6. QED
    BY <2>4, <2>5 DEF PagesOf
<1>3. CASE t.do = "recluster_runner"
  <2>1. u.do = "recluster_runner"
    BY <1>3
  <2>2. /\ Body(t, view).writes = PartWrites(t.arg, Minis(view, t.arg))
        /\ Body(u, view2).writes = PartWrites(u.arg, Minis(view2, u.arg))
    BY <1>3, <2>1, Bodies, EndsFacts DEF ReclusterRunner
  <2>3. \A s \in Starts : \A mini : DOMAIN PartWrites(s, mini) =
          {Sum(s, k) : k \in Clusters} \cup {Count(s, k) : k \in Clusters} \cup {Trigger(s)}
    BY PartWritten
  <2> DEFINE D(s) == {Sum(s, k) : k \in Clusters} \cup {Count(s, k) : k \in Clusters}
                       \cup {Trigger(s)}
  <2>4. \A a \in D(t.arg), b \in D(u.arg) : PageOf(a) # PageOf(b)
    <3>1. /\ PageOf(Trigger(t.arg)) # PageOf(Trigger(u.arg))
          /\ \A k, l \in Clusters : PageOf(Sum(t.arg, k)) # PageOf(Sum(u.arg, l))
          /\ \A k, l \in Clusters : PageOf(Count(t.arg, k)) # PageOf(Count(u.arg, l))
      BY <1>1, OtherPart
    <3>2. QED
      BY <3>1, PagesApart
  <2>5. DOMAIN Body(t, view).writes = D(t.arg) /\ DOMAIN Body(u, view2).writes = D(u.arg)
    BY <1>1, <2>2, <2>3
  <2> HIDE DEF D
  <2>6. QED
    BY <2>4, <2>5 DEF PagesOf
<1>4. QED
  BY <1>1, <1>2, <1>3 DEF IsRunner

\* What a runner comes to depends on the points and the centroids only.
LEMMA RunnerReads ==
  ASSUME NEW t, IsRunner(t), t.do = "recluster_runner", NEW view, NEW view2,
         \A i : Point(i) \in Locations => view[Point(i)] = view2[Point(i)],
         \A k \in Clusters : view[Centroid(k)] = view2[Centroid(k)]
  PROVE  Body(t, view) = Body(t, view2)
<1>1. t.arg \in Starts /\ t.arg .. (t.arg + PSIZE - 1) \subseteq 0 .. (N - 1)
  BY RunnerParts, PartOf, Constants
<1>2. \A i \in t.arg .. (t.arg + PSIZE - 1) : view[Point(i)] = view2[Point(i)]
  BY <1>1 DEF Locations
<1>3. ASSUME NEW p PROVE Distances(p, view) = Distances(p, view2)
  BY DEF Distances
<1>4. Minis(view, t.arg) = Minis(view2, t.arg)
  BY <1>2, <1>3 DEF Minis
<1>5. QED
  BY <1>4, Bodies DEF ReclusterRunner

-----------------------------------------------------------------------------
(***************************************************************************)
(* What the watchers come to.                                               *)
(***************************************************************************)
LEMMA AbortFacts ==
  ASSUME NEW exit, exit \notin {"commit", "commitd"}
  PROVE  ~Commits(Aborts(exit))
  BY EndsFacts DEF Aborts, Commits

\* An iteration is started: everything is set back, and every part has a runner.
StartsIteration(end, i) ==
  /\ Commits(end)
  /\ DOMAIN end.writes = {Trigger(s) : s \in Starts} \cup {Centroid(k) : k \in Clusters} \cup {Iter}
  /\ \A s \in Starts : end.writes[Trigger(s)] = 0
  /\ end.writes[Iter] = i
  /\ end.runners = {Task("recluster_runner", s) : s \in Starts}
  /\ end.types = {Watcher("on_recluster_finished", i, "trigger")}

\* The last iteration is over.
EndsLast(end, i) ==
  /\ Commits(end)
  /\ DOMAIN end.writes = {Centroid(k) : k \in Clusters} \cup {Iter}
  /\ end.writes[Iter] = i
  /\ end.runners = {} /\ end.types = {}

LEMMA StartIterationFacts ==
  ASSUME NEW writes, NEW i, Iter \in DOMAIN writes, writes[Iter] = i,
         DOMAIN writes \cup {Trigger(s) : s \in Starts}
           = {Trigger(s) : s \in Starts} \cup {Centroid(k) : k \in Clusters} \cup {Iter}
  PROVE  StartsIteration(StartIteration(writes), i)
<1> DEFINE triggers == SetTriggers(Starts, 0)
           end == StartIteration(writes)
<1>1. DOMAIN triggers = {Trigger(s) : s \in Starts} /\ \A s \in Starts : triggers[Trigger(s)] = 0
  BY SetTriggersFacts
<1>2. end = Ends("commitd", Over(triggers, writes), {Task("recluster_runner", s) : s \in Starts},
                 {Watcher("on_recluster_finished", i, "trigger")})
  BY DEF StartIteration
<1> HIDE DEF triggers
<1>3. /\ end.exit = "commitd" /\ end.writes = Over(triggers, writes)
      /\ end.runners = {Task("recluster_runner", s) : s \in Starts}
      /\ end.types = {Watcher("on_recluster_finished", i, "trigger")}
  BY <1>2, EndsFacts
<1>4. DOMAIN Over(triggers, writes) = DOMAIN triggers \cup DOMAIN writes
  BY OverDomain
<1>5. ASSUME NEW s \in Starts PROVE Over(triggers, writes)[Trigger(s)] = 0
  <2>1. Trigger(s) \in DOMAIN triggers
    BY <1>1
  <2>2. QED
    BY <1>1, <2>1, OverNew
<1>6. Over(triggers, writes)[Iter] = i
  <2>1. Iter \notin DOMAIN triggers
    BY <1>1, ArraysApart
  <2>2. QED
    BY <2>1, OverOld
<1>7. DOMAIN Over(triggers, writes)
        = {Trigger(s) : s \in Starts} \cup {Centroid(k) : k \in Clusters} \cup {Iter}
  BY <1>1, <1>4
<1> HIDE DEF end
<1>8. QED
  BY <1>3, <1>5, <1>6, <1>7 DEF StartsIteration, Commits, end

LEMMA Init1Ends ==
  ASSUME NEW view, Commits(OnInit1Finished(view))
  PROVE  AllTriggers(view, 1) /\ StartsIteration(OnInit1Finished(view), 0)
<1> DEFINE points == [l \in {Centroid(k) : k \in Clusters} |-> view[Point(l[2])]]
           rest == Over(Holds(Iter, 0), Holds(Trigger(0), 3))
           writes == Over(points, rest)
<1>1. AllTriggers(view, 1)
  BY AbortFacts DEF OnInit1Finished
<1>2. OnInit1Finished(view) = StartIteration(writes)
  BY <1>1 DEF OnInit1Finished
<1>3. DOMAIN points = {Centroid(k) : k \in Clusters}
  OBVIOUS
<1>4. /\ DOMAIN Holds(Iter, 0) = {Iter} /\ Holds(Iter, 0)[Iter] = 0
      /\ DOMAIN Holds(Trigger(0), 3) = {Trigger(0)}
  BY HoldsFacts
<1>5. DOMAIN rest = {Iter} \cup {Trigger(0)}
  BY <1>4, OverDomain
<1>6. rest[Iter] = 0
  <2>1. Iter \in DOMAIN Holds(Iter, 0)
    BY <1>4
  <2>2. QED
    BY <1>4, <2>1, OverNew
<1> HIDE DEF points, rest
<1>7. DOMAIN writes = DOMAIN points \cup DOMAIN rest
  BY OverDomain
<1>8. writes[Iter] = 0
  <2>1. Iter \in DOMAIN rest /\ Iter \notin DOMAIN points
    BY <1>3, <1>5, ArraysApart
  <2>2. QED
    BY <1>6, <2>1, OverOld
<1>9. DOMAIN writes \cup {Trigger(s) : s \in Starts}
        = {Trigger(s) : s \in Starts} \cup {Centroid(k) : k \in Clusters} \cup {Iter}
  BY <1>3, <1>5, <1>7, FirstStart
<1>10. Iter \in DOMAIN writes
  BY <1>5, <1>7
<1> HIDE DEF writes
<1>11. StartsIteration(StartIteration(writes), 0)
  BY <1>8, <1>9, <1>10, StartIterationFacts
<1>12. QED
  BY <1>1, <1>2, <1>11

LEMMA MeansDomain ==
  ASSUME NEW view PROVE DOMAIN Means(view) = {Centroid(k) : k \in Clusters}
  BY DEF Means

LEMMA ReclusterEnds ==
  ASSUME NEW view, view[Iter] \in Nat, NEW expected_iter \in Nat,
         Commits(OnReclusterFinished(view, expected_iter))
  PROVE  LET end == OnReclusterFinished(view, expected_iter)
         IN /\ AllTriggers(view, 2) /\ expected_iter = view[Iter]
            /\ end = FinishIteration(view)
            /\ IF view[Iter] + 1 < MAX_ITER THEN StartsIteration(end, view[Iter] + 1)
               ELSE EndsLast(end, view[Iter] + 1)
<1>1. AllTriggers(view, 2) /\ expected_iter = view[Iter]
  <2>1. CASE expected_iter < view[Iter]
    BY <2>1, AbortFacts DEF OnReclusterFinished
  <2>2. CASE expected_iter > view[Iter]
    BY <2>2, AbortFacts DEF OnReclusterFinished
  <2>3. CASE expected_iter = view[Iter] /\ ~AllTriggers(view, 2)
    BY <2>3, AbortFacts DEF OnReclusterFinished
  <2>4. QED
    BY <2>1, <2>2, <2>3
<1>2. OnReclusterFinished(view, expected_iter) = FinishIteration(view)
  BY <1>1 DEF OnReclusterFinished
<1> DEFINE i == view[Iter] + 1
           next == Over(Means(view), Holds(Iter, i))
<1>3. DOMAIN next = {Centroid(k) : k \in Clusters} \cup {Iter}
  <2>1. DOMAIN next = DOMAIN Means(view) \cup DOMAIN Holds(Iter, i)
    BY OverDomain
  <2>2. DOMAIN Holds(Iter, i) = {Iter}
    BY HoldsFacts
  <2>3. QED
    BY <2>1, <2>2, MeansDomain
<1>4. next[Iter] = i
  <2>1. Iter \notin DOMAIN Means(view)
    BY MeansDomain, ArraysApart
  <2>2. Iter \in DOMAIN Holds(Iter, i) /\ Holds(Iter, i)[Iter] = i
    BY HoldsFacts
  <2>3. QED
    BY <2>1, <2>2, OverOld
<1>5. CASE i < MAX_ITER
  <2>1. FinishIteration(view) = StartIteration(next)
    BY <1>5 DEF FinishIteration
  <2> HIDE DEF next
  <2>2. DOMAIN next \cup {Trigger(s) : s \in Starts}
          = {Trigger(s) : s \in Starts} \cup {Centroid(k) : k \in Clusters} \cup {Iter}
    BY <1>3
  <2>3. Iter \in DOMAIN next
    BY <1>3
  <2>4. StartsIteration(StartIteration(next), i)
    BY <1>4, <2>2, <2>3, StartIterationFacts
  <2>5. QED
    BY <1>1, <1>2, <1>5, <2>1, <2>4
<1>6. CASE ~(i < MAX_ITER)
  <2>1. FinishIteration(view) = Ends("commitd", next, {}, {})
    BY <1>6 DEF FinishIteration
  <2> HIDE DEF next
  <2>2. EndsLast(FinishIteration(view), i)
    BY <1>3, <1>4, <2>1, EndsFacts DEF EndsLast, Commits
  <2>3. QED
    BY <1>1, <1>2, <1>6, <2>2
<1>7. QED
  BY <1>5, <1>6

-----------------------------------------------------------------------------
(***************************************************************************)
(* The tasks of a state that satisfies the invariant.                       *)
(***************************************************************************)
LEMMA UnderwayRunners ==
  ASSUME KMeansInv, Underway, NEW t \in Runners
  PROVE  /\ t \in tasks /\ IsRunner(t)
         /\ t.do \in CanRun /\ Finishes(t) = Done
         /\ \E s \in Starts : s \in PartsOf(t) /\ heap[Trigger(s)] = 0
<1>1. t \in tasks /\ t.do \in CanRun /\ PartsOf(t) \subseteq Starts
  BY DEF Underway, RunnersFit, Runners
<1>2. IsRunner(t)
  BY <1>1 DEF IsRunner, CanRun
<1>3. Finishes(t) = Done
  BY <1>1 DEF CanRun, Finishes, Done
<1>4. PICK s \in Starts : s \in PartsOf(t)
  BY <1>2, RunnerParts
<1>5. heap[Trigger(s)] = 0
  BY <1>4 DEF Underway, PartsServed
<1>6. QED
  BY <1>1, <1>2, <1>3, <1>4, <1>5

LEMMA UnderwayWatchers ==
  ASSUME KMeansInv, Underway, NEW t \in tasks, t \notin Runners
  PROVE  t.do \in CanWatch /\ t.arg \in Nat /\ t.arg < MAX_ITER
  BY DEF KMeansInv, TasksKept, Underway, WatchersFit

\* A watcher that commits has seen all triggers: no runner is left.
LEMMA UnderwayCommits ==
  ASSUME KMeansInv, Underway, NEW t \in tasks, t \notin Runners, Commits(Body(t, heap))
  PROVE  /\ Runners = {}
         /\ \A s \in Starts : heap[Trigger(s)] = Done
         /\ \E i \in 0 .. MAX_ITER :
              \/ StartsIteration(Body(t, heap), i) /\ i < MAX_ITER
              \/ EndsLast(Body(t, heap), i) /\ Begun
<1>0. Done # 0
  BY DEF Done
<1>1. /\ \A s \in Starts : heap[Trigger(s)] = Done
      /\ \E i \in 0 .. MAX_ITER :
           \/ StartsIteration(Body(t, heap), i) /\ i < MAX_ITER
           \/ EndsLast(Body(t, heap), i) /\ Begun
  <2>1. t.do \in CanWatch /\ t.arg \in Nat /\ t.arg < MAX_ITER
    BY UnderwayWatchers
  <2>2. CASE t.do = "on_init1_finished"
    <3>1. Body(t, heap) = OnInit1Finished(heap)
      BY <2>2, Bodies
    <3>2. AllTriggers(heap, 1) /\ StartsIteration(Body(t, heap), 0)
      BY <3>1, Init1Ends
    <3>3. heap[Trigger(0)] = 1 /\ heap[Trigger(0)] \in {0, Done}
      BY <3>2, FirstStart DEF AllTriggers, Underway, PartsServed
    <3>4. Done = 1
      BY <3>3 DEF Done
    <3>5. 0 \in 0 .. MAX_ITER /\ 0 < MAX_ITER
      BY Constants
    <3>6. QED
      BY <3>2, <3>4, <3>5 DEF AllTriggers
  <2>3. CASE t.do = "on_recluster_finished"
    <3>1. Body(t, heap) = OnReclusterFinished(heap, t.arg)
      BY <2>3, Bodies
    <3>2. Begun /\ Done = 2
      BY <2>1, <2>3 DEF CanWatch, Done
    <3>3. heap[Iter] \in Nat
      BY <3>2, Constants DEF Underway, IterInRange
    <3>4. /\ AllTriggers(heap, 2) /\ t.arg = heap[Iter]
          /\ IF heap[Iter] + 1 < MAX_ITER THEN StartsIteration(Body(t, heap), heap[Iter] + 1)
             ELSE EndsLast(Body(t, heap), heap[Iter] + 1)
      BY <2>1, <3>1, <3>3, ReclusterEnds
    <3>5. heap[Iter] + 1 \in 0 .. MAX_ITER
      BY <2>1, <3>3, <3>4, Constants
    <3>6. QED
      BY <3>2, <3>4, <3>5 DEF AllTriggers
  <2>4. QED
    BY <2>1, <2>2, <2>3 DEF CanWatch
<1>2. Runners = {}
  BY <1>0, <1>1, UnderwayRunners
<1>3. QED
  BY <1>1, <1>2

\* Parts depend on what a task does.
LEMMA PartsSame ==
  ASSUME NEW t, NEW u, t.do = u.do, t.arg = u.arg
  PROVE  PartsOf(t) = PartsOf(u)
  BY DEF PartsOf

\* The runners of the prologue and those that read or sum.
LEMMA RunnersCommit ==
  ASSUME KMeansInv, NEW t \in Runners
  PROVE  t \in tasks /\ Commits(Body(t, heap)) /\ ~Refused(t)
<1>1. t \in tasks /\ ~Refused(t)
  BY DEF KMeansInv, PartsApart, Runners
<1>2. CASE Prologue
  <2>1. t.do \in {"main", "init0"}
    BY <1>1, <1>2 DEF Prologue
  <2>2. Commits(Main) /\ Commits(Init0)
    BY EndsFacts DEF Main, Init0, Commits
  <2>3. QED
    BY <1>1, <2>1, <2>2, Bodies
<1>3. CASE Underway
  BY <1>1, <1>3, UnderwayRunners, RunnerEnds
<1>4. QED
  BY <1>2, <1>3 DEF KMeansInv

-----------------------------------------------------------------------------
(***************************************************************************)
(* Steps of one task that leave the heap alone: it is scheduled, takes its  *)
(* snapshot, is given up or runs again.                                     *)
(***************************************************************************)
LEMMA OneTask ==
  ASSUME KMeansInv, Unchanged, heap' = heap, watchers' \subseteq watchers,
         NEW t \in tasks, NEW new, tasks' = (tasks \ {t}) \cup new,
         \/ new = {} /\ t \notin Runners
         \/ \E u : /\ new = {u}
                   /\ IsTask(u) /\ u.do = t.do /\ u.arg = t.arg /\ u.missed = {}
                   /\ Runs(u) => u.end = Body(t, heap)
  PROVE  KMeansInv'
<1> DEFINE Same(v) == /\ IsTask(v) /\ v.do = t.do /\ v.arg = t.arg /\ v.missed = {}
                      /\ Runs(v) => v.end = Body(t, heap)
<1>0. /\ \A v \in new : Same(v)
      /\ \A v, w \in new : v = w
  OBVIOUS
<1>1. \A v \in tasks' : (v \in tasks /\ v # t) \/ (v \in new /\ Same(v))
  BY <1>0
<1>2. \A r \in Runners : \E v \in tasks' : v.do = r.do /\ v.arg = r.arg
  BY DEF Runners
<1>3. ASSUME NEW v, Same(v)
      PROVE  /\ ~Refused(v) /\ Body(v, heap) = Body(t, heap) /\ PartsOf(v) = PartsOf(t)
             /\ t.arg \in Nat /\ (t.arg < MAX_ITER => v.arg < MAX_ITER)
  <2>1. ~Refused(v)
    BY <1>3 DEF Refused
  <2>2. QED
    BY <1>3, <2>1, BodySame, PartsSame DEF KMeansInv, TasksKept
<1>4. \A v : v \in Runners' <=> v \in tasks' /\ v.do \notin {"on_init1_finished", "on_recluster_finished"}
  BY DEF Runners
<1>5. \A v : v \in Runners <=> v \in tasks /\ v.do \notin {"on_init1_finished", "on_recluster_finished"}
  BY DEF Runners
<1>6. \A v : Body(v, heap)' = Body(v, heap)
  BY BodyStays
<1>7. HeapKept' /\ TasksKept'
  <2>1. HeapKept'
    BY DEF KMeansInv, HeapKept
  <2>2. TasksKept'
    BY <1>1, <1>3 DEF KMeansInv, TasksKept
  <2>3. QED
    BY <2>1, <2>2
<1>8. ASSUME Prologue PROVE Prologue'
  <2>1. PICK r \in tasks : tasks = {r} /\ r.do \in {"main", "init0"}
    BY <1>8 DEF Prologue
  <2>2. t = r /\ t \in Runners
    BY <1>5, <2>1
  <2>3. PICK u : new = {u} /\ Same(u)
    BY <2>2
  <2>4. tasks' = {u} /\ u.do \in {"main", "init0"}
    BY <2>1, <2>2, <2>3
  <2>5. AllTriggers(heap', Unset) /\ heap'[Iter] = Unset
    BY <1>8 DEF Prologue
  <2>6. watchers' = {}
    BY <1>8 DEF Prologue
  <2>7. QED
    BY <2>4, <2>5, <2>6 DEF Prologue
<1>9. ASSUME Underway PROVE Underway'
  <2>1. Begun' = Begun /\ Done' = Done /\ CanRun' = CanRun /\ CanWatch' = CanWatch
    BY DEF Begun, Done, CanRun, CanWatch
  <2>2. \A r \in Runners : \E v \in Runners' : PartsOf(v) = PartsOf(r)
    BY <1>2, <1>4, <1>5, PartsSame
  <2>3. ASSUME NEW v \in Runners'
        PROVE  \/ v \in Runners /\ v # t
               \/ v \in new /\ Same(v) /\ t \in Runners
    <3>1. v \in tasks' /\ v.do \notin {"on_init1_finished", "on_recluster_finished"}
      BY <1>4
    <3>2. CASE v \in tasks /\ v # t
      BY <1>5, <3>1, <3>2
    <3>3. CASE v \in new /\ Same(v)
      <4>1. v.do = t.do
        BY <3>3
      <4>2. t \in Runners
        BY <1>5, <3>1, <4>1
      <4>3. QED
        BY <3>3, <4>2
    <3>4. QED
      BY <1>1, <3>1, <3>2, <3>3
  <2>4. PartsServed'
    <3>1. \A v \in Runners' : \E r \in Runners : PartsOf(v) = PartsOf(r)
      BY <1>3, <2>3
    <3>2. \A s \in Starts :
            (\E v \in Runners' : s \in PartsOf(v)) <=> (\E r \in Runners : s \in PartsOf(r))
      BY <2>2, <3>1
    <3>3. QED
      BY <1>9, <2>1, <3>2 DEF Underway, PartsServed
  <2>5. RunnersFit'
    <3>1. \A v \in Runners' : v.do \in CanRun /\ PartsOf(v) \subseteq Starts
      BY <1>3, <1>9, <2>3 DEF Underway, RunnersFit
    <3>2. ASSUME NEW v \in Runners', NEW w \in Runners', PartsOf(v) \cap PartsOf(w) # {}
          PROVE  v = w
      <4>1. CASE v \in Runners /\ w \in Runners
        BY <1>9, <3>2, <4>1 DEF Underway, RunnersFit
      <4>2. CASE v \in new /\ w \in new
        BY <1>0, <4>2
      <4>3. ASSUME NEW x \in new, Same(x), t \in Runners, NEW y \in Runners, y # t
            PROVE  PartsOf(x) \cap PartsOf(y) = {}
        <5>1. PartsOf(x) = PartsOf(t)
          BY <1>3, <4>3
        <5>2. QED
          BY <1>9, <4>3, <5>1 DEF Underway, RunnersFit
      <4>4. QED
        BY <2>3, <3>2, <4>1, <4>2, <4>3
    <3>3. QED
      BY <2>1, <3>1, <3>2 DEF RunnersFit
  <2>6. WatchersFit'
    <3>1. ASSUME NEW v \in tasks', v \notin Runners'
          PROVE  v.do \in CanWatch /\ v.arg < MAX_ITER
      BY <1>1, <1>3, <1>4, <1>5, <1>9, <3>1 DEF Underway, WatchersFit
    <3>2. QED
      BY <1>9, <2>1, <3>1 DEF Underway, WatchersFit
  <2>7. IterInRange'
    BY <1>9 DEF Underway, IterInRange, Begun
  <2>8. QED
    BY <2>4, <2>5, <2>6, <2>7 DEF Underway
<1>10. RunnersCurrent'
  <2>1. ASSUME NEW v \in Runners', Runs(v) PROVE v.end = Body(v, heap)
    BY <1>1, <1>3, <1>4, <1>5, <2>1 DEF KMeansInv, RunnersCurrent
  <2>2. QED
    BY <1>6, <2>1 DEF RunnersCurrent
<1>11. PartsApart'
  BY <1>1, <1>3, <1>4, <1>5 DEF KMeansInv, PartsApart
<1>12. CommitsAreCurrent'
  <2>1. ASSUME NEW v \in tasks', Runs(v), Commits(v.end), ~Refused(v)
        PROVE  Body(v, heap) = v.end
    BY <1>1, <1>3, <2>1 DEF KMeansInv, CommitsAreCurrent
  <2>2. QED
    BY <1>6, <2>1 DEF CommitsAreCurrent
<1>13. QED
  BY <1>7, <1>8, <1>9, <1>10, <1>11, <1>12 DEF KMeansInv

-----------------------------------------------------------------------------
(***************************************************************************)
(* Commits.                                                                 *)
(***************************************************************************)
LEMMA HeapWritten ==
  ASSUME HeapKept, NEW writes, DOMAIN writes \subseteq Locations, heap' = Over(writes, heap)
  PROVE  /\ HeapKept'
         /\ \A x \in DOMAIN writes : heap'[x] = writes[x]
         /\ \A x \in Locations : x \notin DOMAIN writes => heap'[x] = heap[x]
<1>1. DOMAIN heap = Locations
  BY DEF HeapKept
<1>2. heap' = [x \in Locations |-> heap'[x]]
  <2>1. DOMAIN writes \cup DOMAIN heap = Locations
    BY <1>1
  <2> DEFINE all == DOMAIN writes \cup DOMAIN heap
  <2>2. heap' = [x \in all |-> Over(writes, heap)[x]]
    BY OverFunction
  <2> HIDE DEF all
  <2>3. QED
    BY <2>1, <2>2 DEF all
<1>3. HeapKept'
  BY <1>2 DEF HeapKept
<1>4. \A x \in DOMAIN writes : heap'[x] = writes[x]
  BY OverNew
<1>5. \A x \in Locations : x \notin DOMAIN writes => heap'[x] = heap[x]
  BY <1>1, OverOld
<1>6. QED
  BY <1>3, <1>4, <1>5

LEMMA Places ==
  /\ \A s \in Starts : Trigger(s) \in Locations
  /\ \A k \in Clusters : Centroid(k) \in Locations
  /\ Iter \in Locations
  BY DEF Locations

\* Tasks that do not run yet have nothing to commit.
LEMMA NoneRuns ==
  ASSUME \A v \in tasks' : ~Runs(v) /\ ~Refused(v)
  PROVE  RunnersCurrent' /\ PartsApart' /\ CommitsAreCurrent'
<1>1. \A v \in Runners' : v \in tasks'
  BY DEF Runners
<1>2. QED
  BY <1>1 DEF RunnersCurrent, PartsApart, CommitsAreCurrent

LEMMA MainCommits ==
  ASSUME KMeansInv, Prologue, Unchanged, NEW t \in tasks, t.do = "main", Commit(t)
  PROVE  KMeansInv'
<1>1. tasks = {t}
  BY DEF Prologue
<1>2. t.end = Main
  <2>1. t \in Runners
    BY DEF Runners
  <2>2. QED
    BY <2>1, CommitFacts, Bodies DEF KMeansInv, RunnersCurrent
<1>3. /\ DOMAIN t.end.writes = {} /\ t.end.runners = {Task("init0", 0)} /\ t.end.types = {}
  BY <1>2, EndsFacts, NothingWritten DEF Main
<1>4. heap' = Over(t.end.writes, heap)
  BY CommitFacts
<1>5. HeapKept' /\ \A x \in Locations : heap'[x] = heap[x]
  BY <1>3, <1>4, HeapWritten DEF KMeansInv
<1>6. watchers' = {}
  BY <1>3, CommitFacts DEF Prologue
<1>7. tasks' = {Task("init0", 0)}
  <2>1. tasks \ {t} = {} /\ watchers \cup t.end.types = {}
    BY <1>1, <1>3 DEF Prologue
  <2>2. \A v \in tasks' : v \in t.end.runners
    BY <2>1, CommitFacts
  <2>3. t.end.runners \subseteq tasks'
    BY CommitFacts
  <2>4. QED
    BY <1>3, <2>2, <2>3
<1>8. LET u == Task("init0", 0)
      IN IsTask(u) /\ u.do = "init0" /\ u.arg = 0 /\ u.missed = {} /\ ~Runs(u) /\ ~Refused(u)
  BY TaskFacts
<1>9. TasksKept'
  BY <1>7, <1>8 DEF TasksKept
<1>10. Prologue'
  <2>1. AllTriggers(heap', Unset) /\ heap'[Iter] = Unset
    BY <1>5, Places DEF Prologue, AllTriggers
  <2>2. QED
    BY <1>6, <1>7, <1>8, <2>1 DEF Prologue
<1>11. RunnersCurrent' /\ PartsApart' /\ CommitsAreCurrent'
  BY <1>7, <1>8, NoneRuns
<1>12. QED
  BY <1>5, <1>9, <1>10, <1>11 DEF KMeansInv

\* init0 starts the runners that read the parts, and the watcher.
LEMMA Init0Facts ==
  /\ Init0.writes = SetTriggers(Starts, 0)
  /\ Init0.types = {Watcher("on_init1_finished", 0, "trigger")}
  /\ \A v \in Init0.runners :
       /\ IsTask(v) /\ v.arg \in Nat /\ v.missed = {} /\ ~Runs(v) /\ ~Refused(v)
       /\ v.do \in {"init_runner_stdin", "init_runner_pmem"} /\ PartsOf(v) \subseteq Starts
  /\ \A u, v \in Init0.runners : PartsOf(u) \cap PartsOf(v) # {} => u = v
  /\ \A s \in Starts : \E v \in Init0.runners : s \in PartsOf(v)
<1> DEFINE one == Task("init_runner_stdin", 0)
           each(s) == Task("init_runner_pmem", s)
<1>1. /\ Init0.writes = SetTriggers(Starts, 0)
      /\ Init0.types = {Watcher("on_init1_finished", 0, "trigger")}
      /\ Init0.runners = IF program = "kmeans-stdin" THEN {one} ELSE {each(s) : s \in Starts}
  BY EndsFacts DEF Init0
<1>2. /\ IsTask(one) /\ one.do = "init_runner_stdin" /\ one.arg = 0
      /\ one.missed = {} /\ ~Runs(one) /\ ~Refused(one)
  BY TaskFacts
<1>3. ASSUME NEW s \in Starts
      PROVE  /\ IsTask(each(s)) /\ each(s).do = "init_runner_pmem" /\ each(s).arg = s
             /\ each(s).missed = {} /\ ~Runs(each(s)) /\ ~Refused(each(s)) /\ s \in Nat
  BY TaskFacts, PartOf
<1> HIDE DEF one, each
<1>4. PartsOf(one) = Starts /\ \A s \in Starts : PartsOf(each(s)) = {s}
  BY <1>2, <1>3 DEF PartsOf
<1>5. CASE program = "kmeans-stdin"
  BY <1>1, <1>2, <1>4, <1>5
<1>6. CASE program # "kmeans-stdin"
  BY <1>1, <1>3, <1>4, <1>6
<1>7. QED
  BY <1>5, <1>6

LEMMA WatcherFacts ==
  ASSUME NEW do, NEW arg, NEW on
  PROVE  Watcher(do, arg, on).do = do /\ Watcher(do, arg, on).arg = arg
  BY DEF Watcher

LEMMA Init0Commits ==
  ASSUME KMeansInv, Prologue, Unchanged, NEW t \in tasks, t.do = "init0", Commit(t)
  PROVE  KMeansInv'
<1>1. tasks = {t} /\ watchers = {}
  BY DEF Prologue
<1>2. t.end = Init0
  <2>1. t \in Runners
    BY DEF Runners
  <2>2. QED
    BY <2>1, CommitFacts, Bodies DEF KMeansInv, RunnersCurrent
<1>3. /\ DOMAIN t.end.writes = {Trigger(s) : s \in Starts}
      /\ \A s \in Starts : t.end.writes[Trigger(s)] = 0
  <2>1. t.end.writes = SetTriggers(Starts, 0)
    BY <1>2, Init0Facts
  <2>2. QED
    BY <2>1, SetTriggersFacts
<1>4. heap' = Over(t.end.writes, heap)
  BY CommitFacts
<1>5. DOMAIN t.end.writes \subseteq Locations
  BY <1>3, Places
<1>6. HeapKept' /\ heap'[Iter] = Unset /\ \A s \in Starts : heap'[Trigger(s)] = 0
  <2>1. Iter \in Locations /\ Iter \notin DOMAIN t.end.writes
    BY <1>3, Places, ArraysApart
  <2>2. \A s \in Starts : Trigger(s) \in DOMAIN t.end.writes
    BY <1>3
  <2>3. QED
    BY <1>3, <1>4, <1>5, <2>1, <2>2, HeapWritten DEF KMeansInv, Prologue
<1>7. \A w \in watchers \cup t.end.types : w.do = "on_init1_finished" /\ w.arg = 0
  BY <1>1, <1>2, Init0Facts, WatcherFacts
<1>8. \A v \in tasks' :
        \/ v \in t.end.runners
        \/ /\ IsTask(v) /\ v.missed = {} /\ ~Runs(v) /\ ~Refused(v)
           /\ v.do = "on_init1_finished" /\ v.arg = 0
  BY <1>1, <1>7, CommitFacts
<1>9. \A v \in t.end.runners :
        /\ v \in tasks' /\ IsTask(v) /\ v.arg \in Nat /\ v.missed = {} /\ ~Runs(v) /\ ~Refused(v)
        /\ v.do \in {"init_runner_stdin", "init_runner_pmem"} /\ PartsOf(v) \subseteq Starts
  BY <1>2, Init0Facts, CommitFacts
<1>10. \A v : v \in Runners' <=> v \in t.end.runners
  <2>1. \A v : v \in Runners' <=> v \in tasks' /\ v.do \notin {"on_init1_finished", "on_recluster_finished"}
    BY DEF Runners
  <2>2. QED
    BY <1>8, <1>9, <2>1
<1>11. TasksKept'
  BY <1>8, <1>9 DEF TasksKept
<1>12. /\ Begun' = FALSE /\ Done' = 1 /\ CanWatch' = {"on_init1_finished"}
       /\ CanRun' = {"init_runner_stdin", "init_runner_pmem"}
  BY <1>6 DEF Begun, Done, CanWatch, CanRun
<1>13. IterInRange'
  BY <1>12 DEF IterInRange
<1>14. PartsServed'
  <2>1. \A s \in Starts : \E v \in Runners' : s \in PartsOf(v)
    BY <1>2, <1>10, Init0Facts
  <2>2. QED
    BY <1>6, <1>12, <2>1 DEF PartsServed
<1>15. RunnersFit'
  BY <1>2, <1>9, <1>10, <1>12, Init0Facts DEF RunnersFit
<1>16. WatchersFit'
  <2>1. \A v \in tasks' \ Runners' : v.do = "on_init1_finished" /\ v.arg = 0
    BY <1>8, <1>10
  <2>2. \A w \in watchers' : w.do = "on_init1_finished" /\ w.arg = 0
    BY <1>7, CommitFacts
  <2>3. 0 < MAX_ITER /\ 0 \in 0 .. (MAX_ITER - 1)
    BY Constants
  <2>4. QED
    BY <1>12, <2>1, <2>2, <2>3 DEF WatchersFit
<1>17. RunnersCurrent' /\ PartsApart' /\ CommitsAreCurrent'
  BY <1>8, <1>9, NoneRuns
<1>18. QED
  BY <1>6, <1>11, <1>13, <1>14, <1>15, <1>16, <1>17 DEF KMeansInv, Underway

\* A part is read, or summed: its runner and nobody else is done.
LEMMA RunnerCommits ==
  ASSUME KMeansInv, Underway, Unchanged, NEW t \in Runners, Commit(t)
  PROVE  KMeansInv'
<1> DEFINE writes == t.end.writes
           pages == PagesOf(DOMAIN writes)
<1>1. /\ t \in tasks /\ IsRunner(t) /\ t.do \in CanRun /\ Finishes(t) = Done
      /\ t.end = Body(t, heap)
  <2>1. t.end = Body(t, heap)
    BY CommitFacts DEF KMeansInv, RunnersCurrent
  <2>2. QED
    BY <2>1, UnderwayRunners
<1>2. /\ t.end.runners = {} /\ t.end.types = {}
      /\ DOMAIN writes \subseteq Locations
      /\ \A s \in PartsOf(t) : Trigger(s) \in DOMAIN writes /\ writes[Trigger(s)] = Done
      /\ \A s \in Starts \ PartsOf(t) : Trigger(s) \notin DOMAIN writes
      /\ Iter \notin DOMAIN writes
      /\ \A k : Centroid(k) \notin DOMAIN writes
      /\ t.do = "recluster_runner" => \A i : Point(i) \notin DOMAIN writes
  BY <1>1, RunnerEnds
<1>3. heap' = Over(writes, heap)
  BY CommitFacts
<1>4. /\ HeapKept'
      /\ \A x \in DOMAIN writes : heap'[x] = writes[x]
      /\ \A x \in Locations : x \notin DOMAIN writes => heap'[x] = heap[x]
  BY <1>2, <1>3, HeapWritten DEF KMeansInv
<1> HIDE DEF writes, pages
<1>5. /\ heap'[Iter] = heap[Iter]
      /\ \A s \in PartsOf(t) : heap'[Trigger(s)] = Done
      /\ \A s \in Starts \ PartsOf(t) : heap'[Trigger(s)] = heap[Trigger(s)]
  BY <1>2, <1>4, Places
<1>6. Begun' = Begun /\ Done' = Done /\ CanRun' = CanRun /\ CanWatch' = CanWatch
  BY <1>5 DEF Begun, Done, CanRun, CanWatch
<1>7. /\ watchers' \subseteq watchers
      /\ \A u \in tasks \ {t} : Missing(u, pages) \in tasks'
      /\ \A v \in tasks' :
           \/ \E u \in tasks \ {t} : v = Missing(u, pages)
           \/ /\ IsTask(v) /\ v.missed = {} /\ ~Runs(v) /\ ~Refused(v)
              /\ \E w \in watchers : v.do = w.do /\ v.arg = w.arg
  BY <1>2, CommitFacts DEF writes, pages
<1>8. \A u \in tasks :
        LET v == Missing(u, pages)
        IN /\ IsTask(v) /\ v.do = u.do /\ v.arg = u.arg /\ v.end = u.end
           /\ Runs(v) <=> Runs(u)
           /\ ~Runs(u) => v = u
           /\ Refused(u) => Refused(v)
           /\ PagesOf(DOMAIN u.end.writes) \cap pages = {} => (Refused(v) <=> Refused(u))
  BY MissingFacts DEF KMeansInv, TasksKept
<1>9. \A w \in watchers : w.do \in CanWatch /\ w.arg \in Nat /\ w.arg < MAX_ITER
  BY Constants DEF Underway, WatchersFit
<1>10. \A do \in CanWatch : do \in {"on_init1_finished", "on_recluster_finished"}
  BY DEF CanWatch
<1>11. \A v : /\ v \in Runners' <=> v \in tasks' /\ v.do \notin {"on_init1_finished", "on_recluster_finished"}
              /\ v \in Runners <=> v \in tasks /\ v.do \notin {"on_init1_finished", "on_recluster_finished"}
  BY DEF Runners
<1>12. \A v \in Runners' : \E u \in Runners \ {t} : v = Missing(u, pages)
  BY <1>7, <1>8, <1>9, <1>10, <1>11
<1>13. \A u \in Runners \ {t} : Missing(u, pages) \in Runners'
  BY <1>7, <1>8, <1>11
<1>14. \A u \in Runners \ {t} : PartsOf(t) \cap PartsOf(u) = {}
  BY DEF Underway, RunnersFit
<1>15. \A u \in tasks : PartsOf(Missing(u, pages)) = PartsOf(u)
  BY <1>8, PartsSame
<1>16. TasksKept'
  BY <1>7, <1>8, <1>9 DEF KMeansInv, TasksKept
<1>17. IterInRange'
  BY <1>5, <1>6 DEF Underway, IterInRange
<1>18. PartsServed'
  <2>1. ASSUME NEW s \in Starts
        PROVE  (\E v \in Runners' : s \in PartsOf(v)) <=> (\E u \in Runners \ {t} : s \in PartsOf(u))
    BY <1>11, <1>12, <1>13, <1>15
  <2>2. ASSUME NEW s \in Starts
        PROVE  /\ heap'[Trigger(s)] \in {0, Done}
               /\ heap'[Trigger(s)] = 0 <=> \E u \in Runners \ {t} : s \in PartsOf(u)
    <3>1. heap[Trigger(s)] \in {0, Done} /\ (heap[Trigger(s)] = 0 <=> \E u \in Runners : s \in PartsOf(u))
      BY DEF Underway, PartsServed
    <3>2. CASE s \in PartsOf(t)
      <4>1. Done # 0
        BY DEF Done
      <4>2. QED
        BY <1>5, <1>14, <3>2, <4>1
    <3>3. CASE s \notin PartsOf(t)
      BY <1>5, <3>1, <3>3
    <3>4. QED
      BY <3>2, <3>3
  <2>3. QED
    BY <1>6, <2>1, <2>2 DEF PartsServed
<1>19. RunnersFit'
  <2>1. \A v \in Runners' : v.do \in CanRun /\ PartsOf(v) \subseteq Starts
    BY <1>8, <1>11, <1>12, <1>15 DEF Underway, RunnersFit
  <2>2. ASSUME NEW v \in Runners', NEW w \in Runners', PartsOf(v) \cap PartsOf(w) # {}
        PROVE  v = w
    <3>1. PICK a \in Runners : v = Missing(a, pages)
      BY <1>12
    <3>2. PICK b \in Runners : w = Missing(b, pages)
      BY <1>12
    <3>3. PartsOf(v) = PartsOf(a) /\ PartsOf(w) = PartsOf(b)
      BY <1>11, <1>15, <3>1, <3>2
    <3>4. a = b
      BY <2>2, <3>3 DEF Underway, RunnersFit
    <3>5. QED
      BY <3>1, <3>2, <3>4
  <2>3. QED
    BY <1>6, <2>1, <2>2 DEF RunnersFit
<1>20. WatchersFit'
  <2>1. ASSUME NEW v \in tasks', v \notin Runners'
        PROVE  v.do \in CanWatch /\ v.arg < MAX_ITER
    <3>1. CASE \E u \in tasks \ {t} : v = Missing(u, pages)
      <4>1. PICK u \in tasks \ {t} : v = Missing(u, pages)
        BY <3>1
      <4>2. u \notin Runners
        BY <1>13, <2>1, <4>1
      <4>3. QED
        BY <1>8, <4>1, <4>2 DEF Underway, WatchersFit
    <3>2. CASE \E w \in watchers : v.do = w.do /\ v.arg = w.arg
      BY <1>9, <3>2
    <3>3. QED
      BY <1>7, <3>1, <3>2
  <2>2. QED
    BY <1>6, <1>7, <2>1 DEF Underway, WatchersFit
<1>21. ASSUME NEW u \in Runners \ {t}
       PROVE  /\ IsRunner(u)
              /\ Body(u, heap') = Body(u, heap)
              /\ Runs(u) => u.end = Body(u, heap) /\ ~Refused(Missing(u, pages))
  <2>1. IsRunner(u) /\ u.do \in CanRun /\ u \in tasks
    BY UnderwayRunners
  <2>2. u.do = "recluster_runner" <=> t.do = "recluster_runner"
    BY <1>1, <2>1 DEF CanRun
  <2>3. Body(u, heap') = Body(u, heap)
    <3>1. CASE u.do = "recluster_runner"
      <4>1. \A i : Point(i) \in Locations => heap'[Point(i)] = heap[Point(i)]
        BY <1>2, <1>4, <2>2, <3>1
      <4>2. \A k \in Clusters : heap'[Centroid(k)] = heap[Centroid(k)]
        BY <1>2, <1>4, Places
      <4>3. QED
        BY <2>1, <3>1, <4>1, <4>2, RunnerReads
    <3>2. CASE u.do # "recluster_runner"
      BY <2>1, <3>2, Bodies DEF IsRunner
    <3>3. QED
      BY <3>1, <3>2
  <2>4. ASSUME Runs(u)
        PROVE  u.end = Body(u, heap) /\ ~Refused(Missing(u, pages))
    <3>1. u.end = Body(u, heap) /\ ~Refused(u)
      BY <2>4 DEF KMeansInv, RunnersCurrent, PartsApart
    <3>2. PagesOf(DOMAIN Body(t, heap).writes) \cap PagesOf(DOMAIN Body(u, heap).writes) = {}
      BY <1>1, <1>14, <2>1, <2>2, RunnersApart
    <3>3. PagesOf(DOMAIN u.end.writes) \cap pages = {}
      BY <1>1, <3>1, <3>2 DEF pages, writes
    <3>4. QED
      BY <1>8, <2>1, <3>1, <3>3
  <2>5. QED
    BY <2>1, <2>3, <2>4
<1>22. RunnersCurrent'
  <2>1. ASSUME NEW v \in Runners', Runs(v) PROVE v.end = Body(v, heap')
    <3>1. PICK u \in Runners \ {t} : v = Missing(u, pages)
      BY <1>12
    <3>2. /\ Runs(u) /\ v.end = u.end /\ v.do = u.do /\ v.arg = u.arg
      BY <1>8, <1>11, <2>1, <3>1
    <3>3. QED
      BY <1>21, <3>2, BodySame
  <2>2. QED
    BY <2>1, BodyNext DEF RunnersCurrent
<1>23. PartsApart'
  <2>1. ASSUME NEW v \in Runners' PROVE ~Refused(v)
    <3>1. PICK u \in Runners \ {t} : v = Missing(u, pages)
      BY <1>12
    <3>2. CASE Runs(u)
      BY <1>21, <3>1, <3>2
    <3>3. CASE ~Runs(u)
      <4>1. v = u
        BY <1>8, <1>11, <3>1, <3>3
      <4>2. QED
        BY <4>1 DEF KMeansInv, PartsApart
    <3>4. QED
      BY <3>2, <3>3
  <2>2. QED
    BY <2>1 DEF PartsApart
<1>24. CommitsAreCurrent'
  <2>1. ASSUME NEW v \in tasks', Runs(v), Commits(v.end), ~Refused(v)
        PROVE  Body(v, heap') = v.end
    <3>1. PICK u \in tasks \ {t} : v = Missing(u, pages)
      BY <1>7, <2>1
    <3>2. Runs(u) /\ Commits(u.end) /\ ~Refused(u) /\ v.end = u.end
      BY <1>8, <2>1, <3>1
    <3>3. Commits(Body(u, heap))
      BY <3>2 DEF KMeansInv, CommitsAreCurrent
    <3>4. u \in Runners
      BY <3>3, UnderwayCommits
    <3>5. v \in Runners'
      BY <1>13, <3>1, <3>4
    <3>6. v.do = u.do /\ v.arg = u.arg
      BY <1>8, <3>1
    <3>7. QED
      BY <1>21, <3>1, <3>2, <3>4, <3>6, BodySame
  <2>2. QED
    BY <2>1, BodyNext DEF CommitsAreCurrent
<1>25. QED
  BY <1>4, <1>16, <1>17, <1>18, <1>19, <1>20, <1>22, <1>23, <1>24 DEF KMeansInv, Underway

\* A watcher moves on: no runner was left, and every other watcher that has
\* ended with a commit is refused, because it wrote iter as well.
LEMMA WatcherCommits ==
  ASSUME KMeansInv, Underway, Unchanged, NEW t \in tasks, t \notin Runners, Commit(t)
  PROVE  KMeansInv'
<1> DEFINE writes == t.end.writes
           pages == PagesOf(DOMAIN writes)
<1>0. t.end = Body(t, heap)
  BY CommitFacts DEF KMeansInv, CommitsAreCurrent
<1>1. /\ Runners = {}
      /\ \A s \in Starts : heap[Trigger(s)] = Done
      /\ \E i \in 0 .. MAX_ITER : \/ StartsIteration(t.end, i) /\ i < MAX_ITER
                                  \/ EndsLast(t.end, i) /\ Begun
  <2>1. Commits(Body(t, heap))
    BY <1>0, CommitFacts
  <2>2. QED
    BY <1>0, <2>1, UnderwayCommits
<1>2. PICK i \in 0 .. MAX_ITER : \/ StartsIteration(t.end, i) /\ i < MAX_ITER
                                 \/ EndsLast(t.end, i) /\ Begun
  BY <1>1
<1>3. /\ DOMAIN writes \subseteq Locations
      /\ Iter \in DOMAIN writes /\ writes[Iter] = i
  BY <1>2, Places DEF StartsIteration, EndsLast
<1>4. heap' = Over(writes, heap)
  BY CommitFacts
<1>5. /\ HeapKept'
      /\ \A x \in DOMAIN writes : heap'[x] = writes[x]
      /\ \A x \in Locations : x \notin DOMAIN writes => heap'[x] = heap[x]
  BY <1>3, <1>4, HeapWritten DEF KMeansInv
<1>6. \A w \in t.end.types : w.do = "on_recluster_finished" /\ w.arg \in 0 .. (MAX_ITER - 1)
  <2>1. CASE StartsIteration(t.end, i) /\ i < MAX_ITER
    <3>1. i \in 0 .. (MAX_ITER - 1)
      BY <2>1, Constants
    <3>2. t.end.types = {Watcher("on_recluster_finished", i, "trigger")}
      BY <2>1 DEF StartsIteration
    <3>3. QED
      BY <3>1, <3>2, WatcherFacts
  <2>2. CASE EndsLast(t.end, i)
    BY <2>2 DEF EndsLast
  <2>3. QED
    BY <1>2, <2>1, <2>2
<1>7. /\ watchers' \subseteq watchers \cup t.end.types
      /\ t.end.runners \subseteq tasks'
      /\ \A v \in tasks' :
           \/ \E u \in tasks \ {t} : v = Missing(u, pages)
           \/ v \in t.end.runners
           \/ /\ IsTask(v) /\ v.missed = {} /\ ~Runs(v) /\ ~Refused(v)
              /\ \E w \in watchers \cup t.end.types : v.do = w.do /\ v.arg = w.arg
  BY CommitFacts
<1>8. \A u \in tasks :
        LET v == Missing(u, pages)
        IN /\ IsTask(v) /\ v.do = u.do /\ v.arg = u.arg /\ v.end = u.end
           /\ Runs(v) <=> Runs(u)
           /\ ~Runs(u) => v = u
           /\ Refused(u) => Refused(v)
           /\ Runs(u) /\ PagesOf(DOMAIN u.end.writes) \cap pages # {} => Refused(v)
  BY MissingFacts DEF KMeansInv, TasksKept
<1>9. PageOf(Iter) \in pages
  BY <1>3 DEF PagesOf
<1>10. \A s \in Starts :
         LET r == Task("recluster_runner", s)
         IN /\ IsTask(r) /\ r.do = "recluster_runner" /\ r.arg = s /\ r.missed = {}
            /\ ~Runs(r) /\ ~Refused(r) /\ PartsOf(r) = {s} /\ s \in Nat
  <2>1. \A r : r.do = "recluster_runner" => PartsOf(r) = {r.arg}
    BY DEF PartsOf
  <2>2. QED
    BY <2>1, TaskFacts, PartOf
<1> DEFINE R(s) == Task("recluster_runner", s)
<1> HIDE DEF writes, pages, R
<1>11. \/ t.end.runners = {R(s) : s \in Starts} /\ \A s \in Starts : heap'[Trigger(s)] = 0
       \/ t.end.runners = {} /\ Begun /\ \A s \in Starts : heap'[Trigger(s)] = heap[Trigger(s)]
  <2>1. CASE StartsIteration(t.end, i)
    <3>1. \A s \in Starts : Trigger(s) \in DOMAIN writes /\ writes[Trigger(s)] = 0
      BY <2>1 DEF StartsIteration, writes
    <3>2. t.end.runners = {R(s) : s \in Starts}
      BY <2>1 DEF StartsIteration, R
    <3>3. QED
      BY <1>5, <3>1, <3>2
  <2>2. CASE EndsLast(t.end, i) /\ Begun
    <3>1. \A s \in Starts : Trigger(s) \in Locations /\ Trigger(s) \notin DOMAIN writes
      BY <2>2, Places, ArraysApart DEF EndsLast, writes
    <3>2. QED
      BY <1>5, <2>2, <3>1 DEF EndsLast
  <2>3. QED
    BY <1>2, <2>1, <2>2
<1>12. \A r \in t.end.runners :
         /\ \E s \in Starts : r = R(s)
         /\ IsTask(r) /\ r.do = "recluster_runner" /\ r.arg \in Starts /\ r.arg \in Nat
         /\ r.missed = {} /\ ~Runs(r) /\ ~Refused(r) /\ PartsOf(r) = {r.arg}
         /\ r = R(r.arg)
  BY <1>10, <1>11 DEF R
<1>13. heap'[Iter] = i /\ i \in Int /\ i # Unset
  <2>1. i \in Int
    BY Constants
  <2>2. QED
    BY <1>3, <1>5, <2>1, Constants
<1>14. /\ Begun' = TRUE /\ Done' = 2 /\ CanRun' = {"recluster_runner"}
       /\ CanWatch' = {"on_init1_finished", "on_recluster_finished"}
  BY <1>13 DEF Begun, Done, CanRun, CanWatch
<1>15. /\ \A u \in tasks : u.do \in {"on_init1_finished", "on_recluster_finished"} /\ u.arg < MAX_ITER
       /\ \A w \in watchers \cup t.end.types :
            /\ w.do \in {"on_init1_finished", "on_recluster_finished"}
            /\ w.arg \in 0 .. (MAX_ITER - 1) /\ w.arg \in Nat /\ w.arg < MAX_ITER
  <2>1. \A do \in CanWatch : do \in {"on_init1_finished", "on_recluster_finished"}
    BY DEF CanWatch
  <2>2. \A a \in 0 .. (MAX_ITER - 1) : a \in Nat /\ a < MAX_ITER
    BY Constants
  <2>3. QED
    BY <1>1, <1>6, <2>1, <2>2 DEF Underway, WatchersFit
<1>16. \A v : v \in Runners' <=> v \in tasks' /\ v.do \notin {"on_init1_finished", "on_recluster_finished"}
  BY DEF Runners
<1>17. \A v : v \in Runners' <=> v \in t.end.runners
  BY <1>7, <1>8, <1>12, <1>15, <1>16
<1>18. TasksKept'
  BY <1>7, <1>8, <1>12, <1>15 DEF KMeansInv, TasksKept
<1>19. IterInRange'
  BY <1>13 DEF IterInRange
<1>20. PartsServed'
  <2>1. CASE t.end.runners = {R(s) : s \in Starts} /\ \A s \in Starts : heap'[Trigger(s)] = 0
    <3>1. \A s \in Starts : R(s) \in Runners' /\ s \in PartsOf(R(s))
      BY <1>10, <1>17, <2>1 DEF R
    <3>2. QED
      BY <2>1, <3>1, <1>14 DEF PartsServed
  <2>2. CASE t.end.runners = {} /\ Begun /\ \A s \in Starts : heap'[Trigger(s)] = heap[Trigger(s)]
    <3>1. Done = 2
      BY <2>2 DEF Done
    <3>2. QED
      BY <1>1, <1>14, <1>17, <2>2, <3>1 DEF PartsServed
  <2>3. QED
    BY <1>11, <2>1, <2>2
<1>21. RunnersFit'
  BY <1>12, <1>14, <1>17 DEF RunnersFit
<1>22. WatchersFit'
  <2>1. ASSUME NEW v \in tasks', v \notin Runners'
        PROVE  v.do \in CanWatch' /\ v.arg < MAX_ITER
    BY <1>7, <1>8, <1>14, <1>15, <1>17, <2>1
  <2>2. QED
    BY <1>7, <1>14, <1>15, <2>1 DEF WatchersFit
<1>23. RunnersCurrent' /\ PartsApart'
  BY <1>12, <1>17 DEF RunnersCurrent, PartsApart
<1>24. CommitsAreCurrent'
  <2>1. ASSUME NEW v \in tasks', Runs(v), Commits(v.end), ~Refused(v)
        PROVE  FALSE
    <3>1. PICK u \in tasks \ {t} : v = Missing(u, pages)
      BY <1>7, <1>12, <2>1
    <3>2. Runs(u) /\ Commits(u.end) /\ ~Refused(u) /\ v.end = u.end
      BY <1>8, <2>1, <3>1
    <3>3. u.end = Body(u, heap)
      BY <3>2 DEF KMeansInv, CommitsAreCurrent
    <3>4. PICK j : StartsIteration(u.end, j) \/ EndsLast(u.end, j)
      BY <1>1, <3>2, <3>3, UnderwayCommits
    <3>5. Iter \in DOMAIN u.end.writes
      BY <3>4 DEF StartsIteration, EndsLast
    <3>6. PageOf(Iter) \in PagesOf(DOMAIN u.end.writes)
      BY <3>5 DEF PagesOf
    <3>7. QED
      BY <1>8, <1>9, <2>1, <3>1, <3>2, <3>6
  <2>2. QED
    BY <2>1 DEF CommitsAreCurrent
<1>25. QED
  BY <1>5, <1>18, <1>19, <1>20, <1>21, <1>22, <1>23, <1>24 DEF KMeansInv, Underway

-----------------------------------------------------------------------------
LEMMA CommitStep ==
  ASSUME KMeansInv, Unchanged, NEW t \in tasks, Commit(t)
  PROVE  KMeansInv'
<1>1. CASE Prologue
  <2>1. t.do \in {"main", "init0"}
    BY <1>1 DEF Prologue
  <2>2. QED
    BY <1>1, <2>1, MainCommits, Init0Commits
<1>2. CASE Underway
  BY <1>2, RunnerCommits, WatcherCommits
<1>3. QED
  BY <1>1, <1>2 DEF KMeansInv

LEMMA InvNext == ASSUME KMeansInv, [Next]_vars PROVE KMeansInv'
<1> DEFINE Alike(t, u) == IsTask(u) /\ u.do = t.do /\ u.arg = t.arg /\ u.missed = {}
<1>0. \A t \in tasks : IsTask(t) /\ (~Runs(t) => t.missed = {})
  BY DEF KMeansInv, TasksKept
<1>1. CASE ScheduleTask
  <2>1. PICK t \in tasks : Schedule(t) /\ Unchanged
    BY <1>1 DEF ScheduleTask
  <2> DEFINE u == [t EXCEPT !.end = Scheduled]
  <2>2. tasks' = (tasks \ {t}) \cup {u} /\ heap' = heap /\ watchers' = watchers
    BY <2>1 DEF Schedule
  <2>3. t.missed = {}
    BY <1>0, <2>1 DEF Schedule, Runs
  <2>4. Alike(t, u) /\ ~Runs(u)
    BY <1>0, <2>3, EndFacts DEF Runs
  <2> HIDE DEF u
  <2>5. QED
    BY <2>1, <2>2, <2>4, OneTask
<1>2. CASE StartTask
  <2>1. PICK t \in tasks : Start(t, Body(t, heap)) /\ Unchanged
    BY <1>2 DEF StartTask
  <2> DEFINE u == [t EXCEPT !.end = Body(t, heap)]
  <2>2. tasks' = (tasks \ {t}) \cup {u} /\ heap' = heap /\ watchers' = watchers
    BY <2>1 DEF Start
  <2>3. t.missed = {}
    BY <1>0, <2>1 DEF Start, Runs
  <2>4. Alike(t, u) /\ u.end = Body(t, heap)
    BY <1>0, <2>3, EndFacts
  <2> HIDE DEF u
  <2>5. QED
    BY <2>1, <2>2, <2>4, OneTask
<1>3. CASE CommitTask
  BY <1>3, CommitStep DEF CommitTask
<1>4. CASE AbortTask
  <2>1. PICK t \in tasks : Abort(t) /\ Unchanged
    BY <1>4 DEF AbortTask
  <2>2. t \notin Runners
    BY <2>1, RunnersCommit DEF Abort, KMeansInv, RunnersCurrent
  <2>3. tasks' = (tasks \ {t}) \cup {} /\ heap' = heap /\ watchers' \subseteq watchers
    BY <2>1 DEF Abort, Staying
  <2>4. QED
    BY <2>1, <2>2, <2>3, OneTask
<1>5. CASE RefuseTask
  <2>1. PICK t \in tasks : Refuse(t) /\ Unchanged
    BY <1>5 DEF RefuseTask
  <2>2. t \notin Runners
    BY <2>1, RunnersCommit DEF Refuse
  <2> DEFINE u == Instance(t.do, t.arg, t.no)
  <2>3. PICK again \in {{}, {u}} : tasks' = (tasks \ {t}) \cup again
    BY <2>1 DEF Refuse
  <2>4. heap' = heap /\ watchers' = watchers
    BY <2>1 DEF Refuse
  <2>5. Alike(t, u) /\ ~Runs(u)
    BY InstanceFacts
  <2> HIDE DEF u
  <2>6. QED
    BY <2>1, <2>2, <2>3, <2>4, <2>5, OneTask
<1>6. CASE UNCHANGED vars
  <2>2. Unchanged /\ heap' = heap /\ tasks' = tasks /\ watchers' = watchers
    BY <1>6 DEF vars, Unchanged
  <2>3. \A t : Body(t, heap)' = Body(t, heap)
    BY <2>2, BodyStays
  <2>4. HeapKept' /\ TasksKept' /\ (Prologue \/ Underway)' /\ PartsApart'
    BY <2>2 DEF KMeansInv, HeapKept, TasksKept, Prologue, Underway, AllTriggers, IterInRange,
                PartsServed, RunnersFit, WatchersFit, Runners, Begun, Done, CanRun, CanWatch,
                PartsApart
  <2>5. RunnersCurrent' /\ CommitsAreCurrent'
    BY <2>2, <2>3 DEF KMeansInv, RunnersCurrent, CommitsAreCurrent, Runners
  <2>6. QED
    BY <2>4, <2>5 DEF KMeansInv
<1>7. QED
  BY <1>1, <1>2, <1>3, <1>4, <1>5, <1>6 DEF Next, Step, Idle

LEMMA InvInit == ASSUME Init PROVE KMeansInv
<1>1. /\ tasks = {Task("main", 0)} /\ watchers = {}
      /\ heap = [l \in Locations |-> Unset]
  BY DEF Init
<1>2. LET t == Task("main", 0)
      IN IsTask(t) /\ t.do = "main" /\ t.arg = 0 /\ t.missed = {} /\ ~Runs(t) /\ ~Refused(t)
  BY TaskFacts
<1>3. HeapKept
  BY <1>1 DEF HeapKept
<1>4. TasksKept
  BY <1>1, <1>2 DEF TasksKept
<1>5. Prologue
  BY <1>1, <1>2, Places DEF Prologue, AllTriggers
<1>6. RunnersCurrent /\ PartsApart /\ CommitsAreCurrent
  BY <1>1, <1>2 DEF RunnersCurrent, PartsApart, CommitsAreCurrent, Runners
<1>7. QED
  BY <1>3, <1>4, <1>5, <1>6 DEF KMeansInv

\* The inductive invariant, which holds whatever the layout, the input and the
\* runtime's choices of what runs when, what starts early and what runs again.
THEOREM InvariantHolds == Spec => []KMeansInv
<1>1. Init => KMeansInv
  BY InvInit
<1>2. KMeansInv /\ [Next]_vars => KMeansInv'
  BY InvNext
<1>3. QED
  BY <1>1, <1>2, PTL DEF Spec

\* The padding is enough: no runner of apps/kmeans/L0 is ever refused.
THEOREM NeverRefused == Spec => []PartsApart
<1>1. KMeansInv => PartsApart
  BY DEF KMeansInv
<1>2. QED
  BY <1>1, InvariantHolds, PTL

\* No stale commit: what gets in is what would be done now.
THEOREM NothingStale == Spec => []CommitsAreCurrent
<1>1. KMeansInv => CommitsAreCurrent
  BY DEF KMeansInv
<1>2. QED
  BY <1>1, InvariantHolds, PTL

\* While iterations run, a part whose trigger is 0 has one runner, the others none.
THEOREM EachPartOnce == Spec => []OneRunnerPerPart
<1>1. ASSUME KMeansInv PROVE OneRunnerPerPart
  <2>1. SUFFICES ASSUME Begun
        PROVE /\ \A s \in Starts :
                   Cardinality({t \in Runners : t.arg = s})
                     = IF heap[Trigger(s)] = 0 THEN 1 ELSE 0
              /\ \A t \in Runners : t.do = "recluster_runner" /\ t.arg \in Starts
    BY DEF OneRunnerPerPart, Begun
  <2>2. Underway
    BY <1>1, <2>1 DEF KMeansInv, Prologue, Begun
  <2>3. \A t \in Runners : t.do = "recluster_runner" /\ PartsOf(t) = {t.arg} /\ t.arg \in Starts
    <3>1. ASSUME NEW t \in Runners PROVE t.do = "recluster_runner"
      BY <2>1, <2>2 DEF Underway, RunnersFit, CanRun
    <3>2. ASSUME NEW t \in Runners PROVE PartsOf(t) = {t.arg}
      BY <3>1 DEF PartsOf
    <3>3. QED
      BY <2>2, <3>1, <3>2 DEF Underway, RunnersFit
  <2>4. ASSUME NEW s \in Starts
        PROVE  Cardinality({t \in Runners : t.arg = s}) = IF heap[Trigger(s)] = 0 THEN 1 ELSE 0
    <3> DEFINE mine == {t \in Runners : t.arg = s}
    <3>1. heap[Trigger(s)] = 0 <=> \E t \in Runners : s \in PartsOf(t)
      BY <2>2 DEF Underway, PartsServed
    <3>2. CASE heap[Trigger(s)] = 0
      <4>1. PICK t \in Runners : s \in PartsOf(t)
        BY <3>1, <3>2
      <4>2. mine = {t}
        BY <2>2, <2>3, <4>1 DEF Underway, RunnersFit
      <4>3. QED
        BY <3>2, <4>2, FS_Singleton
    <3>3. CASE heap[Trigger(s)] # 0
      <4>1. mine = {}
        BY <2>3, <3>1, <3>3
      <4>2. QED
        BY <3>3, <4>1, FS_EmptySet
    <3>4. QED
      BY <3>2, <3>3
  <2>5. QED
    BY <2>3, <2>4
<1>2. QED
  BY <1>1, InvariantHolds, PTL

-----------------------------------------------------------------------------
(***************************************************************************)
(* Types: what is written is a value of its type, and only what has been    *)
(* written is read.                                                         *)
(***************************************************************************)
LEMMA HalfFacts == Half \in Nat /\ Half >= 32 /\ IsFiniteSet(Dims)
<1>1. Half \in Nat \ {0} /\ Half % 32 = 0 /\ IsFiniteSet(Dims)
  BY KMeansAssumption
<1>2. QED
  BY <1>1

LEMMA WrapRange ==
  ASSUME NEW n \in Int
  PROVE  Wrap(n) \in -Half .. (Half - 1)
<1>1. PICK m \in Nat : m = 2 * Half /\ m > 0
  BY HalfFacts
<1>2. (n + Half) % m \in 0 .. (m - 1)
  BY <1>1, HalfFacts
<1>3. QED
  BY <1>1, <1>2, HalfFacts DEF Wrap

LEMMA DivideDown ==
  ASSUME NEW m \in Nat, NEW n \in Nat \ {0}
  PROVE  m \div n \in Nat /\ m \div n <= m
<1>1. PICK q \in Nat : q = m \div n /\ q * n <= m
  BY SMT
<1>2. q <= q * n
  BY <1>1
<1>3. QED
  BY <1>1, <1>2

LEMMA QuotientRange ==
  ASSUME NEW m \in -Half .. (Half - 1), NEW n \in Nat \ {0}
  PROVE  Quotient(m, n) \in -Half .. (Half - 1)
<1>1. CASE m >= 0
  <2>1. m \in Nat /\ m < Half
    BY <1>1, HalfFacts
  <2>2. m \div n \in Nat /\ m \div n <= m
    BY <2>1, DivideDown
  <2>3. QED
    BY <1>1, <2>1, <2>2, HalfFacts DEF Quotient
<1>2. CASE m < 0
  <2>1. PICK a \in Nat : a = -m /\ a <= Half
    BY <1>2, HalfFacts
  <2>2. a \div n \in Nat /\ a \div n <= a
    BY DivideDown
  <2>3. Quotient(m, n) = -(a \div n)
    BY <1>2, <2>1 DEF Quotient
  <2>4. QED
    BY <2>1, <2>2, <2>3, HalfFacts
<1>3. QED
  BY <1>1, <1>2, HalfFacts

LEMMA VectorFacts ==
  ASSUME NEW p \in Vectors
  PROVE  p # Unset /\ \A d \in Dims : p[d] \in Int /\ p[d] \in -Half .. (Half - 1)
<1>1. \A d \in Dims : p[d] \in -Half .. (Half - 1) /\ p[d] \in Int
  BY HalfFacts DEF Vectors
<1>2. p \in [Dims -> Int]
  BY <1>1 DEF Vectors
<1>3. QED
  BY <1>1, <1>2, Constants

LEMMA IntSum ==
  ASSUME NEW f, IsFiniteSet(DOMAIN f), \A x \in DOMAIN f : f[x] \in Int
  PROVE  SumFunction(f) \in Int
  BY SumType

LEMMA NatSum ==
  ASSUME NEW f, IsFiniteSet(DOMAIN f), \A x \in DOMAIN f : f[x] \in Nat
  PROVE  SumFunction(f) \in Nat
<1>1. 0 \in Nat /\ \A a, b \in Nat : a + b \in Nat
  OBVIOUS
<1>2. QED
  BY <1>1, SumType

LEMMA StartsFinite == IsFiniteSet(Starts)
<1>1. N \div PSIZE \in Int
  BY Constants
<1>2. IsFiniteSet(Parts)
  BY <1>1, FS_Interval DEF Parts
<1>3. [p \in Parts |-> p * PSIZE] \in Surjection(Parts, Starts)
  BY DEF Surjection, Starts
<1>4. QED
  BY <1>2, <1>3, FS_Surjection

\* What a type allows at each array; nothing that has a type is Unset.
LEMMA TypedFacts ==
  ASSUME NEW v
  PROVE  /\ \A s : Typed(Trigger(s), v) <=> v \in 0 .. 3
         /\ Typed(Iter, v) <=> v \in 0 .. MAX_ITER
         /\ \A s, k : Typed(Count(s, k), v) <=> v \in 0 .. PSIZE
         /\ \A s, k : Typed(Sum(s, k), v) <=> v \in Vectors
         /\ \A i : Typed(Point(i), v) <=> v \in Vectors
         /\ \A k : Typed(Centroid(k), v) <=> v \in Vectors
  BY DEF Typed, Trigger, Iter, Count, Sum, Point, Centroid

LEMMA TypedIsSet ==
  ASSUME NEW l \in Locations, NEW v, Typed(l, v)
  PROVE  v # Unset
<1>1. \A n : n \in Int => n # Unset
  BY Constants
<1>2. \A p \in Vectors : p # Unset
  BY VectorFacts
<1>3. \A n : n \in 0 .. 3 \/ n \in 0 .. MAX_ITER \/ n \in 0 .. PSIZE => n \in Int
  BY Constants
<1>4. QED
  BY <1>1, <1>2, <1>3 DEF Typed

\* The points that go to a cluster are finitely many, no more than the part has.
LEMMA MembersFinite ==
  ASSUME NEW view, NEW s \in Starts, NEW M \in SUBSET Minis(view, s)
  PROVE  IsFiniteSet(M) /\ Cardinality(M) \in 0 .. PSIZE
<1> DEFINE part == s .. (s + PSIZE - 1)
           f == [i \in part |-> <<view[Point(i)], Nearest(Distances(view[Point(i)], view)), i>>]
<1>1. s \in Int /\ s + PSIZE - 1 \in Int /\ s <= s + PSIZE - 1
  BY PartOf, Constants
<1>2. IsFiniteSet(part) /\ Cardinality(part) = PSIZE
  <2>1. IsFiniteSet(part) /\ Cardinality(part) = (s + PSIZE - 1) - s + 1
    BY <1>1, FS_Interval
  <2>2. (s + PSIZE - 1) - s + 1 = PSIZE
    BY <1>1, PartOf, Constants
  <2>3. QED
    BY <2>1, <2>2
<1>3. f \in Surjection(part, Minis(view, s))
  BY DEF Surjection, Minis
<1>4. IsFiniteSet(Minis(view, s)) /\ Cardinality(Minis(view, s)) <= PSIZE
  BY <1>2, <1>3, FS_Surjection
<1>5. IsFiniteSet(M) /\ Cardinality(M) <= Cardinality(Minis(view, s))
  BY <1>4, FS_Subset
<1>6. Cardinality(M) \in Nat /\ Cardinality(Minis(view, s)) \in Nat
  BY <1>4, <1>5, FS_CardinalityType
<1>7. QED
  BY <1>4, <1>5, <1>6, Constants

\* The sums and counts of a part that has been read.
LEMMA PartTyped ==
  ASSUME NEW view, NEW s \in Starts,
         \A i \in s .. (s + PSIZE - 1) : view[Point(i)] \in Vectors
  PROVE  \A l \in DOMAIN PartWrites(s, Minis(view, s)) : Typed(l, PartWrites(s, Minis(view, s))[l])
<1> DEFINE mini == Minis(view, s)
           Members(k) == {m \in mini : m[2] = k}
           First == LocalIndex(s, 0)
           sums == [l \in {Sum(s, k) : k \in Clusters} |->
                      [d \in Dims |-> Wrap(SumFunction([m \in Members(l[2] - First) |-> m[1][d]]))]]
           counts == [l \in {Count(s, k) : k \in Clusters} |-> Cardinality(Members(l[2] - First))]
           triggers == SetTriggers({s}, 2)
           rest == Over(counts, triggers)
<1>1. PartWrites(s, mini) = Over(sums, rest)
  BY DEF PartWrites
<1>2. \A m \in mini : \A d \in Dims : m[1][d] \in Int
  <2>1. \A m \in mini : m[1] \in Vectors
    BY DEF Minis
  <2>2. QED
    BY <2>1, VectorFacts
<1>3. ASSUME NEW k
      PROVE  /\ [d \in Dims |-> Wrap(SumFunction([m \in Members(k) |-> m[1][d]]))] \in Vectors
             /\ Cardinality(Members(k)) \in 0 .. PSIZE
  <2>1. Members(k) \in SUBSET mini
    OBVIOUS
  <2>2. IsFiniteSet(Members(k)) /\ Cardinality(Members(k)) \in 0 .. PSIZE
    <3> HIDE DEF Members
    <3>1. QED
      BY <2>1, MembersFinite
  <2>3. ASSUME NEW d \in Dims
        PROVE  Wrap(SumFunction([m \in Members(k) |-> m[1][d]])) \in -Half .. (Half - 1)
    <3> DEFINE f == [m \in Members(k) |-> m[1][d]]
    <3>1. DOMAIN f = Members(k) /\ \A m \in Members(k) : f[m] \in Int
      BY <1>2
    <3> HIDE DEF f
    <3>2. IsFiniteSet(DOMAIN f)
      BY <2>2, <3>1
    <3>3. SumFunction(f) \in Int
      BY <3>1, <3>2, IntSum
    <3>4. Wrap(SumFunction(f)) \in -Half .. (Half - 1)
      BY <3>3, WrapRange
    <3>5. QED
      BY <3>4 DEF f
  <2>4. QED
    BY <2>2, <2>3 DEF Vectors
<1> HIDE DEF Members, First, mini
<1>4. \A l \in DOMAIN sums : sums[l] \in Vectors
  BY <1>3
<1>5. \A l \in DOMAIN counts : counts[l] \in 0 .. PSIZE
  BY <1>3
<1>6. DOMAIN sums = {Sum(s, k) : k \in Clusters} /\ DOMAIN counts = {Count(s, k) : k \in Clusters}
  OBVIOUS
<1>7. DOMAIN triggers = {Trigger(s)} /\ triggers[Trigger(s)] = 2
  BY SetTriggerFacts
<1> HIDE DEF sums, counts, triggers
<1>8. \A l \in DOMAIN sums : Typed(l, sums[l])
  BY <1>4, <1>6, TypedFacts
<1>9. \A l \in DOMAIN counts : Typed(l, counts[l])
  BY <1>5, <1>6, TypedFacts
<1>10. \A l \in DOMAIN triggers : Typed(l, triggers[l])
  <2>1. 2 \in 0 .. 3
    OBVIOUS
  <2>2. QED
    BY <1>7, <2>1, TypedFacts
<1>11. \A l \in DOMAIN rest : Typed(l, rest[l])
  BY <1>9, <1>10 DEF Over
<1> HIDE DEF rest
<1>12. \A l \in DOMAIN Over(sums, rest) : Typed(l, Over(sums, rest)[l])
  BY <1>8, <1>11 DEF Over
<1>13. QED
  BY <1>1, <1>12 DEF mini

\* The new centroids, when every part has been summed.
LEMMA MeansTyped ==
  ASSUME NEW view,
         \A s \in Starts, k \in Clusters :
           view[Sum(s, k)] \in Vectors /\ view[Count(s, k)] \in 0 .. PSIZE
  PROVE  \A l \in DOMAIN Means(view) : Typed(l, Means(view)[l])
<1> DEFINE npt(k) == SumFunction([s \in Starts |-> view[Count(s, k)]])
           sum(k, d) == Wrap(SumFunction([s \in Starts |-> view[Sum(s, k)][d]]))
           mean(k) == IF npt(k) = 0 THEN Far ELSE [d \in Dims |-> Quotient(sum(k, d), npt(k))]
<1>1. ASSUME NEW k \in Clusters PROVE mean(k) \in Vectors
  <2>1. npt(k) \in Nat
    <3> DEFINE f == [s \in Starts |-> view[Count(s, k)]]
    <3>1. DOMAIN f = Starts /\ \A s \in Starts : f[s] \in Nat
      BY Constants
    <3> HIDE DEF f
    <3>2. SumFunction(f) \in Nat
      BY <3>1, StartsFinite, NatSum
    <3>3. QED
      BY <3>2 DEF f
  <2>2. ASSUME NEW d \in Dims PROVE sum(k, d) \in -Half .. (Half - 1)
    <3> DEFINE f == [s \in Starts |-> view[Sum(s, k)][d]]
    <3>1. DOMAIN f = Starts /\ \A s \in Starts : f[s] \in Int
      BY VectorFacts
    <3> HIDE DEF f
    <3>2. SumFunction(f) \in Int
      BY <3>1, StartsFinite, IntSum
    <3>3. Wrap(SumFunction(f)) \in -Half .. (Half - 1)
      BY <3>2, WrapRange
    <3>4. QED
      BY <3>3 DEF f
  <2> HIDE DEF npt, sum
  <2>3. CASE npt(k) = 0
    <3>1. Half \div 16 - 1 \in -Half .. (Half - 1)
      BY HalfFacts
    <3>2. QED
      BY <2>3, <3>1 DEF Far, Vectors
  <2>4. CASE npt(k) # 0
    <3>1. \A d \in Dims : Quotient(sum(k, d), npt(k)) \in -Half .. (Half - 1)
      BY <2>1, <2>2, <2>4, QuotientRange
    <3>2. QED
      BY <2>4, <3>1 DEF Vectors
  <2>5. QED
    BY <2>3, <2>4
<1>2. Means(view) = [l \in {Centroid(k) : k \in Clusters} |-> mean(l[2])]
  BY DEF Means
<1> HIDE DEF mean
<1>3. \A k \in Clusters : Centroid(k)[2] = k
  BY DEF Centroid
<1>4. ASSUME NEW k \in Clusters PROVE Typed(Centroid(k), Means(view)[Centroid(k)])
  <2>1. Means(view)[Centroid(k)] = mean(k)
    BY <1>2, <1>3
  <2>2. QED
    BY <1>1, <2>1, TypedFacts
<1>5. QED
  BY <1>4, MeansDomain

\* What a commit writes, when what it reads has been written.
WritesFit(writes) ==
  /\ \A l \in DOMAIN writes : l \in Locations /\ Typed(l, writes[l])
  /\ \A s \in Starts : Trigger(s) \in DOMAIN writes =>
       /\ writes[Trigger(s)] = 1 => \A i \in s .. (s + PSIZE - 1) : Point(i) \in DOMAIN writes
       /\ writes[Trigger(s)] = 2 =>
            \A k \in Clusters : Sum(s, k) \in DOMAIN writes /\ Count(s, k) \in DOMAIN writes
  /\ Iter \in DOMAIN writes =>
       /\ \A i \in 0 .. (N - 1) : heap[Point(i)] # Unset
       /\ \A k \in Clusters : Centroid(k) \in DOMAIN writes

LEMMA InVectors == ASSUME in \in Inputs PROVE \A i \in 0 .. (N - 1) : in[i] \in Vectors
  BY KMeansAssumption DEF Vectors

LEMMA PartsCover == ASSUME NEW i \in 0 .. (N - 1) PROVE \E s \in Starts : i \in s .. (s + PSIZE - 1)
<1>1. PICK p \in Nat : p = i \div PSIZE /\ p * PSIZE <= i /\ i < p * PSIZE + PSIZE
  <2>1. i \in Nat
    BY Constants
  <2>2. i \div PSIZE \in Nat /\ (i \div PSIZE) * PSIZE <= i /\ i < (i \div PSIZE) * PSIZE + PSIZE
    BY <2>1, Constants
  <2>3. QED
    BY <2>2
<1>2. N = (N \div PSIZE) * PSIZE /\ N \div PSIZE \in Nat
  BY LayoutAssumption, Constants
<1>3. p < N \div PSIZE
  <2>1. SUFFICES ASSUME N \div PSIZE <= p PROVE FALSE
    BY <1>1, <1>2
  <2>2. (N \div PSIZE) * PSIZE <= p * PSIZE
    BY <1>1, <1>2, <2>1, Constants
  <2>3. p * PSIZE \in Nat /\ i < N
    BY <1>1, Constants
  <2>4. QED
    BY <1>1, <1>2, <2>2, <2>3, Constants
<1>4. p \in Parts
  BY <1>1, <1>2, <1>3 DEF Parts
<1>5. p * PSIZE \in Starts /\ p * PSIZE \in Nat
  BY <1>1, <1>4, Constants DEF Starts
<1>6. i \in p * PSIZE .. (p * PSIZE + PSIZE - 1)
  BY <1>1, <1>5, Constants
<1>7. QED
  BY <1>5, <1>6

LEMMA PointsOfPart ==
  ASSUME NEW s \in Starts, NEW i \in s .. (s + PSIZE - 1)
  PROVE  i \in 0 .. (N - 1) /\ Point(i) \in Locations
<1>1. i \in 0 .. (N - 1)
  BY PartOf, Constants
<1>2. QED
  BY <1>1 DEF Locations

\* The start of an iteration, when what the watcher wrote has its type.
LEMMA StartTyped ==
  ASSUME NEW writes, \A l \in DOMAIN writes : l # Trigger(0) => Typed(l, writes[l])
  PROVE  \A l \in DOMAIN StartIteration(writes).writes : Typed(l, StartIteration(writes).writes[l])
<1> DEFINE triggers == SetTriggers(Starts, 0)
<1>1. DOMAIN triggers = {Trigger(s) : s \in Starts} /\ \A s \in Starts : triggers[Trigger(s)] = 0
  BY SetTriggersFacts
<1>2. StartIteration(writes).writes = Over(triggers, writes)
  BY EndsFacts DEF StartIteration
<1> HIDE DEF triggers
<1>3. \A l \in DOMAIN triggers : Typed(l, triggers[l])
  <2>1. 0 \in 0 .. 3
    OBVIOUS
  <2>2. QED
    BY <1>1, <2>1, TypedFacts
<1>4. Trigger(0) \in DOMAIN triggers
  BY <1>1, FirstStart
<1>5. \A l \in DOMAIN Over(triggers, writes) : Typed(l, Over(triggers, writes)[l])
  BY <1>3, <1>4 DEF Over
<1>6. QED
  BY <1>2, <1>5

LEMMA Init1Typed ==
  ASSUME NEW view, \A i \in 0 .. (N - 1) : view[Point(i)] \in Vectors,
         Commits(OnInit1Finished(view))
  PROVE  LET writes == OnInit1Finished(view).writes
         IN \A l \in DOMAIN writes : Typed(l, writes[l])
<1> DEFINE points == [l \in {Centroid(k) : k \in Clusters} |-> view[Point(l[2])]]
           rest == Over(Holds(Iter, 0), Holds(Trigger(0), 3))
<1>1. AllTriggers(view, 1)
  BY AbortFacts DEF OnInit1Finished
<1>2. OnInit1Finished(view) = StartIteration(Over(points, rest))
  BY <1>1 DEF OnInit1Finished
<1>3. \A k \in Clusters : k \in 0 .. (N - 1)
  BY LayoutAssumption, Constants DEF Clusters
<1>4. \A l \in DOMAIN points : Typed(l, points[l])
  <2>1. ASSUME NEW k \in Clusters PROVE Typed(Centroid(k), points[Centroid(k)])
    <3>1. points[Centroid(k)] = view[Point(k)]
      BY DEF Centroid
    <3>2. QED
      BY <1>3, <3>1, TypedFacts
  <2>2. QED
    BY <2>1
<1>5. \A l \in DOMAIN rest : l # Trigger(0) => Typed(l, rest[l])
  <2>1. /\ DOMAIN Holds(Iter, 0) = {Iter} /\ Holds(Iter, 0)[Iter] = 0
        /\ DOMAIN Holds(Trigger(0), 3) = {Trigger(0)}
    BY HoldsFacts
  <2>2. 0 \in 0 .. MAX_ITER
    BY Constants
  <2>3. QED
    BY <2>1, <2>2, TypedFacts DEF Over
<1> HIDE DEF points, rest
<1>6. \A l \in DOMAIN Over(points, rest) : l # Trigger(0) => Typed(l, Over(points, rest)[l])
  BY <1>4, <1>5 DEF Over
<1>7. QED
  BY <1>2, <1>6, StartTyped

LEMMA FinishTyped ==
  ASSUME NEW view, view[Iter] + 1 \in 0 .. MAX_ITER,
         \A s \in Starts, k \in Clusters :
           view[Sum(s, k)] \in Vectors /\ view[Count(s, k)] \in 0 .. PSIZE
  PROVE  LET writes == FinishIteration(view).writes
         IN \A l \in DOMAIN writes : Typed(l, writes[l])
<1> DEFINE i == view[Iter] + 1
           next == Over(Means(view), Holds(Iter, i))
<1>1. DOMAIN Holds(Iter, i) = {Iter} /\ Holds(Iter, i)[Iter] = i
  BY HoldsFacts
<1>2. \A l \in DOMAIN Holds(Iter, i) : Typed(l, Holds(Iter, i)[l])
  BY <1>1, TypedFacts
<1>3. \A l \in DOMAIN Means(view) : Typed(l, Means(view)[l])
  BY MeansTyped
<1>4. \A l \in DOMAIN next : Typed(l, next[l])
  BY <1>2, <1>3 DEF Over
<1>5. CASE i < MAX_ITER
  <2>1. FinishIteration(view) = StartIteration(next)
    BY <1>5 DEF FinishIteration
  <2> HIDE DEF next
  <2>2. QED
    BY <1>4, <2>1, StartTyped
<1>6. CASE ~(i < MAX_ITER)
  <2>1. FinishIteration(view) = Ends("commitd", next, {}, {})
    BY <1>6 DEF FinishIteration
  <2> HIDE DEF next
  <2>2. QED
    BY <1>4, <2>1, EndsFacts
<1>7. QED
  BY <1>5, <1>6

\* In every state: the end of a task that commits fits.
LEMMA CommitFits ==
  ASSUME KMeansInv, TypeOK, ReadsWritten, NEW t \in tasks, Commit(t)
  PROVE  WritesFit(t.end.writes)
<1>0. /\ t.end = Body(t, heap) /\ Commits(t.end)
      /\ \A l \in Locations : heap[l] # Unset => Typed(l, heap[l])
      /\ \A i \in 0 .. (N - 1) : in[i] \in Vectors
  BY CommitFacts, InVectors DEF KMeansInv, CommitsAreCurrent, TypeOK
<1>1. CASE t.do = "main"
  <2>1. DOMAIN t.end.writes = {}
    BY <1>0, <1>1, Bodies, EndsFacts, NothingWritten DEF Main
  <2>2. QED
    BY <2>1 DEF WritesFit
<1>2. CASE t.do = "init0"
  <2>1. /\ DOMAIN t.end.writes = {Trigger(s) : s \in Starts}
        /\ \A s \in Starts : t.end.writes[Trigger(s)] = 0
    <3>1. t.end.writes = SetTriggers(Starts, 0)
      BY <1>0, <1>2, Bodies, Init0Facts
    <3>2. QED
      BY <3>1, SetTriggersFacts
  <2>2. 0 \in 0 .. 3
    OBVIOUS
  <2>3. \A l \in DOMAIN t.end.writes : l \in Locations /\ Typed(l, t.end.writes[l])
    BY <2>1, <2>2, Places, TypedFacts
  <2>4. Iter \notin DOMAIN t.end.writes
    BY <2>1, ArraysApart
  <2>5. QED
    BY <2>1, <2>3, <2>4 DEF WritesFit
<1>3. CASE t.do = "init_runner_stdin"
  <2> DEFINE writes == t.end.writes
  <2>1. /\ DOMAIN writes = {Point(i) : i \in 0 .. (N - 1)} \cup {Trigger(s) : s \in Starts}
        /\ \A s \in Starts : writes[Trigger(s)] = 1
        /\ \A i \in 0 .. (N - 1) : writes[Point(i)] = in[i]
    BY <1>0, <1>3, Bodies, StdinWrites
  <2> HIDE DEF writes
  <2>2. \A i \in 0 .. (N - 1) : Point(i) \in Locations /\ Typed(Point(i), writes[Point(i)])
    BY <1>0, <2>1, TypedFacts DEF Locations
  <2>3. 1 \in 0 .. 3
    OBVIOUS
  <2>4. \A s \in Starts : Trigger(s) \in Locations /\ Typed(Trigger(s), writes[Trigger(s)])
    BY <2>1, <2>3, Places, TypedFacts
  <2>5. \A s \in Starts : \A i \in s .. (s + PSIZE - 1) : Point(i) \in DOMAIN writes
    BY <2>1, PointsOfPart
  <2>6. Iter \notin DOMAIN writes
    BY <2>1, ArraysApart
  <2>7. WritesFit(writes)
    BY <2>1, <2>2, <2>4, <2>5, <2>6 DEF WritesFit
  <2>8. QED
    BY <2>7 DEF writes
<1>4. CASE t.do = "init_runner_pmem"
  <2> DEFINE writes == t.end.writes
             a == t.arg
  <2>0. a \in Starts
    <3>1. Underway
      BY <1>4 DEF KMeansInv, Prologue
    <3>2. t \in Runners
      BY <1>4 DEF Runners
    <3>3. QED
      BY <1>4, <3>1, <3>2, UnderwayRunners, RunnerParts
  <2>1. /\ DOMAIN writes = {Point(i) : i \in a .. (a + PSIZE - 1)} \cup {Trigger(a)}
        /\ writes[Trigger(a)] = 1
        /\ \A i \in a .. (a + PSIZE - 1) : writes[Point(i)] = in[i]
    <3>1. writes = InitRunnerPmem(a).writes
      BY <1>0, <1>4, Bodies
    <3>2. QED
      BY <2>0, <3>1, PmemWrites
  <2> HIDE DEF writes, a
  <2>2. \A i \in a .. (a + PSIZE - 1) : Point(i) \in Locations /\ Typed(Point(i), writes[Point(i)])
    BY <1>0, <2>0, <2>1, TypedFacts, PointsOfPart
  <2>3. 1 \in 0 .. 3
    OBVIOUS
  <2>4. Trigger(a) \in Locations /\ Typed(Trigger(a), writes[Trigger(a)])
    BY <2>0, <2>1, <2>3, Places, TypedFacts
  <2>5. \A s \in Starts : Trigger(s) \in DOMAIN writes => s = a
    BY <2>0, <2>1, OtherPart, ArraysApart
  <2>6. Iter \notin DOMAIN writes
    BY <2>1, ArraysApart
  <2>7. WritesFit(writes)
    BY <2>1, <2>2, <2>4, <2>5, <2>6 DEF WritesFit
  <2>8. QED
    BY <2>7 DEF writes
<1>5. CASE t.do = "recluster_runner"
  <2> DEFINE a == t.arg
             writes == PartWrites(a, Minis(heap, a))
  <2>0. a \in Starts /\ Begun
    <3>1. Underway
      BY <1>5 DEF KMeansInv, Prologue
    <3>2. t \in Runners
      BY <1>5 DEF Runners
    <3>3. t.do \in CanRun /\ IsRunner(t)
      BY <3>1, <3>2, UnderwayRunners
    <3>4. Begun
      BY <1>5, <3>3 DEF CanRun
    <3>5. QED
      BY <1>5, <3>3, <3>4, RunnerParts
  <2>1. t.end.writes = writes
    BY <1>0, <1>5, Bodies, EndsFacts DEF ReclusterRunner
  <2>2. \A i \in a .. (a + PSIZE - 1) : heap[Point(i)] \in Vectors
    <3>1. \A i \in a .. (a + PSIZE - 1) : Point(i) \in Locations /\ heap[Point(i)] # Unset
      BY <2>0, PointsOfPart DEF ReadsWritten
    <3>2. QED
      BY <1>0, <3>1, TypedFacts
  <2> HIDE DEF a
  <2>3. \A l \in DOMAIN writes : Typed(l, writes[l])
    BY <2>0, <2>2, PartTyped
  <2>4. /\ DOMAIN writes = {Sum(a, k) : k \in Clusters} \cup {Count(a, k) : k \in Clusters} \cup {Trigger(a)}
        /\ writes[Trigger(a)] = 2
    BY <2>0, PartWritten
  <2> HIDE DEF writes
  <2>5. \A l \in DOMAIN writes : l \in Locations
    BY <2>0, <2>4 DEF Locations
  <2>6. \A s \in Starts : Trigger(s) \in DOMAIN writes => s = a
    BY <2>0, <2>4, OtherPart, ArraysApart
  <2>7. Iter \notin DOMAIN writes
    BY <2>4, ArraysApart
  <2>8. WritesFit(writes)
    BY <2>3, <2>4, <2>5, <2>6, <2>7 DEF WritesFit
  <2>9. QED
    BY <2>1, <2>8
<1>6. CASE t.do \in {"on_init1_finished", "on_recluster_finished"}
  <2> DEFINE writes == t.end.writes
  <2>1. Underway /\ t \notin Runners
    BY <1>6 DEF KMeansInv, Prologue, Runners
  <2>2. /\ \A s \in Starts : heap[Trigger(s)] = Done
        /\ \E i \in 0 .. MAX_ITER : \/ StartsIteration(t.end, i) /\ i < MAX_ITER
                                    \/ EndsLast(t.end, i) /\ Begun
    BY <1>0, <2>1, UnderwayCommits
  <2>3. PICK j \in 0 .. MAX_ITER : StartsIteration(t.end, j) \/ EndsLast(t.end, j)
    BY <2>2
  <2>4. /\ \A l \in DOMAIN writes : l \in Locations
        /\ \A s \in Starts : Trigger(s) \in DOMAIN writes => writes[Trigger(s)] = 0
        /\ \A k \in Clusters : Centroid(k) \in DOMAIN writes
        /\ writes[Iter] = j
    <3>1. CASE StartsIteration(t.end, j)
      BY <3>1, Places DEF StartsIteration
    <3>2. CASE EndsLast(t.end, j)
      BY <3>2, Places, ArraysApart DEF EndsLast
    <3>3. QED
      BY <2>3, <3>1, <3>2
  <2>5. \A i \in 0 .. (N - 1) : heap[Point(i)] # Unset
    <3>1. CASE Begun
      BY <3>1 DEF ReadsWritten
    <3>2. CASE ~Begun
      <4>1. \A s \in Starts : heap[Trigger(s)] = 1
        BY <2>2, <3>2 DEF Done
      <4>2. QED
        BY <4>1, PartsCover DEF ReadsWritten
    <3>3. QED
      BY <3>1, <3>2
  <2>6. \A i \in 0 .. (N - 1) : heap[Point(i)] \in Vectors
    <3>1. \A i \in 0 .. (N - 1) : Point(i) \in Locations
      BY DEF Locations
    <3>2. QED
      BY <1>0, <2>5, <3>1, TypedFacts
  <2>7. \A l \in DOMAIN writes : Typed(l, writes[l])
    <3>1. CASE t.do = "on_init1_finished"
      <4>1. t.end = OnInit1Finished(heap)
        BY <1>0, <3>1, Bodies
      <4>2. QED
        BY <1>0, <2>6, <4>1, Init1Typed
    <3>2. CASE t.do = "on_recluster_finished"
      <4>1. t.end = OnReclusterFinished(heap, t.arg)
        BY <1>0, <3>2, Bodies
      <4>2. t.do \in CanWatch /\ t.arg \in Nat /\ t.arg < MAX_ITER
        BY <2>1, UnderwayWatchers
      <4>3. Begun
        BY <3>2, <4>2 DEF CanWatch
      <4>4. heap[Iter] \in Nat
        BY <2>1, <4>3, Constants DEF Underway, IterInRange
      <4>5. /\ t.end = FinishIteration(heap) /\ t.arg = heap[Iter]
        BY <1>0, <4>1, <4>2, <4>4, ReclusterEnds
      <4>6. heap[Iter] + 1 \in 0 .. MAX_ITER
        BY <4>2, <4>4, <4>5, Constants
      <4>7. \A s \in Starts : heap[Trigger(s)] = 2
        BY <2>2, <4>3 DEF Done
      <4>8. \A s \in Starts, k \in Clusters :
              heap[Sum(s, k)] \in Vectors /\ heap[Count(s, k)] \in 0 .. PSIZE
        <5>1. \A s \in Starts, k \in Clusters : Sum(s, k) \in Locations /\ Count(s, k) \in Locations
          BY DEF Locations
        <5>2. \A s \in Starts, k \in Clusters : heap[Sum(s, k)] # Unset /\ heap[Count(s, k)] # Unset
          BY <4>7 DEF ReadsWritten
        <5>3. QED
          BY <1>0, <5>1, <5>2, TypedFacts
      <4>9. QED
        BY <4>5, <4>6, <4>8, FinishTyped
    <3>3. QED
      BY <1>6, <3>1, <3>2
  <2> HIDE DEF writes
  <2>8. WritesFit(writes)
    <3>1. \A s \in Starts : Trigger(s) \in DOMAIN writes => writes[Trigger(s)] # 1 /\ writes[Trigger(s)] # 2
      BY <2>4
    <3>2. QED
      BY <2>4, <2>5, <2>7, <3>1 DEF WritesFit
  <2>9. QED
    BY <2>8 DEF writes
<1>7. t.do \in Functions0
  BY DEF TypeOK
<1>8. QED
  BY <1>1, <1>2, <1>3, <1>4, <1>5, <1>6, <1>7 DEF Functions0

\* What the functions of the invariant's tasks are.
LEMMA TasksTyped ==
  ASSUME KMeansInv
  PROVE  \A t \in tasks : t.do \in Functions0 /\ t.arg \in Nat
<1>1. \A t \in tasks : t.arg \in Nat
  BY DEF KMeansInv, TasksKept
<1>2. CASE Prologue
  BY <1>1, <1>2 DEF Prologue, Functions0
<1>3. CASE Underway
  BY <1>1, <1>3 DEF Underway, RunnersFit, WatchersFit, CanRun, CanWatch, Runners, Functions0
<1>4. QED
  BY <1>2, <1>3 DEF KMeansInv

LEMMA TypedNext ==
  ASSUME KMeansInv, KMeansInv', TypeOK, ReadsWritten, [Next]_vars
  PROVE  TypeOK' /\ ReadsWritten'
<1>1. \A t \in tasks' : t.do \in Functions0 /\ t.arg \in Nat
  <2>1. ASSUME KMeansInv' PROVE (\A t \in tasks : t.do \in Functions0 /\ t.arg \in Nat)'
    BY <2>1, TasksTyped, PTL
  <2>2. QED
    BY <2>1
<1>2. UNCHANGED <<program, in>> /\ DOMAIN heap' = Locations
  BY DEF Next, Step, ScheduleTask, StartTask, CommitTask, AbortTask, RefuseTask, Idle, vars,
         Unchanged, KMeansInv, HeapKept
<1>3. CASE heap' = heap
  BY <1>1, <1>2, <1>3 DEF TypeOK, ReadsWritten, Begun
<1>4. CASE CommitTask
  <2>1. PICK t \in tasks : Commit(t)
    BY <1>4 DEF CommitTask
  <2> DEFINE writes == t.end.writes
  <2>2. WritesFit(writes)
    BY <2>1, CommitFits
  <2>3. heap' = Over(writes, heap)
    BY <2>1, CommitFacts
  <2>4. DOMAIN writes \subseteq Locations
    BY <2>2 DEF WritesFit
  <2>5. /\ \A x \in DOMAIN writes : heap'[x] = writes[x]
        /\ \A x \in Locations : x \notin DOMAIN writes => heap'[x] = heap[x]
    BY <2>3, <2>4, HeapWritten DEF KMeansInv
  <2> HIDE DEF writes
  <2>6. TypeOK'
    <3>1. \A l \in Locations : heap'[l] = Unset \/ Typed(l, heap'[l])
      BY <2>2, <2>5 DEF TypeOK, WritesFit
    <3>2. QED
      BY <1>1, <1>2, <3>1 DEF TypeOK
  <2>7. \A l \in DOMAIN writes : heap'[l] # Unset
    BY <2>2, <2>4, <2>5, TypedIsSet DEF WritesFit
  <2>8. \A l \in Locations : heap[l] # Unset => heap'[l] # Unset
    BY <2>5, <2>7
  <2>9. /\ \A i \in 0 .. (N - 1) : Point(i) \in Locations
        /\ \A s \in Starts, k \in Clusters : Sum(s, k) \in Locations /\ Count(s, k) \in Locations
    BY DEF Locations
  <2>10. ASSUME NEW s \in Starts
         PROVE  /\ heap'[Trigger(s)] = 1 => \A i \in s .. (s + PSIZE - 1) : heap'[Point(i)] # Unset
                /\ heap'[Trigger(s)] = 2 =>
                     \A k \in Clusters : heap'[Sum(s, k)] # Unset /\ heap'[Count(s, k)] # Unset
    <3>1. CASE Trigger(s) \in DOMAIN writes
      BY <2>2, <2>5, <2>7, <3>1 DEF WritesFit
    <3>2. CASE Trigger(s) \notin DOMAIN writes
      <4>1. heap'[Trigger(s)] = heap[Trigger(s)]
        BY <2>5, <3>2, Places
      <4>2. \A i \in s .. (s + PSIZE - 1) : Point(i) \in Locations
        BY PointsOfPart
      <4>3. QED
        BY <2>8, <2>9, <4>1, <4>2 DEF ReadsWritten
    <3>3. QED
      BY <3>1, <3>2
  <2>11. ASSUME heap'[Iter] # Unset
         PROVE  /\ \A i \in 0 .. (N - 1) : heap'[Point(i)] # Unset
                /\ \A k \in Clusters : heap'[Centroid(k)] # Unset
    <3>1. CASE Iter \in DOMAIN writes
      BY <2>2, <2>7, <2>8, <2>9, <3>1 DEF WritesFit
    <3>2. CASE Iter \notin DOMAIN writes
      <4>1. Begun
        BY <2>5, <2>11, <3>2, Places DEF Begun
      <4>2. QED
        BY <2>8, <2>9, <4>1, Places DEF ReadsWritten
    <3>3. QED
      BY <3>1, <3>2
  <2>12. ReadsWritten'
    BY <2>10, <2>11 DEF ReadsWritten, Begun
  <2>13. QED
    BY <2>6, <2>12
<1>5. QED
  BY <1>3, <1>4 DEF Next, Step, ScheduleTask, StartTask, AbortTask, RefuseTask, Idle, vars,
                    Schedule, Start, Abort, Refuse

\* Every location holds nothing or a value of its type, and no task reads what
\* nobody has written.
THEOREM TypeCorrect == Spec => [](TypeOK /\ ReadsWritten)
<1>1. ASSUME Init PROVE TypeOK /\ ReadsWritten
  <2>1. \A l \in Locations : heap[l] = Unset
    BY <1>1 DEF Init
  <2>2. 1 # Unset /\ 2 # Unset
    BY Constants
  <2>3. \A s \in Starts : heap[Trigger(s)] = Unset /\ heap[Iter] = Unset
    BY <2>1, Places
  <2>4. ReadsWritten
    BY <2>2, <2>3, FirstStart DEF ReadsWritten, Begun
  <2>5. TypeOK
    BY <1>1, <2>1, InvInit, TasksTyped DEF TypeOK, Init
  <2>6. QED
    BY <2>4, <2>5
<1>2. KMeansInv /\ KMeansInv' /\ TypeOK /\ ReadsWritten /\ [Next]_vars => (TypeOK /\ ReadsWritten)'
  BY TypedNext
<1>3. QED
  BY <1>1, <1>2, InvariantHolds, PTL DEF Spec

-----------------------------------------------------------------------------
(***************************************************************************)
(* Lloyd's algorithm: what the tasks compute, when nothing overflows.       *)
(***************************************************************************)

\* Points and centroids with small coordinates.
Near(bound) == [Dims -> -bound .. bound]

LEMMA NearFacts ==
  ASSUME NEW bound \in Nat, SmallInputs(bound), NEW p \in Near(bound)
  PROVE  /\ p # Far /\ p # Disabled /\ p = [d \in Dims |-> p[d]]
         /\ \A d \in Dims : p[d] \in Int /\ 0 - bound <= p[d] /\ p[d] <= bound
<1>1. \A d \in Dims : p[d] \in Int /\ 0 - bound <= p[d] /\ p[d] <= bound
  BY DEF Near
<1>2. PICK d \in Dims : TRUE
  BY KMeansAssumption
<1>3. Far[d] = Half \div 16 - 1
  BY DEF Far
<1>4. bound < Half \div 16 - 1 /\ Half \div 16 \in Int
  BY HalfFacts DEF SmallInputs
<1>5. p[d] # Far[d]
  BY <1>1, <1>3, <1>4
<1>6. p \in [Dims -> Int]
  BY <1>1 DEF Near
<1>7. p # Disabled
  BY <1>6, KMeansAssumption
<1>8. QED
  BY <1>1, <1>5, <1>7 DEF Near

LEMMA WrapSmall ==
  ASSUME NEW n \in Int, 0 - Half <= n, n < Half
  PROVE  Wrap(n) = n
<1>1. PICK m \in Nat : m = 2 * Half
  BY HalfFacts
<1>2. PICK a \in Nat : a = n + Half /\ a < m
  BY <1>1, HalfFacts
<1>3. a % m = a
  BY <1>1, <1>2
<1>4. Wrap(n) = (a % m) - Half
  BY <1>1, <1>2 DEF Wrap
<1>5. QED
  BY <1>2, <1>3, <1>4, HalfFacts

LEMMA SquareRange ==
  ASSUME NEW x \in Int, NEW m \in Nat, 0 - m <= x, x <= m
  PROVE  x * x \in Nat /\ x * x <= m * m
  OBVIOUS

\* The algorithm's sums are those of the program.
LEMMA SameSums ==
  /\ \A f : Sequential!SumFunction(f) = SumFunction(f)
  /\ \A S : Sequential!Cardinality(S) = Cardinality(S)
<1>1. ASSUME NEW f PROVE Sequential!SumFunction(f) = SumFunction(f)
  BY DEF Sequential!SumFunction, SumFunction, Sequential!SumFunctionOnSet, SumFunctionOnSet,
         Sequential!FoldFunctionOnSet, FoldFunctionOnSet, Sequential!MapThenFoldSet, MapThenFoldSet
<1>2. QED
  BY <1>1 DEF Sequential!Cardinality, Cardinality

\* A distance between points, or from one to a mean of some, does not overflow.
LEMMA DistanceExact ==
  ASSUME NEW bound \in Nat, SmallInputs(bound), NEW p \in Near(bound), NEW c \in Near(bound)
  PROVE  Distance(p, c) = Sequential!SquaredDistance(p, c)
<1> DEFINE two == 2 * bound
           all == two * two
           square(d) == (p[d] - c[d]) * (p[d] - c[d])
           squares == [d \in Dims |-> square(d)]
<1>1. IsFiniteSet(Dims) /\ Cardinality(Dims) \in Nat /\ Cardinality(Dims) # 0
  BY KMeansAssumption, FS_CardinalityType, FS_EmptySet
<1>2. Cardinality(Dims) * all < Half
  BY DEF SmallInputs
<1>3. two \in Nat /\ all \in Nat /\ two <= all
  <2>1. two \in Nat
    OBVIOUS
  <2> HIDE DEF two
  <2>2. CASE two = 0
    BY <2>2
  <2>3. CASE two # 0
    <3>1. two * 1 <= two * two
      BY <2>1, <2>3
    <3>2. QED
      BY <2>1, <3>1
  <2>4. QED
    BY <2>2, <2>3
<1>4. all <= Cardinality(Dims) * all
  <2> HIDE DEF two, all
  <2> DEFINE n == Cardinality(Dims)
  <2>1. n \in Nat /\ n # 0 /\ all \in Nat
    BY <1>1, <1>3
  <2> HIDE DEF n
  <2>2. all <= n * all
    BY <2>1
  <2>3. QED
    BY <2>2 DEF n
<1>5. all < Half /\ two < Half
  <2>1. PICK a \in Int : a = Cardinality(Dims) * all
    BY <1>1, <1>3
  <2>2. QED
    BY <1>2, <1>3, <1>4, <2>1, HalfFacts
<1>6. \A d \in Dims : p[d] - c[d] \in Int /\ 0 - two <= p[d] - c[d] /\ p[d] - c[d] <= two
  BY NearFacts
<1>7. \A d \in Dims : Wrap(p[d] - c[d]) = p[d] - c[d]
  <2> HIDE DEF two, all
  <2>1. QED
    BY <1>3, <1>5, <1>6, WrapSmall, HalfFacts
<1>8. \A d \in Dims : square(d) \in Nat /\ square(d) <= all
  <2> HIDE DEF two
  <2>1. QED
    BY <1>3, <1>6, SquareRange
<1> HIDE DEF two, all, square
<1>9. \A d \in Dims : Wrap(square(d)) = square(d)
  BY <1>3, <1>5, <1>8, WrapSmall, HalfFacts
<1>10. \A d \in Dims : Wrap(Wrap(p[d] - c[d]) * Wrap(p[d] - c[d])) = square(d)
  BY <1>7, <1>9 DEF square
<1>11. Distance(p, c) = Wrap(SumFunction(squares))
  BY <1>10 DEF Distance
<1>12. /\ SumFunction(squares) \in Int /\ SumFunction(squares) <= Cardinality(Dims) * all
       /\ 0 - Cardinality(Dims) * all <= SumFunction(squares)
  <2>1. \A d \in Dims : squares[d] \in -all .. all
    BY <1>3, <1>8
  <2>2. squares = [d \in Dims |-> squares[d]]
    OBVIOUS
  <2> HIDE DEF squares
  <2> DEFINE again == [d \in Dims |-> squares[d]]
  <2>3. /\ SumFunction(again) \in Int /\ SumFunction(again) <= Cardinality(Dims) * all
        /\ 0 - Cardinality(Dims) * all <= SumFunction(again)
    BY <1>1, <1>3, <2>1, SumWithin
  <2>4. QED
    BY <2>2, <2>3
<1>13. Wrap(SumFunction(squares)) = SumFunction(squares)
  <2>1. PICK a \in Nat : a = Cardinality(Dims) * all
    BY <1>1, <1>3
  <2>2. QED
    BY <1>2, <1>12, <2>1, WrapSmall, HalfFacts
<1>14. Sequential!SquaredDistance(p, c) = SumFunction(squares)
  BY SameSums DEF Sequential!SquaredDistance, squares, square
<1>15. QED
  BY <1>11, <1>13, <1>14

-----------------------------------------------------------------------------
(* The nearest centroid.                                                   *)

\* k is the first of those in C with the least distance.
IsNearest(distance, C, k) ==
  k \in C /\ \A o \in C : distance[k] < distance[o] \/ (distance[k] = distance[o] /\ k <= o)

LEMMA OneNearest ==
  ASSUME NEW C \in SUBSET Nat, C # {}, NEW distance,
         \A k \in C : distance[k] \in Int /\ 0 - Half <= distance[k]
  PROVE  /\ \E k \in C : IsNearest(distance, C, k)
         /\ \A k, o : IsNearest(distance, C, k) /\ IsNearest(distance, C, o) => k = o
<1> DEFINE far(k) == distance[k] + Half
           Fars == {far(k) : k \in C}
<1>1. \A k \in C : far(k) \in Nat
  BY HalfFacts
<1>2. PICK n \in Fars : \A m \in Fars : n <= m
  <2>1. Fars \in SUBSET Nat
    BY <1>1
  <2>2. Fars # {}
    OBVIOUS
  <2> HIDE DEF Fars
  <2>3. QED
    BY <2>1, <2>2, Least
<1> DEFINE First == {k \in C : far(k) = n}
<1>3. PICK k \in First : \A o \in First : k <= o
  <2>1. First \in SUBSET Nat
    OBVIOUS
  <2>2. First # {}
    BY <1>2
  <2> HIDE DEF First
  <2>3. QED
    BY <2>1, <2>2, Least
<1>4. IsNearest(distance, C, k)
  <2>1. ASSUME NEW o \in C PROVE distance[k] < distance[o] \/ (distance[k] = distance[o] /\ k <= o)
    <3>1. far(k) <= far(o) /\ (far(k) = far(o) => k <= o)
      BY <1>2, <1>3
    <3>2. distance[k] \in Int /\ distance[o] \in Int
      BY <1>3
    <3>3. QED
      BY <3>1, <3>2, HalfFacts
  <2>2. QED
    BY <1>3, <2>1 DEF IsNearest
<1>5. ASSUME NEW a, NEW o, IsNearest(distance, C, a), IsNearest(distance, C, o) PROVE a = o
  <2>1. a \in C /\ o \in C /\ a \in Nat /\ o \in Nat
    BY <1>5 DEF IsNearest
  <2>2. distance[a] \in Int /\ distance[o] \in Int
    BY <2>1
  <2>3. QED
    BY <1>5, <2>1, <2>2 DEF IsNearest
<1>6. QED
  BY <1>3, <1>4, <1>5
\* What the loops choose is the nearest.
LEMMA ChosenNearest ==
  ASSUME NEW C \in SUBSET Nat, C # {}, NEW distance,
         \A k \in C : distance[k] \in Int /\ 0 - Half <= distance[k]
  PROVE  IsNearest(distance, C, Nearest({<<distance[k], k>> : k \in C}))
<1> DEFINE pairs == {<<distance[k], k>> : k \in C}
           First(m) == \A o \in pairs : m[1] < o[1] \/ (m[1] = o[1] /\ m[2] <= o[2])
           chosen == CHOOSE m \in pairs : First(m)
<1>1. PICK k \in C : IsNearest(distance, C, k)
  BY OneNearest
<1>2. \E m \in pairs : First(m)
  <2>1. <<distance[k], k>> \in pairs
    OBVIOUS
  <2>2. First(<<distance[k], k>>)
    BY <1>1 DEF IsNearest
  <2>3. QED
    BY <2>1, <2>2
<1>3. chosen \in pairs /\ First(chosen)
  BY <1>2
<1> HIDE DEF chosen
<1>4. PICK a \in C : chosen = <<distance[a], a>>
  BY <1>3
<1>5. \A o \in C : distance[a] < distance[o] \/ (distance[a] = distance[o] /\ a <= o)
  <2>1. \A o \in C : <<distance[o], o>> \in pairs
    OBVIOUS
  <2>2. QED
    BY <1>3, <1>4, <2>1
<1>6. chosen[2] = a
  BY <1>4
<1>7. IsNearest(distance, C, chosen[2])
  BY <1>4, <1>5, <1>6 DEF IsNearest
<1>8. Nearest(pairs) = chosen[2]
  BY DEF Nearest, chosen
<1>9. QED
  BY <1>7, <1>8

LEMMA DistanceType ==
  ASSUME NEW p, NEW c, \A d \in Dims : p[d] \in Int /\ c[d] \in Int
  PROVE  Distance(p, c) \in Int /\ 0 - Half <= Distance(p, c)
<1> DEFINE f == [d \in Dims |-> Wrap(Wrap(p[d] - c[d]) * Wrap(p[d] - c[d]))]
<1>1. \A n \in Int : Wrap(n) \in Int /\ 0 - Half <= Wrap(n)
  BY WrapRange, HalfFacts
<1>2. \A d \in Dims : f[d] \in Int
  <2>1. ASSUME NEW d \in Dims PROVE Wrap(Wrap(p[d] - c[d]) * Wrap(p[d] - c[d])) \in Int
    <3>1. Wrap(p[d] - c[d]) \in Int
      BY <1>1
    <3>2. Wrap(p[d] - c[d]) * Wrap(p[d] - c[d]) \in Int
      BY <3>1
    <3>3. QED
      BY <1>1, <3>2
  <2>2. QED
    BY <2>1
<1>3. DOMAIN f = Dims
  OBVIOUS
<1>4. Distance(p, c) = Wrap(SumFunction(f))
  BY DEF Distance
<1> HIDE DEF f
<1>5. SumFunction(f) \in Int
  BY <1>2, <1>3, HalfFacts, IntSum
<1>6. QED
  BY <1>1, <1>4, <1>5

\* The cluster that recluster_runner finds for p.
ClusterOf(p, view) == Nearest(Distances(p, view))
LEMMA ClusterNearest ==
  ASSUME NEW p, NEW view,
         \A d \in Dims : p[d] \in Int /\ \A k \in Clusters : view[Centroid(k)][d] \in Int
  PROVE  IsNearest([k \in Clusters |-> Distance(p, view[Centroid(k)])], Clusters, ClusterOf(p, view))
<1> DEFINE distance == [k \in Clusters |-> Distance(p, view[Centroid(k)])]
           pairs == {<<distance[k], k>> : k \in Clusters}
<1>1. \A k \in Clusters : distance[k] \in Int /\ 0 - Half <= distance[k]
  BY DistanceType
<1>2. Clusters \in SUBSET Nat /\ Clusters # {}
  <2>1. 0 \in Clusters
    BY Constants DEF Clusters
  <2>2. Clusters \in SUBSET Nat
    BY Constants DEF Clusters
  <2>3. QED
    BY <2>1, <2>2
<1>3. Distances(p, view) = pairs
  BY DEF Distances
<1> HIDE DEF distance
<1>4. IsNearest(distance, Clusters, Nearest(pairs))
  BY <1>1, <1>2, ChosenNearest
<1>5. IsNearest(distance, Clusters, ClusterOf(p, view))
  BY <1>3, <1>4 DEF ClusterOf
<1>6. QED
  BY <1>5 DEF distance

\* A cluster's centroid is disabled, or near the points; not all are disabled.
CentroidsNear(bound, view) ==
  /\ \A k \in Clusters : view[Centroid(k)] = Far \/ view[Centroid(k)] \in Near(bound)
  /\ \E k \in Clusters : view[Centroid(k)] \in Near(bound)

LEMMA CentroidsInt ==
  ASSUME NEW bound \in Nat, SmallInputs(bound), NEW view, CentroidsNear(bound, view)
  PROVE  \A k \in Clusters, d \in Dims : view[Centroid(k)][d] \in Int
<1>1. \A d \in Dims : Far[d] \in Int
  BY HalfFacts DEF Far
<1>2. QED
  BY <1>1, NearFacts DEF CentroidsNear

\* The enabled clusters of the algorithm, and the nearest of them.
LEMMA SequentialNearest ==
  ASSUME NEW bound \in Nat, SmallInputs(bound), Begun, CentroidsNear(bound, heap), NEW p \in Near(bound)
  PROVE  LET enabled == {k \in Clusters : heap[Centroid(k)] # Far}
         IN /\ enabled # {}
            /\ \A k \in enabled : heap[Centroid(k)] \in Near(bound)
            /\ IsNearest([k \in enabled |-> Distance(p, heap[Centroid(k)])], enabled,
                         Sequential!Nearest(p))
<1> DEFINE enabled == {k \in Clusters : heap[Centroid(k)] # Far}
           centroid == [k \in Clusters |-> CentroidOf(heap[Centroid(k)])]
           distance == [k \in enabled |-> Distance(p, heap[Centroid(k)])]
           pairs == {<<distance[k], k>> : k \in enabled}
<1>1. enabled # {} /\ \A k \in enabled : heap[Centroid(k)] \in Near(bound)
  BY NearFacts DEF CentroidsNear
<1>2. \A k \in Clusters : centroid[k] # Disabled <=> heap[Centroid(k)] # Far
  BY <1>1, NearFacts DEF CentroidOf
<1>3. \A k \in enabled : centroid[k] = heap[Centroid(k)]
  BY DEF CentroidOf
<1>4. Sequential!Enabled = {k \in Clusters : centroid[k] # Disabled}
  BY DEF Sequential!Enabled
<1> HIDE DEF centroid
<1>5. Sequential!Enabled = enabled
  BY <1>2, <1>4
<1>6. \A k \in enabled : Sequential!SquaredDistance(p, centroid[k]) = distance[k]
  BY <1>1, <1>3, DistanceExact
<1>7. Sequential!Nearest(p) = Nearest(pairs)
  <2>1. {<<Sequential!SquaredDistance(p, centroid[k]), k>> : k \in Sequential!Enabled} = pairs
    BY <1>5, <1>6
  <2> DEFINE theirs == {<<Sequential!SquaredDistance(p, centroid[k]), k>> : k \in Sequential!Enabled}
  <2>2. Sequential!Nearest(p) = Nearest(theirs)
    BY DEF Sequential!Nearest, Nearest, centroid
  <2>3. QED
    BY <2>1, <2>2
<1>8. \A k \in enabled : distance[k] \in Int /\ 0 - Half <= distance[k]
  BY <1>1, NearFacts, DistanceType
<1>9. enabled \in SUBSET Nat
  BY Constants DEF Clusters
<1> HIDE DEF enabled, distance
<1>10. IsNearest(distance, enabled, Nearest(pairs))
  BY <1>1, <1>8, <1>9, ChosenNearest
<1>11. IsNearest(distance, enabled, Sequential!Nearest(p))
  BY <1>7, <1>10
<1>12. QED
  BY <1>1, <1>11 DEF enabled, distance

\* As long as disabled centroids attract nobody, a point gets the same cluster.
LEMMA SameCluster ==
  ASSUME NEW bound \in Nat, SmallInputs(bound), Begun, CentroidsNear(bound, heap), DisabledFar,
         NEW i \in 0 .. (N - 1), in[i] \in Near(bound)
  PROVE  ClusterOf(in[i], heap) = Sequential!Nearest(in[i])
<1> DEFINE enabled == {k \in Clusters : heap[Centroid(k)] # Far}
           all == [k \in Clusters |-> Distance(in[i], heap[Centroid(k)])]
           some == [k \in enabled |-> Distance(in[i], heap[Centroid(k)])]
           mine == ClusterOf(in[i], heap)
           theirs == Sequential!Nearest(in[i])
<1>1. IsNearest(all, Clusters, mine)
  BY CentroidsInt, NearFacts, ClusterNearest
<1>2. /\ enabled # {} /\ \A k \in enabled : heap[Centroid(k)] \in Near(bound)
      /\ IsNearest(some, enabled, theirs)
  BY SequentialNearest
<1>3. \A k \in enabled : all[k] = some[k] /\ some[k] \in Int /\ 0 - Half <= some[k]
  BY <1>2, NearFacts, DistanceType
<1>4. \A k \in enabled, o \in Clusters : o \notin enabled => all[k] < all[o]
  BY DEF DisabledFar
<1>5. \A k \in Clusters : all[k] \in Int
  BY CentroidsInt, NearFacts, DistanceType
<1>6. enabled \in SUBSET Nat
  BY Constants DEF Clusters
<1>7. enabled \subseteq Clusters
  OBVIOUS
<1> HIDE DEF enabled, all, some, mine, theirs
<1>8. mine \in enabled
  <2>1. SUFFICES ASSUME mine \notin enabled PROVE FALSE
    OBVIOUS
  <2>2. PICK k \in enabled : TRUE
    BY <1>2
  <2>3. mine \in Clusters /\ (all[mine] < all[k] \/ all[mine] = all[k])
    BY <1>1, <1>7 DEF IsNearest
  <2>4. all[k] < all[mine] /\ all[k] \in Int /\ all[mine] \in Int
    BY <1>4, <1>5, <1>7, <2>1, <2>3
  <2>5. QED
    BY <2>3, <2>4
<1>9. IsNearest(some, enabled, mine)
  BY <1>1, <1>3, <1>7, <1>8 DEF IsNearest
<1>10. mine = theirs
  BY <1>2, <1>3, <1>6, <1>9, OneNearest
<1>11. QED
  BY <1>10 DEF mine, theirs

-----------------------------------------------------------------------------
(* The sums of the parts and their sum.                                    *)

\* A sum over some of the points does not overflow.
LEMMA PointsSum ==
  ASSUME NEW bound \in Nat, SmallInputs(bound), NEW S \in SUBSET (0 .. (N - 1)),
         NEW f, \A i \in S : f[i] \in -bound .. bound
  PROVE  LET total == SumFunction([i \in S |-> f[i]])
         IN /\ IsFiniteSet(S) /\ Cardinality(S) \in Nat
            /\ total \in Int /\ Wrap(total) = total
            /\ total <= Cardinality(S) * bound /\ 0 - Cardinality(S) * bound <= total
<1> DEFINE total == SumFunction([i \in S |-> f[i]])
           n == Cardinality(S)
<1>1. IsFiniteSet(0 .. (N - 1)) /\ Cardinality(0 .. (N - 1)) = N
  <2>1. 0 \in Int /\ N - 1 \in Int /\ 0 <= N - 1 /\ (N - 1) - 0 + 1 = N
    BY Constants
  <2>2. QED
    BY <2>1, FS_Interval
<1>2. IsFiniteSet(S) /\ n <= N
  BY <1>1, FS_Subset
<1>3. n \in Nat
  BY <1>2, FS_CardinalityType
<1>4. total \in Int /\ total <= n * bound /\ 0 - n * bound <= total
  BY <1>2, SumWithin
<1> HIDE DEF total, n
<1>5. n * bound <= N * bound /\ n * bound \in Nat /\ N * bound \in Nat
  <2>1. N \in Nat
    BY Constants
  <2>2. QED
    BY <1>2, <1>3, <2>1
<1>6. N * bound < Half
  BY DEF SmallInputs
<1>7. 0 - Half <= total /\ total < Half
  BY <1>4, <1>5, <1>6, HalfFacts
<1>8. Wrap(total) = total
  BY <1>4, <1>7, WrapSmall
<1>9. QED
  BY <1>2, <1>3, <1>4, <1>8 DEF total, n

\* The points of S that are in cluster k.
Mine(S, k, view) == {i \in S : ClusterOf(view[Point(i)], view) = k}
PartFrom(s) == s .. (s + PSIZE - 1)

\* What recluster_runner writes for cluster k.
LEMMA PartSums ==
  ASSUME NEW view, NEW s \in Starts, NEW k \in Clusters,
         \A i \in PartFrom(s), d \in Dims : view[Point(i)][d] \in Int
  PROVE  LET mine == Mine(PartFrom(s), k, view)
             writes == PartWrites(s, Minis(view, s))
         IN /\ writes[Sum(s, k)] = [d \in Dims |-> Wrap(SumFunction([i \in mine |-> view[Point(i)][d]]))]
            /\ writes[Count(s, k)] = Cardinality(mine)
<1> DEFINE mine == Mine(PartFrom(s), k, view)
           mini == Minis(view, s)
           Members(m) == {x \in mini : x[2] = m}
           First == LocalIndex(s, 0)
           TotalOf(m) == [d \in Dims |-> Wrap(SumFunction([x \in Members(m) |-> x[1][d]]))]
           sums == [l \in {Sum(s, m) : m \in Clusters} |-> TotalOf(l[2] - First)]
           counts == [l \in {Count(s, m) : m \in Clusters} |-> Cardinality(Members(l[2] - First))]
           triggers == SetTriggers({s}, 2)
           rest == Over(counts, triggers)
           name == [i \in mine |-> <<view[Point(i)], ClusterOf(view[Point(i)], view), i>>]
<1>1. PartWrites(s, mini) = Over(sums, rest)
  BY DEF PartWrites
<1>2. Sum(s, k)[2] - First = k /\ Count(s, k)[2] - First = k
  <2>1. PICK p \in Nat : p = (K + N_LONG_PAGE) * (s \div PSIZE)
    BY PartOf, Constants
  <2>2. LocalIndex(s, k) = p + k /\ First = p /\ k \in Int
    BY <2>1, Constants DEF LocalIndex, Clusters
  <2>3. Sum(s, k)[2] = LocalIndex(s, k) /\ Count(s, k)[2] = LocalIndex(s, k)
    BY DEF Sum, Count
  <2>4. QED
    BY <2>1, <2>2, <2>3
<1>3. /\ DOMAIN sums = {Sum(s, m) : m \in Clusters} /\ DOMAIN counts = {Count(s, m) : m \in Clusters}
      /\ Sum(s, k) \in DOMAIN sums /\ sums[Sum(s, k)] = TotalOf(k)
      /\ Count(s, k) \in DOMAIN counts /\ counts[Count(s, k)] = Cardinality(Members(k))
  BY <1>2
<1>4. mine \in SUBSET PartFrom(s) /\ IsFiniteSet(mine)
  <2>1. mine \in SUBSET PartFrom(s)
    BY DEF Mine
  <2>2. s \in Int /\ s + PSIZE - 1 \in Int
    BY PartOf, Constants
  <2>3. IsFiniteSet(PartFrom(s))
    BY <2>2, FS_Interval DEF PartFrom
  <2>4. QED
    BY <2>1, <2>3, FS_Subset
<1>5. Members(k) = {name[i] : i \in mine}
  BY DEF Minis, Mine, PartFrom, ClusterOf
<1>6. \A a, b \in mine : name[a] = name[b] => a = b
  OBVIOUS
<1>7. \A i \in mine : name[i][1] = view[Point(i)]
  OBVIOUS
<1> HIDE DEF mine, Members, TotalOf, First, mini, name, triggers
<1>8. ASSUME NEW d \in Dims
      PROVE  SumFunction([x \in Members(k) |-> x[1][d]]) = SumFunction([i \in mine |-> view[Point(i)][d]])
  <2> DEFINE g == [x \in Members(k) |-> x[1][d]]
             val == [i \in mine |-> view[Point(i)][d]]
  <2>1. \A i \in mine : val[i] \in Int
    BY <1>4
  <2>2. DOMAIN g = {name[i] : i \in mine}
    BY <1>5
  <2>3. \A i \in mine : g[name[i]] = val[i]
    BY <1>5, <1>7
  <2>4. [i \in mine |-> val[i]] = val
    OBVIOUS
  <2> HIDE DEF g, val
  <2>5. SumFunction(g) = SumFunction([i \in mine |-> val[i]])
    BY <1>4, <1>6, <2>1, <2>2, <2>3, SumRenamed
  <2>6. QED
    BY <2>4, <2>5 DEF g, val
<1>9. TotalOf(k) = [d \in Dims |-> Wrap(SumFunction([i \in mine |-> view[Point(i)][d]]))]
  BY <1>8 DEF TotalOf
<1>10. Cardinality(Members(k)) = Cardinality(mine)
  <2>1. DOMAIN name = mine /\ name = [i \in mine |-> name[i]]
    BY DEF name
  <2>2. \A i \in mine : name[i] \in Members(k)
    BY <1>5
  <2>3. name \in [mine -> Members(k)]
    BY <2>1, <2>2
  <2>4. name \in Surjection(mine, Members(k)) /\ name \in Injection(mine, Members(k))
    BY <1>5, <1>6, <2>1, <2>3 DEF Injection, IsInjective, Surjection
  <2>5. QED
    BY <1>4, <2>4, FS_Surjection
<1> HIDE DEF sums, counts
<1>11. PartWrites(s, mini)[Sum(s, k)] = TotalOf(k)
  BY <1>1, <1>3, OverNew
<1>12. PartWrites(s, mini)[Count(s, k)] = Cardinality(Members(k))
  <2>1. Count(s, k) \notin DOMAIN sums
    BY <1>3, ArraysApart
  <2>2. DOMAIN rest = DOMAIN counts \cup DOMAIN triggers
    BY OverDomain
  <2>3. rest[Count(s, k)] = counts[Count(s, k)]
    BY <1>3, OverNew
  <2> HIDE DEF rest
  <2>4. Count(s, k) \in DOMAIN rest
    BY <1>3, <2>2
  <2>5. Over(sums, rest)[Count(s, k)] = rest[Count(s, k)]
    BY <2>1, <2>4, OverOld
  <2>6. QED
    BY <1>1, <1>3, <2>3, <2>5
<1>13. QED
  BY <1>9, <1>10, <1>11, <1>12 DEF mine, mini

\* The parts' sums add up to the sum of all.
LEMMA WholeSum ==
  ASSUME NEW view, NEW k, NEW val, \A i \in 0 .. (N - 1) : val[i] \in Int
  PROVE  SumFunction([s \in Starts |-> SumFunction([i \in Mine(PartFrom(s), k, view) |-> val[i]])])
           = SumFunction([i \in Mine(0 .. (N - 1), k, view) |-> val[i]])
<1> DEFINE all == 0 .. (N - 1)
           mine == Mine(all, k, view)
           part == [i \in all |-> CHOOSE s \in Starts : i \in PartFrom(s)]
<1>1. mine \in SUBSET all /\ IsFiniteSet(mine)
  <2>1. 0 \in Int /\ N - 1 \in Int
    BY Constants
  <2>2. IsFiniteSet(all)
    BY <2>1, FS_Interval
  <2>3. mine \in SUBSET all
    BY DEF Mine
  <2>4. QED
    BY <2>2, <2>3, FS_Subset
<1>2. \A i \in all : part[i] \in Starts /\ i \in PartFrom(part[i])
  BY PartsCover DEF PartFrom
<1>3. \A i \in all, s \in Starts : i \in PartFrom(s) => s = part[i]
  BY <1>2, OtherPart DEF PartFrom
<1>4. \A s \in Starts : PartFrom(s) \subseteq all
  BY PointsOfPart DEF PartFrom
<1> HIDE DEF part
<1>5. \A s \in Starts : {c \in mine : part[c] = s} = Mine(PartFrom(s), k, view)
  BY <1>1, <1>2, <1>3, <1>4 DEF Mine
<1>6. (\A a \in mine : val[a] \in Int) /\ (\A a \in mine : part[a] \in Starts) /\ IsFiniteSet(mine)
  BY <1>1, <1>2
<1> HIDE DEF mine
<1>7. SumFunction([s \in Starts |-> Partial(val, part, mine, s)]) = SumFunction([i \in mine |-> val[i]])
  BY <1>6, StartsFinite, SumInParts
<1>8. \A s \in Starts : Partial(val, part, mine, s)
                          = SumFunction([i \in Mine(PartFrom(s), k, view) |-> val[i]])
  BY <1>5 DEF Partial
<1>9. QED
  BY <1>7, <1>8 DEF mine

\* The mean of points, toward zero, is near them.
LEMMA MeanNear ==
  ASSUME NEW bound \in Nat, NEW total \in Int, NEW n \in Nat \ {0},
         total <= n * bound, 0 - n * bound <= total
  PROVE  /\ Quotient(total, n) \in -bound .. bound
         /\ Quotient(total, n) = LET size == Sequential!Magnitude(total) \div n
                                 IN IF total < 0 THEN -size ELSE size
<1> DEFINE m == IF total < 0 THEN -total ELSE total
           q == m \div n
<1>1. m \in Nat /\ m <= n * bound
  <2>1. n * bound \in Int
    OBVIOUS
  <2>2. QED
    BY <2>1
<1>2. q \in Nat /\ q <= bound
  <2> HIDE DEF m
  <2>1. QED
    BY <1>1
<1>3. Sequential!Magnitude(total) = m
  BY DEF Sequential!Magnitude
<1>4. Quotient(total, n) = IF total < 0 THEN -q ELSE q
  BY DEF Quotient
<1> HIDE DEF q
<1>5. Quotient(total, n) \in -bound .. bound
  BY <1>2, <1>4
<1>6. QED
  BY <1>3, <1>4, <1>5 DEF q

\* The heap holds the points, and the sums of all parts.
PointsAre(view) == \A i \in 0 .. (N - 1) : view[Point(i)] = in[i]
PartSummed(s, view) ==
  \A k \in Clusters : LET writes == PartWrites(s, Minis(view, s))
                      IN view[Sum(s, k)] = writes[Sum(s, k)] /\ view[Count(s, k)] = writes[Count(s, k)]

LEMMA InNear ==
  ASSUME NEW bound \in Nat, SmallInputs(bound), in \in Inputs
  PROVE  \A i \in 0 .. (N - 1) : in[i] \in Near(bound) /\ \A d \in Dims : in[i][d] \in -bound .. bound
  BY DEF SmallInputs, Near

LEMMA MeansAre ==
  ASSUME NEW bound \in Nat, SmallInputs(bound), in \in Inputs, NEW view, PointsAre(view),
         \A s \in Starts : PartSummed(s, view), NEW k \in Clusters
  PROVE  LET mine == Mine(0 .. (N - 1), k, view)
         IN /\ mine = {} => Means(view)[Centroid(k)] = Far
            /\ mine # {} => /\ Means(view)[Centroid(k)] = Sequential!Mean(mine)
                            /\ Means(view)[Centroid(k)] \in Near(bound)
<1> DEFINE all == 0 .. (N - 1)
           mine == Mine(all, k, view)
           part(s) == Mine(PartFrom(s), k, view)
           npt == SumFunction([s \in Starts |-> view[Count(s, k)]])
           sum(d) == Wrap(SumFunction([s \in Starts |-> view[Sum(s, k)][d]]))
           total(d) == SumFunction([i \in mine |-> in[i][d]])
<1>1. \A i \in all, d \in Dims : in[i][d] \in Int /\ in[i][d] \in -bound .. bound
  BY InNear
<1>2. mine \in SUBSET all /\ \A s \in Starts : part(s) \in SUBSET all /\ PartFrom(s) \subseteq all
  BY PointsOfPart DEF Mine, PartFrom
<1>3. ASSUME NEW s \in Starts
      PROVE  /\ view[Sum(s, k)] = [d \in Dims |-> Wrap(SumFunction([i \in part(s) |-> view[Point(i)][d]]))]
             /\ view[Count(s, k)] = Cardinality(part(s))
  <2>1. \A i \in PartFrom(s), d \in Dims : view[Point(i)][d] \in Int
    BY <1>1, <1>2 DEF PointsAre
  <2>2. QED
    BY <2>1, PartSums DEF PartSummed
<1>4. \A s \in Starts : \A i \in part(s) : view[Point(i)] = in[i]
  BY <1>2 DEF PointsAre
<1> HIDE DEF mine, part
<1>5. /\ IsFiniteSet(mine) /\ Cardinality(mine) \in Nat
      /\ \A d \in Dims : /\ total(d) \in Int /\ Wrap(total(d)) = total(d)
                         /\ total(d) <= Cardinality(mine) * bound /\ 0 - Cardinality(mine) * bound <= total(d)
  <2>1. ASSUME NEW d \in Dims
        PROVE  /\ IsFiniteSet(mine) /\ Cardinality(mine) \in Nat
               /\ total(d) \in Int /\ Wrap(total(d)) = total(d)
               /\ total(d) <= Cardinality(mine) * bound /\ 0 - Cardinality(mine) * bound <= total(d)
    <3> DEFINE f == [i \in all |-> in[i][d]]
    <3>1. \A i \in mine : f[i] \in -bound .. bound
      BY <1>1, <1>2
    <3>2. [i \in mine |-> f[i]] = [i \in mine |-> in[i][d]]
      BY <1>2
    <3> HIDE DEF f, total
    <3>3. LET t == SumFunction([i \in mine |-> f[i]])
          IN /\ IsFiniteSet(mine) /\ Cardinality(mine) \in Nat
             /\ t \in Int /\ Wrap(t) = t
             /\ t <= Cardinality(mine) * bound /\ 0 - Cardinality(mine) * bound <= t
      BY <1>2, <3>1, PointsSum
    <3>4. total(d) = SumFunction([i \in mine |-> f[i]])
      BY <3>2 DEF total
    <3>5. QED
      BY <3>3, <3>4
  <2>2. PICK d \in Dims : TRUE
    BY KMeansAssumption
  <2> HIDE DEF total
  <2>3. QED
    BY <2>1, <2>2
<1>6. ASSUME NEW d \in Dims, NEW s \in Starts
      PROVE  view[Sum(s, k)][d] = SumFunction([i \in part(s) |-> in[i][d]])
  <2> DEFINE f == [i \in all |-> in[i][d]]
  <2>1. \A i \in part(s) : f[i] \in -bound .. bound
    BY <1>1, <1>2
  <2>2. [i \in part(s) |-> f[i]] = [i \in part(s) |-> in[i][d]]
    BY <1>2
  <2>3. [i \in part(s) |-> view[Point(i)][d]] = [i \in part(s) |-> in[i][d]]
    BY <1>4
  <2> HIDE DEF f
  <2>4. Wrap(SumFunction([i \in part(s) |-> f[i]])) = SumFunction([i \in part(s) |-> f[i]])
    BY <1>2, <2>1, PointsSum
  <2>5. view[Sum(s, k)][d] = Wrap(SumFunction([i \in part(s) |-> view[Point(i)][d]]))
    BY <1>3
  <2>6. QED
    BY <2>2, <2>3, <2>4, <2>5
<1>7. ASSUME NEW d \in Dims PROVE sum(d) = total(d)
  <2> DEFINE val == [i \in all |-> in[i][d]]
  <2>1. \A i \in all : val[i] \in Int
    BY <1>1
  <2>2. \A s \in Starts : [i \in part(s) |-> val[i]] = [i \in part(s) |-> in[i][d]]
    BY <1>2
  <2>3. [i \in mine |-> val[i]] = [i \in mine |-> in[i][d]]
    BY <1>2
  <2> HIDE DEF val
  <2>4. SumFunction([s \in Starts |-> SumFunction([i \in part(s) |-> val[i]])])
          = SumFunction([i \in mine |-> val[i]])
    BY <2>1, WholeSum DEF part, mine
  <2>5. [s \in Starts |-> view[Sum(s, k)][d]] = [s \in Starts |-> SumFunction([i \in part(s) |-> val[i]])]
    BY <1>6, <2>2
  <2>6. SumFunction([s \in Starts |-> view[Sum(s, k)][d]]) = total(d)
    BY <2>3, <2>4, <2>5
  <2> HIDE DEF total
  <2>7. QED
    BY <1>5, <2>6
<1>8. npt = Cardinality(mine)
  <2> DEFINE val == [i \in all |-> 1]
  <2>1. \A i \in all : val[i] \in Int
    OBVIOUS
  <2>2. \A s \in Starts : [i \in part(s) |-> val[i]] = [i \in part(s) |-> 1]
    BY <1>2
  <2>3. [i \in mine |-> val[i]] = [i \in mine |-> 1]
    BY <1>2
  <2> HIDE DEF val
  <2>4. SumFunction([s \in Starts |-> SumFunction([i \in part(s) |-> val[i]])])
          = SumFunction([i \in mine |-> val[i]])
    BY <2>1, WholeSum DEF part, mine
  <2>5. \A s \in Starts : view[Count(s, k)] = SumFunction([i \in part(s) |-> val[i]])
    <3>1. ASSUME NEW s \in Starts PROVE IsFiniteSet(part(s))
      <4>1. 0 \in Int /\ N - 1 \in Int
        BY Constants
      <4>2. QED
        BY <1>2, <4>1, FS_Interval, FS_Subset
    <3>2. QED
      BY <1>3, <2>2, <3>1, CountIsSum
  <2>6. SumFunction([i \in mine |-> 1]) = Cardinality(mine)
    BY <1>5, CountIsSum
  <2>7. [s \in Starts |-> view[Count(s, k)]] = [s \in Starts |-> SumFunction([i \in part(s) |-> val[i]])]
    BY <2>5
  <2>8. QED
    BY <2>3, <2>4, <2>6, <2>7
<1>9. Means(view)[Centroid(k)] = IF npt = 0 THEN Far ELSE [d \in Dims |-> Quotient(sum(d), npt)]
  <2>1. Centroid(k)[2] = k
    BY DEF Centroid
  <2>2. Centroid(k) \in {Centroid(m) : m \in Clusters}
    OBVIOUS
  <2>3. QED
    BY <2>1, <2>2 DEF Means
<1> HIDE DEF npt, sum, total
<1>10. CASE mine = {}
  <2>1. npt = 0
    BY <1>8, <1>10, FS_EmptySet
  <2>2. QED
    BY <1>9, <1>10, <2>1 DEF mine
<1>11. CASE mine # {}
  <2>1. npt \in Nat \ {0}
    BY <1>5, <1>8, <1>11, FS_EmptySet
  <2>2. \A d \in Dims :
          LET size == Sequential!Magnitude(total(d)) \div npt
          IN /\ Quotient(total(d), npt) \in -bound .. bound
             /\ Quotient(total(d), npt) = IF total(d) < 0 THEN -size ELSE size
    BY <1>5, <1>8, <2>1, MeanNear
  <2>3. Means(view)[Centroid(k)] = [d \in Dims |-> Quotient(total(d), npt)]
    BY <1>7, <1>9, <2>1
  <2>4. Means(view)[Centroid(k)] \in Near(bound)
    BY <2>2, <2>3 DEF Near
  <2>5. Sequential!Mean(mine)
          = [d \in Dims |-> LET size == Sequential!Magnitude(total(d)) \div npt
                            IN IF total(d) < 0 THEN -size ELSE size]
    BY <1>8, SameSums DEF Sequential!Mean, total
  <2>6. Means(view)[Centroid(k)] = Sequential!Mean(mine)
    BY <2>2, <2>3, <2>5
  <2>7. QED
    BY <1>11, <2>4, <2>6 DEF mine
<1>12. QED
  BY <1>10, <1>11

-----------------------------------------------------------------------------
(* What the tasks' commits do to points, sums and centroids.                *)

\* A commit that starts the first iteration.
BeginsFirst(writes) ==
  /\ ~Begun /\ AllTriggers(heap, 1) /\ writes[Iter] = 0
  /\ \A s \in Starts : Trigger(s) \in DOMAIN writes /\ writes[Trigger(s)] = 0
  /\ \A k \in Clusters : writes[Centroid(k)] = heap[Point(k)]

\* A commit that ends an iteration.
EndsIteration(writes) ==
  /\ Begun /\ AllTriggers(heap, 2)
  /\ heap[Iter] \in Nat /\ heap[Iter] < MAX_ITER /\ writes[Iter] = heap[Iter] + 1
  /\ \/ \A s \in Starts : Trigger(s) \in DOMAIN writes /\ writes[Trigger(s)] = 0
     \/ writes[Iter] = MAX_ITER
  /\ \A k \in Clusters : writes[Centroid(k)] = Means(heap)[Centroid(k)]

LEMMA StartKeeps ==
  ASSUME NEW writes, NEW k, Centroid(k) \in DOMAIN writes
  PROVE  StartIteration(writes).writes[Centroid(k)] = writes[Centroid(k)]
<1> DEFINE triggers == SetTriggers(Starts, 0)
<1>1. DOMAIN triggers = {Trigger(s) : s \in Starts}
  BY SetTriggersFacts
<1>2. StartIteration(writes).writes = Over(triggers, writes)
  BY EndsFacts DEF StartIteration
<1> HIDE DEF triggers
<1>3. Centroid(k) \notin DOMAIN triggers
  BY <1>1 DEF Trigger, Centroid
<1>4. QED
  BY <1>2, <1>3, OverOld

LEMMA FirstCentroids ==
  ASSUME NEW view, Commits(OnInit1Finished(view)), NEW k \in Clusters
  PROVE  OnInit1Finished(view).writes[Centroid(k)] = view[Point(k)]
<1> DEFINE points == [l \in {Centroid(m) : m \in Clusters} |-> view[Point(l[2])]]
           rest == Over(Holds(Iter, 0), Holds(Trigger(0), 3))
<1>1. AllTriggers(view, 1)
  BY AbortFacts DEF OnInit1Finished
<1>2. OnInit1Finished(view) = StartIteration(Over(points, rest))
  BY <1>1 DEF OnInit1Finished
<1>3. Centroid(k) \in DOMAIN points /\ points[Centroid(k)] = view[Point(k)]
  BY DEF Centroid
<1> HIDE DEF points, rest
<1>4. Centroid(k) \in DOMAIN Over(points, rest) /\ Over(points, rest)[Centroid(k)] = view[Point(k)]
  BY <1>3, OverDomain, OverNew
<1>5. QED
  BY <1>2, <1>4, StartKeeps

LEMMA NextCentroids ==
  ASSUME NEW view, NEW k \in Clusters
  PROVE  FinishIteration(view).writes[Centroid(k)] = Means(view)[Centroid(k)]
<1> DEFINE i == view[Iter] + 1
           next == Over(Means(view), Holds(Iter, i))
<1>1. Centroid(k) \in DOMAIN Means(view)
  BY MeansDomain
<1>2. Centroid(k) \in DOMAIN next /\ next[Centroid(k)] = Means(view)[Centroid(k)]
  BY <1>1, OverDomain, OverNew
<1>3. CASE i < MAX_ITER
  <2>1. FinishIteration(view) = StartIteration(next)
    BY <1>3 DEF FinishIteration
  <2> HIDE DEF next
  <2>2. QED
    BY <1>2, <2>1, StartKeeps
<1>4. CASE ~(i < MAX_ITER)
  <2>1. FinishIteration(view) = Ends("commitd", next, {}, {})
    BY <1>4 DEF FinishIteration
  <2> HIDE DEF next
  <2>2. QED
    BY <1>2, <2>1, EndsFacts
<1>5. QED
  BY <1>3, <1>4

LEMMA WatcherWrites ==
  ASSUME KMeansInv, NEW t \in tasks, Commit(t), t.do \in {"on_init1_finished", "on_recluster_finished"}
  PROVE  LET writes == t.end.writes
         IN /\ DOMAIN writes \subseteq {Trigger(s) : s \in Starts} \cup {Centroid(k) : k \in Clusters} \cup {Iter}
            /\ {Centroid(k) : k \in Clusters} \cup {Iter} \subseteq DOMAIN writes
            /\ BeginsFirst(writes) \/ EndsIteration(writes)
<1> DEFINE writes == t.end.writes
<1>1. t.end = Body(t, heap) /\ Commits(t.end)
  BY CommitFacts DEF KMeansInv, CommitsAreCurrent
<1>2. Underway /\ t \notin Runners
  BY DEF KMeansInv, Prologue, Runners
<1>3. t.do \in CanWatch /\ t.arg \in Nat /\ t.arg < MAX_ITER
  BY <1>2, UnderwayWatchers
<1>4. CASE t.do = "on_init1_finished"
  <2>1. t.end = OnInit1Finished(heap)
    BY <1>1, <1>4, Bodies
  <2>2. AllTriggers(heap, 1) /\ StartsIteration(t.end, 0)
    BY <1>1, <2>1, Init1Ends
  <2>3. heap[Trigger(0)] = 1 /\ heap[Trigger(0)] \in {0, Done}
    BY <1>2, <2>2, FirstStart DEF AllTriggers, Underway, PartsServed
  <2>4. ~Begun
    BY <2>3 DEF Done
  <2>5. \A k \in Clusters : writes[Centroid(k)] = heap[Point(k)]
    BY <1>1, <2>1, FirstCentroids
  <2>6. BeginsFirst(writes)
    BY <2>2, <2>4, <2>5 DEF BeginsFirst, StartsIteration
  <2>7. QED
    BY <2>2, <2>6 DEF StartsIteration
<1>5. CASE t.do = "on_recluster_finished"
  <2>1. t.end = OnReclusterFinished(heap, t.arg)
    BY <1>1, <1>5, Bodies
  <2>2. Begun
    BY <1>3, <1>5 DEF CanWatch
  <2>3. heap[Iter] \in Nat
    BY <1>2, <2>2, Constants DEF Underway, IterInRange
  <2>4. /\ AllTriggers(heap, 2) /\ t.arg = heap[Iter]
        /\ t.end = FinishIteration(heap)
        /\ IF heap[Iter] + 1 < MAX_ITER THEN StartsIteration(t.end, heap[Iter] + 1)
           ELSE EndsLast(t.end, heap[Iter] + 1)
    BY <1>1, <1>3, <2>1, <2>3, ReclusterEnds
  <2>5. \A k \in Clusters : writes[Centroid(k)] = Means(heap)[Centroid(k)]
    BY <2>4, NextCentroids
  <2>6. heap[Iter] < MAX_ITER
    BY <1>3, <2>4
  <2>7. CASE heap[Iter] + 1 < MAX_ITER
    <3>1. StartsIteration(t.end, heap[Iter] + 1)
      BY <2>4, <2>7
    <3>2. EndsIteration(writes)
      BY <2>2, <2>3, <2>4, <2>5, <2>6, <3>1 DEF EndsIteration, StartsIteration
    <3>3. QED
      BY <3>1, <3>2 DEF StartsIteration
  <2>8. CASE ~(heap[Iter] + 1 < MAX_ITER)
    <3>1. EndsLast(t.end, heap[Iter] + 1)
      BY <2>4, <2>8
    <3>2. heap[Iter] + 1 = MAX_ITER
      BY <2>3, <2>6, <2>8, Constants
    <3>3. EndsIteration(writes)
      BY <2>2, <2>3, <2>4, <2>5, <2>6, <3>1, <3>2 DEF EndsIteration, EndsLast
    <3>4. QED
      BY <3>1, <3>3 DEF EndsLast
  <2>9. QED
    BY <2>7, <2>8
<1>6. QED
  BY <1>4, <1>5

\* No other commit touches the centroids and iter.
LEMMA OtherWrites ==
  ASSUME KMeansInv, NEW t \in tasks, Commit(t),
         t.do \notin {"on_init1_finished", "on_recluster_finished"}
  PROVE  LET writes == t.end.writes
         IN /\ DOMAIN writes \subseteq Locations
            /\ Iter \notin DOMAIN writes
            /\ \A k : Centroid(k) \notin DOMAIN writes
<1>1. t.end = Body(t, heap)
  BY CommitFacts DEF KMeansInv, CommitsAreCurrent
<1>2. CASE Underway
  <2>1. IsRunner(t)
    BY <1>2, UnderwayRunners DEF Runners
  <2>2. QED
    BY <1>1, <2>1, RunnerEnds
<1>3. CASE t.do = "main"
  <2>1. DOMAIN t.end.writes = {}
    BY <1>1, <1>3, Bodies, EndsFacts, NothingWritten DEF Main
  <2>2. QED
    BY <2>1
<1>4. CASE t.do = "init0"
  <2>1. t.end.writes = SetTriggers(Starts, 0)
    BY <1>1, <1>4, Bodies, Init0Facts
  <2>2. DOMAIN t.end.writes = {Trigger(s) : s \in Starts}
    BY <2>1, SetTriggersFacts
  <2>3. QED
    BY <2>2, Places, ArraysApart
<1>5. QED
  BY <1>2, <1>3, <1>4 DEF KMeansInv, Prologue

\* The heap holds what it should: the points that have been read, the sums of
\* the parts that are done, and centroids near the points.
PointsKept ==
  /\ \A s \in Starts : heap[Trigger(s)] = 1 => \A i \in PartFrom(s) : heap[Point(i)] = in[i]
  /\ Begun => \A i \in 0 .. (N - 1) : heap[Point(i)] = in[i]
SumsKept ==
  Begun /\ heap[Iter] < MAX_ITER =>
    \A s \in Starts : heap[Trigger(s)] = 2 => PartSummed(s, heap)
ValuesKept(bound) == PointsKept /\ SumsKept /\ (Begun => CentroidsNear(bound, heap))

LEMMA AllRead ==
  ASSUME PointsKept, AllTriggers(heap, 1) \/ Begun
  PROVE  PointsAre(heap)
<1>1. CASE Begun
  BY <1>1 DEF PointsKept, PointsAre
<1>2. CASE AllTriggers(heap, 1)
  BY <1>2, PartsCover DEF PointsKept, PointsAre, AllTriggers, PartFrom
<1>3. QED
  BY <1>1, <1>2

\* The sums of a part depend on the points and the centroids.
LEMMA SameMinis ==
  ASSUME NEW s \in Starts, NEW view, NEW view2,
         \A i \in 0 .. (N - 1) : view[Point(i)] = view2[Point(i)],
         \A k \in Clusters : view[Centroid(k)] = view2[Centroid(k)]
  PROVE  Minis(view, s) = Minis(view2, s)
<1>1. \A i \in s .. (s + PSIZE - 1) : view[Point(i)] = view2[Point(i)]
  BY PointsOfPart
<1>2. ASSUME NEW p PROVE Distances(p, view) = Distances(p, view2)
  BY DEF Distances
<1>3. QED
  BY <1>1, <1>2 DEF Minis

\* Before the first iteration.
LEMMA ReadingKept ==
  ASSUME NEW bound, KMeansInv, PointsKept, in' = in, NEW t \in tasks, Commit(t),
         t.do \in {"main", "init0", "init_runner_stdin", "init_runner_pmem"}
  PROVE  ValuesKept(bound)'
<1> DEFINE writes == t.end.writes
<1>1. t.end = Body(t, heap) /\ heap' = Over(writes, heap)
  BY CommitFacts DEF KMeansInv, CommitsAreCurrent
<1>2. /\ DOMAIN writes \subseteq Locations /\ Iter \notin DOMAIN writes
  BY OtherWrites
<1>3. /\ \A x \in DOMAIN writes : heap'[x] = writes[x]
      /\ \A x \in Locations : x \notin DOMAIN writes => heap'[x] = heap[x]
  BY <1>1, <1>2, HeapWritten DEF KMeansInv
<1>4. ~Begun
  <2>1. CASE Prologue
    BY <2>1 DEF Prologue, Begun
  <2>2. CASE Underway
    <3>1. t.do \in CanRun \/ t.do \in CanWatch
      BY <2>2, UnderwayRunners, UnderwayWatchers
    <3>2. QED
      BY <3>1 DEF CanRun, CanWatch
  <2>3. QED
    BY <2>1, <2>2 DEF KMeansInv
<1>5. heap'[Iter] = Unset
  BY <1>2, <1>3, <1>4, Places DEF Begun
<1>6. \A i \in 0 .. (N - 1) : Point(i) \in Locations
  BY DEF Locations
<1> HIDE DEF writes
<1>7. ASSUME NEW s \in Starts, heap'[Trigger(s)] = 1, NEW i \in PartFrom(s)
      PROVE  heap'[Point(i)] = in[i]
  <2>1. i \in 0 .. (N - 1) /\ Point(i) \in Locations /\ Trigger(s) \in Locations
    BY PointsOfPart, Places DEF PartFrom
  <2>2. heap[Trigger(s)] = 1 => heap[Point(i)] = in[i]
    BY DEF PointsKept
  <2>3. CASE t.do = "main"
    <3>1. DOMAIN writes = {}
      BY <1>1, <2>3, Bodies, EndsFacts, NothingWritten DEF Main, writes
    <3>2. QED
      BY <1>3, <1>7, <2>1, <2>2, <3>1
  <2>4. CASE t.do = "init0"
    <3>1. writes = SetTriggers(Starts, 0)
      BY <1>1, <2>4, Bodies, Init0Facts DEF writes
    <3>2. Trigger(s) \in DOMAIN writes /\ writes[Trigger(s)] = 0
      BY <3>1, SetTriggersFacts
    <3>3. QED
      BY <1>3, <1>7, <3>2
  <2>5. CASE t.do = "init_runner_stdin"
    <3>1. /\ DOMAIN writes = {Point(j) : j \in 0 .. (N - 1)} \cup {Trigger(r) : r \in Starts}
          /\ \A j \in 0 .. (N - 1) : writes[Point(j)] = in[j]
      BY <1>1, <2>5, Bodies, StdinWrites DEF writes
    <3>2. QED
      BY <1>3, <2>1, <3>1
  <2>6. CASE t.do = "init_runner_pmem"
    <3> DEFINE a == t.arg
    <3>1. a \in Starts
      <4>1. Underway
        BY <2>6 DEF KMeansInv, Prologue
      <4>2. t \in Runners
        BY <2>6 DEF Runners
      <4>3. QED
        BY <2>6, <4>1, <4>2, UnderwayRunners, RunnerParts
    <3>2. /\ DOMAIN writes = {Point(j) : j \in a .. (a + PSIZE - 1)} \cup {Trigger(a)}
          /\ \A j \in a .. (a + PSIZE - 1) : writes[Point(j)] = in[j]
      <4>1. writes = InitRunnerPmem(a).writes
        BY <1>1, <2>6, Bodies DEF writes
      <4>2. QED
        BY <3>1, <4>1, PmemWrites
    <3> HIDE DEF a
    <3>3. CASE s = a
      <4>1. Point(i) \in DOMAIN writes /\ writes[Point(i)] = in[i]
        BY <3>2, <3>3 DEF PartFrom
      <4>2. QED
        BY <1>3, <4>1
    <3>4. CASE s # a
      <4>1. Trigger(s) \notin DOMAIN writes
        BY <3>1, <3>2, <3>4, OtherPart, ArraysApart
      <4>2. Point(i) \notin DOMAIN writes
        BY <3>1, <3>2, <3>4, OtherPart, ArraysApart DEF PartFrom
      <4>3. QED
        BY <1>3, <1>7, <2>1, <2>2, <4>1, <4>2
    <3>5. QED
      BY <3>3, <3>4
  <2>7. QED
    BY <2>3, <2>4, <2>5, <2>6
<1>8. QED
  BY <1>5, <1>7 DEF ValuesKept, PointsKept, SumsKept, Begun

\* A runner of an iteration adds a part's sums.
LEMMA SummingKept ==
  ASSUME NEW bound, KMeansInv, ValuesKept(bound), in' = in, NEW t \in tasks, Commit(t),
         t.do = "recluster_runner"
  PROVE  ValuesKept(bound)'
<1> DEFINE a == t.arg
           writes == PartWrites(a, Minis(heap, a))
<1>1. a \in Starts /\ Begun
  <2>1. Underway
    BY DEF KMeansInv, Prologue
  <2>2. t \in Runners
    BY DEF Runners
  <2>3. t.do \in CanRun /\ IsRunner(t)
    BY <2>1, <2>2, UnderwayRunners
  <2>4. Begun
    BY <2>3 DEF CanRun
  <2>5. QED
    BY <2>3, <2>4, RunnerParts
<1>2. t.end.writes = writes /\ heap' = Over(writes, heap)
  <2>1. t.end = Body(t, heap) /\ heap' = Over(t.end.writes, heap)
    BY CommitFacts DEF KMeansInv, CommitsAreCurrent
  <2>2. QED
    BY <2>1, Bodies, EndsFacts DEF ReclusterRunner
<1> HIDE DEF a
<1>3. /\ DOMAIN writes = {Sum(a, k) : k \in Clusters} \cup {Count(a, k) : k \in Clusters} \cup {Trigger(a)}
      /\ writes[Trigger(a)] = 2
  BY <1>1, PartWritten
<1> HIDE DEF writes
<1>4. DOMAIN writes \subseteq Locations
  BY <1>1, <1>3 DEF Locations
<1>5. /\ \A x \in DOMAIN writes : heap'[x] = writes[x]
      /\ \A x \in Locations : x \notin DOMAIN writes => heap'[x] = heap[x]
  BY <1>2, <1>4, HeapWritten DEF KMeansInv
<1>6. /\ \A i \in 0 .. (N - 1) : Point(i) \in Locations
      /\ \A s \in Starts, k \in Clusters : Sum(s, k) \in Locations /\ Count(s, k) \in Locations
  BY DEF Locations
<1>7. /\ \A i \in 0 .. (N - 1) : heap'[Point(i)] = heap[Point(i)]
      /\ \A k \in Clusters : heap'[Centroid(k)] = heap[Centroid(k)]
      /\ heap'[Iter] = heap[Iter]
  <2>1. \A i : Point(i) \notin DOMAIN writes
    BY <1>3, ArraysApart
  <2>2. \A k : Centroid(k) \notin DOMAIN writes
    BY <1>3, ArraysApart
  <2>3. Iter \notin DOMAIN writes
    BY <1>3, ArraysApart
  <2>4. QED
    BY <1>5, <1>6, <2>1, <2>2, <2>3, Places
<1>8. \A s \in Starts : Minis(heap', s) = Minis(heap, s)
  BY <1>7, SameMinis
<1>9. ASSUME NEW s \in Starts, heap'[Trigger(s)] = 2, heap[Iter] < MAX_ITER PROVE PartSummed(s, heap')
  <2>1. CASE s = a
    <3>1. \A k \in Clusters : Sum(s, k) \in DOMAIN writes /\ Count(s, k) \in DOMAIN writes
      BY <1>3, <2>1
    <3>2. writes = PartWrites(s, Minis(heap', s))
      BY <1>1, <1>8, <2>1 DEF writes
    <3>3. QED
      BY <1>5, <3>1, <3>2 DEF PartSummed
  <2>2. CASE s # a
    <3>1. Trigger(s) \notin DOMAIN writes
      BY <1>1, <1>3, <2>2, OtherPart, ArraysApart
    <3>2. \A k \in Clusters : Sum(s, k) \notin DOMAIN writes /\ Count(s, k) \notin DOMAIN writes
      BY <1>1, <1>3, <2>2, OtherPart, ArraysApart
    <3>3. heap[Trigger(s)] = 2
      BY <1>5, <1>9, <3>1, Places
    <3>4. PartSummed(s, heap)
      BY <1>1, <1>9, <3>3 DEF ValuesKept, SumsKept
    <3>5. \A k \in Clusters : heap'[Sum(s, k)] = heap[Sum(s, k)] /\ heap'[Count(s, k)] = heap[Count(s, k)]
      BY <1>5, <1>6, <3>2
    <3>6. QED
      BY <1>8, <3>4, <3>5 DEF PartSummed
  <2>3. QED
    BY <2>1, <2>2
<1>10. \A i \in 0 .. (N - 1) : heap'[Point(i)] = in[i]
  BY <1>1, <1>7 DEF ValuesKept, PointsKept
<1>11. PointsKept'
  <2>1. \A s \in Starts : \A i \in PartFrom(s) : i \in 0 .. (N - 1)
    BY PointsOfPart DEF PartFrom
  <2>2. QED
    BY <1>10, <2>1 DEF PointsKept
<1>12. SumsKept'
  BY <1>7, <1>9 DEF SumsKept
<1>13. CentroidsNear(bound, heap')
  BY <1>1, <1>7 DEF ValuesKept, CentroidsNear
<1>14. QED
  BY <1>11, <1>12, <1>13 DEF ValuesKept

\* A commit that starts the first iteration, or ends one.
LEMMA MovingKept ==
  ASSUME NEW bound \in Nat, SmallInputs(bound), in \in Inputs, KMeansInv, ValuesKept(bound), in' = in,
         NEW t \in tasks, Commit(t), t.do \in {"on_init1_finished", "on_recluster_finished"}
  PROVE  ValuesKept(bound)'
<1> DEFINE writes == t.end.writes
<1>1. /\ DOMAIN writes \subseteq {Trigger(s) : s \in Starts} \cup {Centroid(k) : k \in Clusters} \cup {Iter}
      /\ {Centroid(k) : k \in Clusters} \cup {Iter} \subseteq DOMAIN writes
      /\ BeginsFirst(writes) \/ EndsIteration(writes)
  BY WatcherWrites
<1>2. DOMAIN writes \subseteq Locations
  BY <1>1, Places
<1>3. heap' = Over(writes, heap)
  BY CommitFacts
<1> HIDE DEF writes
<1>4. /\ \A x \in DOMAIN writes : heap'[x] = writes[x]
      /\ \A x \in Locations : x \notin DOMAIN writes => heap'[x] = heap[x]
  BY <1>2, <1>3, HeapWritten DEF KMeansInv
<1>5. PointsAre(heap)
  BY <1>1, AllRead DEF ValuesKept, BeginsFirst, EndsIteration
<1>6. \A i \in 0 .. (N - 1) : heap'[Point(i)] = in[i]
  <2>1. \A i : Point(i) \notin DOMAIN writes
    BY <1>1, ArraysApart
  <2>2. \A i \in 0 .. (N - 1) : Point(i) \in Locations
    BY DEF Locations
  <2>3. QED
    BY <1>4, <1>5, <2>1, <2>2 DEF PointsAre
<1>7. PointsKept'
  <2>1. \A s \in Starts : \A i \in PartFrom(s) : i \in 0 .. (N - 1)
    BY PointsOfPart DEF PartFrom
  <2>2. QED
    BY <1>6, <2>1 DEF PointsKept
<1>8. heap'[Iter] = writes[Iter] /\ \A k \in Clusters : heap'[Centroid(k)] = writes[Centroid(k)]
  BY <1>1, <1>4
<1>9. SumsKept'
  <2>1. CASE \A s \in Starts : Trigger(s) \in DOMAIN writes /\ writes[Trigger(s)] = 0
    <3>1. \A s \in Starts : heap'[Trigger(s)] = 0
      BY <1>4, <2>1
    <3>2. QED
      BY <3>1 DEF SumsKept
  <2>2. CASE writes[Iter] = MAX_ITER
    <3>1. ~(heap'[Iter] < MAX_ITER)
      BY <1>8, <2>2, Constants
    <3>2. QED
      BY <3>1 DEF SumsKept
  <2>3. QED
    BY <1>1, <2>1, <2>2 DEF BeginsFirst, EndsIteration
<1>10. CentroidsNear(bound, heap')
  <2>1. CASE BeginsFirst(writes)
    <3>1. \A k \in Clusters : heap'[Centroid(k)] = in[k] /\ k \in 0 .. (N - 1)
      <4>1. \A k \in Clusters : k \in 0 .. (N - 1)
        BY LayoutAssumption, Constants DEF Clusters
      <4>2. QED
        BY <1>5, <1>8, <2>1, <4>1 DEF BeginsFirst, PointsAre
    <3>2. \A k \in Clusters : heap'[Centroid(k)] \in Near(bound)
      BY <3>1, InNear
    <3>3. 0 \in Clusters
      BY Constants DEF Clusters
    <3>4. QED
      BY <3>2, <3>3 DEF CentroidsNear
  <2>2. CASE EndsIteration(writes)
    <3> DEFINE mine(k) == Mine(0 .. (N - 1), k, heap)
    <3>1. \A s \in Starts : PartSummed(s, heap)
      BY <2>2 DEF EndsIteration, AllTriggers, ValuesKept, SumsKept
    <3>2. \A k \in Clusters : /\ mine(k) = {} => Means(heap)[Centroid(k)] = Far
                              /\ mine(k) # {} => Means(heap)[Centroid(k)] \in Near(bound)
      BY <1>5, <3>1, MeansAre
    <3>3. \A k \in Clusters : heap'[Centroid(k)] = Means(heap)[Centroid(k)]
      BY <1>8, <2>2 DEF EndsIteration
    <3>4. \E k \in Clusters : mine(k) # {}
      <4>1. 0 \in 0 .. (N - 1)
        BY Constants
      <4>2. heap[Point(0)] = in[0] /\ in[0] \in Near(bound)
        BY <1>5, <4>1, InNear DEF PointsAre
      <4>3. CentroidsNear(bound, heap)
        BY <2>2 DEF EndsIteration, ValuesKept
      <4>4. \A d \in Dims : in[0][d] \in Int /\ \A k \in Clusters : heap[Centroid(k)][d] \in Int
        BY <4>2, <4>3, CentroidsInt, NearFacts
      <4>5. ClusterOf(in[0], heap) \in Clusters
        BY <4>4, ClusterNearest DEF IsNearest
      <4>6. 0 \in mine(ClusterOf(in[0], heap))
        BY <4>1, <4>2 DEF Mine
      <4>7. QED
        BY <4>5, <4>6
    <3> HIDE DEF mine
    <3>5. QED
      BY <3>2, <3>3, <3>4 DEF CentroidsNear
  <2>3. QED
    BY <1>1, <2>1, <2>2
<1>11. QED
  BY <1>7, <1>9, <1>10 DEF ValuesKept

LEMMA ValuesNext ==
  ASSUME NEW bound \in Nat, SmallInputs(bound), KMeansInv, TypeOK, ValuesKept(bound), [Next]_vars
  PROVE  ValuesKept(bound)'
<1>1. in' = in /\ in \in Inputs
  BY DEF Next, Step, ScheduleTask, StartTask, CommitTask, AbortTask, RefuseTask, Idle, vars,
         Unchanged, TypeOK
<1>2. CASE heap' = heap
  BY <1>1, <1>2 DEF ValuesKept, PointsKept, SumsKept, Begun
<1>3. CASE CommitTask
  <2>1. PICK t \in tasks : Commit(t)
    BY <1>3 DEF CommitTask
  <2>2. t.do \in Functions0
    BY DEF TypeOK
  <2>3. CASE t.do \in {"main", "init0", "init_runner_stdin", "init_runner_pmem"}
    BY <1>1, <2>1, <2>3, ReadingKept DEF ValuesKept
  <2>4. CASE t.do = "recluster_runner"
    BY <1>1, <2>1, <2>4, SummingKept
  <2>5. CASE t.do \in {"on_init1_finished", "on_recluster_finished"}
    BY <1>1, <2>1, <2>5, MovingKept
  <2>6. QED
    BY <2>2, <2>3, <2>4, <2>5 DEF Functions0
<1>4. QED
  BY <1>2, <1>3 DEF Next, Step, ScheduleTask, StartTask, AbortTask, RefuseTask, Idle, vars,
                    Schedule, Start, Abort, Refuse

LEMMA ValuesInit ==
  ASSUME NEW bound, Init
  PROVE  ValuesKept(bound)
<1>1. \A l \in Locations : heap[l] = Unset
  BY DEF Init
<1>2. ~Begun /\ \A s \in Starts : heap[Trigger(s)] # 1
  BY <1>1, Places, Constants DEF Begun
<1>3. QED
  BY <1>2 DEF ValuesKept, PointsKept, SumsKept

\* What the tasks compute is right: parts that are done have the sums of their
\* points, centroids are disabled or near the points, and one is not disabled.
THEOREM ValuesRight ==
  ASSUME NEW bound \in Nat, SmallInputs(bound)
  PROVE  Spec => []ValuesKept(bound)
<1>1. ASSUME Init PROVE ValuesKept(bound)
  BY <1>1, ValuesInit
<1>2. KMeansInv /\ TypeOK /\ ValuesKept(bound) /\ [Next]_vars => ValuesKept(bound)'
  BY ValuesNext
<1>3. QED
  BY <1>1, <1>2, InvariantHolds, TypeCorrect, PTL DEF Spec

-----------------------------------------------------------------------------
(***************************************************************************)
(* Refinement.                                                              *)
(***************************************************************************)

\* The first iteration starts from the first K points.
LEMMA BeginStep ==
  ASSUME PointsKept, in' = in, in \in Inputs, NEW writes, BeginsFirst(writes),
         heap'[Iter] = writes[Iter],
         \A k \in Clusters : heap'[Centroid(k)] = writes[Centroid(k)],
         NEW bound \in Nat, SmallInputs(bound)
  PROVE  Sequential!Begin
<1>1. ~Begun /\ heap'[Iter] = 0 /\ 0 # Unset
  BY Constants DEF BeginsFirst
<1>2. PointsAre(heap)
  BY AllRead DEF BeginsFirst
<1>3. \A k \in Clusters : heap'[Centroid(k)] = in[k] /\ k \in 0 .. (N - 1)
  <2>1. \A k \in Clusters : k \in 0 .. (N - 1)
    BY LayoutAssumption, Constants DEF Clusters
  <2>2. QED
    BY <1>2, <2>1 DEF BeginsFirst, PointsAre
<1>4. \A k \in Clusters : CentroidOf(heap'[Centroid(k)]) = in[k]
  BY <1>3, InNear, NearFacts DEF CentroidOf
<1>5. [k \in Clusters |-> CentroidOf(heap'[Centroid(k)])] = [k \in 0 .. (K - 1) |-> in[k]]
  BY <1>4 DEF Clusters
<1>6. QED
  BY <1>1, <1>5 DEF Sequential!Begin, Begun

\* Each further one moves the centroids to the means of their clusters.
LEMMA IterateStep ==
  ASSUME NEW bound \in Nat, SmallInputs(bound), in \in Inputs, ValuesKept(bound), DisabledFar,
         in' = in, NEW writes, EndsIteration(writes), heap'[Iter] = writes[Iter],
         \A k \in Clusters : heap'[Centroid(k)] = writes[Centroid(k)]
  PROVE  Sequential!Iterate
<1> DEFINE all == 0 .. (N - 1)
           old == [k \in Clusters |-> CentroidOf(heap[Centroid(k)])]
           new == [k \in Clusters |-> CentroidOf(heap'[Centroid(k)])]
           clusters == {<<i, Sequential!Nearest(in[i])>> : i \in DOMAIN in}
           Cluster(k) == {c[1] : c \in {d \in clusters : d[2] = k}}
           mine(k) == Mine(all, k, heap)
<1>1. /\ Begun /\ heap[Iter] \in Nat /\ heap[Iter] < MAX_ITER /\ heap'[Iter] = heap[Iter] + 1
      /\ CentroidsNear(bound, heap)
  BY DEF EndsIteration, ValuesKept
<1>2. Begun'
  BY <1>1, Constants DEF Begun
<1>3. PointsAre(heap) /\ \A s \in Starts : PartSummed(s, heap)
  BY <1>1, AllRead DEF EndsIteration, AllTriggers, ValuesKept, SumsKept
<1>4. \A i \in all : in[i] \in Near(bound)
  BY InNear
<1>5. \A i \in all : ClusterOf(heap[Point(i)], heap) = Sequential!Nearest(in[i])
  BY <1>1, <1>3, <1>4, SameCluster DEF PointsAre
<1>6. DOMAIN in = all
  BY DEF SmallInputs
<1>7. \A k : Cluster(k) = mine(k)
  <2>1. ASSUME NEW k PROVE Cluster(k) = {i \in all : Sequential!Nearest(in[i]) = k}
    <3>1. \A i \in all : Sequential!Nearest(in[i]) = k => i \in Cluster(k)
      <4>1. \A i \in all : <<i, Sequential!Nearest(in[i])>> \in clusters
        BY <1>6
      <4>2. \A i : <<i, k>> \in clusters => <<i, k>>[1] \in Cluster(k)
        OBVIOUS
      <4>3. QED
        BY <4>1, <4>2
    <3>2. \A i \in Cluster(k) : i \in all /\ Sequential!Nearest(in[i]) = k
      BY <1>6
    <3> HIDE DEF Cluster
    <3>3. QED
      BY <3>1, <3>2
  <2>2. \A k : mine(k) = {i \in all : Sequential!Nearest(in[i]) = k}
    BY <1>5 DEF Mine
  <2>3. QED
    BY <2>1, <2>2
<1>8. ASSUME NEW k \in Clusters
      PROVE  new[k] = IF mine(k) = {} THEN Disabled ELSE Sequential!Mean(mine(k))
  <2>1. heap'[Centroid(k)] = Means(heap)[Centroid(k)]
    BY DEF EndsIteration
  <2>2. /\ mine(k) = {} => heap'[Centroid(k)] = Far
        /\ mine(k) # {} => /\ heap'[Centroid(k)] = Sequential!Mean(mine(k))
                           /\ heap'[Centroid(k)] \in Near(bound)
    BY <1>3, <2>1, MeansAre
  <2>3. new[k] = CentroidOf(heap'[Centroid(k)])
    OBVIOUS
  <2> HIDE DEF mine, new
  <2>4. QED
    BY <2>2, <2>3, NearFacts DEF CentroidOf
<1>9. DOMAIN old = Clusters /\ DOMAIN new = Clusters /\ 0 \in Clusters
  BY Constants DEF Clusters
<1>10. old # <<>>
  <2>1. DOMAIN <<>> = {}
    OBVIOUS
  <2> HIDE DEF old
  <2>2. QED
    BY <1>9, <2>1
<1>11. new = [k \in DOMAIN old |-> IF Cluster(k) = {} THEN Disabled ELSE Sequential!Mean(Cluster(k))]
  <2>1. new = [k \in Clusters |-> new[k]]
    OBVIOUS
  <2> HIDE DEF new, old, Cluster, mine
  <2>2. QED
    BY <1>7, <1>8, <1>9, <2>1
<1>12. QED
  BY <1>1, <1>2, <1>10, <1>11 DEF Sequential!Iterate

LEMMA LloydStep ==
  ASSUME NEW bound \in Nat, SmallInputs(bound), KMeansInv, TypeOK, ValuesKept(bound), [Next]_vars
  PROVE  [DisabledFar => Sequential!LNext]_(Sequential!lloyd)
<1>1. in' = in /\ in \in Inputs
  BY DEF Next, Step, ScheduleTask, StartTask, CommitTask, AbortTask, RefuseTask, Idle, vars,
         Unchanged, TypeOK
<1>2. ASSUME heap'[Iter] = heap[Iter], \A k \in Clusters : heap'[Centroid(k)] = heap[Centroid(k)]
      PROVE  UNCHANGED Sequential!lloyd
  BY <1>1, <1>2 DEF Sequential!lloyd, Begun
<1>3. CASE heap' = heap
  BY <1>2, <1>3
<1>4. CASE CommitTask
  <2>1. PICK t \in tasks : Commit(t)
    BY <1>4 DEF CommitTask
  <2> DEFINE writes == t.end.writes
  <2>2. heap' = Over(writes, heap)
    BY <2>1, CommitFacts
  <2>3. CASE t.do \in {"on_init1_finished", "on_recluster_finished"}
    <3>1. /\ DOMAIN writes \subseteq Locations
          /\ {Centroid(k) : k \in Clusters} \cup {Iter} \subseteq DOMAIN writes
          /\ BeginsFirst(writes) \/ EndsIteration(writes)
      BY <2>1, <2>3, WatcherWrites, Places
    <3> HIDE DEF writes
    <3>2. \A x \in DOMAIN writes : heap'[x] = writes[x]
      BY <2>2, <3>1, HeapWritten DEF KMeansInv
    <3>3. heap'[Iter] = writes[Iter] /\ \A k \in Clusters : heap'[Centroid(k)] = writes[Centroid(k)]
      BY <3>1, <3>2
    <3>4. CASE BeginsFirst(writes)
      BY <1>1, <3>3, <3>4, BeginStep DEF ValuesKept, Sequential!LNext
    <3>5. CASE EndsIteration(writes)
      BY <1>1, <3>3, <3>5, IterateStep DEF Sequential!LNext
    <3>6. QED
      BY <3>1, <3>4, <3>5
  <2>4. CASE t.do \notin {"on_init1_finished", "on_recluster_finished"}
    <3>1. /\ DOMAIN writes \subseteq Locations /\ Iter \notin DOMAIN writes
          /\ \A k : Centroid(k) \notin DOMAIN writes
      BY <2>1, <2>4, OtherWrites
    <3> HIDE DEF writes
    <3>2. \A x \in Locations : x \notin DOMAIN writes => heap'[x] = heap[x]
      BY <2>2, <3>1, HeapWritten DEF KMeansInv
    <3>3. heap'[Iter] = heap[Iter] /\ \A k \in Clusters : heap'[Centroid(k)] = heap[Centroid(k)]
      BY <3>1, <3>2, Places
    <3>4. QED
      BY <1>2, <3>3
  <2>5. QED
    BY <2>3, <2>4
<1>5. QED
  BY <1>3, <1>4 DEF Next, Step, ScheduleTask, StartTask, AbortTask, RefuseTask, Idle, vars,
                    Schedule, Start, Abort, Refuse

\* The committed centroids are Lloyd's: each commit is one of his steps, or
\* changes no centroid, for inputs that do not overflow, from every state in
\* which no disabled centroid is nearer to a point than one that is not.
THEOREM LloydComputed ==
  ASSUME NEW bound \in Nat, SmallInputs(bound)
  PROVE  Spec => Sequential!LInit /\ [][DisabledFar => Sequential!LNext]_(Sequential!lloyd)
<1>1. ASSUME Init PROVE Sequential!LInit
  <2>1. ~Begun
    BY <1>1, Places DEF Init, Begun
  <2>2. QED
    BY <2>1 DEF Sequential!LInit
<1>2. KMeansInv /\ TypeOK /\ ValuesKept(bound) /\ [Next]_vars
        => [DisabledFar => Sequential!LNext]_(Sequential!lloyd)
  BY LloydStep
<1>3. Spec => []KMeansInv /\ []TypeOK /\ []ValuesKept(bound)
  BY InvariantHolds, TypeCorrect, ValuesRight, PTL
<1>4. QED
  BY <1>1, <1>2, <1>3, PTL DEF Spec

=============================================================================
