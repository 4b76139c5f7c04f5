------------------------------- MODULE KMeans -------------------------------
(***************************************************************************)
(* k-means clustering as a program of runners and watchers                 *)
(* (apps/kmeans/L0).  Runners read the points; a watcher of the triggers    *)
(* starts the first iteration when all parts are there; a runner for each   *)
(* part then adds up the points of each cluster, and a watcher of the       *)
(* triggers moves the centroids and starts the next iteration, which        *)
(* resets the triggers it watches.                                         *)
(*                                                                         *)
(* x, y, z and w have the same indices and are one array of points, so are  *)
(* cx to cw and lcx to lcw.                                                *)
(***************************************************************************)
EXTENDS Integers, Functions, L0

CONSTANTS
  N,            \* points
  PSIZE,        \* points of a part
  K,            \* clusters
  MAX_ITER,
  Dims,         \* the coordinates of a point: x, y, z and w
  Half,         \* 2^63: a long is one of the 2 * Half integers around 0
  Inputs,       \* the lists of points to choose from
  Programs,     \* kmeans-stdin and kmeans-from-pmem
  Unset,        \* what a location holds that nobody has written
  Disabled      \* a centroid that is none

ASSUME LayoutAssumption ==
  /\ N \in Nat \ {0} /\ PSIZE \in Nat \ {0} /\ K \in Nat \ {0}
  /\ N % PSIZE = 0 /\ K <= N
  /\ PSIZE % N_LONG_PAGE = 0 \/ PSIZE = N

ASSUME KMeansAssumption ==
  /\ MAX_ITER \in Nat \ {0}
  /\ Half \in Nat \ {0} /\ Half % 32 = 0
  /\ Programs \subseteq {"kmeans-stdin", "kmeans-from-pmem"}
  /\ IsFiniteSet(Dims) /\ Dims # {}
  /\ Inputs \subseteq [0 .. (N - 1) -> [Dims -> -Half .. (Half - 1)]]
  /\ Unset \notin Int \cup [Dims -> Int] /\ Disabled \notin [Dims -> Int]

VARIABLES
  program,      \* the program that was started
  in            \* its input

vars == <<program, in, heap, tasks, watchers>>

-----------------------------------------------------------------------------
(* Indices.  Parts run concurrently and must not meet in a page: part p     *)
(* keeps its trigger N_LONG_PAGE longs from the next one's, and its K sums  *)
(* K + N_LONG_PAGE longs from the next one's.                              *)

Parts == 0 .. (N \div PSIZE - 1)
Clusters == 0 .. (K - 1)

(* for(i = 0; i < N; i = i + PSIZE): a part is known by its first point.   *)
Starts == {p * PSIZE : p \in Parts}

TriggerUnpadded(start) == start \div PSIZE    \* mutant

(* trigger[start/PSIZE*N_LONG_PAGE]                                        *)
TriggerIndex(start) == (start \div PSIZE) * N_LONG_PAGE

(* &lcx[(K+N_LONG_PAGE)*partid], as the runner and the watcher compute it.  *)
LocalIndex(start, k) == (K + N_LONG_PAGE) * (start \div PSIZE) + k

-----------------------------------------------------------------------------
(* Arithmetic of long                                                      *)

Wrap(n) == ((n + Half) % (2 * Half)) - Half

Quotient(m, n) == IF m >= 0 THEN m \div n ELSE -((-m) \div n)

(* 0x7FFFFFFFFFFFFFF: fifteen digits, 2^59 - 1 in a word of 64 bits.       *)
Far == [d \in Dims |-> Half \div 16 - 1]

Distance(p, c) ==
  Wrap(SumFunction([d \in Dims |-> Wrap(Wrap(p[d] - c[d]) * Wrap(p[d] - c[d]))]))

-----------------------------------------------------------------------------
(* Locations and what a snapshot holds at them                             *)

Point(i) == <<"x", i>>
Centroid(k) == <<"cx", k>>
Sum(start, k) == <<"lcx", LocalIndex(start, k)>>
Count(start, k) == <<"lcn", LocalIndex(start, k)>>
Trigger(start) == <<"trigger", TriggerIndex(start)>>
Iter == <<"iter", 0>>

Locations ==
  {Point(i) : i \in 0 .. (N - 1)} \cup {Centroid(k) : k \in Clusters}
    \cup {Sum(s, k) : s \in Starts, k \in Clusters}
    \cup {Count(s, k) : s \in Starts, k \in Clusters}
    \cup {Trigger(s) : s \in Starts} \cup {Iter}

AllTriggers(view, value) == \A s \in Starts : view[Trigger(s)] = value
SetTriggers(starts, value) == [l \in {Trigger(s) : s \in starts} |-> value]
PointsOf(start, size) ==
  [l \in {Point(i) : i \in start .. (start + size - 1)} |-> in[l[2]]]

-----------------------------------------------------------------------------
(* The tasks                                                               *)

Main == Ends("commit", NoWrites, {Task("init0", 0)}, {})

Init0 ==
  Ends("commit", SetTriggers(Starts, 0),
          IF program = "kmeans-stdin" THEN {Task("init_runner_stdin", 0)}
          ELSE {Task("init_runner_pmem", s) : s \in Starts},
          {Watcher("on_init1_finished", 0, "trigger")})

InitRunnerStdin ==
  Ends("commit", Over(PointsOf(0, N), SetTriggers(Starts, 1)), {}, {})

InitRunnerPmem(start) ==
  Ends("commit", Over(PointsOf(start, PSIZE), SetTriggers({start}, 1)), {}, {})

StartWithoutReset(writes) ==      \* mutant
  Ends("commitd", writes,
       {Task("recluster_runner", s) : s \in Starts},
       {Watcher("on_recluster_finished", writes[Iter], "trigger")})

(* start_iteration(), called when the caller has written writes.           *)
StartIteration(writes) ==
  Ends("commitd", Over(SetTriggers(Starts, 0), writes),
          {Task("recluster_runner", s) : s \in Starts},
          {Watcher("on_recluster_finished", writes[Iter], "trigger")})

OnInit1Finished(view) ==
  IF ~AllTriggers(view, 1) THEN Aborts("abort")
  ELSE StartIteration(
         Over([l \in {Centroid(k) : k \in Clusters} |-> view[Point(l[2])]],
              Over(Holds(Iter, 0), Holds(Trigger(0), 3))))

(* The distances of a point to the centroids.                              *)
Distances(p, view) == {<<Distance(p, view[Centroid(k)]), k>> : k \in Clusters}

NearestLast(dist) ==      \* mutant
  LET IsLast(m) == \A o \in dist : m[1] < o[1] \/ (m[1] = o[1] /\ m[2] >= o[2])
  IN (CHOOSE m \in dist : IsLast(m))[2]

(* The loop over the centroids: the first of the nearest ones.             *)
Nearest(dist) ==
  LET IsFirst(m) == \A o \in dist : m[1] < o[1] \/ (m[1] = o[1] /\ m[2] <= o[2])
  IN (CHOOSE m \in dist : IsFirst(m))[2]

(* What recluster_runner goes through: the points of a part, each with its  *)
(* cluster.                                                                *)
Minis(view, start) ==
  {<<view[Point(i)], Nearest(Distances(view[Point(i)], view)), i>> :
     i \in start .. (start + PSIZE - 1)}

(* The sums and the counts, and that the part is done.                     *)
PartWrites(start, mini) ==
  LET Members(k) == {m \in mini : m[2] = k}
      Total(k) == [d \in Dims |-> Wrap(SumFunction([m \in Members(k) |-> m[1][d]]))]
      First == LocalIndex(start, 0)
  IN Over([l \in {Sum(start, k) : k \in Clusters} |-> Total(l[2] - First)],
          Over([l \in {Count(start, k) : k \in Clusters} |->
                  Cardinality(Members(l[2] - First))],
               SetTriggers({start}, 2)))

ReclusterRunner(view, start) ==
  Ends("commitd", PartWrites(start, Minis(view, start)), {}, {})

(* The new centroids, out of every part's sums.                            *)
Means(view) ==
  LET npt(k) == SumFunction([s \in Starts |-> view[Count(s, k)]])
      sum(k, d) == Wrap(SumFunction([s \in Starts |-> view[Sum(s, k)][d]]))
  IN [l \in {Centroid(k) : k \in Clusters} |->
        IF npt(l[2]) = 0 THEN Far
        ELSE [d \in Dims |-> Quotient(sum(l[2], d), npt(l[2]))]]

IterateOnceMore(view) ==      \* mutant
  LET next == Over(Means(view), Holds(Iter, view[Iter] + 1))
  IN IF view[Iter] + 1 <= MAX_ITER THEN StartIteration(next)
     ELSE Ends("commitd", next, {}, {})

StayWatching(view) ==      \* mutant
  LET next == Over(Means(view), Holds(Iter, view[Iter] + 1))
  IN IF view[Iter] + 1 < MAX_ITER THEN StartIteration(next)
     ELSE Ends("commit", next, {}, {})

(* The end of the iteration, when the watcher does not abort.              *)
FinishIteration(view) ==
  LET next == Over(Means(view), Holds(Iter, view[Iter] + 1))
  IN IF view[Iter] + 1 < MAX_ITER THEN StartIteration(next)
     ELSE Ends("commitd", next, {}, {})

OnReclusterFinished(view, expected_iter) ==
  CASE expected_iter < view[Iter] -> Aborts("abortd")
    [] expected_iter > view[Iter] -> Aborts("abort")
    [] expected_iter = view[Iter] /\ ~AllTriggers(view, 2) -> Aborts("abort")
    [] OTHER -> FinishIteration(view)

(* The body of task t, run on a view.                                      *)
Body(t, view) ==
  CASE t.do = "main" -> Main
    [] t.do = "init0" -> Init0
    [] t.do = "init_runner_stdin" -> InitRunnerStdin
    [] t.do = "init_runner_pmem" -> InitRunnerPmem(t.arg)
    [] t.do = "on_init1_finished" -> OnInit1Finished(view)
    [] t.do = "recluster_runner" -> ReclusterRunner(view, t.arg)
    [] t.do = "on_recluster_finished" -> OnReclusterFinished(view, t.arg)

-----------------------------------------------------------------------------

Init ==
  /\ program \in Programs
  /\ in \in Inputs
  /\ heap = [l \in Locations |-> Unset]
  /\ tasks = {Task("main", 0)}
  /\ watchers = {}

Unchanged == UNCHANGED <<program, in>>
ScheduleTask == \E t \in tasks : Schedule(t) /\ Unchanged
StartTask == \E t \in tasks : Start(t, Body(t, heap)) /\ Unchanged
CommitTask == \E t \in tasks : Commit(t) /\ Unchanged
AbortTask == \E t \in tasks : Abort(t) /\ Unchanged
RefuseTask == \E t \in tasks : Refuse(t) /\ Unchanged
Idle == tasks = {} /\ UNCHANGED vars

Step == ScheduleTask \/ StartTask \/ CommitTask \/ AbortTask \/ RefuseTask
Next == Step \/ Idle

(* The runtime runs the tasks it has.                                      *)
Spec == Init /\ [][Next]_vars /\ WF_vars(Step)

-----------------------------------------------------------------------------
(* Properties                                                              *)

Functions0 == {"main", "init0", "init_runner_stdin", "init_runner_pmem",
               "on_init1_finished", "recluster_runner", "on_recluster_finished"}
Vectors == [Dims -> -Half .. (Half - 1)]
Runners == {t \in tasks : t.do \notin {"on_init1_finished", "on_recluster_finished"}}

Typed(l, value) ==
  CASE l[1] = "trigger" -> value \in 0 .. 3
    [] l[1] = "iter" -> value \in 0 .. MAX_ITER
    [] l[1] = "lcn" -> value \in 0 .. PSIZE
    [] OTHER -> value \in Vectors

(* Every location holds nothing yet or a value of its type; iter never      *)
(* passes MAX_ITER.                                                        *)
TypeOK ==
  /\ program \in Programs /\ in \in Inputs
  /\ DOMAIN heap = Locations
  /\ \A l \in Locations : heap[l] = Unset \/ Typed(l, heap[l])
  /\ \A t \in tasks : t.do \in Functions0 /\ t.arg \in Nat

(* The runners of the parts never meet in a page (the padding of trigger    *)
(* and of lcx .. lcn, and PSIZE): whatever has been committed meanwhile, no  *)
(* runner's commit is refused.                                             *)
PartsApart == \A t \in Runners : ~Refused(t)

(* The protocol of the triggers: while an iteration runs, a part's trigger  *)
(* is 0 exactly as long as its runner is not done, and there is one such    *)
(* runner, however often the watcher has been started.                     *)
OneRunnerPerPart ==
  heap[Iter] # Unset =>
    /\ \A s \in Starts :
         Cardinality({t \in Runners : t.arg = s}) = IF heap[Trigger(s)] = 0 THEN 1 ELSE 0
    /\ \A t \in Runners : t.do = "recluster_runner" /\ t.arg \in Starts

(* A commit that is not refused does what the task would do on the heap as  *)
(* it is now: sums of an iteration that is over, or a second watcher of the *)
(* same iteration, never get in ("iter is a guard to avoid multiple tasks   *)
(* for the same expected_iter commit successfully").                       *)
CommitsAreCurrent ==
  \A t \in tasks : Runs(t) /\ Commits(t.end) /\ ~Refused(t)
                   => Body(t, heap) = t.end

(* The inductive invariant.  The heap and the tasks have their shape:       *)
HeapKept == heap = [l \in Locations |-> heap[l]]
TasksKept ==
  \A t \in tasks : IsTask(t) /\ t.arg \in Nat /\ (Runs(t) \/ t.missed = {})

(* before init0 commits there is one task and nothing is written;           *)
Prologue ==
  /\ AllTriggers(heap, Unset) /\ heap[Iter] = Unset
  /\ watchers = {}
  /\ \E t \in tasks : tasks = {t} /\ t.do \in {"main", "init0"}

(* from then on, first the parts are read and then iterations run: a part's *)
(* trigger is 0 as long as a runner, and only one, has the part to do, and  *)
(* only watchers that can act on the triggers as they are watch them.       *)
Begun == heap[Iter] # Unset
Done == IF Begun THEN 2 ELSE 1
PartsOf(t) == IF t.do = "init_runner_stdin" THEN Starts ELSE {t.arg}
CanRun == IF Begun THEN {"recluster_runner"} ELSE {"init_runner_stdin", "init_runner_pmem"}
CanWatch == IF Begun THEN {"on_init1_finished", "on_recluster_finished"}
            ELSE {"on_init1_finished"}
PartsServed ==
  \A s \in Starts :
    /\ heap[Trigger(s)] \in {0, Done}
    /\ heap[Trigger(s)] = 0 <=> \E t \in Runners : s \in PartsOf(t)
RunnersFit ==
  /\ \A t \in Runners : t.do \in CanRun /\ PartsOf(t) \subseteq Starts
  /\ \A t, u \in Runners : PartsOf(t) \cap PartsOf(u) # {} => t = u
WatchersFit ==
  /\ \A t \in tasks \ Runners : t.do \in CanWatch /\ t.arg < MAX_ITER
  /\ \A w \in watchers : w.do \in CanWatch /\ w.arg \in 0 .. (MAX_ITER - 1)
IterInRange == Begun => heap[Iter] \in 0 .. MAX_ITER
Underway == IterInRange /\ PartsServed /\ RunnersFit /\ WatchersFit

(* A runner that runs will write what it would write now.                   *)
RunnersCurrent == \A t \in Runners : Runs(t) => t.end = Body(t, heap)

KMeansInv ==
  HeapKept /\ TasksKept /\ (Prologue \/ Underway) /\ RunnersCurrent
    /\ PartsApart /\ CommitsAreCurrent

(* What a task may read has been written: the points of a part when its     *)
(* trigger is 1, the sums when it is 2, the centroids when iterations run.  *)
ReadsWritten ==
  /\ \A s \in Starts :
       /\ heap[Trigger(s)] = 1 => \A i \in s .. (s + PSIZE - 1) : heap[Point(i)] # Unset
       /\ heap[Trigger(s)] = 2 =>
            \A k \in Clusters : heap[Sum(s, k)] # Unset /\ heap[Count(s, k)] # Unset
  /\ Begun => /\ \A i \in 0 .. (N - 1) : heap[Point(i)] # Unset
              /\ \A k \in Clusters : heap[Centroid(k)] # Unset

(* The program ends: MAX_ITER iterations are done, no task is left and no   *)
(* watcher watches on.                                                     *)
ComesToRest == <>[](heap[Iter] = MAX_ITER /\ tasks = {} /\ watchers = {})

(* The committed centroids and iter are those of Lloyd's algorithm.         *)
CentroidOf(c) == IF c = Far THEN Disabled ELSE c
Sequential == INSTANCE Lloyd WITH
  points <- in,
  centroid <- IF Begun THEN [k \in Clusters |-> CentroidOf(heap[Centroid(k)])]
              ELSE <<>>,
  iter <- IF Begun THEN heap[Iter] ELSE 0
ImplementsLloyd == Sequential!LSpec

(* Where they must be: no distance between points overflows, nor the sum of  *)
(* all, and none is as far away as a disabled centroid;                     *)
SmallInputs(bound) ==
  /\ Inputs \subseteq [0 .. (N - 1) -> [Dims -> -bound .. bound]]
  /\ Cardinality(Dims) * (2 * bound * (2 * bound)) < Half
  /\ N * bound < Half
  /\ bound < Half \div 16 - 1

(* and no point is nearer to a disabled centroid than to another one, though *)
(* the distance to it does overflow.                                        *)
DisabledFar == Begun =>
  \A i \in 0 .. (N - 1) : \A k, disabled \in Clusters :
    heap[Centroid(k)] # Far /\ heap[Centroid(disabled)] = Far =>
      Distance(in[i], heap[Centroid(k)]) < Distance(in[i], Far)

=============================================================================
