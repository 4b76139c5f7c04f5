------------------------------ MODULE PageRank -------------------------------
(***************************************************************************)
(* PageRank as a program of runners and watchers                           *)
(* (apps/pagerank/pagerank-frompmem.c0), run when pagerank-stdin2pmem has   *)
(* put the graph into persistent memory.  In every iteration a task         *)
(* creates a runner for each part of the vertices and a watcher of their    *)
(* status, the barrier; the runners read the last ranks from the phasing    *)
(* cache and write new ones to it, the barrier starts the next iteration.   *)
(*                                                                         *)
(* Not in the repository: the phasing cache (pc_write, pc_sync, pc_get: a   *)
(* value for a version and an address, seen by others once the version is   *)
(* synchronised; writes do not wait for the commit) and the sticky memory   *)
(* of a space, which outlives the tasks that run in the space.             *)
(***************************************************************************)
EXTENDS PageRankInput

CONSTANTS
  MAX_ITER,
  PR_alpha, PR_initial,
  cnt           \* build_partitions: how many vertices each task ranks

ASSUME PageRankAssumption ==
  /\ MAX_ITER \in Nat /\ PR_alpha \in 0 .. Scale /\ PR_initial \in Nat
  /\ cnt \in Seq(Nat \ {0}) /\ cnt # <<>>

(* The numbers of cnt are those of one graph: together its vertices.       *)
ASSUME PartitionsFit ==
  \A in \in Inputs : Accumulated(cnt)[Len(cnt)] = CountOf(Edges(in))

VARIABLES
  program,      \* the program that was started last
  in,           \* what stdin held
  sticky,       \* of each task's space: what it has copied, <<>> at first
  written,      \* phasing cache: <<version, vertex>> -> value
  synced,       \* the part of it others can see
  printed       \* what topk ranks the vertices by

vars == <<program, in, sticky, written, synced, printed, heap, tasks, watchers>>

TASK_STATUS_CREATED == 0
TASK_STATUS_FINISHED == 1
BEGIN == 0
END == 1
IN_BEGIN == 2
IN_END == 3

Ids == 0 .. (Len(cnt) - 1)
Status(id) == <<"task_status", id * N_LONG_PAGE>>
Partition(id, offset) == <<"partitions", id * 4 + offset>>
Iter == <<"iter", 0>>
Count == <<"vertices_cnt", 0>>

Locations ==
  GraphLocations \cup {Status(id) : id \in Ids} \cup {Iter, Count}
    \cup {Partition(id, o) : id \in Ids, o \in BEGIN .. IN_END}

(* Memory that nobody has written holds 0.                                 *)
Blank == [l \in Locations |-> 0]
Read(memory, l) == IF l \in DOMAIN memory THEN memory[l] ELSE 0

Times(x, y) == (x * y) \div Scale
DividedBy(x, y) == (x * Scale) \div y

-----------------------------------------------------------------------------
(* Phasing cache                                                           *)

Synchronised(version) ==
  Over([w \in {u \in DOMAIN written : u[1] = version} |-> written[w]], synced)
PcGet(cache, version, v) == Read(cache, <<version, v>>)

-----------------------------------------------------------------------------
(* init_task: a partition of the vertices, and of the lists of their        *)
(* in-neighbors.                                                           *)

RangeEndAtLast(view, first, past) ==      \* mutant
  << view[Vertex(first, IN_NEIGHBORS)], view[Vertex(past - 1, IN_NEIGHBORS)] >>

(* _get_in_neighbors_range                                                 *)
InNeighborsRange(view, first, past) ==
  << view[Vertex(first, IN_NEIGHBORS)],
     view[Vertex(past - 1, IN_NEIGHBORS)] + view[Vertex(past - 1, INDEGREE)] >>

BuildPartitions(view) ==
  LET cur == Accumulated(cnt)
      Entries(id) == << cur[id], cur[id + 1] >>
                       \o InNeighborsRange(view, cur[id], cur[id + 1])
  IN [l \in {Partition(id, o) : id \in Ids, o \in BEGIN .. IN_END} |->
        Entries(l[2] \div 4)[(l[2] % 4) + 1]]

InitTask(view) ==
  Ends("commit",
       Over(BuildPartitions(view),
            Over(Holds(Iter, 0), Holds(Count, view[VerticesCnt]))),
       {Task("new_iter_task", 0)}, {})

-----------------------------------------------------------------------------
(* new_iter_task                                                           *)

Barrier(iter) == Watcher("barrier_task", iter, "task_status")
CalcTasks == {Task("calc_task", id) : id \in Ids}

NewIterTask(view) ==
  Ends("commit", [l \in {Status(id) : id \in Ids} |-> TASK_STATUS_CREATED],
       CalcTasks, {Barrier(view[Iter])})

SyncNever(view) == synced      \* mutant

SyncForIteration(view) ==
  IF view[Iter] > 0 THEN Synchronised(view[Iter]) ELSE synced

-----------------------------------------------------------------------------
(* calc_task                                                               *)

(* The graph is among what the task uses in the first iteration only.      *)
Snapshot(view) ==
  IF view[Iter] = 0 THEN view
  ELSE [l \in DOMAIN view \ GraphLocations |-> view[l]]

(* What the memcpy take: a vertex and a neighbor more than the range.      *)
Copied(view, id) ==
  LET first == Vertex(view[Partition(id, BEGIN)], INDEGREE)[2]
      last == Vertex(view[Partition(id, END)], IN_NEIGHBORS)[2]
  IN {<<"vertices", j>> : j \in first .. last}
       \cup {Neighbor(j) : j \in view[Partition(id, IN_BEGIN)]
                                  .. view[Partition(id, IN_END)]}

Cached(view, id) ==
  IF sticky[id] # <<>> THEN sticky[id]
  ELSE [l \in Copied(view, id) |-> Read(Snapshot(view), l)]

VerticesOf(view, id) == view[Partition(id, BEGIN)] .. (view[Partition(id, END)] - 1)

NeighborsOf(graph, v) ==
  LET n_begin == Read(graph, Vertex(v, IN_NEIGHBORS))
  IN [j \in 1 .. Read(graph, Vertex(v, INDEGREE)) |-> Neighbor(n_begin + j - 1)]

(* The new value of v: its rank over its outdegree.                        *)
NewValue(graph, iter, v) ==
  LET inherited == Total([n \in DOMAIN NeighborsOf(graph, v) |->
                            PcGet(synced, iter, Read(graph, NeighborsOf(graph, v)[n]))])
      new_pr == IF iter = 0 THEN PR_initial
                ELSE PR_alpha + Times(inherited, Scale - PR_alpha)
  IN Times(new_pr, Read(graph, Vertex(v, OUTDEGREE)))

ReuseVersions(view, id) ==      \* mutant
  LET graph == Cached(view, id)
  IN [w \in {<<(view[Iter] + 1) % 2, v>> : v \in VerticesOf(view, id)} |->
        NewValue(graph, view[Iter], w[2])]

PcWrites(view, id) ==
  LET graph == Cached(view, id)
  IN [w \in {<<view[Iter] + 1, v>> : v \in VerticesOf(view, id)} |->
        NewValue(graph, view[Iter], w[2])]

CalcTask(id) == Ends("commit", Holds(Status(id), TASK_STATUS_FINISHED), {}, {})

-----------------------------------------------------------------------------
(* barrier_task                                                            *)

OnceMore(iter) ==      \* mutant
  Ends("commitd", Holds(Iter, iter),
       {Task(IF iter > MAX_ITER + 1 THEN "topk" ELSE "new_iter_task", 0)}, {})

(* All tasks have finished: iter has been incremented.                     *)
Proceed(iter) ==
  Ends("commitd", Holds(Iter, iter),
       {Task(IF iter = MAX_ITER + 1 THEN "topk" ELSE "new_iter_task", 0)}, {})

AllFinished(view) == \A id \in Ids : view[Status(id)] = TASK_STATUS_FINISHED

BarrierTask(view, cur_iter) ==
  CASE cur_iter # view[Iter] -> Aborts("abortd")
    [] cur_iter = view[Iter] /\ ~AllFinished(view) -> Aborts("abort")
    [] OTHER -> Proceed(view[Iter] + 1)

-----------------------------------------------------------------------------
(* topk: the values are divided by 1/outdegree again.                      *)

ValueRanked(view, cache, v) ==
  DividedBy(PcGet(cache, MAX_ITER + 1, v), view[Vertex(v, OUTDEGREE)])

Body(t, view) ==
  CASE t.do = "main" -> Ends("commit", NoWrites,
         {Task(IF program = "pagerank-stdin2pmem" THEN "init" ELSE "init_task", 0)}, {})
    [] t.do = "init" -> InitGraph(in, view)
    [] t.do = "shuffle" -> Shuffle(t.arg, view)
    [] t.do = "init_task" -> InitTask(view)
    [] t.do = "new_iter_task" -> NewIterTask(view)
    [] t.do = "calc_task" -> CalcTask(t.arg)
    [] t.do = "barrier_task" -> BarrierTask(view, t.arg)
    [] t.do = "topk" -> Ends("commit", NoWrites, {}, {})

-----------------------------------------------------------------------------

Init ==
  /\ program = "pagerank-stdin2pmem"
  /\ in \in Inputs
  /\ sticky = [id \in Ids |-> <<>>]
  /\ written = <<>> /\ synced = <<>>
  /\ printed = <<>>
  /\ heap = Blank
  /\ tasks = {Task("main", 0)}
  /\ watchers = {}

Outside == <<sticky, written, synced, printed>>
Unchanged == UNCHANGED <<program, in>>

RunPageRank ==
  /\ program = "pagerank-stdin2pmem" /\ tasks = {}
  /\ program' = "pagerank-frompmem"
  /\ tasks' = {Task("main", 0)}
  /\ UNCHANGED <<in, heap, watchers, Outside>>

ScheduleTask == \E t \in tasks : Schedule(t) /\ Unchanged /\ UNCHANGED Outside

(* What a task does besides its commit, it does while it runs.             *)
StartTask(t) == Start(t, Body(t, heap)) /\ Unchanged

StartCalc == \E t \in tasks :
  /\ t.do = "calc_task" /\ StartTask(t)
  /\ sticky' = [sticky EXCEPT ![t.arg] = Cached(heap, t.arg)]
  /\ written' = Over(PcWrites(heap, t.arg), written)
  /\ UNCHANGED <<synced, printed>>

StartNewIter == \E t \in tasks :
  /\ t.do = "new_iter_task" /\ StartTask(t)
  /\ synced' = SyncForIteration(heap)
  /\ UNCHANGED <<sticky, written, printed>>

StartTopK == \E t \in tasks :
  /\ t.do = "topk" /\ StartTask(t)
  /\ synced' = Synchronised(MAX_ITER + 1)
  /\ printed' = [v \in 0 .. (heap[Count] - 1) |-> ValueRanked(heap, synced', v)]
  /\ UNCHANGED <<sticky, written>>

StartOther == \E t \in tasks :
  /\ t.do \notin {"calc_task", "new_iter_task", "topk"} /\ StartTask(t)
  /\ UNCHANGED Outside

CommitTask == \E t \in tasks : Commit(t) /\ Unchanged /\ UNCHANGED Outside
AbortTask == \E t \in tasks : Abort(t) /\ Unchanged /\ UNCHANGED Outside
RefuseTask == \E t \in tasks : Refuse(t) /\ Unchanged /\ UNCHANGED Outside
Idle == program = "pagerank-frompmem" /\ tasks = {} /\ UNCHANGED vars

Step == ScheduleTask \/ StartCalc \/ StartNewIter \/ StartTopK \/ StartOther
          \/ CommitTask \/ AbortTask \/ RefuseTask \/ RunPageRank
Next == Step \/ Idle

(* The runtime runs the tasks it has, the user both programs.              *)
Spec == Init /\ [][Next]_vars /\ WF_vars(Step)

-----------------------------------------------------------------------------
(* Properties                                                              *)

Doing(do) == {t \in tasks : t.do = do}
Counted == 0 .. (CountOf(Edges(in)) - 1)

(* Values are cached for the versions and vertices there are, and others    *)
(* see of them what was written.                                           *)
CacheTyped ==
  /\ \A w \in DOMAIN written :
       /\ w \in (1 .. (MAX_ITER + 1)) \X (0 .. (heap[Count] - 1))
       /\ written[w] \in Nat
  /\ \A w \in DOMAIN synced : w \in DOMAIN written /\ synced[w] = written[w]

(* A space has a copy of what the memory still holds, or none.             *)
CopiesTyped ==
  /\ DOMAIN sticky = Ids
  /\ \A id \in Ids : \A l \in DOMAIN sticky[id] :
       sticky[id][l] \in Nat /\ sticky[id][l] = Read(heap, l)

(* A task that calculates finds a value for every vertex that is counted.  *)
Complete(version, cache) == \A v \in Counted : <<version, v>> \in DOMAIN cache
ReadsWritten ==
  Doing("calc_task") # {} /\ heap[Iter] > 0 => Complete(heap[Iter], synced)

(* Every location, every cached value and every copy is of its type, tasks  *)
(* have a part, and none reads in the cache what nobody has written.       *)
TypeOK ==
  /\ heap \in [Locations -> Nat]
  /\ heap[Iter] \in 0 .. (MAX_ITER + 1)
  /\ \A id \in Ids : heap[Status(id)] \in {TASK_STATUS_CREATED, TASK_STATUS_FINISHED}
  /\ \A t \in Doing("calc_task") : t.arg \in Ids
  /\ CacheTyped /\ CopiesTyped /\ ReadsWritten

(* From the commit of init on, the graph in persistent memory is that of    *)
(* the edges read: also while and after the three shuffles write it again,  *)
(* two of them the same pages.                                             *)
GraphStored ==
  \/ program = "pagerank-stdin2pmem" /\ Doing("main") \cup Doing("init") # {}
  \/ Represents(heap, Edges(in))

(* What a task reads of the graph in later iterations, when the graph is    *)
(* not in its snapshot, is among what its space copied in the first one.   *)
CacheSuffices ==
  \A id \in Ids : sticky[id] # <<>> =>
    \A v \in VerticesOf(heap, id) :
      \A l \in Range(NeighborsOf(heap, v))
                 \cup {Vertex(v, o) : o \in {INDEGREE, OUTDEGREE, IN_NEIGHBORS}} :
        l \in DOMAIN sticky[id] /\ sticky[id][l] = heap[l]

(* Writes to the phasing cache take effect at once and are not undone: no   *)
(* task, late or run again, changes a value that is there.                 *)
WrittenOnce ==
  [][\A w \in DOMAIN written : w \in DOMAIN written' /\ written'[w] = written[w]]_vars

(* What every vertex gave in the last iteration that is over.              *)
Iterates == INSTANCE PowerIteration WITH
  Unranked <- 0,
  edges <- Edges(in),
  ranked <- Counted,
  given <- IF heap[Iter] = 0 THEN <<>>
           ELSE [v \in Counted |-> written[<<heap[Iter], v>>]],
  iter <- heap[Iter],
  printed <- printed

(* The inductive invariant.  Runners are the tasks that are not the barrier; *)
(* what one that runs will write is what it would write now.               *)
Runners == {t \in tasks : t.do # "barrier_task"}
TasksKept ==
  /\ \A t \in tasks : IsTask(t) /\ (Runs(t) \/ t.missed = {})
  /\ \A t \in Runners : Runs(t) => t.end = Body(t, heap)

(* The first program reads the graph and then, while the shuffles run, the  *)
(* memory holds it; so it does when the second one begins.                 *)
Loaded == Over(GraphOf(Edges(in), Blank), Blank)
NothingDone ==
  /\ watchers = {} /\ sticky = [id \in Ids |-> <<>>]
  /\ written = <<>> /\ synced = <<>> /\ printed = <<>>
Alone(dos) == \E t \in tasks : tasks = {t} /\ t.do \in dos /\ t.missed = {}
Inputting ==
  /\ program = "pagerank-stdin2pmem" /\ NothingDone
  /\ \/ heap = Blank /\ Alone({"main", "init"})
     \/ heap = Loaded /\ \A t \in tasks : t.do = "shuffle" /\ t.arg \in 0 .. 2
SettingUp ==
  /\ program = "pagerank-frompmem" /\ NothingDone
  /\ heap = Loaded /\ Alone({"main", "init_task"})

(* Then iterations run on it; only the shuffles meet in a page.            *)
GraphKept ==
  /\ heap = [l \in Locations |-> heap[l]]
  /\ \A l \in GraphLocations : heap[l] = Loaded[l]
  /\ \A id \in Ids, o \in BEGIN .. IN_END :
       heap[Partition(id, o)] = BuildPartitions(Loaded)[Partition(id, o)]
  /\ heap[Count] = CountOf(Edges(in))
  /\ heap[Iter] \in 0 .. (MAX_ITER + 1)
  /\ \A id \in Ids : heap[Status(id)] \in {TASK_STATUS_CREATED, TASK_STATUS_FINISHED}

(* A barrier of an iteration that is over cannot commit; one that can sees  *)
(* that all tasks have finished.  No barrier is newer than last.           *)
BarriersFit(last) ==
  /\ \A w \in watchers : w.do = "barrier_task" /\ w.arg \in 0 .. last
  /\ \A t \in tasks \ Runners :
       /\ t.arg \in 0 .. last
       /\ Runs(t) => \/ t.end \in {Aborts("abortd"), Aborts("abort")}
                     \/ /\ t.end = Proceed(t.arg + 1)
                        /\ Refused(t) \/ (t.arg = heap[Iter] /\ AllFinished(heap))

(* What is in the phasing cache, and what the spaces have copied.          *)
WrittenUpTo(last) ==
  /\ DOMAIN written \subseteq (1 .. last) \X Counted
  /\ \A w \in DOMAIN written : written[w] \in Nat
  /\ \A w \in DOMAIN synced : w \in DOMAIN written /\ synced[w] = written[w]
  /\ heap[Iter] > 0 => Complete(heap[Iter], written)
CopiesKept ==
  /\ DOMAIN sticky = Ids
  /\ \A id \in Ids : sticky[id] \in {<<>>, [l \in Copied(heap, id) |-> Read(heap, l)]}
HasCopied(id) == sticky[id] # <<>>

(* What the runners of an iteration read of the one before is synchronised. *)
LastSynced == heap[Iter] > 0 => Complete(heap[Iter], synced)

(* Between two iterations there is at most one runner.                     *)
Between ==
  /\ \A t \in Runners : \/ /\ t.do = "new_iter_task" /\ heap[Iter] <= MAX_ITER
                           /\ Runs(t) => LastSynced
                        \/ /\ t.do = "topk" /\ heap[Iter] = MAX_ITER + 1
                           /\ Runs(t) \/ printed = <<>>
  /\ \A t, u \in Runners : t = u
  /\ BarriersFit(heap[Iter] - 1)
  /\ WrittenUpTo(heap[Iter])
  /\ heap[Iter] > 0 => \A id \in Ids : HasCopied(id)
  /\ heap[Iter] <= MAX_ITER => printed = <<>>

(* In an iteration there is one runner for each part that is not finished,  *)
(* and a part has its new values, those of the formula, when its runner has *)
(* begun.                                                                  *)
Begun(id) == \A t \in Runners : t.arg = id => Runs(t)
Calculating ==
  /\ heap[Iter] <= MAX_ITER /\ LastSynced /\ printed = <<>>
  /\ \A t \in Runners : /\ t.do = "calc_task" /\ t.arg \in Ids
                        /\ heap[Status(t.arg)] = TASK_STATUS_CREATED
  /\ \A t, u \in Runners : t.arg = u.arg => t = u
  /\ BarriersFit(heap[Iter])
  /\ WrittenUpTo(heap[Iter] + 1)
  /\ \A id \in Ids : Begun(id) \/ heap[Iter] > 0 => HasCopied(id)
  /\ \A id \in Ids, v \in Counted : v \in VerticesOf(heap, id) =>
       (Begun(id) <=> <<heap[Iter] + 1, v>> \in DOMAIN written)
  /\ \A w \in DOMAIN written :
       w[1] = heap[Iter] + 1 => written[w] = Iterates!Share(w[2])

Iterating ==
  /\ program = "pagerank-frompmem" /\ GraphKept /\ CopiesKept
  /\ \A t \in Runners : ~Refused(t)
  /\ Between \/ Calculating

PageRankInv == TasksKept /\ in \in Inputs /\ (Inputting \/ SettingUp \/ Iterating)

(* The values committed by the barrier, each of them a rank over its       *)
(* outdegree, are the iterates of the formula on the graph of all edges,   *)
(* whatever runs when and however often; those of the last iteration are   *)
(* printed.  The last vertex is not counted and gives nothing.             *)
ImplementsPowerIteration == Iterates!PSpec

=============================================================================
