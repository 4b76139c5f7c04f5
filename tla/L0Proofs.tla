------------------------------ MODULE L0Proofs ------------------------------
(***************************************************************************)
(* What a step of the runtime does to the tasks, for the proofs about the  *)
(* programs that run on it.                                                *)
(***************************************************************************)
EXTENDS L0, TLAPS

-----------------------------------------------------------------------------
\* Memory after writes: what is written, and the rest as it was.
LEMMA OverDomain ==
  ASSUME NEW f, NEW g
  PROVE  DOMAIN Over(f, g) = DOMAIN f \cup DOMAIN g
  BY DEF Over

LEMMA OverFunction ==
  ASSUME NEW f, NEW g
  PROVE  Over(f, g) = [x \in DOMAIN f \cup DOMAIN g |-> Over(f, g)[x]]
  BY DEF Over

LEMMA OverNew ==
  ASSUME NEW f, NEW g, NEW x \in DOMAIN f
  PROVE  Over(f, g)[x] = f[x]
  BY DEF Over

LEMMA OverOld ==
  ASSUME NEW f, NEW g, NEW x \in DOMAIN g, x \notin DOMAIN f
  PROVE  Over(f, g)[x] = g[x]
  BY DEF Over

LEMMA OverSame ==
  ASSUME NEW D, NEW f, f = [x \in D |-> f[x]], NEW g, DOMAIN g \subseteq D,
         \A x \in DOMAIN g : g[x] = f[x]
  PROVE  Over(g, f) = f
<1>1. DOMAIN f = D /\ DOMAIN g \cup DOMAIN f = D
  OBVIOUS
<1>2. \A x \in D : (IF x \in DOMAIN g THEN g[x] ELSE f[x]) = f[x]
  OBVIOUS
<1>3. QED
  BY <1>1, <1>2 DEF Over

LEMMA HoldsFacts ==
  ASSUME NEW loc, NEW value
  PROVE  DOMAIN Holds(loc, value) = {loc} /\ Holds(loc, value)[loc] = value
  BY DEF Holds

LEMMA NothingWritten == DOMAIN NoWrites = {} /\ PagesOf(DOMAIN NoWrites) = {}
  BY DEF NoWrites, PagesOf

\* The ends of tasks.
LEMMA EndsFacts ==
  ASSUME NEW exit, NEW writes, NEW runners, NEW types
  PROVE  LET e == Ends(exit, writes, runners, types)
         IN /\ e.exit = exit /\ e.writes = writes
            /\ e.runners = runners /\ e.types = types
            /\ exit \notin {"waiting", "scheduled"} => e \notin {Waiting, Scheduled}
  BY DEF Ends, Waiting, Scheduled, Aborts

LEMMA WaitingFacts ==
  /\ Waiting # Scheduled
  /\ Waiting.exit = "waiting" /\ Scheduled.exit = "scheduled"
  /\ ~Commits(Waiting) /\ ~Commits(Scheduled)
  BY DEF Waiting, Scheduled, Aborts, Ends, Commits

\* A task that commits is one that runs.
LEMMA CommittingRuns == ASSUME NEW t, Commits(t.end) PROVE Runs(t)
  BY WaitingFacts DEF Runs

LEMMA InstanceFacts ==
  ASSUME NEW do, NEW arg, NEW no
  PROVE  LET u == Instance(do, arg, no)
         IN /\ IsTask(u) /\ u.do = do /\ u.arg = arg /\ u.end = Waiting
            /\ u.missed = {} /\ ~Runs(u) /\ ~Refused(u)
<1>1. LET u == Instance(do, arg, no)
      IN IsTask(u) /\ u.do = do /\ u.arg = arg /\ u.end = Waiting /\ u.missed = {}
  BY DEF Instance, IsTask
<1>2. QED
  BY <1>1 DEF Runs, Refused

LEMMA TaskFacts ==
  ASSUME NEW do, NEW arg
  PROVE  LET u == Task(do, arg)
         IN /\ IsTask(u) /\ u.do = do /\ u.arg = arg /\ u.end = Waiting
            /\ u.missed = {} /\ ~Runs(u) /\ ~Refused(u)
  BY InstanceFacts DEF Task

\* A task that is scheduled, or whose end is known.
LEMMA EndFacts ==
  ASSUME NEW t, IsTask(t), NEW end
  PROVE  LET u == [t EXCEPT !.end = end]
         IN /\ IsTask(u) /\ u.do = t.do /\ u.arg = t.arg /\ u.end = end
            /\ u.missed = t.missed /\ (t.missed = {} => ~Refused(u))
<1>1. LET u == [t EXCEPT !.end = end]
      IN IsTask(u) /\ u.do = t.do /\ u.arg = t.arg /\ u.end = end /\ u.missed = t.missed
  BY DEF IsTask
<1>2. QED
  BY <1>1 DEF Refused

\* A task that has missed a commit to pages.
LEMMA MissingFacts ==
  ASSUME NEW t, IsTask(t), NEW pages
  PROVE  LET u == Missing(t, pages)
         IN /\ IsTask(u) /\ u.do = t.do /\ u.arg = t.arg /\ u.end = t.end
            /\ Runs(u) <=> Runs(t)
            /\ Runs(t) => u.missed = t.missed \cup pages
            /\ ~Runs(t) => u = t
            /\ Refused(t) => Refused(u)
            /\ Runs(t) /\ PagesOf(DOMAIN t.end.writes) \cap pages # {} => Refused(u)
            /\ PagesOf(DOMAIN t.end.writes) \cap pages = {} => (Refused(u) <=> Refused(t))
<1>1. CASE ~Runs(t)
  BY <1>1 DEF Missing
<1>2. CASE Runs(t)
  <2>1. LET u == Missing(t, pages)
        IN /\ IsTask(u) /\ u.do = t.do /\ u.arg = t.arg /\ u.end = t.end
           /\ u.missed = t.missed \cup pages
    BY <1>2 DEF Missing, IsTask
  <2>2. QED
    BY <1>2, <2>1 DEF Runs, Refused
<1>3. QED
  BY <1>1, <1>2

\* The instances that a commit makes.
LEMMA ActivatedFacts ==
  ASSUME NEW types, NEW u \in Activated(types)
  PROVE  /\ IsTask(u) /\ u.end = Waiting /\ u.missed = {} /\ ~Runs(u) /\ ~Refused(u)
         /\ \E w \in types : u.do = w.do /\ u.arg = w.arg
<1>1. PICK w \in types : \E no : u = Instance(w.do, w.arg, no)
  BY DEF Activated
<1>2. QED
  BY <1>1, InstanceFacts

-----------------------------------------------------------------------------
\* What the tasks are after a commit: the other ones, what the task has started,
\* and instances of watchers.
LEMMA CommitFacts ==
  ASSUME NEW t, Commit(t)
  PROVE  LET pages == PagesOf(DOMAIN t.end.writes)
         IN /\ Runs(t) /\ Commits(t.end) /\ ~Refused(t)
            /\ heap' = Over(t.end.writes, heap)
            /\ watchers' \subseteq watchers \cup t.end.types
            /\ \A u \in tasks \ {t} : Missing(u, pages) \in tasks'
            /\ t.end.runners \subseteq tasks'
            /\ \A v \in tasks' :
                 \/ \E u \in tasks \ {t} : v = Missing(u, pages)
                 \/ v \in t.end.runners
                 \/ /\ IsTask(v) /\ v.end = Waiting /\ v.missed = {}
                    /\ ~Runs(v) /\ ~Refused(v)
                    /\ \E w \in watchers \cup t.end.types : v.do = w.do /\ v.arg = w.arg
<1> DEFINE writes == t.end.writes
           pages == PagesOf(DOMAIN writes)
           Sees(w) == \E loc \in DOMAIN writes : loc[1] = w.on
<1>1. PICK early \in SUBSET {w \in t.end.types : Sees(w)} :
        tasks' = {Missing(u, pages) : u \in tasks \ {t}} \cup t.end.runners
                   \cup Activated({w \in Staying(t) : Sees(w)} \cup early)
  BY DEF Commit
<1>2. Staying(t) \subseteq watchers
  BY DEF Staying
<1>3. {w \in Staying(t) : Sees(w)} \cup early \subseteq watchers \cup t.end.types
  BY <1>2
<1> DEFINE types == {w \in Staying(t) : Sees(w)} \cup early
<1>4. \A v \in Activated(types) :
        /\ IsTask(v) /\ v.end = Waiting /\ v.missed = {} /\ ~Runs(v) /\ ~Refused(v)
        /\ \E w \in watchers \cup t.end.types : v.do = w.do /\ v.arg = w.arg
  <2> HIDE DEF types
  <2>1. types \subseteq watchers \cup t.end.types
    BY <1>3 DEF types
  <2>2. QED
    BY <2>1, ActivatedFacts
<1> HIDE DEF types
<1>5. tasks' = {Missing(u, pages) : u \in tasks \ {t}} \cup t.end.runners \cup Activated(types)
  BY <1>1 DEF types
<1>6. /\ Runs(t) /\ Commits(t.end) /\ ~Refused(t)
      /\ heap' = Over(t.end.writes, heap)
      /\ watchers' \subseteq watchers \cup t.end.types
  BY <1>2 DEF Commit
<1>7. QED
  BY <1>4, <1>5, <1>6

=============================================================================
