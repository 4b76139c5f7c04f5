--------------------------------- MODULE L0 ---------------------------------
(***************************************************************************)
(* The runtime that runs C0 programs, as the programs of apps/ and the      *)
(* manual (doc/c0/c0.tex, "Task and depending task") use it.  It is not in  *)
(* the repository.                                                         *)
(*                                                                         *)
(* A task runs on a snapshot taken when it starts; its writes appear when   *)
(* it commits, all at once.  A commit is refused when a page it wrote has   *)
(* been committed by another task since the snapshot.  A watcher (depending *)
(* task) is a type that stays until an instance of it ends with commitd or  *)
(* abortd: each commit to the array it watches makes an instance, unless    *)
(* one is waiting to be scheduled.                                         *)
(***************************************************************************)
EXTENDS Naturals, FiniteSets, FiniteSetsExt

CONSTANTS
  N_LONG_PAGE,    \* longs in a page
  Processors      \* how many tasks run at a time

ASSUME L0Assumption == N_LONG_PAGE \in Nat \ {0} /\ Processors \in Nat \ {0}

VARIABLES
  heap,       \* the standalone variables: location -> value
  tasks,      \* runners and instances of watchers, waiting or running
  watchers    \* the types of watchers

(* What memory holds when f has been written over g; one location's value.  *)
Over(f, g) ==
  [x \in DOMAIN f \cup DOMAIN g |-> IF x \in DOMAIN f THEN f[x] ELSE g[x]]
Holds(loc, value) == [l \in {loc} |-> value]

(* A location is <<array, index>>: an array starts a page of its own.      *)
PageOf(loc) == <<loc[1], loc[2] \div N_LONG_PAGE>>
PagesOf(locs) == {PageOf(loc) : loc \in locs}

(* What the body of a task comes to: how it ends, what it writes, the tasks *)
(* and watchers its runner statements create.                              *)
Ends(exit, writes, runners, types) ==
  [exit |-> exit, writes |-> writes, runners |-> runners, types |-> types]
NoWrites == <<>>
Aborts(exit) == Ends(exit, NoWrites, {}, {})
Commits(end) == end.exit \in {"commit", "commitd"}

(* A task waits to be scheduled, is scheduled, and runs on the snapshot it  *)
(* then takes: that is all it reads, so its end is known.  missed is what   *)
(* has been committed since.  Instances of a watcher are numbered.         *)
Waiting == Aborts("waiting")
Scheduled == Aborts("scheduled")
Instance(do, arg, no) ==
  [do |-> do, arg |-> arg, no |-> no, end |-> Waiting, missed |-> {}]
Task(do, arg) == Instance(do, arg, 0)
IsTask(t) ==
  t = [do |-> t.do, arg |-> t.arg, no |-> t.no, end |-> t.end, missed |-> t.missed]
Runs(t) == t.end \notin {Waiting, Scheduled}

Watcher(do, arg, on) == [do |-> do, arg |-> arg, on |-> on]
IsInstanceOf(t, w) == t.do = w.do /\ t.arg = w.arg
InstancesOf(w) == {t \in tasks : IsInstanceOf(t, w)}

(* The instances that a commit makes of the watchers in types.             *)
Activated(types) ==
  LET FreeNo(w) == Min(0 .. Cardinality(tasks) \ {t.no : t \in InstancesOf(w)})
  IN {Instance(w.do, w.arg, FreeNo(w)) :
        w \in {v \in types : \A t \in InstancesOf(v) : t.end # Waiting}}

Schedule(t) ==
  /\ t.end = Waiting
  /\ Cardinality({u \in tasks : u.end # Waiting}) < Processors
  /\ tasks' = (tasks \ {t}) \cup {[t EXCEPT !.end = Scheduled]}
  /\ UNCHANGED <<heap, watchers>>

(* The snapshot is taken; end is what the task comes to on the heap as it   *)
(* is.                                                                     *)
Start(t, end) ==
  /\ t.end = Scheduled
  /\ tasks' = (tasks \ {t}) \cup {[t EXCEPT !.end = end]}
  /\ UNCHANGED <<heap, watchers>>

Refused(t) == PagesOf(DOMAIN t.end.writes) \cap t.missed # {}

Staying(t) == IF t.end.exit \in {"commitd", "abortd"}
              THEN {w \in watchers : ~IsInstanceOf(t, w)} ELSE watchers

Missing(t, pages) == IF Runs(t) THEN [t EXCEPT !.missed = @ \cup pages] ELSE t

(* Whether the commit that creates a watcher is the first one the watcher  *)
(* sees is left open by the manual.                                        *)
Commit(t) ==
  /\ Runs(t) /\ Commits(t.end) /\ ~Refused(t)
  /\ LET writes == t.end.writes
         Sees(w) == \E loc \in DOMAIN writes : loc[1] = w.on
     IN /\ heap' = Over(writes, heap)
        /\ \E early \in SUBSET {w \in t.end.types : Sees(w)} :
             tasks' = {Missing(u, PagesOf(DOMAIN writes)) : u \in tasks \ {t}}
                        \cup t.end.runners
                        \cup Activated({w \in Staying(t) : Sees(w)} \cup early)
  /\ watchers' = Staying(t) \cup t.end.types

Abort(t) ==
  /\ Runs(t) /\ ~Commits(t.end)
  /\ tasks' = tasks \ {t}
  /\ watchers' = Staying(t)
  /\ UNCHANGED heap

(* The task is given up, or runs again on a new snapshot.                  *)
Refuse(t) ==
  /\ Runs(t) /\ Commits(t.end) /\ Refused(t)
  /\ \E again \in {{}, {Instance(t.do, t.arg, t.no)}} :
       tasks' = (tasks \ {t}) \cup again
  /\ UNCHANGED <<heap, watchers>>
=============================================================================
