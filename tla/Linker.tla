-------------------------------- MODULE Linker --------------------------------
(***************************************************************************)
(* merge() of tools/ld0/main.cpp and what it calls: the functions of all   *)
(* object files are put in one program, the global symbol tables are       *)
(* merged name by name, references are moved to the merged scope, and      *)
(* purge_program keeps what main needs.  Every exception the code throws   *)
(* ends in main's catch, which returns 1: pc = "failed".                   *)
(***************************************************************************)
EXTENDS LinkInput

CONSTANT NoSymbol    \* the null Symbol* that std::map::operator[] makes

Symbol == [decl : Decl, obj : Nat, scope : Nat]
LinkedFunction == [obj : Nat, refs : Seq(Names), scope : Nat]

ASSUME NoSymbolAssumption == NoSymbol \notin Symbol

VARIABLES
  objs,     \* the object files, in command line order; never changes
  pc,       \* where merge() is
  next,     \* "append": the file the loop is at
  todo,     \* "merge": the names still in the pool
  table,    \* the merged symbol table; orig_map while purging
  funcs,    \* the functions of the merged program, by name (func_map)
  queue,    \* func_dep_queue
  pos,      \* "scan": the operand of the front function the loop is at
  purged,   \* purged_map
  emitted   \* purged_funcs

vars == <<objs, pc, next, todo, table, funcs, queue, pos, purged, emitted>>

\* The scope of the merged program; 1..Len(objs) are those of the files.
MergedScope == 0

\* The Symbol file o has under the name n, and where its Scope points.
SymbolOf(o, n) == [decl |-> objs[o].syms[n], obj |-> o, scope |-> o]

\* map::insert, map::erase and operator[] of a std::map from names.
Insert(m, n, v) == [k \in DOMAIN m \cup {n} |-> IF k = n THEN v ELSE m[k]]
Erase(m, n) == Restrict(m, DOMAIN m \ {n})
At(m, n) == IF n \in DOMAIN m THEN m[n] ELSE NoSymbol

Empty == [k \in {} |-> NoSymbol]

Init ==
  /\ objs \in Inputs
  /\ pc = "append"
  /\ next = 1
  /\ todo = {}
  /\ table = Empty
  /\ funcs = Empty
  /\ queue = <<>>
  /\ pos = 1
  /\ purged = Empty
  /\ emitted = <<>>

Fail ==
  /\ pc' = "failed"
  /\ UNCHANGED <<objs, next, todo, table, funcs, queue, pos, purged, emitted>>

-----------------------------------------------------------------------------
(***************************************************************************)
(* merge: append the functions of every file, then merge the tables.       *)
(***************************************************************************)
NamesOf(defs) == {defs[i].name : i \in DOMAIN defs}

\* Some function of the file is already in the table, or comes twice in it.
ClashesWithinOne(defs) ==  \* mutant: earlier files are not looked at
  \E i, j \in DOMAIN defs : i # j /\ defs[i].name = defs[j].name
Clashes(defs) ==
  \/ NamesOf(defs) \cap DOMAIN table # {}
  \/ \E i, j \in DOMAIN defs : i # j /\ defs[i].name = defs[j].name

RefsOf(defs, n) == defs[CHOOSE i \in DOMAIN defs : defs[i].name = n].refs

RejectRedefinition ==
  /\ pc = "append" /\ next <= Len(objs)
  /\ Clashes(objs[next].defs)
  /\ Fail

AppendObject ==
  /\ pc = "append" /\ next <= Len(objs)
  /\ LET defs == objs[next].defs
         new  == NamesOf(defs)
     IN /\ ~ Clashes(defs)
        /\ table' = [n \in DOMAIN table \cup new |->
                       IF n \in new THEN SymbolOf(next, n) ELSE table[n]]
        /\ funcs' = [n \in DOMAIN funcs \cup new |->
                       IF n \in new
                       THEN [obj |-> next, refs |-> RefsOf(defs, n), scope |-> next]
                       ELSE funcs[n]]
  /\ next' = next + 1
  /\ UNCHANGED <<objs, pc, todo, queue, pos, purged, emitted>>

FillPool ==
  /\ pc = "append" /\ next > Len(objs)
  /\ pc' = "merge"
  /\ todo' = {n \in Names : Holders(objs, n) # {}}
  /\ UNCHANGED <<objs, next, table, funcs, queue, pos, purged, emitted>>

\* The pool hands out the symbols of the least name.  Which of them is first
\* depends on the addresses of the Symbols (the pool compares pairs of a name
\* and a Symbol*): here any.  Steps for different names touch different
\* entries, so any name may be next.
SkipName(n) ==
  /\ pc = "merge" /\ n \in todo
  /\ n \in DOMAIN table
  /\ todo' = todo \ {n}
  /\ UNCHANGED <<objs, pc, next, table, funcs, queue, pos, purged, emitted>>

MergeName(n) ==
  /\ pc = "merge" /\ n \in todo
  /\ n \notin DOMAIN table
  /\ \E front \in Holders(objs, n) :
       /\ Mergeable(objs, n, front)
       /\ table' = Insert(table, n, SymbolOf(front, n))
  /\ todo' = todo \ {n}
  /\ UNCHANGED <<objs, pc, next, funcs, queue, pos, purged, emitted>>

RejectName(n) ==
  /\ pc = "merge" /\ n \in todo
  /\ n \notin DOMAIN table
  /\ \E front \in Holders(objs, n) : ~ Mergeable(objs, n, front)
  /\ Fail

\* ilprogram_symref_fixup.  The operands of a function are moved when they
\* refer to the scope its FunctionSymbol is in, the global scope of its file.
FixupFirst ==  \* mutant: only the references of the first file are moved
  /\ pc = "merge" /\ todo = {}
  /\ pc' = "root"
  /\ funcs' = [n \in DOMAIN funcs |->
                 [funcs[n] EXCEPT !.scope = IF @ = 1 THEN MergedScope ELSE @]]
  /\ table' = [n \in DOMAIN table |-> [table[n] EXCEPT !.scope = MergedScope]]
  /\ UNCHANGED <<objs, next, todo, queue, pos, purged, emitted>>
Fixup ==
  /\ pc = "merge" /\ todo = {}
  /\ pc' = "root"
  /\ funcs' = [n \in DOMAIN funcs |->
                 [funcs[n] EXCEPT !.scope = IF @ = funcs[n].obj THEN MergedScope ELSE @]]
  /\ table' = [n \in DOMAIN table |-> [table[n] EXCEPT !.scope = MergedScope]]
  /\ UNCHANGED <<objs, next, todo, queue, pos, purged, emitted>>

-----------------------------------------------------------------------------
(***************************************************************************)
(* purge_program: breadth-first from main over the operands that refer to  *)
(* the merged scope.  The front of the queue is popped after its scan.     *)
(***************************************************************************)
RejectNoMain ==
  /\ pc = "root"
  /\ Main \notin DOMAIN funcs
  /\ Fail

StartPurge ==
  /\ pc = "root"
  /\ Main \in DOMAIN funcs
  /\ pc' = "purge"
  /\ queue' = <<Main>>
  /\ UNCHANGED <<objs, next, todo, table, funcs, pos, purged, emitted>>

\* A function queued again before its first visit.
PopVisited ==
  /\ pc = "purge" /\ queue # <<>>
  /\ Head(queue) \in DOMAIN purged
  /\ queue' = Tail(queue)
  /\ UNCHANGED <<objs, pc, next, todo, table, funcs, pos, purged, emitted>>

\* The Symbol of a name is moved to purged_map.
Keeps(f) ==
  /\ purged' = Insert(purged, f, At(table, f))
  /\ table' = Erase(table, f)

KeepAgain ==  \* mutant: a function queued twice is visited twice
  /\ pc = "purge" /\ queue # <<>>
  /\ LET f == Head(queue)
     IN /\ emitted' = Append(emitted, f)
        /\ Keeps(f)
  /\ pc' = "scan"
  /\ pos' = 1
  /\ UNCHANGED <<objs, next, todo, funcs, queue>>
KeepFromZero ==  \* mutant: the scan starts one operand early
  /\ pc = "purge" /\ queue # <<>>
  /\ LET f == Head(queue)
     IN /\ f \notin DOMAIN purged
        /\ emitted' = Append(emitted, f)
        /\ Keeps(f)
  /\ pc' = "scan"
  /\ pos' = 0
  /\ UNCHANGED <<objs, next, todo, funcs, queue>>
KeepFunction ==
  /\ pc = "purge" /\ queue # <<>>
  /\ LET f == Head(queue)
     IN /\ f \notin DOMAIN purged
        /\ emitted' = Append(emitted, f)
        /\ Keeps(f)
  /\ pc' = "scan"
  /\ pos' = 1
  /\ UNCHANGED <<objs, next, todo, funcs, queue>>

Front == funcs[Head(queue)]
Operand == Front.refs[pos]
AtOperand == pc = "scan" /\ pos <= Len(Front.refs)

\* The reference is not to the merged scope, or its name is kept already.
SkipOperand ==
  /\ AtOperand
  /\ Front.scope # MergedScope \/ Operand \in DOMAIN purged
  /\ pos' = pos + 1
  /\ UNCHANGED <<objs, pc, next, todo, table, funcs, queue, purged, emitted>>

QueueInFront ==  \* mutant: a stack, though the scanned function is popped last
  /\ AtOperand
  /\ Front.scope = MergedScope
  /\ Operand \notin DOMAIN purged
  /\ Operand \in DOMAIN funcs
  /\ queue' = <<Operand>> \o queue
  /\ pos' = pos + 1
  /\ UNCHANGED <<objs, pc, next, todo, table, funcs, purged, emitted>>
QueueOperand ==
  /\ AtOperand
  /\ Front.scope = MergedScope
  /\ Operand \notin DOMAIN purged
  /\ Operand \in DOMAIN funcs
  /\ queue' = Append(queue, Operand)
  /\ pos' = pos + 1
  /\ UNCHANGED <<objs, pc, next, todo, table, funcs, purged, emitted>>

KeepOperandAgain ==  \* mutant: a name kept before is moved again
  /\ AtOperand
  /\ Front.scope = MergedScope
  /\ Operand \notin DOMAIN funcs
  /\ Keeps(Operand)
  /\ pos' = pos + 1
  /\ UNCHANGED <<objs, pc, next, todo, funcs, queue, emitted>>
KeepOperand ==
  /\ AtOperand
  /\ Front.scope = MergedScope
  /\ Operand \notin DOMAIN purged
  /\ Operand \notin DOMAIN funcs
  /\ Keeps(Operand)
  /\ pos' = pos + 1
  /\ UNCHANGED <<objs, pc, next, todo, funcs, queue, emitted>>

PopScanned ==
  /\ pc = "scan" /\ pos > Len(Front.refs)
  /\ pc' = "purge"
  /\ queue' = Tail(queue)
  /\ UNCHANGED <<objs, next, todo, table, funcs, pos, purged, emitted>>

\* The purged table and functions replace the merged ones.
Replace ==
  /\ pc = "purge" /\ queue = <<>>
  /\ pc' = "done"
  /\ table' = purged
  /\ funcs' = Restrict(funcs, Range(emitted))
  /\ UNCHANGED <<objs, next, todo, queue, pos, purged, emitted>>

\* merge() has returned, or ld0 has exited.
Stopped == pc \in {"done", "failed"} /\ UNCHANGED vars

Step ==
  \/ RejectRedefinition \/ AppendObject \/ FillPool
  \/ \E n \in Names : SkipName(n) \/ MergeName(n) \/ RejectName(n)
  \/ Fixup \/ RejectNoMain \/ StartPurge
  \/ PopVisited \/ KeepFunction
  \/ SkipOperand \/ QueueOperand \/ KeepOperand \/ PopScanned
  \/ Replace

Next == Step \/ Stopped

\* ld0 is one thread that runs until it exits.
Spec == Init /\ [][Next]_vars /\ WF_vars(Step)

-----------------------------------------------------------------------------
(***************************************************************************)
(* Properties.                                                             *)
(***************************************************************************)
\* Type invariant of the variables of merge() and purge_program().
TypeOK ==
  /\ objs \in Inputs
  /\ pc \in {"append", "merge", "root", "purge", "scan", "done", "failed"}
  /\ next \in 1..(Len(objs) + 1)
  /\ todo \in SUBSET Names
  /\ DOMAIN table \subseteq Names
  /\ \A n \in DOMAIN table : table[n] \in Symbol \cup {NoSymbol}
  /\ DOMAIN funcs \subseteq Names
  /\ \A n \in DOMAIN funcs : funcs[n] \in LinkedFunction
  /\ queue \in Seq(Names)
  /\ pos \in Nat \ {0}
  /\ DOMAIN purged \subseteq Names
  /\ \A n \in DOMAIN purged : purged[n] \in Symbol \cup {NoSymbol}
  /\ emitted \in Seq(Names)

\* purge_program moves symbols out of orig_map with operator[], which makes a
\* null Symbol* of a name that is not there: it never meets such a name, in
\* whatever order functions and variables are first referred to.
NoNullSymbol ==
  /\ \A n \in DOMAIN purged : purged[n] # NoSymbol
  /\ pc = "done" => \A n \in DOMAIN table : table[n] # NoSymbol

\* Nothing is kept, or queued to be kept, that main does not need.
KeptIsNeeded == DOMAIN purged \cup Range(queue) \subseteq Reachable(objs)

\* In the linked program every reference of every emitted function was moved
\* to the merged scope and finds a symbol there, itself of the merged scope:
\* SymbolRef::Lookup never answers from a table that was thrown away.
ReferencesResolve ==
  pc = "done" =>
    \A f \in Range(emitted) :
      /\ funcs[f].scope = MergedScope
      /\ \A r \in Range(funcs[f].refs) :
           r \in DOMAIN table /\ table[r].scope = MergedScope

\* The code generator emits each function of the linked program once: none
\* comes twice in the list however often it was queued, and the list holds
\* exactly the functions that the table has symbols for.
EmittedOnce ==
  /\ \A i, j \in DOMAIN emitted : emitted[i] = emitted[j] => i = j
  /\ pc = "done" => Range(emitted) = DOMAIN table \cap Defined(objs)

\* A symbol of the linked program speaks for every file that declares it: a
\* function's comes from the file that defines it, and a variable's has the
\* type and the specifiers it has in each file, whichever file came first.
DeclarationsAgree ==
  pc = "done" =>
    \A n \in DOMAIN table :
      IF n \in DOMAIN funcs
      THEN table[n].obj = funcs[n].obj
      ELSE \A o \in Holders(objs, n) :
             /\ objs[o].syms[n].type = table[n].decl.type
             /\ objs[o].syms[n].spec = table[n].decl.spec

\* A kept symbol stays as it is: a later reference to the name, or a function
\* queued twice, does not overwrite it.
KeptStable ==
  [][\A n \in DOMAIN purged : n \in DOMAIN purged' /\ purged'[n] = purged[n]]_vars

\* merge() implements LinkSpec: it ends, it rejects exactly the programs that
\* are not linkable, and the table it returns has the reachable names.
S == INSTANCE LinkSpec WITH
       in <- objs,
       status <- CASE pc = "done" -> "linked"
                   [] pc = "failed" -> "rejected"
                   [] OTHER -> "linking",
       image <- IF pc = "done" THEN DOMAIN table ELSE {}

ImplementsLinkSpec == S!SSpec

-----------------------------------------------------------------------------
(***************************************************************************)
(* The inductive invariant behind the properties above and behind the      *)
(* safety part of ImplementsLinkSpec.                                      *)
(***************************************************************************)
Purging == pc \in {"purge", "scan"}

\* func_map tells, for each name, what the one definition of it refers to.
Sources ==
  /\ pc \notin {"append", "failed"} => next > Len(objs)
  /\ pc \notin {"done", "failed"} =>
       \A o \in 1..Len(objs) : o < next =>
         \A i \in DOMAIN objs[o].defs :
           /\ objs[o].defs[i].name \in DOMAIN funcs
           /\ funcs[objs[o].defs[i].name].refs = objs[o].defs[i].refs
  /\ \A n \in DOMAIN funcs :
       \E o \in 1..Len(objs) : \E i \in DOMAIN objs[o].defs :
         /\ o < next
         /\ objs[o].defs[i].name = n
         /\ funcs[n].refs = objs[o].defs[i].refs
         /\ funcs[n].obj = o

\* Before the fixup every scope is that of a file, after it none is.
Scopes ==
  /\ pc \in {"append", "merge"} =>
       \A n \in DOMAIN funcs : funcs[n].scope = funcs[n].obj
  /\ pc \in {"root", "purge", "scan", "done"} =>
       /\ \A n \in DOMAIN funcs : funcs[n].scope = MergedScope
       /\ \A n \in DOMAIN table : table[n].scope = MergedScope
       /\ \A n \in DOMAIN purged : purged[n].scope = MergedScope

\* A name some file has a symbol for has one in the merged table, or in the
\* purged one, or is still to be merged; and no table holds a null Symbol*.
Symbols ==
  /\ \A n \in DOMAIN table : table[n] \in Symbol
  /\ \A n \in DOMAIN purged : purged[n] \in Symbol
  /\ pc = "append" => DOMAIN funcs = DOMAIN table
  /\ DOMAIN funcs \subseteq DOMAIN table \cup DOMAIN purged
  /\ pc = "merge" =>
       \A n \in Names : Holders(objs, n) # {} => n \in todo \cup DOMAIN table
  /\ pc = "root" \/ Purging =>
       \A n \in Names : Holders(objs, n) # {} => n \in DOMAIN table \cup DOMAIN purged
  /\ pc \in {"append", "merge", "root"} => DOMAIN purged = {} /\ emitted = <<>>

\* The breadth-first search: a reference of a kept function is kept, queued, or
\* still ahead of the scan of the function at the front of the queue.
Frontier ==
  Purging =>
    /\ Range(queue) \subseteq DOMAIN funcs
    /\ DOMAIN purged \cup Range(queue) \subseteq Reachable(objs)
    /\ Main \in DOMAIN purged \cup Range(queue)
    /\ pc = "scan" => queue # <<>> /\ Head(queue) \in DOMAIN purged
    /\ \A f \in DOMAIN purged \cap DOMAIN funcs :
         \A j \in DOMAIN funcs[f].refs :
           \/ funcs[f].refs[j] \in DOMAIN purged \cup Range(queue)
           \/ pc = "scan" /\ f = Head(queue) /\ j >= pos

\* purged_funcs lists the functions among the kept names, each once.
Emission ==
  /\ \A i, j \in DOMAIN emitted : emitted[i] = emitted[j] => i = j
  /\ Purging => Range(emitted) = DOMAIN purged \cap DOMAIN funcs
  /\ Purging => Main \in DOMAIN funcs

\* The files appended so far define no function twice.
DefinedOnce ==
  pc # "failed" =>
    \A o, p \in 1..Len(objs) : o < next /\ p < next =>
      \A i \in DOMAIN objs[o].defs, j \in DOMAIN objs[p].defs :
        objs[o].defs[i].name = objs[p].defs[j].name => o = p /\ i = j

\* A symbol in a table is that of the file with the function's definition, or
\* of any file that declares the variable, which all of them do alike.
SpeaksForAll(n, symbol) ==
  IF n \in DOMAIN funcs
  THEN symbol.obj = funcs[n].obj
  ELSE /\ symbol.obj \in Holders(objs, n)
       /\ symbol.decl = objs[symbol.obj].syms[n]
       /\ Mergeable(objs, n, symbol.obj)
Agreement ==
  /\ \A n \in DOMAIN table : SpeaksForAll(n, table[n])
  /\ \A n \in DOMAIN purged : SpeaksForAll(n, purged[n])

\* The image at the end: exactly what main needs.
ImageIsExact == pc = "done" => DOMAIN table = Reachable(objs)

\* The functions at the end: those among the needed names, with nothing that
\* they refer to missing.
ImageIsClosed ==
  pc = "done" =>
    /\ DOMAIN funcs = Range(emitted)
    /\ Range(emitted) = DOMAIN table \cap Defined(objs)
    /\ \A f \in DOMAIN funcs : Range(funcs[f].refs) \subseteq DOMAIN table

LinkInv ==
  /\ Sources
  /\ Scopes
  /\ Symbols
  /\ Frontier
  /\ Emission
  /\ DefinedOnce
  /\ Agreement
  /\ ImageIsExact
  /\ ImageIsClosed

=============================================================================
