---------------------------- MODULE LinkerProofs ----------------------------
(***************************************************************************)
(* What ld0's merge() computes, for every list of object files cc0 -c can  *)
(* write.                                                                  *)
(***************************************************************************)
EXTENDS Linker, SequenceTheorems, TLAPS

-----------------------------------------------------------------------------
(***************************************************************************)
(* Lemmas about object files, maps and the queue.                          *)
(***************************************************************************)
\* What the assumption on Inputs says of one file.
LEMMA FileFacts ==
  ASSUME NEW in \in Inputs, NEW o \in 1..Len(in)
  PROVE  /\ Len(in) \in Nat \ {0}
         /\ DOMAIN in[o].syms \subseteq Names
         /\ \A n \in DOMAIN in[o].syms : in[o].syms[n] \in Decl
         /\ in[o].defs \in Seq(Def)
         /\ \A i \in DOMAIN in[o].defs :
              /\ in[o].defs[i].name \in Names
              /\ in[o].defs[i].name \in DOMAIN in[o].syms
              /\ in[o].defs[i].refs \in Seq(Names)
              /\ \A j \in DOMAIN in[o].defs[i].refs :
                   in[o].defs[i].refs[j] \in DOMAIN in[o].syms
<1>1. IsObjectFile(in[o])
  BY InputsAssumption
<1>2. in[o].defs \in Seq(Def)
  BY <1>1 DEF IsObjectFile
<1>3. ASSUME NEW i \in DOMAIN in[o].defs
      PROVE  in[o].defs[i] \in Def
  BY <1>2
<1>4. QED
  BY <1>1, <1>2, <1>3, InputsAssumption DEF IsObjectFile, Def

LEMMA InputLength == ASSUME NEW in \in Inputs PROVE Len(in) \in Nat \ {0}
  BY InputsAssumption

\* Insert and Erase change one entry of a map.
LEMMA InsertFacts ==
  ASSUME NEW m, NEW n, NEW v
  PROVE  /\ DOMAIN Insert(m, n, v) = DOMAIN m \cup {n}
         /\ Insert(m, n, v)[n] = v
         /\ \A k \in DOMAIN m : k # n => Insert(m, n, v)[k] = m[k]
  BY DEF Insert

LEMMA EraseFacts ==
  ASSUME NEW m, NEW n
  PROVE  /\ DOMAIN Erase(m, n) = DOMAIN m \ {n}
         /\ \A k \in DOMAIN m \ {n} : Erase(m, n)[k] = m[k]
  BY DEF Erase, Restrict

\* A map stays in its type when a well-typed entry is inserted or one erased.
LEMMA InsertType ==
  ASSUME NEW D, NEW T, NEW m, DOMAIN m \subseteq D, \A k \in DOMAIN m : m[k] \in T,
         NEW n \in D, NEW v \in T
  PROVE  /\ DOMAIN Insert(m, n, v) \subseteq D
         /\ \A k \in DOMAIN Insert(m, n, v) : Insert(m, n, v)[k] \in T
  BY DEF Insert

LEMMA EraseType ==
  ASSUME NEW D, NEW T, NEW m, DOMAIN m \subseteq D, \A k \in DOMAIN m : m[k] \in T,
         NEW n
  PROVE  /\ DOMAIN Erase(m, n) \subseteq D
         /\ \A k \in DOMAIN Erase(m, n) : Erase(m, n)[k] \in T
  BY DEF Erase, Restrict

\* The elements of a queue after a push.
LEMMA RangeAppend ==
  ASSUME NEW T, NEW q \in Seq(T), NEW e \in T
  PROVE  Range(Append(q, e)) = Range(q) \cup {e}
<1>1. /\ Len(Append(q, e)) = Len(q) + 1
      /\ \A i \in 1..Len(q) : Append(q, e)[i] = q[i]
      /\ Append(q, e)[Len(q) + 1] = e
      /\ Len(q) \in Nat
      /\ DOMAIN Append(q, e) = 1..(Len(q) + 1)
      /\ DOMAIN q = 1..Len(q)
  OBVIOUS
<1>2. ASSUME NEW x \in Range(Append(q, e))
      PROVE  x \in Range(q) \cup {e}
  BY <1>1 DEF Range
<1>3. ASSUME NEW x \in Range(q)
      PROVE  x \in Range(Append(q, e))
  BY <1>1 DEF Range
<1>4. e \in Range(Append(q, e))
  <2>1. Len(q) + 1 \in DOMAIN Append(q, e)
    BY <1>1
  <2>2. QED
    BY <1>1, <2>1 DEF Range
<1>5. QED
  BY <1>2, <1>3, <1>4

\* The elements of a queue before and after a pop.
LEMMA RangeTail ==
  ASSUME NEW T, NEW q \in Seq(T), q # <<>>
  PROVE  /\ Range(q) = Range(Tail(q)) \cup {Head(q)}
         /\ Head(q) \in T
         /\ Tail(q) \in Seq(T)
<1>1. /\ Len(q) \in Nat \ {0}
      /\ DOMAIN q = 1..Len(q)
      /\ Head(q) = q[1]
      /\ Tail(q) \in Seq(T)
      /\ Len(Tail(q)) = Len(q) - 1
      /\ DOMAIN Tail(q) = 1..(Len(q) - 1)
      /\ \A i \in 1..(Len(q) - 1) : Tail(q)[i] = q[i + 1]
  OBVIOUS
<1>2. ASSUME NEW x \in Range(q)
      PROVE  x \in Range(Tail(q)) \cup {Head(q)}
  <2>1. PICK i \in 1..Len(q) : q[i] = x
    BY <1>1 DEF Range
  <2>2. CASE i = 1
    BY <1>1, <2>1, <2>2
  <2>3. CASE i > 1
    <3>1. i - 1 \in 1..(Len(q) - 1) /\ Tail(q)[i - 1] = x
      BY <1>1, <2>1, <2>3
    <3>2. QED
      BY <1>1, <3>1 DEF Range
  <2>4. QED
    BY <2>2, <2>3
<1>3. ASSUME NEW x \in Range(Tail(q))
      PROVE  x \in Range(q)
  BY <1>1 DEF Range
<1>4. Head(q) \in Range(q)
  BY <1>1 DEF Range
<1>5. QED
  BY <1>1, <1>2, <1>3, <1>4

-----------------------------------------------------------------------------
(***************************************************************************)
(* Type correctness.  A reference is a name because the function scanned   *)
(* is at the front of the queue and the queue holds functions only, so the *)
(* step uses Frontier as well.                                             *)
(***************************************************************************)
Inv == TypeOK /\ LinkInv

\* The function being scanned, and the operand looked at.
LEMMA FrontFacts ==
  ASSUME TypeOK, Frontier, Purging, queue # <<>>
  PROVE  /\ Head(queue) \in Names
         /\ Head(queue) \in DOMAIN funcs
         /\ Front.refs \in Seq(Names)
         /\ Head(queue) \in Range(queue)
         /\ pos \in 1..Len(Front.refs) => Operand \in Names /\ pos \in DOMAIN Front.refs
<1>1. queue \in Seq(Names)
  BY DEF TypeOK
<1>2. Head(queue) \in Range(queue) /\ Head(queue) \in Names
  BY <1>1, RangeTail
<1>3. Head(queue) \in DOMAIN funcs
  BY <1>2 DEF Frontier
<1>4. Front.refs \in Seq(Names)
  BY <1>3 DEF TypeOK, Front, LinkedFunction
<1>5. QED
  BY <1>2, <1>3, <1>4 DEF Operand

LEMMA SymbolOfType ==
  ASSUME TypeOK, NEW o \in 1..Len(objs), NEW n \in DOMAIN objs[o].syms
  PROVE  SymbolOf(o, n) \in Symbol /\ SymbolOf(o, n).scope = o /\ SymbolOf(o, n).obj = o
<1>1. o \in Nat /\ objs[o].syms[n] \in Decl
  BY FileFacts, InputLength DEF TypeOK
<1>2. QED
  BY <1>1 DEF SymbolOf, Symbol

\* The references recorded for a function a file defines once.
LEMMA RefsOfFacts ==
  ASSUME TypeOK, NEW o \in 1..Len(objs), ~ Clashes(objs[o].defs),
         NEW i \in DOMAIN objs[o].defs
  PROVE  /\ RefsOf(objs[o].defs, objs[o].defs[i].name) = objs[o].defs[i].refs
         /\ objs[o].defs[i].refs \in Seq(Names)
         /\ objs[o].defs[i].name \in NamesOf(objs[o].defs)
         /\ objs[o].defs[i].name \in DOMAIN objs[o].syms
         /\ objs[o].defs[i].name \in Names
<1> DEFINE defs == objs[o].defs
           k == CHOOSE j \in DOMAIN defs : defs[j].name = defs[i].name
<1>1. k \in DOMAIN defs /\ defs[k].name = defs[i].name
  OBVIOUS
<1>2. k = i
  BY <1>1 DEF Clashes
<1>3. RefsOf(defs, defs[i].name) = defs[k].refs
  BY DEF RefsOf
<1>4. QED
  BY <1>2, <1>3, FileFacts DEF NamesOf, TypeOK

\* What purge_program does when it keeps a name keeps the types.
LEMMA KeepsType ==
  ASSUME TypeOK, NEW f \in Names, Keeps(f)
  PROVE  /\ DOMAIN purged' \subseteq Names
         /\ \A k \in DOMAIN purged' : purged'[k] \in Symbol \cup {NoSymbol}
         /\ DOMAIN table' \subseteq Names
         /\ \A k \in DOMAIN table' : table'[k] \in Symbol \cup {NoSymbol}
<1> DEFINE T == Symbol \cup {NoSymbol}
<1>1. At(table, f) \in T
  BY DEF At, TypeOK
<1>2. /\ DOMAIN purged \subseteq Names /\ \A k \in DOMAIN purged : purged[k] \in T
      /\ DOMAIN table \subseteq Names /\ \A k \in DOMAIN table : table[k] \in T
  BY DEF TypeOK
<1> HIDE DEF T
<1>3. /\ DOMAIN Insert(purged, f, At(table, f)) \subseteq Names
      /\ \A k \in DOMAIN Insert(purged, f, At(table, f)) : Insert(purged, f, At(table, f))[k] \in T
  BY <1>1, <1>2, InsertType
<1>4. /\ DOMAIN Erase(table, f) \subseteq Names
      /\ \A k \in DOMAIN Erase(table, f) : Erase(table, f)[k] \in T
  BY <1>2, EraseType
<1>5. QED
  BY <1>3, <1>4 DEF Keeps, T

LEMMA InitType == Init => TypeOK
<1> SUFFICES ASSUME Init PROVE TypeOK
  OBVIOUS
<1>1. Len(objs) \in Nat \ {0}
  BY InputLength DEF Init
<1>2. QED
  BY <1>1 DEF Init, TypeOK, Empty

LEMMA TypeStep == Inv /\ [Next]_vars => TypeOK'
<1> SUFFICES ASSUME Inv, [Next]_vars PROVE TypeOK'
  OBVIOUS
<1> USE DEF Inv, LinkInv
<1>0. Len(objs) \in Nat \ {0}
  BY InputLength DEF TypeOK
<1>1. CASE RejectRedefinition
  BY <1>1 DEF RejectRedefinition, Fail, TypeOK
<1>2. CASE AppendObject
  <2> DEFINE defs == objs[next].defs
             new == NamesOf(defs)
  <2>1. next \in 1..Len(objs) /\ next + 1 \in 1..(Len(objs) + 1) /\ next \in Nat
    BY <1>0, <1>2 DEF AppendObject, TypeOK
  <2>2. ASSUME NEW n \in new
        PROVE  /\ n \in Names
               /\ SymbolOf(next, n) \in Symbol
               /\ RefsOf(defs, n) \in Seq(Names)
    <3>1. PICK i \in DOMAIN defs : defs[i].name = n
      BY DEF NamesOf
    <3>2. ~ Clashes(defs)
      BY <1>2 DEF AppendObject
    <3>3. QED
      BY <2>1, <3>1, <3>2, RefsOfFacts, SymbolOfType
  <2>3. DOMAIN table' \subseteq Names /\ DOMAIN funcs' \subseteq Names
    BY <1>2, <2>2 DEF AppendObject, TypeOK
  <2>4. ASSUME NEW n \in DOMAIN table' PROVE table'[n] \in Symbol \cup {NoSymbol}
    BY <1>2, <2>2 DEF AppendObject, TypeOK
  <2>5. ASSUME NEW n \in DOMAIN funcs' PROVE funcs'[n] \in LinkedFunction
    <3>1. CASE n \in new
      <4>1. funcs'[n] = [obj |-> next, refs |-> RefsOf(defs, n), scope |-> next]
        BY <1>2, <3>1 DEF AppendObject
      <4>2. QED
        BY <2>1, <2>2, <3>1, <4>1 DEF LinkedFunction
    <3>2. CASE n \notin new
      BY <1>2, <3>2 DEF AppendObject, TypeOK
    <3>3. QED
      BY <3>1, <3>2
  <2>6. QED
    BY <1>2, <2>1, <2>3, <2>4, <2>5 DEF AppendObject, TypeOK
<1>3. CASE FillPool
  BY <1>3 DEF FillPool, TypeOK
<1>4. ASSUME NEW n \in Names, SkipName(n) PROVE TypeOK'
  BY <1>4 DEF SkipName, TypeOK
<1>5. ASSUME NEW n \in Names, MergeName(n) PROVE TypeOK'
  <2>1. PICK o \in Holders(objs, n) : table' = Insert(table, n, SymbolOf(o, n))
    BY <1>5 DEF MergeName
  <2>2. o \in 1..Len(objs) /\ n \in DOMAIN objs[o].syms
    BY <2>1 DEF Holders
  <2>3. SymbolOf(o, n) \in Symbol
    BY <2>2, SymbolOfType
  <2>4. DOMAIN table' \subseteq Names /\ \A k \in DOMAIN table' : table'[k] \in Symbol \cup {NoSymbol}
    <3>1. SymbolOf(o, n) \in Symbol \cup {NoSymbol}
      BY <2>3
    <3>2. DOMAIN table \subseteq Names /\ \A k \in DOMAIN table : table[k] \in Symbol \cup {NoSymbol}
      BY DEF TypeOK
    <3>3. /\ DOMAIN Insert(table, n, SymbolOf(o, n)) \subseteq Names
          /\ \A k \in DOMAIN Insert(table, n, SymbolOf(o, n)) :
               Insert(table, n, SymbolOf(o, n))[k] \in Symbol \cup {NoSymbol}
      BY <3>1, <3>2, InsertType
    <3>4. QED
      BY <2>1, <3>3
  <2>5. QED
    BY <1>5, <2>4 DEF MergeName, TypeOK
<1>6. ASSUME NEW n \in Names, RejectName(n) PROVE TypeOK'
  BY <1>6 DEF RejectName, Fail, TypeOK
<1>7. CASE Fixup
  <2>1. ASSUME NEW n \in DOMAIN funcs PROVE funcs'[n] \in LinkedFunction
    BY <1>7 DEF Fixup, TypeOK, LinkedFunction, MergedScope
  <2>2. ASSUME NEW n \in DOMAIN table PROVE table'[n] \in Symbol
    <3>1. table[n] \in Symbol
      BY DEF Symbols
    <3>2. QED
      BY <1>7, <3>1 DEF Fixup, Symbol, MergedScope
  <2>3. QED
    BY <1>7, <2>1, <2>2 DEF Fixup, TypeOK
<1>8. CASE RejectNoMain
  BY <1>8 DEF RejectNoMain, Fail, TypeOK
<1>9. CASE StartPurge
  BY <1>9, NamesAssumption DEF StartPurge, TypeOK
<1>10. CASE PopVisited
  <2>1. Tail(queue) \in Seq(Names)
    BY <1>10, RangeTail DEF PopVisited, TypeOK
  <2>2. QED
    BY <1>10, <2>1 DEF PopVisited, TypeOK
<1>11. CASE KeepFunction
  <2>1. Head(queue) \in Names
    BY <1>11, FrontFacts DEF KeepFunction, Purging
  <2>2. Keeps(Head(queue))
    BY <1>11 DEF KeepFunction
  <2>3. QED
    BY <1>11, <2>1, <2>2, KeepsType DEF KeepFunction, TypeOK
<1>12. CASE SkipOperand
  BY <1>12 DEF SkipOperand, TypeOK
<1>13. CASE QueueOperand
  <2>1. Operand \in Names
    BY <1>13 DEF QueueOperand, TypeOK
  <2>2. QED
    BY <1>13, <2>1 DEF QueueOperand, TypeOK
<1>14. CASE KeepOperand
  <2>1. Operand \in Names
    <3>1. queue # <<>> /\ Purging
      BY <1>14 DEF KeepOperand, AtOperand, Frontier, Purging
    <3>2. pos \in 1..Len(Front.refs)
      BY <1>14, <3>1, FrontFacts DEF KeepOperand, AtOperand, TypeOK
    <3>3. QED
      BY <3>1, <3>2, FrontFacts
  <2>2. Keeps(Operand)
    BY <1>14 DEF KeepOperand
  <2>3. QED
    BY <1>14, <2>1, <2>2, KeepsType DEF KeepOperand, TypeOK
<1>15. CASE PopScanned
  <2>1. Tail(queue) \in Seq(Names)
    BY <1>15, RangeTail DEF PopScanned, TypeOK, Frontier, Purging
  <2>2. QED
    BY <1>15, <2>1 DEF PopScanned, TypeOK
<1>16. CASE Replace
  <2>1. queue = <<>> /\ Purging
    BY <1>16 DEF Replace, Purging
  <2>2. Range(emitted) = DOMAIN purged \cap DOMAIN funcs
    BY <2>1 DEF Emission
  <2>3. QED
    BY <1>16, <2>2 DEF Replace, TypeOK, Restrict
<1>17. CASE UNCHANGED vars
  BY <1>17 DEF vars, TypeOK
<1>18. QED
  BY <1>1, <1>2, <1>3, <1>4, <1>5, <1>6, <1>7, <1>8, <1>9, <1>10, <1>11, <1>12,
     <1>13, <1>14, <1>15, <1>16, <1>17 DEF Next, Step, Stopped

-----------------------------------------------------------------------------
(***************************************************************************)
(* One lemma per conjunct of LinkInv, with one step per action that        *)
(* disturbs it.                                                            *)
(***************************************************************************)
\* A kept name is moved, so what holds of the symbols of both tables still does.
LEMMA KeepsFacts ==
  ASSUME NEW f, f \in DOMAIN table, Keeps(f)
  PROVE  /\ DOMAIN purged' = DOMAIN purged \cup {f}
         /\ DOMAIN table' = DOMAIN table \ {f}
         /\ purged'[f] = table[f]
         /\ \A k \in DOMAIN purged : k # f => purged'[k] = purged[k]
         /\ \A k \in DOMAIN table' : table'[k] = table[k]
<1>1. At(table, f) = table[f]
  BY DEF At
<1>2. purged' = Insert(purged, f, table[f]) /\ table' = Erase(table, f)
  BY <1>1 DEF Keeps
<1>3. QED
  BY <1>2 DEF Insert, Erase, Restrict

LEMMA KeepsScopes ==
  ASSUME Scopes, NEW f, f \in DOMAIN table, Keeps(f), Purging, pc' = "scan", funcs' = funcs
  PROVE  Scopes'
<1>1. /\ DOMAIN purged' = DOMAIN purged \cup {f}
      /\ DOMAIN table' = DOMAIN table \ {f}
      /\ purged'[f] = table[f]
      /\ \A k \in DOMAIN purged : k # f => purged'[k] = purged[k]
      /\ \A k \in DOMAIN table' : table'[k] = table[k]
  BY KeepsFacts
<1>2. /\ \A n \in DOMAIN funcs : funcs[n].scope = MergedScope
      /\ \A n \in DOMAIN table : table[n].scope = MergedScope
      /\ \A n \in DOMAIN purged : purged[n].scope = MergedScope
  BY DEF Scopes, Purging
<1>3. \A n \in DOMAIN purged' : purged'[n].scope = MergedScope
  BY <1>1, <1>2
<1>4. QED
  BY <1>1, <1>2, <1>3 DEF Scopes

LEMMA KeepsSymbols ==
  ASSUME Symbols, NEW f, f \in DOMAIN table, Keeps(f), Purging,
         pc' = "scan", funcs' = funcs, objs' = objs
  PROVE  Symbols'
<1>1. /\ DOMAIN purged' = DOMAIN purged \cup {f}
      /\ DOMAIN table' = DOMAIN table \ {f}
      /\ purged'[f] = table[f]
      /\ \A k \in DOMAIN purged : k # f => purged'[k] = purged[k]
      /\ \A k \in DOMAIN table' : table'[k] = table[k]
  BY KeepsFacts
<1>2. /\ \A n \in DOMAIN purged' : purged'[n] \in Symbol
      /\ \A n \in DOMAIN table' : table'[n] \in Symbol
  BY <1>1 DEF Symbols
<1>3. DOMAIN table' \cup DOMAIN purged' = DOMAIN table \cup DOMAIN purged
  BY <1>1
<1>4. QED
  BY <1>2, <1>3 DEF Symbols, Purging

\* The operand looked at has a symbol: the object file it comes from declares
\* it, so the merged table got a symbol for it.
LEMMA OperandKnown ==
  ASSUME Inv, AtOperand
  PROVE  /\ queue # <<>>
         /\ Head(queue) \in DOMAIN purged
         /\ Head(queue) \in DOMAIN funcs
         /\ Front.refs \in Seq(Names)
         /\ pos \in DOMAIN Front.refs
         /\ Operand \in Names
         /\ Operand \notin DOMAIN purged => Operand \in DOMAIN table
<1>1. TypeOK /\ Sources /\ Symbols /\ Frontier /\ pc = "scan" /\ Purging
  BY DEF Inv, LinkInv, AtOperand, Purging
<1>2. queue # <<>> /\ Head(queue) \in DOMAIN purged
  BY <1>1 DEF Frontier
<1>3. /\ Head(queue) \in DOMAIN funcs /\ Head(queue) \in Names
      /\ Front.refs \in Seq(Names)
  BY <1>1, <1>2, FrontFacts
<1>4. pos \in 1..Len(Front.refs)
  BY <1>1, <1>3 DEF AtOperand, TypeOK
<1>5. pos \in DOMAIN Front.refs /\ Operand \in Names
  BY <1>1, <1>2, <1>4, FrontFacts
<1>6. PICK o \in 1..Len(objs) : \E i \in DOMAIN objs[o].defs : Front.refs = objs[o].defs[i].refs
  BY <1>1, <1>3 DEF Sources, Front
<1>7. Operand \in DOMAIN objs[o].syms
  BY <1>1, <1>5, <1>6, FileFacts DEF TypeOK, Operand
<1>8. Holders(objs, Operand) # {}
  BY <1>7 DEF Holders
<1>9. Operand \in DOMAIN table \cup DOMAIN purged
  BY <1>1, <1>5, <1>8 DEF Symbols
<1>10. QED
  BY <1>2, <1>3, <1>5, <1>9

\* The functions of the linked program are those kept.
LEMMA ReplaceFacts ==
  ASSUME Inv, Replace
  PROVE  /\ Range(emitted) = DOMAIN purged \cap DOMAIN funcs
         /\ DOMAIN funcs' = Range(emitted)
         /\ DOMAIN funcs' \subseteq DOMAIN funcs
         /\ \A n \in DOMAIN funcs' : funcs'[n] = funcs[n]
<1>1. Range(emitted) = DOMAIN purged \cap DOMAIN funcs
  BY DEF Inv, LinkInv, Emission, Replace, Purging
<1>2. DOMAIN funcs' = Range(emitted) /\ \A n \in Range(emitted) : funcs'[n] = funcs[n]
  BY DEF Replace, Restrict
<1>3. QED
  BY <1>1, <1>2

\* Sources is kept by a step that leaves the files alone and only drops functions:
\* what is left refers to what it referred to.
LEMMA SourcesKept ==
  ASSUME Sources, objs' = objs, next' = next,
         pc \notin {"append", "failed"} \/ next > Len(objs),
         pc' \in {"done", "failed"} \/ DOMAIN funcs \subseteq DOMAIN funcs',
         pc' \in {"done", "failed"} \/ pc \notin {"done", "failed"},
         DOMAIN funcs' \subseteq DOMAIN funcs,
         \A n \in DOMAIN funcs' : funcs'[n].refs = funcs[n].refs /\ funcs'[n].obj = funcs[n].obj
  PROVE  Sources'
<1>1. pc' \notin {"append", "failed"} => next' > Len(objs')
  BY DEF Sources
<1>2. ASSUME pc' \notin {"done", "failed"},
             NEW o \in 1..Len(objs), o < next, NEW i \in DOMAIN objs[o].defs
      PROVE  /\ objs[o].defs[i].name \in DOMAIN funcs'
             /\ funcs'[objs[o].defs[i].name].refs = objs[o].defs[i].refs
  BY <1>2 DEF Sources
<1>3. ASSUME NEW n \in DOMAIN funcs'
      PROVE  \E o \in 1..Len(objs) : \E i \in DOMAIN objs[o].defs :
               /\ objs[o].defs[i].name = n
               /\ funcs'[n].refs = objs[o].defs[i].refs
               /\ funcs'[n].obj = o
  BY DEF Sources
<1>4. QED
  BY <1>1, <1>2, <1>3 DEF Sources

LEMMA SourcesStep == Inv /\ [Next]_vars => Sources'
<1> SUFFICES ASSUME Inv, [Next]_vars PROVE Sources'
  OBVIOUS
<1>0. TypeOK /\ Sources /\ Symbols /\ Len(objs) \in Nat \ {0} /\ next \in Nat
  BY InputLength DEF Inv, LinkInv, TypeOK
<1>1. CASE AppendObject
  <2> DEFINE defs == objs[next].defs
             new == NamesOf(defs)
  <2>1. next \in 1..Len(objs) /\ ~ Clashes(defs) /\ next' = next + 1 /\ objs' = objs /\ pc = "append" /\ pc' = "append"
    BY <1>0, <1>1 DEF AppendObject, TypeOK
  <2>2. /\ DOMAIN funcs' = DOMAIN funcs \cup new
        /\ \A n \in new : funcs'[n] = [obj |-> next, refs |-> RefsOf(defs, n), scope |-> next]
        /\ \A n \in DOMAIN funcs : n \notin new => funcs'[n] = funcs[n]
    BY <1>1 DEF AppendObject
  <2>3. \A n \in DOMAIN funcs : n \notin new
    BY <1>0, <2>1 DEF Clashes, Symbols
  <2>4. ASSUME NEW o \in 1..Len(objs), o < next + 1, NEW i \in DOMAIN objs[o].defs
        PROVE  /\ objs[o].defs[i].name \in DOMAIN funcs'
               /\ funcs'[objs[o].defs[i].name].refs = objs[o].defs[i].refs
    <3>1. CASE o < next
      BY <1>0, <2>1, <2>2, <2>3, <3>1 DEF Sources
    <3>2. CASE o = next
      BY <1>0, <2>1, <2>2, <3>2, RefsOfFacts
    <3>3. QED
      BY <1>0, <2>4, <3>1, <3>2
  <2>5. ASSUME NEW n \in DOMAIN funcs'
        PROVE  \E o \in 1..Len(objs) : \E i \in DOMAIN objs[o].defs :
                 /\ o < next + 1
                 /\ objs[o].defs[i].name = n
                 /\ funcs'[n].refs = objs[o].defs[i].refs
                 /\ funcs'[n].obj = o
    <3>1. CASE n \in new
      <4>1. PICK i \in DOMAIN defs : defs[i].name = n
        BY <3>1 DEF NamesOf
      <4>2. QED
        BY <1>0, <2>1, <2>2, <3>1, <4>1, RefsOfFacts
    <3>2. CASE n \notin new
      <4>1. PICK o \in 1..Len(objs) : \E i \in DOMAIN objs[o].defs :
              /\ o < next
              /\ objs[o].defs[i].name = n
              /\ funcs[n].refs = objs[o].defs[i].refs
              /\ funcs[n].obj = o
        BY <1>0, <2>2, <3>2 DEF Sources
      <4>2. o < next + 1 /\ funcs'[n] = funcs[n]
        BY <1>0, <2>2, <3>2, <4>1
      <4>3. QED
        BY <4>1, <4>2
    <3>3. QED
      BY <3>1, <3>2
  <2>6. QED
    BY <2>1, <2>4, <2>5 DEF Sources
<1>2. CASE Fixup
  <2>1. /\ DOMAIN funcs' = DOMAIN funcs
        /\ \A n \in DOMAIN funcs : funcs'[n].refs = funcs[n].refs /\ funcs'[n].obj = funcs[n].obj
    BY <1>0, <1>2 DEF Fixup, TypeOK, LinkedFunction
  <2>2. pc = "merge" /\ pc' = "root" /\ objs' = objs /\ next' = next
    BY <1>2 DEF Fixup
  <2>3. next > Len(objs)
    BY <1>0, <2>2 DEF Sources
  <2>4. QED
    BY <1>0, <2>1, <2>2, <2>3, SourcesKept
<1>3. CASE Replace
  <2>1. /\ DOMAIN funcs' \subseteq DOMAIN funcs
        /\ \A n \in DOMAIN funcs' : funcs'[n] = funcs[n]
    BY <1>3, ReplaceFacts
  <2>2. pc = "purge" /\ pc' = "done" /\ objs' = objs /\ next' = next
    BY <1>3 DEF Replace
  <2>3. next > Len(objs)
    BY <1>0, <2>2 DEF Sources
  <2>4. QED
    BY <1>0, <2>1, <2>2, <2>3, SourcesKept
<1>4. CASE RejectRedefinition
  BY <1>0, <1>4 DEF RejectRedefinition, Fail, Sources
<1>5. CASE FillPool
  <2>1. pc = "append" /\ pc' = "merge" /\ objs' = objs /\ funcs' = funcs /\ next' = next /\ next > Len(objs)
    BY <1>5 DEF FillPool
  <2>2. QED
    BY <1>0, <2>1 DEF Sources
<1>6. ASSUME NEW n \in Names, SkipName(n) \/ MergeName(n) \/ RejectName(n) PROVE Sources'
  <2>1. /\ UNCHANGED <<objs, next, funcs>>
        /\ pc = "merge" /\ pc' \in {"merge", "failed"}
    BY <1>6 DEF SkipName, MergeName, RejectName, Fail
  <2>2. QED
    BY <1>0, <2>1 DEF Sources
<1>7. CASE RejectNoMain \/ StartPurge \/ PopVisited \/ KeepFunction
  <2>1. /\ UNCHANGED <<objs, next, funcs>>
        /\ pc \in {"root", "purge"}
        /\ pc' \in {"failed", "scan", "purge"}
    BY <1>7 DEF RejectNoMain, StartPurge, PopVisited, KeepFunction, Fail
  <2>2. QED
    BY <1>0, <2>1 DEF Sources
<1>8. CASE SkipOperand \/ QueueOperand \/ KeepOperand \/ PopScanned
  <2>1. UNCHANGED <<objs, next, funcs>> /\ pc \in {"scan"} /\ pc' \in {"scan", "purge"}
    BY <1>8 DEF SkipOperand, QueueOperand, KeepOperand, PopScanned, AtOperand
  <2>2. QED
    BY <1>0, <2>1 DEF Sources
<1>9. CASE UNCHANGED vars
  BY <1>0, <1>9 DEF vars, Sources
<1>10. QED
  BY <1>1, <1>2, <1>3, <1>4, <1>5, <1>6, <1>7, <1>8, <1>9 DEF Next, Step, Stopped

LEMMA ScopesStep == Inv /\ [Next]_vars => Scopes'
<1> SUFFICES ASSUME Inv, [Next]_vars PROVE Scopes'
  OBVIOUS
<1>0. TypeOK /\ Scopes /\ Symbols
  BY DEF Inv, LinkInv
<1>1. CASE AppendObject
  <2>1. /\ \A n \in DOMAIN funcs' : \/ n \in DOMAIN funcs /\ funcs'[n] = funcs[n]
                                    \/ funcs'[n].scope = next /\ funcs'[n].obj = next
        /\ pc = "append" /\ pc' = "append"
    BY <1>1 DEF AppendObject
  <2>2. QED
    BY <1>0, <2>1 DEF Scopes
<1>2. CASE Fixup
  <2>1. /\ \A n \in DOMAIN funcs : funcs'[n].scope = MergedScope
        /\ DOMAIN funcs' = DOMAIN funcs
    BY <1>0, <1>2 DEF Fixup, Scopes, TypeOK, LinkedFunction
  <2>2. ASSUME NEW n \in DOMAIN table PROVE table'[n].scope = MergedScope
    <3>1. table[n] \in Symbol
      BY <1>0 DEF Symbols
    <3>2. QED
      BY <1>2, <3>1 DEF Fixup, Symbol
  <2>3. DOMAIN table' = DOMAIN table /\ DOMAIN purged' = {} /\ pc' = "root"
    BY <1>0, <1>2 DEF Fixup, Symbols
  <2>4. QED
    BY <2>1, <2>2, <2>3 DEF Scopes
<1>3. CASE KeepFunction
  <2>1. queue # <<>> /\ Head(queue) \in DOMAIN table
    <3>1. queue # <<>> /\ pc = "purge" /\ Head(queue) \notin DOMAIN purged
      BY <1>3 DEF KeepFunction
    <3>2. Head(queue) \in DOMAIN funcs
      BY <1>0, <3>1, FrontFacts DEF Inv, LinkInv, Purging
    <3>3. QED
      BY <1>0, <3>1, <3>2 DEF Symbols
  <2>2. Keeps(Head(queue)) /\ pc' = "scan" /\ pc = "purge" /\ funcs' = funcs
    BY <1>3 DEF KeepFunction
  <2>3. QED
    BY <1>0, <2>1, <2>2, KeepsScopes DEF Purging
<1>4. CASE KeepOperand
  <2>1. Operand \in DOMAIN table
    BY <1>4, OperandKnown DEF KeepOperand
  <2>2. Keeps(Operand) /\ pc' = "scan" /\ pc = "scan" /\ funcs' = funcs
    BY <1>4 DEF KeepOperand, AtOperand
  <2>3. QED
    BY <1>0, <2>1, <2>2, KeepsScopes DEF Purging
<1>5. CASE Replace
  <2>1. /\ DOMAIN funcs' \subseteq DOMAIN funcs
        /\ \A n \in DOMAIN funcs' : funcs'[n] = funcs[n]
    BY <1>5, ReplaceFacts
  <2>2. QED
    BY <1>0, <1>5, <2>1 DEF Replace, Scopes
<1>6. CASE RejectRedefinition \/ RejectNoMain
  BY <1>6 DEF RejectRedefinition, RejectNoMain, Fail, Scopes
<1>7. CASE FillPool
  BY <1>0, <1>7 DEF FillPool, Scopes
<1>8. ASSUME NEW n \in Names, SkipName(n) \/ MergeName(n) \/ RejectName(n) PROVE Scopes'
  BY <1>0, <1>8 DEF SkipName, MergeName, RejectName, Fail, Scopes
<1>9. CASE StartPurge \/ PopVisited
  BY <1>0, <1>9 DEF StartPurge, PopVisited, Scopes
<1>10. CASE SkipOperand \/ QueueOperand \/ PopScanned
  BY <1>0, <1>10 DEF SkipOperand, QueueOperand, PopScanned, AtOperand, Scopes
<1>11. CASE UNCHANGED vars
  BY <1>0, <1>11 DEF vars, Scopes
<1>12. QED
  BY <1>1, <1>2, <1>3, <1>4, <1>5, <1>6, <1>7, <1>8, <1>9, <1>10, <1>11 DEF Next, Step, Stopped

LEMMA SymbolsStep == Inv /\ [Next]_vars => Symbols'
<1> SUFFICES ASSUME Inv, [Next]_vars PROVE Symbols'
  OBVIOUS
<1>0. TypeOK /\ Symbols
  BY DEF Inv, LinkInv
<1>1. CASE AppendObject
  <2> DEFINE new == NamesOf(objs[next].defs)
  <2>1. next \in 1..Len(objs) /\ ~ Clashes(objs[next].defs)
    BY <1>0, <1>1, InputLength DEF AppendObject, TypeOK
  <2>2. ASSUME NEW n \in new PROVE SymbolOf(next, n) \in Symbol
    <3>1. PICK i \in DOMAIN objs[next].defs : objs[next].defs[i].name = n
      BY DEF NamesOf
    <3>2. QED
      BY <1>0, <2>1, <3>1, RefsOfFacts, SymbolOfType
  <2>3. /\ DOMAIN table' = DOMAIN table \cup new
        /\ DOMAIN funcs' = DOMAIN funcs \cup new
        /\ \A n \in DOMAIN table' : table'[n] = IF n \in new THEN SymbolOf(next, n) ELSE table[n]
        /\ pc = "append" /\ pc' = "append" /\ purged' = purged /\ emitted' = emitted
    BY <1>1 DEF AppendObject
  <2>4. \A n \in DOMAIN table' : table'[n] \in Symbol
    BY <1>0, <2>2, <2>3 DEF Symbols
  <2>5. QED
    BY <1>0, <2>3, <2>4 DEF Symbols, Purging
<1>2. CASE FillPool
  BY <1>0, <1>2 DEF FillPool, Symbols, Purging
<1>3. ASSUME NEW n \in Names, SkipName(n) PROVE Symbols'
  BY <1>0, <1>3 DEF SkipName, Symbols, Purging
<1>4. ASSUME NEW n \in Names, MergeName(n) PROVE Symbols'
  <2>1. PICK o \in Holders(objs, n) : table' = Insert(table, n, SymbolOf(o, n))
    BY <1>4 DEF MergeName
  <2>2. SymbolOf(o, n) \in Symbol
    BY <1>0, <2>1, SymbolOfType DEF Holders
  <2>3. DOMAIN table' = DOMAIN table \cup {n} /\ \A k \in DOMAIN table' : table'[k] \in Symbol
    BY <1>0, <2>1, <2>2 DEF Insert, Symbols
  <2>4. QED
    BY <1>0, <1>4, <2>3 DEF MergeName, Symbols, Purging
<1>5. ASSUME NEW n \in Names, RejectName(n) PROVE Symbols'
  BY <1>0, <1>5 DEF RejectName, Fail, Symbols, Purging
<1>6. CASE Fixup
  <2>1. ASSUME NEW n \in DOMAIN table PROVE table'[n] \in Symbol
    BY <1>0, <1>6 DEF Fixup, Symbols, Symbol, MergedScope
  <2>2. DOMAIN table' = DOMAIN table /\ DOMAIN funcs' = DOMAIN funcs
    BY <1>6 DEF Fixup
  <2>3. QED
    BY <1>0, <1>6, <2>1, <2>2 DEF Fixup, Symbols, Purging
<1>7. CASE StartPurge
  BY <1>0, <1>7 DEF StartPurge, Symbols, Purging
<1>8. CASE PopVisited \/ PopScanned
  BY <1>0, <1>8 DEF PopVisited, PopScanned, Symbols, Purging
<1>9. CASE KeepFunction
  <2>1. queue # <<>> /\ pc = "purge" /\ Purging /\ Head(queue) \notin DOMAIN purged
    BY <1>9 DEF KeepFunction, Purging
  <2>2. Head(queue) \in DOMAIN table
    BY <1>0, <2>1, FrontFacts DEF Inv, LinkInv, Symbols
  <2>3. Keeps(Head(queue)) /\ pc' = "scan" /\ funcs' = funcs /\ objs' = objs
    BY <1>9 DEF KeepFunction
  <2>4. QED
    BY <1>0, <2>1, <2>2, <2>3, KeepsSymbols
<1>10. CASE KeepOperand
  <2>1. Operand \in DOMAIN table /\ Purging
    BY <1>10, OperandKnown DEF KeepOperand, AtOperand, Purging
  <2>2. Keeps(Operand) /\ pc' = "scan" /\ funcs' = funcs /\ objs' = objs
    BY <1>10 DEF KeepOperand, AtOperand
  <2>3. QED
    BY <1>0, <2>1, <2>2, KeepsSymbols
<1>11. CASE SkipOperand \/ QueueOperand
  BY <1>0, <1>11 DEF SkipOperand, QueueOperand, AtOperand, Symbols, Purging
<1>12. CASE Replace
  <2>1. DOMAIN funcs' \subseteq DOMAIN table' /\ table' = purged /\ purged' = purged /\ pc' = "done"
    BY <1>12, ReplaceFacts DEF Replace
  <2>2. QED
    BY <1>0, <2>1 DEF Symbols, Purging
<1>13. CASE RejectRedefinition \/ RejectNoMain
  BY <1>0, <1>13 DEF RejectRedefinition, RejectNoMain, Fail, Symbols, Purging
<1>14. CASE UNCHANGED vars
  BY <1>0, <1>14 DEF vars, Symbols, Purging
<1>15. QED
  BY <1>1, <1>2, <1>3, <1>4, <1>5, <1>6, <1>7, <1>8, <1>9, <1>10, <1>11, <1>12, <1>13, <1>14
     DEF Next, Step, Stopped

LEMMA EmissionStep == Inv /\ [Next]_vars => Emission'
<1> SUFFICES ASSUME Inv, [Next]_vars PROVE Emission'
  OBVIOUS
<1>0. TypeOK /\ Symbols /\ Emission
  BY DEF Inv, LinkInv
<1>1. CASE StartPurge
  <2>1. emitted' = <<>> /\ DOMAIN purged' = {} /\ Main \in DOMAIN funcs'
    BY <1>0, <1>1 DEF StartPurge, Symbols
  <2>2. QED
    BY <2>1 DEF Emission, Range
<1>2. CASE KeepFunction
  <2> DEFINE f == Head(queue)
  <2>1. queue # <<>> /\ pc = "purge" /\ Purging /\ f \notin DOMAIN purged
    BY <1>2 DEF KeepFunction, Purging
  <2>2. f \in DOMAIN funcs /\ f \in Names
    BY <1>0, <2>1, FrontFacts DEF Inv, LinkInv
  <2>3. f \in DOMAIN table
    BY <1>0, <2>1, <2>2 DEF Symbols
  <2>4. DOMAIN purged' = DOMAIN purged \cup {f} /\ emitted' = Append(emitted, f) /\ funcs' = funcs
    <3>1. Keeps(f)
      BY <1>2 DEF KeepFunction
    <3>2. QED
      BY <1>2, <2>3, <3>1, KeepsFacts DEF KeepFunction
  <2>5. Range(emitted) = DOMAIN purged \cap DOMAIN funcs
    BY <1>0, <2>1 DEF Emission
  <2>6. emitted \in Seq(Names)
    BY <1>0 DEF TypeOK
  <2>7. Range(emitted') = Range(emitted) \cup {f}
    BY <2>2, <2>4, <2>6, RangeAppend
  <2>8. ASSUME NEW i \in DOMAIN emitted', NEW j \in DOMAIN emitted', emitted'[i] = emitted'[j]
        PROVE  i = j
    <3>1. /\ DOMAIN emitted' = 1..(Len(emitted) + 1) /\ DOMAIN emitted = 1..Len(emitted)
          /\ \A k \in 1..Len(emitted) : emitted'[k] = emitted[k]
          /\ emitted'[Len(emitted) + 1] = f
          /\ Len(emitted) \in Nat
      BY <2>2, <2>4, <2>6
    <3>2. \A k \in 1..Len(emitted) : emitted[k] # f
      BY <2>1, <2>5, <3>1 DEF Range
    <3>3. QED
      BY <1>0, <2>8, <3>1, <3>2 DEF Emission
  <2>9. Main \in DOMAIN funcs
    BY <1>0, <2>1 DEF Emission
  <2>10. QED
    BY <2>2, <2>4, <2>5, <2>7, <2>8, <2>9 DEF Emission
<1>3. CASE KeepOperand
  <2>1. Operand \in DOMAIN table /\ Keeps(Operand)
    BY <1>3, OperandKnown DEF KeepOperand
  <2>2. DOMAIN purged' = DOMAIN purged \cup {Operand}
    BY <2>1, KeepsFacts
  <2>3. QED
    BY <1>0, <1>3, <2>2 DEF KeepOperand, AtOperand, Emission, Purging
<1>4. CASE PopVisited \/ PopScanned \/ SkipOperand \/ QueueOperand
  BY <1>0, <1>4 DEF PopVisited, PopScanned, SkipOperand, QueueOperand, AtOperand, Emission, Purging
<1>5. CASE RejectRedefinition \/ RejectNoMain \/ AppendObject \/ FillPool \/ Fixup \/ Replace
  BY <1>0, <1>5 DEF RejectRedefinition, RejectNoMain, Fail, AppendObject, FillPool, Fixup,
                    Replace, Emission, Purging
<1>6. ASSUME NEW n \in Names, SkipName(n) \/ MergeName(n) \/ RejectName(n) PROVE Emission'
  BY <1>0, <1>6 DEF SkipName, MergeName, RejectName, Fail, Emission, Purging
<1>7. CASE UNCHANGED vars
  BY <1>0, <1>7 DEF vars, Emission, Purging
<1>8. QED
  BY <1>1, <1>2, <1>3, <1>4, <1>5, <1>6, <1>7 DEF Next, Step, Stopped

\* What a needed function refers to is needed.
LEMMA ReachableClosed ==
  ASSUME Inv, NEW f \in DOMAIN funcs, f \in Reachable(objs), NEW j \in DOMAIN funcs[f].refs
  PROVE  funcs[f].refs[j] \in Reachable(objs)
<1> DEFINE r == funcs[f].refs[j]
<1>1. PICK o \in 1..Len(objs) : \E i \in DOMAIN objs[o].defs :
         objs[o].defs[i].name = f /\ funcs[f].refs = objs[o].defs[i].refs
  BY DEF Inv, LinkInv, Sources
<1>2. PICK i \in DOMAIN objs[o].defs :
         objs[o].defs[i].name = f /\ funcs[f].refs = objs[o].defs[i].refs
  BY <1>1
<1>3. r \in Names
  <2>1. objs[o].defs[i].refs \in Seq(Names)
    BY FileFacts DEF Inv, TypeOK
  <2>2. QED
    BY <1>2, <2>1
<1>4. ASSUME NEW T \in SUBSET Names, Main \in T, Closed(objs, T) PROVE r \in T
  <2>1. f \in T
    BY <1>4 DEF Reachable
  <2>2. QED
    BY <1>2, <1>4, <2>1 DEF Closed
<1>5. QED
  BY <1>3, <1>4 DEF Reachable

LEMMA FrontierStep == Inv /\ [Next]_vars => Frontier'
<1> SUFFICES ASSUME Inv, [Next]_vars PROVE Frontier'
  OBVIOUS
<1>0. TypeOK /\ Scopes /\ Symbols /\ Frontier /\ queue \in Seq(Names)
  BY DEF Inv, LinkInv, TypeOK
<1>1. CASE StartPurge
  <2>1. Range(queue') = {Main} /\ DOMAIN purged' = {} /\ Main \in DOMAIN funcs' /\ pc' = "purge" /\ objs' = objs
    BY <1>0, <1>1 DEF StartPurge, Symbols, Range
  <2>2. Main \in Reachable(objs)
    BY NamesAssumption DEF Reachable
  <2>3. QED
    BY <2>1, <2>2 DEF Frontier
<1>2. CASE PopVisited
  <2>1. queue # <<>> /\ Purging /\ pc' = pc /\ pc = "purge" /\ Head(queue) \in DOMAIN purged
        /\ queue' = Tail(queue) /\ UNCHANGED <<objs, funcs, purged>>
    BY <1>2 DEF PopVisited, Purging
  <2>2. Range(queue) = Range(queue') \cup {Head(queue)}
    BY <1>0, <2>1, RangeTail
  <2>3. QED
    BY <1>0, <2>1, <2>2 DEF Frontier
<1>3. CASE KeepFunction
  <2> DEFINE f == Head(queue)
  <2>1. /\ queue # <<>> /\ pc = "purge" /\ Purging /\ f \notin DOMAIN purged
        /\ pc' = "scan" /\ pos' = 1 /\ UNCHANGED <<objs, funcs, queue>>
    BY <1>3 DEF KeepFunction, Purging
  <2>2. f \in DOMAIN funcs /\ f \in Range(queue) /\ Front.refs \in Seq(Names)
    BY <1>0, <2>1, FrontFacts
  <2>3. f \in DOMAIN table
    BY <1>0, <2>1, <2>2 DEF Symbols
  <2>4. DOMAIN purged' = DOMAIN purged \cup {f}
    BY <1>3, <2>3, KeepsFacts DEF KeepFunction
  <2>5. ASSUME NEW g \in DOMAIN purged' \cap DOMAIN funcs, NEW j \in DOMAIN funcs[g].refs
        PROVE  funcs[g].refs[j] \in DOMAIN purged' \cup Range(queue) \/ (g = f /\ j >= 1)
    <3>1. CASE g = f
      BY <2>2, <3>1 DEF Front
    <3>2. CASE g # f
      BY <1>0, <2>1, <2>4, <3>2 DEF Frontier
    <3>3. QED
      BY <3>1, <3>2
  <2>6. QED
    BY <1>0, <2>1, <2>2, <2>4, <2>5 DEF Frontier
<1>4. CASE SkipOperand \/ QueueOperand \/ KeepOperand
  <2> DEFINE f == Head(queue)
             next_pos == pos + 1
  <2>1. AtOperand /\ Purging /\ pc = "scan" /\ pc' = "scan" /\ pos' = pos + 1 /\ UNCHANGED <<objs, funcs>>
    BY <1>4 DEF SkipOperand, QueueOperand, KeepOperand, AtOperand, Purging
  <2>2. /\ queue # <<>> /\ f \in DOMAIN purged /\ f \in DOMAIN funcs
        /\ Front.refs \in Seq(Names) /\ pos \in DOMAIN Front.refs /\ Operand \in Names
        /\ Operand \notin DOMAIN purged => Operand \in DOMAIN table
    BY <2>1, OperandKnown
  <2>3. Front.scope = MergedScope
    BY <1>0, <2>1, <2>2 DEF Scopes, Front
  <2>4. Operand = funcs[f].refs[pos]
    BY DEF Operand, Front
  <2>5. Operand \in Reachable(objs)
    BY <1>0, <2>1, <2>2, <2>4, ReachableClosed DEF Frontier, Front
  <2>6. /\ queue' # <<>> /\ Head(queue') = f
        /\ DOMAIN purged' \subseteq DOMAIN purged \cup {Operand}
        /\ Range(queue') \subseteq Range(queue) \cup {Operand}
        /\ DOMAIN purged \subseteq DOMAIN purged' /\ Range(queue) \subseteq Range(queue')
        /\ DOMAIN purged' \cap DOMAIN funcs = DOMAIN purged \cap DOMAIN funcs
        /\ Range(queue') \subseteq DOMAIN funcs
        /\ Operand \in DOMAIN purged' \cup Range(queue')
    <3>1. CASE SkipOperand
      BY <1>0, <2>1, <2>2, <2>3, <3>1 DEF SkipOperand, Frontier
    <3>2. CASE QueueOperand
      <4>1. Range(queue') = Range(queue) \cup {Operand}
        BY <1>0, <2>2, <3>2, RangeAppend DEF QueueOperand
      <4>2. queue' # <<>> /\ Head(queue') = Head(queue)
        BY <1>0, <2>2, <3>2 DEF QueueOperand
      <4>3. QED
        BY <1>0, <2>1, <3>2, <4>1, <4>2 DEF QueueOperand, Frontier
    <3>3. CASE KeepOperand
      <4>1. DOMAIN purged' = DOMAIN purged \cup {Operand}
        BY <2>2, <3>3, KeepsFacts DEF KeepOperand
      <4>2. QED
        BY <1>0, <2>1, <2>2, <3>3, <4>1 DEF KeepOperand, Frontier
    <3>4. QED
      BY <1>4, <3>1, <3>2, <3>3
  <2>7. ASSUME NEW g \in DOMAIN purged' \cap DOMAIN funcs, NEW j \in DOMAIN funcs[g].refs
        PROVE  funcs[g].refs[j] \in DOMAIN purged' \cup Range(queue') \/ (g = f /\ j >= pos + 1)
    <3>1. funcs[g].refs[j] \in DOMAIN purged \cup Range(queue) \/ (g = f /\ j >= pos)
      BY <1>0, <2>1, <2>6 DEF Frontier
    <3>2. CASE g = f /\ j >= pos
      <4>1. j \in Nat /\ pos \in Nat
        BY <1>0, <2>2, <3>2 DEF Front, TypeOK
      <4>2. CASE j = pos
        BY <2>4, <2>6, <3>2, <4>2
      <4>3. CASE j # pos
        BY <3>2, <4>1, <4>3
      <4>4. QED
        BY <4>2, <4>3
    <3>3. QED
      BY <2>6, <3>1, <3>2
  <2>8. DOMAIN purged' \cup Range(queue') \subseteq Reachable(objs)
    BY <1>0, <2>1, <2>5, <2>6 DEF Frontier
  <2>9. Main \in DOMAIN purged' \cup Range(queue')
    BY <1>0, <2>1, <2>6 DEF Frontier
  <2>10. QED
    BY <2>1, <2>2, <2>6, <2>7, <2>8, <2>9 DEF Frontier
<1>5. CASE PopScanned
  <2> DEFINE f == Head(queue)
  <2>1. pc = "scan" /\ Purging /\ pc' = "purge" /\ pos > Len(Front.refs)
        /\ queue' = Tail(queue) /\ UNCHANGED <<objs, funcs, purged>>
    BY <1>5 DEF PopScanned, Purging
  <2>2. queue # <<>> /\ f \in DOMAIN purged
    BY <1>0, <2>1 DEF Frontier
  <2>3. Range(queue) = Range(queue') \cup {f}
    BY <1>0, <2>1, <2>2, RangeTail
  <2>4. ASSUME NEW g \in DOMAIN purged \cap DOMAIN funcs, NEW j \in DOMAIN funcs[g].refs
        PROVE  funcs[g].refs[j] \in DOMAIN purged \cup Range(queue')
    <3>1. ~ (g = f /\ j >= pos)
      <4>1. Front.refs \in Seq(Names) /\ pos \in Nat
        BY <1>0, <2>1, <2>2, FrontFacts DEF TypeOK
      <4>2. QED
        BY <2>1, <4>1 DEF Front
    <3>2. QED
      BY <1>0, <2>1, <2>2, <2>3, <3>1 DEF Frontier
  <2>5. QED
    BY <1>0, <2>1, <2>2, <2>3, <2>4 DEF Frontier, Purging
<1>6. CASE RejectRedefinition \/ RejectNoMain \/ AppendObject \/ FillPool \/ Fixup \/ Replace
  BY <1>6 DEF RejectRedefinition, RejectNoMain, Fail, AppendObject, FillPool, Fixup,
              Replace, Frontier, Purging
<1>7. ASSUME NEW n \in Names, SkipName(n) \/ MergeName(n) \/ RejectName(n) PROVE Frontier'
  BY <1>7 DEF SkipName, MergeName, RejectName, Fail, Frontier, Purging
<1>8. CASE UNCHANGED vars
  BY <1>0, <1>8 DEF vars, Frontier, Purging
<1>9. QED
  BY <1>1, <1>2, <1>3, <1>4, <1>5, <1>6, <1>7, <1>8 DEF Next, Step, Stopped

-----------------------------------------------------------------------------
(***************************************************************************)
(* The image.  When the queue is empty, the kept names are a closed set    *)
(* that holds main, so they include the least one; by Frontier they were   *)
(* never more.                                                             *)
(***************************************************************************)
\* Once every file is appended, func_map has the functions of the program.
LEMMA AllAppended ==
  ASSUME Inv, pc \in {"merge", "root", "purge"}
  PROVE  DOMAIN funcs = Defined(objs) /\ ~ Redefined(objs)
<1>1. Sources /\ DefinedOnce /\ TypeOK /\ next > Len(objs)
  BY DEF Inv, LinkInv, Sources
<1>2. \A o \in 1..Len(objs) : o < next
  BY <1>1, InputLength DEF TypeOK
<1>3. DOMAIN funcs \subseteq Defined(objs)
  BY <1>1 DEF Sources, Defined, TypeOK
<1>4. ASSUME NEW n \in Defined(objs) PROVE n \in DOMAIN funcs
  BY <1>1, <1>2 DEF Sources, Defined
<1>5. ~ Redefined(objs)
  BY <1>1, <1>2 DEF DefinedOnce, Redefined
<1>6. QED
  BY <1>3, <1>4, <1>5

LEMMA ReplaceImage ==
  ASSUME Inv, Replace
  PROVE  /\ DOMAIN purged = Reachable(objs)
         /\ \A f \in Range(emitted) : Range(funcs[f].refs) \subseteq DOMAIN purged
<1>1. /\ pc = "purge" /\ Purging /\ queue = <<>> /\ Range(queue) = {}
      /\ Sources /\ Frontier /\ TypeOK
  BY DEF Inv, LinkInv, Replace, Purging, Range
<1>2. ASSUME NEW f \in DOMAIN purged \cap DOMAIN funcs, NEW j \in DOMAIN funcs[f].refs
      PROVE  funcs[f].refs[j] \in DOMAIN purged
  BY <1>1 DEF Frontier
<1>3. \A o \in 1..Len(objs) : o < next
  BY <1>1, InputLength DEF Sources, TypeOK
<1>4. Closed(objs, DOMAIN purged)
  BY <1>1, <1>2, <1>3 DEF Closed, Sources
<1>5. DOMAIN purged \in SUBSET Names /\ Main \in DOMAIN purged
  BY <1>1 DEF TypeOK, Frontier
<1>6. Reachable(objs) \subseteq DOMAIN purged
  BY <1>4, <1>5 DEF Reachable
<1>7. DOMAIN purged \subseteq Reachable(objs)
  BY <1>1 DEF Frontier
<1>8. QED
  BY <1>2, <1>6, <1>7, ReplaceFacts DEF Range

LEMMA ImageStep == Inv /\ [Next]_vars => (ImageIsExact /\ ImageIsClosed)'
<1> SUFFICES ASSUME Inv, [Next]_vars PROVE (ImageIsExact /\ ImageIsClosed)'
  OBVIOUS
<1>0. ImageIsExact /\ ImageIsClosed
  BY DEF Inv, LinkInv
<1>1. CASE Replace
  <2>1. pc = "purge" /\ table' = purged /\ emitted' = emitted /\ objs' = objs
    BY <1>1 DEF Replace
  <2>2. DOMAIN purged = Reachable(objs) /\ \A f \in Range(emitted) : Range(funcs[f].refs) \subseteq DOMAIN purged
    BY <1>1, ReplaceImage
  <2>3. /\ Range(emitted) = DOMAIN purged \cap DOMAIN funcs
        /\ DOMAIN funcs' = Range(emitted)
        /\ \A n \in DOMAIN funcs' : funcs'[n] = funcs[n]
    BY <1>1, ReplaceFacts
  <2>4. DOMAIN funcs = Defined(objs)
    BY <2>1, AllAppended
  <2>5. QED
    BY <2>1, <2>2, <2>3, <2>4 DEF ImageIsExact, ImageIsClosed
<1>2. CASE RejectRedefinition \/ RejectNoMain \/ AppendObject \/ FillPool \/ Fixup \/ StartPurge
  BY <1>2 DEF RejectRedefinition, RejectNoMain, Fail, AppendObject, FillPool, Fixup, StartPurge,
              ImageIsExact, ImageIsClosed
<1>3. ASSUME NEW n \in Names, SkipName(n) \/ MergeName(n) \/ RejectName(n)
      PROVE  (ImageIsExact /\ ImageIsClosed)'
  BY <1>3 DEF SkipName, MergeName, RejectName, Fail, ImageIsExact, ImageIsClosed
<1>4. CASE PopVisited \/ KeepFunction \/ SkipOperand \/ QueueOperand \/ KeepOperand \/ PopScanned
  BY <1>4 DEF PopVisited, KeepFunction, SkipOperand, QueueOperand, KeepOperand, PopScanned,
              AtOperand, ImageIsExact, ImageIsClosed
<1>5. CASE UNCHANGED vars
  BY <1>0, <1>5 DEF vars, ImageIsExact, ImageIsClosed
<1>6. QED
  BY <1>1, <1>2, <1>3, <1>4, <1>5 DEF Next, Step, Stopped

\* A file is appended only when it defines none of the functions that are there.
LEMMA DefinedOnceStep == Inv /\ [Next]_vars => DefinedOnce'
<1> SUFFICES ASSUME Inv, [Next]_vars PROVE DefinedOnce'
  OBVIOUS
<1>0. TypeOK /\ Sources /\ Symbols /\ DefinedOnce /\ Len(objs) \in Nat \ {0} /\ next \in Nat
  BY InputLength DEF Inv, LinkInv, TypeOK
<1>1. CASE AppendObject
  <2> DEFINE defs == objs[next].defs
  <2>1. /\ next \in 1..Len(objs) /\ ~ Clashes(defs) /\ next' = next + 1
        /\ objs' = objs /\ pc = "append"
    BY <1>0, <1>1 DEF AppendObject, TypeOK
  <2>2. ASSUME NEW o \in 1..Len(objs), o < next, NEW i \in DOMAIN objs[o].defs,
               NEW j \in DOMAIN defs
        PROVE  objs[o].defs[i].name # defs[j].name
    <3>1. objs[o].defs[i].name \in DOMAIN table
      BY <1>0, <2>1, <2>2 DEF Sources, Symbols
    <3>2. defs[j].name \in NamesOf(defs)
      BY DEF NamesOf
    <3>3. QED
      BY <2>1, <3>1, <3>2 DEF Clashes
  <2>3. ASSUME NEW i \in DOMAIN defs, NEW j \in DOMAIN defs, defs[i].name = defs[j].name
        PROVE  i = j
    BY <2>1, <2>3 DEF Clashes
  <2>4. ASSUME NEW o \in 1..Len(objs), NEW p \in 1..Len(objs), o < next + 1, p < next + 1,
               NEW i \in DOMAIN objs[o].defs, NEW j \in DOMAIN objs[p].defs,
               objs[o].defs[i].name = objs[p].defs[j].name
        PROVE  o = p /\ i = j
    <3>1. (o < next \/ o = next) /\ (p < next \/ p = next)
      BY <1>0, <2>4
    <3>2. CASE o < next /\ p < next
      BY <1>0, <2>1, <2>4, <3>2 DEF DefinedOnce
    <3>3. CASE o < next /\ p = next
      BY <2>2, <2>4, <3>3
    <3>4. CASE o = next /\ p < next
      BY <2>2, <2>4, <3>4
    <3>5. CASE o = next /\ p = next
      BY <2>3, <2>4, <3>5
    <3>6. QED
      BY <3>1, <3>2, <3>3, <3>4, <3>5
  <2> HIDE DEF defs
  <2>5. QED
    BY <2>1, <2>4 DEF DefinedOnce
<1>2. CASE RejectRedefinition \/ RejectNoMain
  BY <1>2 DEF RejectRedefinition, RejectNoMain, Fail, DefinedOnce
<1>3. ASSUME NEW n \in Names, SkipName(n) \/ MergeName(n) \/ RejectName(n) PROVE DefinedOnce'
  BY <1>0, <1>3 DEF SkipName, MergeName, RejectName, Fail, DefinedOnce
<1>4. CASE FillPool \/ Fixup \/ StartPurge \/ PopVisited \/ KeepFunction
  BY <1>0, <1>4 DEF FillPool, Fixup, StartPurge, PopVisited, KeepFunction, DefinedOnce
<1>5. CASE SkipOperand \/ QueueOperand \/ KeepOperand \/ PopScanned \/ Replace
  BY <1>0, <1>5 DEF SkipOperand, QueueOperand, KeepOperand, PopScanned, Replace, AtOperand,
                    DefinedOnce
<1>6. CASE UNCHANGED vars
  BY <1>0, <1>6 DEF vars, DefinedOnce
<1>7. QED
  BY <1>1, <1>2, <1>3, <1>4, <1>5, <1>6 DEF Next, Step, Stopped

\* Moving an entry from one table to the other changes no symbol.
LEMMA KeepsAgreement ==
  ASSUME Agreement, NEW f, f \in DOMAIN table, Keeps(f), funcs' = funcs, objs' = objs
  PROVE  Agreement'
<1>1. /\ DOMAIN purged' = DOMAIN purged \cup {f}
      /\ DOMAIN table' = DOMAIN table \ {f}
      /\ purged'[f] = table[f]
      /\ \A k \in DOMAIN purged : k # f => purged'[k] = purged[k]
      /\ \A k \in DOMAIN table' : table'[k] = table[k]
  BY KeepsFacts
<1>2. /\ \A n \in DOMAIN table' : SpeaksForAll(n, table'[n])
      /\ \A n \in DOMAIN purged' : SpeaksForAll(n, purged'[n])
  BY <1>1 DEF Agreement
<1>3. ASSUME NEW n, NEW s PROVE SpeaksForAll(n, s)' <=> SpeaksForAll(n, s')
  BY DEF SpeaksForAll
<1>4. QED
  BY <1>2 DEF Agreement, SpeaksForAll

LEMMA AgreementStep == Inv /\ [Next]_vars => Agreement'
<1> SUFFICES ASSUME Inv, [Next]_vars PROVE Agreement'
  OBVIOUS
<1>0. TypeOK /\ Symbols /\ Agreement
  BY DEF Inv, LinkInv
<1>1. CASE AppendObject
  <2> DEFINE new == NamesOf(objs[next].defs)
  <2>1. /\ DOMAIN table' = DOMAIN table \cup new
        /\ DOMAIN funcs' = DOMAIN funcs \cup new
        /\ \A n \in new : table'[n] = SymbolOf(next, n) /\ funcs'[n].obj = next
        /\ \A n \in DOMAIN table : n \notin new => table'[n] = table[n]
        /\ \A n \in DOMAIN funcs : n \notin new => funcs'[n] = funcs[n]
        /\ pc = "append" /\ purged' = purged
    BY <1>1 DEF AppendObject
  <2>2. DOMAIN table = DOMAIN funcs /\ DOMAIN purged = {}
    BY <1>0, <2>1 DEF Symbols
  <2>3. \A n \in DOMAIN table' : n \in DOMAIN funcs' /\ table'[n].obj = funcs'[n].obj
    BY <1>0, <2>1, <2>2 DEF Agreement, SpeaksForAll, SymbolOf
  <2> HIDE DEF new
  <2>4. QED
    BY <2>1, <2>2, <2>3 DEF Agreement, SpeaksForAll
<1>2. ASSUME NEW n \in Names, MergeName(n) PROVE Agreement'
  <2>1. PICK front \in Holders(objs, n) :
          /\ Mergeable(objs, n, front)
          /\ table' = Insert(table, n, SymbolOf(front, n))
    BY <1>2 DEF MergeName
  <2>2. n \notin DOMAIN table /\ objs' = objs /\ funcs' = funcs /\ purged' = purged /\ pc = "merge"
    BY <1>2 DEF MergeName
  <2>3. n \notin DOMAIN funcs /\ DOMAIN purged = {}
    BY <1>0, <2>2 DEF Symbols
  <2>4. /\ DOMAIN table' = DOMAIN table \cup {n} /\ table'[n] = SymbolOf(front, n)
        /\ \A k \in DOMAIN table : k # n => table'[k] = table[k]
    BY <2>1 DEF Insert
  <2>5. SymbolOf(front, n).obj = front /\ SymbolOf(front, n).decl = objs[front].syms[n]
    BY DEF SymbolOf
  <2>6. SpeaksForAll(n, table'[n])
    BY <2>1, <2>3, <2>4, <2>5 DEF SpeaksForAll
  <2>7. \A k \in DOMAIN table' : SpeaksForAll(k, table'[k])
    BY <1>0, <2>4, <2>6 DEF Agreement
  <2>8. QED
    BY <2>2, <2>3, <2>7 DEF Agreement, SpeaksForAll
<1>3. CASE Fixup
  <2>1. ASSUME NEW n \in DOMAIN table
        PROVE  table'[n].obj = table[n].obj /\ table'[n].decl = table[n].decl
    <3>1. table[n] \in Symbol
      BY <1>0 DEF Symbols
    <3>2. QED
      BY <1>3, <3>1 DEF Fixup, Symbol
  <2>2. ASSUME NEW n \in DOMAIN funcs PROVE funcs'[n].obj = funcs[n].obj
    <3>1. funcs[n] \in LinkedFunction
      BY <1>0 DEF TypeOK
    <3>2. QED
      BY <1>3, <3>1 DEF Fixup, LinkedFunction
  <2>3. /\ DOMAIN table' = DOMAIN table /\ DOMAIN funcs' = DOMAIN funcs /\ DOMAIN purged = {}
        /\ purged' = purged /\ objs' = objs
    BY <1>0, <1>3 DEF Fixup, Symbols
  <2>4. QED
    BY <1>0, <2>1, <2>2, <2>3 DEF Agreement, SpeaksForAll
<1>4. CASE KeepFunction
  <2>1. queue # <<>> /\ pc = "purge" /\ Purging /\ Head(queue) \notin DOMAIN purged
    BY <1>4 DEF KeepFunction, Purging
  <2>2. Head(queue) \in DOMAIN table
    BY <1>0, <2>1, FrontFacts DEF Inv, LinkInv, Symbols
  <2>3. Keeps(Head(queue)) /\ funcs' = funcs /\ objs' = objs
    BY <1>4 DEF KeepFunction
  <2>4. QED
    BY <1>0, <2>2, <2>3, KeepsAgreement
<1>5. CASE KeepOperand
  <2>1. Operand \in DOMAIN table
    BY <1>5, OperandKnown DEF KeepOperand
  <2>2. Keeps(Operand) /\ funcs' = funcs /\ objs' = objs
    BY <1>5 DEF KeepOperand
  <2>3. QED
    BY <1>0, <2>1, <2>2, KeepsAgreement
<1>6. CASE Replace
  <2>1. /\ Range(emitted) = DOMAIN purged \cap DOMAIN funcs
        /\ DOMAIN funcs' = Range(emitted)
        /\ \A n \in DOMAIN funcs' : funcs'[n] = funcs[n]
        /\ table' = purged /\ purged' = purged /\ objs' = objs
    BY <1>6, ReplaceFacts DEF Replace
  <2>2. QED
    BY <1>0, <2>1 DEF Agreement, SpeaksForAll
<1>7. CASE RejectRedefinition \/ RejectNoMain \/ FillPool \/ StartPurge
  BY <1>0, <1>7 DEF RejectRedefinition, RejectNoMain, Fail, FillPool, StartPurge,
                    Agreement, SpeaksForAll
<1>8. ASSUME NEW n \in Names, SkipName(n) \/ RejectName(n) PROVE Agreement'
  BY <1>0, <1>8 DEF SkipName, RejectName, Fail, Agreement, SpeaksForAll
<1>9. CASE PopVisited \/ PopScanned \/ SkipOperand \/ QueueOperand
  BY <1>0, <1>9 DEF PopVisited, PopScanned, SkipOperand, QueueOperand, Agreement, SpeaksForAll
<1>10. CASE UNCHANGED vars
  BY <1>0, <1>10 DEF vars, Agreement, SpeaksForAll
<1>11. QED
  BY <1>1, <1>2, <1>3, <1>4, <1>5, <1>6, <1>7, <1>8, <1>9, <1>10 DEF Next, Step, Stopped

\* The files are never changed, and the search moves only while purging.
LEMMA ObjsStay == [Next]_vars => objs' = objs
  BY DEF Next, Step, Stopped, vars, RejectRedefinition, RejectNoMain, Fail, AppendObject,
     FillPool, SkipName, MergeName, RejectName, Fixup, StartPurge, PopVisited, KeepFunction,
     SkipOperand, QueueOperand, KeepOperand, PopScanned, Replace

LEMMA NotPurging == [Next]_vars /\ ~ Purging' => UNCHANGED <<objs, queue, purged>>
  BY DEF Next, Step, Stopped, vars, RejectRedefinition, RejectNoMain, Fail, AppendObject,
     FillPool, SkipName, MergeName, RejectName, Fixup, StartPurge, PopVisited, KeepFunction,
     SkipOperand, QueueOperand, KeepOperand, PopScanned, Replace, Purging, AtOperand

-----------------------------------------------------------------------------
(***************************************************************************)
(* The theorems.                                                           *)
(***************************************************************************)
LEMMA InitInv == Init => Inv
<1> SUFFICES ASSUME Init PROVE Inv
  OBVIOUS
<1>1. Len(objs) \in Nat \ {0} /\ next = 1
  BY InputLength DEF Init
<1>2. Sources /\ Scopes /\ Symbols
  BY <1>1 DEF Init, Empty, Sources, Scopes, Symbols, Purging
<1>3. Frontier /\ Emission /\ ImageIsExact /\ ImageIsClosed
  BY DEF Init, Frontier, Emission, ImageIsExact, ImageIsClosed, Purging
<1>4. DefinedOnce /\ Agreement
  BY <1>1 DEF Init, Empty, DefinedOnce, Agreement
<1>5. QED
  BY <1>2, <1>3, <1>4, InitType DEF Inv, LinkInv

\* The variables of merge() keep their types, and LinkInv is inductive relative
\* to them: the invariant every other theorem follows from.
THEOREM InvHolds == Spec => []Inv
<1>1. Inv /\ [Next]_vars => Inv'
  BY TypeStep, SourcesStep, ScopesStep, SymbolsStep, FrontierStep, EmissionStep,
     DefinedOnceStep, AgreementStep, ImageStep
     DEF Inv, LinkInv
<1>2. QED
  BY InitInv, <1>1, PTL DEF Spec

\* Whatever files ld0 is given, its variables keep their types.
THEOREM TypeCorrect == Spec => []TypeOK
<1>1. Inv => TypeOK
  BY DEF Inv
<1>2. QED
  BY <1>1, InvHolds, PTL

\* The invariant of merge() and purge_program holds in every step.
THEOREM LinkInvHolds == Spec => []LinkInv
<1>1. Inv => LinkInv
  BY DEF Inv
<1>2. QED
  BY <1>1, InvHolds, PTL

\* purge_program's operator[] never makes a null Symbol*.
THEOREM NeverNull == Spec => []NoNullSymbol
<1>1. Inv => NoNullSymbol
  BY NoSymbolAssumption DEF Inv, LinkInv, Symbols, NoNullSymbol
<1>2. QED
  BY <1>1, InvHolds, PTL

\* Only names reachable from main are ever kept or queued.
THEOREM OnlyNeeded == Spec => []KeptIsNeeded
<1>1. Init => KeptIsNeeded
  BY DEF Init, Empty, KeptIsNeeded, Range
<1>2. ASSUME Inv, KeptIsNeeded, [Next]_vars PROVE KeptIsNeeded'
  <2>1. CASE Purging'
    <3>1. Frontier' /\ objs' = objs
      BY <1>2, FrontierStep, ObjsStay
    <3>2. QED
      BY <2>1, <3>1 DEF Frontier, KeptIsNeeded
  <2>2. CASE ~ Purging'
    <3>1. UNCHANGED <<objs, queue, purged>>
      BY <1>2, <2>2, NotPurging
    <3>2. QED
      BY <1>2, <3>1 DEF KeptIsNeeded
  <2>3. QED
    BY <2>1, <2>2
<1>3. QED
  BY <1>1, <1>2, InvHolds, PTL DEF Spec

\* Each function is emitted once, and every function with a symbol is emitted.
THEOREM EachOnce == Spec => []EmittedOnce
<1>1. Inv => EmittedOnce
  BY DEF Inv, LinkInv, Emission, ImageIsClosed, EmittedOnce
<1>2. QED
  BY <1>1, InvHolds, PTL

\* Every reference of the linked program finds a symbol of the merged scope.
THEOREM AllResolve == Spec => []ReferencesResolve
<1>1. Inv => ReferencesResolve
  <2> SUFFICES ASSUME Inv, pc = "done", NEW f \in Range(emitted)
               PROVE  /\ funcs[f].scope = MergedScope
                      /\ \A r \in Range(funcs[f].refs) :
                           r \in DOMAIN table /\ table[r].scope = MergedScope
    BY DEF ReferencesResolve
  <2>1. f \in DOMAIN funcs /\ Range(funcs[f].refs) \subseteq DOMAIN table
    BY DEF Inv, LinkInv, ImageIsClosed
  <2>2. QED
    BY <2>1 DEF Inv, LinkInv, Scopes
<1>2. QED
  BY <1>1, InvHolds, PTL

\* The linked image is exactly what main can reach: dead code is removed, and
\* nothing else.
THEOREM ImageCorrect == Spec => []ImageIsExact
<1>1. Inv => ImageIsExact
  BY DEF Inv, LinkInv
<1>2. QED
  BY <1>1, InvHolds, PTL

\* No step drops or replaces a kept symbol.
THEOREM KeptStays == Spec => KeptStable
<1> DEFINE Stays == \A n \in DOMAIN purged : n \in DOMAIN purged' /\ purged'[n] = purged[n]
<1>1. ASSUME Inv, [Next]_vars PROVE Stays
  <2>1. CASE KeepFunction
    <3>1. Head(queue) \notin DOMAIN purged /\ Keeps(Head(queue))
      BY <2>1 DEF KeepFunction
    <3>2. QED
      BY <3>1 DEF Keeps, Insert
  <2>2. CASE KeepOperand
    <3>1. Operand \notin DOMAIN purged /\ Keeps(Operand)
      BY <2>2 DEF KeepOperand
    <3>2. QED
      BY <3>1 DEF Keeps, Insert
  <2>3. CASE ~ KeepFunction /\ ~ KeepOperand
    <3>1. purged' = purged
      BY <1>1, <2>3 DEF Next, Step, Stopped, vars, RejectRedefinition, RejectNoMain, Fail,
         AppendObject, FillPool, SkipName, MergeName, RejectName, Fixup, StartPurge, PopVisited,
         SkipOperand, QueueOperand, PopScanned, Replace
    <3>2. QED
      BY <3>1
  <2>4. QED
    BY <2>1, <2>2, <2>3
<1>2. QED
  BY <1>1, InvHolds, PTL DEF Spec, KeptStable
\* A symbol of the linked program speaks for every file that declares it,
\* whichever file's came first.
THEOREM AllAgree == Spec => []DeclarationsAgree
<1>1. Inv => DeclarationsAgree
  <2> SUFFICES ASSUME Inv, pc = "done", NEW n \in DOMAIN table
               PROVE  IF n \in DOMAIN funcs
                      THEN table[n].obj = funcs[n].obj
                      ELSE \A o \in Holders(objs, n) :
                             /\ objs[o].syms[n].type = table[n].decl.type
                             /\ objs[o].syms[n].spec = table[n].decl.spec
    BY DEF DeclarationsAgree
  <2>1. SpeaksForAll(n, table[n])
    BY DEF Inv, LinkInv, Agreement
  <2>2. QED
    BY <2>1 DEF SpeaksForAll, Mergeable
<1>2. QED
  BY <1>1, InvHolds, PTL

-----------------------------------------------------------------------------
(***************************************************************************)
(* merge() implements LinkSpec, step by step.                              *)
(***************************************************************************)
\* merge() returns only when the program is linkable.
LEMMA ReplaceLinkable ==
  ASSUME Inv, Replace
  PROVE  Linkable(objs)
<1>1. pc = "purge" /\ Purging /\ TypeOK /\ Symbols /\ Emission /\ Agreement
  BY DEF Inv, LinkInv, Replace, Purging
<1>2. DOMAIN funcs = Defined(objs) /\ ~ Redefined(objs)
  BY <1>1, AllAppended
<1>3. Main \in Defined(objs)
  BY <1>1, <1>2 DEF Emission
<1>4. ASSUME NEW n \in Names \ Defined(objs), NEW o \in Holders(objs, n)
      PROVE  Mergeable(objs, n, o)
  <2>1. n \in DOMAIN table \cup DOMAIN purged
    BY <1>1 DEF Symbols
  <2>2. PICK front \in Holders(objs, n) : Mergeable(objs, n, front)
    BY <1>1, <1>2, <2>1 DEF Agreement, SpeaksForAll
  <2>3. QED
    BY <2>2 DEF Mergeable
<1>5. QED
  BY <1>2, <1>3, <1>4 DEF Linkable

\* Every exception merge() throws is about a program that is not linkable.
LEMMA RejectsUnlinkable ==
  ASSUME Inv,
         RejectRedefinition \/ RejectNoMain \/ \E n \in Names : RejectName(n)
  PROVE  ~ Linkable(objs)
<1>0. TypeOK /\ Sources /\ Symbols /\ Len(objs) \in Nat \ {0}
  BY InputLength DEF Inv, LinkInv, TypeOK
<1>1. CASE RejectRedefinition
  <2> DEFINE defs == objs[next].defs
  <2>1. pc = "append" /\ next \in 1..Len(objs) /\ Clashes(defs)
    BY <1>0, <1>1 DEF RejectRedefinition, TypeOK
  <2>2. CASE NamesOf(defs) \cap DOMAIN table # {}
    <3>1. PICK n \in NamesOf(defs) : n \in DOMAIN funcs
      BY <1>0, <2>1, <2>2 DEF Symbols
    <3>2. PICK j \in DOMAIN defs : defs[j].name = n
      BY <3>1 DEF NamesOf
    <3>3. PICK o \in 1..Len(objs) : o < next /\ \E i \in DOMAIN objs[o].defs : objs[o].defs[i].name = n
      BY <1>0, <2>1, <3>1 DEF Sources
    <3>4. PICK i \in DOMAIN objs[o].defs : objs[o].defs[i].name = n
      BY <3>3
    <3>5. <<o, i>> # <<next, j>>
      BY <1>0, <3>3
    <3>6. Redefined(objs)
      BY <2>1, <3>2, <3>4, <3>5 DEF Redefined
    <3>7. QED
      BY <3>6 DEF Linkable
  <2>3. CASE \E i, j \in DOMAIN defs : i # j /\ defs[i].name = defs[j].name
    <3>1. PICK i \in DOMAIN defs, j \in DOMAIN defs : i # j /\ defs[i].name = defs[j].name
      BY <2>3
    <3>2. <<next, i>> # <<next, j>>
      BY <3>1
    <3>3. Redefined(objs)
      BY <2>1, <3>1, <3>2 DEF Redefined
    <3>4. QED
      BY <3>3 DEF Linkable
  <2>4. QED
    BY <2>1, <2>2, <2>3 DEF Clashes
<1>2. CASE RejectNoMain
  <2>1. DOMAIN funcs = Defined(objs) /\ Main \notin DOMAIN funcs
    BY <1>2, AllAppended DEF RejectNoMain
  <2>2. QED
    BY <2>1 DEF Linkable
<1>3. ASSUME NEW n \in Names, RejectName(n) PROVE ~ Linkable(objs)
  <2>1. /\ pc = "merge" /\ n \notin DOMAIN table
        /\ \E front \in Holders(objs, n) : ~ Mergeable(objs, n, front)
    BY <1>3 DEF RejectName
  <2>2. n \notin DOMAIN funcs /\ DOMAIN funcs = Defined(objs)
    BY <1>0, <2>1, AllAppended DEF Symbols
  <2>3. QED
    BY <2>1, <2>2 DEF Linkable
<1>4. QED
  BY <1>1, <1>2, <1>3

\* The program is rejected or returned in one step, and left alone in others.
LEMMA OtherSteps ==
  ASSUME [Next]_vars, ~ Replace, ~ RejectRedefinition, ~ RejectNoMain,
         \A n \in Names : ~ RejectName(n)
  PROVE  /\ objs' = objs
         /\ pc' = "done" <=> pc = "done"
         /\ pc' = "failed" <=> pc = "failed"
         /\ pc = "done" => table' = table
  BY DEF Next, Step, Stopped, vars, AppendObject, FillPool, SkipName, MergeName, Fixup,
         StartPurge, PopVisited, KeepFunction, SkipOperand, QueueOperand, KeepOperand,
         PopScanned, AtOperand

\* LinkSpec is instantiated with the same constants, so its operators on object
\* files are those of this module.
LEMMA SameMeaning ==
  ASSUME NEW in
  PROVE  (S!Linkable(in) <=> Linkable(in)) /\ S!Reachable(in) = Reachable(in)
<1>1. S!Defined(in) = Defined(in) /\ (S!Redefined(in) <=> Redefined(in))
  BY DEF S!Defined, Defined, S!Redefined, Redefined
<1>2. S!Linkable(in) <=> Linkable(in)
  BY <1>1 DEF S!Linkable, Linkable, S!Holders, Holders, S!Mergeable, Mergeable
<1>3. S!Reachable(in) = Reachable(in)
  BY DEF S!Reachable, Reachable, S!Closed, Closed
<1>4. QED
  BY <1>2, <1>3

\* merge() implements LinkSpec but for its liveness: the program is rejected
\* only if it is not linkable, returned only if it is, the table returned has
\* exactly the names main needs, and the outcome is final.
THEOREM ImplementsSafely == Spec => S!SSafety
<1>1. Init => S!SInit
  BY DEF Init, S!SInit
<1>2. ASSUME Inv, [Next]_vars PROVE [S!SNext]_(S!svars)
  <2>1. CASE Replace
    <3>1. /\ pc = "purge" /\ pc' = "done" /\ objs' = objs /\ table' = purged
      BY <2>1 DEF Replace
    <3>2. Linkable(objs) /\ DOMAIN purged = Reachable(objs)
      BY <1>2, <2>1, ReplaceLinkable, ReplaceImage
    <3>3. S!Accept
      BY <3>1, <3>2, SameMeaning DEF S!Accept
    <3>4. QED
      BY <3>3 DEF S!SNext
  <2>2. CASE RejectRedefinition \/ RejectNoMain \/ \E n \in Names : RejectName(n)
    <3>1. pc \notin {"done", "failed"} /\ pc' = "failed" /\ objs' = objs
      BY <2>2 DEF RejectRedefinition, RejectNoMain, RejectName, Fail
    <3>2. ~ Linkable(objs)
      BY <1>2, <2>2, RejectsUnlinkable
    <3>3. S!Reject
      BY <3>1, <3>2, SameMeaning DEF S!Reject
    <3>4. QED
      BY <3>3 DEF S!SNext
  <2>3. CASE /\ ~ Replace /\ ~ RejectRedefinition /\ ~ RejectNoMain
             /\ \A n \in Names : ~ RejectName(n)
    <3>1. /\ objs' = objs /\ (pc' = "done" <=> pc = "done")
          /\ (pc' = "failed" <=> pc = "failed") /\ (pc = "done" => table' = table)
      BY <1>2, <2>3, OtherSteps
    <3>2. QED
      BY <3>1 DEF S!svars
  <2>4. QED
    BY <2>1, <2>2, <2>3
<1>3. QED
  BY <1>1, <1>2, InvHolds, PTL DEF Spec, S!SSafety

=============================================================================
