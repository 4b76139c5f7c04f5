---------------------------- MODULE DriverProofs ----------------------------
(***************************************************************************)
(* Whatever is in the tree, whatever the command lines and wherever builds *)
(* are killed, a build that succeeds has linked exactly its inputs.        *)
(***************************************************************************)
EXTENDS Driver, FiniteSetTheorems, SequenceTheorems, TLAPS

-----------------------------------------------------------------------------
(***************************************************************************)
(* Lemmas about names and files.                                           *)
(***************************************************************************)
\* What the assumptions say of one build.
LEMMA CommandLine ==
  ASSUME TypeOK, NEW b \in Builds
  PROVE  /\ cmd[b].inputs \in Seq(Path)
         /\ cmd[b].output \in Path \cup {Missing}
         /\ cmd[b].compileOnly \in BOOLEAN
         /\ Len(cmd[b].inputs) \in Nat
         /\ DOMAIN cmd[b].inputs = 1..Len(cmd[b].inputs)
         /\ \A i \in DOMAIN cmd[b].inputs : cmd[b].inputs[i] \in Path
<1>1. /\ cmd[b].inputs \in Seq(Path)
      /\ cmd[b].output \in Path \cup {Missing}
      /\ cmd[b].compileOnly \in BOOLEAN
  BY CommandLinesAssumption DEF TypeOK
<1>2. QED
  BY <1>1

LEMMA AppendType ==
  ASSUME NEW S, NEW s \in Seq(S), NEW e \in S
  PROVE  Append(s, e) \in Seq(S)
  OBVIOUS

LEMMA SingletonType == ASSUME NEW S, NEW e \in S PROVE <<e>> \in Seq(S)
  OBVIOUS

\* Texts and objects have names.
LEMMA Extensions ==
  ASSUME NEW p \in Path
  PROVE  /\ TmpFileName(p) \in Path
         /\ ReplaceFileNameExtension(p, ".o") \in Path
<1>0. "" \in Words /\ ".o" \in Words /\ ".tmp" \in Words
  BY ValuesAssumption
<1>1. p.base \in Words /\ p.ext \in Seq(Words) /\ Len(p.ext) \in Nat
  BY DEF Path
<1>2. Append(p.ext, ".tmp") \in Seq(Words)
  BY <1>0, <1>1, AppendType
<1>3. SubSeq(p.ext, 1, Len(p.ext) - 1) \in Seq(Words)
  BY <1>1
<1>4. Append(SubSeq(p.ext, 1, Len(p.ext) - 1), ".o") \in Seq(Words)
  BY <1>0, <1>3, AppendType
<1>5. QED
  BY <1>0, <1>1, <1>2, <1>4 DEF TmpFileName, ReplaceFileNameExtension, Path

LEMMA ObjectNames ==
  ASSUME TypeOK, NEW b \in Builds, NEW p \in Path
  PROVE  ObjectName(cmd[b], p) \in Path
  BY CommandLine, Extensions DEF ObjectName

LEMMA OutputFileType ==
  ASSUME TypeOK, NEW b \in Builds
  PROVE  OutputFile(b) \in Path
<1>0. "" \in Words /\ "a" \in Words /\ ".bin" \in Words
  BY ValuesAssumption
<1>1. <<".bin">> \in Seq(Words)
  BY <1>0, SingletonType
<1>2. [dir |-> "", base |-> "a", ext |-> <<".bin">>] \in Path
  BY <1>0, <1>1 DEF Path
<1>3. QED
  BY <1>2, CommandLine DEF OutputFile, ImageName

\* What an input that is a source makes a build write.
LEMMA SourceNames ==
  ASSUME TypeOK, NEW b \in Builds, NEW i \in DOMAIN cmd[b].inputs, IsSource(cmd[b].inputs[i])
  PROVE  /\ cmd[b].inputs[i] \in Sources(cmd[b])
         /\ TmpFileName(cmd[b].inputs[i]) \in Intermediate(cmd[b])
         /\ ObjectName(cmd[b], cmd[b].inputs[i]) \in Intermediate(cmd[b])
  BY DEF Sources, Intermediate

\* A file that is written.
LEMMA WriteFacts ==
  ASSUME NEW p, NEW content, Write(p, content)
  PROVE  /\ p \in DOMAIN files' /\ files'[p] = content
         /\ At(p)' = content
         /\ DOMAIN files' = DOMAIN files \cup {p}
         /\ \A q : q # p => At(q)' = At(q)
         /\ \A q \in DOMAIN files : q # p => files'[q] = files[q]
  BY DEF Write, At

\* A text and an object have different names.
LEMMA TextIsNoObject ==
  ASSUME NEW p \in Path, NEW q \in Path
  PROVE  TmpFileName(p) # ReplaceFileNameExtension(q, ".o")
<1> DEFINE s == SubSeq(q.ext, 1, Len(q.ext) - 1)
<1>1. p.ext \in Seq(Words) /\ q.ext \in Seq(Words)
  BY DEF Path
<1>2. s \in Seq(Words)
  BY <1>1
<1> HIDE DEF s
<1>3. ".o" \in Words /\ ".tmp" \in Words
  BY ValuesAssumption
<1>4. Append(s, ".o") # Append(p.ext, ".tmp")
  <2>1. ASSUME NEW a \in Words, NEW b \in Words, Append(s, a) = Append(p.ext, b)
        PROVE  a = b
    <3>1. Append(s, a)[Len(Append(s, a))] = a /\ Append(p.ext, b)[Len(Append(p.ext, b))] = b
      BY <1>1, <1>2
    <3>2. QED
      BY <2>1, <3>1
  <2>2. QED
    BY <1>3, <2>1
<1>5. TmpFileName(p).ext = Append(p.ext, ".tmp")
  BY DEF TmpFileName
<1>6. ReplaceFileNameExtension(q, ".o").ext = Append(s, ".o")
  BY DEF ReplaceFileNameExtension, s
<1>7. QED
  BY <1>4, <1>5, <1>6

LEMMA ObjectIsNoSource == ASSUME NEW p, IsObject(p) PROVE ~ IsSource(p)
  BY DEF IsObject, IsSource

-----------------------------------------------------------------------------
(***************************************************************************)
(* Lemmas about the places of inputs.                                      *)
(***************************************************************************)
LEMMA UsedFinite ==
  ASSUME TypeOK, NEW b \in Builds
  PROVE  /\ Used(b) \subseteq 1..Len(cmd[b].inputs)
         /\ IsFiniteSet(Used(b))
         /\ Cardinality(Used(b)) \in Nat
         /\ \A S \in SUBSET Used(b) :
              IsFiniteSet(S) /\ Cardinality(S) \in Nat /\ Cardinality(S) <= Cardinality(Used(b))
<1>1. Used(b) \subseteq 1..Len(cmd[b].inputs)
  BY CommandLine DEF Used
<1>2. IsFiniteSet(1..Len(cmd[b].inputs))
  BY CommandLine, FS_Interval
<1>3. IsFiniteSet(Used(b))
  BY <1>1, <1>2, FS_Subset
<1>4. \A S \in SUBSET Used(b) : IsFiniteSet(S) /\ Cardinality(S) <= Cardinality(Used(b))
  BY <1>3, FS_Subset
<1>5. QED
  BY <1>1, <1>3, <1>4, FS_CardinalityType

\* Inputs have places of their own, in their order.
LEMMA PlaceFacts ==
  ASSUME TypeOK, NEW b \in Builds, NEW i \in Used(b)
  PROVE  /\ Place(b, i) \in 1..Cardinality(Used(b))
         /\ \A j \in Used(b) : i < j => Place(b, i) < Place(b, j)
<1> DEFINE UpTo(k) == {j \in Used(b) : j <= k}
<1>1. Used(b) \subseteq Nat /\ UpTo(i) \in SUBSET Used(b) /\ i \in UpTo(i)
  BY UsedFinite, CommandLine
<1>2. Cardinality(UpTo(i)) \in Nat /\ Cardinality(UpTo(i)) <= Cardinality(Used(b))
  BY <1>1, UsedFinite
<1>3. Cardinality(UpTo(i)) # 0
  BY <1>1, UsedFinite, FS_EmptySet
<1>4. ASSUME NEW j \in Used(b), i < j
      PROVE  Cardinality(UpTo(i)) < Cardinality(UpTo(j))
  <2>1. UpTo(i) \in SUBSET UpTo(j) /\ j \in UpTo(j) /\ j \notin UpTo(i)
    BY <1>1, <1>4
  <2>2. IsFiniteSet(UpTo(j)) /\ Cardinality(UpTo(j)) \in Nat
    <3>1. UpTo(j) \in SUBSET Used(b)
      OBVIOUS
    <3>2. QED
      BY <3>1, UsedFinite
  <2>3. Cardinality(UpTo(i)) <= Cardinality(UpTo(j)) /\ Cardinality(UpTo(i)) # Cardinality(UpTo(j))
    BY <2>1, <2>2, FS_Subset
  <2>4. QED
    BY <1>2, <2>2, <2>3
<1>5. \A k : Place(b, k) = Cardinality(UpTo(k))
  BY DEF Place
<1>6. Cardinality(Used(b)) \in Nat
  BY UsedFinite
<1> HIDE DEF UpTo
<1>7. Place(b, i) \in 1..Cardinality(Used(b))
  BY <1>2, <1>3, <1>5, <1>6
<1>8. \A j \in Used(b) : i < j => Place(b, i) < Place(b, j)
  BY <1>4, <1>5
<1>9. QED
  BY <1>7, <1>8

LEMMA PlacesDiffer ==
  ASSUME TypeOK, NEW b \in Builds, NEW i \in Used(b), NEW j \in Used(b), i # j
  PROVE  Place(b, i) # Place(b, j)
<1>1. i \in Nat /\ j \in Nat
  BY UsedFinite, CommandLine
<1>2. i < j \/ j < i
  BY <1>1
<1>3. Place(b, i) \in Nat /\ Place(b, j) \in Nat
  BY PlaceFacts, UsedFinite
<1>4. QED
  BY <1>2, <1>3, PlaceFacts

-----------------------------------------------------------------------------
(***************************************************************************)
(* Lemmas about how the processes move.                                    *)
(***************************************************************************)
Moves(b, at, pos, unit, objs, loaded, code) ==
  /\ proc' \in [Builds -> Process]
  /\ \A c \in Builds : c # b => proc'[c] = proc[c]
  /\ proc'[b].at = at /\ proc'[b].pos = pos /\ proc'[b].unit = unit
  /\ proc'[b].objs = objs /\ proc'[b].loaded = loaded /\ proc'[b].code = code

\* What TypeOK says of one process.
LEMMA ProcessFacts ==
  ASSUME TypeOK, NEW b \in Builds
  PROVE  /\ proc[b] \in Process
         /\ proc[b].at \in Places /\ proc[b].pos \in Nat \ {0}
         /\ proc[b].objs \in Seq(Path) /\ proc[b].loaded \in Seq(Units)
         /\ proc[b].unit \in Units \cup {Missing} /\ proc[b].code \in Codes
         /\ Len(ObjectsOf(b)) = Len(proc[b].objs) + 1
         /\ Len(proc[b].objs) \in Nat /\ Len(proc[b].loaded) \in Nat
         /\ \A k \in 1..Len(proc[b].objs) : ObjectsOf(b)[k] = proc[b].objs[k]
         /\ ObjectsOf(b)[Len(proc[b].objs) + 1] = Library
<1>1. proc[b] \in Process
  BY DEF TypeOK
<1>2. /\ proc[b].at \in Places /\ proc[b].pos \in Nat \ {0}
      /\ proc[b].objs \in Seq(Path) /\ proc[b].loaded \in Seq(Units)
      /\ proc[b].unit \in Units \cup {Missing} /\ proc[b].code \in Codes
  BY <1>1 DEF Process
<1>3. Library \in Path
  BY ValuesAssumption
<1>4. QED
  BY <1>1, <1>2, <1>3 DEF ObjectsOf

LEMMA GoesMoves ==
  ASSUME TypeOK, NEW b \in Builds, NEW at \in Places, Goes(b, at)
  PROVE  Moves(b, at, proc[b].pos, proc[b].unit, proc[b].objs, proc[b].loaded, proc[b].code)
<1>1. proc \in [Builds -> Process]
  BY DEF TypeOK
<1>2. QED
  BY <1>1 DEF Goes, Process, Moves

LEMMA ExitMoves ==
  ASSUME TypeOK, NEW b \in Builds, NEW code \in Codes, Exit(b, code)
  PROVE  Moves(b, "exit", proc[b].pos, proc[b].unit, proc[b].objs, proc[b].loaded, code)
<1>1. proc \in [Builds -> Process]
  BY DEF TypeOK
<1>2. "exit" \in Places
  BY DEF Places
<1>3. QED
  BY <1>1, <1>2 DEF Exit, Process, Moves

LEMMA NextFileMoves ==
  ASSUME TypeOK, NEW b \in Builds, NextFile(b)
  PROVE  Moves(b, "file", proc[b].pos + 1, proc[b].unit, proc[b].objs, proc[b].loaded,
               proc[b].code)
<1>1. proc \in [Builds -> Process]
  BY DEF TypeOK
<1>2. "file" \in Places
  BY DEF Places
<1>3. QED
  BY <1>1, <1>2 DEF NextFile, Process, Moves

LEMMA InputType ==
  ASSUME TypeOK, NEW b \in Builds, proc[b].pos <= Len(cmd[b].inputs)
  PROVE  /\ proc[b].pos \in DOMAIN cmd[b].inputs
         /\ Input(b) \in Path /\ ObjectFile(b) \in Path
<1>1. proc[b].pos \in DOMAIN cmd[b].inputs
  BY CommandLine, ProcessFacts
<1>2. Input(b) \in Path
  BY <1>1, CommandLine DEF Input
<1>3. QED
  BY <1>1, <1>2, ObjectNames DEF ObjectFile

LEMMA StartCompilerMoves ==
  ASSUME TypeOK, NEW b \in Builds, StartCompiler(b)
  PROVE  Moves(b, "cpp", proc[b].pos, proc[b].unit,
               IF cmd[b].compileOnly THEN proc[b].objs ELSE Append(proc[b].objs, ObjectFile(b)),
               proc[b].loaded, proc[b].code)
<1>1. proc \in [Builds -> Process]
  BY DEF TypeOK
<1>2. "cpp" \in Places
  BY DEF Places
<1>3. ObjectFile(b) \in Path
  BY InputType DEF StartCompiler, Reading
<1>4. Append(proc[b].objs, ObjectFile(b)) \in Seq(Path)
  BY <1>3, ProcessFacts
<1>5. QED
  BY <1>1, <1>2, <1>4 DEF StartCompiler, Process, Moves

LEMMA PassMoves ==
  ASSUME TypeOK, NEW b \in Builds, PassOrIgnore(b)
  PROVE  Moves(b, proc[b].at, proc[b].pos + 1, proc[b].unit,
               IF IsObject(Input(b)) THEN Append(proc[b].objs, Input(b)) ELSE proc[b].objs,
               proc[b].loaded, proc[b].code)
<1>1. proc \in [Builds -> Process]
  BY DEF TypeOK
<1>2. Input(b) \in Path
  BY InputType DEF PassOrIgnore, Reading
<1> DEFINE o == IF IsObject(Input(b)) THEN Append(proc[b].objs, Input(b)) ELSE proc[b].objs
<1>3. Append(proc[b].objs, Input(b)) \in Seq(Path) /\ proc[b].objs \in Seq(Path)
  BY <1>2, ProcessFacts
<1>4. o \in Seq(Path)
  BY <1>3
<1>5. proc[b] \in Process /\ proc[b].pos + 1 \in Nat \ {0}
  BY ProcessFacts
<1>6. proc' = [proc EXCEPT ![b].pos = proc[b].pos + 1, ![b].objs = o]
  BY DEF PassOrIgnore
<1> HIDE DEF o
<1>7. Moves(b, proc[b].at, proc[b].pos + 1, proc[b].unit, o, proc[b].loaded, proc[b].code)
  BY <1>1, <1>4, <1>5, <1>6 DEF Process, Moves
<1>8. QED
  BY <1>7 DEF o

LEMMA RestartMoves ==
  ASSUME TypeOK, NEW b \in Builds, Restart(b)
  PROVE  Moves(b, "file", 1, Missing, <<>>, <<>>, Missing)
<1>1. proc \in [Builds -> Process]
  BY DEF TypeOK
<1>2. Started \in Process
  BY DEF Started, Process, Places, Codes
<1>3. QED
  BY <1>1, <1>2 DEF Restart, Started, Moves

LEMMA CompileUnitMoves ==
  ASSUME TypeOK, NEW b \in Builds, CompilesInput(b), CompileUnit(b)
  PROVE  /\ tree[Input(b)].of \in Units
         /\ Moves(b, "compiled", proc[b].pos, tree[Input(b)].of, proc[b].objs,
                  proc[b].loaded, proc[b].code)
<1>1. proc \in [Builds -> Process]
  BY DEF TypeOK
<1>2. "compiled" \in Places
  BY DEF Places
<1>3. /\ Input(b) \in DOMAIN tree /\ IsSource(Input(b))
      /\ At(TmpFileName(Input(b))).of = tree[Input(b)].of
  BY DEF CompileUnit, CompilesInput, Compiling, Is
<1>4. tree[Input(b)].of \in Units
  BY <1>3, TreesAssumption DEF TypeOK
<1>5. proc' = [proc EXCEPT ![b].at = "compiled", ![b].unit = tree[Input(b)].of]
  BY <1>3 DEF CompileUnit
<1>6. QED
  BY <1>1, <1>2, <1>4, <1>5 DEF Process, Moves

LEMMA LoadMoves ==
  ASSUME TypeOK, NEW b \in Builds, ObjectsKnown, LoadObject(b)
  PROVE  Moves(b, proc[b].at, proc[b].pos, proc[b].unit, proc[b].objs,
               Append(proc[b].loaded, Loading(b).of), proc[b].code)
<1>1. proc \in [Builds -> Process]
  BY DEF TypeOK
<1>2. Loading(b).of \in Units
  <2>1. Loading(b).kind = "object"
    BY DEF LoadObject
  <2>2. QED
    BY <2>1 DEF Loading, At, Nothing, ObjectsKnown
<1>3. proc[b] \in Process /\ Append(proc[b].loaded, Loading(b).of) \in Seq(Units)
  BY <1>2, ProcessFacts, AppendType
<1>4. proc' = [proc EXCEPT ![b].loaded = Append(proc[b].loaded, Loading(b).of)]
  BY DEF LoadObject
<1>5. QED
  BY <1>1, <1>3, <1>4 DEF Process, Moves

\* A step that moves one process into a place that fits keeps the types.
LEMMA TypeFromMoves ==
  ASSUME TypeOK, NEW b \in Builds, UNCHANGED <<cmd, tree>>, kills' \in 0..MaxKills,
         NEW at, NEW pos \in Nat, NEW unit, NEW objs \in Seq(Path), NEW loaded, NEW code,
         Moves(b, at, pos, unit, objs, loaded, code),
         pos <= Len(cmd[b].inputs) + 1,
         loaded # <<>> => at \in {"load", "write", "exit"},
         Len(loaded) <= Len(objs) + 1,
         (at = "exit") <=> (code # Missing)
  PROVE  TypeOK'
<1>1. cmd' \in CommandLines /\ tree' \in Trees /\ proc' \in [Builds -> Process]
  BY DEF TypeOK, Moves
<1>2. ASSUME NEW c \in Builds
      PROVE  /\ proc'[c].pos <= Len(cmd[c].inputs) + 1
             /\ proc'[c].loaded # <<>> => proc'[c].at \in {"load", "write", "exit"}
             /\ Len(proc'[c].loaded) <= Len(Append(proc'[c].objs, Library))
             /\ (proc'[c].at = "exit") <=> (proc'[c].code # Missing)
  <2>1. CASE c = b
    <3>1. Library \in Path
      BY ValuesAssumption
    <3>2. Len(Append(objs, Library)) = Len(objs) + 1
      BY <3>1
    <3>3. QED
      BY <2>1, <3>2 DEF Moves
  <2>2. CASE c # b
    BY <2>2 DEF Moves, TypeOK, Is, ObjectsOf
  <2>3. QED
    BY <2>1, <2>2
<1>3. QED
  BY <1>1, <1>2 DEF TypeOK, Is, ObjectsOf

-----------------------------------------------------------------------------
(***************************************************************************)
(* Type correctness.                                                       *)
(***************************************************************************)
Act(b) == Step(b) \/ Kill(b) \/ Restart(b)

LEMMA TypeInit == ASSUME Init PROVE TypeOK
<1>1. Started \in Process
  BY DEF Started, Process, Places, Codes
<1>2. Library \in Path /\ MaxKills \in Nat
  BY ValuesAssumption
<1>3. \A b \in Builds : Len(cmd[b].inputs) \in Nat
  BY CommandLinesAssumption DEF Init
<1>4. QED
  BY <1>1, <1>2, <1>3 DEF Init, TypeOK, Started, ObjectsOf, Is

LEMMA TypeStep ==
  ASSUME TypeOK, NEW b \in Builds, CompilesInput(b), ObjectsKnown, Act(b)
  PROVE  TypeOK'
<1>1. /\ proc[b].pos \in Nat /\ proc[b].objs \in Seq(Path) /\ Len(proc[b].objs) \in Nat
      /\ Len(proc[b].loaded) \in Nat /\ Len(cmd[b].inputs) \in Nat
      /\ Len(ObjectsOf(b)) = Len(proc[b].objs) + 1
      /\ proc[b].loaded \in Seq(Units)
  BY ProcessFacts, CommandLine
<1>2. /\ proc[b].pos <= Len(cmd[b].inputs) + 1
      /\ proc[b].loaded # <<>> => proc[b].at \in {"load", "write", "exit"}
      /\ Len(proc[b].loaded) <= Len(proc[b].objs) + 1
      /\ (proc[b].at = "exit") <=> (proc[b].code # Missing)
      /\ kills \in 0..MaxKills
  BY <1>1 DEF TypeOK, Is
<1>3. /\ "failed" \in Codes /\ "killed" \in Codes /\ "ok" \in Codes
      /\ Missing # "failed" /\ Missing # "killed" /\ Missing # "ok"
  BY ValuesAssumption DEF Codes
<1>4. MaxKills \in Nat
  BY ValuesAssumption
<1>5. ASSUME SameFiles, Exit(b, "failed") PROVE TypeOK'
  BY <1>1, <1>2, <1>3, <1>5, ExitMoves, TypeFromMoves DEF SameFiles
<1>6. ASSUME UNCHANGED <<cmd, tree, kills>>, NEW at \in Places, Goes(b, at), at # "exit", ~Is(b, "exit"),
             proc[b].loaded # <<>> => at \in {"load", "write"}
      PROVE  TypeOK'
  BY <1>1, <1>2, <1>6, GoesMoves, TypeFromMoves DEF Is
<1>7. ASSUME UNCHANGED <<cmd, tree, kills>>, NextFile(b), Is(b, "serialize"),
             proc[b].pos <= Len(cmd[b].inputs)
      PROVE  TypeOK'
  <2>1. proc[b].pos + 1 \in Nat /\ proc[b].pos + 1 <= Len(cmd[b].inputs) + 1
    BY <1>1, <1>7
  <2>2. QED
    BY <1>1, <1>2, <1>7, <2>1, NextFileMoves, TypeFromMoves DEF Is
<1>8. CASE RejectCommand(b)
  BY <1>5, <1>8 DEF RejectCommand
<1>9. CASE StartCompiler(b)
  <2> DEFINE o == IF cmd[b].compileOnly THEN proc[b].objs ELSE Append(proc[b].objs, ObjectFile(b))
  <2>1. ObjectFile(b) \in Path
    BY <1>9, InputType DEF StartCompiler, Reading
  <2>2. o \in Seq(Path) /\ Len(proc[b].objs) <= Len(o)
    BY <1>1, <2>1
  <2>3. Moves(b, "cpp", proc[b].pos, proc[b].unit, o, proc[b].loaded, proc[b].code)
    BY <1>9, StartCompilerMoves
  <2>4. Len(o) \in Nat
    BY <2>2
  <2> HIDE DEF o
  <2>5. Is(b, "file") /\ UNCHANGED <<cmd, tree, kills>>
    BY <1>9 DEF StartCompiler, Reading, SameFiles
  <2>6. QED
    BY <1>1, <1>2, <2>2, <2>3, <2>4, <2>5, TypeFromMoves DEF Is
<1>10. CASE PassOrIgnore(b)
  <2> DEFINE o == IF IsObject(Input(b)) THEN Append(proc[b].objs, Input(b)) ELSE proc[b].objs
  <2>1. Input(b) \in Path /\ proc[b].pos <= Len(cmd[b].inputs)
    BY <1>10, InputType DEF PassOrIgnore, Reading
  <2>2. o \in Seq(Path) /\ Len(proc[b].objs) <= Len(o)
    BY <1>1, <2>1
  <2>3. Moves(b, proc[b].at, proc[b].pos + 1, proc[b].unit, o, proc[b].loaded, proc[b].code)
    BY <1>10, PassMoves
  <2>4. Len(o) \in Nat
    BY <2>2
  <2> HIDE DEF o
  <2>5. Is(b, "file") /\ UNCHANGED <<cmd, tree, kills>>
    BY <1>10 DEF PassOrIgnore, Reading, SameFiles
  <2>6. proc[b].pos + 1 \in Nat /\ proc[b].pos + 1 <= Len(cmd[b].inputs) + 1
    BY <1>1, <2>1
  <2>7. /\ Len(proc[b].loaded) <= Len(o) + 1
        /\ kills' \in 0..MaxKills /\ UNCHANGED <<cmd, tree>>
    BY <1>1, <1>2, <2>2, <2>4, <2>5
  <2>8. QED
    BY <1>1, <1>2, <2>2, <2>3, <2>5, <2>6, <2>7, TypeFromMoves DEF Is
<1>11. CASE FailPreprocessor(b)
  BY <1>5, <1>11 DEF FailPreprocessor
<1>12. CASE OpenText(b)
  BY <1>2, <1>6, <1>12 DEF OpenText, Is, Places
<1>13. CASE Preprocess(b)
  BY <1>2, <1>6, <1>13 DEF Preprocess, Is, Places
<1>14. CASE FailPass(b)
  BY <1>5, <1>14 DEF FailPass
<1>15. CASE CompileUnit(b)
  <2>1. Is(b, "parse") /\ UNCHANGED <<cmd, tree, kills>>
    BY <1>15 DEF CompileUnit, SameFiles
  <2>2. QED
    BY <1>1, <1>2, <1>15, <2>1, CompileUnitMoves, TypeFromMoves DEF Is
<1>16. CASE OpenObject(b)
  BY <1>2, <1>6, <1>16 DEF OpenObject, Is, Places
<1>17. CASE WriteObject(b)
  <2>1. Is(b, "serialize") /\ UNCHANGED <<cmd, tree, kills>> /\ proc[b].pos <= Len(cmd[b].inputs)
    BY <1>17 DEF WriteObject, CompilesInput, Compiling, Is
  <2>2. CASE cmd[b].compileOnly
    <3>1. Exit(b, "ok")
      BY <1>17, <2>2 DEF WriteObject
    <3>2. QED
      BY <1>1, <1>2, <1>3, <2>1, <3>1, ExitMoves, TypeFromMoves DEF Is
  <2>3. CASE ~cmd[b].compileOnly
    BY <1>17, <2>1, <2>3, <1>7 DEF WriteObject
  <2>4. QED
    BY <2>2, <2>3
<1>18. CASE StartLinker(b)
  BY <1>2, <1>5, <1>6, <1>18 DEF StartLinker, SameFiles, Is, Places
<1>19. CASE LoadObject(b)
  <2>1. Is(b, "load") /\ UNCHANGED <<cmd, tree, kills>> /\ Len(proc[b].loaded) < Len(proc[b].objs) + 1
    BY <1>1, <1>19 DEF LoadObject, Loads, SameFiles
  <2>2. Loading(b).of \in Units
    BY <1>19 DEF LoadObject, Loading, At, Nothing, ObjectsKnown
  <2>3. Len(Append(proc[b].loaded, Loading(b).of)) = Len(proc[b].loaded) + 1
    BY <1>1, <2>2
  <2> DEFINE l == Append(proc[b].loaded, Loading(b).of)
  <2>4. Moves(b, proc[b].at, proc[b].pos, proc[b].unit, proc[b].objs, l, proc[b].code)
    BY <1>19, LoadMoves
  <2>5. Len(l) <= Len(proc[b].objs) + 1
    BY <1>1, <2>1, <2>3
  <2> HIDE DEF l
  <2>6. QED
    BY <1>1, <1>2, <2>1, <2>4, <2>5, TypeFromMoves DEF Is
<1>20. CASE FailLoad(b)
  BY <1>5, <1>20 DEF FailLoad
<1>21. CASE FailMerge(b)
  BY <1>5, <1>21 DEF FailMerge
<1>22. CASE OpenImage(b)
  BY <1>2, <1>6, <1>22 DEF OpenImage, Loaded, Is, Places
<1>23. CASE WriteImage(b)
  <2>1. Is(b, "write") /\ UNCHANGED <<cmd, tree, kills>> /\ Exit(b, "ok")
    BY <1>23 DEF WriteImage
  <2>2. QED
    BY <1>1, <1>2, <1>3, <2>1, ExitMoves, TypeFromMoves DEF Is
<1>24. CASE Kill(b)
  <2>1. UNCHANGED <<cmd, tree>> /\ Exit(b, "killed") /\ kills' \in 0..MaxKills
    BY <1>2, <1>4, <1>24 DEF Kill
  <2>2. QED
    BY <1>1, <1>2, <1>3, <2>1, ExitMoves, TypeFromMoves DEF Is
<1>25. CASE Restart(b)
  <2>1. UNCHANGED <<cmd, tree, kills>> /\ <<>> \in Seq(Path) /\ Len(<<>>) = 0
    BY <1>25 DEF Restart, SameFiles
  <2>2. Moves(b, "file", 1, Missing, <<>>, <<>>, Missing)
    BY <1>25, RestartMoves
  <2>3. 1 \in Nat /\ 1 <= Len(cmd[b].inputs) + 1 /\ Len(<<>>) <= Len(<<>>) + 1
    BY <1>1, <2>1
  <2>4. kills' \in 0..MaxKills
    BY <1>2, <2>1
  <2>5. ("file" = "exit") <=> (Missing # Missing)
    OBVIOUS
  <2>6. QED
    BY <2>1, <2>2, <2>3, <2>4, <2>5, TypeFromMoves
<1>26. QED
  BY <1>8, <1>9, <1>10, <1>11, <1>12, <1>13, <1>14, <1>15, <1>16, <1>17, <1>18, <1>19, <1>20,
     <1>21, <1>22, <1>23, <1>24, <1>25 DEF Act, Step

-----------------------------------------------------------------------------
(***************************************************************************)
(* The invariant, one build at a time.                                     *)
(***************************************************************************)
SuccessOf(b) ==
  proc[b].code = "ok" /\ ~cmd[b].compileOnly => IsImageOf(b, At(OutputFile(b)))
OutputOf(b) ==
  ~cmd[b].compileOnly =>
    \/ At(OutputFile(b)) = InTree(OutputFile(b))
    \/ At(OutputFile(b)) = Half /\ (Is(b, "write") \/ kills > 0)
    \/ IsImageOf(b, At(OutputFile(b))) /\ proc[b].code = "ok"
BuildInv(b) ==
  /\ CompilesInput(b) /\ Listed(b) /\ UpToDate(b) /\ LoadsInputs(b)
  /\ SuccessOf(b) /\ OutputOf(b)

LEMMA InvParts ==
  DriverInv <=> SourcesKept /\ ObjectsKnown /\ \A b \in Builds : BuildInv(b)
  BY DEF DriverInv, BuildInv, SuccessIsWhole, OutputOldOrWhole, SuccessOf, OutputOf

\* The inputs that come before one, and what the place of an input counts.
Before(b, k) == {i \in Used(b) : i < k}

LEMMA PassedFacts ==
  ASSUME TypeOK, NEW b \in Builds
  PROVE  /\ Passed(b) = IF Compiling(b) THEN Before(b, proc[b].pos + 1) ELSE Before(b, proc[b].pos)
         /\ \A i \in Used(b) : Place(b, i) = Cardinality(Before(b, i + 1))
         /\ Before(b, 1) = {} /\ Before(b, Len(cmd[b].inputs) + 1) = Used(b)
         /\ \A k \in Nat : k \notin Used(b) => Before(b, k + 1) = Before(b, k)
         /\ \A k \in Used(b) : /\ Before(b, k + 1) = Before(b, k) \cup {k}
                                /\ Cardinality(Before(b, k)) \in Nat
                                /\ Cardinality(Before(b, k + 1)) = Cardinality(Before(b, k)) + 1
<1>1. Used(b) \subseteq Nat \ {0} /\ proc[b].pos \in Nat
  BY UsedFinite, CommandLine, ProcessFacts
<1>2. Passed(b) = IF Compiling(b) THEN Before(b, proc[b].pos + 1) ELSE Before(b, proc[b].pos)
  BY <1>1 DEF Passed, Before
<1>3. ASSUME NEW i \in Used(b) PROVE Place(b, i) = Cardinality(Before(b, i + 1))
  <2>1. {j \in Used(b) : j <= i} = Before(b, i + 1)
    BY <1>1 DEF Before
  <2>2. QED
    BY <2>1 DEF Place
<1>4. Before(b, 1) = {} /\ Before(b, Len(cmd[b].inputs) + 1) = Used(b)
  BY <1>1, UsedFinite, CommandLine DEF Before
<1>5. ASSUME NEW k \in Nat, k \notin Used(b) PROVE Before(b, k + 1) = Before(b, k)
  BY <1>1, <1>5 DEF Before
<1>6. ASSUME NEW k \in Used(b)
      PROVE  /\ Before(b, k + 1) = Before(b, k) \cup {k}
             /\ Cardinality(Before(b, k)) \in Nat
             /\ Cardinality(Before(b, k + 1)) = Cardinality(Before(b, k)) + 1
  <2>1. Before(b, k + 1) = Before(b, k) \cup {k} /\ k \notin Before(b, k)
    BY <1>1 DEF Before
  <2>2. Before(b, k) \in SUBSET Used(b)
    BY DEF Before
  <2>3. IsFiniteSet(Before(b, k)) /\ Cardinality(Before(b, k)) \in Nat
    BY <2>2, UsedFinite
  <2>4. QED
    BY <2>1, <2>3, FS_AddElement
<1>7. QED
  BY <1>2, <1>3, <1>4, <1>5, <1>6

\* What a step leaves alone.
Steady == UNCHANGED <<cmd, tree>>

LEMMA SteadyFacts ==
  ASSUME Steady
  PROVE  /\ \A b : Used(b)' = Used(b)
         /\ \A b, i : Place(b, i)' = Place(b, i) /\ ObjectOf(b, i)' = ObjectOf(b, i)
         /\ \A b : OutputFile(b)' = OutputFile(b)
         /\ \A p : InTree(p)' = InTree(p) /\ UnitsAt(p)' = UnitsAt(p)
         /\ \A p : CompiledTo(p)' = CompiledTo(p) /\ UnitsOf(p)' = UnitsOf(p)
         /\ \A b, units : Whole(b, units)' = Whole(b, units)
         /\ \A b, content : IsImageOf(b, content)' = IsImageOf(b, content)
<1>1. \A b : Used(b)' = Used(b)
  BY DEF Steady, Used
<1>2. \A b, i : Place(b, i)' = Place(b, i) /\ ObjectOf(b, i)' = ObjectOf(b, i)
  BY <1>1 DEF Steady, Place, ObjectOf
<1>3. \A b : OutputFile(b)' = OutputFile(b)
  BY DEF Steady, OutputFile
<1>4. \A p : InTree(p)' = InTree(p) /\ UnitsAt(p)' = UnitsAt(p)
  BY DEF Steady, InTree, UnitsAt, Nothing
<1>5. \A p : CompiledTo(p)' = CompiledTo(p) /\ UnitsOf(p)' = UnitsOf(p)
  BY <1>4 DEF Steady, CompiledTo, UnitsOf
<1>6. \A b, units : Whole(b, units)' = Whole(b, units)
  BY <1>1, <1>2, <1>5 DEF Steady, Whole
<1>7. \A b, content : IsImageOf(b, content)' = IsImageOf(b, content)
  BY <1>6 DEF IsImageOf
<1>8. QED
  BY <1>1, <1>2, <1>3, <1>4, <1>5, <1>6, <1>7

\* How a step of one build can change the rest: it writes a file of its own.
Effect(a) ==
  /\ Steady
  /\ kills \in Nat /\ kills' \in Nat /\ kills <= kills'
  /\ \A c \in Builds : c # a => proc'[c] = proc[c]
  /\ \A q : q \notin Written(cmd[a]) => At(q)' = At(q)

LEMMA OtherFiles ==
  ASSUME TypeOK, NEW a \in Builds, NEW b \in Builds, a # b, Effect(a)
  PROVE  /\ Steady /\ proc'[b] = proc[b] /\ (kills > 0 => kills' > 0)
         /\ \A q \in Written(cmd[b]) : At(q)' = At(q)
<1>1. cmd \in CommandLines
  BY DEF TypeOK
<1>2. Written(cmd[a]) \cap Written(cmd[b]) = {}
  BY <1>1, NamesApart
<1>3. \A q \in Written(cmd[b]) : q \notin Written(cmd[a])
  BY <1>2
<1>4. kills > 0 => kills' > 0
  <2>1. PICK k \in Nat : k = kills'
    BY DEF Effect
  <2>2. QED
    BY <2>1 DEF Effect
<1>5. QED
  BY <1>3, <1>4 DEF Effect, Steady

LEMMA OtherBuild ==
  ASSUME TypeOK, NEW b \in Builds, BuildInv(b), Steady, proc'[b] = proc[b],
         kills > 0 => kills' > 0, \A q \in Written(cmd[b]) : At(q)' = At(q)
  PROVE  BuildInv(b)'
<1>1. cmd' = cmd /\ tree' = tree
  BY DEF Steady
<1>2. ASSUME NEW p \in Sources(cmd[b])
      PROVE  At(TmpFileName(p))' = At(TmpFileName(p)) /\ At(ObjectName(cmd[b], p))' = At(ObjectName(cmd[b], p))
  <2>1. TmpFileName(p) \in Written(cmd[b]) /\ ObjectName(cmd[b], p) \in Written(cmd[b])
    BY DEF Written, Intermediate
  <2>2. QED
    BY <1>1, <2>1 DEF At
<1>3. ASSUME ~cmd[b].compileOnly PROVE At(ImageName(cmd[b]))' = At(ImageName(cmd[b]))
  BY <1>1, <1>3 DEF Written
<1>4. Compiling(b) => Input(b) \in Sources(cmd[b])
  <2>1. Compiling(b) => proc[b].pos \in DOMAIN cmd[b].inputs /\ IsSource(Input(b))
    BY InputType DEF BuildInv, CompilesInput
  <2>2. QED
    BY <2>1 DEF Sources, Input
<1>5. /\ Compiling(b)' <=> Compiling(b)
      /\ \A at : Is(b, at)' <=> Is(b, at)
      /\ Input(b)' = Input(b) /\ ObjectFile(b)' = ObjectFile(b) /\ OutputFile(b)' = OutputFile(b)
  BY <1>1 DEF Compiling, Is, Input, ObjectFile, OutputFile
<1>6. \A i \in Used(b) : IsSource(cmd[b].inputs[i]) => At(ObjectOf(b, i))' = At(ObjectOf(b, i))
  <2>1. \A i \in Used(b) : IsSource(cmd[b].inputs[i]) =>
          cmd[b].inputs[i] \in Sources(cmd[b]) /\ ObjectOf(b, i) = ObjectName(cmd[b], cmd[b].inputs[i])
    BY DEF Sources, Used, ObjectOf
  <2>2. QED
    BY <1>1, <1>2, <2>1 DEF At, ObjectOf
<1>7. CompilesInput(b)'
  <2>1. Is(b, "parse") => At(TmpFileName(Input(b)))' = At(TmpFileName(Input(b)))
    BY <1>1, <1>2, <1>4 DEF Compiling, Is, At, Input
  <2>2. QED
    BY <1>1, <1>5, <2>1 DEF BuildInv, CompilesInput
<1>8. Listed(b)'
  BY <1>1, <1>5, SteadyFacts DEF BuildInv, Listed, Passed
<1>9. UpToDate(b)'
  <2>1. UpToDate(b)
    BY DEF BuildInv
  <2>2. QED
    BY <1>1, <1>5, <1>6, <2>1 DEF UpToDate, ObjectOf, Used, At
<1>10. LoadsInputs(b)'
  <2>1. /\ Whole(b, proc[b].loaded)' <=> Whole(b, proc[b].loaded)
        /\ \A i : UnitsOf(cmd[b].inputs[i])' = UnitsOf(cmd[b].inputs[i])
        /\ UnitsOf(Library)' = UnitsOf(Library)
        /\ Used(b)' = Used(b)
        /\ \A i : Place(b, i)' = Place(b, i)
    BY <1>1, SteadyFacts DEF Steady
  <2>2. \A i \in Used(b) : IsSource(cmd[b].inputs[i]) => At(ObjectOf(b, i))' = At(ObjectOf(b, i))
    BY <1>1, <1>6 DEF At, ObjectOf
  <2>3. LoadsInputs(b)
    BY DEF BuildInv
  <2>4. QED
    BY <1>1, <1>5, <2>1, <2>2, <2>3 DEF LoadsInputs
<1>11. ~cmd[b].compileOnly => At(OutputFile(b))' = At(OutputFile(b))
  BY <1>1, <1>3 DEF OutputFile, At
<1>12. ~cmd[b].compileOnly =>
         (IsImageOf(b, At(OutputFile(b)))' <=> IsImageOf(b, At(OutputFile(b))))
  BY <1>11, SteadyFacts DEF Effect
<1>13. SuccessOf(b)'
  BY <1>1, <1>3, <1>11, <1>12 DEF BuildInv, SuccessOf
<1>14. OutputOf(b)'
  <2>1. InTree(OutputFile(b))' = InTree(OutputFile(b))
    BY <1>1 DEF OutputFile, InTree
  <2>2. OutputOf(b)
    BY DEF BuildInv
  <2>3. QED
    BY <1>1, <1>5, <1>11, <1>12, <2>1, <2>2 DEF OutputOf, Half
<1>15. QED
  BY <1>7, <1>8, <1>9, <1>10, <1>13, <1>14 DEF BuildInv

\* A build that has not written its image, and does not.
LEMMA OutputKept ==
  ASSUME TypeOK, NEW b \in Builds, OutputOf(b), Steady, kills' = kills \/ kills' > 0,
         proc[b].code # "ok", ~Is(b, "write") \/ kills' > 0, proc'[b].code # "ok",
         ~cmd[b].compileOnly => At(OutputFile(b))' = At(OutputFile(b))
  PROVE  SuccessOf(b)' /\ OutputOf(b)'
<1>1. InTree(OutputFile(b))' = InTree(OutputFile(b)) /\ cmd' = cmd
  BY DEF OutputFile, InTree, Steady
<1>2. SuccessOf(b)'
  BY DEF SuccessOf
<1>3. OutputOf(b)'
  BY <1>1 DEF OutputOf, Half
<1>4. QED
  BY <1>2, <1>3

LEMMA NotDone ==
  ASSUME TypeOK, NEW b \in Builds, proc[b].code # "ok" \/ ~Is(b, "exit")
  PROVE  proc[b].code # "ok"
  BY ValuesAssumption DEF TypeOK, Is

\* A build ends, and has not written its image.
LEMMA OwnExit ==
  ASSUME TypeOK, NEW b \in Builds, BuildInv(b), Steady, files' = files,
         kills' = kills \/ kills' > 0, ~Is(b, "write") \/ kills' > 0,
         NEW code \in {"failed", "killed"}, Exit(b, code), ~Is(b, "exit")
  PROVE  BuildInv(b)'
<1>1. proc'[b].at = "exit" /\ proc'[b].code # "ok"
  BY ExitMoves DEF Codes, Moves
<1>2. proc[b].code # "ok"
  BY NotDone
<1>3. SuccessOf(b)' /\ OutputOf(b)'
  <2>1. At(OutputFile(b))' = At(OutputFile(b))
    BY DEF Steady, At, OutputFile
  <2>2. OutputOf(b)
    BY DEF BuildInv
  <2>3. QED
    BY <1>1, <1>2, <2>1, <2>2, OutputKept
<1>4. CompilesInput(b)'
  BY <1>1 DEF CompilesInput, Compiling, Is
<1>5. Listed(b)' /\ UpToDate(b)'
  BY <1>1 DEF Listed, UpToDate, Is
<1>6. LoadsInputs(b)'
  BY <1>1 DEF LoadsInputs, Is
<1>7. QED
  BY <1>3, <1>4, <1>5, <1>6 DEF BuildInv

LEMMA OwnRestart ==
  ASSUME TypeOK, NEW b \in Builds, BuildInv(b), Restart(b)
  PROVE  BuildInv(b)'
<1>1. /\ proc'[b].at = "file" /\ proc'[b].pos = 1 /\ proc'[b].objs = <<>>
      /\ proc'[b].loaded = <<>> /\ proc'[b].code = Missing
  BY RestartMoves DEF Moves
<1>2. Steady /\ files' = files /\ kills' = kills /\ proc[b].code = "killed"
  BY DEF Restart, SameFiles, Steady
<1>3. Is(b, "exit") /\ proc'[b].code # "ok" /\ proc[b].code # "ok"
  BY <1>1, <1>2, ValuesAssumption DEF TypeOK, Is
<1>4. SuccessOf(b)' /\ OutputOf(b)'
  <2>1. At(OutputFile(b))' = At(OutputFile(b))
    BY <1>2 DEF Steady, At, OutputFile
  <2>2. OutputOf(b)
    BY DEF BuildInv
  <2>3. QED
    BY <1>2, <1>3, <2>1, <2>2, OutputKept DEF Is
<1>5. CompilesInput(b)' /\ LoadsInputs(b)'
  BY <1>1 DEF CompilesInput, Compiling, LoadsInputs, Is
<1>6. Used(b)' \subseteq Nat \ {0}
  BY <1>2, SteadyFacts, UsedFinite, CommandLine
<1>7. Listed(b)'
  <2>1. Passed(b)' = {}
    BY <1>1, <1>6 DEF Passed, Compiling
  <2>2. QED
    BY <1>1, <2>1, FS_EmptySet DEF Listed
<1>8. UpToDate(b)'
  BY <1>1, <1>6 DEF UpToDate
<1>9. QED
  BY <1>4, <1>5, <1>7, <1>8 DEF BuildInv

\* objfiles, when the driver comes to an input.
LEMMA ListedKept ==
  ASSUME TypeOK, NEW b \in Builds, Listed(b), Steady, ~Is(b, "exit"),
         Passed(b)' = Passed(b), proc'[b].objs = proc[b].objs
  PROVE  Listed(b)'
<1>1. /\ \A i : Place(b, i)' = Place(b, i) /\ ObjectOf(b, i)' = ObjectOf(b, i)
      /\ cmd' = cmd
  BY SteadyFacts DEF Steady
<1>2. QED
  BY <1>1 DEF Listed

LEMMA ListedAppend ==
  ASSUME TypeOK, NEW b \in Builds, Listed(b), Steady, Is(b, "file"), proc[b].pos \in Used(b),
         proc'[b].objs = Append(proc[b].objs, ObjectOf(b, proc[b].pos)),
         Passed(b)' = Before(b, proc[b].pos + 1)
  PROVE  Listed(b)'
<1> DEFINE k == proc[b].pos
           objs == Append(proc[b].objs, ObjectOf(b, k))
<1>1. CASE cmd[b].compileOnly
  BY <1>1 DEF Listed, Steady
<1>2. CASE ~cmd[b].compileOnly
  <2>1. Passed(b) = Before(b, k)
    BY PassedFacts DEF Is, Compiling
  <2>2. /\ Len(proc[b].objs) = Cardinality(Before(b, k))
        /\ \A i \in Before(b, k) : proc[b].objs[Place(b, i)] = ObjectOf(b, i)
    BY <1>2, <2>1 DEF Listed, Is
  <2>3. /\ Before(b, k + 1) = Before(b, k) \cup {k}
        /\ Place(b, k) = Cardinality(Before(b, k)) + 1
        /\ Cardinality(Before(b, k)) \in Nat
        /\ Cardinality(Before(b, k + 1)) = Cardinality(Before(b, k)) + 1
    BY PassedFacts
  <2>4. ObjectOf(b, k) \in Path /\ proc[b].objs \in Seq(Path)
    <3>1. k \in DOMAIN cmd[b].inputs
      BY DEF Used
    <3>2. cmd[b].inputs[k] \in Path
      BY <3>1, CommandLine
    <3>3. QED
      BY <3>2, ObjectNames, ProcessFacts DEF ObjectOf
  <2>5. /\ Len(objs) = Len(proc[b].objs) + 1
        /\ objs[Len(proc[b].objs) + 1] = ObjectOf(b, k)
        /\ \A n \in 1..Len(proc[b].objs) : objs[n] = proc[b].objs[n]
    BY <2>4
  <2>6. \A i \in Before(b, k) : Place(b, i) \in 1..Len(proc[b].objs)
    <3>1. TAKE i \in Before(b, k)
    <3>2. i \in Used(b) /\ i < k
      BY DEF Before
    <3>3. Place(b, i) \in 1..Cardinality(Used(b)) /\ Place(b, i) < Place(b, k)
      BY <3>2, PlaceFacts
    <3>4. Cardinality(Used(b)) \in Nat
      BY UsedFinite
    <3>5. QED
      BY <2>2, <2>3, <3>3, <3>4
  <2> HIDE DEF k, objs
  <2>7. /\ Len(objs) = Cardinality(Before(b, k + 1))
        /\ \A i \in Before(b, k + 1) : objs[Place(b, i)] = ObjectOf(b, i)
    BY <2>2, <2>3, <2>5, <2>6
  <2>8. /\ \A i : Place(b, i)' = Place(b, i) /\ ObjectOf(b, i)' = ObjectOf(b, i)
        /\ proc'[b].objs = objs /\ Passed(b)' = Before(b, k + 1)
    BY SteadyFacts DEF k, objs
  <2>9. QED
    BY <2>7, <2>8 DEF Listed
<1>3. QED
  BY <1>1, <1>2

\* The driver comes to an input.
LEMMA OwnStart ==
  ASSUME TypeOK, NEW b \in Builds, BuildInv(b), StartCompiler(b)
  PROVE  BuildInv(b)'
<1>1. /\ proc'[b].at = "cpp" /\ proc'[b].pos = proc[b].pos /\ proc'[b].code = proc[b].code
      /\ proc'[b].objs = IF cmd[b].compileOnly THEN proc[b].objs
                         ELSE Append(proc[b].objs, ObjectFile(b))
  BY StartCompilerMoves DEF Moves
<1>2. /\ Steady /\ files' = files /\ kills' = kills /\ Is(b, "file")
      /\ proc[b].pos \in DOMAIN cmd[b].inputs /\ IsSource(Input(b))
      /\ proc[b].pos <= Len(cmd[b].inputs)
  BY InputType DEF StartCompiler, Reading, SameFiles, Steady
<1>3. proc[b].code # "ok"
  BY <1>2, NotDone DEF Is
<1>4. SuccessOf(b)' /\ OutputOf(b)'
  <2>1. At(OutputFile(b))' = At(OutputFile(b))
    BY <1>2 DEF Steady, At, OutputFile
  <2>2. OutputOf(b)
    BY DEF BuildInv
  <2>3. QED
    BY <1>1, <1>2, <1>3, <2>1, <2>2, OutputKept DEF Is
<1>5. CompilesInput(b)'
  BY <1>1, <1>2 DEF CompilesInput, Compiling, Is, Steady, Input
<1>6. Listed(b)'
  <2>1. CASE cmd[b].compileOnly
    BY <1>2, <2>1 DEF Listed, Steady
  <2>2. CASE ~cmd[b].compileOnly
    <3>1. proc[b].pos \in Used(b) /\ ObjectFile(b) = ObjectOf(b, proc[b].pos)
      BY <1>2 DEF Used, ObjectOf, ObjectFile, Input
    <3>2. Used(b)' = Used(b) /\ Used(b) \subseteq Nat /\ proc[b].pos \in Nat
      BY <1>2, SteadyFacts, UsedFinite, CommandLine, ProcessFacts
    <3>3. Passed(b)' = Before(b, proc[b].pos + 1)
      BY <1>1, <3>2 DEF Passed, Compiling, Before
    <3>4. QED
      BY <1>1, <1>2, <2>2, <3>1, <3>3, ListedAppend DEF BuildInv
  <2>3. QED
    BY <2>1, <2>2
<1>7. UpToDate(b)'
  BY <1>1, <1>2 DEF BuildInv, UpToDate, Is, Steady, Used, ObjectOf, At
<1>8. LoadsInputs(b)'
  BY <1>1 DEF LoadsInputs, Is
<1>9. QED
  BY <1>4, <1>5, <1>6, <1>7, <1>8 DEF BuildInv

LEMMA OwnPass ==
  ASSUME TypeOK, NEW b \in Builds, BuildInv(b), PassOrIgnore(b)
  PROVE  BuildInv(b)'
<1>1. /\ proc'[b].at = proc[b].at /\ proc'[b].pos = proc[b].pos + 1 /\ proc'[b].code = proc[b].code
      /\ proc'[b].objs = IF IsObject(Input(b)) THEN Append(proc[b].objs, Input(b)) ELSE proc[b].objs
  BY PassMoves DEF Moves
<1>2. /\ Steady /\ files' = files /\ kills' = kills /\ Is(b, "file")
      /\ proc[b].pos \in DOMAIN cmd[b].inputs /\ ~IsSource(Input(b))
      /\ proc[b].pos \in Nat
  BY InputType, ProcessFacts DEF PassOrIgnore, Reading, SameFiles, Steady
<1>3. proc[b].code # "ok"
  BY <1>2, NotDone DEF Is
<1>4. SuccessOf(b)' /\ OutputOf(b)'
  <2>1. At(OutputFile(b))' = At(OutputFile(b))
    BY <1>2 DEF Steady, At, OutputFile
  <2>2. OutputOf(b)
    BY DEF BuildInv
  <2>3. QED
    BY <1>1, <1>2, <1>3, <2>1, <2>2, OutputKept DEF Is
<1>5. CompilesInput(b)' /\ LoadsInputs(b)'
  BY <1>1, <1>2 DEF CompilesInput, Compiling, LoadsInputs, Is
<1>6. Used(b)' = Used(b) /\ Used(b) \subseteq Nat
  BY <1>2, SteadyFacts, UsedFinite, CommandLine
<1>7. Passed(b)' = Before(b, proc[b].pos + 1)
  BY <1>1, <1>2, <1>6 DEF Passed, Compiling, Before, Is
<1>8. Listed(b)'
  <2>1. CASE IsObject(Input(b))
    <3>1. proc[b].pos \in Used(b) /\ Input(b) = ObjectOf(b, proc[b].pos)
      BY <1>2, <2>1 DEF Used, ObjectOf, Input
    <3>2. QED
      BY <1>1, <1>2, <1>7, <2>1, <3>1, ListedAppend DEF BuildInv
  <2>2. CASE ~IsObject(Input(b))
    <3>1. proc[b].pos \notin Used(b)
      BY <1>2, <2>2 DEF Used, Input
    <3>2. Passed(b) = Before(b, proc[b].pos)
      BY <1>2, PassedFacts DEF Compiling, Is
    <3>3. Passed(b)' = Passed(b)
      BY <1>2, <1>7, <3>1, <3>2, PassedFacts
    <3>4. QED
      BY <1>1, <1>2, <2>2, <3>3, ListedKept DEF BuildInv, Is
  <2>3. QED
    BY <2>1, <2>2
<1>9. UpToDate(b)'
  <2>1. \A i \in Used(b) : IsSource(cmd[b].inputs[i]) /\ i < proc[b].pos + 1 => i < proc[b].pos
    BY <1>2, <1>6 DEF Input
  <2>2. QED
    BY <1>1, <1>2, <2>1 DEF BuildInv, UpToDate, Is, Steady, Used, ObjectOf, At
<1>10. QED
  BY <1>4, <1>5, <1>8, <1>9 DEF BuildInv

\* A build that compiles is at a source; it leaves the image alone.
LEMMA CompilingFacts ==
  ASSUME TypeOK, NEW b \in Builds, CompilesInput(b), Compiling(b)
  PROVE  /\ proc[b].pos \in Used(b) /\ proc[b].pos \in DOMAIN cmd[b].inputs
         /\ IsSource(Input(b)) /\ Input(b) \in Sources(cmd[b])
         /\ ObjectFile(b) = ObjectOf(b, proc[b].pos)
         /\ TmpFileName(Input(b)) \in Intermediate(cmd[b])
         /\ ObjectFile(b) \in Intermediate(cmd[b])
         /\ ~Is(b, "exit") /\ ~Is(b, "write") /\ ~Is(b, "load") /\ proc[b].code # "ok"
<1>1. proc[b].pos \in DOMAIN cmd[b].inputs /\ IsSource(Input(b))
  BY InputType DEF CompilesInput
<1>2. ~Is(b, "exit") /\ ~Is(b, "write") /\ ~Is(b, "load")
  BY DEF Compiling, Is
<1>3. proc[b].code # "ok"
  BY <1>2, NotDone
<1>4. QED
  BY <1>1, <1>2, <1>3, SourceNames DEF Used, ObjectOf, ObjectFile, Input

LEMMA ImageKept ==
  ASSUME TypeOK, NEW b \in Builds, Steady, NEW p \in Intermediate(cmd[b]), NEW content,
         Write(p, content), ~cmd[b].compileOnly
  PROVE  At(OutputFile(b))' = At(OutputFile(b))
<1>1. ImageName(cmd[b]) # p
  BY OutputsApart DEF TypeOK
<1>2. At(ImageName(cmd[b]))' = At(ImageName(cmd[b]))
  BY <1>1 DEF Steady, Write, At
<1>3. QED
  BY <1>2 DEF OutputFile

\* cpp writes the text of an input.
LEMMA OwnText ==
  ASSUME TypeOK, NEW b \in Builds, BuildInv(b), Compiling(b), ~Is(b, "serialize"),
         Steady, kills' = kills, NEW at \in {"expand", "parse"}, Goes(b, at),
         NEW content, Write(TmpFileName(Input(b)), content), CompilesInput(b)'
  PROVE  BuildInv(b)'
<1>1. /\ proc'[b].at = at /\ proc'[b].pos = proc[b].pos /\ proc'[b].code = proc[b].code
      /\ proc'[b].objs = proc[b].objs
  BY GoesMoves DEF Moves, Places
<1>2. CompilesInput(b)
  BY DEF BuildInv
<1>3. SuccessOf(b)' /\ OutputOf(b)'
  <2>1. ~cmd[b].compileOnly => At(OutputFile(b))' = At(OutputFile(b))
    BY <1>2, CompilingFacts, ImageKept
  <2>2. OutputOf(b)
    BY DEF BuildInv
  <2>3. QED
    BY <1>1, <1>2, <2>1, <2>2, CompilingFacts, OutputKept
<1>4. Listed(b)'
  <2>1. Passed(b)' = Passed(b)
    BY <1>1, SteadyFacts DEF Passed, Compiling
  <2>2. QED
    BY <1>1, <1>2, <2>1, CompilingFacts, ListedKept DEF BuildInv
<1>5. UpToDate(b)'
  <2>1. CASE cmd[b].compileOnly
    BY <2>1 DEF UpToDate, Steady
  <2>2. CASE ~cmd[b].compileOnly
    <3>1. Input(b) \in Path
      BY <1>2, InputType DEF CompilesInput
    <3>2. ASSUME NEW i \in Used(b), IsSource(cmd[b].inputs[i])
          PROVE  ObjectOf(b, i) # TmpFileName(Input(b))
      <4>1. cmd[b].inputs[i] \in Path
        BY CommandLine DEF Used
      <4>2. ObjectOf(b, i) = ReplaceFileNameExtension(cmd[b].inputs[i], ".o")
        BY <2>2, <3>2 DEF ObjectOf, ObjectName
      <4>3. QED
        BY <3>1, <4>1, <4>2, TextIsNoObject
    <3>3. \A i \in Used(b) : IsSource(cmd[b].inputs[i]) =>
            At(ObjectOf(b, i))' = At(ObjectOf(b, i))
      BY <3>2 DEF Steady, At, ObjectOf, Write
    <3>4. UpToDate(b) /\ cmd' = cmd /\ tree' = tree
      BY DEF BuildInv, Steady
    <3>5. ~Is(b, "exit") /\ ~Is(b, "write")
      BY <1>2, CompilingFacts
    <3>6. QED
      BY <1>1, <2>2, <3>3, <3>4, <3>5 DEF UpToDate, ObjectOf, Used, Is
  <2>3. QED
    BY <2>1, <2>2
<1>6. LoadsInputs(b)'
  BY <1>1 DEF LoadsInputs, Is
<1>7. QED
  BY <1>3, <1>4, <1>5, <1>6 DEF BuildInv

LEMMA OwnOpenText ==
  ASSUME TypeOK, NEW b \in Builds, SourcesKept, BuildInv(b), OpenText(b)
  PROVE  BuildInv(b)'
<1>1. /\ Compiling(b) /\ Is(b, "cpp") /\ CompilesInput(b)
      /\ Steady /\ kills' = kills /\ Goes(b, "expand")
      /\ Write(TmpFileName(Input(b)), Half) /\ At(Input(b)) # Nothing
  BY DEF OpenText, Compiling, Is, Steady, BuildInv
<1>2. Input(b) \in DOMAIN tree
  BY <1>1, CompilingFacts DEF SourcesKept, InTree
<1>3. proc'[b].at = "expand" /\ proc'[b].pos = proc[b].pos
  BY <1>1, GoesMoves DEF Moves, Places
<1>4. CompilesInput(b)'
  BY <1>1, <1>2, <1>3 DEF CompilesInput, Compiling, Is, Steady, Input
<1>5. QED
  BY <1>1, <1>4, OwnText DEF Is

LEMMA OwnPreprocess ==
  ASSUME TypeOK, NEW b \in Builds, SourcesKept, BuildInv(b), Preprocess(b)
  PROVE  BuildInv(b)'
<1>1. /\ Compiling(b) /\ Is(b, "expand") /\ CompilesInput(b)
      /\ Steady /\ kills' = kills /\ Goes(b, "parse")
      /\ Write(TmpFileName(Input(b)), Text(At(Input(b)).of))
  BY DEF Preprocess, Compiling, Is, Steady, BuildInv
<1>2. Input(b) \in DOMAIN tree
  BY <1>1 DEF CompilesInput, Is
<1>3. At(Input(b)).of = tree[Input(b)].of
  BY <1>1, <1>2, CompilingFacts DEF SourcesKept, InTree
<1>4. proc'[b].at = "parse" /\ proc'[b].pos = proc[b].pos
  BY <1>1, GoesMoves DEF Moves, Places
<1>5. Input(b)' = Input(b) /\ cmd' = cmd /\ tree' = tree
  BY <1>1, <1>4 DEF Input, Steady
<1>6. At(TmpFileName(Input(b)))'.of = tree[Input(b)].of
  <2>1. TmpFileName(Input(b))' = TmpFileName(Input(b))
    BY <1>5 DEF TmpFileName
  <2>2. At(TmpFileName(Input(b)))' = Text(At(Input(b)).of)
    BY <1>1, <2>1 DEF Write, At
  <2>3. QED
    BY <1>3, <2>2 DEF Text
<1>7. CompilesInput(b)'
  BY <1>1, <1>2, <1>4, <1>5, <1>6 DEF CompilesInput, Compiling, Is
<1>8. QED
  BY <1>1, <1>7, OwnText DEF Is

LEMMA OwnCompileUnit ==
  ASSUME TypeOK, NEW b \in Builds, BuildInv(b), CompileUnit(b)
  PROVE  BuildInv(b)'
<1>1. CompilesInput(b) /\ Compiling(b) /\ Is(b, "parse") /\ Steady /\ files' = files /\ kills' = kills
  BY DEF CompileUnit, Compiling, Is, SameFiles, Steady, BuildInv
<1>2. /\ proc'[b].at = "compiled" /\ proc'[b].pos = proc[b].pos /\ proc'[b].code = proc[b].code
      /\ proc'[b].unit = tree[Input(b)].of /\ proc'[b].objs = proc[b].objs
  BY <1>1, CompileUnitMoves DEF Moves
<1>3. SuccessOf(b)' /\ OutputOf(b)'
  <2>1. At(OutputFile(b))' = At(OutputFile(b))
    BY <1>1 DEF Steady, At, OutputFile
  <2>2. OutputOf(b)
    BY DEF BuildInv
  <2>3. QED
    BY <1>1, <1>2, <2>1, <2>2, CompilingFacts, OutputKept
<1>4. CompilesInput(b)'
  BY <1>1, <1>2 DEF CompilesInput, Compiling, Is, Steady, Input
<1>5. Listed(b)'
  <2>1. Passed(b)' = Passed(b)
    BY <1>1, <1>2, SteadyFacts DEF Passed, Compiling, Is
  <2>2. QED
    BY <1>1, <1>2, <2>1, CompilingFacts, ListedKept DEF BuildInv
<1>6. UpToDate(b)'
  BY <1>1, <1>2 DEF BuildInv, UpToDate, Is, Steady, Used, ObjectOf, At
<1>7. LoadsInputs(b)'
  BY <1>2 DEF LoadsInputs, Is
<1>8. QED
  BY <1>3, <1>4, <1>5, <1>6, <1>7 DEF BuildInv

\* cc0 -c opens the object and writes it.
LEMMA OwnOpenObject ==
  ASSUME TypeOK, NEW b \in Builds, BuildInv(b), OpenObject(b)
  PROVE  BuildInv(b)'
<1>1. /\ CompilesInput(b) /\ Compiling(b) /\ Is(b, "compiled") /\ Steady /\ kills' = kills
      /\ Goes(b, "serialize") /\ Write(ObjectFile(b), Half)
  BY DEF OpenObject, Compiling, Is, Steady, BuildInv
<1>2. /\ proc'[b].at = "serialize" /\ proc'[b].pos = proc[b].pos /\ proc'[b].code = proc[b].code
      /\ proc'[b].unit = proc[b].unit /\ proc'[b].objs = proc[b].objs
  BY <1>1, GoesMoves DEF Moves, Places
<1>3. SuccessOf(b)' /\ OutputOf(b)'
  <2>1. ~cmd[b].compileOnly => At(OutputFile(b))' = At(OutputFile(b))
    BY <1>1, CompilingFacts, ImageKept
  <2>2. OutputOf(b)
    BY DEF BuildInv
  <2>3. QED
    BY <1>1, <1>2, <2>1, <2>2, CompilingFacts, OutputKept
<1>4. CompilesInput(b)'
  BY <1>1, <1>2 DEF CompilesInput, Compiling, Is, Steady, Input
<1>5. Listed(b)'
  <2>1. Passed(b)' = Passed(b)
    BY <1>1, <1>2, SteadyFacts DEF Passed, Compiling, Is
  <2>2. QED
    BY <1>1, <1>2, <2>1, CompilingFacts, ListedKept DEF BuildInv
<1>6. UpToDate(b)'
  <2>1. ObjectFile(b)' = ObjectFile(b)
    BY <1>1, <1>2 DEF ObjectFile, Input, Steady
  <2>2. \A i \in Used(b) : ObjectOf(b, i) # ObjectFile(b) => At(ObjectOf(b, i))' = At(ObjectOf(b, i))
    BY <1>1 DEF Steady, At, ObjectOf, Write
  <2>3. UpToDate(b) /\ cmd' = cmd /\ tree' = tree
    BY <1>1 DEF BuildInv, Steady
  <2>4. QED
    BY <1>1, <1>2, <2>1, <2>2, <2>3 DEF UpToDate, ObjectOf, Used, Is
<1>7. LoadsInputs(b)'
  BY <1>2 DEF LoadsInputs, Is
<1>8. QED
  BY <1>3, <1>4, <1>5, <1>6, <1>7 DEF BuildInv

LEMMA OwnWriteObject ==
  ASSUME TypeOK, NEW b \in Builds, BuildInv(b), WriteObject(b)
  PROVE  BuildInv(b)'
<1>1. /\ CompilesInput(b) /\ Compiling(b) /\ Is(b, "serialize") /\ Steady /\ kills' = kills
      /\ Write(ObjectFile(b), Object(proc[b].unit))
  BY DEF WriteObject, Compiling, Is, Steady, BuildInv
<1>2. cmd' = cmd /\ tree' = tree
  BY <1>1 DEF Steady
<1>3. CASE cmd[b].compileOnly
  <2>1. proc'[b].at = "exit"
    BY <1>3, ExitMoves DEF WriteObject, Codes, Moves
  <2>2. QED
    BY <1>2, <1>3, <2>1 DEF BuildInv, CompilesInput, Compiling, Listed, UpToDate, LoadsInputs,
                            SuccessOf, OutputOf, Is
<1>4. CASE ~cmd[b].compileOnly
  <2>1. /\ proc'[b].at = "file" /\ proc'[b].pos = proc[b].pos + 1 /\ proc'[b].code = proc[b].code
        /\ proc'[b].objs = proc[b].objs
    BY <1>4, NextFileMoves DEF WriteObject, Moves
  <2>2. SuccessOf(b)' /\ OutputOf(b)'
    <3>1. At(OutputFile(b))' = At(OutputFile(b))
      BY <1>1, <1>4, CompilingFacts, ImageKept
    <3>2. OutputOf(b)
      BY DEF BuildInv
    <3>3. QED
      BY <1>1, <2>1, <3>1, <3>2, CompilingFacts, OutputKept
  <2>3. CompilesInput(b)' /\ LoadsInputs(b)'
    BY <2>1 DEF CompilesInput, Compiling, LoadsInputs, Is
  <2>4. Listed(b)'
    <3>1. Passed(b) = Before(b, proc[b].pos + 1)
      BY <1>1, PassedFacts
    <3>2. Passed(b)' = Passed(b)
      BY <1>1, <2>1, <3>1, SteadyFacts DEF Passed, Compiling, Before
    <3>3. QED
      BY <1>1, <2>1, <3>2, CompilingFacts, ListedKept DEF BuildInv
  <2>5. UpToDate(b)'
    <3>0. PICK k : k = proc[b].pos
      OBVIOUS
    <3>1. /\ k \in Used(b) /\ IsSource(cmd[b].inputs[k]) /\ ObjectFile(b) = ObjectOf(b, k)
          /\ cmd[b].inputs[k] \in DOMAIN tree
          /\ proc[b].unit = tree[cmd[b].inputs[k]].of
      BY <1>1, <3>0, CompilingFacts DEF CompilesInput, Input, Is
    <3>2. /\ At(ObjectOf(b, k))' = Object(tree[cmd[b].inputs[k]].of)
          /\ \A i \in Used(b) : ObjectOf(b, i) # ObjectOf(b, k) => At(ObjectOf(b, i))' = At(ObjectOf(b, i))
      BY <1>1, <1>2, <2>1, <3>1 DEF Write, At, ObjectOf
    <3>3. \A i \in Used(b) : i < k + 1 /\ i # k => i < k
      BY <3>0, ProcessFacts, UsedFinite, CommandLine
    <3>4. \A i \in Used(b) :
            IsSource(cmd[b].inputs[i]) /\ i < k + 1 /\ ObjectOf(b, i) # ObjectOf(b, k) =>
              \E j \in Used(b) :
                /\ IsSource(cmd[b].inputs[j]) /\ cmd[b].inputs[j] \in DOMAIN tree
                /\ ObjectOf(b, j) = ObjectOf(b, i)
                /\ At(ObjectOf(b, i)) = Object(tree[cmd[b].inputs[j]].of)
      BY <1>1, <1>4, <3>0, <3>1, <3>3 DEF BuildInv, UpToDate, Is
    <3>5. \A i \in Used(b) :
            IsSource(cmd[b].inputs[i]) /\ i < k + 1 =>
              \E j \in Used(b) :
                /\ IsSource(cmd[b].inputs[j]) /\ cmd[b].inputs[j] \in DOMAIN tree
                /\ ObjectOf(b, j) = ObjectOf(b, i)
                /\ At(ObjectOf(b, i))' = Object(tree[cmd[b].inputs[j]].of)
      <4> SUFFICES ASSUME NEW i \in Used(b), IsSource(cmd[b].inputs[i]), i < k + 1
                   PROVE  \E j \in Used(b) :
                            /\ IsSource(cmd[b].inputs[j]) /\ cmd[b].inputs[j] \in DOMAIN tree
                            /\ ObjectOf(b, j) = ObjectOf(b, i)
                            /\ At(ObjectOf(b, i))' = Object(tree[cmd[b].inputs[j]].of)
        OBVIOUS
      <4>1. CASE ObjectOf(b, i) = ObjectOf(b, k)
        <5>1. At(ObjectOf(b, i))' = Object(tree[cmd[b].inputs[k]].of)
          BY <1>2, <3>2, <4>1 DEF ObjectOf, At
        <5>2. QED
          BY <3>1, <4>1, <5>1
      <4>2. CASE ObjectOf(b, i) # ObjectOf(b, k)
        BY <3>2, <3>4, <4>2
      <4>3. QED
        BY <4>1, <4>2
    <3>6. QED
      BY <1>2, <2>1, <3>0, <3>5 DEF UpToDate, Used, ObjectOf, Is
  <2>6. QED
    BY <2>2, <2>3, <2>4, <2>5 DEF BuildInv
<1>5. QED
  BY <1>3, <1>4

\* ld0 starts, with every input passed.
LEMMA OwnStartLinker ==
  ASSUME TypeOK, NEW b \in Builds, BuildInv(b), StartLinker(b)
  PROVE  BuildInv(b)'
<1>1. /\ Is(b, "file") /\ ~cmd[b].compileOnly /\ proc[b].pos > Len(cmd[b].inputs)
      /\ Steady /\ files' = files /\ kills' = kills
  BY DEF StartLinker, SameFiles, Steady
<1>2. CASE Exit(b, "failed")
  BY <1>1, <1>2, OwnExit DEF Is
<1>3. CASE Goes(b, "load")
  <2>1. /\ proc'[b].at = "load" /\ proc'[b].pos = proc[b].pos /\ proc'[b].code = proc[b].code
        /\ proc'[b].objs = proc[b].objs /\ proc'[b].loaded = proc[b].loaded
    BY <1>3, GoesMoves DEF Moves, Places
  <2>2. SuccessOf(b)' /\ OutputOf(b)'
    <3>1. At(OutputFile(b))' = At(OutputFile(b))
      BY <1>1 DEF Steady, At, OutputFile
    <3>2. OutputOf(b) /\ proc[b].code # "ok"
      BY <1>1, NotDone DEF BuildInv, Is
    <3>3. QED
      BY <1>1, <2>1, <3>1, <3>2, OutputKept DEF Is
  <2>3. CompilesInput(b)'
    BY <2>1 DEF CompilesInput, Compiling, Is
  <2>4. Listed(b)'
    <3>1. Passed(b)' = Passed(b)
      BY <1>1, <2>1, SteadyFacts DEF Passed, Compiling, Is
    <3>2. QED
      BY <1>1, <2>1, <3>1, ListedKept DEF BuildInv, Is
  <2>5. UpToDate(b)'
    BY <1>1, <2>1 DEF BuildInv, UpToDate, Is, Steady, Used, ObjectOf, At
  <2>6. LoadsInputs(b)'
    <3>1. proc[b].loaded = <<>> /\ proc[b].pos = Len(cmd[b].inputs) + 1
      BY <1>1, ProcessFacts, CommandLine DEF TypeOK, Is
    <3>2. \A i \in Used(b) : ~(Place(b, i) <= Len(proc[b].loaded))
      BY <3>1, PlaceFacts, UsedFinite
    <3>3. Used(b)' = Used(b) /\ \A i : Place(b, i)' = Place(b, i)
      BY <1>1, SteadyFacts
    <3>4. Len(proc[b].loaded) # Len(proc[b].objs) + 1
      BY <3>1, ProcessFacts
    <3>5. QED
      BY <1>1, <2>1, <3>1, <3>2, <3>3, <3>4 DEF LoadsInputs, Is, Steady
  <2>7. QED
    BY <2>2, <2>3, <2>4, <2>5, <2>6 DEF BuildInv
<1>4. QED
  BY <1>2, <1>3 DEF StartLinker

\* Every input has been passed when the linker loads.
LEMMA LoadingFacts ==
  ASSUME TypeOK, NEW b \in Builds, BuildInv(b), Is(b, "load")
  PROVE  /\ ~cmd[b].compileOnly /\ proc[b].pos = Len(cmd[b].inputs) + 1
         /\ Len(proc[b].objs) = Cardinality(Used(b))
         /\ \A i \in Used(b) : /\ Place(b, i) \in 1..Len(proc[b].objs)
                                /\ ObjectsOf(b)[Place(b, i)] = ObjectOf(b, i)
<1>1. ~cmd[b].compileOnly /\ proc[b].pos = Len(cmd[b].inputs) + 1
  BY DEF BuildInv, LoadsInputs
<1>2. Passed(b) = Used(b)
  BY <1>1, PassedFacts DEF Compiling, Is
<1>3. /\ Len(proc[b].objs) = Cardinality(Used(b))
      /\ \A i \in Used(b) : proc[b].objs[Place(b, i)] = ObjectOf(b, i)
  BY <1>1, <1>2 DEF BuildInv, Listed, Is
<1>4. \A i \in Used(b) : Place(b, i) \in 1..Len(proc[b].objs)
  BY <1>3, PlaceFacts
<1>5. QED
  BY <1>1, <1>3, <1>4, ProcessFacts

LEMMA OwnLoad ==
  ASSUME TypeOK, NEW b \in Builds, ObjectsKnown, BuildInv(b), LoadObject(b)
  PROVE  BuildInv(b)'
<1>1. /\ Is(b, "load") /\ Steady /\ files' = files /\ kills' = kills
      /\ Len(proc[b].loaded) < Len(proc[b].objs) + 1
      /\ Loading(b).kind = "object"
      /\ cmd' = cmd
  BY ProcessFacts DEF LoadObject, Loads, SameFiles, Steady
<1>2. /\ proc'[b].at = "load" /\ proc'[b].pos = proc[b].pos /\ proc'[b].code = proc[b].code
      /\ proc'[b].objs = proc[b].objs /\ proc'[b].loaded = Append(proc[b].loaded, Loading(b).of)
  BY <1>1, LoadMoves DEF Moves, Is
<1>3. SuccessOf(b)' /\ OutputOf(b)'
  <2>1. At(OutputFile(b))' = At(OutputFile(b))
    BY <1>1 DEF Steady, At, OutputFile
  <2>2. OutputOf(b) /\ proc[b].code # "ok"
    BY <1>1, NotDone DEF BuildInv, Is
  <2>3. QED
    BY <1>1, <1>2, <2>1, <2>2, OutputKept DEF Is
<1>4. CompilesInput(b)'
  BY <1>2 DEF CompilesInput, Compiling, Is
<1>5. Listed(b)'
  <2>1. Passed(b)' = Passed(b)
    BY <1>1, <1>2, SteadyFacts DEF Passed, Compiling, Is
  <2>2. QED
    BY <1>1, <1>2, <2>1, ListedKept DEF BuildInv, Is
<1>6. UpToDate(b)'
  BY <1>1, <1>2 DEF BuildInv, UpToDate, Is, Steady, Used, ObjectOf, At
<1>7. LoadsInputs(b)'
  <2>1. PICK units : units = proc'[b].loaded
    OBVIOUS
  <2>2. PICK n \in Nat : n = Len(proc[b].loaded) + 1
    BY ProcessFacts
  <2>3. /\ Len(units) = n /\ units[n] = Loading(b).of
        /\ \A k \in 1..(n - 1) : units[k] = proc[b].loaded[k]
    <3>1. Loading(b).of \in Units
      BY <1>1 DEF Loading, At, Nothing, ObjectsKnown
    <3>2. proc[b].loaded \in Seq(Units)
      BY ProcessFacts
    <3>3. QED
      BY <1>2, <2>1, <2>2, <3>1, <3>2
  <2>4. PICK p : p = ObjectsOf(b)[n]
    OBVIOUS
  <2>5. /\ Loading(b) = At(p)
        /\ At(p).of \in UnitsAt(p) \cup CompiledTo(p)
    <3>1. Loading(b) = At(p)
      BY <2>2, <2>4 DEF Loading
    <3>2. QED
      BY <1>1, <3>1 DEF At, Nothing, ObjectsKnown
  <2>6. ASSUME NEW i \in Used(b), Place(b, i) <= n
        PROVE  IF IsSource(cmd[b].inputs[i]) THEN units[Place(b, i)] = At(ObjectOf(b, i)).of
               ELSE units[Place(b, i)] \in UnitsOf(cmd[b].inputs[i])
    <3>1. Place(b, i) \in Nat /\ Place(b, i) >= 1
      BY PlaceFacts, UsedFinite
    <3>2. CASE Place(b, i) = n
      <4>1. p = ObjectOf(b, i)
        BY <1>1, <2>4, <3>2, LoadingFacts
      <4>2. QED
        BY <2>3, <2>5, <3>2, <4>1 DEF ObjectOf, UnitsOf
    <3>3. CASE Place(b, i) < n
      <4>1. Place(b, i) <= Len(proc[b].loaded) /\ units[Place(b, i)] = proc[b].loaded[Place(b, i)]
        BY <2>2, <2>3, <3>1, <3>3, ProcessFacts
      <4>2. QED
        BY <1>1, <4>1 DEF BuildInv, LoadsInputs
    <3>4. QED
      BY <2>6, <3>1, <3>2, <3>3
  <2>7. n = Len(proc[b].objs) + 1 => units[n] \in UnitsOf(Library)
    <3>1. n = Len(proc[b].objs) + 1 => p = Library
      BY <2>4, ProcessFacts
    <3>2. UnitsOf(Library) = UnitsAt(Library) \cup CompiledTo(Library)
      BY ValuesAssumption, ObjectIsNoSource DEF UnitsOf
    <3>3. QED
      BY <2>3, <2>5, <3>1, <3>2
  <2>8. /\ Used(b)' = Used(b) /\ UnitsOf(Library)' = UnitsOf(Library)
        /\ \A i : Place(b, i)' = Place(b, i)
        /\ \A i : At(ObjectOf(b, i))' = At(ObjectOf(b, i))
        /\ \A i : UnitsOf(cmd[b].inputs[i])' = UnitsOf(cmd[b].inputs[i])
    <3>1. \A i : At(ObjectOf(b, i))' = At(ObjectOf(b, i))
      BY <1>1 DEF At, ObjectOf
    <3>2. QED
      BY <1>1, <3>1, SteadyFacts
  <2>9. ~cmd[b].compileOnly /\ proc[b].pos = Len(cmd[b].inputs) + 1
    BY <1>1, LoadingFacts
  <2>10. \A i \in Used(b)' : Place(b, i)' <= Len(units) =>
           IF IsSource(cmd[b].inputs[i]) THEN units[Place(b, i)'] = At(ObjectOf(b, i))'.of
           ELSE units[Place(b, i)'] \in UnitsOf(cmd[b].inputs[i])'
    <3>1. \A i : At(ObjectOf(b, i))' = At(ObjectOf(b, i))
      BY <2>8
    <3>2. QED
      BY <2>3, <2>6, <2>8, <3>1
  <2>11. Len(units) = Len(proc[b].objs) + 1 => units[Len(units)] \in UnitsOf(Library)'
    BY <2>3, <2>7, <2>8
  <2>12. ~Is(b, "write")' /\ Is(b, "load")'
    BY <1>2 DEF Is
  <2>13. QED
    BY <1>1, <1>2, <2>1, <2>9, <2>10, <2>11, <2>12 DEF LoadsInputs
<1>8. QED
  BY <1>3, <1>4, <1>5, <1>6, <1>7 DEF BuildInv

\* What links is whole: the object of an input that another one replaced would
\* be loaded twice, and its functions defined twice.
LEMMA LinksWhole ==
  ASSUME TypeOK, NEW b \in Builds, BuildInv(b), Loaded(b), Links(proc[b].loaded)
  PROVE  Whole(b, proc[b].loaded)
<1> DEFINE units == proc[b].loaded
<1>1. /\ Is(b, "load") /\ Len(units) = Len(proc[b].objs) + 1
      /\ Len(units) = Cardinality(Used(b)) + 1
      /\ units \in Seq(Units) /\ Len(units) \in Nat
      /\ Cardinality(Used(b)) \in Nat
  BY ProcessFacts, LoadingFacts, UsedFinite DEF Loaded
<1>2. \A i \in Used(b) : Place(b, i) \in DOMAIN units /\ Place(b, i) <= Len(units)
  BY <1>1, PlaceFacts
<1>3. units[Len(units)] \in UnitsOf(Library)
  BY <1>1 DEF BuildInv, LoadsInputs
<1>4. ASSUME NEW i \in Used(b) PROVE units[Place(b, i)] \in UnitsOf(cmd[b].inputs[i])
  <2>1. CASE ~IsSource(cmd[b].inputs[i])
    BY <1>1, <1>2, <2>1 DEF BuildInv, LoadsInputs
  <2>2. CASE IsSource(cmd[b].inputs[i])
    <3>1. units[Place(b, i)] = At(ObjectOf(b, i)).of
      BY <1>1, <1>2, <2>2 DEF BuildInv, LoadsInputs
    <3>2. i < proc[b].pos /\ ~cmd[b].compileOnly
      BY <1>1, LoadingFacts, UsedFinite, CommandLine
    <3>3. PICK k \in Used(b) :
            /\ IsSource(cmd[b].inputs[k]) /\ cmd[b].inputs[k] \in DOMAIN tree
            /\ ObjectOf(b, k) = ObjectOf(b, i)
            /\ At(ObjectOf(b, i)) = Object(tree[cmd[b].inputs[k]].of)
      BY <1>1, <2>2, <3>2 DEF BuildInv, UpToDate, Is
    <3>4. units[Place(b, i)] = tree[cmd[b].inputs[k]].of
      BY <3>1, <3>3 DEF Object
    <3>5. units[Place(b, k)] = units[Place(b, i)]
      BY <1>1, <1>2, <3>1, <3>3 DEF BuildInv, LoadsInputs
    <3>6. k = i
      <4>1. SUFFICES ASSUME k # i PROVE FALSE
        OBVIOUS
      <4>2. Place(b, k) # Place(b, i)
        BY <4>1, PlacesDiffer
      <4>3. Defines[units[Place(b, k)]] \cap Defines[units[Place(b, i)]] = {}
        BY <1>2, <4>2 DEF Links
      <4>4. Defines[units[Place(b, i)]] # {}
        BY <3>3, <3>4, TreesAssumption DEF TypeOK
      <4>5. QED
        BY <3>5, <4>3, <4>4
    <3>7. QED
      BY <3>3, <3>4, <3>6 DEF UnitsOf, UnitsAt
  <2>3. QED
    BY <2>1, <2>2
<1>5. QED
  BY <1>1, <1>3, <1>4 DEF Whole

LEMMA OwnOpenImage ==
  ASSUME TypeOK, NEW b \in Builds, BuildInv(b), OpenImage(b)
  PROVE  BuildInv(b)'
<1>1. /\ Is(b, "load") /\ Steady /\ kills' = kills /\ Write(OutputFile(b), Half)
      /\ Goes(b, "write") /\ cmd' = cmd
  BY DEF OpenImage, Loaded, Steady
<1>2. /\ proc'[b].at = "write" /\ proc'[b].pos = proc[b].pos /\ proc'[b].code = proc[b].code
      /\ proc'[b].objs = proc[b].objs /\ proc'[b].loaded = proc[b].loaded
  BY <1>1, GoesMoves DEF Moves, Places
<1>3. /\ ~cmd[b].compileOnly /\ proc[b].pos = Len(cmd[b].inputs) + 1
      /\ proc[b].code # "ok"
  BY <1>1, LoadingFacts, NotDone DEF Is
<1>4. SuccessOf(b)'
  BY <1>2, <1>3 DEF SuccessOf
<1>5. OutputOf(b)'
  <2>1. OutputFile(b)' = OutputFile(b)
    BY <1>1 DEF OutputFile
  <2>2. At(OutputFile(b))' = Half
    BY <1>1, <2>1 DEF Write, At
  <2>3. QED
    BY <1>2, <2>2 DEF OutputOf, Is, Half
<1>6. CompilesInput(b)' /\ UpToDate(b)'
  BY <1>2 DEF CompilesInput, Compiling, UpToDate, Is
<1>7. Listed(b)'
  <2>1. Passed(b)' = Passed(b)
    BY <1>1, <1>2, SteadyFacts DEF Passed, Compiling, Is
  <2>2. QED
    BY <1>1, <1>2, <2>1, ListedKept DEF BuildInv, Is
<1>8. LoadsInputs(b)'
  <2>1. Whole(b, proc[b].loaded)
    BY LinksWhole DEF OpenImage
  <2>2. Whole(b, proc[b].loaded)'
    BY <1>1, <1>2, <2>1, SteadyFacts
  <2>3. QED
    BY <1>1, <1>2, <1>3, <2>2 DEF LoadsInputs, Is
<1>9. QED
  BY <1>4, <1>5, <1>6, <1>7, <1>8 DEF BuildInv

LEMMA OwnWriteImage ==
  ASSUME TypeOK, NEW b \in Builds, BuildInv(b), WriteImage(b)
  PROVE  BuildInv(b)'
<1>1. /\ Is(b, "write") /\ Steady /\ cmd' = cmd /\ Write(OutputFile(b), Image(proc[b].loaded))
  BY DEF WriteImage, Steady
<1>2. proc'[b].at = "exit" /\ proc'[b].code = "ok"
  BY ExitMoves DEF WriteImage, Moves, Codes
<1>3. OutputFile(b)' = OutputFile(b)
  BY <1>1 DEF OutputFile
<1>4. At(OutputFile(b))' = Image(proc[b].loaded)
  BY <1>1, <1>3 DEF Write, At
<1>5. IsImageOf(b, Image(proc[b].loaded))
  BY <1>1 DEF BuildInv, LoadsInputs, IsImageOf, Image
<1>6. IsImageOf(b, At(OutputFile(b)))'
  BY <1>1, <1>4, <1>5, SteadyFacts
<1>7. SuccessOf(b)' /\ OutputOf(b)'
  BY <1>2, <1>6 DEF SuccessOf, OutputOf
<1>8. CompilesInput(b)' /\ Listed(b)' /\ UpToDate(b)' /\ LoadsInputs(b)'
  BY <1>2 DEF CompilesInput, Compiling, Listed, UpToDate, LoadsInputs, Is
<1>9. QED
  BY <1>7, <1>8 DEF BuildInv

-----------------------------------------------------------------------------
(***************************************************************************)
(* The invariant, all builds and the files.                                *)
(***************************************************************************)
\* A step moves its own build.
LEMMA OthersStay ==
  ASSUME TypeOK, NEW b \in Builds, Act(b)
  PROVE  Steady /\ \A c \in Builds : c # b => proc'[c] = proc[c]
<1>1. \A at : proc \in [Builds -> Process] /\ Goes(b, at) => \A c \in Builds : c # b => proc'[c] = proc[c]
  BY DEF Goes
<1>2. \A code : proc \in [Builds -> Process] /\ Exit(b, code) => \A c \in Builds : c # b => proc'[c] = proc[c]
  BY DEF Exit
<1>3. proc \in [Builds -> Process] /\ NextFile(b) => \A c \in Builds : c # b => proc'[c] = proc[c]
  BY DEF NextFile
<1>4. proc \in [Builds -> Process]
  BY DEF TypeOK
<1>5. CASE RejectCommand(b) \/ FailPreprocessor(b) \/ FailPass(b) \/ FailLoad(b) \/ FailMerge(b)
  BY <1>2, <1>4, <1>5 DEF RejectCommand, FailPreprocessor, FailPass, FailLoad, FailMerge, SameFiles, Steady
<1>6. CASE Kill(b) \/ WriteImage(b) \/ OpenImage(b) \/ StartLinker(b)
  BY <1>1, <1>2, <1>4, <1>6 DEF Kill, WriteImage, OpenImage, StartLinker, SameFiles, Steady
<1>7. CASE OpenText(b) \/ Preprocess(b) \/ OpenObject(b) \/ WriteObject(b)
  BY <1>1, <1>2, <1>3, <1>4, <1>7 DEF OpenText, Preprocess, OpenObject, WriteObject, Steady
<1>8. CASE StartCompiler(b) \/ PassOrIgnore(b) \/ CompileUnit(b) \/ LoadObject(b) \/ Restart(b)
  BY <1>4, <1>8 DEF StartCompiler, PassOrIgnore, CompileUnit, LoadObject, Restart, SameFiles, Steady
<1>9. QED
  BY <1>5, <1>6, <1>7, <1>8 DEF Act, Step

\* What it writes is a text, an object or the image of its command line; an
\* object is the unit of one of its sources.
WritesOwn(b) ==
  \/ files' = files
  \/ \E p \in Written(cmd[b]) : \E content :
       /\ Write(p, content)
       /\ content.kind = "object" =>
            /\ content.of \in Units
            /\ \E q \in Sources(cmd[b]) :
                 q \in DOMAIN tree /\ p = ObjectName(cmd[b], q) /\ content.of = tree[q].of

LEMMA Writes ==
  ASSUME TypeOK, NEW b \in Builds, BuildInv(b), Act(b)
  PROVE  WritesOwn(b)
<1>1. Intermediate(cmd[b]) \subseteq Written(cmd[b])
  BY DEF Written
<1>2. CompilesInput(b)
  BY DEF BuildInv
<1>3. CASE OpenText(b)
  <2>1. Write(TmpFileName(Input(b)), Half) /\ Half.kind # "object" /\ Compiling(b)
    BY <1>3 DEF OpenText, Half, Compiling, Is
  <2>2. QED
    BY <1>1, <1>2, <2>1, CompilingFacts DEF WritesOwn
<1>4. CASE Preprocess(b)
  <2>1. /\ Write(TmpFileName(Input(b)), Text(At(Input(b)).of))
        /\ Text(At(Input(b)).of).kind # "object" /\ Compiling(b)
    BY <1>4 DEF Preprocess, Text, Compiling, Is
  <2>2. QED
    BY <1>1, <1>2, <2>1, CompilingFacts DEF WritesOwn
<1>5. CASE OpenObject(b)
  <2>1. Write(ObjectFile(b), Half) /\ Half.kind # "object" /\ Compiling(b)
    BY <1>5 DEF OpenObject, Half, Compiling, Is
  <2>2. QED
    BY <1>1, <1>2, <2>1, CompilingFacts DEF WritesOwn
<1>6. CASE WriteObject(b)
  <2>1. /\ Write(ObjectFile(b), Object(proc[b].unit)) /\ Compiling(b)
        /\ Input(b) \in DOMAIN tree /\ proc[b].unit = tree[Input(b)].of
        /\ Object(proc[b].unit).of = proc[b].unit
    BY <1>2, <1>6 DEF WriteObject, CompilesInput, Compiling, Is, Object
  <2>2. tree[Input(b)].of \in Units
    BY <1>2, <2>1, CompilingFacts, TreesAssumption DEF TypeOK
  <2>3. QED
    BY <1>1, <1>2, <2>1, <2>2, CompilingFacts DEF WritesOwn, ObjectFile
<1>7. CASE OpenImage(b)
  <2>1. Write(OutputFile(b), Half) /\ Half.kind # "object" /\ ~cmd[b].compileOnly
    BY <1>7, LoadingFacts DEF OpenImage, Half, Loaded
  <2>2. QED
    BY <2>1 DEF WritesOwn, Written, OutputFile
<1>8. CASE WriteImage(b)
  <2>1. Write(OutputFile(b), Image(proc[b].loaded)) /\ Image(proc[b].loaded).kind # "object"
    BY <1>8 DEF WriteImage, Image
  <2>2. ~cmd[b].compileOnly
    BY <1>8 DEF WriteImage, BuildInv, LoadsInputs
  <2>3. QED
    BY <2>1, <2>2 DEF WritesOwn, Written, OutputFile
<1>9. CASE ~(OpenText(b) \/ Preprocess(b) \/ OpenObject(b) \/ WriteObject(b) \/ OpenImage(b) \/ WriteImage(b))
  BY <1>9 DEF WritesOwn, Act, Step, Kill, Restart, RejectCommand, StartCompiler, PassOrIgnore,
              FailPreprocessor, FailPass, CompileUnit, StartLinker, LoadObject, FailLoad, FailMerge,
              SameFiles
<1>10. QED
  BY <1>3, <1>4, <1>5, <1>6, <1>7, <1>8, <1>9

LEMMA ActEffect ==
  ASSUME TypeOK, TypeOK', NEW b \in Builds, BuildInv(b), Act(b)
  PROVE  Effect(b)
<1>1. kills \in Nat /\ kills' \in Nat
  <2>1. MaxKills \in Nat
    BY ValuesAssumption
  <2>2. QED
    BY <2>1 DEF TypeOK
<1>2. kills' = kills \/ kills' = kills + 1
  BY DEF Act, Step, Kill, Restart, RejectCommand, StartCompiler, PassOrIgnore, FailPreprocessor,
         OpenText, Preprocess, FailPass, CompileUnit, OpenObject, WriteObject, StartLinker,
         LoadObject, FailLoad, FailMerge, OpenImage, WriteImage, SameFiles
<1>3. kills <= kills'
  <2>1. PICK k \in Nat : k = kills'
    BY <1>1
  <2>2. QED
    BY <1>1, <1>2, <2>1
<1>4. \A q : q \notin Written(cmd[b]) => At(q)' = At(q)
  <2>1. CASE files' = files
    BY <2>1 DEF At
  <2>2. CASE files' # files
    <3>1. PICK p \in Written(cmd[b]) : \E content : Write(p, content)
      BY <2>2, Writes DEF WritesOwn
    <3>2. QED
      BY <3>1, WriteFacts
  <2>3. QED
    BY <2>1, <2>2
<1>5. QED
  BY <1>1, <1>3, <1>4, OthersStay DEF Effect

LEMMA SourcesStay ==
  ASSUME TypeOK, SourcesKept, NEW b \in Builds, Effect(b)
  PROVE  SourcesKept'
<1>1. cmd' = cmd /\ tree' = tree
  BY DEF Effect, Steady
<1>2. ASSUME NEW c \in Builds, NEW p \in Sources(cmd[c])
      PROVE  At(p)' = InTree(p)'
  <2>1. p \notin Written(cmd[b])
    BY OutputsApart DEF TypeOK
  <2>2. At(p)' = At(p) /\ InTree(p)' = InTree(p)
    BY <1>1, <2>1 DEF Effect, InTree, Nothing
  <2>3. QED
    BY <2>2 DEF SourcesKept
<1>3. QED
  BY <1>1, <1>2 DEF SourcesKept

LEMMA ObjectsStay ==
  ASSUME TypeOK, ObjectsKnown, NEW b \in Builds, Effect(b), WritesOwn(b)
  PROVE  ObjectsKnown'
<1>1. Steady
  BY DEF Effect
<1>2. ASSUME NEW p \in DOMAIN files', files'[p].kind = "object"
      PROVE  files'[p].of \in Units \cap (UnitsAt(p) \cup CompiledTo(p))
  <2>1. CASE p \in DOMAIN files /\ files'[p] = files[p]
    BY <1>2, <2>1 DEF ObjectsKnown
  <2>2. CASE ~(p \in DOMAIN files /\ files'[p] = files[p])
    <3>1. PICK content :
            /\ Write(p, content)
            /\ content.kind = "object" =>
                 /\ content.of \in Units
                 /\ \E q \in Sources(cmd[b]) :
                      q \in DOMAIN tree /\ p = ObjectName(cmd[b], q) /\ content.of = tree[q].of
      <4>1. files' # files
        BY <1>2, <2>2
      <4>2. PICK q \in Written(cmd[b]) : \E content :
              /\ Write(q, content)
              /\ content.kind = "object" =>
                   /\ content.of \in Units
                   /\ \E r \in Sources(cmd[b]) :
                        r \in DOMAIN tree /\ q = ObjectName(cmd[b], r) /\ content.of = tree[r].of
        BY <4>1 DEF WritesOwn
      <4>3. p = q
        BY <1>2, <2>2, <4>2 DEF Write
      <4>4. QED
        BY <4>2, <4>3
    <3>2. files'[p] = content
      BY <3>1, WriteFacts
    <3>3. PICK q \in Sources(cmd[b]) :
            q \in DOMAIN tree /\ p = ObjectName(cmd[b], q) /\ content.of = tree[q].of
      BY <1>2, <3>1, <3>2
    <3>4. content.of \in UnitsAt(q)
      BY <3>3 DEF UnitsAt
    <3>5. content.of \in CompiledTo(p)
      BY <3>3, <3>4 DEF CompiledTo
    <3>6. QED
      BY <1>2, <3>1, <3>2, <3>5
  <2>3. QED
    BY <2>1, <2>2
<1>3. \A p : UnitsAt(p)' = UnitsAt(p) /\ CompiledTo(p)' = CompiledTo(p)
  BY <1>1, SteadyFacts
<1>4. QED
  BY <1>2, <1>3 DEF ObjectsKnown

LEMMA OwnStep ==
  ASSUME TypeOK, SourcesKept, ObjectsKnown, NEW b \in Builds, BuildInv(b), Act(b)
  PROVE  BuildInv(b)'
<1>1. CASE \/ RejectCommand(b) \/ FailPreprocessor(b) \/ FailPass(b) \/ FailLoad(b)
           \/ FailMerge(b)
  BY <1>1, OwnExit DEF RejectCommand, FailPreprocessor, FailPass, FailLoad, FailMerge, Loads, Loaded,
                       SameFiles, Steady, Is
<1>2. CASE Kill(b)
  <2>1. kills' > 0
    <3>1. MaxKills \in Nat
      BY ValuesAssumption
    <3>2. kills \in Nat /\ kills' = kills + 1
      BY <1>2, <3>1 DEF Kill, TypeOK
    <3>3. QED
      BY <3>2
  <2>2. QED
    BY <1>2, <2>1, OwnExit DEF Kill, Steady
<1>3. QED
  BY <1>1, <1>2, OwnStart, OwnPass, OwnOpenText, OwnPreprocess, OwnCompileUnit, OwnOpenObject,
     OwnWriteObject, OwnStartLinker, OwnLoad, OwnOpenImage, OwnWriteImage, OwnRestart DEF Act, Step

LEMMA DriverInit == ASSUME Init, TypeOK PROVE DriverInv
<1>1. ASSUME NEW p PROVE At(p) = InTree(p)
  BY DEF Init, At, InTree
<1>2. SourcesKept
  BY <1>1 DEF SourcesKept
<1>3. ObjectsKnown
  BY TreesAssumption DEF Init, ObjectsKnown, UnitsAt
<1>4. ASSUME NEW b \in Builds PROVE BuildInv(b)
  <2>1. /\ proc[b].at = "file" /\ proc[b].pos = 1 /\ proc[b].objs = <<>>
        /\ proc[b].code = Missing /\ Missing # "ok"
    BY ValuesAssumption DEF Init, Started
  <2>2. CompilesInput(b) /\ LoadsInputs(b)
    BY <2>1 DEF CompilesInput, Compiling, LoadsInputs, Is
  <2>3. Used(b) \subseteq Nat \ {0}
    BY UsedFinite, CommandLine
  <2>4. Listed(b)
    <3>1. Passed(b) = {}
      BY <2>1, <2>3 DEF Passed, Compiling
    <3>2. QED
      BY <2>1, <3>1, FS_EmptySet DEF Listed
  <2>5. UpToDate(b)
    BY <2>1, <2>3 DEF UpToDate
  <2>6. SuccessOf(b) /\ OutputOf(b)
    BY <1>1, <2>1 DEF SuccessOf, OutputOf
  <2>7. QED
    BY <2>2, <2>4, <2>5, <2>6 DEF BuildInv
<1>5. QED
  BY <1>2, <1>3, <1>4, InvParts

LEMMA InvStep ==
  ASSUME TypeOK, DriverInv, [Next]_vars
  PROVE  TypeOK' /\ DriverInv'
<1>1. CASE UNCHANGED vars
  <2>1. cmd' = cmd /\ tree' = tree /\ files' = files /\ proc' = proc /\ kills' = kills /\ Steady
    BY <1>1 DEF vars, Steady
  <2>2. SourcesKept /\ ObjectsKnown /\ \A c \in Builds : BuildInv(c)
    BY InvParts
  <2>3. TypeOK'
    BY <2>1 DEF TypeOK, Is, ObjectsOf
  <2>4. SourcesKept'
    BY <2>1, <2>2 DEF SourcesKept, At, InTree, Nothing
  <2>5. ObjectsKnown'
    BY <2>1, <2>2, SteadyFacts DEF ObjectsKnown
  <2>6. \A q : At(q)' = At(q)
    BY <2>1 DEF At
  <2>7. ASSUME NEW c \in Builds PROVE BuildInv(c)'
    BY <2>1, <2>2, <2>6, OtherBuild
  <2>8. QED
    BY <2>3, <2>4, <2>5, <2>7
       DEF DriverInv, BuildInv, SuccessIsWhole, OutputOldOrWhole, SuccessOf, OutputOf
<1>2. ASSUME NEW b \in Builds, Act(b)
      PROVE  TypeOK' /\ DriverInv'
  <2>1. SourcesKept /\ ObjectsKnown /\ \A c \in Builds : BuildInv(c)
    BY InvParts
  <2>2. TypeOK'
    BY <1>2, <2>1, TypeStep DEF BuildInv
  <2>3. Effect(b)
    BY <1>2, <2>1, <2>2, ActEffect
  <2>4. SourcesKept'
    BY <2>1, <2>3, SourcesStay
  <2>5. ObjectsKnown'
    BY <1>2, <2>1, <2>3, Writes, ObjectsStay
  <2>6. ASSUME NEW c \in Builds PROVE BuildInv(c)'
    BY <1>2, <2>1, <2>3, OtherFiles, OtherBuild, OwnStep
  <2>7. QED
    BY <2>2, <2>4, <2>5, <2>6
       DEF DriverInv, BuildInv, SuccessIsWhole, OutputOldOrWhole, SuccessOf, OutputOf
<1>3. QED
  BY <1>1, <1>2 DEF Next, Act

-----------------------------------------------------------------------------
(***************************************************************************)
(* The theorems.                                                           *)
(***************************************************************************)
\* In every state of every execution the invariant holds, with the types.
LEMMA Invariance == Spec => [](TypeOK /\ DriverInv)
<1>1. Init => TypeOK /\ DriverInv
  BY TypeInit, DriverInit
<1>2. TypeOK /\ DriverInv /\ [Next]_vars => (TypeOK /\ DriverInv)'
  BY InvStep
<1>3. QED
  BY <1>1, <1>2, PTL DEF Spec

\* A build is where it can be, holds what it can hold there, and has loaded no
\* more than its command line names (cc0 main.cpp, ld0 main.cpp).
THEOREM TypeCorrect == Spec => []TypeOK
  BY Invariance, PTL

\* No build writes a source; objfiles, what is compiled and what is loaded
\* follow the inputs, whatever other builds do in between.
THEOREM InvariantHolds == Spec => []DriverInv
  BY Invariance, PTL

\* A build that ends with 0 has linked its inputs, each as it is now.
THEOREM SuccessWhole == Spec => []SuccessIsWhole
<1>1. DriverInv => SuccessIsWhole
  BY DEF DriverInv
<1>2. QED
  BY <1>1, InvariantHolds, PTL

\* An output is what it was or a whole image of a build that ended with 0,
\* but while it is written or after a build was killed.
THEOREM OldOrWhole == Spec => []OutputOldOrWhole
<1>1. DriverInv => OutputOldOrWhole
  BY DEF DriverInv
<1>2. QED
  BY <1>1, InvariantHolds, PTL
=============================================================================
