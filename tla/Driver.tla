------------------------------- MODULE Driver -------------------------------
(***************************************************************************)
(* Builds on a directory tree: cc0 (tools/cc0/main.cpp) as a driver that   *)
(* runs "cc0 -c" for each source file and then ld0, cc0 -c itself, and     *)
(* ld0's main around the merge.  A driver waits in system() for its child, *)
(* so a build is one process here; several builds run on one tree, and one *)
(* may be killed at any point and run again.                               *)
(*                                                                         *)
(* A file is opened, which empties it, and written later.  What a          *)
(* translation unit holds is its name, the functions it defines and the    *)
(* ones it uses.                                                           *)
(***************************************************************************)
EXTENDS Naturals, Sequences, FiniteSets

CONSTANTS
  Words,          \* what names are made of: strings
  Builds,         \* the processes
  CommandLines,   \* the assignments of command lines to Builds
  Trees,          \* the directory trees to start with
  Defines, Uses,  \* the functions each translation unit defines and uses
  Rejected,       \* the units whose compilation ends with an error
  Library,        \* the path at which FindFileInDirs finds libcrt.o
  Missing,        \* no file
  MaxKills        \* how often a build is killed, in all

\* core/Misc/FilePath.cpp.  A path is a directory and a name, a name a base
\* and its extensions.
Path == [dir : Words, base : Words, ext : Seq(Words)]
GetFileExtension(p) == IF p.ext = <<>> THEN "" ELSE p.ext[Len(p.ext)]
ReplaceFileNameExtension(p, ext) ==
  [dir  |-> "", base |-> p.base,
   ext  |-> Append(SubSeq(p.ext, 1, Len(p.ext) - 1), ext)]
TmpFileName(p) == [dir |-> "", base |-> p.base, ext |-> Append(p.ext, ".tmp")]
IsSource(p) == GetFileExtension(p) \in {".c", ".c0"}
IsObject(p) == GetFileExtension(p) = ".o"

\* What is in a file; half is the state between the opening and the writing.
Source(unit) == [kind |-> "source", of |-> unit]
Text(unit)   == [kind |-> "text", of |-> unit]
Object(unit) == [kind |-> "object", of |-> unit]
Image(units) == [kind |-> "image", of |-> units]
Half         == [kind |-> "half", of |-> Missing]
Nothing      == [kind |-> "nothing", of |-> Missing]

\* A command line: inputs, output, compileOnly.
ObjectName(c, p) == IF c.compileOnly /\ c.output # Missing THEN c.output
                    ELSE ReplaceFileNameExtension(p, ".o")
ImageName(c) == IF c.output # Missing THEN c.output
                ELSE [dir |-> "", base |-> "a", ext |-> <<".bin">>]

\* The files a command line writes: texts and objects, and the image.
Sources(c) == {c.inputs[i] : i \in {j \in DOMAIN c.inputs : IsSource(c.inputs[j])}}
Intermediate(c) == {TmpFileName(p) : p \in Sources(c)}
                     \cup {ObjectName(c, p) : p \in Sources(c)}
Written(c) == Intermediate(c) \cup IF c.compileOnly THEN {} ELSE {ImageName(c)}

Units == DOMAIN Defines

ASSUME ValuesAssumption ==
  /\ {"", "a", ".bin", ".o", ".tmp"} \subseteq Words
  /\ Missing \notin Path \cup Units \cup {"ok", "failed", "killed"}
  /\ MaxKills \in Nat
  /\ Library \in Path /\ IsObject(Library)

ASSUME CommandLinesAssumption ==
  \A c \in CommandLines : \A b \in Builds :
    /\ c[b].inputs \in Seq(Path)
    /\ c[b].output \in Path \cup {Missing}
    /\ c[b].compileOnly \in BOOLEAN

\* What is in the tree: text that is no program is a unit that is Rejected.  A
\* unit has a function; the linker cannot tell one without from no unit.
ASSUME TreesAssumption ==
  \A t \in Trees : \A p \in DOMAIN t :
    /\ IsSource(p) => t[p].of \in Units /\ Defines[t[p].of] # {}
    /\ t[p].kind = "object" => t[p].of \in Units

\* Builds with a text, an object or an image in common would race for it.  An
\* object that one build compiles may be another one's input.
ASSUME NamesApart ==
  \A c \in CommandLines : \A a, b \in Builds :
    a # b => Written(c[a]) \cap Written(c[b]) = {}

\* cc0 does what -o says whatever that destroys: here no output is a source,
\* and no image a text or an object of the same build.
ASSUME OutputsApart ==
  \A c \in CommandLines : \A a, b \in Builds :
    /\ Written(c[a]) \cap Sources(c[b]) = {}
    /\ ~c[b].compileOnly => ImageName(c[b]) \notin Intermediate(c[b])

VARIABLES
  cmd,     \* the command line of each build
  tree,    \* the tree the builds started with
  files,   \* the contents of the files
  proc,    \* each build: where it is, the input it is at, the unit it
           \* compiles, objfiles, the units its linker has loaded, its exit code
  kills

vars == <<cmd, tree, files, proc, kills>>

At(p) == IF p \in DOMAIN files THEN files[p] ELSE Nothing
Write(p, content) ==
  files' = [q \in DOMAIN files \cup {p} |-> IF q = p THEN content ELSE files[q]]

Started == [at |-> "file", pos |-> 1, unit |-> Missing, objs |-> <<>>,
            loaded |-> <<>>, code |-> Missing]
Goes(b, at) == proc' = [proc EXCEPT ![b].at = at]
Exit(b, code) == proc' = [proc EXCEPT ![b].at = "exit", ![b].code = code]
Input(b) == cmd[b].inputs[proc[b].pos]
Is(b, at) == proc[b].at = at
Reading(b) == /\ Is(b, "file")
              /\ proc[b].pos <= Len(cmd[b].inputs)
NextFile(b) == proc' = [proc EXCEPT ![b].at = "file", ![b].pos = @ + 1]
SameFiles == UNCHANGED <<cmd, tree, files, kills>>

\* Where cc0 -c writes the object: the driver always gives the name.
ObjectFile(b) == ObjectName(cmd[b], Input(b))
OutputFile(b) == ImageName(cmd[b])

Init ==
  /\ cmd \in CommandLines
  /\ tree \in Trees
  /\ files = tree
  /\ proc = [b \in Builds |-> Started]
  /\ kills = 0

-----------------------------------------------------------------------------
(* cc0                                                                     *)

\* "No input files applied!"; with -c, more than one input or one that is not
\* a source file.
RejectCommand(b) ==
  /\ Is(b, "file") /\ proc[b].pos = 1
  /\ \/ cmd[b].inputs = <<>>
     \/ /\ cmd[b].compileOnly
        /\ Len(cmd[b].inputs) > 1 \/ ~IsSource(Input(b))
  /\ Exit(b, "failed")
  /\ SameFiles

Accepted(b) == cmd[b].compileOnly => Len(cmd[b].inputs) = 1 /\ IsSource(Input(b))

\* The driver notes the object for ld0 and runs cc0 -c; cc0 -c compiles.
StartCompilerOnce(b) ==  \* mutant: an object that is there is taken
  /\ Reading(b) /\ Accepted(b) /\ IsSource(Input(b))
  /\ LET there == ~cmd[b].compileOnly /\ At(ObjectFile(b)) # Nothing
     IN proc' = [proc EXCEPT ![b].at = IF there THEN "file" ELSE "cpp",
                             ![b].pos = IF there THEN @ + 1 ELSE @,
                             ![b].objs = IF cmd[b].compileOnly THEN @
                                         ELSE Append(@, ObjectFile(b))]
  /\ SameFiles
StartCompiler(b) ==
  /\ Reading(b) /\ Accepted(b) /\ IsSource(Input(b))
  /\ proc' = [proc EXCEPT ![b].at = "cpp",
                          ![b].objs = IF cmd[b].compileOnly THEN @
                                      ELSE Append(@, ObjectFile(b))]
  /\ SameFiles

PassOrIgnore(b) ==
  /\ Reading(b) /\ Accepted(b) /\ ~IsSource(Input(b))
  /\ proc' = [proc EXCEPT ![b].pos = @ + 1,
                          ![b].objs = IF IsObject(Input(b)) THEN Append(@, Input(b))
                                      ELSE @]
  /\ SameFiles

\* cpp fails before it has opened its output when there is no input.
FailPreprocessor(b) ==
  /\ Is(b, "cpp") /\ At(Input(b)) = Nothing
  /\ Exit(b, "failed")
  /\ SameFiles
OpenText(b) ==
  /\ Is(b, "cpp") /\ At(Input(b)) # Nothing
  /\ Write(TmpFileName(Input(b)), Half)
  /\ Goes(b, "expand")
  /\ UNCHANGED <<cmd, tree, kills>>
Preprocess(b) ==
  /\ Is(b, "expand")
  /\ Write(TmpFileName(Input(b)), Text(At(Input(b)).of))
  /\ Goes(b, "parse")
  /\ UNCHANGED <<cmd, tree, kills>>

\* The parser and the passes; ReportError exits and assertions abort.
FailPassSilently(b) ==  \* mutant: the driver does not look at the exit code
  /\ Is(b, "parse")
  /\ At(TmpFileName(Input(b))).of \in Rejected
  /\ IF cmd[b].compileOnly THEN Exit(b, "failed") ELSE NextFile(b)
  /\ SameFiles
FailPass(b) ==
  /\ Is(b, "parse")
  /\ At(TmpFileName(Input(b))).of \in Rejected
  /\ Exit(b, "failed")
  /\ SameFiles
CompileUnit(b) ==
  /\ Is(b, "parse")
  /\ At(TmpFileName(Input(b))).of \notin Rejected
  /\ proc' = [proc EXCEPT ![b].at = "compiled", ![b].unit = At(TmpFileName(Input(b))).of]
  /\ SameFiles
OpenObject(b) ==
  /\ Is(b, "compiled")
  /\ Write(ObjectFile(b), Half)
  /\ Goes(b, "serialize")
  /\ UNCHANGED <<cmd, tree, kills>>
WriteObject(b) ==
  /\ Is(b, "serialize")
  /\ Write(ObjectFile(b), Object(proc[b].unit))
  /\ IF cmd[b].compileOnly THEN Exit(b, "ok") ELSE NextFile(b)
  /\ UNCHANGED <<cmd, tree, kills>>

-----------------------------------------------------------------------------
(* ld0                                                                     *)

\* The objects of its command line: -lcrt comes first there, but is loaded
\* last.
ObjectsOf(b) == Append(proc[b].objs, Library)

StartLinkerOpening(b) ==  \* mutant: the output is opened before the objects
  /\ Is(b, "file") /\ ~cmd[b].compileOnly /\ cmd[b].inputs # <<>>
  /\ proc[b].pos > Len(cmd[b].inputs)
  /\ IF At(Library) = Nothing THEN Exit(b, "failed") ELSE Goes(b, "load")
  /\ Write(OutputFile(b), Half)
  /\ UNCHANGED <<cmd, tree, kills>>
StartLinker(b) ==
  /\ Is(b, "file") /\ ~cmd[b].compileOnly /\ cmd[b].inputs # <<>>
  /\ proc[b].pos > Len(cmd[b].inputs)
  /\ IF At(Library) = Nothing THEN Exit(b, "failed") ELSE Goes(b, "load")
  /\ SameFiles

Loads(b) == /\ Is(b, "load")
            /\ Len(proc[b].loaded) < Len(ObjectsOf(b))
Loading(b) == At(ObjectsOf(b)[Len(proc[b].loaded) + 1])

\* load_file_context: what is not a whole archive throws.
LoadObject(b) ==
  /\ Loads(b) /\ Loading(b).kind = "object"
  /\ proc' = [proc EXCEPT ![b].loaded = Append(@, Loading(b).of)]
  /\ SameFiles
FailLoad(b) ==
  /\ Loads(b) /\ Loading(b).kind # "object"
  /\ Exit(b, "failed")
  /\ SameFiles

\* merge rejects a function with two definitions and a program without main;
\* ResolveSymbols a name without a place.
Links(units) ==
  LET defined == UNION {Defines[units[i]] : i \in DOMAIN units}
  IN /\ \A i, j \in DOMAIN units :
          i # j => Defines[units[i]] \cap Defines[units[j]] = {}
     /\ "main" \in defined
     /\ \A i \in DOMAIN units : Uses[units[i]] \subseteq defined
Loaded(b) == Is(b, "load") /\ Len(proc[b].loaded) = Len(ObjectsOf(b))
FailMergeGoesOn(b) ==  \* mutant: the failure is noted, the image written all the same
  /\ Loaded(b) /\ ~Links(proc[b].loaded)
  /\ proc' = [proc EXCEPT ![b].at = "write", ![b].code = "failed"]
  /\ SameFiles
FailMerge(b) ==
  /\ Loaded(b) /\ ~Links(proc[b].loaded)
  /\ Exit(b, "failed")
  /\ SameFiles
OpenImage(b) ==
  /\ Loaded(b) /\ Links(proc[b].loaded)
  /\ Write(OutputFile(b), Half)
  /\ Goes(b, "write")
  /\ UNCHANGED <<cmd, tree, kills>>
WriteImage(b) ==
  /\ Is(b, "write")
  /\ Write(OutputFile(b), Image(proc[b].loaded))
  /\ Exit(b, "ok")
  /\ UNCHANGED <<cmd, tree, kills>>

-----------------------------------------------------------------------------

\* The build and its child are killed together (an interrupt goes to the whole
\* process group).
Kill(b) ==
  /\ ~Is(b, "exit") /\ kills < MaxKills
  /\ Exit(b, "killed")
  /\ kills' = kills + 1
  /\ UNCHANGED <<cmd, tree, files>>
Restart(b) ==
  /\ proc[b].code = "killed"
  /\ proc' = [proc EXCEPT ![b] = Started]
  /\ SameFiles

Step(b) == \/ RejectCommand(b) \/ StartCompiler(b) \/ PassOrIgnore(b)
           \/ FailPreprocessor(b) \/ OpenText(b) \/ Preprocess(b)
           \/ FailPass(b) \/ CompileUnit(b) \/ OpenObject(b) \/ WriteObject(b)
           \/ StartLinker(b) \/ LoadObject(b) \/ FailLoad(b) \/ FailMerge(b)
           \/ OpenImage(b) \/ WriteImage(b)

Next == \E b \in Builds : Step(b) \/ Kill(b) \/ Restart(b)

Spec == Init /\ [][Next]_vars /\ \A b \in Builds : WF_vars(Step(b))

-----------------------------------------------------------------------------
(* Properties                                                              *)

(* A build's place, its counters and what it holds fit together: units are *)
(* loaded by the linker only, one for each object.                         *)
Places == {"file", "cpp", "expand", "parse", "compiled", "serialize", "load",
           "write", "exit"}
Codes == {Missing, "ok", "failed", "killed"}
Process == [at : Places, pos : Nat \ {0}, unit : Units \cup {Missing},
            objs : Seq(Path), loaded : Seq(Units), code : Codes]
TypeOK ==
  /\ cmd \in CommandLines /\ tree \in Trees /\ kills \in 0..MaxKills
  /\ proc \in [Builds -> Process]
  /\ \A b \in Builds :
       /\ proc[b].pos <= Len(cmd[b].inputs) + 1
       /\ proc[b].loaded # <<>> => proc[b].at \in {"load", "write", "exit"}
       /\ Len(proc[b].loaded) <= Len(ObjectsOf(b))
       /\ Is(b, "exit") <=> proc[b].code # Missing

\* The inputs that take part in a link, by position, and the place of each.
Used(b) == {i \in DOMAIN cmd[b].inputs :
              IsSource(cmd[b].inputs[i]) \/ IsObject(cmd[b].inputs[i])}
Place(b, i) == Cardinality({j \in Used(b) : j <= i})

InTree(p) == IF p \in DOMAIN tree THEN tree[p] ELSE Nothing

\* The units of a path: what a source holds; what an object held at the start,
\* or what a build compiles to it.
UnitsAt(p) == IF p \in DOMAIN tree THEN {tree[p].of} ELSE {}
CompiledTo(p) ==
  UNION {UNION {UnitsAt(q) : q \in {r \in Sources(cmd[c]) : ObjectName(cmd[c], r) = p}} :
           c \in Builds}
UnitsOf(p) == UnitsAt(p) \cup IF IsSource(p) THEN {} ELSE CompiledTo(p)
Whole(b, units) ==
  /\ Len(units) = Cardinality(Used(b)) + 1
  /\ \A i \in Used(b) : units[Place(b, i)] \in UnitsOf(cmd[b].inputs[i])
  /\ units[Len(units)] \in UnitsOf(Library)
IsImageOf(b, content) == content.kind = "image" /\ Whole(b, content.of)

(* A build that ends with 0 has written the program its command line says: *)
(* every input is in it, a source as it is now.  No object is left over    *)
(* from an earlier build, lost because two inputs have the same name for   *)
(* it, or half written (cc0 main.cpp 145-205, ld0 main).                   *)
SuccessIsWhole ==
  \A b \in Builds :
    proc[b].code = "ok" /\ ~cmd[b].compileOnly => IsImageOf(b, At(OutputFile(b)))

(* The output of a link is what it was, or whole, but while it is written: *)
(* a build that fails leaves the earlier image, whatever it fails at; only *)
(* one that is killed can leave a part of an image.                        *)
OutputOldOrWhole ==
  \A b \in Builds : ~cmd[b].compileOnly =>
    LET out == OutputFile(b)
    IN \/ At(out) = InTree(out)
       \/ At(out) = Half /\ (Is(b, "write") \/ kills > 0)
       \/ IsImageOf(b, At(out)) /\ proc[b].code = "ok"

\* Builds that nothing stands in the way of: every source is there and
\* compiles, every object is there and nobody's output, no two inputs have
\* one object, and the units link.  Position 0 is the library's.
Good(b) ==
  LET parts == [i \in Used(b) \cup {0} |-> IF i = 0 THEN Library ELSE cmd[b].inputs[i]]
      ObjectAt(i) == IF IsSource(parts[i]) THEN ObjectName(cmd[b], parts[i]) ELSE parts[i]
  IN /\ ~cmd[b].compileOnly
     /\ \A i \in DOMAIN parts :
          /\ parts[i] \in DOMAIN tree
          /\ tree[parts[i]].kind \in {"source", "object"}
          /\ tree[parts[i]].of \notin Rejected
          /\ \A c \in Builds : c # b => ObjectAt(i) \notin Written(cmd[c])
          /\ \A j \in DOMAIN parts : i # j => ObjectAt(i) # ObjectAt(j)
     /\ Links([i \in DOMAIN parts |-> tree[parts[i]].of])

(* A build that nothing stands in the way of succeeds unless it is killed, *)
(* however often it was killed before and whatever that left behind, and   *)
(* whatever objects and texts of earlier builds are there.                 *)
GoodBuildsSucceed ==
  \A b \in Builds : (Good(b) /\ Used(b) # {}) =>
    <>[](proc[b].code \in {"ok", "killed"})

-----------------------------------------------------------------------------
(***************************************************************************)
(* The inductive invariant behind SuccessIsWhole and OutputOldOrWhole.     *)
(***************************************************************************)
\* No build writes a source.
SourcesKept == \A b \in Builds : \A p \in Sources(cmd[b]) : At(p) = InTree(p)

\* An object was in the tree, or is what some build compiles to its name.
ObjectsKnown ==
  \A p \in DOMAIN files : files[p].kind = "object" =>
    files[p].of \in Units \cap (UnitsAt(p) \cup CompiledTo(p))

\* What a build is compiling is the unit of its input.
Compiling(b) == proc[b].at \in {"cpp", "expand", "parse", "compiled", "serialize"}
CompilesInput(b) ==
  /\ Compiling(b) => proc[b].pos <= Len(cmd[b].inputs) /\ IsSource(Input(b))
  /\ Compiling(b) /\ ~Is(b, "cpp") => Input(b) \in DOMAIN tree
  /\ Is(b, "parse") => At(TmpFileName(Input(b))).of = tree[Input(b)].of
  /\ Is(b, "compiled") \/ Is(b, "serialize") => proc[b].unit = tree[Input(b)].of

\* objfiles: the object of each input the driver has come to, in their order.
ObjectOf(b, i) == IF IsSource(cmd[b].inputs[i]) THEN ObjectName(cmd[b], cmd[b].inputs[i])
                  ELSE cmd[b].inputs[i]
Passed(b) == {i \in Used(b) : i < proc[b].pos \/ (Compiling(b) /\ i = proc[b].pos)}
Listed(b) ==
  ~cmd[b].compileOnly /\ ~Is(b, "exit") =>
    /\ Len(proc[b].objs) = Cardinality(Passed(b))
    /\ \A i \in Passed(b) : proc[b].objs[Place(b, i)] = ObjectOf(b, i)

\* The object of a source that is compiled holds the unit of that source, or
\* of a later one with the same name for its object.
UpToDate(b) ==
  ~cmd[b].compileOnly /\ ~Is(b, "exit") /\ ~Is(b, "write") =>
    \A i \in Used(b) :
      /\ IsSource(cmd[b].inputs[i]) /\ i < proc[b].pos
      /\ ~(Is(b, "serialize") /\ ObjectOf(b, i) = ObjectFile(b))
      => \E k \in Used(b) :
           /\ IsSource(cmd[b].inputs[k]) /\ cmd[b].inputs[k] \in DOMAIN tree
           /\ ObjectOf(b, k) = ObjectOf(b, i)
           /\ At(ObjectOf(b, i)) = Object(tree[cmd[b].inputs[k]].of)

\* What the linker has loaded: while it loads, the objects of sources stay as
\* they are; once it has merged, the units are those of the inputs.
LoadsInputs(b) ==
  /\ Is(b, "load") \/ Is(b, "write") =>
       ~cmd[b].compileOnly /\ proc[b].pos = Len(cmd[b].inputs) + 1
  /\ Is(b, "load") =>
       /\ \A i \in Used(b) : Place(b, i) <= Len(proc[b].loaded) =>
            IF IsSource(cmd[b].inputs[i])
            THEN proc[b].loaded[Place(b, i)] = At(ObjectOf(b, i)).of
            ELSE proc[b].loaded[Place(b, i)] \in UnitsOf(cmd[b].inputs[i])
       /\ Len(proc[b].loaded) = Len(proc[b].objs) + 1 =>
            proc[b].loaded[Len(proc[b].loaded)] \in UnitsOf(Library)
  /\ Is(b, "write") => Whole(b, proc[b].loaded)

DriverInv ==
  /\ SourcesKept
  /\ ObjectsKnown
  /\ \A b \in Builds :
       CompilesInput(b) /\ Listed(b) /\ UpToDate(b) /\ LoadsInputs(b)
  /\ SuccessIsWhole
  /\ OutputOldOrWhole
=============================================================================
