------------------------------ MODULE MC_Linker ------------------------------
(***************************************************************************)
(* Linker on lists of two object files (three in ThreeFiles) over the      *)
(* names main, f, g (functions) and v (a variable).                        *)
(***************************************************************************)
EXTENDS Linker, TLC

MCNames == {"main", "f", "g", "v"}
MCTypes == {"function", "int", "label"}
MCSpecs == {"none", "standalone"}
MCSizes == 0..2

Plain(type, spec, size) ==
  [kind |-> "object", type |-> type, spec |-> spec, size |-> size, defn |-> FALSE]
Prototype  == Plain("function", "none", 0)
Definition == [Prototype EXCEPT !.defn = TRUE]
Tag        == [Plain("int", "none", 1) EXCEPT !.kind = "type"]
Variable   == Plain("int", "none", 1)

\* What a file may have under one name: nothing, a symbol without a definition
\* in the file, or a function definition with its references.
Absent == {}
Only(decl) == {[decl |-> decl]}
Defining(refs) == {[decl |-> Definition, refs |-> refs]}

\* The file that has the choice c[n] under each name n.
File(c) ==
  LET has   == {n \in MCNames : c[n] # Absent}
      the   == [n \in has |-> CHOOSE d \in c[n] : TRUE]
      order == SelectSeq(<<"main", "f", "g">>,
                         LAMBDA n : n \in has /\ "refs" \in DOMAIN the[n])
  IN [syms |-> [n \in has |-> the[n].decl],
      defs |-> [i \in DOMAIN order |-> [name |-> order[i], refs |-> the[order[i]].refs]]]

\* All files with one of the given choices under each name.
Files(main, f, g, v) ==
  {x \in {File([n \in MCNames |-> CASE n = "main" -> cm [] n = "f" -> cf
                                    [] n = "g" -> cg [] n = "v" -> cv]) :
             cm \in main, cf \in f, cg \in g, cv \in v} : IsObjectFile(x)}

\* The file with main: it calls f and g, reads v, or calls itself.
MainFiles ==
  Files({Defining(<<>>), Defining(<<"f">>), Defining(<<"v", "f", "f">>),
         Defining(<<"g", "main", "v">>)},
        {Absent, Only(Prototype), Defining(<<>>), Defining(<<"v", "g">>)},
        {Absent, Only(Prototype)},
        {Absent, Only(Variable), Only(Tag)})

\* The other file: a library, with or without definitions main needs, some of
\* them in conflict with the first file.
LibFiles ==
  Files({Absent},
        {Absent, Only(Prototype), Defining(<<>>), Defining(<<"v", "g">>)},
        {Only(Prototype), Defining(<<"v">>), Defining(<<"f">>)},
        {Absent, Only(Variable), Only(Plain("int", "none", 2)),
         Only(Plain("int", "standalone", 1)), Only(Plain("label", "none", 0))})

TwoFiles == {<<a, b>> : a \in MainFiles, b \in LibFiles}

\* Three files, with definitions and uses spread over them; a file given twice,
\* a library alone, and a file with every definition twice.
Third ==
  Files({Absent, Defining(<<"g">>)}, {Absent, Defining(<<"g", "v">>)},
        {Only(Prototype)}, {Absent, Only(Plain("int", "none", 2))})
UserFiles == {x \in MainFiles : "v" \in DOMAIN x.syms /\ x.syms["v"] = Variable}
CalleeFiles == {x \in LibFiles : "v" \notin DOMAIN x.syms}
ThreeFiles == {<<a, b, c>> : a \in UserFiles, b \in CalleeFiles, c \in Third}
                \cup {<<b, b>> : b \in LibFiles}
                \cup {<<b>> : b \in LibFiles}
                \cup {<<[a EXCEPT !.defs = @ \o @]>> : a \in UserFiles}

MCInputs == TwoFiles \cup ThreeFiles

\* A file in which the definition of f is followed by a prototype of f, or not.
=============================================================================
