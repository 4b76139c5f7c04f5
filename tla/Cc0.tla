-------------------------------- MODULE Cc0 --------------------------------
(***************************************************************************)
(* The compiler from source to a running runner: cc0 types the tree,       *)
(* generates IL and optimizes it (tools/cc0/main.cpp), ld0 places the      *)
(* variables and generates the code (tools/ld0/main.cpp), and a runner     *)
(* executes it.  The compiled program is compared with what its source     *)
(* means.                                                                  *)
(***************************************************************************)
EXTENDS ILGenerator, ILOptimizer, CMeaning, I0Machine

CONSTANTS
  Sources,    \* the source programs, a set; function 1 of each is the runner
  Inputs      \* the arguments a runner is started with

VARIABLES
  src,        \* the program compiled
  temps,      \* the temporaries that are in its scopes
  ok,         \* the ILGenerator came to its end
  phase,      \* "compile", "linked", "run" or "rejected"
  input,      \* the arguments of the runner
  frames,     \* history: what every call must find again when it returns
  order       \* the runners created that have been started, one after another

cc0 == <<phase, pc, vars, machine, src, temps, ok, input, frames, order>>

(* What the passes make of the sources.                                    *)
GeneratedBodies == {GenProgram(s).bodies : s \in Sources}

Compile ==
  /\ phase = "compile"
  /\ Next
  /\ UNCHANGED <<machine, src, temps, ok, phase, input, frames, order>>

-----------------------------------------------------------------------------
(* ld0                                                                     *)

(* The code: crt, then every function behind its prologue.                 *)
TextOf(bodies) ==
  LET Emits(il) == IF il.op = "Call" THEN <<il, IL("CallReturn", il.args)>>
                   ELSE <<il>>
      Function(f) == <<IL("Enter", <<Variable(FunctionSym(f), "I")>>)>>
                       \o FlattenSeq([i \in DOMAIN bodies[f] |->
                                        Emits(bodies[f][i])])
  IN <<IL("Start", <<>>), IL("Exit", <<>>)>>
       \o FlattenSeq([f \in DOMAIN bodies |-> Function(f)])

EntryOf(text, f) == CHOOSE i \in DOMAIN text : /\ text[i].op = "Enter"
                                               /\ text[i].args[1].temp = f

(* VisitLabel stores the place in the label's Symbol; the place stored last*)
(* is what ResolveSymbols finds.                                           *)
LabelsOf(text) ==
  LET labels == {i \in DOMAIN text : text[i].op = "Label"}
      NameAt(i) == LabelName(text[i].args[1])
  IN [k \in {NameAt(i) : i \in labels} |->
        Largest({i \in labels : NameAt(i) = k})]

(* GenerateI0Operand asserts that an operand is a variable or a constant   *)
(* (a call may have no result, and VisitRet looks first), VisitNeg reads a *)
(* third operand of a narrow Neg, and the generator of the IL must not     *)
(* have failed.                                                            *)
Emittable(il) ==
  /\ \A i \in DOMAIN il.args :
       il.args[i].kind = "empty" => (il.op = "Call" /\ i = 2) \/ il.op = "Ret"
  /\ il.op = "Neg" => il.args[1].type # "I1"

Accepted == /\ ok
            /\ \A f \in DOMAIN program : \A i \in DOMAIN program[f] :
                 Emittable(program[f][i])

Reject == /\ phase = "compile" /\ Done /\ ~Accepted
          /\ phase' = "rejected"
          /\ UNCHANGED <<vars, machine, src, temps, ok, input, frames, order>>

(* ld0 exits and leaves the image: the passes' data are gone.              *)
Link ==
  /\ phase = "compile" /\ Done /\ Accepted
  /\ LET text == TextOf(program)
     IN image' = [text |-> text, label |-> LabelsOf(text), bss |-> BssEnd(src),
                  next |-> [i \in DOMAIN text |-> i + 1],
                  entry |-> [f \in DOMAIN program |-> EntryOf(text, f)]]
                 @@ Layout(src, temps)
  /\ phase' = "linked"
  /\ program' = <<>> /\ temps' = <<>>
  /\ UNCHANGED <<fn, ils, at, optimized, mem, sp, fp, pc, top, created, frames,
                 src, ok, input, order>>

Spawn ==
  /\ phase = "linked"
  /\ \E args \in Inputs, fill \in Fills :
       /\ input' = args
       /\ mem' = RunnerMemory(image.bss, fill, args, image.entry[1],
                              src.functions[1].params)
  /\ pc' = Newr0 /\ sp' = 0 /\ fp' = 0 /\ top' = StackTop /\ frames' = <<>>
  /\ phase' = "run"
  /\ UNCHANGED <<vars, image, created, src, temps, ok, order>>

(* A call begins and ends with the branch VisitCall emits and what follows *)
(* it.                                                                     *)
Called == [fp |-> fp', pc |-> Following, at |-> sp']
Execute ==
  /\ phase = "run" /\ Run
  /\ frames' = CASE Op \in {"Start", "Call"} -> <<Called>> \o frames
                 [] Op = "CallReturn" -> Tail(frames)
                 [] OTHER -> frames
  /\ UNCHANGED <<vars, src, temps, ok, phase, input, order>>

(* A runner that has committed is followed by one that it created and that *)
(* watches nothing, on what is in memory then.                             *)
Startable == {i \in DOMAIN created : created[i].watching = <<>>} \ ToSet(order)
StartNext ==
  /\ phase = "run" /\ pc = 0
  /\ \E i \in Startable : /\ pc' = created[i].entry
                          /\ top' = created[i].top
                          /\ order' = Append(order, i)
  /\ sp' = 0 /\ fp' = 0 /\ frames' = <<>>
  /\ UNCHANGED <<vars, image, mem, created, src, temps, ok, phase, input>>
Ended == phase = "run" /\ pc = 0 /\ Startable = {}

-----------------------------------------------------------------------------

Generated(g) == program = g.bodies /\ temps = g.temps /\ ok = g.ok
CInit == /\ src \in Sources
         /\ Generated(GenProgram(src))
         /\ Begin
         /\ phase = "compile" /\ input = <<>>
         /\ image = <<>> /\ mem = <<>> /\ sp = 0 /\ fp = 0 /\ pc = 0
         /\ top = 0 /\ created = <<>> /\ frames = <<>> /\ order = <<>>

Stopped == phase = "rejected" \/ Ended
Stop == Stopped /\ UNCHANGED cc0

CNext == Compile \/ Reject \/ Link \/ Spawn \/ Execute \/ StartNext \/ Stop

(* Both programs, the compiler and the compiled one, are a single thread,  *)
(* and what is created and has nothing to wait for is run.                 *)
CSpec == /\ CInit /\ [][CNext]_cc0
         /\ WF_cc0(Compile) /\ WF_cc0(Execute) /\ WF_cc0(StartNext)

-----------------------------------------------------------------------------
(* Properties                                                              *)

(* The compiled program leaves in the globals what its source says, for    *)
(* every argument and whatever the stack held before: the four passes, the *)
(* frame layout and the code generator agree on every variable, and on the *)
(* arguments of every runner, in whatever order the runners run.           *)
SameMeaning == Ended =>
  LET out == MeaningOfAll(src, input, order).env
      Agrees(cell, value) ==
        LET size == SizeOf(CellType(cell))
        IN Load(image.where[Key(cell[1])] + size * cell[2], size) = value
  IN \A sym \in ToSet(src.globals) : \A cell \in CellsOf(sym) :
       Agrees(cell, out[cell])

(* When a runner has committed, the runners it has created are those of    *)
(* its source: each starts at __newr0, has the ranges it was given, to the *)
(* byte, to use and to watch, and finds its function and its arguments at  *)
(* the end of its own stack, though one area describes them all to newr.   *)
RunnersAsWritten == phase = "run" /\ pc = 0 /\ order = <<>> =>
  LET Made(r, written) ==
        LET params == src.functions[written.f].params
            Word(k) == r.top - W * k
            first == Word(2) - W * Len(params)
        IN /\ r.entry = Newr0
           /\ r.using = written.using /\ r.watching = written.watching
           /\ Load(Word(1), W) = image.entry[written.f]
           /\ Load(Word(2), W) = W * Len(params)
           /\ \A j \in DOMAIN params :
                Load(first + W * (j - 1), SizeOf(params[j].type)) = written.args[j]
      AllMade(list) == /\ DOMAIN created = DOMAIN list
                       /\ \A i \in DOMAIN list : Made(created[i], list[i])
  IN AllMade(Meaning(src, input).created)

(* A call returns to the instruction behind it with the frame pointer the  *)
(* caller had and the stack pointer at the return address VisitCall pushed.*)
CallsBalanced == phase = "run" /\ pc # 0 /\ Op = "CallReturn" =>
  /\ frames # <<>>
  /\ Head(frames).pc = pc
  /\ Head(frames).fp = fp
  /\ Head(frames).at = sp

(* The return address of every call that has not returned is where VisitRet*)
(* will look for it, and no frame reaches down into the globals.           *)
ReturnAddressesKept == phase = "run" =>
  /\ \A i \in DOMAIN frames : Load(frames[i].at, W) = frames[i].pc
  /\ pc > 1 => sp >= image.bss

(* An instruction that computes a variable changes no byte of another one. *)
(* (Calls, returns and stores through a pointer write elsewhere.)          *)
Computes == Arithmetic \cup Comparison \cup {"Mov", "Conv", "Neg", "Lda",
                                        "Ldind", "Ldelem", "Ldelema"}
WritesStayInside ==
  [][phase = "run" /\ pc # 0 /\ Op \in Computes =>
       {a \in DOMAIN mem : mem'[a] # mem[a]}
         \subseteq AddressOf(Arg(1)) .. (AddressOf(Arg(1)) + image.room[Key(Arg(1))] - 1)
    ]_cc0

(* The compiled program ends, and the runners it creates: every source of  *)
(* the pool does.                                                          *)
RunnerEnds == phase = "run" ~> Ended
=============================================================================
