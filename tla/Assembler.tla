------------------------------ MODULE Assembler ------------------------------
(***************************************************************************)
(* The last part of the compiler, from the IL of a program to the bytes of *)
(* its file (core/Pass/, backend/*/ and what the mains of il_cc and ld0 do *)
(* last): the optimizer rewrites the IL, the generator visits it and emits *)
(* instructions, ResolveSymbols replaces names by addresses, and main      *)
(* encodes one instruction after the other into a buffer.                  *)
(*                                                                         *)
(* What is hard: an instruction is measured when it is emitted, by         *)
(* GetLength, measured again when it is resolved and encoded, and encoded  *)
(* by another function than the one that measures; every address given out *)
(* before rests on their agreeing.                                         *)
(***************************************************************************)
EXTENDS ILOptimizer, CodeGenerator

CONSTANTS
  Units,      \* the linked programs: [bodies, layout, globals, bss, params]
  Absent,     \* sets of functions that are declared but defined in no file
  TextStart   \* the address of the code

(* The instructions the Visits are modelled of, the operands of each that  *)
(* they read as values, and what they take for granted of one: its         *)
(* operands are there, and the allocator has placed its local variables.   *)
VisitedOps == Arithmetic \cup Comparison \cup CompareBranch \cup ConditionalBranch
  \cup {"Label", "Br", "Mov", "Conv", "Neg", "Lda", "Ldind", "Stind", "Ldelem",
        "Ldelema", "Stelem", "AsmMov", "AsmMovNewr0", "AsmNewr", "Call", "Ret",
        "Exit"}
ReadsValue(il, i) == CASE il.op \in {"Label", "Br"} -> FALSE
                       [] il.op \in ConditionalBranch -> i = 1
                       [] il.op \in CompareBranch -> i < 3
                       [] il.op = "Call" -> i > 1
                       [] OTHER -> TRUE
OperandsThere(il) ==
  /\ il.op = "Stelem" => Len(il.args) = 3
  /\ il.op \in {"Lda", "Stind", "AsmMov"} => Len(il.args) = 2
  /\ il.op = "Lda" => il.args[2].kind = "variable"
  /\ il.op = "AsmMovNewr0" => Len(il.args) = 1
  /\ il.op = "AsmNewr" => Len(il.args) = 4
  /\ il.op = "Call" => Len(il.args) >= 2
  /\ il.op = "Ret" => Len(il.args) <= 1
IsLocal(o) == o.kind = "variable" /\ o.level # "global"
Visitable(il, places) ==
  /\ il.op \in VisitedOps /\ OperandsThere(il)
  /\ \A i \in DOMAIN il.args :
       /\ il.args[i].value # Placeholder
       /\ ReadsValue(il, i) /\ IsLocal(il.args[i])
            => Key(il.args[i]) \in DOMAIN places.where

ASSUME TextAssumption == TextStart \in Nat /\ Targets \subseteq {"i0", "disa"}

(* No number in a program is the one that stands for an unknown address,   *)
(* and the data lie below the code.                                        *)
ASSUME UnitsAssumption == \A unit \in Units :
  /\ unit.bodies \in Programs
  /\ \A f \in DOMAIN unit.bodies :
       /\ unit.layout.frame[f] \in Nat
       /\ \A i \in DOMAIN unit.bodies[f] : Visitable(unit.bodies[f][i], unit.layout)
  /\ \A k \in DOMAIN unit.layout.where : unit.layout.where[k] \in Int \ {Placeholder}
  /\ \A k \in DOMAIN unit.globals : /\ Len(k) = 4
                                   /\ unit.globals[k] \in 1 .. (TextStart - 1)

VARIABLES
  src,        \* the program
  absent,     \* the functions of it that have no definition
  phase,      \* what ld0 does, or "failed" or "aborted"
  visit,      \* the function and the instruction the generator visits next
  code,       \* Target->Code: the instructions emitted
  address,    \* Symbol::Address of every name
  image,      \* where the code of every IL instruction begins and ends
  count,      \* instructions resolved, or encoded, so far
  placed      \* of every instruction encoded its place in the file and size

generator == <<target, layout, visit, code, address, image>>
assembler == <<phase, vars, generator, src, absent, count, placed>>

Compile ==
  /\ phase = "compile"
  /\ Next
  /\ UNCHANGED <<phase, generator, src, absent, count, placed>>

-----------------------------------------------------------------------------
(* Emitting                                                                *)

(* _currentText                                                            *)
Text == IF code = <<>> THEN TextStart
        ELSE Last(code).at + GetLength(Last(code).ins)

PlacedBehind(list, start) ==  \* mutant: _currentText is raised before it is kept
  LET before == Accumulated(Lengths(list))
  IN [i \in 1 .. Len(list) |-> [ins |-> list[i], at |-> start + before[i]]]

(* Emit, for all instructions of a list.                                   *)
PlacedFrom(list, start) ==
  LET before == Accumulated(Lengths(list))
  IN [i \in 1 .. Len(list) |-> [ins |-> list[i], at |-> start + before[i - 1]]]

(* The code of IL instructions in a row, each a list of instructions.      *)
EmitAll(ils0, lists) ==
  LET begin(i) == Text + LengthOf(FlattenSeq(SubSeq(lists, 1, i - 1)))
      new == {i \in DOMAIN lists : lists[i] # <<>>}
  IN /\ code' = code \o PlacedFrom(FlattenSeq(lists), Text)
     /\ image' = [image EXCEPT
          !.text = [a \in {begin(i) : i \in new} |->
                      ils0[CHOOSE i \in new : begin(i) = a]] @@ @,
          !.next = [a \in {begin(i) : i \in new} |->
                      begin((CHOOSE i \in new : begin(i) = a) + 1)] @@ @]

(* Symbol::SetAddress: the addresses with the one of a name.               *)
WithAddress(name, a) ==
  [k \in DOMAIN address \cup {name} |-> IF k = name THEN a ELSE address[k]]

(* EnterProgram: the address of every symbol, then crt0 and newr0.  Those  *)
(* of labels and functions are still 0.                                    *)
EnterProgram ==
  /\ phase = "compile" /\ Done
  /\ \E t \in Targets, missing \in Absent : target' = t /\ absent' = missing
  /\ layout' = src.layout
  /\ address' = src.globals
  /\ visit' = <<1, 0>>
  /\ phase' = "crt"
  /\ UNCHANGED <<vars, code, image, src, count, placed>>

GenerateCrt ==
  /\ phase = "crt"
  /\ LET crt0 == GenerateCrt0
         newr0 == Text + LengthOf(crt0)
     IN /\ EmitAll(<<IL("Crt0", <<>>), IL("Start", <<>>), IL("Exit", <<>>)>>,
                   <<crt0, GenerateNewr0(newr0), <<Ins("EXIT", <<>>)>> >>)
        /\ address' = WithAddress(<<"__newr0", 0>>, newr0)
  /\ phase' = "generate"
  /\ UNCHANGED <<vars, target, layout, visit, src, absent,
                 count, placed>>

CurrentFunction == visit[1]
VisitsFunction == phase = "generate" /\ CurrentFunction \in DOMAIN program

(* A function no file defines is not in the program.                       *)
SkipFunction ==
  /\ VisitsFunction /\ CurrentFunction \in absent
  /\ visit' = <<CurrentFunction + 1, 0>>
  /\ UNCHANGED <<vars, target, layout, code, address, image, phase, src,
                 absent, count, placed>>

EnterFunction ==
  /\ VisitsFunction /\ CurrentFunction \notin absent /\ visit[2] = 0
  /\ address' = WithAddress(<<"__function", CurrentFunction>>, Text)
  /\ EmitAll(<<IL("Enter", <<Variable(FunctionSym(CurrentFunction), "I")>>)>>,
             <<EnterFunctionCode(CurrentFunction)>>)
  /\ visit' = <<CurrentFunction, 1>>
  /\ UNCHANGED <<vars, target, layout, phase, src, absent, count, placed>>

(* What the generators do not do: GenerateI0Operand asserts that an operand*)
(* is a variable or a constant (a call may have no result, and VisitRet    *)
(* looks first), VisitNeg reads a third operand of a narrow Neg, and disa's*)
(* VisitLda of a local variable leaves an attribute unset that GetLength   *)
(* switches on.                                                            *)
Assembles(il) ==
  /\ \A i \in DOMAIN il.args :
       il.args[i].kind = "empty" => (il.op = "Call" /\ i = 2) \/ il.op = "Ret"
  /\ il.op = "Neg" => ~IsNarrow(il.args[1])
  /\ il.op = "Lda" => target = "i0" \/ il.args[2].level = "global"

VisitsIL == /\ VisitsFunction /\ CurrentFunction \notin absent
            /\ visit[2] \in DOMAIN program[CurrentFunction]
Visiting == program[CurrentFunction][visit[2]]

WithLabel(il) ==
  IF il.op = "Label" THEN WithAddress(LabelName(il.args[1]), Text) ELSE address

VisitIL ==
  /\ VisitsIL /\ Assembles(Visiting)
  /\ LET il == Visiting
     IN /\ IF il.op = "Call"
           THEN EmitAll(<<il, IL("CallReturn", il.args)>>,
                        <<Visit(il, Text), VisitCallReturn(il)>>)
           ELSE EmitAll(<<il>>, <<Visit(il, Text)>>)
        /\ address' = WithLabel(il)
  /\ visit' = <<CurrentFunction, visit[2] + 1>>
  /\ UNCHANGED <<vars, target, layout, phase, src, absent, count, placed>>

AbortGenerator ==
  /\ VisitsIL /\ ~Assembles(Visiting)
  /\ phase' = "aborted"
  /\ UNCHANGED <<vars, generator, src, absent, count, placed>>

LeaveFunction ==
  /\ VisitsFunction /\ CurrentFunction \notin absent
  /\ visit[2] > Len(program[CurrentFunction])
  /\ visit' = <<CurrentFunction + 1, 0>>
  /\ UNCHANGED <<vars, target, layout, code, address, image, phase, src,
                 absent, count, placed>>

LeaveProgram ==
  /\ phase = "generate" /\ CurrentFunction \notin DOMAIN program
  /\ phase' = "resolve"
  /\ UNCHANGED <<vars, generator, src, absent, count, placed>>

-----------------------------------------------------------------------------
(* ResolveSymbols: instruction by instruction                              *)

AddressOf0(ref) == IF ref \in DOMAIN address THEN address[ref] ELSE 0
Resolved(o) == IF o.ref = <<>> THEN o
               ELSE [o EXCEPT !.addr = AddressOf0(o.ref), !.ref = <<>>]
Resolving == phase = "resolve" /\ count < Len(code)
OpndsHere == code[count + 1].ins.args
Unknown == {i \in DOMAIN OpndsHere :
              OpndsHere[i].ref # <<>> /\ AddressOf0(OpndsHere[i].ref) = 0}

ResolveFirst ==  \* mutant: only the first operand is looked at
  /\ Resolving /\ Unknown = {}
  /\ code' = [code EXCEPT ![count + 1].ins.args =
                [i \in DOMAIN @ |-> IF i = 1 THEN Resolved(@[i]) ELSE @[i]]]
  /\ count' = count + 1
  /\ UNCHANGED <<vars, target, layout, visit, address, image, phase, src,
                 absent, placed>>
Resolve ==
  /\ Resolving /\ Unknown = {}
  /\ code' = [code EXCEPT ![count + 1].ins.args =
                [i \in DOMAIN @ |-> Resolved(@[i])]]
  /\ count' = count + 1
  /\ UNCHANGED <<vars, target, layout, visit, address, image, phase, src,
                 absent, placed>>

(* ReportError exits.                                                      *)
ReportUnresolved ==
  /\ Resolving /\ Unknown # {}
  /\ phase' = "failed"
  /\ UNCHANGED <<vars, generator, src, absent, count, placed>>

EndResolve ==
  /\ phase = "resolve" /\ count = Len(code)
  /\ phase' = "encode" /\ count' = 0
  /\ UNCHANGED <<vars, generator, src, absent, placed>>

-----------------------------------------------------------------------------
(* main: every instruction is encoded behind the one before it             *)

TextSize == IF placed = <<>> THEN 0 ELSE Last(placed).next
Encode ==
  /\ phase = "encode" /\ count < Len(code)
  /\ LET ins == code[count + 1].ins
     IN placed' = Append(placed, [from |-> TextSize,
                                  bytes |-> BytesEncoded(ins),
                                  next |-> TextSize + GetLength(ins)])
  /\ count' = count + 1
  /\ UNCHANGED <<vars, generator, phase, src, absent>>

WriteFile ==
  /\ phase = "encode" /\ count = Len(code)
  /\ phase' = "file"
  /\ program' = <<>>
  /\ image' = [text |-> image.text, next |-> image.next, label |-> address,
               entry |-> [f \in DOMAIN program |-> AddressOf0(<<"__function", f>>)],
               bss |-> src.bss,
               loaded |-> [a \in {TextStart + placed[i].from : i \in DOMAIN placed} |->
                             CHOOSE i \in DOMAIN placed : TextStart + placed[i].from = a]]
              @@ layout
  /\ UNCHANGED <<fn, ils, at, optimized, target, layout, visit, code, address,
                 src, absent, count, placed>>

-----------------------------------------------------------------------------

AsmInit ==
  /\ src \in Units /\ program = src.bodies /\ Begin
  /\ phase = "compile" /\ target = "none" /\ absent = {}
  /\ layout = <<>> /\ visit = <<0, 0>> /\ code = <<>> /\ address = <<>>
  /\ image = [text |-> <<>>, next |-> <<>>]
  /\ count = 0 /\ placed = <<>>

AsmNext == \/ Compile \/ EnterProgram \/ GenerateCrt \/ SkipFunction
           \/ EnterFunction \/ VisitIL \/ AbortGenerator \/ LeaveFunction
           \/ LeaveProgram \/ Resolve \/ ReportUnresolved \/ EndResolve
           \/ Encode \/ WriteFile

AsmSpec == AsmInit /\ [][AsmNext]_assembler

-----------------------------------------------------------------------------
(* Properties                                                              *)

(* The forms an instruction has: op, jump and how many operands.           *)
Shaped(ins) ==
  \/ ins.op = "CONV" /\ ins.jump = "none" /\ Len(ins.args) = 2
  \/ ins.op \in {"ADD", "SUB", "MUL"} /\ ins.jump = "none" /\ Len(ins.args) = 3
  \/ ins.op = "B" /\ ins.jump \in {"J", "JI"} /\ Len(ins.args) = 1
  \/ ins.op = "B" /\ ins.jump \in {"Z", "NZ"} /\ Len(ins.args) = 2
  \/ ins.op = "B" /\ ins.jump \in {"L", "LE", "E", "NE"} /\ Len(ins.args) = 3
  \/ /\ ins.op = "SPAWN" /\ ins.jump = "none" /\ Len(ins.args) = 4
     /\ \A i \in 1 .. 4 : ins.args[i].mode = "Direct"
  \/ ins.op = "EXIT" /\ ins.jump = "none" /\ Len(ins.args) = 0
EncoderKnows(ins) ==
  /\ Shaped(ins)
  /\ \A j \in 1 .. Len(ins.args) :
       /\ ins.args[j].mode \in DOMAIN ModeCode
       /\ ins.args[j].conv \in {"Signed8", "Signed64"}
       /\ ins.args[j].addr \in Int /\ ins.args[j].disp \in Int

(* The variables of the generator: what is emitted is where _currentText   *)
(* was, behind all that was emitted before; it has a form the encoders have*)
(* a case for, and operands they have a mode and a length for; and a name's*)
(* address is 0 or in what has been emitted (a variable's in the data).    *)
ATypeOK ==
  /\ target \in Targets \cup {"none"}
  /\ count \in 0 .. Len(code)
  /\ Len(placed) = IF phase = "encode" THEN count
                   ELSE IF phase = "file" THEN Len(code) ELSE 0
  /\ \A i \in DOMAIN code :
       /\ code[i].at = IF i = 1 THEN TextStart
                       ELSE code[i - 1].at + GetLength(code[i - 1].ins)
       /\ EncoderKnows(code[i].ins)
  /\ \A k \in DOMAIN address :
       /\ address[k] \in Nat
       /\ IF Len(k) = 2 THEN address[k] <= Text ELSE address[k] < TextStart

(* What Encode writes is what GetLength said when the instruction was      *)
(* emitted and says when it is encoded: instructions lie side by side in   *)
(* the buffer, each at the address the generator gave out for it.          *)
TextExact == \A i \in DOMAIN placed :
  /\ TextStart + placed[i].from = code[i].at
  /\ placed[i].from + placed[i].bytes = placed[i].next

(* No placeholder and no name gets into the file, whatever was emitted     *)
(* before its address was known.                                           *)
AllResolved == \A i \in DOMAIN placed : \A j \in DOMAIN code[i].ins.args :
  LET o == code[i].ins.args[j] IN o.ref = <<>> /\ o.addr # Placeholder

(* The bytes before the operands tell the instructions of a program apart: *)
(* no bit of a header is shared by two of its fields.                      *)
Addressed(ins) == CASE ins.op = "SPAWN" -> 4
                    [] IsArithmetic(ins) -> 3      \* operands read or written
                    [] ins.op = "CONV" \/ IsCompare(ins) -> 2
                    [] ins.jump = "JI" \/ IsTest(ins) -> 1
                    [] OTHER -> 0
Fields(ins) ==
  <<ins.op, ins.jump, [i \in 1 .. Addressed(ins) |-> ins.args[i].mode],
    IF ins.op = "CONV" THEN [i \in {1, 2} |-> ins.args[i].conv] ELSE <<>> >>
HeadersTellApart == phase = "file" =>
  LET headers == {<<Header(code[i].ins), Fields(code[i].ins)>> : i \in DOMAIN code}
  IN \A h, k \in headers : h[1] = k[1] => h = k

(* "[0] br:xxx TL": a branch finds its target where it reads it, behind as *)
(* many bytes as its header and operands take.                             *)
TargetsInPlace == \A i \in DOMAIN placed :
  LET ins == code[i].ins
      before == SubSeq(ins.args, 1, Len(ins.args) - 1)
  IN ins.op = "B" =>
       Total([j \in 1 .. Len(before) |-> OperandBytes(before[j])])
         = Total([j \in 1 .. Len(before) |-> OperandLength(ins, before[j])])
=============================================================================
