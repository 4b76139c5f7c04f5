---------------------------- MODULE ILOptimizer ----------------------------
(***************************************************************************)
(* The peephole optimizer of cc0 (core/Pass/ILOptimizer.cpp).  For every   *)
(* function of the program it repeats a pass until a pass changes nothing. *)
(* A pass copies the function's body to `ils', rewrites the copy from its  *)
(* second instruction to its last but one, stores the copy back and        *)
(* deletes the Nops.                                                       *)
(*                                                                         *)
(* What is hard: OperandUsedTwice counts in the function's body, which is  *)
(* the code as it was before the pass, while the rewrites are done in the  *)
(* copy: the answer it gives late in a pass is about code that has         *)
(* changed.                                                                *)
(***************************************************************************)
EXTENDS ILCode, FiniteSets, SequencesExt

CONSTANT Programs   \* the programs to optimize: sequences of function bodies

Instruction == [op : Opcodes, args : Seq(Operand)]

(* What the code takes for granted of the instruction at a position: the   *)
(* operands it reads are there.                                            *)
WellFormed(il) ==
  /\ il.op \in Comparison => Len(il.args) = 3
  /\ il.op \in ConditionalBranch => Len(il.args) = 2
  /\ il.op \in CompareBranch => Len(il.args) = 3
  /\ il.op \in {"Add", "And", "Sub", "Mul", "Div", "Ldelem", "Ldelema"}
       => Len(il.args) = 3
  /\ il.op \in {"Mov", "Conv", "Neg", "Ldind"} => Len(il.args) = 2
  /\ il.op \in {"Br", "Label"} => Len(il.args) = 1

Body == Seq({il \in Instruction : WellFormed(il)})

ASSUME ProgramsAssumption == Programs \subseteq Seq(Body)

VARIABLES
  program,    \* the functions' bodies: f->Body for every f
  fn,         \* the function OptimizeFunction works on
  ils,        \* the copy a pass rewrites
  at,         \* the position of the iterator in ils
  optimized   \* the pass has changed something

vars == <<program, fn, ils, at, optimized>>

Begin == /\ fn = 1
         /\ ils = IF program = <<>> THEN <<>> ELSE program[1]
         /\ at = 1
         /\ optimized = FALSE

Init == program \in Programs /\ Begin

Done == fn > Len(program)
body == program[fn]
Here == ils[at]
Behind == ils[at - 1]
Ahead == ils[at + 1]

-----------------------------------------------------------------------------
(* OperandUsedTwice                                                        *)

Positions(b) == UNION {{i} \X (1 .. Len(b[i].args)) : i \in 1 .. Len(b)}
Uses(b, o) == {u \in Positions(b) : b[u[1]].args[u[2]] = o}
UsedTwiceOrMore(b, o) ==  \* mutant: `n >= 2' for `n == 2'
  \E u, v \in Uses(b, o) : u # v
UsedTwice(b, o) == \E u, v \in Uses(b, o) : u # v /\ Uses(b, o) = {u, v}

-----------------------------------------------------------------------------
(* The steps of a pass                                                     *)

Scanning == ~Done /\ at <= Len(ils)
Inside == Scanning /\ at # 1 /\ at # Len(ils)

(* The comparison at the iterator and the branch on its result become one  *)
(* compare-and-branch.                                                     *)
FusedBranchAlike(il, branch) ==  \* mutant: BrZ is taken for BrNz
  LET a == il.args[2]  b == il.args[3]  target == branch.args[2]
  IN CASE il.op = "CompLt" -> IL("BrLt", <<a, b, target>>)
       [] il.op = "CompLe" -> IL("BrLe", <<a, b, target>>)
       [] il.op = "CompGt" -> IL("BrLt", <<b, a, target>>)
       [] il.op = "CompGe" -> IL("BrLe", <<b, a, target>>)
       [] il.op = "CompEq" -> IL("BrEq", <<a, b, target>>)
       [] il.op = "CompNe" -> IL("BrNe", <<a, b, target>>)
FusedBranch(il, branch) ==
  LET a == il.args[2]  b == il.args[3]  target == branch.args[2]
  IN IF branch.op = "BrZ"
     THEN CASE il.op = "CompLt" -> IL("BrLe", <<b, a, target>>)
            [] il.op = "CompLe" -> IL("BrLt", <<b, a, target>>)
            [] il.op = "CompGt" -> IL("BrLe", <<a, b, target>>)
            [] il.op = "CompGe" -> IL("BrLt", <<a, b, target>>)
            [] il.op = "CompEq" -> IL("BrNe", <<a, b, target>>)
            [] il.op = "CompNe" -> IL("BrEq", <<a, b, target>>)
     ELSE CASE il.op = "CompLt" -> IL("BrLt", <<a, b, target>>)
            [] il.op = "CompLe" -> IL("BrLe", <<a, b, target>>)
            [] il.op = "CompGt" -> IL("BrLt", <<b, a, target>>)
            [] il.op = "CompGe" -> IL("BrLe", <<b, a, target>>)
            [] il.op = "CompEq" -> IL("BrEq", <<a, b, target>>)
            [] il.op = "CompNe" -> IL("BrNe", <<a, b, target>>)

CanFuse ==
  /\ Here.op \in Comparison
  /\ Ahead.op \in ConditionalBranch
  /\ Ahead.args[1] = Here.args[1]
  /\ UsedTwice(body, Here.args[1])

FuseKeepsBranch ==  \* mutant: the conditional branch is not deleted
  /\ Inside /\ CanFuse
  /\ ils' = [ils EXCEPT ![at] = FusedBranch(Here, Ahead)]
  /\ at' = at + 1
  /\ optimized' = TRUE
  /\ UNCHANGED <<program, fn>>

FuseBranch ==
  /\ Inside /\ CanFuse
  /\ ils' = [ils EXCEPT ![at] = FusedBranch(Here, Ahead), ![at + 1] = Nop]
  /\ at' = at + 1
  /\ optimized' = TRUE
  /\ UNCHANGED <<program, fn>>

(* The Mov or Conv at the iterator only moves what the instruction before  *)
(* it computes: that instruction computes it in its place.                 *)
Forwardable == {"Add", "And", "Sub", "Mul", "Div", "Ldelem", "Ldelema",
                "Conv", "Neg", "Ldind"}

CanForward ==
  /\ Here.op \in {"Mov", "Conv"}
  /\ Here.args[1].type = Here.args[2].type
  /\ Behind.op \in Forwardable
  /\ Behind.args[1] = Here.args[2]
  /\ UsedTwice(body, Behind.args[1])
  /\ Behind.args[1].kind = "variable"
  /\ Behind.args[1].level = "block"

ForwardTwoOperands ==  \* mutant: every instruction is rebuilt as one with two operands
  /\ Inside /\ CanForward
  /\ ils' = [ils EXCEPT ![at - 1].args = <<Here.args[1], @[2]>>, ![at] = Nop]
  /\ at' = at + 1
  /\ optimized' = TRUE
  /\ UNCHANGED <<program, fn>>

Forward ==
  /\ Inside /\ CanForward
  /\ ils' = [ils EXCEPT ![at - 1].args[1] = Here.args[1], ![at] = Nop]
  /\ at' = at + 1
  /\ optimized' = TRUE
  /\ UNCHANGED <<program, fn>>

(* Neither rewriting applies, or the iterator is at the first or the last  *)
(* instruction.                                                            *)
Skip ==
  /\ Scanning
  /\ Inside => ~CanFuse /\ ~CanForward
  /\ at' = at + 1
  /\ UNCHANGED <<program, fn, ils, optimized>>

(* The end of a pass: f->Body = ils, DeleteNops, and another pass over the *)
(* same function or the first one over the next.                           *)
DeleteNops(b) ==
  FlattenSeq([i \in DOMAIN b |-> IF b[i].op = "Nop" THEN <<>> ELSE <<b[i]>>])

EndPassKeepsFlag ==  \* mutant: optimized is not reset for the next pass
  /\ ~Done /\ at > Len(ils)
  /\ program' = [program EXCEPT ![fn] = DeleteNops(ils)]
  /\ fn' = IF optimized THEN fn ELSE fn + 1
  /\ ils' = IF fn' <= Len(program) THEN program'[fn'] ELSE <<>>
  /\ at' = 1
  /\ UNCHANGED optimized

EndPass ==
  /\ ~Done /\ at > Len(ils)
  /\ program' = [program EXCEPT ![fn] = DeleteNops(ils)]
  /\ fn' = IF optimized THEN fn ELSE fn + 1
  /\ ils' = IF fn' <= Len(program) THEN program'[fn'] ELSE <<>>
  /\ at' = 1
  /\ optimized' = FALSE

Next == FuseBranch \/ Forward \/ Skip \/ EndPass

Spec == Init /\ [][Next]_vars /\ WF_vars(Next)

-----------------------------------------------------------------------------
(* Properties                                                              *)

(* The rewritten instructions have the operands that later readers of them *)
(* take for granted, and the iterator is in the copy or just behind it.    *)
TypeOK ==
  /\ program \in Seq(Body)
  /\ fn \in 1 .. (Len(program) + 1)
  /\ ils \in Body
  /\ at \in 1 .. (Len(ils) + 1)
  /\ optimized \in BOOLEAN

(* OperandUsedTwice(f, ...) counts in f->Body while the pass rewrites ils.  *)
(* For every variable that is still in ils the two agree, so that its      *)
(* answer never rests on an instruction the pass has replaced.             *)
OperandsOf(b) == {b[u[1]].args[u[2]] : u \in Positions(b)}
CountsFresh ==
  ~Done => \A o \in OperandsOf(ils) : o.kind = "variable" =>
             Cardinality(Uses(ils, o)) = Cardinality(Uses(body, o))

(* The labels and the places branches lead to stay, in their order: fusing *)
(* a comparison with a branch, and deleting the Nops, loses and doubles    *)
(* neither.                                                                *)
ControlOf(il) ==
  IF il.op = "Label" THEN << <<"Label", {il.args[1]}>> >>
  ELSE IF TargetOf(il) # {} THEN << <<"to", TargetOf(il)>> >> ELSE <<>>
Control(b) == FlattenSeq([i \in DOMAIN b |-> ControlOf(b[i])])
ControlKept ==
  [][\A f \in DOMAIN program : Control(program'[f]) = Control(program[f])]_program

(* The inductive invariant: also within a pass the copy has the labels and  *)
(* branches of the body.                                                   *)
ControlFresh == ~Done => Control(ils) = Control(body)
OptimizerInv == TypeOK /\ CountsFresh /\ ControlFresh

(* The optimizer comes to the end of the program.                          *)
Terminates == <>Done
=============================================================================
