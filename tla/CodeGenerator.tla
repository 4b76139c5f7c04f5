--------------------------- MODULE CodeGenerator ---------------------------
(***************************************************************************)
(* The instructions a code generator emits for one IL instruction (one     *)
(* operator per Visit), given `at', the value of _currentText when it      *)
(* begins.  Where the code keeps a pointer to an address it has emitted    *)
(* and writes _currentText through it later (pTL, pEL, pRetAddr), the      *)
(* address is computed here from the lengths of what is emitted between.   *)
(***************************************************************************)
EXTENDS TargetCode, SequencesExt

(* GenerateDisaOperand, GenerateI0Operand.  An array stands for its        *)
(* address.  That of a local one is computed by an instruction that is     *)
(* emitted when the operand is generated: a Visit has Before(o) where it   *)
(* generates o, which is not always where it emits what o is for.          *)
ConvAttribute(o) == IF o.type = "I1" THEN "Signed8" ELSE "Signed64"
IsArrayOperand(o) == o.kind = "variable" /\ IsArray(layout.type[Key(o)])
VariableOperand(o) ==
  IF o.level = "global"
  THEN To(IF IsArrayOperand(o) THEN "Immediate" ELSE "Direct", Key(o))
  ELSE IF IsArrayOperand(o) THEN Direct(GENERAL_REG_2)
  ELSE BaseDisplacement(FRAME_POINTER, layout.where[Key(o)], "Signed64")
Operand0(o) ==
  [(IF o.kind = "constant" THEN Immediate(o.value) ELSE VariableOperand(o))
     EXCEPT !.conv = ConvAttribute(o)]
Before(o) ==
  IF IsArrayOperand(o) /\ o.level # "global"
  THEN <<ADD(Direct(FRAME_POINTER), Immediate(layout.where[Key(o)]),
             Direct(GENERAL_REG_2))>>
  ELSE <<>>
(* A label or a function.                                                  *)
Target(o) == [To("Direct", LabelName(o)) EXCEPT !.conv = ConvAttribute(o)]

IsNarrow(o) == o.type = "I1"
Loads(a, b) == <<CONV(Operand0(a), Direct(GENERAL_REG_1)),
                 CONV(Operand0(b), Direct(GENERAL_REG_2))>>
Reg1 == Direct(GENERAL_REG_1)
Reg2 == Direct(GENERAL_REG_2)

-----------------------------------------------------------------------------

GenerateBinaryArithmetic(il, op) ==
  LET o(i) == Operand0(il.args[i])
      before(i) == Before(il.args[i])
  IN IF IsNarrow(il.args[1])
     THEN before(2) \o before(3) \o before(1) \o Loads(il.args[2], il.args[3])
            \o <<Ins(op, <<Reg1, Reg2, Reg1>>), CONV(Reg1, o(1))>>
     ELSE before(1) \o before(2) \o before(3) \o <<Ins(op, <<o(2), o(3), o(1)>>)>>

(* *pTL = _currentText when the branch to EL is emitted.                   *)
TrueLabelEarly(code, at) ==  \* mutant: before br:j EL is
  at + LengthOf(Front(code))
TrueLabel(code, at) == at + LengthOf(code)

(*       br:mode TL ; FL: conv ~value ; br:j EL ; TL: conv value ; EL:       *)
GenerateComparison(il, mode, value, at) ==
  LET o(i) == Operand0(il.args[i])
      loads == IF IsNarrow(il.args[1]) THEN Loads(il.args[2], il.args[3]) ELSE <<>>
      a == IF loads = <<>> THEN o(2) ELSE Reg1
      b == IF loads = <<>> THEN o(3) ELSE Reg2
      Set(v) == Before(il.args[1]) \o <<CONV(Immediate(v), o(1))>>
      ToTrue(TL, EL) == Before(il.args[2]) \o Before(il.args[3]) \o loads
                          \o <<Jump0(mode, <<a, b, Direct(TL)>>)>>
                          \o Set(IF value THEN 0 ELSE 1)
                          \o <<Jump0("J", <<Direct(EL)>>)>>
      Code(TL, EL) == ToTrue(TL, EL) \o Set(IF value THEN 1 ELSE 0)
  IN Code(TrueLabel(ToTrue(0, 0), at), at + LengthOf(Code(0, 0)))

(* brValue is true for every branch the optimizer makes.                   *)
GenerateCompareBranch(il, mode) ==
  LET narrow == IsNarrow(il.args[1])
      a == IF narrow THEN Reg1 ELSE Operand0(il.args[1])
      b == IF narrow THEN Reg2 ELSE Operand0(il.args[2])
  IN Before(il.args[1]) \o Before(il.args[2])
       \o (IF narrow THEN Loads(il.args[1], il.args[2]) ELSE <<>>)
       \o <<Jump0(mode, <<a, b, Target(il.args[3])>>)>>

GenerateConditionalBr(il, mode) ==
  LET o == Operand0(il.args[1])
  IN Before(il.args[1])
       \o (IF IsNarrow(il.args[1])
           THEN <<CONV(o, Reg1), Jump0(mode, <<Reg1, Target(il.args[2])>>)>>
           ELSE <<Jump0(mode, <<o, Target(il.args[2])>>)>>)

VisitBr(il) == <<Jump0("J", <<Target(il.args[1])>>)>>
VisitMov(il) ==
  Before(il.args[2]) \o Before(il.args[1])
    \o <<CONV(Operand0(il.args[2]), Operand0(il.args[1]))>>

(* Of a word: VisitNeg reads a third operand of a narrow one.              *)
VisitNeg(il) ==
  Before(il.args[2]) \o Before(il.args[1])
    \o <<SUB(Immediate(0), Operand0(il.args[2]), Operand0(il.args[1]))>>

(* Disa's leaves the attribute of the ADD unset (see Assembles).           *)
VisitLda(il) ==
  LET o == il.args[2]
      name == IF o.name = "__function" THEN LabelName(o) ELSE Key(o)
  IN Before(il.args[1])
       \o (IF o.level = "global"
           THEN <<CONV(To("Immediate", name), Operand0(il.args[1]))>>
           ELSE <<ADD(Direct(FRAME_POINTER), Immediate(layout.where[Key(o)]),
                      Operand0(il.args[1]))>>)

(* Through a pointer: a constant address is one of memory, a global        *)
(* pointer is used where it is, a local one is loaded into a register.     *)
Through(pointer, conv) ==
  IF pointer.kind = "constant" THEN [Direct(pointer.value) EXCEPT !.conv = conv]
  ELSE IF pointer.level = "global"
  THEN [To("Indirect", Key(pointer)) EXCEPT !.conv = conv]
  ELSE Indirect(GENERAL_REG_1, conv)
LoadPointer(pointer) ==
  IF pointer.kind = "constant" \/ pointer.level = "global" THEN <<>>
  ELSE <<CONV(BaseDisplacement(FRAME_POINTER, layout.where[Key(pointer)], "Signed64"),
              Reg1)>>

VisitLdind(il) ==
  LET conv == ConvAttribute(il.args[2])
  IN LoadPointer(il.args[2]) \o Before(il.args[1])
       \o <<CONV(Through(il.args[2], conv),
                 [Operand0(il.args[1]) EXCEPT !.conv = conv])>>
VisitStind(il) ==
  LoadPointer(il.args[1]) \o Before(il.args[2])
    \o <<CONV(Operand0(il.args[2]),
              Through(il.args[1], ConvAttribute(il.args[2])))>>

(* The offset of an element in one register and its address in the other,  *)
(* which may hold the address of the array before.                         *)
ElementOffset(container, index) ==
  Ins("MUL", <<Operand0(index),
               Immediate(SizeOf(ElementType(layout.type[Key(container)]))), Reg1>>)
ContainerAndIndex(container, index) ==
  Before(index) \o <<ElementOffset(container, index)>> \o Before(container)
ToElement(container, index) ==
  ContainerAndIndex(container, index) \o <<ADD(Operand0(container), Reg1, Reg2)>>
VisitLdelem(il) ==
  ToElement(il.args[2], il.args[3]) \o Before(il.args[1])
    \o <<CONV(Indirect(GENERAL_REG_2, ConvAttribute(il.args[1])),
              Operand0(il.args[1]))>>
VisitLdelema(il) ==
  ContainerAndIndex(il.args[2], il.args[3]) \o Before(il.args[1])
    \o <<ADD(Operand0(il.args[2]), Reg1, Operand0(il.args[1]))>>
VisitStelem(il) ==
  ToElement(il.args[1], il.args[2]) \o Before(il.args[3])
    \o <<CONV(Operand0(il.args[3]),
              Indirect(GENERAL_REG_2, ConvAttribute(il.args[3])))>>

(* "mov $value:msq, address:msq", of __newr0, and "newr a, b, c, d".       *)
VisitAsm(il) ==
  LET address(i) == Direct(il.args[i].value)
  IN CASE il.op = "AsmMov" -> <<CONV(Immediate(il.args[1].value), address(2))>>
       [] il.op = "AsmMovNewr0" ->
            <<CONV(To("Immediate", <<"__newr0", 0>>), address(1))>>
       [] il.op = "AsmNewr" -> <<Ins("SPAWN", [i \in 1 .. 4 |-> address(i)])>>

-----------------------------------------------------------------------------
(* Functions                                                               *)

GetOperandSize(o) == RoundUp(IF o.type = "I1" THEN 1 ELSE W, W)
RetSize(il) == IF il.args[2].kind = "empty" THEN 0 ELSE GetOperandSize(il.args[2])
CallPushSize(il) ==
  W + RetSize(il) + Total([i \in 1 .. (Len(il.args) - 2) |->
                             GetOperandSize(il.args[i + 2])])

(* Up to the branch; the return address is the place behind it.            *)
CallCode(il, back) ==
  LET offset(i) == W + RetSize(il)
                     + Total([j \in 1 .. (i - 3) |-> GetOperandSize(il.args[j + 2])])
      Pushed(i) == Before(il.args[i])
                     \o <<CONV(Operand0(il.args[i]),
                               BaseDisplacement(STACK_POINTER, offset(i),
                                                ConvAttribute(il.args[i])))>>
  IN <<SUB(Direct(STACK_POINTER), Immediate(CallPushSize(il)),
           Direct(STACK_POINTER)),
       CONV(Immediate(back), BaseDisplacement(STACK_POINTER, 0, "Signed64"))>>
       \o FlattenSeq([i \in 1 .. (Len(il.args) - 2) |-> Pushed(i + 2)])
       \o <<Jump0("J", <<Target(il.args[1])>>)>>
VisitCall(il, at) == CallCode(il, at + LengthOf(CallCode(il, 0)))
VisitCallReturn(il) ==
  (IF il.args[2].kind = "empty" THEN <<>>
   ELSE Before(il.args[2])
          \o <<CONV(BaseDisplacement(STACK_POINTER, W, ConvAttribute(il.args[2])),
                    Operand0(il.args[2]))>>)
    \o <<ADD(Direct(STACK_POINTER), Immediate(CallPushSize(il)),
             Direct(STACK_POINTER))>>

EnterFunctionCode(f) ==
  <<CONV(Direct(FRAME_POINTER), BaseDisplacement(STACK_POINTER, -W, "Signed64")),
    SUB(Direct(STACK_POINTER), Immediate(W), Direct(FRAME_POINTER)),
    SUB(Direct(STACK_POINTER), Immediate(layout.frame[f] + W),
        Direct(STACK_POINTER))>>

PARAMETER_OFFSET == 2 * W
VisitRet(il) ==
  (IF il.args = <<>> \/ il.args[1].kind = "empty" THEN <<>>
   ELSE Before(il.args[1])
          \o <<CONV(Operand0(il.args[1]),
                    BaseDisplacement(FRAME_POINTER, PARAMETER_OFFSET,
                                     ConvAttribute(il.args[1])))>>)
    \o <<CONV(Direct(FRAME_POINTER), Direct(STACK_POINTER)),
         CONV(Indirect(STACK_POINTER, "Signed64"), Direct(FRAME_POINTER)),
         ADD(Direct(STACK_POINTER), Immediate(W), Direct(STACK_POINTER)),
         Jump0("JI", <<Indirect(STACK_POINTER, "Signed64")>>)>>

StackEnd(to) == ADD(Direct(CURRENT_STACK_BASE), Direct(CURRENT_STACK_SIZE),
                    Direct(to))

(* __crt0: function 1 stands for main.                                     *)
GenerateCrt0 ==
  <<StackEnd(STACK_POINTER), CONV(Immediate(0), Direct(FRAME_POINTER)),
    Jump0("J", <<To("Immediate", <<"__function", 1>>)>>)>>

(* __newr0, up to the branch to the runner's function.                     *)
Newr0Code(back) ==
  <<StackEnd(GENERAL_REG_1), CONV(Immediate(0), Direct(FRAME_POINTER)),
    SUB(Reg1, Immediate(3 * W), Direct(STACK_POINTER)),
    SUB(Direct(STACK_POINTER),
        BaseDisplacement(GENERAL_REG_1, -(2 * W), "Signed64"),
        Direct(STACK_POINTER)),
    CONV(BaseDisplacement(GENERAL_REG_1, -W, "Signed64"), Reg2),
    CONV(Immediate(back), Indirect(STACK_POINTER, "Signed64")),
    Jump0("JI", <<Reg2>>)>>
GenerateNewr0(at) == Newr0Code(at + LengthOf(Newr0Code(0)))

-----------------------------------------------------------------------------

Visit(il, at) ==
  CASE il.op = "Add" -> GenerateBinaryArithmetic(il, "ADD")
    [] il.op = "Sub" -> GenerateBinaryArithmetic(il, "SUB")
    [] il.op = "Mul" -> GenerateBinaryArithmetic(il, "MUL")
    [] il.op = "CompEq" -> GenerateComparison(il, "E", TRUE, at)
    [] il.op = "CompNe" -> GenerateComparison(il, "NE", TRUE, at)
    [] il.op = "CompLt" -> GenerateComparison(il, "L", TRUE, at)
    [] il.op = "CompLe" -> GenerateComparison(il, "LE", TRUE, at)
    [] il.op = "CompGt" -> GenerateComparison(il, "LE", FALSE, at)
    [] il.op = "CompGe" -> GenerateComparison(il, "L", FALSE, at)
    [] il.op = "BrEq" -> GenerateCompareBranch(il, "E")
    [] il.op = "BrNe" -> GenerateCompareBranch(il, "NE")
    [] il.op = "BrLt" -> GenerateCompareBranch(il, "L")
    [] il.op = "BrLe" -> GenerateCompareBranch(il, "LE")
    [] il.op = "BrZ" -> GenerateConditionalBr(il, "Z")
    [] il.op = "BrNz" -> GenerateConditionalBr(il, "NZ")
    [] il.op = "Br" -> VisitBr(il)
    [] il.op \in {"Mov", "Conv"} -> VisitMov(il)
    [] il.op = "Neg" -> VisitNeg(il)
    [] il.op = "Lda" -> VisitLda(il)
    [] il.op = "Ldind" -> VisitLdind(il)
    [] il.op = "Stind" -> VisitStind(il)
    [] il.op = "Ldelem" -> VisitLdelem(il)
    [] il.op = "Ldelema" -> VisitLdelema(il)
    [] il.op = "Stelem" -> VisitStelem(il)
    [] il.op \in {"AsmMov", "AsmMovNewr0", "AsmNewr"} -> VisitAsm(il)
    [] il.op = "Call" -> VisitCall(il, at)
    [] il.op = "CallReturn" -> VisitCallReturn(il)
    [] il.op = "Ret" -> VisitRet(il)
    [] il.op = "Exit" -> <<Ins("EXIT", <<>>)>>
    [] il.op = "Label" -> <<>>
=============================================================================
