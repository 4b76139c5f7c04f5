----------------------------- MODULE I0Machine -----------------------------
(***************************************************************************)
(* What the i0 code generated for an IL program does                       *)
(* (backend/i0/I0CodeGenerator.cpp): one action per Visit, which is the    *)
(* effect of the i0 instructions that Visit emits, on a memory of bytes.   *)
(*                                                                         *)
(* The code is a function from places to IL instructions, a place stands   *)
(* for the address of the code the instruction emits.  "Start" is          *)
(* GenerateSpawn0, "Enter" the prologue of EnterFunction, and a call is    *)
(* followed by "CallReturn", what VisitCall emits after the branch.        *)
(*                                                                         *)
(* CONV reads and writes as many bytes as the IL type of its operands      *)
(* says; every other instruction has the 64-bit attribute and reads and    *)
(* writes words.  The code generator loads narrow operands with CONV only  *)
(* when the first operand of the IL instruction is narrow.                 *)
(***************************************************************************)
EXTENDS Image

VARIABLES
  image,    \* the linked program: [text, next, label, entry, where, frame, ..]
  mem,      \* its memory, a byte at every address written or allocated
  sp, fp,   \* STACK_POINTER, FRAME_POINTER
  pc,       \* place in image.text; 0 once the runner has ended
  top,      \* CURRENT_STACK_BASE + CURRENT_STACK_SIZE
  created   \* the runners created: [entry, using, watching, top]

machine == <<image, mem, sp, fp, pc, top, created>>

Load(a, size) == Fetch(mem, a, size)

(* GetConvOperandAttribute                                                 *)
BytesOfWord(o) == W  \* mutant: no narrow attribute
Bytes(o) == IF o.type = "I1" THEN 1 ELSE W

(* GenerateI0Operand.  The address of a local array is computed in a       *)
(* register; the programs have one at most in an instruction.              *)
AddressOf(o) == IF o.level = "global" THEN image.where[Key(o)]
                ELSE fp + image.where[Key(o)]
IsArrayOperand(o) == IsArray(image.type[Key(o)])    \* stands for its address
Value(o, size) == IF o.kind = "constant" THEN o.value
                  ELSE IF IsArrayOperand(o) THEN AddressOf(o)
                  ELSE Load(AddressOf(o), size)
Narrow(o) == Value(o, Bytes(o))     \* read by CONV
Wide(o) == Value(o, W)              \* read by any other instruction
(* The operands of an instruction whose first operand decides how they are *)
(* read.                                                                   *)
Read(o, first) == IF first.type = "I1" THEN Narrow(o) ELSE Wide(o)

(* What ResolveSymbols finds in the label's Symbol.                        *)
PlaceOf(l) == image.label[LabelName(l)]

Op == image.text[pc].op
Arg(i) == image.text[pc].args[i]
Args == image.text[pc].args
Step(ops) == pc # 0 /\ Op \in ops

Into(o, v, size) == mem' = Put(mem, AddressOf(o), v, size)
Following == image.next[pc]
Falls == pc' = Following
KeepsRunner == UNCHANGED <<image, top, created>>
KeepsFrame == UNCHANGED <<sp, fp>> /\ KeepsRunner

-----------------------------------------------------------------------------
(* Computation                                                             *)

Arithmetics ==
  /\ Step(Arithmetic)
  /\ LET a == Read(Arg(2), Arg(1))
         b == Read(Arg(3), Arg(1))
     IN Into(Arg(1), CASE Op = "Add" -> a + b
                       [] Op = "Sub" -> a - b
                       [] Op = "Mul" -> a * b, Bytes(Arg(1)))
  /\ Falls /\ KeepsFrame

Compares(op, a, b) == CASE op \in {"CompLt", "BrLt"} -> a < b
                        [] op \in {"CompLe", "BrLe"} -> a <= b
                        [] op = "CompGt" -> a > b
                        [] op = "CompGe" -> a >= b
                        [] op \in {"CompEq", "BrEq"} -> a = b
                        [] op \in {"CompNe", "BrNe"} -> a # b

Comparisons ==
  /\ Step(Comparison)
  /\ Into(Arg(1), IF Compares(Op, Read(Arg(2), Arg(1)), Read(Arg(3), Arg(1)))
                  THEN 1 ELSE 0, Bytes(Arg(1)))
  /\ Falls /\ KeepsFrame

CompareBranches ==
  /\ Step(CompareBranch)
  /\ pc' = IF Compares(Op, Read(Arg(1), Arg(1)), Read(Arg(2), Arg(1)))
           THEN PlaceOf(Arg(3)) ELSE Following
  /\ UNCHANGED mem /\ KeepsFrame

ConditionalBranches ==
  /\ Step(ConditionalBranch)
  /\ pc' = IF (Op = "BrNz") = (Read(Arg(1), Arg(1)) # 0)
           THEN PlaceOf(Arg(2)) ELSE Following
  /\ UNCHANGED mem /\ KeepsFrame

Branch ==
  /\ Step({"Br"})
  /\ pc' = PlaceOf(Arg(1))
  /\ UNCHANGED mem /\ KeepsFrame

PassLabel ==
  /\ Step({"Label"})
  /\ Falls /\ UNCHANGED mem /\ KeepsFrame

Moves ==
  /\ Step({"Mov", "Conv"})
  /\ Into(Arg(1), Narrow(Arg(2)), Bytes(Arg(1)))
  /\ Falls /\ KeepsFrame

Negates ==          \* of a word: VisitNeg reads a third operand otherwise
  /\ Step({"Neg"}) /\ Bytes(Arg(1)) = W
  /\ Into(Arg(1), -Wide(Arg(2)), W)
  /\ Falls /\ KeepsFrame

IsFunction(o) == o.name = "__function"
TakeAddress ==
  /\ Step({"Lda"})
  /\ Into(Arg(1), IF IsFunction(Arg(2)) THEN image.entry[Arg(2).temp]
                  ELSE AddressOf(Arg(2)), W)
  /\ Falls /\ KeepsFrame

(* What is loaded, and the place it goes to, are as wide as the pointer.   *)
LoadIndirect ==
  /\ Step({"Ldind"})
  /\ Into(Arg(1), Load(Wide(Arg(2)), Bytes(Arg(2))), Bytes(Arg(2)))
  /\ Falls /\ KeepsFrame

StoreIndirect ==
  /\ Step({"Stind"})
  /\ mem' = Put(mem, Wide(Arg(1)), Narrow(Arg(2)), Bytes(Arg(2)))
  /\ Falls /\ KeepsFrame

-----------------------------------------------------------------------------
(* Elements of arrays and of what pointers point at.  The index is a word  *)
(* whatever its type is.                                                   *)

ElementSize(o) == SizeOf(ElementType(image.type[Key(o)]))
UnscaledElement(container, index) ==  \* mutant: elements are a byte each
  Wide(container) + Wide(index)
ElementAddress(container, index) ==
  Wide(container) + Wide(index) * ElementSize(container)

LoadElement ==
  /\ Step({"Ldelem"})
  /\ Into(Arg(1), Load(ElementAddress(Arg(2), Arg(3)), Bytes(Arg(1))),
          Bytes(Arg(1)))
  /\ Falls /\ KeepsFrame

TakeElementAddress ==
  /\ Step({"Ldelema"})
  /\ Into(Arg(1), ElementAddress(Arg(2), Arg(3)), W)
  /\ Falls /\ KeepsFrame

StoreElement ==
  /\ Step({"Stelem"})
  /\ mem' = Put(mem, ElementAddress(Arg(1), Arg(2)), Narrow(Arg(3)),
                Bytes(Arg(3)))
  /\ Falls /\ KeepsFrame

-----------------------------------------------------------------------------
(* Calls                                                                   *)

(* The return address at the stack pointer, above it the space for the     *)
(* result and the arguments, a word each.                                  *)
ResultSize(il) == IF il.args[2].kind = "empty" THEN 0 ELSE W
PushSize(il) == W + ResultSize(il) + W * (Len(il.args) - 2)

CallWithoutGap ==  \* mutant: the arguments start at the return address
  /\ Step({"Call"})
  /\ sp' = sp - PushSize(image.text[pc])
  /\ LET first == sp' + ResultSize(image.text[pc])
         Push(m, i) == Put(m, first + W * (i - 3), Narrow(Arg(i)),
                           Bytes(Arg(i)))
     IN mem' = FoldLeft(Push, Put(mem, sp', Following, W),
                        [j \in 1 .. (Len(Args) - 2) |-> j + 2])
  /\ pc' = image.entry[Arg(1).temp]
  /\ UNCHANGED fp /\ KeepsRunner
CallFunction ==
  /\ Step({"Call"})
  /\ sp' = sp - PushSize(image.text[pc])
  /\ LET first == sp' + W + ResultSize(image.text[pc])
         Push(m, i) == Put(m, first + W * (i - 3), Narrow(Arg(i)),
                           Bytes(Arg(i)))
     IN mem' = FoldLeft(Push, Put(mem, sp', Following, W),
                        [j \in 1 .. (Len(Args) - 2) |-> j + 2])
  /\ pc' = image.entry[Arg(1).temp]
  /\ UNCHANGED fp /\ KeepsRunner

Enter ==
  /\ Step({"Enter"})
  /\ mem' = Put(mem, sp - W, fp, W)
  /\ fp' = sp - W
  /\ sp' = sp - (image.frame[Arg(1).temp] + W)
  /\ Falls
  /\ KeepsRunner

(* The result goes above the return address; the frame is left and the     *)
(* saved frame pointer and return address are taken from the stack.        *)
ReturnWithFrame ==  \* mutant: the saved frame pointer is not popped
  /\ Step({"Ret"})
  /\ mem' = IF Args = <<>> \/ Arg(1).kind = "empty" THEN mem
            ELSE Put(mem, fp + 2 * W, Narrow(Arg(1)), Bytes(Arg(1)))
  /\ sp' = fp
  /\ fp' = Load(fp, W)
  /\ pc' = Load(fp + W, W)
  /\ KeepsRunner
ReturnFunction ==
  /\ Step({"Ret"})
  /\ mem' = IF Args = <<>> \/ Arg(1).kind = "empty" THEN mem
            ELSE Put(mem, fp + 2 * W, Narrow(Arg(1)), Bytes(Arg(1)))
  /\ sp' = fp + W
  /\ fp' = Load(fp, W)
  /\ pc' = Load(fp + W, W)
  /\ KeepsRunner

CallReturn ==
  /\ Step({"CallReturn"})
  /\ mem' = IF Arg(2).kind = "empty" THEN mem
            ELSE Put(mem, AddressOf(Arg(2)), Load(sp + W, Bytes(Arg(2))),
                     Bytes(Arg(2)))
  /\ sp' = sp + PushSize(image.text[pc])
  /\ Falls
  /\ UNCHANGED fp /\ KeepsRunner

-----------------------------------------------------------------------------
(* The runner                                                              *)

(* GenerateSpawn0: from what the parent left at the top of the stack (the  *)
(* function, the size of the arguments, the arguments), a call of the      *)
(* function that returns to an exit.                                       *)
StartRunner ==
  /\ Step({"Start"})
  /\ fp' = 0
  /\ sp' = top - 3 * W - Load(top - 2 * W, W)
  /\ mem' = Put(mem, sp', Following, W)
  /\ pc' = Load(top - W, W)
  /\ KeepsRunner

ExitRunner ==
  /\ Step({"Exit"})
  /\ pc' = 0
  /\ UNCHANGED mem /\ KeepsFrame

(* The inline assembly around newr, whose operands are addresses of words. *)
Newr0 == CHOOSE p \in DOMAIN image.text : image.text[p].op = "Start"
MoveToMetadata ==
  /\ Step({"AsmMov", "AsmMovNewr0"})
  /\ mem' = IF Op = "AsmMov" THEN Put(mem, Arg(2).value, Arg(1).value, W)
            ELSE Put(mem, Arg(1).value, Newr0, W)
  /\ Falls /\ KeepsFrame

CreateRunner ==
  /\ Step({"AsmNewr"})
  /\ LET i == Len(created) + 1
     IN /\ created' = Append(created, RunnerMade(i, mem,
                                [j \in DOMAIN Args |-> Load(Arg(j).value, W)]))
        /\ \E fill \in Fills : mem' = WithStackOf(i, mem, fill)
  /\ Falls
  /\ UNCHANGED <<image, sp, fp, top>>

Run == \/ Arithmetics \/ Comparisons \/ CompareBranches
       \/ ConditionalBranches \/ Branch \/ PassLabel \/ Moves \/ Negates
       \/ TakeAddress \/ LoadIndirect \/ StoreIndirect \/ LoadElement
       \/ TakeElementAddress \/ StoreElement \/ CallFunction \/ Enter
       \/ ReturnFunction \/ CallReturn \/ StartRunner \/ ExitRunner
       \/ MoveToMetadata \/ CreateRunner
=============================================================================
