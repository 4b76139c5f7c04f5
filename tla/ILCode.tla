------------------------------- MODULE ILCode -------------------------------
(***************************************************************************)
(* The intermediate language of cc0: symbols, operands and instructions    *)
(* (core/IL/IL.h, core/Symbol/Symbol.h).  An operand keeps what            *)
(* ILOperand::Equal compares, so that Equal is equality of records.  Two   *)
(* operands of one variable differ when their IL types do.                 *)
(*                                                                         *)
(* Types of C0 kept: char (one byte), long (a word), bool, a pointer to    *)
(* char ("pchar"), long ("plong") or void ("pvoid"), an array of           *)
(* ArrayLength of them ("chars", "longs"), label and void.                 *)
(***************************************************************************)
EXTENDS Integers, Sequences

ArrayLength == 3
IsArray(type) == type \in {"chars", "longs"}
IsPointer(type) == type \in {"pchar", "plong"}
ElementType(type) == IF type \in {"chars", "pchar"} THEN "char" ELSE "long"
ILTypes == {"I", "I1", "I8", "Void"}

(* GetOperandType: a bool, a pointer, an array and a label are all of type *)
(* I.                                                                      *)
ILTypeOf(type) == CASE type = "char" -> "I1"
                    [] type = "long" -> "I8"
                    [] type = "void" -> "Void"
                    [] OTHER -> "I"

(* A symbol: the scope that declares it (kind and number), its name, and   *)
(* for __temp_<temp> its number.                                           *)
Sym(level, scope, name, type) ==
  [level |-> level, scope |-> scope, name |-> name, temp |-> 0, type |-> type]
TempSym(scope, temp, type) ==
  [level |-> "block", scope |-> scope, name |-> "__temp", temp |-> temp,
   type |-> type]

Variable(sym, iltype) ==
  [kind |-> "variable", type |-> iltype, level |-> sym.level,
   scope |-> sym.scope, name |-> sym.name, temp |-> sym.temp, value |-> 0]
Constant(value, iltype) ==
  [kind |-> "constant", type |-> iltype, level |-> "none", scope |-> 0,
   name |-> "", temp |-> 0, value |-> value]
Empty ==
  [kind |-> "empty", type |-> "Void", level |-> "none", scope |-> 0,
   name |-> "", temp |-> 0, value |-> 0]

Operand == [kind : {"variable", "constant", "empty"}, type : ILTypes,
            level : {"global", "function", "block", "none"}, scope : Nat,
            name : STRING, temp : Nat, value : Int]

IL(op, args) == [op |-> op, args |-> args]
Nop == IL("Nop", <<>>)

Arithmetic == {"Add", "Sub", "Mul"}
Comparison == {"CompLt", "CompLe", "CompGt", "CompGe", "CompEq", "CompNe"}
CompareBranch == {"BrLt", "BrLe", "BrEq", "BrNe"}
ConditionalBranch == {"BrZ", "BrNz"}

(* ILOpcode; AsmMov, AsmMovNewr0, AsmNewr and Exit are what the generator   *)
(* makes of Asm.                                                           *)
Opcodes ==
  Arithmetic \cup Comparison \cup CompareBranch \cup ConditionalBranch
    \cup {"Nop", "Label", "Br", "BrGt", "BrGe", "Call", "Ret", "Mov", "Conv", "Cast",
          "And", "Or", "Xor", "Not", "Neg", "Div", "Mod", "Shl", "Shr", "Lda",
          "Ldelem", "Ldelema", "Ldind", "Ldstr", "Stelem", "Stind",
          "AsmMov", "AsmMovNewr0", "AsmNewr", "Exit"}

(* The operand that names where a branch goes, if the instruction is one.  *)
TargetOf(il) == CASE il.op = "Br" -> {il.args[1]}
                  [] il.op \in ConditionalBranch -> {il.args[2]}
                  [] il.op \in CompareBranch -> {il.args[3]}
                  [] OTHER -> {}

(* A jump finds its label by scope and name; the type of the operand does  *)
(* not matter (goto names a label with type Void, the label has type Str). *)
LabelName(o) == <<o.name, o.temp>>

(* What a SymbolRef names.                                                 *)
Key(o) == <<o.level, o.scope, o.name, o.temp>>

FunctionSym(f) == [Sym("global", 0, "__function", "label") EXCEPT !.temp = f]
=============================================================================
