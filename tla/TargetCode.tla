----------------------------- MODULE TargetCode -----------------------------
(***************************************************************************)
(* The instructions of the two targets, i0 (backend/i0) and disa           *)
(* (backend/disa), and the code their generators emit for an IL            *)
(* instruction.  The two generators are one text with different names:     *)
(* MOV, BR and NEWR of disa are called CONV, B and SPAWN here; the         *)
(* encodings of the two differ.                                            *)
(*                                                                         *)
(* An operand is [mode, conv, addr, disp, ref].  `addr' is IntValue or     *)
(* Address, which share their memory in the code; `ref' is the name in     *)
(* SymRef, <<>> once it is NULL.  A register is a word at a fixed address, *)
(* here a negative one.                                                    *)
(***************************************************************************)
EXTENDS FrameLayout, Totals

CONSTANT Targets    \* of {"i0", "disa"}

VARIABLES
  target,     \* the one code is generated for
  layout      \* what Allocate made of the scopes: [where, room, frame]

STACK_POINTER == -1
FRAME_POINTER == -2
GENERAL_REG_1 == -3
GENERAL_REG_2 == -4
CURRENT_STACK_BASE == -5
CURRENT_STACK_SIZE == -6
Registers == -6 .. -1

Placeholder == -1000    \* 0xFFFFFFFFDEADBEEF

Opnd(mode, addr, disp, conv) ==
  [mode |-> mode, conv |-> conv, addr |-> addr, disp |-> disp, ref |-> <<>>]
Immediate(v) == Opnd("Immediate", v, 0, "Signed64")
Direct(a) == Opnd("Direct", a, 0, "Signed64")
Indirect(a, conv) == Opnd("Indirect", a, 0, conv)
BaseDisplacement(a, disp, conv) == Opnd("BaseDisplacement", a, disp, conv)
To(mode, ref) == [Opnd(mode, Placeholder, 0, "Signed64") EXCEPT !.ref = ref]

(* The attribute of every instruction generated is Signed64: the types     *)
(* modelled have no unsigned or floating-point one.                        *)
Ins(op, args) == [op |-> op, jump |-> "none", args |-> args]
Jump0(mode, args) == [op |-> "B", jump |-> mode, args |-> args]
CONV(from, to) == Ins("CONV", <<from, to>>)
ADD(a, b, to) == Ins("ADD", <<a, b, to>>)
SUB(a, b, to) == Ins("SUB", <<a, b, to>>)

-----------------------------------------------------------------------------
(* GetLength and Encode                                                    *)

Codes == [
  i0 |-> [NOP |-> 0, CONV |-> 33, ADD |-> 3, SUB |-> 6, MUL |-> 9, B |-> 21,
         SPAWN |-> 37,
          EXIT |-> 134, none |-> 0,
          J |-> 0, L |-> 2, LE |-> 3, E |-> 4, NE |-> 5, Z |-> 6, NZ |-> 7,
          JI |-> 12, Signed8 |-> 0, Signed64 |-> 1],
  disa |-> [NOP |-> 0, CONV |-> 11, ADD |-> 1, SUB |-> 2, MUL |-> 3, B |-> 7,
           SPAWN |-> 5,
            EXIT |-> 6, none |-> 0,
            J |-> 0, JI |-> 1, LE |-> 2, L |-> 3, E |-> 4, NE |-> 5, Z |-> 6,
            NZ |-> 7, Signed8 |-> 2, Signed64 |-> 0]]
ModeCode == [Immediate |-> 0, Direct |-> 1, Indirect |-> 2,
             BaseDisplacement |-> 3]

IsArithmetic(ins) == ins.op \in {"ADD", "SUB", "MUL"}
IsTest(ins) == ins.jump \in {"Z", "NZ"}
IsCompare(ins) == ins.jump \in {"L", "LE", "E", "NE"}

(* How many bytes GetLength counts before the operands.                    *)
LengthOfHeaderI0(ins) ==
  CASE ins.op = "CONV" -> 4
    [] IsArithmetic(ins) \/ ins.op = "SPAWN" -> 3
    [] ins.jump = "J" -> 2
    [] ins.jump = "JI" -> 3
    [] IsTest(ins) -> 3
    [] IsCompare(ins) -> 4
    [] ins.op \in {"EXIT", "NOP"} -> 2
LengthOfHeaderDisa(ins) ==
  CASE ins.op \in {"CONV", "SPAWN"} \/ IsArithmetic(ins) -> 3
    [] ins.jump \in {"J", "JI"} -> 2
    [] IsTest(ins) \/ IsCompare(ins) -> 3
    [] ins.op = "EXIT" -> 2
    [] ins.op = "NOP" -> 1

(* GetOperandEncodingLength: an immediate is as long as the operand's      *)
(* attribute says in a CONV, and 8 bytes in any other instruction.         *)
ConvBytes(conv) == IF conv = "Signed8" THEN 1 ELSE 8
ImmediateLength(ins, o) == IF ins.op = "CONV" THEN ConvBytes(o.conv) ELSE 8
OperandLength(ins, o) == CASE o.mode = "Immediate" -> ImmediateLength(ins, o)
                           [] o.mode \in {"Direct", "Indirect"} -> 8
                           [] o.mode = "BaseDisplacement" -> 8 + 4
LengthOfHeader(ins) ==
  IF target = "i0" THEN LengthOfHeaderI0(ins) ELSE LengthOfHeaderDisa(ins)
GetLength(ins) ==
  LengthOfHeader(ins)
    + Total([i \in 1 .. Len(ins.args) |-> OperandLength(ins, ins.args[i])])
Lengths(list) == [i \in 1 .. Len(list) |-> GetLength(list[i])]
LengthOf(list) == Total(Lengths(list))

(* EncodeOperandData: an immediate always by its own attribute.            *)
ImmediateBytes(o) == ConvBytes(o.conv)
BytesWithoutDisplacement(o) ==  \* mutant: the displacement is not written
  IF o.mode = "Immediate" THEN ImmediateBytes(o) ELSE 8
OperandBytes(o) == CASE o.mode = "Immediate" -> ImmediateBytes(o)
                     [] o.mode \in {"Direct", "Indirect"} -> 8
                     [] o.mode = "BaseDisplacement" -> 4 + 8

(* The fields of a header are put together with | (of ten bits at most).   *)
Bit(n, place) == (n \div place) % 2 = 1
Or(a, b) == LET bit(place) == IF Bit(a, place) \/ Bit(b, place) THEN place ELSE 0
            IN bit(1) + bit(2) + bit(4) + bit(8) + bit(16)
                 + bit(32) + bit(64) + bit(128) + bit(256) + bit(512)
Or3(a, b, c) == Or(Or(a, b), c)

(* The bytes before the operands, RelativeJump, ExitMode and the address   *)
(* size prefix being 0.                                                    *)
SecondModeLost(first, high, a, b) ==  \* mutant: the first mode is written twice
  <<first, Or3(high, a * 4, b \div 2), a * 128>>
TwoModes(first, high, a, b) == <<first, Or3(high, a * 4, b \div 2), b * 128>>
BehindI0(ins) ==
  LET code == Codes.i0
      op == code[ins.op]
      mode(i) == ModeCode[ins.args[i].mode]
      conv(i) == code[ins.args[i].conv]
      attribute == code.Signed64
      low == (op % 8) * 32
      jump == Or(low, code[ins.jump] * 2)
  IN CASE ins.op = "CONV" ->
            TwoModes(Or3(low, conv(1) * 2, conv(2) \div 8),
                     conv(2) * 32, mode(1), mode(2))
       [] IsArithmetic(ins) ->
            <<Or3(low, attribute * 2, mode(1) \div 4),
              Or3(mode(1) * 64, mode(2) * 8, mode(3))>>
       [] ins.jump = "J" -> <<jump>>
       [] ins.jump = "JI" -> <<Or(jump, mode(1) \div 4), mode(1) * 64>>
       [] IsCompare(ins) ->
            TwoModes(Or(jump, attribute \div 8), attribute * 32, mode(1), mode(2))
       [] IsTest(ins) ->
            <<Or(jump, attribute \div 8), Or(attribute * 32, mode(1) * 4)>>
       [] ins.op = "SPAWN" ->            \* the second mode is not written
            <<Or3(low, mode(1) * 4, mode(2) \div 2),
              Or3(mode(3) * 128, mode(3) * 16, mode(4) * 2)>>
       [] ins.op \in {"EXIT", "NOP"} -> <<low>>
BehindDisa(ins) ==
  LET code == Codes.disa
      mode(i) == ModeCode[ins.args[i].mode]
      conv(i) == code[ins.args[i].conv]
      attribute == code.Signed64
      jump == code[ins.jump] * 16
  IN CASE ins.op = "CONV" -> <<Or(conv(1) * 16, conv(2)), Or(mode(1) * 32, mode(2) * 4)>>
       [] IsArithmetic(ins) ->
            <<Or3(attribute * 32, mode(1) * 4, (mode(2) \div 2) % 4),
              Or((mode(2) % 2) * 128, mode(3) * 16)>>
       [] ins.jump = "J" -> <<jump>>
       [] ins.jump = "JI" -> <<Or(jump, mode(1) * 2)>>
       [] IsCompare(ins) ->
            <<Or3(jump, attribute * 2, (mode(1) \div 4) % 2),
              Or((mode(1) % 4) * 64, mode(2) * 8)>>
       [] IsTest(ins) ->
            <<Or3(jump, attribute * 2, (mode(1) \div 4) % 2),
              (mode(1) % 4) * 64>>
       [] ins.op = "SPAWN" ->
            <<Or3(mode(1) * 32, mode(2) * 4, (mode(3) \div 2) % 4),
              Or((mode(3) % 2) * 128, mode(4) * 16)>>
       [] ins.op = "EXIT" -> <<0>>
       [] ins.op = "NOP" -> <<>>

BytesOf(first, rest) ==
  [i \in 1 .. (Len(rest) + 1) |-> IF i = 1 THEN first ELSE rest[i - 1] % 256]
Header(ins) == IF target = "i0"
               THEN BytesOf(Codes.i0[ins.op] \div 8, BehindI0(ins))
               ELSE BytesOf(Codes.disa[ins.op], BehindDisa(ins))

(* How many bytes Encode writes.                                           *)
BytesEncoded(ins) ==
  Len(Header(ins)) + Total([i \in 1 .. Len(ins.args) |-> OperandBytes(ins.args[i])])
=============================================================================
