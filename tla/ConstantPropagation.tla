------------------------ MODULE ConstantPropagation ------------------------
(***************************************************************************)
(* The pass between the parser and TypeDeduction that evaluates constant   *)
(* expressions (core/Pass/ConstantPropagation.cpp).  Visit leaves in the   *)
(* tag "Constant" of a node what it knows the node to be worth; Propagate  *)
(* puts a constant in the place of an operand that has such a tag.         *)
(*                                                                         *)
(* A ConstantValue keeps its value as an integer, a bool and a double at   *)
(* once, whatever its type: all three follow from the number here.         *)
(***************************************************************************)
EXTENDS TypedTree

Literal(value, type) == [kind |-> "const", value |-> value, type |-> type]
AsBool(v) == IF v = 0 THEN 0 ELSE 1     \* GetBoolValue

Compare(action, a, b) == CASE action = "CompLt" -> a < b
                           [] action = "CompLe" -> a <= b
                           [] action = "CompGt" -> a > b
                           [] action = "CompGe" -> a >= b
                           [] action = "CompEq" -> a = b
                           [] action = "CompNe" -> a # b
Compute(action, a, b) == CASE action = "Add" -> a + b
                           [] action = "Sub" -> a - b
                           [] action = "Mul" -> a * b

(* Visit(BinaryExpression) of two constants: a sequence of no or one.  An  *)
(* integer result is a long whatever the operands are.  A bool is compared *)
(* with the other operand as a bool; with anything but integers there is   *)
(* no arithmetic.                                                          *)
FoldBinary(action, l, r) ==
  LET right == IF l.type = "bool" THEN AsBool(r.value) ELSE r.value
      holds == Compare(action, l.value, right)
  IN IF IsPointer(l.type) THEN <<>>
     ELSE IF action \in Comparison
          THEN <<Literal(IF holds THEN 1 ELSE 0, "bool")>>
     ELSE IF IsInteger(l.type)
          THEN <<Literal(Compute(action, l.value, r.value), "long")>>
     ELSE <<>>

(* The tag "Constant".  A converted constant is a copy with another type   *)
(* and the value it had.  Visit(UnaryExpression) asks for the tag of the   *)
(* node itself, which has none yet, so it never finds one.                 *)
RECURSIVE Tag(_)
Tag(e) ==
  CASE e.kind = "const" -> <<e>>
    [] e.kind = "convert" ->
         LET source == Tag(e.of)
         IN IF source = <<>> THEN <<>> ELSE <<Literal(source[1].value, e.to)>>
    [] e.kind = "binary" ->
         LET l == Tag(e.left)
             r == Tag(e.right)
         IN IF l = <<>> \/ r = <<>> THEN <<>>
            ELSE FoldBinary(e.action, l[1], r[1])
    [] OTHER -> <<>>

(* The node as Visit leaves it.  Not visited are returned values, the      *)
(* arguments of calls and runners; a condition is visited but not replaced.*)
RECURSIVE Visited(_)
Propagate(e) == IF Tag(e) # <<>> THEN Tag(e)[1] ELSE Visited(e)
Visited(e) ==
  LET Each(list) == [i \in DOMAIN list |-> Visited(list[i])]
  IN CASE e.kind = "binary" -> [e EXCEPT !.left = Propagate(@),
                                         !.right = Propagate(@)]
       [] e.kind = "unary" -> [e EXCEPT !.of = Propagate(@)]
       [] e.kind = "convert" -> [e EXCEPT !.of = Visited(@)]
       [] e.kind = "index" -> [e EXCEPT !.of = Propagate(@), !.index = Propagate(@)]
       [] e.kind = "assign" -> [e EXCEPT !.source = Propagate(@),
                                         !.target = Propagate(@)]
       [] e.kind = "block" -> [e EXCEPT !.body = Each(@)]
       [] e.kind = "if" -> [e EXCEPT !.cond = Visited(@), !.then = Visited(@),
                                     !.else = Propagate(@)]
       [] e.kind = "switch" -> [e EXCEPT !.conds = Each(@), !.bodies = Each(@),
                                         !.default = Propagate(@)]
       [] e.kind = "loop" -> [e EXCEPT !.init = Visited(@), !.cond = Visited(@),
                                       !.incr = Visited(@), !.body = Visited(@)]
       [] OTHER -> e

PropagateProgram(prog) ==
  [prog EXCEPT !.functions =
     [i \in DOMAIN @ |-> [@[i] EXCEPT !.body = Visited(@)]]]
=============================================================================
