----------------------------- MODULE TypedTree -----------------------------
(***************************************************************************)
(* The expression tree of a C0 program as the parser builds it             *)
(* (frontend/c/C.g) and what the TypeDeduction pass makes of it            *)
(* (core/Pass/TypeDeduction.cpp): every node gets a type, and conversions  *)
(* are inserted where the pass inserts them.                               *)
(*                                                                         *)
(* A node is a record with a `kind'.  A variable carries its Symbol, a     *)
(* block the number of its scope (0: it has none) and the variables it     *)
(* declares.  A program is [globals, functions]; a function is             *)
(* [ret, params, body]; a call names it by its number.                     *)
(***************************************************************************)
EXTENDS ILCode, FiniteSets, SequencesExt

(* What the parser builds.                                                 *)
Var(sym) == [kind |-> "var", sym |-> sym, type |-> "?"]
Num(v) == [kind |-> "const", value |-> v, type |-> "long"]
Chr(v) == [kind |-> "const", value |-> v, type |-> "char"]
Bin(action, l, r) == [kind |-> "binary", action |-> action, left |-> l,
                      right |-> r, type |-> "?"]
Un(action, e) == [kind |-> "unary", action |-> action, of |-> e, type |-> "?"]
Convert(type, e) == [kind |-> "convert", to |-> type, of |-> e, type |-> type]
Index(container, i) == [kind |-> "index", of |-> container, index |-> i,
                        type |-> "?"]
Call(f, args) == [kind |-> "call", f |-> f, args |-> args, type |-> "?"]

Assign(target, e) == [kind |-> "assign", target |-> target, source |-> e]
Block(id, declared, list) == [kind |-> "block", id |-> id, vars |-> declared,
                              body |-> list]
(* A list of statements without a scope of its own: the body of a case,    *)
(* an empty statement, the else that is not there.                         *)
List(list) == Block(0, <<>>, list)
If(cond, then, else) == [kind |-> "if", cond |-> cond, then |-> then,
                         else |-> else]
(* switch: the comparisons of its cases, their bodies and the default.     *)
Switch(e, values, bodies, default) ==
  [kind |-> "switch", bodies |-> bodies, default |-> default,
   conds |-> [i \in DOMAIN values |-> Bin("CompEq", e, values[i])]]
While(cond, body) == [kind |-> "loop", init |-> List(<<>>), cond |-> cond,
                      incr |-> List(<<>>), body |-> body, after |-> FALSE]
DoWhile(body, cond) == [While(cond, body) EXCEPT !.after = TRUE]
For(init, cond, incr, body) == [kind |-> "loop", init |-> init, cond |-> cond,
                                incr |-> incr, body |-> body, after |-> FALSE]
Jump(to) == [kind |-> "jump", to |-> to]                \* break, continue
Goto(name) == [kind |-> "goto", name |-> name]
Labelled(name) == [kind |-> "label", name |-> name]
Return(list) == [kind |-> "return", value |-> list]     \* <<>> or <<e>>
Commit == [kind |-> "commit"]
(* runner f(args) using .. watching ..: a range is a variable, an element  *)
(* or a segment of an array.                                               *)
NewRunner(f, args, using, watching) ==
  [kind |-> "runner", f |-> f, args |-> args, using |-> using,
   watching |-> watching]
Segment(array, start, end) ==
  [kind |-> "segment", of |-> array, start |-> start, end |-> end, type |-> "?"]

IsInteger(type) == type \in {"char", "long"}
PointerTo(type) == IF type = "char" THEN "pchar" ELSE "plong"
Wider(s, t) == IF "long" \in {s, t} THEN "long" ELSE "char"

(* A ConvertExpression when the types differ.                              *)
As(type, e) == IF e.type = type THEN e ELSE Convert(type, e)

-----------------------------------------------------------------------------
(* Expressions.  Integer arithmetic converts both operands to the wider    *)
(* type; arithmetic on a pointer converts nothing and does not scale; a    *)
(* comparison converts its left operand only, and an index is not          *)
(* converted.                                                              *)

TypeBinary(e, l, r) ==
  LET wide == Wider(l.type, r.type)
      ints == IsInteger(l.type) /\ IsInteger(r.type)
  IN CASE e.action \in Arithmetic /\ ints ->
            [e EXCEPT !.left = As(wide, l), !.right = As(wide, r),
                      !.type = wide]
       [] e.action \in Arithmetic ->
            [e EXCEPT !.left = l, !.right = r, !.type = l.type]
       [] e.action \in Comparison /\ ints ->
            [e EXCEPT !.left = As(wide, l), !.right = r, !.type = "bool"]
       [] OTHER ->
            [e EXCEPT !.left = l, !.right = r, !.type = "bool"]

TypeUnary(e, x) ==
  [e EXCEPT !.of = x,
            !.type = CASE e.action = "Reference" -> PointerTo(x.type)
                       [] e.action = "Dereference" -> ElementType(x.type)
                       [] OTHER -> x.type]

RECURSIVE TypeOf(_, _)
TypeOf(e, ret) ==        \* ret: the return type of every function
  CASE e.kind = "var" -> [e EXCEPT !.type = e.sym.type]
    [] e.kind = "const" -> e
    [] e.kind = "binary" -> TypeBinary(e, TypeOf(e.left, ret),
                                          TypeOf(e.right, ret))
    [] e.kind = "unary" -> TypeUnary(e, TypeOf(e.of, ret))
    [] e.kind = "convert" -> [e EXCEPT !.of = TypeOf(e.of, ret)]
    [] e.kind = "index" -> LET a == TypeOf(e.of, ret)
                           IN [e EXCEPT !.of = a, !.index = TypeOf(@, ret),
                                        !.type = ElementType(a.type)]
    [] e.kind = "segment" -> LET a == TypeOf(e.of, ret)
                             IN [e EXCEPT !.of = a, !.start = TypeOf(@, ret),
                                          !.end = TypeOf(@, ret), !.type = a.type]
    [] e.kind = "call" -> [e EXCEPT !.type = ret[e.f],
                                    !.args = [i \in DOMAIN e.args |->
                                                TypeOf(e.args[i], ret)]]

(* Statements.  An assignment converts its source to the target's type; a  *)
(* returned value and an argument, a runner's too, are not converted.      *)
RECURSIVE Deduce(_, _)
Deduce(s, ret) ==
  LET Types(list) == [i \in DOMAIN list |-> TypeOf(list[i], ret)]
      Deduces(list) == [i \in DOMAIN list |-> Deduce(list[i], ret)]
  IN CASE s.kind = "assign" ->
            LET target == TypeOf(s.target, ret)
            IN [s EXCEPT !.target = target,
                         !.source = As(target.type, TypeOf(s.source, ret))]
       [] s.kind = "block" -> [s EXCEPT !.body = Deduces(s.body)]
       [] s.kind = "if" -> [s EXCEPT !.cond = TypeOf(s.cond, ret),
                                     !.then = Deduce(s.then, ret),
                                     !.else = Deduce(s.else, ret)]
       [] s.kind = "switch" -> [s EXCEPT !.conds = Types(s.conds),
                                         !.bodies = Deduces(s.bodies),
                                         !.default = Deduce(s.default, ret)]
       [] s.kind = "loop" -> [s EXCEPT !.init = Deduce(s.init, ret),
                                       !.cond = TypeOf(s.cond, ret),
                                       !.incr = Deduce(s.incr, ret),
                                       !.body = Deduce(s.body, ret)]
       [] s.kind = "return" -> [s EXCEPT !.value = Types(s.value)]
       [] s.kind = "runner" -> [s EXCEPT !.args = Types(@), !.using = Types(@),
                                         !.watching = Types(@)]
       [] s.kind \in {"jump", "goto", "label", "commit"} -> s
       [] OTHER -> TypeOf(s, ret)

(* The whole program; a function is called by its number.                  *)
DeduceProgram(prog) ==
  LET ret == [i \in DOMAIN prog.functions |-> prog.functions[i].ret]
  IN [prog EXCEPT !.functions =
        [i \in DOMAIN @ |-> [@[i] EXCEPT !.body = Deduce(@, ret)]]]
=============================================================================
