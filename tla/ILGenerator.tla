---------------------------- MODULE ILGenerator ----------------------------
(***************************************************************************)
(* The ILGenerator pass (core/Pass/ILGenerator.cpp): the typed tree of a   *)
(* function becomes a list of IL instructions.                             *)
(*                                                                         *)
(* The pass is a visitor; here each Visit is an operator from the state of *)
(* the pass before the node to the state after it:                         *)
(*   code   the instructions generated so far (_function->Body)            *)
(*   next   _tempId                                                        *)
(*   temps  the symbols GenerateTemp added to the scopes                   *)
(*   op     the ILOperand tag of the node visited last                     *)
(*   ok     FALSE once the pass has dereferenced the NULL scope of a list  *)
(*          of statements that is not a compound statement                 *)
(* The context c holds the scope on top of _staticChain and the loops and  *)
(* switches entered (_loopContext), innermost first.                       *)
(***************************************************************************)
EXTENDS ConstantPropagation, FrameLayout

Start(next) == [code |-> <<>>, next |-> next, temps |-> <<>>, op |-> Empty,
                ok |-> TRUE]

Emit(g, op, args) == [g EXCEPT !.code = Append(@, IL(op, args))]
EmitLabel(g, label) == Emit(g, "Label", <<label>>)
Result(g, o) == [g EXCEPT !.op = o]
WithType(o, iltype) == [o EXCEPT !.type = iltype]

(* GenerateTemp: a new symbol in the scope on top of the static chain.     *)
Temp(g, c, type) ==
  LET sym == TempSym(c.scope, g.next, type)
  IN [g EXCEPT !.next = @ + 1, !.temps = Append(@, sym),
               !.op = Variable(sym, ILTypeOf(type)),
               !.ok = @ /\ c.scope # 0]

-----------------------------------------------------------------------------
(* Expressions                                                             *)

RECURSIVE Gen(_, _, _)

After(n, c, g) == Gen(n, c, g)      \* the state after node n

(* Nodes visited one after the other, and the operands they leave.         *)
Visits(list, c, g) ==
  FoldLeft(LAMBDA acc, e : LET h == After(e, c, acc.g)
                           IN [g |-> h, ops |-> Append(acc.ops, h.op)],
           [g |-> g, ops |-> <<>>], list)

(* The operands' types are overwritten: with the type of the result for    *)
(* arithmetic, with that of the left operand for a comparison.             *)
GenBinary(e, c, g) ==
  LET of == Visits(<<e.left, e.right>>, c, g)
      t == Temp(of.g, c, e.type)
      type == IF e.action \in Comparison THEN ILTypeOf(e.left.type)
              ELSE ILTypeOf(e.type)
      result == IF e.action \in Comparison THEN "I" ELSE type
  IN Result(Emit(t, e.action, <<WithType(t.op, result), WithType(of.ops[1], type),
                                WithType(of.ops[2], type)>>),
            WithType(t.op, result))

(* The address of an element takes no load of the element.                 *)
GenElement(e, c, g, op, type, first) ==
  LET start == IF first THEN Temp(g, c, type) ELSE g
      of == Visits(<<e.of, e.index>>, c, start)
      t == IF first THEN Result(of.g, start.op) ELSE Temp(of.g, c, type)
  IN Result(Emit(t, op, <<t.op>> \o of.ops), t.op)

(* & is applied to variables and elements here.  A unary plus sets no      *)
(* operand: its tag is the empty one.                                      *)
GenUnary(e, c, g) ==
  LET x == After(e.of, c, g)
      t == Temp(x, c, e.type)
      One(op, o) == Result(Emit(t, op, <<t.op, o>>), t.op)
  IN CASE e.action = "Reference" /\ e.of.kind = "index" ->
            GenElement(e.of, c, g, "Ldelema", e.type, TRUE)
       [] e.action = "Plus" -> Result(x, Empty)
       [] e.action = "Minus" -> One("Neg", x.op)
       [] e.action = "Reference" -> One("Lda", x.op)
       [] e.action = "Dereference" -> One("Ldind", x.op)

(* Types that are one IL type need no instruction.                         *)
GenConvert(e, c, g) ==
  LET x == After(e.of, c, g)
      t == Temp(x, c, e.to)
  IN IF ILTypeOf(e.of.type) = ILTypeOf(e.to) THEN x
     ELSE Result(Emit(t, "Conv", <<t.op, x.op>>), t.op)


GenCall(e, c, g) ==
  LET result == IF e.type = "void" THEN Result(g, Empty) ELSE Temp(g, c, e.type)
      args == Visits(e.args, c, result)
  IN Result(Emit(args.g, "Call",
                 <<Variable(FunctionSym(e.f), "I"), result.op>> \o args.ops),
            result.op)

-----------------------------------------------------------------------------
(* Statements                                                              *)

(* The source first, then what the target needs.                           *)
GenAssign(s, c, g) ==
  LET needs == CASE s.target.kind = "var" -> <<>>
                 [] s.target.kind = "index" -> <<s.target.of, s.target.index>>
                 [] s.target.kind = "unary" -> <<s.target.of>>
      x == Visits(<<s.source>> \o needs, c, g)
      target == IF needs = <<>>
                THEN <<Variable(s.target.sym, ILTypeOf(s.target.type))>>
                ELSE Tail(x.ops)
  IN Emit(x.g, <<"Mov", "Stind", "Stelem">>[1 + Len(needs)],
          Append(target, x.ops[1]))

GenBlock(s, c, g) ==
  FoldLeft(LAMBDA h, stmt : After(stmt, [c EXCEPT !.scope = s.id], h), g, s.body)

(* if: the false branch comes first, the true one after its label.         *)
GenIf(s, c, g) ==
  LET b == Temp(g, c, "label")
      x == After(s.cond, c, b)
      t == Temp(x, c, "label")
      false == After(s.else, c, Emit(t, "BrNz", <<x.op, t.op>>))
      true == After(s.then, c, EmitLabel(Emit(false, "Br", <<b.op>>), t.op))
  IN EmitLabel(true, b.op)

(* switch: the comparisons of every case, the branch to the default, then  *)
(* the bodies one after the other and the default's last.  The cases come  *)
(* in the order the code's map gives them (see README).                    *)
GenSwitch(s, c, g) ==
  LET b == Temp(g, c, "label")
      inside == [c EXCEPT !.breaks = <<b.op>> \o @, !.conts = <<Empty>> \o @]
      Test(acc, cond) == LET t == Temp(acc.g, c, "label")
                             x == After(cond, c, t)
                         IN [g |-> Emit(x, "BrNz", <<x.op, t.op>>),
                             labels |-> Append(acc.labels, t.op)]
      tests == FoldLeft(Test, [g |-> b, labels |-> <<>>], s.conds)
      d == Temp(tests.g, c, "label")
      Case(h, i) == After(s.bodies[i], inside, EmitLabel(h, tests.labels[i]))
      cases == FoldLeft(Case, Emit(d, "Br", <<d.op>>),
                        [i \in DOMAIN s.bodies |-> i])
  IN EmitLabel(After(s.default, inside, EmitLabel(cases, d.op)), b.op)

(* The third part of a for loop.                                           *)
NoIncrement(s, c, g) == g  \* mutant: it is left out
Increment(s, c, g) == After(s.incr, c, g)

(* A loop makes three labels; what `continue' finds is the break label.    *)
GenLoop(s, c, g) ==
  LET start == Temp(g, c, "label")
      cont == Temp(start, c, "label")
      break == Temp(cont, c, "label")
      inside == [c EXCEPT !.breaks = <<break.op>> \o @,
                          !.conts = <<break.op>> \o @]
      top == EmitLabel(After(s.init, inside, break), start.op)
      Test(h, op, label) == LET x == After(s.cond, inside, h)
                            IN Emit(x, op, <<x.op, label>>)
      tested == IF s.after THEN top ELSE Test(top, "BrZ", break.op)
      stepped == Increment(s, inside,
                           EmitLabel(After(s.body, inside, tested), cont.op))
      back == IF s.after THEN Test(stepped, "BrNz", start.op)
              ELSE Emit(stepped, "Br", <<start.op>>)
  IN EmitLabel(back, break.op)

GenJump(s, c, g) ==
  Emit(g, "Br", <<Head(IF s.to = "break" THEN c.breaks ELSE c.conts)>>)

(* A label is a symbol of the root scope, whatever function it is in.      *)
LabelSym(name) == Sym("global", 0, name, "label")

GenReturn(s, c, g) ==
  IF s.value = <<>> THEN Emit(g, "Ret", <<>>)
  ELSE LET x == Visits(s.value, c, g) IN Emit(x.g, "Ret", x.ops)

-----------------------------------------------------------------------------
(* runner f(args) using ranges watching ranges                             *)

(* Inline assembly: "mov $value, address", of the address of __newr0, and  *)
(* "newr a, b, c, d".                                                      *)
Word0(n) == Constant(n, "I")
AsmMov(g, value, address) == Emit(g, "AsmMov", <<Word0(value), Word0(address)>>)
AsmMovNewr0(g, address) == Emit(g, "AsmMovNewr0", <<Word0(address)>>)
AsmNewr(g, addresses) ==
  Emit(g, "AsmNewr", [i \in DOMAIN addresses |-> Word0(addresses[i])])

(* Base and size of a range, into two temporaries.                         *)
RangeCode(e, start, size, at0) ==
  LET g == at0.g
      ops == at0.ops
      Element == Word0(SizeOf(ElementType(e.of.type)))
      Base == Emit(g, "Ldelema", <<start, ops[1], ops[2]>>)
  IN CASE e.kind = "segment" ->
            Emit(Emit(Base, "Sub", <<size, ops[3], ops[2]>>),
                 "Mul", <<size, Element, size>>)
       [] e.kind = "index" -> Emit(Base, "Mov", <<size, Element>>)
       [] e.kind = "var" -> Emit(Emit(g, "Lda", <<start, ops[1]>>),
                                 "Mov", <<size, Word0(SizeOf(e.sym.type))>>)
Needed(e) == CASE e.kind = "segment" -> <<e.of, e.start, e.end>>
               [] e.kind = "index" -> <<e.of, e.index>>
               [] e.kind = "var" -> <<e>>
GenRange(e, c, g, place) ==
  LET start == Temp(g, c, "pvoid")
      size == Temp(start, c, "pvoid")
      code == RangeCode(e, start.op, size.op, Visits(Needed(e), c, size))
  IN Emit(Emit(code, "Stind", <<Word0(place), start.op>>),
          "Stind", <<Word0(place + W), size.op>>)

(* A number of ranges and the ranges, from address p on.                   *)
GenRanges(ranges, c, g, p) ==
  FoldLeft(LAMBDA h, i : GenRange(ranges[i], c, h, p + W + 2 * W * (i - 1)),
           AsmMov(g, Len(ranges), p), [i \in DOMAIN ranges |-> i])

(* Step 1 and 2: the metadata are filled in and newr is done.              *)
GenNewr(s, c, g) ==
  LET heap == NewrMetadata + 2 * W
      watch == heap + W + 2 * W * Len(s.using)
      fi == watch + W + 2 * W * Len(s.watching)
      newr == fi + W
      stack == AsmMov(AsmMov(g, 0, NewrMetadata), 0, NewrMetadata + W)
      ranges == GenRanges(s.watching, c, GenRanges(s.using, c, stack, heap), watch)
      Pointer(h, i) == AsmMov(h, <<NewrMetadata, heap, watch, fi>>[i],
                              newr + W * (i - 1))
  IN AsmNewr(FoldLeft(Pointer, AsmMovNewr0(ranges, fi), <<1, 2, 3, 4>>),
             [i \in 1 .. 4 |-> newr + W * (i - 1)])

(* Step 3 and 4: the target's address, the size of the arguments and the   *)
(* arguments, the last one first, go down from the end of the stack newr   *)
(* has made.                                                               *)
Words0(type) == RoundUp(SizeOf(type), W)
Push(g, cursor, size, o) ==
  Emit(Emit(g, "Sub", <<cursor, cursor, Constant(size, "I8")>>),
       "Stind", <<cursor, o>>)
GenArguments(s, c, g, sb, ss, cursor) ==
  LET Size == FoldLeft(LAMBDA n, a : n + Words0(a.type), 0, s.args)
      found == Emit(Emit(Emit(g, "Ldind", <<sb, Word0(NewStack)>>),
                         "Ldind", <<ss, Word0(NewStack + W)>>),
                    "Add", <<cursor, sb, ss>>)
      target == Temp(found, c, "pvoid")
      address == Emit(target, "Lda", <<target.op, Variable(FunctionSym(s.f), "I")>>)
      pushed == Push(Push(address, cursor, W, target.op), cursor, W,
                     Constant(RoundUp(Size, W), "I8"))
  IN FoldRight(LAMBDA a, h : LET x == Visits(<<a>>, c, h)
                             IN Push(x.g, cursor, Words0(a.type), x.ops[1]),
               s.args, pushed)

GenRunner(s, c, g) ==
  LET sb == Temp(g, c, "pvoid")
      ss == Temp(sb, c, "pvoid")
      cursor == Temp(ss, c, "pvoid")
  IN GenArguments(s, c, GenNewr(s, c, cursor), sb.op, ss.op, cursor.op)

-----------------------------------------------------------------------------

Gen(n, c, g) ==
  CASE ~g.ok -> g
    [] n.kind = "var" -> Result(g, Variable(n.sym, ILTypeOf(n.type)))
    [] n.kind = "const" -> Result(g, Constant(n.value, ILTypeOf(n.type)))
    [] n.kind = "binary" -> GenBinary(n, c, g)
    [] n.kind = "unary" -> GenUnary(n, c, g)
    [] n.kind = "convert" -> GenConvert(n, c, g)
    [] n.kind = "index" -> GenElement(n, c, g, "Ldelem", n.type, FALSE)
    [] n.kind = "call" -> GenCall(n, c, g)
    [] n.kind = "assign" -> GenAssign(n, c, g)
    [] n.kind = "block" -> GenBlock(n, c, g)
    [] n.kind = "if" -> GenIf(n, c, g)
    [] n.kind = "switch" -> GenSwitch(n, c, g)
    [] n.kind = "loop" -> GenLoop(n, c, g)
    [] n.kind = "jump" -> GenJump(n, c, g)
    [] n.kind = "goto" ->
         Emit(g, "Br", <<WithType(Variable(LabelSym(n.name), "I"), "Void")>>)
    [] n.kind = "label" -> EmitLabel(g, Variable(LabelSym(n.name), "I"))
    [] n.kind = "return" -> GenReturn(n, c, g)
    [] n.kind = "commit" -> Emit(g, "Exit", <<>>)
    [] n.kind = "runner" -> GenRunner(n, c, g)

-----------------------------------------------------------------------------
(* Functions and programs                                                  *)

Outside == [scope |-> 0, breaks |-> <<>>, conts |-> <<>>]

(* _tempId goes on from one function to the next.                          *)
With(program, g) == [next |-> g.next, bodies |-> Append(program.bodies, g.code),
                     temps |-> program.temps \o g.temps, ok |-> program.ok /\ g.ok]
GenProgram(prog) ==
  FoldLeft(LAMBDA acc, f : With(acc, Gen(f.body, Outside, Start(acc.next))),
           [next |-> 0, bodies |-> <<>>, temps |-> <<>>, ok |-> TRUE],
           DeduceProgram(PropagateProgram(prog)).functions)
=============================================================================
