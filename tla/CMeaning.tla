------------------------------ MODULE CMeaning ------------------------------
(***************************************************************************)
(* What a C0 program means, from its source: the reference that compiled   *)
(* programs are compared with.  It takes nothing from the compiler's       *)
(* passes but the sizes of the types and where the globals are.            *)
(*                                                                         *)
(* A cell <<sym, i>> is a variable (i = 0) or an element of an array.  An   *)
(* evaluation state holds the value of every cell, the value computed last *)
(* with its type, what the last statement did ("next", "break",            *)
(* "continue", "return", "commit", or the label a goto looks for further   *)
(* on), how many more times a loop may be entered and the runners created. *)
(***************************************************************************)
EXTENDS TypedTree, FrameLayout

CONSTANT Fuel       \* bound: iterations a program of the pool may need

Pow(n) == LET f[i \in 0 .. n] == IF i = 0 THEN 1 ELSE 256 * f[i - 1] IN f[n]

(* The signed value that the bytes of a type hold of n.                    *)
Wrap(type, n) == LET range == Pow(SizeOf(type))
                     low == n % range
                 IN IF 2 * low >= range THEN low - range ELSE low

Arith(action, a, b) == CASE action = "Add" -> a + b
                         [] action = "Sub" -> a - b
                         [] action = "Mul" -> a * b
Holds(action, a, b) == CASE action = "CompLt" -> a < b
                         [] action = "CompLe" -> a <= b
                         [] action = "CompGt" -> a > b
                         [] action = "CompGe" -> a >= b
                         [] action = "CompEq" -> a = b
                         [] action = "CompNe" -> a # b
Truth(b) == IF b THEN 1 ELSE 0

Gives(st, value, type) == [st EXCEPT !.value = value, !.type = type]
Does(st, what) == [st EXCEPT !.status = what]

CellType(cell) == IF IsArray(cell[1].type) THEN ElementType(cell[1].type)
                  ELSE cell[1].type
CellsOf(sym) == IF IsArray(sym.type) THEN {sym} \X (0 .. ArrayLength - 1)
                ELSE {<<sym, 0>>}
Store(st, cell, v) == [st EXCEPT !.env = (cell :> Wrap(CellType(cell), v)) @@ @]
Read0(st, cell) == Gives(st, st.env[cell], CellType(cell))
(* The cell of a global at an address, and the address of a global.        *)
At(st, a) == CHOOSE cell \in DOMAIN st.globals : st.globals[cell] = a
AddressIn(st, sym) == st.globals[<<sym, 0>>]

RECURSIVE Eval(_, _, _)     \* an expression
RECURSIVE Cell(_, _, _)     \* the cell an expression names, as value
RECURSIVE Exec(_, _, _)     \* a statement
RECURSIVE Loop(_, _, _)     \* a loop that is about to test its condition

(* Both operands have been computed, the right one last.                   *)
Combined(action, l, r) ==
  LET type == IF IsPointer(l.type) THEN l.type ELSE Wider(l.type, r.type)
  IN IF action \in Comparison
     THEN Gives(r, Truth(Holds(action, l.value, r.value)), "bool")
     ELSE Gives(r, Wrap(type, Arith(action, l.value, r.value)), type)
EvalBinary(e, st, prog) ==
  LET Right(l) == Combined(e.action, l, Eval(e.right, l, prog))
  IN Right(Eval(e.left, st, prog))

ApplyUnary(action, x) ==
  CASE action = "Plus" -> x
    [] action = "Minus" -> Gives(x, Wrap(x.type, -x.value), x.type)
    [] action = "Dereference" -> Read0(x, At(x, x.value))
    [] action = "Reference" ->
         Gives(x, x.globals[x.value], PointerTo(CellType(x.value)))
EvalUnary(e, st, prog) ==
  ApplyUnary(e.action, IF e.action = "Reference" THEN Cell(e.of, st, prog)
                       ELSE Eval(e.of, st, prog))

(* A variable, what a pointer points at, or an element of an array or of   *)
(* what a pointer points at.                                               *)
Cell(e, st, prog) ==
  LET Names(x, cell) == Gives(x, cell, "void")
      Pointed(p) == Names(p, At(p, p.value))
      Of(p, i) == Names(i, At(i, p.value
                                + i.value * SizeOf(ElementType(p.type))))
      Element(p) == Of(p, Eval(e.index, p, prog))
      OfArray(i) == Names(i, <<e.of.sym, i.value>>)
  IN IF e.kind = "var" THEN Names(st, <<e.sym, 0>>)
     ELSE IF e.kind = "unary" THEN Pointed(Eval(e.of, st, prog))
     ELSE IF e.of.kind = "var" /\ IsArray(e.of.sym.type)
     THEN OfArray(Eval(e.index, st, prog))
     ELSE Element(Eval(e.of, st, prog))

(* The arguments are converted to the parameters' types and the result to  *)
(* the function's; the caller finds its own variables as they were.        *)
Returned(ret, before, out) ==
  LET kept == [cell \in DOMAIN before |->
                 IF cell[1].level = "global" THEN out.env[cell] ELSE before[cell]]
  IN [out EXCEPT !.env = kept, !.type = ret, !.status = "next",
                 !.value = IF ret = "void" THEN 0 ELSE Wrap(ret, @)]
EvalCall(e, st, prog) ==
  LET f == prog.functions[e.f]
      With(acc, i, x) == [st |-> x, in |-> (<<f.params[i], 0>> :>
                            Wrap(f.params[i].type, x.value)) @@ acc.in]
      Arg(acc, i) == With(acc, i, Eval(e.args[i], acc.st, prog))
      Run0(args) == Returned(f.ret, args.st.env,
                       Exec(f.body, [args.st EXCEPT !.env = args.in @@ @], prog))
  IN Run0(FoldLeft(Arg, [st |-> st, in |-> <<>>], [i \in DOMAIN e.args |-> i]))

Eval(e, st, prog) ==
  CASE e.kind = "var" /\ IsArray(e.sym.type) ->
         Gives(st, AddressIn(st, e.sym), e.sym.type)
    [] e.kind = "var" -> Read0(st, <<e.sym, 0>>)
    [] e.kind = "index" -> LET p == Cell(e, st, prog) IN Read0(p, p.value)
    [] e.kind = "const" -> Gives(st, Wrap(e.type, e.value), e.type)
    [] e.kind = "binary" -> EvalBinary(e, st, prog)
    [] e.kind = "unary" -> EvalUnary(e, st, prog)
    [] e.kind = "convert" -> LET x == Eval(e.of, st, prog)
                             IN Gives(x, Wrap(e.to, x.value), e.to)
    [] e.kind = "call" -> EvalCall(e, st, prog)

Loop(s, st, prog) ==
  LET Again(n) == IF n.status # "next" THEN n
                  ELSE Loop(s, [n EXCEPT !.fuel = @ - 1], prog)
      Stepped(b) == CASE b.status = "break" -> Does(b, "next")
                      [] b.status \in {"next", "continue"} ->
                           Again(Exec(s.incr, Does(b, "next"), prog))
                      [] OTHER -> Again(b)
      Tested(c) == IF c.value = 0 THEN c ELSE Stepped(Exec(s.body, c, prog))
  IN IF st.fuel = 0 THEN Does(st, "spin") ELSE Tested(Eval(s.cond, st, prog))

(* A do loop is its body once and then a while loop, but for a jump.       *)
ExecDo(s, st, prog) ==
  LET Once(b) == CASE b.status = "break" -> Does(b, "next")
                   [] b.status \in {"next", "continue"} ->
                        Loop(s, Does(b, "next"), prog)
                   [] OTHER -> b
  IN Once(Exec(s.body, st, prog))

(* From the first case that matches, every body to the end.                *)
ExecSwitch(s, st, prog) ==
  LET hit == {i \in DOMAIN s.conds : Eval(s.conds[i], st, prog).value = 1}
      From(first) == SubSeq(s.bodies, first, Len(s.bodies)) \o <<s.default>>
      First(S) == IF S = {} THEN Len(s.bodies) + 1
                  ELSE CHOOSE i \in S : \A j \in S : i <= j
      Left(out) == IF out.status = "break" THEN Does(out, "next") ELSE out
  IN Left(FoldLeft(LAMBDA t, b : Exec(b, t, prog), st, From(First(hit))))

ExecAssign(s, st, prog) ==
  LET To(target, x) == Store(target, target.value, x.value)
      Assign0(x) == To(Cell(s.target, x, prog), x)
  IN Assign0(Eval(s.source, st, prog))

(* The address and the size of a range.                                    *)
RangeOf(e, st, prog) ==
  LET Part(base, from, to) ==
        LET size == SizeOf(ElementType(base.type))
        IN <<base.value + size * from, size * (to - from)>>
      Element(base, i) == Part(base, i, i + 1)
      Value0(f) == Eval(f, st, prog).value
  IN CASE e.kind = "var" -> <<AddressIn(st, e.sym), SizeOf(e.sym.type)>>
       [] e.kind = "index" -> Element(Eval(e.of, st, prog), Value0(e.index))
       [] e.kind = "segment" ->
            Part(Eval(e.of, st, prog), Value0(e.start), Value0(e.end))

(* A runner is created; it runs when this one has ended.                   *)
ExecRunner(s, st, prog) ==
  LET f == prog.functions[s.f]
      Ranges(list) == [i \in DOMAIN list |-> RangeOf(list[i], st, prog)]
      args == [i \in DOMAIN s.args |->
                 Wrap(f.params[i].type, Eval(s.args[i], st, prog).value)]
  IN [st EXCEPT !.created = Append(@, [f |-> s.f, args |-> args,
                                       using |-> Ranges(s.using),
                                       watching |-> Ranges(s.watching)])]

Exec(s, st, prog) ==
  IF st.status # "next"
  THEN IF s = Labelled(st.status) THEN Does(st, "next") ELSE st
  ELSE CASE s.kind = "assign" -> ExecAssign(s, st, prog)
         [] s.kind = "block" ->
              FoldLeft(LAMBDA t, b : Exec(b, t, prog), st, s.body)
         [] s.kind = "if" ->
              LET Chosen(c) == Exec(IF c.value # 0 THEN s.then ELSE s.else,
                                    c, prog)
              IN Chosen(Eval(s.cond, st, prog))
         [] s.kind = "switch" -> ExecSwitch(s, st, prog)
         [] s.kind = "loop" ->
              LET First(i) == IF s.after THEN ExecDo(s, i, prog)
                              ELSE Loop(s, i, prog)
              IN First(Exec(s.init, st, prog))
         [] s.kind = "jump" -> Does(st, s.to)
         [] s.kind = "goto" -> Does(st, s.name)
         [] s.kind = "label" -> st
         [] s.kind = "return" ->
              Does(IF s.value = <<>> THEN st ELSE Eval(s.value[1], st, prog),
                   "return")
         [] s.kind = "commit" -> Does(st, "commit")
         [] s.kind = "runner" -> ExecRunner(s, st, prog)
         [] OTHER -> Eval(s, st, prog)

(* The state in which function f of a program ends that is started with    *)
(* the given arguments and finds the globals as another has left them.     *)
RunOf(prog, f, args, st) ==
  LET params == prog.functions[f].params
      in == [cell \in {<<params[i], 0>> : i \in DOMAIN params} |->
               LET i == CHOOSE j \in DOMAIN params : params[j] = cell[1]
               IN Wrap(cell[1].type, args[i])]
      globals == [cell \in DOMAIN st.globals |-> st.env[cell]]
  IN Exec(prog.functions[f].body,
          [st EXCEPT !.env = globals @@ in, !.status = "next", !.fuel = Fuel],
          prog)

(* The runner prog.functions[1] with the given arguments, the globals of   *)
(* the program holding 0: what it leaves and what it creates; and what is  *)
(* left when the runners created have run after it, in a given order.      *)
Initially(prog) ==
  LET address == GlobalAddress(prog.globals)
      PositionOf(sym) == CHOOSE i \in DOMAIN prog.globals : prog.globals[i] = sym
      globals == UNION {CellsOf(sym) : sym \in ToSet(prog.globals)}
  IN [env |-> [cell \in globals |-> 0], value |-> 0, type |-> "void",
      status |-> "next", fuel |-> Fuel, created |-> <<>>,
      globals |-> [cell \in globals |-> address[PositionOf(cell[1])]
                                        + cell[2] * SizeOf(CellType(cell))]]
Meaning(prog, args) == RunOf(prog, 1, args, Initially(prog))
MeaningOfAll(prog, args, order) ==
  LET Start0(st, r) == RunOf(prog, r.f, r.args, st)
      Finish(main) == FoldLeft(LAMBDA st, i : Start0(st, main.created[i]),
                               main, order)
  IN Finish(Meaning(prog, args))
=============================================================================
