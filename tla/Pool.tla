-------------------------------- MODULE Pool --------------------------------
(***************************************************************************)
(* A pool of source programs: every pair of the statements below, between  *)
(* a prelude that initializes the runner's variables and an epilogue that  *)
(* stores them in the globals.                                             *)
(***************************************************************************)
EXTENDS TypedTree

gc == Sym("global", 0, "gc", "char")
gd == Sym("global", 0, "gd", "char")
gl == Sym("global", 0, "gl", "long")
n == Sym("function", 1, "n", "long")
c == Sym("function", 1, "c", "char")
k == Sym("block", 1, "k", "char")
q == Sym("block", 1, "q", "pchar")
r == Sym("block", 1, "r", "plong")
v == Sym("block", 1, "v", "long")
x == Sym("block", 1, "x", "long")
y == Sym("block", 1, "y", "long")

Add(a, b) == Bin("Add", a, b)
Lt(a, b) == Bin("CompLt", a, b)
Set(sym, e) == Assign(Var(sym), e)
Deref(sym) == Un("Dereference", Var(sym))
Ref(sym) == Un("Reference", Var(sym))

(* long f(long a, long b): the larger of a + 1 and b, by two returns.      *)
fa == Sym("function", 2, "a", "long")
fb == Sym("function", 2, "b", "long")
f2 == [ret |-> "long", params |-> <<fa, fb>>,
       body |-> Block(20, <<>>,
         <<Set(fa, Add(Var(fa), Num(1))),
           If(Bin("CompGe", Var(fa), Var(fb)), Return(<<Var(fa)>>),
              List(<<>>)),
           Return(<<Var(fb)>>)>>)]

(* long sum(long m): m + (m - 1) + ... by recursion.                       *)
m == Sym("function", 3, "m", "long")
f3 == [ret |-> "long", params |-> <<m>>,
       body |-> Block(30, <<>>,
         <<If(Lt(Var(m), Num(1)), Return(<<Num(0)>>), List(<<>>)),
           Return(<<Add(Var(m), Call(3, <<Bin("Sub", Var(m), Num(1))>>))>>)>>)]

(* void note(char d): gd = d                                               *)
d4 == Sym("function", 4, "d", "char")
f4 == [ret |-> "void", params |-> <<d4>>,
       body |-> Block(40, <<>>, <<Set(gd, Var(d4)), Return(<<>>)>>)]

z == Sym("block", 2, "z", "long")
w == Sym("block", 3, "w", "char")
u == Sym("block", 4, "u", "long")

Statements == <<
  Set(x, Add(Var(x), Var(y))),
  Set(k, Convert("char", Add(Var(k), Var(x)))),
  If(Lt(Var(x), Var(y)), Set(x, Num(1)),
     Block(2, <<z>>, <<Set(z, Bin("Mul", Var(x), Num(2))), Set(y, Var(z)),
                       Block(3, <<w>>, <<Set(w, Var(k)), Set(k, Var(w))>>),
                       Block(4, <<u>>, <<Set(u, Var(z)), Set(x, Var(u))>>)>>)),
  While(Lt(Var(y), Num(3)),
    Block(5, <<>>, <<Set(y, Add(Var(y), Num(1))),
                     If(Bin("CompEq", Var(y), Var(x)), Jump("break"), List(<<>>)),
                     Set(x, Add(Var(x), Num(1)))>>)),
  Set(x, Call(2, <<Var(x), Call(2, <<Var(y), Num(1)>>)>>)),
  Set(y, Add(Call(3, <<Num(2)>>), Var(x))),
  Call(4, <<Var(k)>>),
  Block(6, <<>>, <<Set(q, Ref(gc)), Assign(Deref(q), Var(k)),
                   Set(k, Convert("char", Add(Deref(q), Num(1))))>>),
  Block(7, <<>>, <<Set(r, Ref(gl)), Assign(Deref(r), Add(Var(x), Var(y))),
                   Set(x, Deref(r))>>),
  Switch(Var(x), <<Num(1), Num(3)>>,
         <<List(<<Set(y, Num(2))>>),
           List(<<Set(y, Num(5)), Jump("break")>>)>>, List(<<Set(y, Num(7))>>)),
  DoWhile(Set(x, Bin("Sub", Var(x), Num(1))), Bin("CompGt", Var(x), Num(0))),
  For(Set(y, Num(0)), Bin("CompLe", Var(y), Num(1)),
      Set(y, Add(Var(y), Num(1))), Set(x, Add(Var(x), Var(y)))),
  Set(x, Un("Minus", Add(Var(x), Num(1)))),
  If(Lt(Var(k), Var(c)), Set(k, Var(c)), Set(c, Var(k))),
  If(Bin("CompNe", Add(Var(x), Var(y)), Bin("Mul", Var(x), Num(2))),
     Set(x, Var(n)), Set(y, Var(n))),
  Block(8, <<>>, <<Set(v, Add(Var(x), Var(y))), Set(x, Var(v)), Set(y, Var(x))>>)
>>

Runner(list) ==
  [ret |-> "void", params |-> <<n, c>>,
   body |-> Block(1, <<k, q, r, v, x, y>>,
              <<Set(x, Var(n)), Set(y, Num(1)), Set(k, Var(c))>> \o list
              \o <<Set(gl, Add(Var(x), Var(y))), Set(gc, Var(k)), Commit>>)]
Source(list) == [globals |-> <<gc, gd, gl>>,
                 functions |-> <<Runner(list), f2, f3, f4>>]

Pairs(list) == {Source(<<a, b>>) : a, b \in ToSet(list)}
(* Five more: a `continue' that is in no loop, a second return, a jump over *)
(* the end of a loop's body (two labels cannot have one name), and constant *)
(* expressions in every place an expression may have.                      *)
Others == {Source(<<Switch(Var(x), <<Num(1)>>, <<List(<<Jump("continue")>>)>>,
                           List(<<>>))>>),
           Source(<<Return(<<>>)>>),
           Source(<<While(Lt(Var(y), Num(4)),
             Block(9, <<>>, <<Set(y, Add(Var(y), Num(1))),
                              If(Bin("CompEq", Var(y), Num(3)), Goto("L"),
                                 List(<<>>)),
                              Set(x, Add(Var(x), Var(y))),
                              Labelled("L")>>))>>),
           Source(<<Set(x, Add(Bin("Mul", Num(2), Num(3)), Var(y))),
                    Set(k, Add(Chr(60), Un("Minus", Bin("Sub", Chr(7), Num(2))))),
                    If(Lt(Convert("long", Chr(2)), Add(Num(1), Num(1))),
                       Set(x, Num(9)),
                       Set(y, Call(2, <<Add(Num(1), Num(1)), Var(x)>>)))>>),
           Source(<<While(Lt(Var(y), Add(Num(2), Num(2))),
                          Set(y, Bin("Sub", Var(y), Bin("Sub", Num(1), Num(2))))),
                    Switch(Var(x), <<Bin("Sub", Num(4), Num(1)), Num(0)>>,
                           <<List(<<Set(k, Convert("char", Num(65)))>>),
                             List(<<Jump("break")>>)>>,
                           List(<<Set(y, Add(Var(y), Num(0)))>>))>>)}
-----------------------------------------------------------------------------
(* Arrays and runners.  These programs have two arrays among their globals *)
(* and keep y in 0 .. 2, an index of an array.                             *)
gs == Sym("global", 0, "gs", "chars")
gt == Sym("global", 0, "gt", "longs")
s == Sym("block", 10, "s", "chars")
t == Sym("block", 10, "t", "longs")
ix == Sym("block", 10, "i", "long")

At0(sym, e) == Index(Var(sym), e)
SetAt(sym, e, value) == Assign(At0(sym, e), value)

(* void put(long a, long b, char d): a runner.                             *)
(*   { gs[a] = d; gt[a] = b; gl = gl * 2 + gt[a]; commit; }                *)
a5 == Sym("function", 5, "a", "long")
b5 == Sym("function", 5, "b", "long")
d5 == Sym("function", 5, "d", "char")
f5 == [ret |-> "void", params |-> <<a5, b5, d5>>,
       body |-> Block(50, <<>>,
         <<SetAt(gs, Var(a5), Var(d5)), SetAt(gt, Var(a5), Var(b5)),
           Set(gl, Add(Bin("Mul", Var(gl), Num(2)), At0(gt, Var(a5)))), Commit>>)]

ArrayStatements == <<
  Block(9, <<>>, <<SetAt(gs, Var(y), Var(k)), SetAt(gt, Num(2), Add(Var(x), Var(y))),
                   Set(x, Add(At0(gt, Num(2)), At0(gt, Var(y))))>>),
  Block(10, <<s, t, ix>>,
    <<For(Set(ix, Num(0)), Lt(Var(ix), Num(3)), Set(ix, Add(Var(ix), Num(1))),
          Block(11, <<>>, <<SetAt(s, Var(ix), Var(k)), SetAt(t, Var(ix), Var(ix))>>)),
      SetAt(s, Var(y), Var(c)), Set(k, At0(s, Num(1))),
      Set(x, At0(t, Var(y)))>>),
  Block(12, <<>>, <<Set(q, Var(gs)), SetAt(q, Var(y), Var(k)),
                    Set(r, Un("Reference", At0(gt, Var(y)))), Assign(Deref(r), Var(x)),
                    Set(q, Un("Reference", At0(q, Num(1)))),
                    Set(k, At0(q, Num(0)))>>),
  NewRunner(5, <<Var(y), Var(x), Var(k)>>,
            <<Segment(Var(gs), Num(0), Num(3)), Var(gt), Var(gl)>>, <<>>),
  Block(13, <<>>,
    <<Set(q, Var(gs)),
      NewRunner(5, <<Bin("Sub", Num(2), Var(y)), Call(2, <<Var(x), Num(1)>>), Chr(7)>>,
                <<Segment(Var(q), Var(y), Num(3)), At0(gt, Bin("Sub", Num(2), Var(y))),
                  Var(gl)>>, <<>>)>>),
  NewRunner(5, <<Num(0), Var(y), Var(c)>>, <<Var(gs)>>,
            <<At0(gs, Var(y)), Segment(Var(gt), Var(y), Add(Var(y), Num(1)))>>),
  If(Lt(Var(x), Num(2)), Set(y, Num(2)), Set(y, Num(0))),
  Set(x, Add(Var(x), Var(y))),
  If(Lt(Var(k), Var(c)), Set(k, Var(c)), Set(c, Var(k)))
>>
ArraySource(list) ==
  [Source(list) EXCEPT !.globals = <<gc, gd, gl, gs, gt>>,
                       !.functions = Append(@, f5)]
ArraySources == {ArraySource(<<a, b>>) :
                   a \in ToSet(ArrayStatements),
                   b \in ToSet(SubSeq(ArrayStatements, 1, 6))}

ArrayTriples == {ArraySource(SubSeq(ArrayStatements, i, i + 2)) : i \in {1, 4}}

PoolSources == Pairs(Statements) \cup Others \cup ArraySources
=============================================================================
