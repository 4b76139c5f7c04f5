---------------------------- MODULE MC_Assembly ----------------------------
(***************************************************************************)
(* Assembly on one program for every statement of the pool, and on one      *)
(* that uses a local array as a value, for both targets, with and without  *)
(* the definition of function 4.                                           *)
(***************************************************************************)
EXTENDS Assembly, Pool

(* long second(long *p) { return p[1]; }                                   *)
(* long *own() { long t[3]; return t; }                                    *)
(* long same(long a) { return +a; }         which returns nothing          *)
(* { long t[3]; t[1] = x; r = t; y = *r; x = second(t) + same(y);          *)
(*   r = own(); }                                                          *)
p5 == Sym("function", 5, "p", "plong")
a7 == Sym("function", 7, "a", "long")
t6 == Sym("block", 60, "t", "longs")
t9 == Sym("block", 90, "t", "longs")
LocalArrays ==
  [Source(<<Block(90, <<t9>>,
     <<SetAt(t9, Num(1), Var(x)), Set(r, Var(t9)), Set(y, Deref(r)),
       Set(x, Add(Call(5, <<Var(t9)>>), Call(7, <<Var(y)>>))),
       Set(r, Call(6, <<>>))>>)>>)
    EXCEPT !.functions = @ \o
      << [ret |-> "long", params |-> <<p5>>,
          body |-> Block(50, <<>>, <<Return(<<At0(p5, Num(1))>>)>>)],
         [ret |-> "plong", params |-> <<>>,
          body |-> Block(60, <<t6>>, <<Return(<<Var(t6)>>)>>)],
         [ret |-> "long", params |-> <<a7>>,
          body |-> Block(70, <<>>, <<Return(<<Un("Plus", Var(a7))>>)>>)] >>]

MCSources == {Source(<<stmt>>) : stmt \in ToSet(Statements)} \cup Others
               \cup ArrayTriples \cup {LocalArrays}
MCAbsent == {{}, {4}}
MCInputs == {<<3, -2>>}
MCFills == {90}

(* long small(char d) { if (d < 'x') return 1; return 0; }  x = small(c);  *)
d7 == Sym("function", 5, "d", "char")
f7 == [ret |-> "long", params |-> <<d7>>,
       body |-> Block(50, <<>>,
         <<If(Lt(Var(d7), Chr(120)), Return(<<Num(1)>>), List(<<>>)),
           Return(<<Num(0)>>)>>)]
ShortSources == {[Source(<<Set(x, Call(5, <<Var(c)>>))>>)
                    EXCEPT !.functions = Append(@, f7)]}
NoneAbsent == {{}}
=============================================================================
