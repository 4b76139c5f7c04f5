---------------------------- MODULE MC_Cc0Cases ----------------------------
(***************************************************************************)
(* Programs of the documented language that the compiler does not compile  *)
(* to what they mean, one construct each.                                  *)
(***************************************************************************)
EXTENDS Cc0, Pool

CaseInputs == {<<0, 1>>, <<0, -2>>}
CaseFills == {0, 90}

(* for (y = 0; y < 3; y = y + 1) { if (y == 1) continue; x = x + 1; }      *)
ContinueSources ==
  {Source(<<For(Set(y, Num(0)), Lt(Var(y), Num(3)), Set(y, Add(Var(y), Num(1))),
      Block(9, <<>>, <<If(Bin("CompEq", Var(y), Num(1)), Jump("continue"), List(<<>>)),
                       Set(x, Add(Var(x), Num(1)))>>))>>)}

(* q = &gd; v = x - n; x = v; q = q + v; *q = 65;                          *)
PointerSources ==
  {Source(<<Set(q, Ref(gd)), Set(v, Bin("Sub", Var(x), Var(n))), Set(x, Var(v)),
            Set(q, Add(Var(q), Var(v))), Assign(Deref(q), Chr(65))>>)}

(* void second(char d, char e) { gd = e; }  second(c, k);                  *)
d6 == Sym("function", 6, "d", "char")
e6 == Sym("function", 6, "e", "char")
f6 == [ret |-> "void", params |-> <<d6, e6>>,
       body |-> Block(60, <<>>, <<Set(gd, Var(e6)), Return(<<>>)>>)]
ParameterSources == {[Source(<<Call(5, <<Var(c), Var(k)>>)>>)
                        EXCEPT !.functions = Append(@, f6)]}

-----------------------------------------------------------------------------

(* When a function is entered, each parameter is where the caller put the  *)
(* argument: in the i-th word above the space for the result.              *)
ArgumentsMeet == phase = "run" /\ pc # 0 /\ Op = "Enter" =>
  LET f == src.functions[Arg(1).temp]
      first == sp + W + RoundUp(SizeOf(f.ret), W)
  IN \A i \in DOMAIN f.params :
       (sp - W) + image.where[Key(f.params[i])] = first + W * (i - 1)
=============================================================================
