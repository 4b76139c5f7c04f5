------------------------------ MODULE MC_Driver ------------------------------
(***************************************************************************)
(* Two builds in one directory tree, one of them killed once.     *)
(***************************************************************************)
EXTENDS Driver, TLC

MCWords == STRING

File(dir, base, ext) == [dir |-> dir, base |-> base, ext |-> <<ext>>]
A == File("", "a", ".c0")
B == File("", "b", ".c")
SubB == File("sub/", "b", ".c")
G == File("lib/", "g", ".c")
GObject == File("lib/", "g", ".o")
M == File("", "m", ".c0")
MCLibrary == File("/lib/", "libcrt", ".o")
P == File("", "p", ".bin")
Q == File("", "q", ".bin")

\* b0 is an older version of b, c the unit in sub/b.c, bad one with an error.
MCDefines == [a |-> {"main"}, m |-> {"main"}, b |-> {"f"}, b0 |-> {"f"},
              c |-> {"f", "h"}, g |-> {"f"}, bad |-> {"f"}, crt |-> {"exit"}]
MCUses == [a |-> {"f"}, m |-> {"f"}, b |-> {"exit"}, b0 |-> {}, c |-> {},
           g |-> {}, bad |-> {}, crt |-> {}]

\* A tree with b in b.c, and with objects and images of earlier builds.
Tree(b, left) ==
  left @@ (B :> Source(b)) @@ (A :> Source("a")) @@ (M :> Source("m"))
       @@ (SubB :> Source("c")) @@ (G :> Source("g"))
       @@ (MCLibrary :> Object("crt"))
Images  == P :> Image(<<"b0">>)
Objects == (GObject :> Object("g")) @@ (File("", "b", ".o") :> Object("b0"))
Halves  == (GObject :> Half) @@ (File("", "b", ".o") :> Half)
             @@ (File("", "a", ".o") :> Object("b0"))
MCTrees == {Tree("b", <<>>), Tree("b", Objects @@ Images), Tree("bad", Objects),
            Tree("b", Halves)}

Line(inputs, output) ==
  [inputs |-> inputs, output |-> output, compileOnly |-> FALSE]
Only(inputs, output) == [Line(inputs, output) EXCEPT !.compileOnly = TRUE]

First == {Line(<<A, B>>, P), Line(<<A, File("", "README", ".md"), B>>, Missing),
          Line(<<A, B, SubB>>, P), Line(<<A, B, File("", "b", ".o")>>, P),
          Line(<<A, GObject>>, P), Line(<<A>>, P), Line(<<>>, P),
          Line(<<File("", "n", ".c"), A>>, P), Line(<<A, File("", "b", ".o")>>, P),
          Only(<<A, B>>, Missing), Only(<<GObject>>, Missing), Only(<<B>>, Missing)}
Second == {Line(<<M, GObject>>, Q), Only(<<G>>, GObject)}

MCCommandLines == {1 :> f @@ 2 :> s : f \in First, s \in Second}
=============================================================================
