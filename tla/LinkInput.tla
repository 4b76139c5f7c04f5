------------------------------ MODULE LinkInput ------------------------------
(***************************************************************************)
(* The object files ld0 reads, and what it promises to make of them.       *)
(*                                                                         *)
(* An object file is the serialised pair (CodeDom, ILProgram) cc0 -c wrote *)
(* (core/Serialization/ObjFormat.h).  Of the ILProgram the linker looks at *)
(* the symbol table of the file's global scope and, for each function, at  *)
(* the SymbolRefs of its IL operands.  Operands that name a local are      *)
(* left out: their scope is never the global one and no step reads them.   *)
(***************************************************************************)
EXTENDS Integers, Sequences, Functions

CONSTANTS
  Names,     \* the global names of the program
  Main,      \* the name "main"
  Types,     \* the types of declarations, up to Type::Equals
  Function,  \* FunctionType, one of Types: every prototype has this type
  Specs,     \* the values of Type::TypeSpecifier
  Sizes,     \* the sizes Type::GetSize returns
  Inputs     \* the lists of object files of the command lines considered

\* Symbol (core/Symbol/Symbol.h).  "type" symbols are the tags of structs and
\* unions.  size is the size in bytes: ArrayType::Equals compares element types
\* only, so two arrays of one type may differ in it.  defn tells whether this
\* is the Symbol a function definition of the file made, FunctionSymbol.
Decl == [kind : {"object", "type"}, type : Types, spec : Specs,
         size : Sizes, defn : BOOLEAN]

\* ILFunction: its name and the global names its operands refer to, in order.
Def == [name : Names, refs : Seq(Names)]

\* What cc0 -c can write.  A name is entered in the table before it is used,
\* and the table holds the last Symbol added under a name.
IsObjectFile(x) ==
  /\ x = [syms |-> x.syms, defs |-> x.defs]
  /\ x.syms = [n \in DOMAIN x.syms |-> x.syms[n]]
  /\ DOMAIN x.syms \subseteq Names
  /\ \A n \in DOMAIN x.syms : x.syms[n] \in Decl
  /\ x.defs \in Seq(Def)
  /\ \A i \in DOMAIN x.defs :
       /\ x.defs[i].name \in DOMAIN x.syms
       /\ x.syms[x.defs[i].name].type = Function
       /\ x.syms[x.defs[i].name].kind = "object"
       /\ \A j \in DOMAIN x.defs[i].refs :
            /\ x.defs[i].refs[j] \in DOMAIN x.syms
            /\ x.syms[x.defs[i].refs[j]].kind = "object"
  /\ \A n \in DOMAIN x.syms :
       x.syms[n].defn => \E i \in DOMAIN x.defs : x.defs[i].name = n

ASSUME NamesAssumption == Main \in Names /\ Function \in Types

ASSUME InputsAssumption ==
  \A in \in Inputs :
    /\ in = [o \in 1..Len(in) |-> in[o]]
    /\ Len(in) \in Nat \ {0}
    /\ \A o \in 1..Len(in) : IsObjectFile(in[o])

-----------------------------------------------------------------------------
(***************************************************************************)
(* What a list of object files means, independently of the order in which  *)
(* ld0 works.                                                              *)
(***************************************************************************)
Holders(in, n) == {o \in 1..Len(in) : n \in DOMAIN in[o].syms}

Defined(in) == {n \in Names : \E o \in 1..Len(in) :
                                \E i \in DOMAIN in[o].defs : in[o].defs[i].name = n}

\* Two definitions of one function, in one file or in two.
Redefined(in) ==
  \E o, p \in 1..Len(in) :
    \E i \in DOMAIN in[o].defs, j \in DOMAIN in[p].defs :
      <<o, i>> # <<p, j>> /\ in[o].defs[i].name = in[p].defs[j].name

\* The test check_merge_symbol makes of the symbols with one name, front first.
MergeableByType(in, n, front) ==  \* mutant: specifiers are not compared
  /\ in[front].syms[n].type # Function
  /\ \A o \in Holders(in, n) :
       /\ in[o].syms[n].kind = "object"
       /\ in[o].syms[n].type = in[front].syms[n].type
Mergeable(in, n, front) ==
  /\ in[front].syms[n].type # Function
  /\ \A o \in Holders(in, n) :
       /\ in[o].syms[n].kind = "object"
       /\ in[o].syms[n].type = in[front].syms[n].type
       /\ in[o].syms[n].spec = in[front].syms[n].spec

\* A program ld0 accepts: no function is defined twice, every name that no
\* file defines as a function is declared alike wherever it is declared, as
\* something other than a function, and there is a function main.
Linkable(in) ==
  /\ ~ Redefined(in)
  /\ \A n \in Names \ Defined(in) :
       \A o \in Holders(in, n) : Mergeable(in, n, o)
  /\ Main \in Defined(in)

\* A set of names closed under "a function refers to".
Closed(in, S) ==
  \A o \in 1..Len(in) : \A i \in DOMAIN in[o].defs :
    in[o].defs[i].name \in S =>
      \A j \in DOMAIN in[o].defs[i].refs : in[o].defs[i].refs[j] \in S

\* The names a run of the program can need: the least closed set with main.
Reachable(in) ==
  {n \in Names : \A S \in SUBSET Names : Main \in S /\ Closed(in, S) => n \in S}
=============================================================================
