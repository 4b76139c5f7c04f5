--------------------------- MODULE AssemblerProofs ---------------------------
(***************************************************************************)
(* What is proved of ld0 from the IL of a program to the bytes of its file.*)
(*                                                                         *)
(* Of the optimizer, for every program: its state has its type             *)
(* (OptimizerTyped), OperandUsedTwice never rests on an instruction the    *)
(* pass has replaced (CountsAgree), and no pass loses or doubles a label   *)
(* or a branch (LabelsKept).  All three come from OptimizerInv, which also *)
(* compares the labels and branches of the copy with those of the body     *)
(* while a pass is under way.  The middle of the argument is that a        *)
(* rewriting only moves operands: a bijection takes the places of the old  *)
(* copy, but the two where the temporary was, to the places of the new one *)
(* (CountsFused, CountsForwarded).  That these two are the only uses of    *)
(* the temporary is what OperandUsedTwice said of the body, and what       *)
(* CountsFresh carries over to the copy (OnlyThere).                       *)
(*                                                                         *)
(* Of the generators and encoders, for every program that can be visited   *)
(* and either target: every name has an address in the code or in the data *)
(* (AddressesTyped), no placeholder is left (NamesResolved), the headers   *)
(* tell instructions apart (HeadersDiffer), and what Encode writes lies    *)
(* where the generator said and is as long as it said, but for an          *)
(* immediate of one byte outside of a conv (FileExact).  The argument: the *)
(* optimizer leaves a program that can be visited (CompilingStep); every   *)
(* Visit emits instructions of a few shapes (Emitted, VisitTyped); for     *)
(* these GetLength and Encode agree (HeaderLength, BytesAreLength) and a   *)
(* header can be read back (HeadersTell); instructions are emitted in a    *)
(* row (RowGrows), which resolving leaves (ResolveStep) and encoding       *)
(* follows (EncodeStep).                                                   *)
(*                                                                         *)
(* Of the layout of variables, for every tree of blocks: no two variables  *)
(* visible at the same place share a byte (GlobalsApart, ParametersApart,  *)
(* LocalsApart).  Of the addresses the generator patches after it has      *)
(* measured the code: the branches of a comparison and the returns of a    *)
(* call and of newr go where they should (LabelsOfComparison,              *)
(* ReturnsBehindCall, ReturnsBehindNewr).                                  *)
(***************************************************************************)
EXTENDS Assembler, SumProofs, SequenceTheorems, TLAPS

-----------------------------------------------------------------------------
(* Sequences of sequences, one after the other                             *)

Cat(a, b) == a \o b

\* What FlattenSeq makes of the first n of the sequences s, step by step.
Joins(f, s, n) == f = [i \in 1 .. n |-> IF i = 1 THEN s[i] ELSE Cat(f[i - 1], s[i])]
Joined(s, n) == CHOOSE f : Joins(f, s, n)
Flat(s, n) == FlattenSeq([i \in 1 .. n |-> s[i]])

\* The running concatenation that FlattenSeq chooses exists.
LEMMA JoinsExist ==
  ASSUME NEW s, NEW n \in Nat
  PROVE  \E f : Joins(f, s, n)
<1> DEFINE P == {m \in Nat : \E f : Joins(f, s, m)}
<1>1. 0 \in P
  <2>1. Joins([i \in 1 .. 0 |-> 0], s, 0)
    BY DEF Joins
  <2>2. QED
    BY <2>1
<1>2. ASSUME NEW m \in P PROVE m + 1 \in P
  <2>1. PICK f : Joins(f, s, m)
    OBVIOUS
  <2> DEFINE g == [i \in 1 .. (m + 1) |-> IF i = 1 THEN s[i] ELSE Cat(f[i - 1], s[i])]
  <2>2. \A i \in 1 .. m : g[i] = f[i]
    BY <2>1 DEF Joins
  <2>3. \A i \in 1 .. (m + 1) : i # 1 => i - 1 \in 1 .. m
    OBVIOUS
  <2>4. g = [i \in 1 .. (m + 1) |-> IF i = 1 THEN s[i] ELSE Cat(g[i - 1], s[i])]
    BY <2>2, <2>3
  <2> HIDE DEF g
  <2>5. Joins(g, s, m + 1)
    BY <2>4 DEF Joins
  <2>6. QED
    BY <2>5
<1> HIDE DEF P
<1>3. P = Nat
  <2>1. P \in SUBSET Nat
    BY DEF P
  <2>2. QED
    BY <1>1, <1>2, <2>1, EveryNat
<1>4. QED
  BY <1>3 DEF P

\* What the chosen running concatenation is.
LEMMA JoinedIs ==
  ASSUME NEW s, NEW n \in Nat
  PROVE  /\ DOMAIN Joined(s, n) = 1 .. n
         /\ n > 0 => Joined(s, n)[1] = s[1]
         /\ \A i \in 2 .. n : Joined(s, n)[i] = Cat(Joined(s, n)[i - 1], s[i])
<1>1. Joins(Joined(s, n), s, n)
  BY JoinsExist DEF Joined
<1>2. QED
  BY <1>1 DEF Joins

\* The steps are the same however many follow.
LEMMA JoinedSame ==
  ASSUME NEW s, NEW n \in Nat, NEW m \in Nat, n <= m
  PROVE  \A i \in 1 .. n : Joined(s, n)[i] = Joined(s, m)[i]
<1> DEFINE P == {i \in Nat : i + 1 <= n => Joined(s, n)[i + 1] = Joined(s, m)[i + 1]}
<1>1. 0 \in P
  BY JoinedIs
<1>2. ASSUME NEW i \in P PROVE i + 1 \in P
  <2>1. SUFFICES ASSUME (i + 1) + 1 <= n
                 PROVE  Joined(s, n)[(i + 1) + 1] = Joined(s, m)[(i + 1) + 1]
    OBVIOUS
  <2>2. Joined(s, n)[i + 1] = Joined(s, m)[i + 1]
    BY <2>1
  <2>3. (i + 1) + 1 \in 2 .. n /\ (i + 1) + 1 \in 2 .. m /\ ((i + 1) + 1) - 1 = i + 1
    BY <2>1
  <2>4. QED
    BY <2>2, <2>3, JoinedIs
<1> HIDE DEF P
<1>3. P = Nat
  <2>1. P \in SUBSET Nat
    BY DEF P
  <2>2. QED
    BY <1>1, <1>2, <2>1, EveryNat
<1>4. ASSUME NEW i \in 1 .. n PROVE Joined(s, n)[i] = Joined(s, m)[i]
  <2>1. i - 1 \in P /\ (i - 1) + 1 = i /\ i <= n
    BY <1>3
  <2>2. QED
    BY <2>1 DEF P
<1>5. QED
  BY <1>4

\* FlattenSeq returns the last of the running concatenations.
LEMMA FlatIs ==
  ASSUME NEW s, NEW n \in Nat
  PROVE  Flat(s, n) = IF n = 0 THEN <<>> ELSE Joined(s, n)[n]
<1> DEFINE t == [i \in 1 .. n |-> s[i]]
<1>1. t \in Seq({s[i] : i \in 1 .. n}) /\ Len(t) = n
  OBVIOUS
<1>2. CASE n = 0
  <2>1. t = <<>>
    BY <1>1, <1>2
  <2>2. QED
    BY <1>1, <1>2, <2>1 DEF Flat, FlattenSeq
<1>3. CASE n # 0
  <2>1. \A f : Joins(f, t, n) <=> Joins(f, s, n)
    BY DEF Joins
  <2>2. Joined(t, n) = Joined(s, n)
    BY <2>1 DEF Joined
  <2>3. FlattenSeq(t) = Joined(t, n)[n]
    <3> HIDE DEF t
    <3>1. QED
      BY <1>1, <1>3 DEF FlattenSeq, Joined, Joins, Cat
  <2>4. QED
    BY <1>3, <2>2, <2>3 DEF Flat
<1>4. QED
  BY <1>2, <1>3

\* One more sequence is appended at the end.
LEMMA FlatStep ==
  ASSUME NEW S, NEW n \in Nat, NEW s, \A i \in 1 .. (n + 1) : s[i] \in Seq(S)
  PROVE  Flat(s, n + 1) = Cat(Flat(s, n), s[n + 1])
<1>1. Flat(s, n + 1) = Joined(s, n + 1)[n + 1]
  BY FlatIs
<1>2. CASE n = 0
  <2>1. Flat(s, n + 1) = s[n + 1] /\ s[n + 1] \in Seq(S)
    BY <1>1, <1>2, JoinedIs
  <2>2. Flat(s, n) = <<>>
    BY <1>2, FlatIs
  <2>3. QED
    BY <2>1, <2>2, ConcatEmptySeq DEF Cat
<1>3. CASE n # 0
  <2>1. n + 1 \in 2 .. (n + 1) /\ n \in 1 .. n /\ (n + 1) - 1 = n /\ n <= n + 1
    BY <1>3
  <2>2. Joined(s, n + 1)[n + 1] = Cat(Joined(s, n + 1)[n], s[n + 1])
    <3>1. Joined(s, n + 1)[n + 1] = Cat(Joined(s, n + 1)[(n + 1) - 1], s[n + 1])
      BY <2>1, JoinedIs
    <3>2. QED
      BY <2>1, <3>1
  <2>3. Joined(s, n + 1)[n] = Joined(s, n)[n]
    BY <2>1, JoinedSame
  <2>4. Flat(s, n) = Joined(s, n)[n]
    BY <1>3, FlatIs
  <2>5. QED
    BY <1>1, <2>2, <2>3, <2>4
<1>4. QED
  BY <1>2, <1>3

\* The elements of the whole are those of the sequences.
LEMMA FlatType ==
  ASSUME NEW S, NEW n \in Nat, NEW s, \A i \in 1 .. n : s[i] \in Seq(S)
  PROVE  Flat(s, n) \in Seq(S)
<1> DEFINE P == {m \in Nat : m <= n => Flat(s, m) \in Seq(S)}
<1>1. 0 \in P
  <2>1. Flat(s, 0) = <<>>
    BY FlatIs
  <2>2. <<>> \in Seq(S)
    OBVIOUS
  <2>3. Flat(s, 0) \in Seq(S)
    BY <2>1, <2>2
  <2>4. QED
    BY <2>3
<1>2. ASSUME NEW m \in P PROVE m + 1 \in P
  <2>1. SUFFICES ASSUME m + 1 <= n PROVE Flat(s, m + 1) \in Seq(S)
    OBVIOUS
  <2>2. Flat(s, m + 1) = Cat(Flat(s, m), s[m + 1])
    BY <2>1, FlatStep
  <2>3. Flat(s, m) \in Seq(S) /\ s[m + 1] \in Seq(S)
    BY <2>1
  <2>4. Cat(Flat(s, m), s[m + 1]) \in Seq(S)
    BY <2>3, ConcatProperties DEF Cat
  <2>5. QED
    BY <2>2, <2>4
<1> HIDE DEF P
<1>3. P = Nat
  <2>1. P \in SUBSET Nat
    BY DEF P
  <2>2. QED
    BY <1>1, <1>2, <2>1, EveryNat
<1>4. QED
  BY <1>3 DEF P

\* Concatenation is associative.
LEMMA CatAssociative ==
  \A S : \A a, b, c \in Seq(S) : Cat(Cat(a, b), c) = Cat(a, Cat(b, c))
  BY ConcatAssociative, Zenon DEF Cat

\* Two neighbors may change when together they stay what they are.
Alike(S, s, t, k, n) ==
  /\ n \in Nat /\ k \in Nat /\ k + 2 <= n
  /\ \A i \in 1 .. n : s[i] \in Seq(S) /\ t[i] \in Seq(S)
  /\ \A i \in 1 .. n : i # k + 1 /\ i # k + 2 => s[i] = t[i]
  /\ Cat(s[k + 1], s[k + 2]) = Cat(t[k + 1], t[k + 2])

LEMMA FlatSame ==
  ASSUME NEW S, NEW n, NEW s, NEW t, NEW k, Alike(S, s, t, k, n)
  PROVE  Flat(s, n) = Flat(t, n)
<1>1. /\ n \in Nat /\ k \in Nat /\ k + 2 <= n
      /\ \A i \in 1 .. n : s[i] \in Seq(S) /\ t[i] \in Seq(S)
      /\ \A i \in 1 .. n : i # k + 1 /\ i # k + 2 => s[i] = t[i]
  BY DEF Alike
<1>2. Cat(s[k + 1], s[k + 2]) = Cat(t[k + 1], t[k + 2])
  BY DEF Alike
<1>3. Flat(s, k) = Flat(t, k)
  <2>1. \A i \in 1 .. k : s[i] = t[i]
    BY <1>1
  <2>2. [i \in 1 .. k |-> s[i]] = [i \in 1 .. k |-> t[i]]
    BY <2>1
  <2>3. QED
    BY <2>2 DEF Flat
<1>4. ASSUME NEW u, \A i \in 1 .. n : u[i] \in Seq(S)
      PROVE  Flat(u, k + 2) = Cat(Flat(u, k), Cat(u[k + 1], u[k + 2]))
  <2>1. (k + 1) + 1 = k + 2 /\ k + 1 \in Nat /\ k + 1 \in 1 .. n /\ k + 2 \in 1 .. n
    BY <1>1
  <2>2. \A i \in 1 .. ((k + 1) + 1) : u[i] \in Seq(S)
    BY <1>1, <1>4, <2>1
  <2>3. Flat(u, (k + 1) + 1) = Cat(Flat(u, k + 1), u[(k + 1) + 1])
    BY <2>1, <2>2, FlatStep
  <2>4. \A i \in 1 .. (k + 1) : u[i] \in Seq(S)
    BY <1>1, <1>4
  <2>5. Flat(u, k + 1) = Cat(Flat(u, k), u[k + 1])
    BY <1>1, <2>4, FlatStep
  <2>6. Flat(u, k) \in Seq(S) /\ u[k + 1] \in Seq(S) /\ u[k + 2] \in Seq(S)
    BY <1>1, <1>4, <2>1, FlatType
  <2>7. QED
    BY <2>1, <2>3, <2>5, <2>6, CatAssociative
<1>5. Flat(s, k + 2) = Flat(t, k + 2)
  BY <1>1, <1>2, <1>3, <1>4
<1> DEFINE P == {m \in Nat : (k + 2) + m <= n => Flat(s, (k + 2) + m) = Flat(t, (k + 2) + m)}
<1>6. 0 \in P
  BY <1>1, <1>5
<1>7. ASSUME NEW m \in P PROVE m + 1 \in P
  <2>1. SUFFICES ASSUME (k + 2) + (m + 1) <= n
                 PROVE  Flat(s, (k + 2) + (m + 1)) = Flat(t, (k + 2) + (m + 1))
    OBVIOUS
  <2> DEFINE j == (k + 2) + m
  <2>2. (k + 2) + (m + 1) = j + 1 /\ j \in Nat /\ j + 1 \in 1 .. n /\ j + 1 # k + 1 /\ j + 1 # k + 2
    BY <1>1, <2>1
  <2>3. Flat(s, j) = Flat(t, j)
    BY <1>1, <2>1
  <2> HIDE DEF j
  <2>4. \A i \in 1 .. (j + 1) : s[i] \in Seq(S) /\ t[i] \in Seq(S)
    BY <1>1, <2>2
  <2>5. Flat(s, j + 1) = Cat(Flat(s, j), s[j + 1]) /\ Flat(t, j + 1) = Cat(Flat(t, j), t[j + 1])
    BY <2>2, <2>4, FlatStep
  <2>6. s[j + 1] = t[j + 1]
    BY <1>1, <2>2
  <2>7. QED
    BY <2>2, <2>3, <2>5, <2>6
<1> HIDE DEF P
<1>8. P = Nat
  <2>1. P \in SUBSET Nat
    BY DEF P
  <2>2. QED
    BY <1>6, <1>7, <2>1, EveryNat
<1>9. n - (k + 2) \in P /\ (k + 2) + (n - (k + 2)) = n
  BY <1>1, <1>8
<1>10. QED
  BY <1>1, <1>9 DEF P

-----------------------------------------------------------------------------
(* Deleting the Nops, and the labels and branches                          *)

Code == {il \in Instruction : WellFormed(il)}
Mark == {"Label", "to"} \X SUBSET Operand
Kept(b) == [i \in DOMAIN b |-> IF b[i].op = "Nop" THEN <<>> ELSE <<b[i]>>]
Marks(b) == [i \in DOMAIN b |-> ControlOf(b[i])]

\* A body is a sequence of instructions that are well formed.
LEMMA BodyFacts ==
  ASSUME NEW b \in Body
  PROVE  /\ Len(b) \in Nat /\ DOMAIN b = 1 .. Len(b)
         /\ \A i \in 1 .. Len(b) : b[i] \in Code
         /\ b \in Seq(Code)
  BY DEF Body, Code

\* The mark of an instruction is empty or a label or branch with operands.
LEMMA ControlOfType ==
  ASSUME NEW il \in Code
  PROVE  ControlOf(il) \in Seq(Mark)
<1> USE DEF Code, WellFormed, Instruction
<1>1. il.args \in Seq(Operand)
  OBVIOUS
<1>2. CASE il.op = "Label"
  <2>1. <<"Label", {il.args[1]}>> \in Mark
    BY <1>1, <1>2 DEF Mark
  <2>2. QED
    BY <1>2, <2>1 DEF ControlOf
<1>3. CASE il.op # "Label" /\ TargetOf(il) # {}
  <2>1. TargetOf(il) \in SUBSET Operand
    BY <1>1, <1>3 DEF TargetOf, ConditionalBranch, CompareBranch
  <2>2. <<"to", TargetOf(il)>> \in Mark
    BY <2>1 DEF Mark
  <2>3. QED
    BY <1>3, <2>2 DEF ControlOf
<1>4. CASE il.op # "Label" /\ TargetOf(il) = {}
  BY <1>4 DEF ControlOf
<1>5. QED
  BY <1>2, <1>3, <1>4

\* Only labels and branches have a mark.
LEMMA NoMark ==
  ASSUME NEW il \in Code,
         il.op \notin {"Label", "Br"} \cup ConditionalBranch \cup CompareBranch
  PROVE  ControlOf(il) = <<>>
  BY DEF ControlOf, TargetOf

\* Control and DeleteNops as concatenations along the body.
LEMMA FlatControl ==
  ASSUME NEW b \in Body
  PROVE  /\ Control(b) = Flat(Marks(b), Len(b)) /\ DeleteNops(b) = Flat(Kept(b), Len(b))
         /\ \A i \in 1 .. Len(b) : Marks(b)[i] \in Seq(Mark) /\ Kept(b)[i] \in Seq(Code)
<1>1. /\ Len(b) \in Nat /\ DOMAIN b = 1 .. Len(b)
      /\ \A i \in 1 .. Len(b) : b[i] \in Code
  BY BodyFacts
<1>2. [i \in 1 .. Len(b) |-> Marks(b)[i]] = Marks(b) /\ [i \in 1 .. Len(b) |-> Kept(b)[i]] = Kept(b)
  BY <1>1 DEF Marks, Kept
<1>3. Control(b) = FlattenSeq(Marks(b)) /\ DeleteNops(b) = FlattenSeq(Kept(b))
  BY DEF Control, DeleteNops, Marks, Kept
<1>4. ASSUME NEW i \in 1 .. Len(b)
      PROVE  Marks(b)[i] \in Seq(Mark) /\ Kept(b)[i] \in Seq(Code)
  <2>1. Marks(b)[i] = ControlOf(b[i]) /\ b[i] \in Code
    BY <1>1, <1>4 DEF Marks
  <2>2. Kept(b)[i] = IF b[i].op = "Nop" THEN <<>> ELSE <<b[i]>>
    BY <1>1, <1>4 DEF Kept
  <2>3. QED
    BY <2>1, <2>2, ControlOfType
<1>5. QED
  BY <1>2, <1>3, <1>4 DEF Flat

\* What DeleteNops returns is a body.
LEMMA DeleteNopsType ==
  ASSUME NEW b \in Body
  PROVE  DeleteNops(b) \in Body
<1>1. Len(b) \in Nat
  BY BodyFacts
<1>2. Flat(Kept(b), Len(b)) \in Seq(Code)
  BY <1>1, FlatControl, FlatType
<1>3. QED
  BY <1>2, FlatControl DEF Body, Code

\* One more instruction.
LEMMA ControlAppend ==
  ASSUME NEW b \in Body, NEW il \in Code
  PROVE  Control(Append(b, il)) = Control(b) \o ControlOf(il)
<1> DEFINE c == Append(b, il)
           n == Len(b)
<1>1. /\ c \in Body /\ Len(c) = n + 1 /\ n \in Nat /\ DOMAIN c = 1 .. (n + 1) /\ DOMAIN b = 1 .. n
      /\ c[n + 1] = il /\ \A i \in 1 .. n : c[i] = b[i]
  BY BodyFacts DEF Body, Code
<1> HIDE DEF c, n
<1>2. Control(c) = Flat(Marks(c), n + 1) /\ \A i \in 1 .. (n + 1) : Marks(c)[i] \in Seq(Mark)
  BY <1>1, FlatControl
<1>3. Flat(Marks(c), n + 1) = Flat(Marks(c), n) \o Marks(c)[n + 1]
  <2>1. Flat(Marks(c), n + 1) = Cat(Flat(Marks(c), n), Marks(c)[n + 1])
    BY <1>1, <1>2, FlatStep
  <2>2. QED
    BY <2>1 DEF Cat
<1>4. Marks(c)[n + 1] = ControlOf(il)
  <2>1. n + 1 \in 1 .. (n + 1)
    BY <1>1
  <2>2. QED
    BY <1>1, <2>1 DEF Marks
<1>5. Flat(Marks(c), n) = Flat(Marks(b), n)
  <2>1. \A i \in 1 .. n : Marks(c)[i] = Marks(b)[i]
    <3>1. \A i \in 1 .. n : i \in 1 .. (n + 1)
      BY <1>1
    <3>2. QED
      BY <1>1, <3>1 DEF Marks
  <2>2. [i \in 1 .. n |-> Marks(c)[i]] = [i \in 1 .. n |-> Marks(b)[i]]
    BY <2>1
  <2>3. QED
    BY <2>2 DEF Flat
<1>6. Control(b) = Flat(Marks(b), n)
  BY FlatControl DEF n
<1>7. QED
  BY <1>2, <1>3, <1>4, <1>5, <1>6 DEF c

\* Deleting the Nops leaves the labels and branches.
LEMMA NopsControl ==
  ASSUME NEW b \in Body
  PROVE  Control(DeleteNops(b)) = Control(b)
<1> DEFINE k == Kept(b)
           m == Marks(b)
           P == {n \in Nat : n <= Len(b) => Control(Flat(k, n)) = Flat(m, n)}
<1>1. /\ Len(b) \in Nat /\ DOMAIN b = 1 .. Len(b)
      /\ \A i \in 1 .. Len(b) : b[i] \in Code
  BY BodyFacts
<1>2. \A i \in 1 .. Len(b) : m[i] \in Seq(Mark) /\ k[i] \in Seq(Code)
  BY FlatControl
<1>3. \A i \in 1 .. Len(b) : k[i] = (IF b[i].op = "Nop" THEN <<>> ELSE <<b[i]>>) /\ m[i] = ControlOf(b[i])
  BY <1>1 DEF Kept, Marks
<1> HIDE DEF k, m
<1>4. 0 \in P
  <2>1. Flat(k, 0) = <<>> /\ Flat(m, 0) = <<>>
    BY FlatIs
  <2>2. <<>> \in Body /\ Len(<<>>) = 0
    BY DEF Body
  <2>3. Control(<<>>) = Flat(Marks(<<>>), 0)
    BY <2>2, FlatControl
  <2>4. Control(<<>>) = <<>>
    BY <2>3, FlatIs
  <2>5. QED
    BY <2>1, <2>4
<1>5. ASSUME NEW n \in P PROVE n + 1 \in P
  <2>1. SUFFICES ASSUME n + 1 <= Len(b) PROVE Control(Flat(k, n + 1)) = Flat(m, n + 1)
    OBVIOUS
  <2>2. n \in Nat /\ n + 1 \in 1 .. Len(b) /\ \A i \in 1 .. (n + 1) : i \in 1 .. Len(b)
    BY <1>1, <2>1
  <2>3. Control(Flat(k, n)) = Flat(m, n)
    BY <1>1, <2>1
  <2> HIDE DEF P
  <2>4. Flat(k, n + 1) = Flat(k, n) \o k[n + 1] /\ Flat(m, n + 1) = Flat(m, n) \o m[n + 1]
    <3>1. Flat(k, n + 1) = Cat(Flat(k, n), k[n + 1]) /\ Flat(m, n + 1) = Cat(Flat(m, n), m[n + 1])
      BY <1>2, <2>2, FlatStep
    <3>2. QED
      BY <3>1 DEF Cat
  <2>5. Flat(k, n) \in Seq(Code) /\ Flat(m, n) \in Seq(Mark)
    BY <1>2, <2>2, FlatType
  <2>6. CASE b[n + 1].op = "Nop"
    <3>1. k[n + 1] = <<>> /\ m[n + 1] = <<>>
      BY <1>1, <1>3, <2>2, <2>6, NoMark DEF ConditionalBranch, CompareBranch
    <3>2. Flat(k, n) \o <<>> = Flat(k, n) /\ Flat(m, n) \o <<>> = Flat(m, n)
      BY <2>5, ConcatEmptySeq
    <3>3. QED
      BY <2>3, <2>4, <3>1, <3>2
  <2>7. CASE b[n + 1].op # "Nop"
    <3>1. k[n + 1] = <<b[n + 1]>> /\ m[n + 1] = ControlOf(b[n + 1]) /\ b[n + 1] \in Code
      BY <1>1, <1>3, <2>2, <2>7
    <3>2. Append(Flat(k, n), b[n + 1]) = Flat(k, n) \o <<b[n + 1]>>
      BY <2>5, <3>1, AppendIsConcat
    <3>3. Control(Append(Flat(k, n), b[n + 1])) = Control(Flat(k, n)) \o ControlOf(b[n + 1])
      BY <2>5, <3>1, ControlAppend DEF Body, Code
    <3>4. QED
      BY <2>3, <2>4, <3>1, <3>2, <3>3
  <2>8. QED
    BY <2>6, <2>7
<1> HIDE DEF P
<1>6. P = Nat
  <2>1. P \in SUBSET Nat
    BY DEF P
  <2>2. QED
    BY <1>4, <1>5, <2>1, EveryNat
<1>7. Control(Flat(k, Len(b))) = Flat(m, Len(b))
  BY <1>1, <1>6 DEF P
<1>8. QED
  BY <1>7, FlatControl DEF k, m

-----------------------------------------------------------------------------
(* Counting uses                                                           *)

OperandAt(b, u) == b[u[1]].args[u[2]]

\* The places of operands are pairs of an instruction and an argument, and they
\* are finitely many.
LEMMA PositionFacts ==
  ASSUME NEW b \in Body
  PROVE  /\ \A i, j : <<i, j>> \in Positions(b) <=> i \in 1 .. Len(b) /\ j \in 1 .. Len(b[i].args)
         /\ \A u \in Positions(b) : u = <<u[1], u[2]>>
         /\ \A o : Uses(b, o) = {u \in Positions(b) : OperandAt(b, u) = o}
         /\ IsFiniteSet(Positions(b))
<1> DEFINE Row(i) == {i} \X (1 .. Len(b[i].args))
<1>1. Len(b) \in Nat /\ \A i \in 1 .. Len(b) : Len(b[i].args) \in Nat
  BY BodyFacts DEF Code, Instruction
<1>2. Positions(b) = UNION {Row(i) : i \in 1 .. Len(b)}
  BY DEF Positions
<1>3. ASSUME NEW i \in 1 .. Len(b) PROVE IsFiniteSet(Row(i))
  <2>1. IsFiniteSet({i})
    BY FS_Singleton
  <2>2. IsFiniteSet(1 .. Len(b[i].args))
    <3> DEFINE n == Len(b[i].args)
    <3>1. n \in Int
      BY <1>1, <1>3
    <3> HIDE DEF n
    <3>2. IsFiniteSet(1 .. n)
      BY <3>1, FS_Interval
    <3>3. QED
      BY <3>2 DEF n
  <2>3. QED
    BY <2>1, <2>2, FS_Product
<1> HIDE DEF Row
<1>4. IsFiniteSet({Row(i) : i \in 1 .. Len(b)})
  <2> DEFINE f == [i \in 1 .. Len(b) |-> Row(i)]
  <2>1. f \in Surjection(1 .. Len(b), {Row(i) : i \in 1 .. Len(b)})
    BY DEF Surjection
  <2>2. IsFiniteSet(1 .. Len(b))
    BY <1>1, FS_Interval
  <2>3. QED
    BY <2>1, <2>2, FS_Surjection
<1>5. IsFiniteSet(Positions(b))
  BY <1>2, <1>3, <1>4, FS_UNION
<1>6. \A i, j : <<i, j>> \in Positions(b) <=> i \in 1 .. Len(b) /\ j \in 1 .. Len(b[i].args)
  BY <1>2 DEF Row
<1>7. \A u \in Positions(b) : u = <<u[1], u[2]>>
  BY <1>2 DEF Row
<1>8. QED
  BY <1>5, <1>6, <1>7 DEF Uses, OperandAt

\* When a pair of numbers is a place.
LEMMA PositionIs ==
  ASSUME NEW b \in Body, NEW i \in Nat, NEW j \in Nat
  PROVE  <<i, j>> \in Positions(b) <=> 1 <= i /\ i <= Len(b) /\ 1 <= j /\ j <= Len(b[i].args)
<1>1. <<i, j>> \in Positions(b) <=> i \in 1 .. Len(b) /\ j \in 1 .. Len(b[i].args)
  BY PositionFacts
<1>2. Len(b) \in Nat /\ \A h \in 1 .. Len(b) : Len(b[h].args) \in Nat
  BY BodyFacts DEF Code, Instruction
<1>3. QED
  BY <1>1, <1>2

\* Every place is such a pair.
LEMMA PositionPair ==
  ASSUME NEW b \in Body, NEW u \in Positions(b)
  PROVE  \E i \in Nat, j \in Nat : u = <<i, j>>
<1>1. u = <<u[1], u[2]>> /\ u[1] \in 1 .. Len(b) /\ u[2] \in 1 .. Len(b[u[1]].args)
  BY PositionFacts
<1>2. Len(b) \in Nat /\ \A h \in 1 .. Len(b) : Len(b[h].args) \in Nat
  BY BodyFacts DEF Code, Instruction
<1>3. QED
  BY <1>1, <1>2

\* r is used at p and q and, when it is a variable, nowhere else.  When the
\* uses of b but these are moved to the places of c, every variable of c is one
\* of b and used as often.
LEMMA Rearranged ==
  ASSUME NEW b \in Body, NEW c \in Body, NEW r, NEW p, NEW q, NEW move,
         p \in Uses(b, r), q \in Uses(b, r),
         r.kind = "variable" => Uses(b, r) = {p, q},
         move \in Bijection(Positions(b) \ {p, q}, Positions(c)),
         \A u \in Positions(b) \ {p, q} : OperandAt(c, move[u]) = OperandAt(b, u),
         NEW o \in OperandsOf(c), o.kind = "variable"
  PROVE  o \in OperandsOf(b) /\ Cardinality(Uses(c, o)) = Cardinality(Uses(b, o))
<1> DEFINE Rest == Positions(b) \ {p, q}
<1>1. /\ Uses(b, o) = {u \in Positions(b) : OperandAt(b, u) = o}
      /\ Uses(b, r) = {u \in Positions(b) : OperandAt(b, u) = r}
      /\ Uses(c, o) = {u \in Positions(c) : OperandAt(c, u) = o}
      /\ IsFiniteSet(Positions(b))
  BY PositionFacts
<1>2. /\ move \in [Rest -> Positions(c)]
      /\ \A u, v \in Rest : move[u] = move[v] => u = v
      /\ \A v \in Positions(c) : \E u \in Rest : move[u] = v
  <2> DEFINE All == Positions(c)
  <2> HIDE DEF Rest, All
  <2>1. move \in Bijection(Rest, All)
    BY DEF Rest, All
  <2>2. QED
    BY <2>1 DEF Bijection, Injection, Surjection, IsInjective, All
<1>3. PICK v \in Positions(c) : OperandAt(c, v) = o
  BY DEF OperandsOf, OperandAt
<1>4. PICK u \in Rest : move[u] = v
  BY <1>2
<1>5. OperandAt(b, u) = o /\ u \in Positions(b)
  BY <1>3, <1>4
<1>6. o \in OperandsOf(b)
  BY <1>5 DEF OperandsOf, OperandAt
<1>7. o # r
  BY <1>1, <1>4, <1>5
<1>8. Uses(b, o) \subseteq Rest
  BY <1>1, <1>7
<1> DEFINE m == [w \in Uses(b, o) |-> move[w]]
<1>9. m \in Bijection(Uses(b, o), Uses(c, o))
  <2>1. m \in [Uses(b, o) -> Uses(c, o)]
    BY <1>1, <1>2, <1>8
  <2>2. \A w, x \in Uses(b, o) : m[w] = m[x] => w = x
    BY <1>2, <1>8
  <2>3. \A w \in Uses(c, o) : \E x \in Uses(b, o) : m[x] = w
    BY <1>1, <1>2
  <2> HIDE DEF m
  <2>4. QED
    BY <2>1, <2>2, <2>3 DEF Bijection, Injection, Surjection, IsInjective
<1>10. IsFiniteSet(Uses(b, o))
  BY <1>1, FS_Subset
<1>11. QED
  BY <1>6, <1>9, <1>10, FS_Bijection DEF ExistsBijection

\* What CountsFresh comes to.
LEMMA CountedTwice ==
  ASSUME NEW b \in Body, NEW c \in Body, NEW r, NEW p \in Uses(c, r), NEW q \in Uses(c, r), p # q,
         UsedTwice(b, r), Cardinality(Uses(c, r)) = Cardinality(Uses(b, r))
  PROVE  Uses(c, r) = {p, q}
<1>1. \A x, y : x # y => IsFiniteSet({x, y}) /\ Cardinality({x, y}) = 2
  <2>1. ASSUME NEW x, NEW y, x # y PROVE IsFiniteSet({x, y}) /\ Cardinality({x, y}) = 2
    <3>1. IsFiniteSet({x}) /\ Cardinality({x}) = 1 /\ {x} \cup {y} = {x, y} /\ y \notin {x}
      BY <2>1, FS_Singleton
    <3>2. QED
      BY <3>1, FS_AddElement
  <2>2. QED
    BY <2>1
<1>2. Cardinality(Uses(c, r)) = 2
  BY <1>1 DEF UsedTwice
<1>3. IsFiniteSet(Uses(c, r))
  BY PositionFacts, FS_Subset
<1>4. {p, q} \in SUBSET Uses(c, r) /\ Cardinality({p, q}) = 2
  BY <1>1
<1>5. QED
  BY <1>2, <1>3, <1>4, FS_Subset

-----------------------------------------------------------------------------
(* The steps                                                               *)

\* What is known of the copy and the body while a pass works on a function.
LEMMA Working ==
  ASSUME TypeOK, ~Done
  PROVE  /\ program \in Seq(Body) /\ Len(program) \in Nat /\ fn \in 1 .. Len(program)
         /\ body \in Body /\ ils \in Body
         /\ Len(ils) \in Nat /\ \A i \in 1 .. Len(ils) : ils[i] \in Code
<1>1. program \in Seq(Body) /\ ils \in Body /\ Len(program) \in Nat /\ fn \in 1 .. Len(program)
  BY DEF TypeOK, Done
<1>2. QED
  BY <1>1, BodyFacts DEF body

\* An iterator that is neither at the first nor at the last instruction has two
\* neighbors.
LEMMA InsideFacts ==
  ASSUME TypeOK, Inside
  PROVE  /\ ~Done
         /\ at \in 1 .. Len(ils) /\ at - 1 \in 1 .. Len(ils) /\ at + 1 \in 1 .. Len(ils)
         /\ at \in Nat /\ Len(ils) \in Nat
  BY DEF TypeOK, Inside, Scanning

\* An instruction made by the generator functions is one the pass may store.
LEMMA CodeIs ==
  ASSUME NEW op \in Opcodes, NEW args \in Seq(Operand), WellFormed(IL(op, args))
  PROVE  IL(op, args) \in Code
  BY DEF Code, Instruction, IL

\* So is a Nop.
LEMMA NopIsCode == Nop \in Code /\ Nop.op = "Nop" /\ Nop.args = <<>>
<1>1. WellFormed(Nop) /\ "Nop" \in Opcodes /\ <<>> \in Seq(Operand)
  BY DEF WellFormed, Nop, IL, Comparison, ConditionalBranch, CompareBranch, Opcodes
<1>2. QED
  BY <1>1, CodeIs DEF Nop, IL

\* What a comparison and a branch are fused to.
LEMMA FusedFacts ==
  ASSUME NEW il \in Code, NEW branch \in Code,
         il.op \in Comparison, branch.op \in ConditionalBranch
  PROVE  LET a == il.args[2]
             b == il.args[3]
             dest == branch.args[2]
             fused == FusedBranch(il, branch)
         IN /\ a \in Operand /\ b \in Operand /\ dest \in Operand
            /\ Len(il.args) = 3 /\ Len(branch.args) = 2
            /\ fused.op \in CompareBranch
            /\ fused.args \in {<<a, b, dest>>, <<b, a, dest>>}
            /\ fused \in Code
<1> DEFINE a == il.args[2]
           b == il.args[3]
           dest == branch.args[2]
           fused == FusedBranch(il, branch)
<1>1. Len(il.args) = 3 /\ Len(branch.args) = 2 /\ a \in Operand /\ b \in Operand /\ dest \in Operand
  BY DEF Code, Instruction, WellFormed
<1>2. \E op \in CompareBranch, args \in {<<a, b, dest>>, <<b, a, dest>>} : fused = IL(op, args)
  BY DEF FusedBranch, Comparison, CompareBranch
<1> HIDE DEF a, b, dest, fused
<1>3. PICK op \in CompareBranch, args \in {<<a, b, dest>>, <<b, a, dest>>} : fused = IL(op, args)
  BY <1>2
<1>4. args \in Seq(Operand) /\ Len(args) = 3
  <2>1. <<a, b, dest>> \in Seq(Operand) /\ <<b, a, dest>> \in Seq(Operand)
    BY <1>1
  <2>2. Len(<<a, b, dest>>) = 3 /\ Len(<<b, a, dest>>) = 3
    OBVIOUS
  <2>3. QED
    BY <2>1, <2>2
<1>5. WellFormed(IL(op, args)) /\ op \in Opcodes
  BY <1>4 DEF WellFormed, IL, CompareBranch, Comparison, ConditionalBranch, Opcodes
<1>6. fused \in Code /\ fused.op = op /\ fused.args = args
  BY <1>3, <1>4, <1>5, CodeIs DEF IL
<1>7. QED
  BY <1>1, <1>3, <1>6 DEF a, b, dest, fused

\* The copy when two neighbors are replaced.
Replaces(b, c, k, x, y) ==
  /\ k \in 1 .. Len(b) /\ k + 1 \in 1 .. Len(b)
  /\ x \in Code /\ y \in Code
  /\ c = [b EXCEPT ![k] = x, ![k + 1] = y]
  /\ ControlOf(b[k]) \o ControlOf(b[k + 1]) = ControlOf(x) \o ControlOf(y)

LEMMA TwoReplaced ==
  ASSUME NEW b \in Body, NEW c, NEW k, NEW x, NEW y, Replaces(b, c, k, x, y)
  PROVE  /\ c \in Body /\ Len(c) = Len(b)
         /\ c[k] = x /\ c[k + 1] = y
         /\ \A i \in 1 .. Len(b) : i # k /\ i # k + 1 => c[i] = b[i]
         /\ Control(c) = Control(b)
<1> DEFINE n == Len(b)
<1>1. n \in Nat /\ DOMAIN b = 1 .. n /\ b \in Seq(Code)
  BY BodyFacts
<1>2. k \in 1 .. n /\ k + 1 \in 1 .. n
  BY DEF Replaces
<1>3. /\ x \in Code /\ y \in Code /\ c = [b EXCEPT ![k] = x, ![k + 1] = y]
      /\ ControlOf(b[k]) \o ControlOf(b[k + 1]) = ControlOf(x) \o ControlOf(y)
  BY DEF Replaces
<1>4. /\ c \in Seq(Code) /\ Len(c) = n /\ c[k] = x /\ c[k + 1] = y
      /\ \A i \in 1 .. n : i # k /\ i # k + 1 => c[i] = b[i]
  <2> DEFINE d == [b EXCEPT ![k] = x]
  <2>1. d \in Seq(Code) /\ Len(d) = n /\ d[k] = x /\ \A i \in 1 .. n : i # k => d[i] = b[i]
    BY <1>1, <1>2, <1>3
  <2>2. c = [d EXCEPT ![k + 1] = y]
    BY <1>3
  <2>3. k + 1 # k
    BY <1>2
  <2> HIDE DEF d
  <2>4. DOMAIN d = 1 .. n
    BY <1>1, <2>1
  <2>5. c \in Seq(Code) /\ Len(c) = n
    <3>1. \A h \in 1 .. n : [d EXCEPT ![h] = y] \in Seq(Code) /\ Len([d EXCEPT ![h] = y]) = n
      BY <1>3, <2>1
    <3>2. QED
      BY <1>2, <2>2, <3>1
  <2>6. QED
    BY <1>2, <2>1, <2>2, <2>3, <2>4, <2>5
<1>5. c \in Body
  BY <1>4 DEF Body, Code
<1> HIDE DEF n
<1>6. /\ Control(b) = Flat(Marks(b), n) /\ Control(c) = Flat(Marks(c), n)
      /\ \A i \in 1 .. n : Marks(b)[i] \in Seq(Mark) /\ Marks(c)[i] \in Seq(Mark)
  BY <1>4, <1>5, FlatControl DEF n
<1>7. \A i \in 1 .. n : Marks(b)[i] = ControlOf(b[i]) /\ Marks(c)[i] = ControlOf(c[i])
  <2>1. DOMAIN b = 1 .. n /\ DOMAIN c = 1 .. n
    BY <1>1, <1>4, <1>5, BodyFacts
  <2>2. QED
    BY <2>1 DEF Marks
<1>8. \A i \in 1 .. n : i # k /\ i # k + 1 => Marks(b)[i] = Marks(c)[i]
  BY <1>4, <1>7
<1>9. Cat(Marks(b)[k], Marks(b)[k + 1]) = Cat(Marks(c)[k], Marks(c)[k + 1])
  BY <1>4, <1>7, <1>2, <1>3 DEF Cat
<1>10. PICK j \in Nat : j + 1 = k /\ j + 2 = k + 1 /\ j + 2 <= n
  <2>1. k - 1 \in Nat /\ (k - 1) + 1 = k /\ (k - 1) + 2 = k + 1 /\ (k - 1) + 2 <= n
    BY <1>1, <1>2
  <2>2. QED
    BY <2>1
<1>11. Flat(Marks(b), n) = Flat(Marks(c), n)
  <2> DEFINE s == Marks(b)
             t == Marks(c)
  <2>1. \A i \in 1 .. n : s[i] \in Seq(Mark) /\ t[i] \in Seq(Mark)
    BY <1>6
  <2>2. \A i \in 1 .. n : i # j + 1 /\ i # j + 2 => s[i] = t[i]
    BY <1>8, <1>10
  <2>3. Cat(s[j + 1], s[j + 2]) = Cat(t[j + 1], t[j + 2])
    BY <1>9, <1>10
  <2> HIDE DEF s, t
  <2>4. Flat(s, n) = Flat(t, n)
    <3>1. Alike(Mark, s, t, j, n)
      BY <1>1, <1>10, <2>1, <2>2, <2>3 DEF Alike
    <3>2. QED
      BY <3>1, FlatSame
  <2>5. QED
    BY <2>4 DEF s, t
<1>12. QED
  BY <1>4, <1>5, <1>6, <1>11 DEF n

\* When a comparison and its branch become one instruction, with the operands in
\* one order or the other, and a Nop, the counts of the variables stay.
FusesTo(b, c, k, two) ==
  /\ 1 <= k /\ k + 1 <= Len(b) /\ Len(c) = Len(b)
  /\ \A i \in 1 .. Len(b) : i # k /\ i # k + 1 => c[i] = b[i]
  /\ Len(b[k].args) = 3 /\ Len(b[k + 1].args) = 2
  /\ Len(c[k].args) = 3 /\ Len(c[k + 1].args) = 0
  /\ c[k].args[two] = b[k].args[2] /\ c[k].args[3 - two] = b[k].args[3]
  /\ c[k].args[3] = b[k + 1].args[2]
OnlyAt(b, r, p, q) ==
  /\ p \in Uses(b, r) /\ q \in Uses(b, r)
  /\ r.kind = "variable" => Uses(b, r) = {p, q}

LEMMA CountsFused ==
  ASSUME NEW b \in Body, NEW c \in Body, NEW k \in Nat, NEW two \in {1, 2}, FusesTo(b, c, k, two),
         NEW r, OnlyAt(b, r, <<k, 1>>, <<k + 1, 1>>),
         NEW o \in OperandsOf(c), o.kind = "variable"
  PROVE  o \in OperandsOf(b) /\ Cardinality(Uses(c, o)) = Cardinality(Uses(b, o))
<1> DEFINE p == <<k, 1>>
           q == <<k + 1, 1>>
           Old == {u \in Positions(b) : u[1] \notin {k, k + 1}}
           Rest == Positions(b) \ {p, q}
<1>1. Len(b) \in Nat /\ 1 <= k /\ k <= Len(b) /\ k + 1 <= Len(b) /\ Len(c) = Len(b)
  BY BodyFacts DEF FusesTo
<1>2. /\ Len(b[k].args) = 3 /\ Len(b[k + 1].args) = 2
      /\ Len(c[k].args) = 3 /\ Len(c[k + 1].args) = 0
  BY DEF FusesTo
<1>3. \A i \in 1 .. Len(b) : i # k /\ i # k + 1 => c[i] = b[i]
  BY DEF FusesTo
<1>4. /\ p \in Positions(b) /\ <<k, 2>> \in Positions(b) /\ <<k, 3>> \in Positions(b)
      /\ q \in Positions(b) /\ <<k + 1, 2>> \in Positions(b)
  <2>1. ASSUME NEW j \in 1 .. 3 PROVE <<k, j>> \in Positions(b)
    <3>1. j \in Nat /\ 1 <= j /\ j <= Len(b[k].args)
      BY <1>2
    <3>2. QED
      BY <1>1, <3>1, PositionIs
  <2>2. \A j \in 1 .. 2 : <<k + 1, j>> \in Positions(b)
    <3>1. k + 1 \in Nat /\ 1 <= k + 1
      BY <1>1
    <3>2. QED
      BY <1>1, <1>2, <3>1, PositionIs
  <2>3. 1 \in 1 .. 3 /\ 2 \in 1 .. 3 /\ 3 \in 1 .. 3 /\ 1 \in 1 .. 2 /\ 2 \in 1 .. 2
    OBVIOUS
  <2>4. QED
    BY <2>1, <2>2, <2>3
<1>5. \A i, j \in Nat : <<i, j>> \in Positions(b) /\ i \in {k, k + 1} =>
        <<i, j>> \in {p, q, <<k, 2>>, <<k, 3>>, <<k + 1, 2>>}
  <2>1. ASSUME NEW i \in Nat, NEW j \in Nat, <<i, j>> \in Positions(b), i \in {k, k + 1}
        PROVE  <<i, j>> \in {p, q, <<k, 2>>, <<k, 3>>, <<k + 1, 2>>}
    <3>1. 1 <= j /\ j <= Len(b[i].args)
      BY <2>1, PositionIs
    <3>2. CASE i = k
      <4>1. Len(b[i].args) = 3
        BY <1>2, <3>2
      <4>2. j = 1 \/ j = 2 \/ j = 3
        BY <3>1, <4>1
      <4>3. QED
        BY <3>2, <4>2
    <3>3. CASE i = k + 1
      <4>1. Len(b[i].args) = 2
        BY <1>2, <3>3
      <4>2. j = 1 \/ j = 2
        BY <3>1, <4>1
      <4>3. QED
        BY <3>3, <4>2
    <3>4. QED
      BY <2>1, <3>2, <3>3
  <2>2. QED
    BY <2>1
<1>6. Rest = Old \cup {<<k, 2>>, <<k, 3>>, <<k + 1, 2>>}
  <2>1. ASSUME NEW u \in Rest PROVE u \in Old \cup {<<k, 2>>, <<k, 3>>, <<k + 1, 2>>}
    <3>1. PICK i \in Nat, j \in Nat : u = <<i, j>>
      BY PositionPair
    <3>2. QED
      BY <1>5, <3>1
  <2>2. Old \subseteq Rest
    OBVIOUS
  <2>3. QED
    BY <1>4, <2>1, <2>2
<1>7. \A i, j \in Nat : i \notin {k, k + 1} => (<<i, j>> \in Positions(c) <=> <<i, j>> \in Positions(b))
  <2>1. ASSUME NEW i \in Nat, NEW j \in Nat, i \notin {k, k + 1}
        PROVE  <<i, j>> \in Positions(c) <=> <<i, j>> \in Positions(b)
    <3>1. <<i, j>> \in Positions(b) <=> 1 <= i /\ i <= Len(b) /\ 1 <= j /\ j <= Len(b[i].args)
      BY PositionIs
    <3>2. <<i, j>> \in Positions(c) <=> 1 <= i /\ i <= Len(b) /\ 1 <= j /\ j <= Len(c[i].args)
      BY <1>1, PositionIs
    <3>3. 1 <= i /\ i <= Len(b) => c[i] = b[i]
      BY <1>1, <1>3, <2>1
    <3>4. QED
      BY <3>1, <3>2, <3>3
  <2>2. QED
    BY <2>1
<1>8. Positions(c) = Old \cup {<<k, 1>>, <<k, 2>>, <<k, 3>>}
  <2>1. ASSUME NEW u \in Positions(c) PROVE u \in Old \cup {<<k, 1>>, <<k, 2>>, <<k, 3>>}
    <3>1. PICK i \in Nat, j \in Nat : u = <<i, j>>
      BY PositionPair
    <3>2. 1 <= j /\ j <= Len(c[i].args)
      BY <3>1, PositionIs
    <3>3. CASE i = k
      <4>1. Len(c[i].args) = 3
        BY <1>2, <3>3
      <4>2. j = 1 \/ j = 2 \/ j = 3
        BY <3>2, <4>1
      <4>3. QED
        BY <3>1, <3>3, <4>2
    <3>4. CASE i = k + 1
      <4>1. Len(c[i].args) = 0
        BY <1>2, <3>4
      <4>2. QED
        BY <3>2, <4>1
    <3>5. CASE i \notin {k, k + 1}
      BY <1>7, <3>1, <3>5
    <3>6. QED
      BY <3>3, <3>4, <3>5
  <2>2. ASSUME NEW u \in Old PROVE u \in Positions(c)
    <3>1. PICK i \in Nat, j \in Nat : u = <<i, j>>
      BY PositionPair
    <3>2. QED
      BY <1>7, <3>1
  <2>3. <<k, 1>> \in Positions(c) /\ <<k, 2>> \in Positions(c) /\ <<k, 3>> \in Positions(c)
    <3>1. ASSUME NEW j \in 1 .. 3 PROVE <<k, j>> \in Positions(c)
      <4>1. j \in Nat /\ 1 <= j /\ j <= Len(c[k].args)
        BY <1>2
      <4>2. QED
        BY <1>1, <4>1, PositionIs
    <3>2. 1 \in 1 .. 3 /\ 2 \in 1 .. 3 /\ 3 \in 1 .. 3
      OBVIOUS
    <3>3. QED
      BY <3>1, <3>2
  <2>4. QED
    BY <2>1, <2>2, <2>3
<1>9. \A u \in Old : u[1] \notin {k, k + 1} /\ OperandAt(c, u) = OperandAt(b, u)
  <2>1. ASSUME NEW u \in Old PROVE OperandAt(c, u) = OperandAt(b, u)
    <3>1. PICK i \in Nat, j \in Nat : u = <<i, j>>
      BY PositionPair
    <3>2. 1 <= i /\ i <= Len(b) /\ i # k /\ i # k + 1
      BY <3>1, PositionIs
    <3>3. c[i] = b[i]
      BY <1>1, <1>3, <3>2
    <3>4. QED
      BY <3>1, <3>3 DEF OperandAt
  <2>2. QED
    BY <2>1
<1> DEFINE move == [u \in Rest |-> IF u = <<k, 2>> THEN <<k, two>>
                                   ELSE IF u = <<k, 3>> THEN <<k, 3 - two>>
                                   ELSE IF u = <<k + 1, 2>> THEN <<k, 3>> ELSE u]
<1>10. move = [u \in Rest |-> move[u]]
  OBVIOUS
<1>11. /\ move[<<k, 2>>] = <<k, two>> /\ move[<<k, 3>>] = <<k, 3 - two>> /\ move[<<k + 1, 2>>] = <<k, 3>>
      /\ \A u \in Old : move[u] = u
  <2>2. <<k, 2>> \in Rest /\ <<k, 3>> \in Rest /\ <<k + 1, 2>> \in Rest /\ Old \subseteq Rest
    BY <1>6
  <2>3. move[<<k, 2>>] = <<k, two>> /\ move[<<k, 3>>] = <<k, 3 - two>>
    BY <2>2
  <2>4. move[<<k + 1, 2>>] = <<k, 3>>
    BY <2>2
  <2>5. \A u \in Old : u # <<k, 2>> /\ u # <<k, 3>> /\ u # <<k + 1, 2>>
    OBVIOUS
  <2>6. \A u \in Old : move[u] = u
    BY <2>2, <2>5
  <2> HIDE DEF move
  <2>7. QED
    BY <2>3, <2>4, <2>6
<1> HIDE DEF move, Rest
<1>12. \A u \in Old : u # <<k, 1>> /\ u # <<k, 2>> /\ u # <<k, 3>>
  BY <1>9
<1> HIDE DEF Old
<1>13. {<<k, two>>, <<k, 3 - two>>, <<k, 3>>} = {<<k, 1>>, <<k, 2>>, <<k, 3>>}
  OBVIOUS
<1>14. move \in [Rest -> Positions(c)]
  <2>1. \A u \in Rest : move[u] \in Positions(c)
    BY <1>6, <1>8, <1>11, <1>13
  <2>2. QED
    <3> DEFINE All == Positions(c)
    <3> HIDE DEF All
    <3>1. move = [u \in Rest |-> move[u]]
      BY <1>10
    <3>2. \A u \in Rest : move[u] \in All
      BY <2>1 DEF All
    <3>3. [u \in Rest |-> move[u]] \in [Rest -> All]
      BY <3>2
    <3>4. QED
      BY <3>1, <3>3 DEF All
<1>15. \A v \in Positions(c) : \E u \in Rest : move[u] = v
  BY <1>6, <1>8, <1>11, <1>13
<1>16. \A u, v \in Rest : move[u] = move[v] => u = v
  <2>1. <<k, two>> # <<k, 3 - two>> /\ <<k, two>> # <<k, 3>> /\ <<k, 3 - two>> # <<k, 3>>
    OBVIOUS
  <2>2. \A u \in Old : u # <<k, two>> /\ u # <<k, 3 - two>> /\ u # <<k, 3>>
    BY <1>12, <1>13
  <2>3. ASSUME NEW u \in Old, NEW v \in Rest, move[u] = move[v] PROVE u = v
    BY <1>6, <1>11, <2>2, <2>3
  <2>4. ASSUME NEW u \in {<<k, 2>>, <<k, 3>>, <<k + 1, 2>>}, NEW v \in {<<k, 2>>, <<k, 3>>, <<k + 1, 2>>},
               move[u] = move[v]
        PROVE  u = v
    BY <1>11, <2>1, <2>4
  <2>5. QED
    BY <1>6, <2>3, <2>4
<1>17. ASSUME NEW u \in Rest
       PROVE  OperandAt(c, move[u]) = OperandAt(b, u)
  <2>1. CASE u \in Old
    BY <1>9, <1>11, <2>1
  <2>2. /\ OperandAt(c, <<k, two>>) = OperandAt(b, <<k, 2>>)
        /\ OperandAt(c, <<k, 3 - two>>) = OperandAt(b, <<k, 3>>)
        /\ OperandAt(c, <<k, 3>>) = OperandAt(b, <<k + 1, 2>>)
    BY DEF OperandAt, FusesTo
  <2>3. QED
    BY <1>6, <1>11, <2>1, <2>2
<1>18. move \in Bijection(Rest, Positions(c))
  <2> DEFINE All == Positions(c)
  <2> HIDE DEF All
  <2>1. move \in [Rest -> All] /\ \A v \in All : \E u \in Rest : move[u] = v
    BY <1>14, <1>15 DEF All
  <2>2. move \in Bijection(Rest, All)
    BY <1>16, <2>1 DEF Bijection, Injection, Surjection, IsInjective
  <2>3. QED
    BY <2>2 DEF All
<1> HIDE DEF p, q
<1>19. move \in Bijection(Positions(b) \ {p, q}, Positions(c))
  BY <1>18 DEF Rest
<1>20. \A u \in Positions(b) \ {p, q} : OperandAt(c, move[u]) = OperandAt(b, u)
  BY <1>17 DEF Rest
<1>21. p \in Uses(b, r) /\ q \in Uses(b, r) /\ (r.kind = "variable" => Uses(b, r) = {p, q})
  BY DEF p, q, OnlyAt
<1>22. QED
  BY <1>19, <1>20, <1>21, Rearranged

\* When an instruction takes over the destination of the Mov behind it, which
\* becomes a Nop, the counts of the variables stay.
ForwardsTo(b, c, k) ==
  /\ 1 <= k /\ k + 1 <= Len(b) /\ Len(c) = Len(b)
  /\ \A i \in 1 .. Len(b) : i # k /\ i # k + 1 => c[i] = b[i]
  /\ Len(b[k].args) >= 1 /\ Len(b[k + 1].args) = 2
  /\ Len(c[k].args) = Len(b[k].args) /\ Len(c[k + 1].args) = 0
  /\ c[k].args[1] = b[k + 1].args[1]
  /\ \A j \in 2 .. Len(b[k].args) : c[k].args[j] = b[k].args[j]

LEMMA CountsForwarded ==
  ASSUME NEW b \in Body, NEW c \in Body, NEW k \in Nat, ForwardsTo(b, c, k),
         NEW r, OnlyAt(b, r, <<k, 1>>, <<k + 1, 2>>),
         NEW o \in OperandsOf(c), o.kind = "variable"
  PROVE  o \in OperandsOf(b) /\ Cardinality(Uses(c, o)) = Cardinality(Uses(b, o))
<1> DEFINE p == <<k, 1>>
           q == <<k + 1, 2>>
           Old == {u \in Positions(b) : u[1] # k + 1 /\ u # p}
           Rest == Positions(b) \ {p, q}
<1>1. Len(b) \in Nat /\ 1 <= k /\ k <= Len(b) /\ k + 1 <= Len(b) /\ Len(c) = Len(b) /\ k + 1 \in Nat
  BY BodyFacts DEF FusesTo, ForwardsTo
<1>2. /\ Len(b[k].args) >= 1 /\ Len(b[k + 1].args) = 2
      /\ Len(c[k].args) = Len(b[k].args) /\ Len(c[k + 1].args) = 0
      /\ Len(b[k].args) \in Nat
  BY <1>1, BodyFacts DEF ForwardsTo, Code, Instruction
<1>3. \A i \in 1 .. Len(b) : i # k /\ i # k + 1 => c[i] = b[i]
  BY DEF ForwardsTo
<1>4. p \in Positions(b) /\ <<k + 1, 1>> \in Positions(b) /\ q \in Positions(b)
  <2>1. p \in Positions(b)
    BY <1>1, <1>2, PositionIs
  <2>2. <<k + 1, 1>> \in Positions(b) /\ q \in Positions(b)
    <3>1. ASSUME NEW j \in 1 .. 2 PROVE <<k + 1, j>> \in Positions(b)
      <4>1. j \in Nat /\ 1 <= j /\ j <= Len(b[k + 1].args) /\ 1 <= k + 1
        BY <1>1, <1>2
      <4>2. QED
        BY <1>1, <4>1, PositionIs
    <3>2. 1 \in 1 .. 2 /\ 2 \in 1 .. 2
      OBVIOUS
    <3>3. QED
      BY <3>1, <3>2
  <2>3. QED
    BY <2>1, <2>2
<1>5. Rest = Old \cup {<<k + 1, 1>>}
  <2>1. ASSUME NEW u \in Rest PROVE u \in Old \cup {<<k + 1, 1>>}
    <3>1. PICK i \in Nat, j \in Nat : u = <<i, j>>
      BY PositionPair
    <3>2. CASE i = k + 1
      <4>1. 1 <= j /\ j <= Len(b[i].args)
        BY <3>1, PositionIs
      <4>2. Len(b[i].args) = 2
        BY <1>2, <3>2
      <4>3. j = 1 \/ j = 2
        BY <4>1, <4>2
      <4>4. QED
        BY <3>1, <3>2, <4>3
    <3>3. CASE i # k + 1
      BY <3>1, <3>3
    <3>4. QED
      BY <3>2, <3>3
  <2>2. Old \subseteq Rest
    OBVIOUS
  <2>3. QED
    BY <1>4, <2>1, <2>2
<1>6. \A i, j \in Nat : i # k + 1 => (<<i, j>> \in Positions(c) <=> <<i, j>> \in Positions(b))
  <2>1. ASSUME NEW i \in Nat, NEW j \in Nat, i # k + 1
        PROVE  <<i, j>> \in Positions(c) <=> <<i, j>> \in Positions(b)
    <3>1. <<i, j>> \in Positions(b) <=> 1 <= i /\ i <= Len(b) /\ 1 <= j /\ j <= Len(b[i].args)
      BY PositionIs
    <3>2. <<i, j>> \in Positions(c) <=> 1 <= i /\ i <= Len(b) /\ 1 <= j /\ j <= Len(c[i].args)
      BY <1>1, PositionIs
    <3>3. 1 <= i /\ i <= Len(b) => Len(c[i].args) = Len(b[i].args)
      <4>1. CASE i = k
        BY <1>2, <4>1
      <4>2. CASE i # k
        BY <1>1, <1>3, <2>1, <4>2
      <4>3. QED
        BY <4>1, <4>2
    <3>4. QED
      BY <3>1, <3>2, <3>3
  <2>2. QED
    BY <2>1
<1>7. Positions(c) = Old \cup {p}
  <2>1. ASSUME NEW u \in Positions(c) PROVE u \in Old \cup {p}
    <3>1. PICK i \in Nat, j \in Nat : u = <<i, j>>
      BY PositionPair
    <3>2. i # k + 1
      <4>1. 1 <= j /\ j <= Len(c[i].args)
        BY <3>1, PositionIs
      <4>2. i = k + 1 => Len(c[i].args) = 0
        BY <1>2
      <4>3. QED
        BY <4>1, <4>2
    <3>3. QED
      BY <1>6, <3>1, <3>2
  <2>2. ASSUME NEW u \in Old PROVE u \in Positions(c)
    <3>1. PICK i \in Nat, j \in Nat : u = <<i, j>>
      BY PositionPair
    <3>2. QED
      BY <1>6, <3>1
  <2>3. p \in Positions(c)
    BY <1>1, <1>4, <1>6
  <2>4. QED
    BY <2>1, <2>2, <2>3
<1>8. \A u \in Old : u # p /\ u # <<k + 1, 1>> /\ OperandAt(c, u) = OperandAt(b, u)
  <2>1. ASSUME NEW u \in Old PROVE OperandAt(c, u) = OperandAt(b, u)
    <3>1. PICK i \in Nat, j \in Nat : u = <<i, j>>
      BY PositionPair
    <3>2. 1 <= i /\ i <= Len(b) /\ i # k + 1 /\ 1 <= j /\ j <= Len(b[i].args)
      BY <3>1, PositionIs
    <3>3. CASE i = k
      <4>1. j # 1
        BY <3>1, <3>3
      <4>2. j \in 2 .. Len(b[k].args)
        BY <1>2, <3>2, <3>3, <4>1
      <4>3. c[k].args[j] = b[k].args[j]
        BY <4>2 DEF ForwardsTo
      <4>4. QED
        BY <3>1, <3>3, <4>3 DEF OperandAt
    <3>4. CASE i # k
      <4>1. c[i] = b[i]
        BY <1>1, <1>3, <3>2, <3>4
      <4>2. QED
        BY <3>1, <4>1 DEF OperandAt
    <3>5. QED
      BY <3>3, <3>4
  <2>2. QED
    BY <2>1
<1> DEFINE move == [u \in Rest |-> IF u = <<k + 1, 1>> THEN p ELSE u]
<1>9. move = [u \in Rest |-> move[u]]
  OBVIOUS
<1>10. move[<<k + 1, 1>>] = p /\ \A u \in Old : move[u] = u
  <2>1. <<k + 1, 1>> \in Rest /\ Old \subseteq Rest
    BY <1>5
  <2>2. QED
    BY <1>8, <2>1
<1> HIDE DEF move, Rest, Old, p, q
<1>11. move \in Bijection(Rest, Positions(c))
  <2> DEFINE All == Positions(c)
  <2>1. \A u \in Rest : move[u] \in All
    BY <1>5, <1>7, <1>10
  <2>2. \A v \in All : \E u \in Rest : move[u] = v
    BY <1>5, <1>7, <1>10
  <2>3. \A u, v \in Rest : move[u] = move[v] => u = v
    BY <1>5, <1>8, <1>10
  <2> HIDE DEF All
  <2>4. [u \in Rest |-> move[u]] \in [Rest -> All]
    BY <2>1
  <2>5. move \in [Rest -> All]
    BY <1>9, <2>4
  <2>6. move \in Bijection(Rest, All)
    BY <2>2, <2>3, <2>5 DEF Bijection, Injection, Surjection, IsInjective
  <2>7. QED
    BY <2>6 DEF All
<1>12. ASSUME NEW u \in Rest
       PROVE  OperandAt(c, move[u]) = OperandAt(b, u)
  <2>1. OperandAt(c, p) = OperandAt(b, <<k + 1, 1>>)
    BY DEF OperandAt, ForwardsTo, p
  <2>2. QED
    BY <1>5, <1>8, <1>10, <2>1
<1>13. move \in Bijection(Positions(b) \ {p, q}, Positions(c))
  BY <1>11 DEF Rest
<1>14. \A u \in Positions(b) \ {p, q} : OperandAt(c, move[u]) = OperandAt(b, u)
  BY <1>12 DEF Rest
<1>15. p \in Uses(b, r) /\ q \in Uses(b, r) /\ (r.kind = "variable" => Uses(b, r) = {p, q})
  BY DEF p, q, OnlyAt
<1>16. QED
  BY <1>13, <1>14, <1>15, Rearranged

\* The mark of a branch.
LEMMA BranchMark ==
  ASSUME NEW il
  PROVE  /\ il.op \in ConditionalBranch => ControlOf(il) = << <<"to", {il.args[2]}>> >>
         /\ il.op \in CompareBranch => ControlOf(il) = << <<"to", {il.args[3]}>> >>
<1>1. ASSUME il.op \in ConditionalBranch PROVE ControlOf(il) = << <<"to", {il.args[2]}>> >>
  <2>1. TargetOf(il) = {il.args[2]}
    BY <1>1 DEF TargetOf, ConditionalBranch, CompareBranch
  <2>2. il.op # "Label" /\ TargetOf(il) # {}
    BY <1>1, <2>1 DEF ConditionalBranch
  <2>3. QED
    BY <2>1, <2>2 DEF ControlOf
<1>2. ASSUME il.op \in CompareBranch PROVE ControlOf(il) = << <<"to", {il.args[3]}>> >>
  <2>1. TargetOf(il) = {il.args[3]}
    BY <1>2 DEF TargetOf, ConditionalBranch, CompareBranch
  <2>2. il.op # "Label" /\ TargetOf(il) # {}
    BY <1>2, <2>1 DEF CompareBranch
  <2>3. QED
    BY <2>1, <2>2 DEF ControlOf
<1>3. QED
  BY <1>1, <1>2

\* The copy after a comparison and its branch are fused.
LEMMA Fused ==
  ASSUME NEW b \in Body, NEW k \in Nat, 1 <= k, k + 1 <= Len(b),
         b[k].op \in Comparison, b[k + 1].op \in ConditionalBranch
  PROVE  LET c == [b EXCEPT ![k] = FusedBranch(b[k], b[k + 1]), ![k + 1] = Nop]
         IN /\ c \in Body /\ Len(c) = Len(b) /\ Control(c) = Control(b)
            /\ \E two \in {1, 2} : FusesTo(b, c, k, two)
<1> DEFINE il == b[k]
           branch == b[k + 1]
           x == FusedBranch(il, branch)
           c == [b EXCEPT ![k] = x, ![k + 1] = Nop]
<1>1. k \in 1 .. Len(b) /\ k + 1 \in 1 .. Len(b)
  BY BodyFacts
<1>2. il \in Code /\ branch \in Code
  BY <1>1, BodyFacts
<1>3. il.op \in Comparison /\ branch.op \in ConditionalBranch
  OBVIOUS
<1> HIDE DEF il, branch
<1>4. /\ Len(il.args) = 3 /\ Len(branch.args) = 2
      /\ x.op \in CompareBranch /\ x \in Code
      /\ \/ x.args = <<il.args[2], il.args[3], branch.args[2]>>
         \/ x.args = <<il.args[3], il.args[2], branch.args[2]>>
  BY <1>2, <1>3, FusedFacts
<1> HIDE DEF x
<1>5. Len(x.args) = 3 /\ x.args[3] = branch.args[2]
  <2> DEFINE s == x.args
             w == branch.args[2]
  <2>1. PICK u, v : s = <<u, v, w>>
    BY <1>4
  <2> HIDE DEF s, w
  <2>2. Len(s) = 3 /\ s[3] = w
    BY <2>1
  <2>3. QED
    BY <2>2 DEF s, w
<1>6. ControlOf(il) \o ControlOf(branch) = ControlOf(x) \o ControlOf(Nop)
  <2>1. ControlOf(il) = <<>>
    BY <1>2, <1>3, NoMark DEF Comparison, ConditionalBranch, CompareBranch
  <2>2. ControlOf(Nop) = <<>>
    BY NopIsCode, NoMark DEF ConditionalBranch, CompareBranch
  <2>3. ControlOf(branch) = ControlOf(x)
    BY <1>3, <1>4, <1>5, BranchMark
  <2>4. ControlOf(x) \in Seq(Mark)
    BY <1>4, ControlOfType
  <2> DEFINE m == ControlOf(x)
  <2> HIDE DEF m
  <2>5. m \in Seq(Mark)
    BY <2>4 DEF m
  <2>6. <<>> \o m = m \o <<>>
    BY <2>5, ConcatEmptySeq
  <2>7. QED
    BY <2>1, <2>2, <2>3, <2>6 DEF m
<1>7. /\ c \in Body /\ Len(c) = Len(b) /\ Control(c) = Control(b)
      /\ c[k] = x /\ c[k + 1] = Nop
      /\ \A i \in 1 .. Len(b) : i # k /\ i # k + 1 => c[i] = b[i]
  <2>1. ControlOf(b[k]) \o ControlOf(b[k + 1]) = ControlOf(x) \o ControlOf(Nop)
    BY <1>6 DEF il, branch
  <2>2. x \in Code /\ Nop \in Code
    BY <1>4, NopIsCode
  <2>3. c = [b EXCEPT ![k] = x, ![k + 1] = Nop]
    OBVIOUS
  <2> HIDE DEF c
  <2>4. Replaces(b, c, k, x, Nop)
    BY <1>1, <2>1, <2>2, <2>3 DEF Replaces
  <2>5. QED
    BY <2>4, TwoReplaced
<1> HIDE DEF c
<1>8. Len(c[k + 1].args) = 0
  BY <1>7, NopIsCode
<1>9. \E two \in {1, 2} : x.args[two] = il.args[2] /\ x.args[3 - two] = il.args[3]
  <2>1. CASE x.args = <<il.args[2], il.args[3], branch.args[2]>>
    <3>1. x.args[1] = il.args[2] /\ x.args[3 - 1] = il.args[3]
      BY <2>1
    <3>2. QED
      BY <3>1
  <2>2. CASE x.args = <<il.args[3], il.args[2], branch.args[2]>>
    <3>1. x.args[2] = il.args[2] /\ x.args[3 - 2] = il.args[3]
      BY <2>2
    <3>2. QED
      BY <3>1
  <2>3. QED
    BY <1>4, <2>1, <2>2
<1>10. PICK two \in {1, 2} : x.args[two] = il.args[2] /\ x.args[3 - two] = il.args[3]
  BY <1>9
<1>11. FusesTo(b, c, k, two)
  BY <1>4, <1>5, <1>7, <1>8, <1>10 DEF FusesTo, il, branch
<1>12. QED
  BY <1>7, <1>11 DEF c, x, il, branch

\* The copy after a Mov or Conv is forwarded.
LEMMA Forwarded ==
  ASSUME NEW b \in Body, NEW k \in Nat, 1 <= k, k + 1 <= Len(b),
         b[k].op \in Forwardable, b[k + 1].op \in {"Mov", "Conv"}
  PROVE  LET c == [b EXCEPT ![k].args[1] = b[k + 1].args[1], ![k + 1] = Nop]
         IN /\ c \in Body /\ Len(c) = Len(b) /\ Control(c) = Control(b)
            /\ ForwardsTo(b, c, k)
<1> DEFINE il == b[k]
           mov == b[k + 1]
           d == mov.args[1]
           x == [il EXCEPT !.args[1] = d]
           c == [b EXCEPT ![k] = x, ![k + 1] = Nop]
<1>1. k \in 1 .. Len(b) /\ k + 1 \in 1 .. Len(b) /\ k + 1 # k
  BY BodyFacts
<1>2. il \in Code /\ mov \in Code
  BY <1>1, BodyFacts
<1>3. il.op \in Forwardable /\ mov.op \in {"Mov", "Conv"}
  OBVIOUS
<1>4. [b EXCEPT ![k].args[1] = mov.args[1], ![k + 1] = Nop] = c
  OBVIOUS
<1> HIDE DEF il, mov
<1>5. Len(mov.args) = 2 /\ d \in Operand
  BY <1>2, <1>3 DEF Code, Instruction, WellFormed
<1>6. il.args \in Seq(Operand) /\ Len(il.args) \in Nat /\ Len(il.args) >= 2
  <2>1. il.args \in Seq(Operand)
    BY <1>2 DEF Code, Instruction
  <2>2. WellFormed(il)
    BY <1>2 DEF Code
  <2>3. Len(il.args) = 3 \/ Len(il.args) = 2
    BY <1>3, <2>2 DEF WellFormed, Forwardable
  <2> DEFINE s == il.args
  <2> HIDE DEF s
  <2>4. s \in Seq(Operand) /\ (Len(s) = 3 \/ Len(s) = 2)
    BY <2>1, <2>3 DEF s
  <2> HIDE DEF d, x, c
  <2>5. Len(s) \in Nat /\ Len(s) >= 2
    <3>1. Len(s) \in Nat
      BY <2>4, LenProperties
    <3> DEFINE n == Len(s)
    <3>2. n \in Nat /\ (n = 3 \/ n = 2)
      BY <2>4, <3>1
    <3> HIDE DEF n
    <3>3. n >= 2
      BY <3>2
    <3>4. QED
      BY <3>1, <3>3 DEF n
  <2>6. QED
    BY <2>4, <2>5 DEF s
<1> HIDE DEF d
<1>7. /\ x.op = il.op /\ Len(x.args) = Len(il.args) /\ x.args \in Seq(Operand)
      /\ x.args[1] = d /\ \A j \in 2 .. Len(il.args) : x.args[j] = il.args[j]
      /\ x = IL(il.op, x.args)
  <2> DEFINE s == il.args
             y == [s EXCEPT ![1] = d]
  <2>1. il = [op |-> il.op, args |-> s]
    BY <1>2 DEF Code, Instruction
  <2>2. x = [op |-> il.op, args |-> y]
    BY <2>1
  <2>3. s \in Seq(Operand) /\ Len(s) >= 2 /\ Len(s) \in Nat
    BY <1>6
  <2> HIDE DEF s
  <2>4. y \in Seq(Operand) /\ Len(y) = Len(s) /\ y[1] = d /\ \A j \in 2 .. Len(s) : y[j] = s[j]
    BY <1>5, <2>3
  <2> HIDE DEF x, y
  <2>5. x.op = il.op /\ x.args = y
    BY <2>2
  <2>6. QED
    BY <2>2, <2>4, <2>5 DEF s, IL
<1> HIDE DEF x
<1>8. x \in Code
  <2>1. WellFormed(x)
    BY <1>2, <1>7 DEF Code, WellFormed
  <2>2. il.op \in Opcodes
    BY <1>2 DEF Code, Instruction
  <2>3. QED
    BY <1>7, <2>1, <2>2, CodeIs
<1>9. ControlOf(il) \o ControlOf(mov) = ControlOf(x) \o ControlOf(Nop)
  <2>1. ControlOf(il) = <<>> /\ ControlOf(mov) = <<>> /\ ControlOf(x) = <<>>
    BY <1>2, <1>3, <1>7, <1>8, NoMark DEF Forwardable, ConditionalBranch, CompareBranch
  <2>2. ControlOf(Nop) = <<>>
    BY NopIsCode, NoMark DEF ConditionalBranch, CompareBranch
  <2>3. QED
    BY <2>1, <2>2
<1>10. /\ c \in Body /\ Len(c) = Len(b) /\ Control(c) = Control(b)
       /\ c[k] = x /\ c[k + 1] = Nop
       /\ \A i \in 1 .. Len(b) : i # k /\ i # k + 1 => c[i] = b[i]
  <2>1. ControlOf(b[k]) \o ControlOf(b[k + 1]) = ControlOf(x) \o ControlOf(Nop)
    BY <1>9 DEF il, mov
  <2>2. Nop \in Code
    BY NopIsCode
  <2>3. c = [b EXCEPT ![k] = x, ![k + 1] = Nop]
    OBVIOUS
  <2> HIDE DEF c
  <2>4. Replaces(b, c, k, x, Nop)
    BY <1>1, <1>8, <2>1, <2>2, <2>3 DEF Replaces
  <2>5. QED
    BY <2>4, TwoReplaced
<1> HIDE DEF c
<1>11. Len(c[k + 1].args) = 0
  BY <1>10, NopIsCode
<1>12. ForwardsTo(b, c, k)
  <2>1. /\ b[k] = il /\ b[k + 1] = mov /\ c[k] = x
        /\ Len(il.args) >= 1 /\ Len(x.args) = Len(il.args) /\ x.args[1] = mov.args[1]
        /\ \A j \in 2 .. Len(il.args) : x.args[j] = il.args[j]
    BY <1>6, <1>7, <1>10 DEF il, mov, d
  <2>2. QED
    BY <1>5, <1>10, <1>11, <2>1 DEF ForwardsTo
<1>13. QED
  BY <1>4, <1>10, <1>12 DEF mov

-----------------------------------------------------------------------------
(* The invariant                                                           *)

\* The first pass starts from the body as it is.
LEMMA InvInit == Init => OptimizerInv
<1>1. SUFFICES ASSUME Init PROVE OptimizerInv
  OBVIOUS
<1>2. program \in Seq(Body) /\ Len(program) \in Nat
  BY <1>1, ProgramsAssumption DEF Init
<1>3. ils \in Body
  <2>1. CASE program = <<>>
    <3>1. <<>> \in Body
      BY DEF Body
    <3>2. QED
      BY <1>1, <2>1, <3>1 DEF Init, Begin
  <2>2. CASE program # <<>>
    <3>1. Len(program) # 0
      BY <1>2, <2>2, EmptySeq
    <3>2. 1 \in 1 .. Len(program)
      BY <1>2, <3>1
    <3>3. program[1] \in Body
      BY <1>2, <3>2
    <3>4. QED
      BY <1>1, <2>2, <3>3 DEF Init, Begin
  <2>3. QED
    BY <2>1, <2>2
<1>4. TypeOK
  <2>1. Len(ils) \in Nat
    BY <1>3, BodyFacts
  <2>2. fn = 1 /\ at = 1 /\ optimized = FALSE
    BY <1>1 DEF Init, Begin
  <2>3. 1 \in 1 .. (Len(program) + 1) /\ 1 \in 1 .. (Len(ils) + 1)
    BY <1>2, <2>1
  <2>4. QED
    BY <1>2, <1>3, <2>2, <2>3 DEF TypeOK
<1>5. ~Done => ils = body
  BY <1>1, <1>2, EmptySeq DEF Init, Begin, Done, body
<1>6. QED
  BY <1>4, <1>5 DEF OptimizerInv, CountsFresh, ControlFresh

\* A variable that a rewriting removes is only in the two places it is removed
\* from, when OperandUsedTwice says so of the body.
LEMMA OnlyThere ==
  ASSUME TypeOK, CountsFresh, ~Done, NEW r, NEW p, NEW q,
         p \in Uses(ils, r), q \in Uses(ils, r), p # q, UsedTwice(body, r)
  PROVE  OnlyAt(ils, r, p, q)
<1>1. ils \in Body /\ body \in Body
  BY Working
<1>2. ASSUME r.kind = "variable" PROVE Uses(ils, r) = {p, q}
  <2>1. r \in OperandsOf(ils)
    BY DEF OperandsOf, Uses
  <2>2. Cardinality(Uses(ils, r)) = Cardinality(Uses(body, r))
    BY <1>2, <2>1 DEF CountsFresh
  <2>3. QED
    BY <1>1, <2>2, CountedTwice
<1>3. QED
  BY <1>2 DEF OnlyAt

\* The counts of a copy whose variables are those of ils, used as often.
LEMMA CountsCarried ==
  ASSUME CountsFresh, ~Done, UNCHANGED <<program, fn>>,
         \A o \in OperandsOf(ils') : o.kind = "variable" =>
           /\ o \in OperandsOf(ils)
           /\ Cardinality(Uses(ils', o)) = Cardinality(Uses(ils, o))
  PROVE  CountsFresh'
<1>1. body' = body
  BY DEF body
<1>2. ASSUME NEW o \in OperandsOf(ils'), o.kind = "variable"
      PROVE  Cardinality(Uses(ils', o)) = Cardinality(Uses(body', o))
  BY <1>1, <1>2 DEF CountsFresh
<1>3. (OperandsOf(ils))' = OperandsOf(ils') /\ \A o : (Uses(ils, o))' = Uses(ils', o)
  BY DEF OperandsOf, Uses, Positions
<1>4. \A o : (Uses(body, o))' = Uses(body', o)
  BY DEF Uses, Positions, body
<1>5. QED
  BY <1>2, <1>3, <1>4 DEF CountsFresh

\* A step of a pass that is not its end.
LEMMA Within ==
  ASSUME OptimizerInv, ~Done, UNCHANGED <<program, fn>>, optimized' \in BOOLEAN,
         at' = at + 1, at \in 1 .. Len(ils), ils' \in Body, Len(ils') = Len(ils),
         Control(ils') = Control(ils), CountsFresh'
  PROVE  OptimizerInv'
<1>1. TypeOK'
  <2>1. Len(ils) \in Nat /\ at \in Nat
    BY Working DEF OptimizerInv
  <2>2. (at \in 1 .. (Len(ils) + 1))'
    BY <2>1
  <2>3. QED
    BY <2>2 DEF OptimizerInv, TypeOK
<1>2. ControlFresh'
  BY DEF OptimizerInv, ControlFresh, body, Control
<1>3. QED
  BY <1>1, <1>2 DEF OptimizerInv

\* Fusing a comparison with its branch keeps the invariant (ILOptimizer.cpp:81).
LEMMA FuseBranchStep == OptimizerInv /\ FuseBranch => OptimizerInv'
<1>1. SUFFICES ASSUME OptimizerInv, FuseBranch PROVE OptimizerInv'
  OBVIOUS
<1>2. TypeOK /\ CountsFresh /\ Inside
  BY <1>1 DEF OptimizerInv, FuseBranch
<1>3. ~Done /\ at \in Nat /\ at \in 1 .. Len(ils) /\ 1 <= at /\ at + 1 <= Len(ils) /\ ils \in Body
  BY <1>2, InsideFacts DEF TypeOK
<1>4. /\ ils[at].op \in Comparison /\ ils[at + 1].op \in ConditionalBranch
      /\ ils[at + 1].args[1] = ils[at].args[1] /\ UsedTwice(body, ils[at].args[1])
      /\ ils' = [ils EXCEPT ![at] = FusedBranch(ils[at], ils[at + 1]), ![at + 1] = Nop]
      /\ at' = at + 1 /\ optimized' = TRUE /\ program' = program /\ fn' = fn
  BY <1>1 DEF FuseBranch, CanFuse, Here, Ahead
<1>5. /\ ils' \in Body /\ Len(ils') = Len(ils) /\ Control(ils') = Control(ils)
      /\ \E two \in {1, 2} : FusesTo(ils, ils', at, two)
  BY <1>3, <1>4, Fused
<1>6. PICK two \in {1, 2} : FusesTo(ils, ils', at, two)
  BY <1>5
<1> DEFINE r == ils[at].args[1]
           p == <<at, 1>>
           q == <<at + 1, 1>>
<1>7. p \in Uses(ils, r) /\ q \in Uses(ils, r) /\ p # q
  <2>1. Len(ils[at].args) = 3 /\ Len(ils[at + 1].args) = 2
    BY <1>6 DEF FusesTo
  <2>2. p \in Positions(ils)
    BY <1>3, <2>1, PositionIs
  <2>3. q \in Positions(ils)
    <3>1. at + 1 \in Nat /\ 1 <= at + 1 /\ 1 <= Len(ils[at + 1].args)
      BY <1>3, <2>1
    <3>2. QED
      BY <1>3, <3>1, PositionIs
  <2>4. QED
    BY <1>3, <1>4, <2>2, <2>3 DEF Uses
<1>8. OnlyAt(ils, r, p, q)
  BY <1>2, <1>3, <1>4, <1>7, OnlyThere
<1>9. CountsFresh'
  <2>1. ASSUME NEW o \in OperandsOf(ils'), o.kind = "variable"
        PROVE  o \in OperandsOf(ils) /\ Cardinality(Uses(ils', o)) = Cardinality(Uses(ils, o))
    BY <1>3, <1>5, <1>6, <1>8, <2>1, CountsFused
  <2>2. QED
    BY <1>2, <1>3, <1>4, <2>1, CountsCarried
<1>10. QED
  BY <1>1, <1>3, <1>4, <1>5, <1>9, Within

\* So does forwarding a Mov or Conv.
LEMMA ForwardStep == OptimizerInv /\ Forward => OptimizerInv'
<1>1. SUFFICES ASSUME OptimizerInv, Forward PROVE OptimizerInv'
  OBVIOUS
<1>2. TypeOK /\ CountsFresh /\ Inside
  BY <1>1 DEF OptimizerInv, Forward
<1>3. ~Done /\ at \in Nat /\ at \in 1 .. Len(ils) /\ at - 1 \in 1 .. Len(ils) /\ ils \in Body
  BY <1>2, InsideFacts DEF TypeOK
<1>4. PICK k \in Nat : k = at - 1
  BY <1>3
<1>5. at = k + 1 /\ 1 <= k /\ k + 1 <= Len(ils)
  BY <1>3, <1>4
<1>6. /\ ils[k].op \in Forwardable /\ ils[k + 1].op \in {"Mov", "Conv"}
      /\ ils[k].args[1] = ils[k + 1].args[2] /\ UsedTwice(body, ils[k].args[1])
      /\ ils' = [ils EXCEPT ![k].args[1] = ils[k + 1].args[1], ![k + 1] = Nop]
      /\ at' = at + 1 /\ optimized' = TRUE /\ program' = program /\ fn' = fn
  BY <1>1, <1>4, <1>5 DEF Forward, CanForward, Here, Behind
<1>7. /\ ils' \in Body /\ Len(ils') = Len(ils) /\ Control(ils') = Control(ils)
      /\ ForwardsTo(ils, ils', k)
  BY <1>3, <1>5, <1>6, Forwarded
<1> DEFINE r == ils[k].args[1]
           p == <<k, 1>>
           q == <<k + 1, 2>>
<1>8. p \in Uses(ils, r) /\ q \in Uses(ils, r) /\ p # q
  <2>1. Len(ils[k].args) >= 1 /\ Len(ils[k + 1].args) = 2
    BY <1>7 DEF ForwardsTo
  <2>2. p \in Positions(ils)
    BY <1>3, <1>5, <2>1, PositionIs
  <2>3. q \in Positions(ils)
    <3>1. k + 1 \in Nat /\ 1 <= k + 1 /\ 2 <= Len(ils[k + 1].args)
      BY <2>1
    <3>2. QED
      BY <1>3, <1>5, <3>1, PositionIs
  <2>4. QED
    BY <1>6, <2>2, <2>3 DEF Uses
<1>9. OnlyAt(ils, r, p, q)
  BY <1>2, <1>3, <1>6, <1>8, OnlyThere
<1>10. CountsFresh'
  <2>1. ASSUME NEW o \in OperandsOf(ils'), o.kind = "variable"
        PROVE  o \in OperandsOf(ils) /\ Cardinality(Uses(ils', o)) = Cardinality(Uses(ils, o))
    BY <1>3, <1>7, <1>9, <2>1, CountsForwarded
  <2>2. QED
    BY <1>2, <1>3, <1>6, <2>1, CountsCarried
<1>11. QED
  BY <1>1, <1>3, <1>6, <1>7, <1>10, Within

\* An instruction that is left alone changes nothing but the iterator.
LEMMA SkipStep == OptimizerInv /\ Skip => OptimizerInv'
<1>1. SUFFICES ASSUME OptimizerInv, Skip PROVE OptimizerInv'
  OBVIOUS
<1>2. ~Done /\ at <= Len(ils) /\ at' = at + 1 /\ UNCHANGED <<program, fn, ils, optimized>>
  BY <1>1 DEF Skip, Scanning
<1>3. at \in 1 .. Len(ils) /\ ils' \in Body /\ optimized' \in BOOLEAN
  BY <1>1, <1>2 DEF OptimizerInv, TypeOK
<1>4. CountsFresh'
  BY <1>1, <1>2, CountsCarried DEF OptimizerInv
<1>5. QED
  BY <1>1, <1>2, <1>3, <1>4, Within

\* A pass ends: what the next one starts from.
LEMMA EndPassStep == OptimizerInv /\ EndPass => OptimizerInv'
<1>1. SUFFICES ASSUME OptimizerInv, EndPass PROVE OptimizerInv'
  OBVIOUS
<1>2. TypeOK /\ ~Done
  BY <1>1 DEF OptimizerInv, EndPass
<1>3. program \in Seq(Body) /\ Len(program) \in Nat /\ fn \in 1 .. Len(program) /\ ils \in Body
  BY <1>2, Working
<1>4. /\ program' = [program EXCEPT ![fn] = DeleteNops(ils)]
      /\ fn' = IF optimized THEN fn ELSE fn + 1
      /\ ils' = IF fn' <= Len(program) THEN program'[fn'] ELSE <<>>
      /\ at' = 1 /\ optimized' = FALSE
  BY <1>1 DEF EndPass
<1>5. program' \in Seq(Body) /\ Len(program') = Len(program)
  <2>1. DeleteNops(ils) \in Body
    BY <1>3, DeleteNopsType
  <2>2. QED
    BY <1>3, <1>4, <2>1
<1>6. fn' \in 1 .. (Len(program) + 1)
  BY <1>3, <1>4
<1>7. ils' \in Body
  <2>1. CASE fn' <= Len(program)
    <3>1. fn' \in 1 .. Len(program')
      BY <1>3, <1>5, <1>6, <2>1
    <3>2. program'[fn'] \in Body
      BY <1>5, <3>1
    <3>3. QED
      BY <1>4, <2>1, <3>2
  <2>2. CASE ~(fn' <= Len(program))
    <3>1. <<>> \in Body
      BY DEF Body
    <3>2. QED
      BY <1>4, <2>2, <3>1
  <2>3. QED
    BY <2>1, <2>2
<1>8. TypeOK'
  <2>1. Len(ils') \in Nat
    BY <1>7, BodyFacts
  <2>2. 1 \in 1 .. (Len(ils') + 1)
    BY <2>1
  <2>3. QED
    BY <1>4, <1>5, <1>6, <1>7, <2>2 DEF TypeOK
<1>9. ~Done' => ils' = body'
  BY <1>3, <1>4, <1>5, <1>6 DEF Done, body
<1>10. CountsFresh'
  BY <1>9 DEF CountsFresh, body, OperandsOf, Uses, Positions
<1>11. ControlFresh'
  BY <1>9 DEF ControlFresh, body, Control
<1>12. QED
  BY <1>8, <1>10, <1>11 DEF OptimizerInv

\* In every state of every run the copy counts as the body does and has its
\* labels and branches: the fact the three theorems below rest on.
THEOREM OptimizerInvHolds == Spec => []OptimizerInv
<1>1. Init => OptimizerInv
  BY InvInit
<1>2. OptimizerInv /\ [Next]_vars => OptimizerInv'
  <2>1. SUFFICES ASSUME OptimizerInv, [Next]_vars PROVE OptimizerInv'
    OBVIOUS
  <2>2. CASE FuseBranch
    BY <2>1, <2>2, FuseBranchStep
  <2>3. CASE Forward
    BY <2>1, <2>3, ForwardStep
  <2>4. CASE Skip
    BY <2>1, <2>4, SkipStep
  <2>5. CASE EndPass
    BY <2>1, <2>5, EndPassStep
  <2>6. CASE UNCHANGED vars
    <3>1. /\ program' = program /\ fn' = fn /\ ils' = ils /\ at' = at /\ optimized' = optimized
          /\ TypeOK /\ CountsFresh /\ ControlFresh
      BY <2>1, <2>6 DEF vars, OptimizerInv
    <3>2. TypeOK'
      BY <3>1 DEF TypeOK
    <3>3. CASE Done
      <4>1. Done'
        BY <3>1, <3>3 DEF Done
      <4>2. QED
        BY <3>2, <4>1 DEF OptimizerInv, CountsFresh, ControlFresh
    <3>4. CASE ~Done
      <4>1. CountsFresh'
        BY <3>1, <3>4, CountsCarried
      <4>2. ControlFresh'
        BY <3>1, <3>4 DEF ControlFresh, body, Control
      <4>3. QED
        BY <3>2, <4>1, <4>2 DEF OptimizerInv
    <3>5. QED
      BY <3>3, <3>4
  <2>7. QED
    BY <2>1, <2>2, <2>3, <2>4, <2>5, <2>6 DEF Next
<1>3. QED
  BY <1>1, <1>2, PTL DEF Spec

\* The instructions the optimizer makes have the operands later readers of them
\* take for granted, for every program.
THEOREM OptimizerTyped == Spec => []TypeOK
<1>1. OptimizerInv => TypeOK
  BY DEF OptimizerInv
<1>2. QED
  BY <1>1, OptimizerInvHolds, PTL

\* OperandUsedTwice, which counts in f->Body while the pass rewrites ils, gives
\* the answer it would give for ils: for every program and at every point of
\* every pass.
THEOREM CountsAgree == Spec => []CountsFresh
<1>1. OptimizerInv => CountsFresh
  BY DEF OptimizerInv
<1>2. QED
  BY <1>1, OptimizerInvHolds, PTL

\* No pass over any function loses, doubles or reorders a label or the dest of
\* a branch.
THEOREM LabelsKept == Spec => ControlKept
<1> DEFINE KeptAll == \A f \in DOMAIN program : Control(program'[f]) = Control(program[f])
<1>1. OptimizerInv /\ [Next]_vars => [KeptAll]_program
  <2>1. SUFFICES ASSUME OptimizerInv, [Next]_vars, program' # program PROVE KeptAll
    OBVIOUS
  <2>2. EndPass
    BY <2>1 DEF Next, FuseBranch, Forward, Skip, vars
  <2>3. TypeOK /\ ~Done
    BY <2>1, <2>2 DEF OptimizerInv, EndPass
  <2>4. program \in Seq(Body) /\ Len(program) \in Nat /\ fn \in 1 .. Len(program) /\ ils \in Body
    BY <2>3, Working
  <2>5. program' = [program EXCEPT ![fn] = DeleteNops(ils)]
    BY <2>2 DEF EndPass
  <2>6. Control(DeleteNops(ils)) = Control(program[fn])
    <3>1. Control(DeleteNops(ils)) = Control(ils)
      BY <2>4, NopsControl
    <3>2. Control(ils) = Control(program[fn])
      BY <2>1, <2>3 DEF OptimizerInv, ControlFresh, body
    <3>3. QED
      BY <3>1, <3>2
  <2>7. ASSUME NEW f \in DOMAIN program PROVE Control(program'[f]) = Control(program[f])
    <3>1. CASE f = fn
      <4>1. program'[f] = DeleteNops(ils)
        BY <2>5, <3>1
      <4>2. QED
        BY <2>6, <3>1, <4>1
    <3>2. CASE f # fn
      <4>1. program'[f] = program[f]
        BY <2>5, <3>2
      <4>2. QED
        BY <4>1
    <3>3. QED
      BY <3>1, <3>2
  <2>8. QED
    BY <2>7
<1>2. QED
  BY <1>1, OptimizerInvHolds, PTL DEF Spec, ControlKept

\* Rounding up makes no size smaller.
LEMMA RoundedUp ==
  ASSUME NEW n \in Nat, NEW a \in Nat
  PROVE  RoundUp(n, a) \in Nat /\ n <= RoundUp(n, a)
<1>1. CASE a = 0
  BY <1>1 DEF RoundUp
<1>2. CASE a # 0
  <2>1. n % a \in Nat /\ n % a < a
    BY <1>2
  <2>2. QED
    BY <1>2, <2>1 DEF RoundUp
<1>3. QED
  BY <1>1, <1>2

\* Sizes are numbers of bytes.
LEMMA SizeTyped ==
  ASSUME NEW type
  PROVE  SizeOf(type) \in Nat
BY WordAssumption DEF SizeOf, ArrayLength

\* A slot is as large as its variable, or larger.
LEMMA SlotTyped ==
  ASSUME NEW sym
  PROVE  SlotSize(sym) \in Nat /\ SizeOf(sym.type) <= SlotSize(sym)
BY SizeTyped, RoundedUp, WordAssumption DEF SlotSize

\* f is the function GlobalAddress defines, for the first n symbols.
IsGlobals(f, syms, n) ==
  f = [i \in 1 .. n |->
         RoundUp(IF i = 1 THEN W ELSE f[i - 1] + SizeOf(syms[i - 1].type),
                 Smaller(SizeOf(syms[i].type), W))]

\* The same of ParameterOffset.
IsParameters(f, params, ret, n) ==
  f = [i \in 1 .. n |->
         IF i = 1 THEN 2 * W + RoundUp(SizeOf(ret), W)
         ELSE RoundUp(f[i - 1], W) + SizeOf(params[i - 1].type)]

\* There is such a function, for any number of global variables,
LEMMA GlobalsExist ==
  ASSUME NEW syms, NEW n \in Nat
  PROVE  \E f : IsGlobals(f, syms, n)
<1> DEFINE P == {m \in Nat : \E f : IsGlobals(f, syms, m)}
<1>1. 0 \in P
  <2>1. IsGlobals([i \in 1 .. 0 |-> 0], syms, 0)
    BY DEF IsGlobals
  <2>2. QED
    BY <2>1
<1>2. ASSUME NEW m \in P PROVE m + 1 \in P
  <2>1. PICK f : IsGlobals(f, syms, m)
    OBVIOUS
  <2> DEFINE Of(i, p) == RoundUp(IF i = 1 THEN W ELSE p + SizeOf(syms[i - 1].type), Smaller(SizeOf(syms[i].type), W))
             g == [i \in 1 .. (m + 1) |-> IF i = m + 1 THEN Of(i, f[m]) ELSE f[i]]
  <2>2. m \in Nat /\ m + 1 \in Nat
    OBVIOUS
  <2>3. \A i \in 1 .. m : f[i] = Of(i, f[i - 1])
    BY <2>1 DEF IsGlobals
  <2>4. \A p, q : Of(1, p) = Of(1, q)
    OBVIOUS
  <2>5. ASSUME NEW i \in 1 .. (m + 1) PROVE g[i] = Of(i, g[i - 1])
    <3> HIDE DEF Of
    <3>1. CASE i = m + 1
      <4>1. g[i] = Of(i, f[m])
        BY <3>1
      <4>2. CASE m = 0
        <5>1. i = 1
          BY <3>1, <4>2
        <5>2. QED
          BY <2>4, <4>1, <5>1
      <4>3. CASE m # 0
        <5>1. m \in 1 .. (m + 1) /\ m # m + 1 /\ i - 1 = m
          BY <2>2, <3>1, <4>3
        <5>2. g[i - 1] = f[m]
          BY <5>1
        <5>3. QED
          BY <4>1, <5>2
      <4>4. QED
        BY <4>2, <4>3
    <3>2. CASE i # m + 1
      <4>1. i \in 1 .. m /\ (i # 1 => i - 1 \in 1 .. (m + 1) /\ i - 1 # m + 1)
        BY <2>2, <3>2
      <4>2. g[i] = Of(i, f[i - 1])
        BY <2>3, <3>2, <4>1
      <4>3. CASE i = 1
        BY <2>4, <4>2, <4>3
      <4>4. CASE i # 1
        <5>1. g[i - 1] = f[i - 1]
          BY <4>1, <4>4
        <5>2. QED
          BY <4>2, <5>1
      <4>5. QED
        BY <4>3, <4>4
    <3>3. QED
      BY <3>1, <3>2
  <2>6. IsGlobals(g, syms, m + 1)
    <3>1. g = [i \in 1 .. (m + 1) |-> g[i]]
      OBVIOUS
    <3> HIDE DEF g
    <3>2. QED
      BY <2>5, <3>1 DEF IsGlobals
  <2>7. QED
    BY <2>2, <2>6
<1>3. P = Nat
  <2> HIDE DEF P
  <2>1. P \in SUBSET Nat
    BY DEF P
  <2>2. QED
    BY <1>1, <1>2, <2>1, EveryNat
<1>4. QED
  BY <1>3

\* for any number of parameters,
LEMMA ParametersExist ==
  ASSUME NEW params, NEW ret, NEW n \in Nat
  PROVE  \E f : IsParameters(f, params, ret, n)
<1> DEFINE P == {m \in Nat : \E f : IsParameters(f, params, ret, m)}
<1>1. 0 \in P
  <2>1. IsParameters([i \in 1 .. 0 |-> 0], params, ret, 0)
    BY DEF IsParameters
  <2>2. QED
    BY <2>1
<1>2. ASSUME NEW m \in P PROVE m + 1 \in P
  <2>1. PICK f : IsParameters(f, params, ret, m)
    OBVIOUS
  <2> DEFINE Of(i, p) == IF i = 1 THEN 2 * W + RoundUp(SizeOf(ret), W) ELSE RoundUp(p, W) + SizeOf(params[i - 1].type)
             g == [i \in 1 .. (m + 1) |-> IF i = m + 1 THEN Of(i, f[m]) ELSE f[i]]
  <2>2. m \in Nat /\ m + 1 \in Nat
    OBVIOUS
  <2>3. \A i \in 1 .. m : f[i] = Of(i, f[i - 1])
    BY <2>1 DEF IsParameters
  <2>4. \A p, q : Of(1, p) = Of(1, q)
    OBVIOUS
  <2>5. ASSUME NEW i \in 1 .. (m + 1) PROVE g[i] = Of(i, g[i - 1])
    <3> HIDE DEF Of
    <3>1. CASE i = m + 1
      <4>1. g[i] = Of(i, f[m])
        BY <3>1
      <4>2. CASE m = 0
        <5>1. i = 1
          BY <3>1, <4>2
        <5>2. QED
          BY <2>4, <4>1, <5>1
      <4>3. CASE m # 0
        <5>1. m \in 1 .. (m + 1) /\ m # m + 1 /\ i - 1 = m
          BY <2>2, <3>1, <4>3
        <5>2. g[i - 1] = f[m]
          BY <5>1
        <5>3. QED
          BY <4>1, <5>2
      <4>4. QED
        BY <4>2, <4>3
    <3>2. CASE i # m + 1
      <4>1. i \in 1 .. m /\ (i # 1 => i - 1 \in 1 .. (m + 1) /\ i - 1 # m + 1)
        BY <2>2, <3>2
      <4>2. g[i] = Of(i, f[i - 1])
        BY <2>3, <3>2, <4>1
      <4>3. CASE i = 1
        BY <2>4, <4>2, <4>3
      <4>4. CASE i # 1
        <5>1. g[i - 1] = f[i - 1]
          BY <4>1, <4>4
        <5>2. QED
          BY <4>2, <5>1
      <4>5. QED
        BY <4>3, <4>4
    <3>3. QED
      BY <3>1, <3>2
  <2>6. IsParameters(g, params, ret, m + 1)
    <3>1. g = [i \in 1 .. (m + 1) |-> g[i]]
      OBVIOUS
    <3> HIDE DEF g
    <3>2. QED
      BY <2>5, <3>1 DEF IsParameters
  <2>7. QED
    BY <2>2, <2>6
<1>3. P = Nat
  <2> HIDE DEF P
  <2>1. P \in SUBSET Nat
    BY DEF P
  <2>2. QED
    BY <1>1, <1>2, <2>1, EveryNat
<1>4. QED
  BY <1>3

\* so that GlobalAddress is one,
LEMMA GlobalsAre ==
  ASSUME NEW S, NEW syms \in Seq(S)
  PROVE  IsGlobals(GlobalAddress(syms), syms, Len(syms))
<1> DEFINE A == GlobalAddress(syms)
           n == Len(syms)
<1>1. n \in Nat /\ DOMAIN syms = 1 .. n
  OBVIOUS
<1>2. A = CHOOSE f : IsGlobals(f, syms, n)
  BY <1>1 DEF GlobalAddress, IsGlobals
<1> HIDE DEF A, n
<1>3. IsGlobals(A, syms, n)
  BY <1>1, <1>2, GlobalsExist
<1>4. QED
  BY <1>3 DEF A, n

\* SetAddressAbs: no two global variables of a file share a byte, and none lies in the
\* first word.
THEOREM GlobalsApart ==
  ASSUME NEW S, NEW syms \in Seq(S)
  PROVE  LET where == GlobalAddress(syms)
         IN /\ \A i \in DOMAIN syms : where[i] \in Nat /\ W <= where[i]
            /\ \A i, j \in DOMAIN syms :
                 i < j => where[i] + SizeOf(syms[i].type) <= where[j]
<1> DEFINE A == GlobalAddress(syms)
           n == Len(syms)
           size(i) == SizeOf(syms[i].type)
<1>1. n \in Nat /\ DOMAIN syms = 1 .. n
  OBVIOUS
<1>2. IsGlobals(A, syms, n)
  BY GlobalsAre
<1>3. \A i : size(i) \in Nat
  BY SizeTyped
<1> HIDE DEF A, n
<1>4. 1 \in 1 .. n => A[1] = RoundUp(W, Smaller(size(1), W))
  BY <1>2 DEF IsGlobals
<1>5. ASSUME NEW i \in 1 .. n, i # 1, A[i - 1] \in Nat
      PROVE  A[i] \in Nat /\ A[i - 1] + size(i - 1) <= A[i]
  <2>1. A[i] = RoundUp(A[i - 1] + size(i - 1), Smaller(size(i), W))
    BY <1>2, <1>5 DEF IsGlobals
  <2>2. Smaller(size(i), W) \in Nat
    BY <1>3, WordAssumption DEF Smaller
  <2>3. A[i - 1] + size(i - 1) \in Nat
    BY <1>3, <1>5
  <2> HIDE DEF size
  <2>4. QED
    BY <2>1, <2>2, <2>3, RoundedUp
<1>8. W \in Nat /\ (1 \in 1 .. n => A[1] \in Nat /\ W <= A[1])
  <2>1. Smaller(size(1), W) \in Nat /\ W \in Nat
    BY <1>3, WordAssumption DEF Smaller
  <2> HIDE DEF size
  <2>2. QED
    BY <1>4, <2>1, RoundedUp
<1> HIDE DEF size
<1> DEFINE P == {m \in Nat : \A i \in 1 .. n : i <= m =>
                    /\ A[i] \in Nat /\ W <= A[i]
                    /\ \A j \in 1 .. n : j < i => A[j] + size(j) <= A[i]}
<1>6. 0 \in P
  OBVIOUS
<1>7. ASSUME NEW m \in P PROVE m + 1 \in P
  <2>1. m \in Nat /\ m + 1 \in Nat
    OBVIOUS
  <2>2. \A i \in 1 .. n : i <= m =>
          /\ A[i] \in Nat /\ W <= A[i]
          /\ \A j \in 1 .. n : j < i => A[j] + size(j) <= A[i]
    OBVIOUS
  <2> HIDE DEF P
  <2>3. ASSUME NEW i \in 1 .. n, i = m + 1
        PROVE  /\ A[i] \in Nat /\ W <= A[i]
               /\ \A j \in 1 .. n : j < i => A[j] + size(j) <= A[i]
    <3>1. CASE i = 1
      <4>1. A[i] \in Nat /\ W <= A[i]
        BY <1>4, <1>8, <3>1
      <4>2. QED
        BY <1>1, <3>1, <4>1
    <3>2. CASE i # 1
      <4>1. m \in 1 .. n /\ i - 1 = m /\ A[m] \in Nat /\ W <= A[m] /\ size(m) \in Nat
        BY <1>1, <1>3, <2>1, <2>2, <2>3, <3>2
      <4>2. A[i] \in Nat /\ A[m] + size(m) <= A[i]
        BY <1>5, <2>3, <3>2, <4>1
      <4>3. ASSUME NEW j \in 1 .. n, j < i PROVE A[j] + size(j) <= A[i]
        <5>1. CASE j = m
          BY <4>2, <5>1
        <5>2. CASE j # m
          <6>1. j < m /\ j <= m
            BY <1>1, <2>1, <2>3, <4>3, <5>2
          <6>2. A[j] + size(j) <= A[m] /\ A[j] \in Nat /\ size(j) \in Nat
            BY <1>3, <2>2, <4>1, <6>1
          <6>3. A[m] <= A[i] /\ A[m] \in Nat /\ A[i] \in Nat
            BY <4>1, <4>2
          <6>4. QED
            BY <6>2, <6>3
        <5>3. QED
          BY <5>1, <5>2
      <4>4. W <= A[i]
        BY <1>8, <4>1, <4>2
      <4>5. QED
        BY <4>2, <4>3, <4>4
    <3>3. QED
      BY <3>1, <3>2
  <2>4. ASSUME NEW i \in 1 .. n, i <= m + 1
        PROVE  /\ A[i] \in Nat /\ W <= A[i]
               /\ \A j \in 1 .. n : j < i => A[j] + size(j) <= A[i]
    <3>1. CASE i = m + 1
      BY <2>3, <3>1
    <3>2. CASE i # m + 1
      <4>1. i <= m
        BY <1>1, <2>1, <2>4, <3>2
      <4>2. QED
        BY <2>2, <4>1
    <3>3. QED
      BY <3>1, <3>2
  <2>5. QED
    BY <2>1, <2>4 DEF P
<1>9. P = Nat
  <2> HIDE DEF P
  <2>1. P \in SUBSET Nat
    BY DEF P
  <2>2. QED
    BY <1>6, <1>7, <2>1, EveryNat
<1>10. n \in P
  BY <1>1, <1>9
<1>11. /\ \A i \in 1 .. n : A[i] \in Nat /\ W <= A[i]
       /\ \A i, j \in 1 .. n : i < j => A[i] + size(i) <= A[j]
  <2>1. \A i \in 1 .. n : i <= n
    BY <1>1
  <2>2. QED
    BY <1>10, <2>1
<1>12. QED
  BY <1>1, <1>11 DEF A, size

\* and so is ParameterOffset.
LEMMA ParametersAre ==
  ASSUME NEW S, NEW params \in Seq(S), NEW ret
  PROVE  IsParameters(ParameterOffset(params, ret), params, ret, Len(params))
<1> DEFINE A == ParameterOffset(params, ret)
           n == Len(params)
<1>1. n \in Nat /\ DOMAIN params = 1 .. n
  OBVIOUS
<1>2. A = CHOOSE f : IsParameters(f, params, ret, n)
  BY <1>1 DEF ParameterOffset, IsParameters
<1> HIDE DEF A, n
<1>3. IsParameters(A, params, ret, n)
  BY <1>1, <1>2, ParametersExist
<1>4. QED
  BY <1>3 DEF A, n

\* SetAddressRel of a ParameterScope: the parameters lie behind the saved frame pointer,
\* the return address and the result, and no two share a byte.
THEOREM ParametersApart ==
  ASSUME NEW S, NEW params \in Seq(S), NEW ret
  PROVE  LET where == ParameterOffset(params, ret)
         IN /\ \A i \in DOMAIN params : where[i] \in Nat /\ 2 * W + SizeOf(ret) <= where[i]
            /\ \A i, j \in DOMAIN params :
                 i < j => where[i] + SizeOf(params[i].type) <= where[j]
<1> DEFINE A == ParameterOffset(params, ret)
           n == Len(params)
           size(i) == SizeOf(params[i].type)
<1>1. n \in Nat /\ DOMAIN params = 1 .. n
  OBVIOUS
<1>2. IsParameters(A, params, ret, n)
  BY ParametersAre
<1>3. \A i : size(i) \in Nat
  BY SizeTyped
<1> HIDE DEF A, n
<1>4. 1 \in 1 .. n => A[1] = 2 * W + RoundUp(SizeOf(ret), W)
  BY <1>2 DEF IsParameters
<1>5. ASSUME NEW i \in 1 .. n, i # 1, A[i - 1] \in Nat
      PROVE  A[i] \in Nat /\ A[i - 1] + size(i - 1) <= A[i]
  <2>1. A[i] = RoundUp(A[i - 1], W) + size(i - 1)
    BY <1>2, <1>5 DEF IsParameters
  <2> HIDE DEF size
  <2>2. RoundUp(A[i - 1], W) \in Nat /\ A[i - 1] <= RoundUp(A[i - 1], W)
    BY <1>5, RoundedUp, WordAssumption
  <2>3. QED
    BY <1>3, <1>5, <2>1, <2>2
<1>8. 2 * W + SizeOf(ret) \in Nat /\ (1 \in 1 .. n => A[1] \in Nat /\ 2 * W + SizeOf(ret) <= A[1])
  <2>1. RoundUp(SizeOf(ret), W) \in Nat /\ SizeOf(ret) <= RoundUp(SizeOf(ret), W) /\ SizeOf(ret) \in Nat
    BY SizeTyped, RoundedUp, WordAssumption
  <2>2. QED
    BY <1>4, <2>1, WordAssumption
<1> HIDE DEF size
<1> DEFINE P == {m \in Nat : \A i \in 1 .. n : i <= m =>
                    /\ A[i] \in Nat /\ 2 * W + SizeOf(ret) <= A[i]
                    /\ \A j \in 1 .. n : j < i => A[j] + size(j) <= A[i]}
<1>6. 0 \in P
  OBVIOUS
<1>7. ASSUME NEW m \in P PROVE m + 1 \in P
  <2>1. m \in Nat /\ m + 1 \in Nat
    OBVIOUS
  <2>2. \A i \in 1 .. n : i <= m =>
          /\ A[i] \in Nat /\ 2 * W + SizeOf(ret) <= A[i]
          /\ \A j \in 1 .. n : j < i => A[j] + size(j) <= A[i]
    OBVIOUS
  <2> HIDE DEF P
  <2>3. ASSUME NEW i \in 1 .. n, i = m + 1
        PROVE  /\ A[i] \in Nat /\ 2 * W + SizeOf(ret) <= A[i]
               /\ \A j \in 1 .. n : j < i => A[j] + size(j) <= A[i]
    <3>1. CASE i = 1
      <4>1. A[i] \in Nat /\ 2 * W + SizeOf(ret) <= A[i]
        BY <1>4, <1>8, <3>1
      <4>2. QED
        BY <1>1, <3>1, <4>1
    <3>2. CASE i # 1
      <4>1. m \in 1 .. n /\ i - 1 = m /\ A[m] \in Nat /\ 2 * W + SizeOf(ret) <= A[m] /\ size(m) \in Nat
        BY <1>1, <1>3, <2>1, <2>2, <2>3, <3>2
      <4>2. A[i] \in Nat /\ A[m] + size(m) <= A[i]
        BY <1>5, <2>3, <3>2, <4>1
      <4>3. ASSUME NEW j \in 1 .. n, j < i PROVE A[j] + size(j) <= A[i]
        <5>1. CASE j = m
          BY <4>2, <5>1
        <5>2. CASE j # m
          <6>1. j < m /\ j <= m
            BY <1>1, <2>1, <2>3, <4>3, <5>2
          <6>2. A[j] + size(j) <= A[m] /\ A[j] \in Nat /\ size(j) \in Nat
            BY <1>3, <2>2, <4>1, <6>1
          <6>3. A[m] <= A[i] /\ A[m] \in Nat /\ A[i] \in Nat
            BY <4>1, <4>2
          <6>4. QED
            BY <6>2, <6>3
        <5>3. QED
          BY <5>1, <5>2
      <4>4. 2 * W + SizeOf(ret) <= A[i]
        BY <1>8, <4>1, <4>2
      <4>5. QED
        BY <4>2, <4>3, <4>4
    <3>3. QED
      BY <3>1, <3>2
  <2>4. ASSUME NEW i \in 1 .. n, i <= m + 1
        PROVE  /\ A[i] \in Nat /\ 2 * W + SizeOf(ret) <= A[i]
               /\ \A j \in 1 .. n : j < i => A[j] + size(j) <= A[i]
    <3>1. CASE i = m + 1
      BY <2>3, <3>1
    <3>2. CASE i # m + 1
      <4>1. i <= m
        BY <1>1, <2>1, <2>4, <3>2
      <4>2. QED
        BY <2>2, <4>1
    <3>3. QED
      BY <3>1, <3>2
  <2>5. QED
    BY <2>1, <2>4 DEF P
<1>9. P = Nat
  <2> HIDE DEF P
  <2>1. P \in SUBSET Nat
    BY DEF P
  <2>2. QED
    BY <1>6, <1>7, <2>1, EveryNat
<1>10. n \in P
  BY <1>1, <1>9
<1>11. /\ \A i \in 1 .. n : A[i] \in Nat /\ 2 * W + SizeOf(ret) <= A[i]
       /\ \A i, j \in 1 .. n : i < j => A[i] + size(i) <= A[j]
  <2>1. \A i \in 1 .. n : i <= n
    BY <1>1
  <2>2. QED
    BY <1>10, <2>1
<1>12. QED
  BY <1>1, <1>11 DEF A, size

\* Blocks have numbers up to n, each above its parent's.
Forest(parent, n) ==
  /\ n \in Nat /\ DOMAIN parent \subseteq 1 .. n
  /\ \A b \in DOMAIN parent : /\ parent[b] \in DOMAIN parent \cup {0}
                               /\ parent[b] < b

\* f is the function BlockStart defines, for the first m blocks.
BlocksTo(parent, m) == {b \in DOMAIN parent : b <= m}
IsStarts(f, parent, slots, m) ==
  f = [b \in BlocksTo(parent, m) |->
         IF parent[b] = 0 THEN 0 ELSE f[parent[b]] - BlockSize(slots[parent[b]])]

\* There is one, whatever the depth.
LEMMA StartsExist ==
  ASSUME NEW parent, NEW slots, NEW n, Forest(parent, n), NEW k \in Nat
  PROVE  \E f : IsStarts(f, parent, slots, k)
<1> DEFINE P == {m \in Nat : \E f : IsStarts(f, parent, slots, m)}
<1>1. 0 \in P
  <2>1. BlocksTo(parent, 0) = {}
    BY DEF BlocksTo, Forest
  <2>2. IsStarts([b \in {} |-> 0], parent, slots, 0)
    BY <2>1 DEF IsStarts
  <2>3. QED
    BY <2>2
<1>2. ASSUME NEW m \in P PROVE m + 1 \in P
  <2>1. PICK f : IsStarts(f, parent, slots, m)
    OBVIOUS
  <2> DEFINE Of(b, p) == IF parent[b] = 0 THEN 0 ELSE p - BlockSize(slots[parent[b]])
             g == [b \in BlocksTo(parent, m + 1) |->
                     IF b = m + 1 THEN Of(b, f[parent[b]]) ELSE f[b]]
  <2>2. m \in Nat /\ m + 1 \in Nat
    OBVIOUS
  <2>3. \A b \in BlocksTo(parent, m) : f[b] = Of(b, f[parent[b]])
    BY <2>1 DEF IsStarts
  <2>4. \A b, p, q : parent[b] = 0 => Of(b, p) = Of(b, q)
    OBVIOUS
  <2>5. ASSUME NEW b \in BlocksTo(parent, m + 1) PROVE g[b] = Of(b, g[parent[b]])
    <3> HIDE DEF Of
    <3>1. b \in Nat /\ b <= m + 1 /\ parent[b] \in DOMAIN parent \cup {0} /\ parent[b] < b
          /\ b \in DOMAIN parent
      BY DEF BlocksTo, Forest
    <3>2. g[b] = Of(b, f[parent[b]])
      <4>1. CASE b = m + 1
        BY <4>1
      <4>2. CASE b # m + 1
        <5>1. b \in BlocksTo(parent, m)
          BY <2>2, <3>1, <4>2 DEF BlocksTo
        <5>2. g[b] = f[b]
          BY <4>2
        <5>3. QED
          BY <2>3, <5>1, <5>2
      <4>3. QED
        BY <4>1, <4>2
    <3>3. CASE parent[b] = 0
      BY <2>4, <3>2, <3>3
    <3>4. CASE parent[b] # 0
      <4>1. parent[b] \in DOMAIN parent /\ parent[b] \in Nat
        BY <3>1, <3>4 DEF Forest
      <4>2. parent[b] <= m + 1 /\ parent[b] # m + 1
        BY <2>2, <3>1, <4>1
      <4>3. g[parent[b]] = f[parent[b]]
        BY <4>1, <4>2 DEF BlocksTo
      <4>4. QED
        BY <3>2, <4>3
    <3>5. QED
      BY <3>3, <3>4
  <2>6. IsStarts(g, parent, slots, m + 1)
    <3>1. g = [b \in BlocksTo(parent, m + 1) |-> g[b]]
      OBVIOUS
    <3> HIDE DEF g
    <3>2. QED
      BY <2>5, <3>1 DEF IsStarts
  <2>7. QED
    BY <2>2, <2>6
<1>3. P = Nat
  <2> HIDE DEF P
  <2>1. P \in SUBSET Nat
    BY DEF P
  <2>2. QED
    BY <1>1, <1>2, <2>1, EveryNat
<1>4. QED
  BY <1>3

\* BlockStart satisfies its equation in every tree of blocks.
LEMMA StartsAre ==
  ASSUME NEW parent, NEW slots, NEW n, Forest(parent, n)
  PROVE  \A b \in DOMAIN parent : BlockStart(parent, slots)[b] =
           IF parent[b] = 0 THEN 0
           ELSE BlockStart(parent, slots)[parent[b]] - BlockSize(slots[parent[b]])
<1> DEFINE A == BlockStart(parent, slots)
<1>1. BlocksTo(parent, n) = DOMAIN parent
  BY DEF BlocksTo, Forest
<1>2. A = CHOOSE f : IsStarts(f, parent, slots, n)
  BY <1>1 DEF BlockStart, IsStarts
<1> HIDE DEF A
<1>3. IsStarts(A, parent, slots, n)
  BY <1>2, StartsExist DEF Forest
<1>4. QED
  BY <1>1, <1>3 DEF IsStarts, A

\* The slots of a block are one below the other, within its size.
LEMMA BlockSizeTyped ==
  ASSUME NEW S, NEW syms \in Seq(S)
  PROVE  /\ BlockSize(syms) \in Nat
         /\ \A i \in 0 .. Len(syms) : Below(syms)[i] \in Nat /\ Below(syms)[i] <= BlockSize(syms)
         /\ \A i, j \in 0 .. Len(syms) : i <= j => Below(syms)[i] <= Below(syms)[j]
         /\ \A i \in 1 .. Len(syms) :
              Below(syms)[i] = Below(syms)[i - 1] + SlotSize(syms[i])
<1> DEFINE s == [i \in 1 .. Len(syms) |-> SlotSize(syms[i])]
<1>1. Len(syms) \in Nat /\ Len(s) = Len(syms) /\ \A i \in 1 .. Len(s) : s[i] \in Nat
  BY SlotTyped
<1>2. \A i \in 1 .. Len(syms) : s[i] = SlotSize(syms[i])
  OBVIOUS
<1>3. Below(syms) = Accumulated(s)
  BY DEF Below
<1> HIDE DEF s
<1>4. /\ \A i \in 0 .. Len(s) : Accumulated(s)[i] \in Nat
      /\ \A i, j \in 0 .. Len(s) : i <= j => Accumulated(s)[i] <= Accumulated(s)[j]
  BY <1>1, TotalsGrow
<1>5. \A i \in 1 .. Len(syms) : Accumulated(s)[i] = Accumulated(s)[i - 1] + SlotSize(syms[i])
  <2>1. \A i \in 1 .. Len(syms) : i \in 0 .. Len(s) /\ i # 0
    BY <1>1
  <2>2. QED
    BY <1>1, <1>2, <2>1, TotalsAre
<1>6. Len(syms) \in 0 .. Len(s) /\ \A i \in 0 .. Len(syms) : i <= Len(syms)
  BY <1>1
<1>7. QED
  BY <1>1, <1>3, <1>4, <1>5, <1>6 DEF BlockSize

\* Largest of a set of numbers that is bounded bounds it.
LEMMA LargestIs ==
  ASSUME NEW S \in SUBSET Nat, NEW k \in Nat, \A m \in S : m <= k
  PROVE  Largest(S) \in Nat /\ \A m \in S : m <= Largest(S)
<1> DEFINE Over == {u \in Nat : \A m \in S : m <= u}
<1>1. Over \in SUBSET Nat /\ Over # {}
  OBVIOUS
<1>2. PICK u \in Over : \A v \in Over : u <= v
  <2> HIDE DEF Over
  <2>1. QED
    BY <1>1, Least
<1>3. u \in Nat /\ \A m \in S : m <= u
  BY <1>2
<1>4. CASE S # {}
  <2>1. u \in S
    <3>1. SUFFICES ASSUME u \notin S PROVE FALSE
      OBVIOUS
    <3>2. PICK m \in S : TRUE
      BY <1>4
    <3>3. \A v \in S : v <= u /\ v # u /\ v \in Nat
      BY <1>3, <3>1
    <3>4. u - 1 \in Nat /\ \A v \in S : v <= u - 1
      BY <1>3, <3>2, <3>3
    <3>5. u - 1 \in Over /\ ~(u <= u - 1)
      BY <1>3, <3>4
    <3>6. QED
      BY <1>2, <3>5
  <2>2. \E v \in S : \A m \in S : m <= v
    BY <1>3, <2>1
  <2>3. Largest(S) \in S /\ \A m \in S : m <= Largest(S)
    BY <1>4, <2>2 DEF Largest
  <2>4. QED
    BY <2>3
<1>5. CASE S = {}
  BY <1>5 DEF Largest
<1>6. QED
  BY <1>4, <1>5

\* f is the function MemorySize defines, for the last m of n blocks.
ChildrenOf(parent, b) == {c \in DOMAIN parent : parent[c] = b}
LastOf(parent, n, m) == {b \in DOMAIN parent : b + m > n}
IsSizes(f, parent, slots, n, m) ==
  f = [b \in LastOf(parent, n, m) |->
         BlockSize(slots[b]) + Largest({f[c] : c \in {d \in DOMAIN parent : parent[d] = b}})]

\* Sizes are computed from the last block to the first, children before parents.
LEMMA ChildrenBehind ==
  ASSUME NEW parent, NEW n, Forest(parent, n), NEW m \in Nat,
         NEW b \in LastOf(parent, n, m + 1), NEW c \in DOMAIN parent, parent[c] = b
  PROVE  c \in LastOf(parent, n, m) /\ c + m # n
<1>1. /\ b \in Nat /\ c \in Nat /\ n \in Nat /\ b < c /\ b + (m + 1) > n
      /\ c \in DOMAIN parent
  BY DEF LastOf, Forest
<1>2. QED
  BY <1>1 DEF LastOf

\* That way all blocks are reached.
LEMMA AllFrom ==
  ASSUME NEW parent, NEW n, Forest(parent, n)
  PROVE  LastOf(parent, n, n) = DOMAIN parent /\ n \in Nat
<1>1. n \in Nat /\ \A b \in DOMAIN parent : b \in 1 .. n
  BY DEF Forest
<1>2. \A b \in 1 .. n : b + n > n
  BY <1>1
<1>3. QED
  BY <1>1, <1>2 DEF LastOf

\* There is one, however many blocks.
LEMMA SizesExist ==
  ASSUME NEW parent, NEW slots, NEW n, Forest(parent, n), NEW k \in Nat
  PROVE  \E f : IsSizes(f, parent, slots, n, k)
<1> DEFINE P == {m \in Nat : \E f : IsSizes(f, parent, slots, n, m)}
<1>1. 0 \in P
  <2>1. LastOf(parent, n, 0) = {}
    BY DEF LastOf, Forest
  <2>2. IsSizes([b \in {} |-> 0], parent, slots, n, 0)
    BY <2>1 DEF IsSizes
  <2>3. QED
    BY <2>2
<1>2. ASSUME NEW m \in P PROVE m + 1 \in P
  <2>1. PICK f : IsSizes(f, parent, slots, n, m)
    OBVIOUS
  <2> HIDE DEF P
  <2>2. m \in Nat /\ m + 1 \in Nat /\ n \in Nat
    BY DEF P, Forest
  <2> DEFINE Of(b, h) == BlockSize(slots[b]) + Largest({h[c] : c \in ChildrenOf(parent, b)})
             g == [b \in LastOf(parent, n, m + 1) |-> IF b + m = n THEN Of(b, f) ELSE f[b]]
  <2>3. \A b \in LastOf(parent, n, m) : f[b] = Of(b, f)
    BY <2>1 DEF IsSizes, ChildrenOf
  <2>4. LastOf(parent, n, m) \subseteq LastOf(parent, n, m + 1)
    BY <2>2 DEF LastOf, Forest
  <2>5. ASSUME NEW b \in LastOf(parent, n, m + 1), NEW c \in ChildrenOf(parent, b)
        PROVE  c \in LastOf(parent, n, m + 1) /\ g[c] = f[c]
    <3>1. c \in LastOf(parent, n, m) /\ c + m # n
      BY <2>2, ChildrenBehind DEF ChildrenOf
    <3>2. QED
      BY <2>4, <3>1
  <2>6. ASSUME NEW b \in LastOf(parent, n, m + 1) PROVE g[b] = Of(b, f)
    <3>1. CASE b + m = n
      BY <3>1
    <3>2. CASE b + m # n
      <4>1. b \in LastOf(parent, n, m)
        BY <2>2, <3>2 DEF LastOf, Forest
      <4> HIDE DEF Of
      <4>2. g[b] = f[b]
        BY <3>2
      <4>3. QED
        BY <2>3, <4>1, <4>2
    <3>3. QED
      BY <3>1, <3>2
  <2>7. ASSUME NEW b \in LastOf(parent, n, m + 1) PROVE Of(b, f) = Of(b, g)
    <3>1. {g[c] : c \in ChildrenOf(parent, b)} = {f[c] : c \in ChildrenOf(parent, b)}
      <4> HIDE DEF g
      <4>1. QED
        BY <2>5
    <3>2. QED
      BY <3>1
  <2>8. IsSizes(g, parent, slots, n, m + 1)
    <3>1. g = [b \in LastOf(parent, n, m + 1) |-> g[b]]
      OBVIOUS
    <3> HIDE DEF g
    <3>2. \A b \in LastOf(parent, n, m + 1) : g[b] = Of(b, g)
      <4> HIDE DEF Of
      <4>1. QED
        BY <2>6, <2>7
    <3>3. QED
      BY <3>1, <3>2 DEF IsSizes, ChildrenOf
  <2>9. QED
    BY <2>2, <2>8 DEF P
<1>3. P = Nat
  <2> HIDE DEF P
  <2>1. P \in SUBSET Nat
    BY DEF P
  <2>2. QED
    BY <1>1, <1>2, <2>1, EveryNat
<1>4. QED
  BY <1>3

\* Sizes are numbers, with a bound for all of them.
LEMMA FrameSizesTyped ==
  ASSUME NEW parent, NEW slots, NEW n, Forest(parent, n), NEW S,
         \A b \in DOMAIN parent : slots[b] \in Seq(S),
         NEW f, \A b \in DOMAIN parent :
                   f[b] = BlockSize(slots[b]) + Largest({f[c] : c \in ChildrenOf(parent, b)})
  PROVE  \E u \in Nat : \A b \in DOMAIN parent : f[b] \in Nat /\ f[b] <= u
<1> DEFINE Typed(u, m) == \A b \in LastOf(parent, n, m) : f[b] \in Nat /\ f[b] <= u
           P == {m \in Nat : \E u \in Nat : Typed(u, m)}
<1>1. 0 \in P
  <2>1. LastOf(parent, n, 0) = {}
    BY DEF LastOf, Forest
  <2>2. Typed(0, 0)
    BY <2>1
  <2>3. QED
    BY <2>2
<1>2. ASSUME NEW m \in P PROVE m + 1 \in P
  <2>1. PICK u \in Nat : Typed(u, m)
    OBVIOUS
  <2> HIDE DEF P
  <2>2. m \in Nat /\ m + 1 \in Nat /\ n \in Nat
    BY DEF P, Forest
  <2>3. ASSUME NEW b \in DOMAIN parent, b + m = n PROVE f[b] \in Nat
    <3>1. BlockSize(slots[b]) \in Nat
      BY BlockSizeTyped
    <3>2. b \in LastOf(parent, n, m + 1)
      BY <2>2, <2>3 DEF LastOf, Forest
    <3> DEFINE T == {f[c] : c \in ChildrenOf(parent, b)}
    <3>3. T \in SUBSET Nat /\ \A t \in T : t <= u
      <4>1. \A c \in ChildrenOf(parent, b) : c \in LastOf(parent, n, m)
        BY <2>2, <3>2, ChildrenBehind DEF ChildrenOf
      <4>2. QED
        BY <2>1, <4>1
    <3>4. Largest(T) \in Nat
      <4> HIDE DEF T
      <4>1. QED
        BY <3>3, LargestIs
    <3>5. f[b] = BlockSize(slots[b]) + Largest(T)
      OBVIOUS
    <3> HIDE DEF T
    <3>6. QED
      BY <3>1, <3>4, <3>5
  <2>4. PICK v \in Nat : u <= v /\ \A b \in DOMAIN parent : b + m = n => f[b] <= v
    <3>1. CASE \E b \in DOMAIN parent : b + m = n
      <4>1. PICK b \in DOMAIN parent : b + m = n
        BY <3>1
      <4>2. \A c \in DOMAIN parent : c + m = n => c = b
        BY <2>2, <4>1 DEF Forest
      <4>3. f[b] \in Nat
        BY <2>3, <4>1
      <4>4. u + f[b] \in Nat /\ u <= u + f[b] /\ f[b] <= u + f[b]
        BY <4>3
      <4>5. QED
        BY <4>2, <4>4
    <3>2. CASE ~\E b \in DOMAIN parent : b + m = n
      BY <3>2
    <3>3. QED
      BY <3>1, <3>2
  <2>5. ASSUME NEW b \in LastOf(parent, n, m + 1) PROVE f[b] \in Nat /\ f[b] <= v
    <3>1. CASE b + m = n
      <4>1. b \in DOMAIN parent
        BY DEF LastOf
      <4>2. QED
        BY <2>3, <2>4, <3>1, <4>1
    <3>2. CASE b + m # n
      <4>1. b \in LastOf(parent, n, m)
        BY <2>2, <3>2 DEF LastOf, Forest
      <4>2. f[b] \in Nat /\ f[b] <= u
        BY <2>1, <4>1
      <4>3. QED
        BY <2>4, <4>2
    <3>3. QED
      BY <3>1, <3>2
  <2>6. QED
    BY <2>2, <2>5 DEF P
<1>3. P = Nat
  <2> HIDE DEF P
  <2>1. P \in SUBSET Nat
    BY DEF P
  <2>2. QED
    BY <1>1, <1>2, <2>1, EveryNat
<1>4. LastOf(parent, n, n) = DOMAIN parent /\ n \in Nat
  BY AllFrom
<1>5. QED
  BY <1>3, <1>4

\* A block has room for its own variables and for those of any one of its children.
LEMMA SizesAre ==
  ASSUME NEW parent, NEW slots, NEW n, Forest(parent, n), NEW S,
         \A b \in DOMAIN parent : slots[b] \in Seq(S)
  PROVE  \A b \in DOMAIN parent :
           /\ MemorySize(parent, slots)[b] \in Nat
           /\ BlockSize(slots[b]) <= MemorySize(parent, slots)[b]
           /\ parent[b] # 0 =>
                MemorySize(parent, slots)[b] + BlockSize(slots[parent[b]])
                  <= MemorySize(parent, slots)[parent[b]]
<1> DEFINE A == MemorySize(parent, slots)
<1>1. LastOf(parent, n, n) = DOMAIN parent /\ n \in Nat
  BY AllFrom
<1>2. A = CHOOSE f : IsSizes(f, parent, slots, n, n)
  BY <1>1 DEF MemorySize, IsSizes
<1> HIDE DEF A
<1>3. IsSizes(A, parent, slots, n, n)
  BY <1>1, <1>2, SizesExist
<1>4. \A b \in DOMAIN parent :
        A[b] = BlockSize(slots[b]) + Largest({A[c] : c \in ChildrenOf(parent, b)})
  BY <1>1, <1>3 DEF IsSizes, ChildrenOf
<1>5. PICK u \in Nat : \A b \in DOMAIN parent : A[b] \in Nat /\ A[b] <= u
  BY <1>4, FrameSizesTyped
<1>6. ASSUME NEW b \in DOMAIN parent
      PROVE  /\ BlockSize(slots[b]) \in Nat /\ BlockSize(slots[b]) <= A[b]
             /\ \A c \in ChildrenOf(parent, b) : A[c] + BlockSize(slots[b]) <= A[b]
  <2> DEFINE T == {A[c] : c \in ChildrenOf(parent, b)}
  <2>1. T \in SUBSET Nat /\ \A t \in T : t <= u
    BY <1>5 DEF ChildrenOf
  <2>2. A[b] = BlockSize(slots[b]) + Largest(T)
    BY <1>4
  <2>3. \A c \in ChildrenOf(parent, b) : A[c] \in T
    OBVIOUS
  <2> HIDE DEF T
  <2>4. Largest(T) \in Nat /\ \A t \in T : t <= Largest(T)
    BY <2>1, LargestIs
  <2>5. BlockSize(slots[b]) \in Nat
    BY BlockSizeTyped
  <2>6. ASSUME NEW t \in T PROVE t + BlockSize(slots[b]) <= A[b]
    BY <2>1, <2>2, <2>4, <2>5
  <2>7. QED
    BY <2>2, <2>3, <2>4, <2>5, <2>6
<1>7. ASSUME NEW b \in DOMAIN parent, parent[b] # 0
      PROVE  parent[b] \in DOMAIN parent /\ b \in ChildrenOf(parent, parent[b])
  BY <1>7 DEF ChildrenOf, Forest
<1>8. QED
  BY <1>5, <1>6, <1>7 DEF A

\* The blocks from the body of a function to one within it.
BlockPath(p, parent) ==
  /\ p \in Seq(DOMAIN parent) /\ p # <<>> /\ parent[p[1]] = 0
  /\ \A i \in 1 .. Len(p) - 1 : parent[p[i + 1]] = p[i]

\* The blocks on a path lie one below the other, the last one within the frame.
LEMMA PathGoesDown ==
  ASSUME NEW parent, NEW slots, NEW n, Forest(parent, n), NEW S,
         \A b \in DOMAIN parent : slots[b] \in Seq(S), NEW p, BlockPath(p, parent)
  PROVE  LET start == BlockStart(parent, slots)
             size == MemorySize(parent, slots)
         IN /\ \A i \in 1 .. Len(p) : /\ start[p[i]] \in Int /\ start[p[i]] <= 0
                                      /\ start[p[i]] - size[p[i]] >= 0 - size[p[1]]
            /\ \A i, j \in 1 .. Len(p) :
                 i < j => start[p[j]] <= start[p[i]] - BlockSize(slots[p[i]])
<1> DEFINE start == BlockStart(parent, slots)
           size == MemorySize(parent, slots)
           full(i) == BlockSize(slots[p[i]])
           Good(i) == /\ start[p[i]] \in Int /\ start[p[i]] <= 0
                      /\ start[p[i]] - size[p[i]] >= 0 - size[p[1]]
                      /\ \A j \in 1 .. Len(p) : j < i => start[p[i]] <= start[p[j]] - full(j)
           P == {m \in Nat : \A i \in 1 .. Len(p) : i <= m => Good(i)}
<1>1. Len(p) \in Nat /\ 1 \in 1 .. Len(p) /\ \A i \in 1 .. Len(p) : p[i] \in DOMAIN parent
  BY DEF BlockPath
<1>2. \A i \in 1 .. Len(p) : full(i) \in Nat /\ size[p[i]] \in Nat
  BY <1>1, BlockSizeTyped, SizesAre
<1>3. start[p[1]] = 0
  BY <1>1, StartsAre DEF BlockPath
<1>4. ASSUME NEW i \in 1 .. Len(p), i # 1
      PROVE  /\ i - 1 \in 1 .. Len(p)
             /\ start[p[i]] = start[p[i - 1]] - full(i - 1)
             /\ size[p[i]] + full(i - 1) <= size[p[i - 1]]
  <2>1. i - 1 \in 1 .. Len(p) - 1 /\ (i - 1) + 1 = i /\ i - 1 \in 1 .. Len(p)
    BY <1>1, <1>4
  <2>2. parent[p[i]] = p[i - 1]
    BY <2>1 DEF BlockPath
  <2>3. p[i - 1] # 0
    BY <1>1, <2>1 DEF Forest
  <2>4. start[p[i]] = start[p[i - 1]] - full(i - 1)
    BY <1>1, <2>2, <2>3, StartsAre
  <2>5. size[p[i]] + full(i - 1) <= size[p[i - 1]]
    BY <1>1, <2>2, <2>3, SizesAre
  <2>6. QED
    BY <2>1, <2>4, <2>5
<1> HIDE DEF start, size, full
<1>5. 0 \in P
  OBVIOUS
<1>6. ASSUME NEW m \in P PROVE m + 1 \in P
  <2>1. m \in Nat /\ m + 1 \in Nat /\ \A i \in 1 .. Len(p) : i <= m => Good(i)
    OBVIOUS
  <2> HIDE DEF P
  <2>2. ASSUME NEW i \in 1 .. Len(p), i = m + 1 PROVE Good(i)
    <3>1. CASE i = 1
      BY <1>1, <1>2, <1>3, <3>1
    <3>2. CASE i # 1
      <4>1. m \in 1 .. Len(p) /\ i - 1 = m
        BY <1>1, <1>4, <2>1, <2>2, <3>2
      <4>2. Good(m)
        BY <2>1, <4>1
      <4>3. start[p[i]] = start[p[m]] - full(m) /\ size[p[i]] + full(m) <= size[p[m]]
        BY <1>4, <3>2, <4>1
      <4>4. /\ start[p[m]] \in Int /\ full(m) \in Nat /\ size[p[m]] \in Nat
            /\ size[p[i]] \in Nat /\ size[p[1]] \in Nat
        BY <1>1, <1>2, <4>1, <4>2
      <4>5. \A t \in Int : \A f, z, y, r \in Nat :
              t <= 0 /\ y + f <= z /\ t - z >= 0 - r =>
                t - f \in Int /\ t - f <= 0 /\ (t - f) - y >= 0 - r /\ t - f <= t
        OBVIOUS
      <4>6. /\ start[p[i]] \in Int /\ start[p[i]] <= 0 /\ start[p[i]] <= start[p[m]]
            /\ start[p[i]] - size[p[i]] >= 0 - size[p[1]]
        BY <4>2, <4>3, <4>4, <4>5
      <4>7. ASSUME NEW j \in 1 .. Len(p), j < i PROVE start[p[i]] <= start[p[j]] - full(j)
        <5>1. CASE j = m
          BY <4>3, <4>4, <5>1
        <5>2. CASE j # m
          <6>1. j < m /\ j <= m
            BY <1>1, <2>1, <2>2, <4>7, <5>2
          <6>2. start[p[m]] <= start[p[j]] - full(j)
            BY <4>2, <6>1
          <6>3. start[p[j]] \in Int /\ full(j) \in Nat
            BY <1>2, <2>1, <6>1
          <6>4. start[p[j]] - full(j) \in Int
            BY <6>3
          <6>5. QED
            BY <4>4, <4>6, <6>2, <6>4
        <5>3. QED
          BY <5>1, <5>2
      <4>8. QED
        BY <4>6, <4>7
    <3>3. QED
      BY <3>1, <3>2
  <2> HIDE DEF Good
  <2>3. ASSUME NEW i \in 1 .. Len(p), i <= m + 1 PROVE Good(i)
    <3>1. CASE i = m + 1
      BY <2>2, <3>1
    <3>2. CASE i # m + 1
      <4>1. i <= m
        BY <1>1, <2>1, <2>3, <3>2
      <4>2. QED
        BY <2>1, <4>1
    <3>3. QED
      BY <3>1, <3>2
  <2>4. QED
    BY <2>1, <2>3 DEF P
<1>7. P = Nat
  <2> HIDE DEF P
  <2>1. P \in SUBSET Nat
    BY DEF P
  <2>2. QED
    BY <1>5, <1>6, <2>1, EveryNat
<1>8. \A i \in 1 .. Len(p) : Good(i)
  <2>1. Len(p) \in P /\ \A i \in 1 .. Len(p) : i <= Len(p)
    BY <1>1, <1>7
  <2> HIDE DEF Good
  <2>2. QED
    BY <2>1
<1>9. QED
  BY <1>8 DEF start, size, full

\* SymbolAddressAllocator of a LocalScope: a variable of a block lies below all those of
\* the blocks around it and the earlier ones of the block, so that no two that are
\* visible at the same place share a byte, and all of them lie within the frame.
THEOREM LocalsApart ==
  ASSUME NEW parent, NEW slots, NEW n, Forest(parent, n), NEW S,
         \A b \in DOMAIN parent : slots[b] \in Seq(S), NEW p, BlockPath(p, parent)
  PROVE  LET offset(i, x) == LocalOffset(parent, slots)[p[i]][x]
             frame == MemorySize(parent, slots)[p[1]]
         IN \A i \in 1 .. Len(p) : \A x \in DOMAIN slots[p[i]] :
              /\ 0 - frame <= offset(i, x)
              /\ offset(i, x) + SlotSize(slots[p[i]][x]) <= 0
              /\ \A j \in 1 .. i : \A y \in DOMAIN slots[p[j]] :
                   j < i \/ y < x =>
                     offset(i, x) + SlotSize(slots[p[i]][x]) <= offset(j, y)
<1> DEFINE start(i) == BlockStart(parent, slots)[p[i]]
           size(i) == MemorySize(parent, slots)[p[i]]
           below(i, x) == Below(slots[p[i]])[x]
           full(i) == BlockSize(slots[p[i]])
           slot(i, x) == SlotSize(slots[p[i]][x])
           offset(i, x) == LocalOffset(parent, slots)[p[i]][x]
<1>1. Len(p) \in Nat /\ 1 \in 1 .. Len(p) /\ \A i \in 1 .. Len(p) : p[i] \in DOMAIN parent
  BY DEF BlockPath
<1>2. ASSUME NEW i \in 1 .. Len(p), NEW x \in DOMAIN slots[p[i]]
      PROVE  /\ offset(i, x) = start(i) - below(i, x)
             /\ slot(i, x) \in Nat /\ below(i, x) \in Nat /\ below(i, x) <= full(i)
             /\ slot(i, x) <= below(i, x)
             /\ \A y \in DOMAIN slots[p[i]] :
                  /\ below(i, y) \in Nat
                  /\ y < x => below(i, y) + slot(i, x) <= below(i, x)
  <2>1. p[i] \in DOMAIN parent /\ slots[p[i]] \in Seq(S)
    BY <1>1
  <2>2. offset(i, x) = start(i) - below(i, x)
    BY <2>1 DEF LocalOffset
  <2> DEFINE syms == slots[p[i]]
  <2>3. x \in 1 .. Len(syms) /\ x \in 0 .. Len(syms) /\ x - 1 \in 0 .. Len(syms)
    BY <2>1
  <2> HIDE DEF syms
  <2>4. /\ \A k \in 0 .. Len(syms) : Below(syms)[k] \in Nat /\ Below(syms)[k] <= BlockSize(syms)
        /\ \A k, l \in 0 .. Len(syms) : k <= l => Below(syms)[k] <= Below(syms)[l]
        /\ Below(syms)[x] = Below(syms)[x - 1] + SlotSize(syms[x])
        /\ SlotSize(syms[x]) \in Nat
    <3>1. syms \in Seq(S)
      BY <2>1 DEF syms
    <3>2. QED
      BY <2>3, <3>1, BlockSizeTyped, SlotTyped
  <2>5. ASSUME NEW y \in DOMAIN syms
        PROVE  /\ Below(syms)[y] \in Nat
               /\ y < x => Below(syms)[y] + SlotSize(syms[x]) <= Below(syms)[x]
    <3>1. y \in 0 .. Len(syms) /\ (y < x => y <= x - 1)
      <4>1. syms \in Seq(S)
        BY <2>1 DEF syms
      <4>2. y \in 1 .. Len(syms) /\ Len(syms) \in Nat
        BY <4>1
      <4>3. QED
        BY <2>3, <4>2
    <3>2. /\ Below(syms)[x - 1] \in Nat /\ Below(syms)[y] \in Nat /\ Below(syms)[x] \in Nat
          /\ y < x => Below(syms)[y] <= Below(syms)[x - 1]
      BY <2>3, <2>4, <3>1
    <3>3. QED
      BY <2>4, <3>2
  <2>6. SlotSize(syms[x]) <= Below(syms)[x]
    BY <2>3, <2>4
  <2>7. QED
    BY <2>2, <2>3, <2>4, <2>5, <2>6 DEF syms
<1>3. /\ \A i \in 1 .. Len(p) : /\ start(i) \in Int /\ start(i) <= 0
                               /\ start(i) - size(i) >= 0 - size(1)
      /\ \A i, j \in 1 .. Len(p) : i < j => start(j) <= start(i) - full(i)
  BY PathGoesDown
<1>4. \A i \in 1 .. Len(p) : full(i) \in Nat /\ size(i) \in Nat /\ full(i) <= size(i)
  BY <1>1, BlockSizeTyped, SizesAre
<1> HIDE DEF start, size, below, full, slot, offset
<1>5. ASSUME NEW i \in 1 .. Len(p), NEW x \in DOMAIN slots[p[i]]
      PROVE  /\ 0 - size(1) <= offset(i, x)
             /\ offset(i, x) + slot(i, x) <= start(i)
             /\ offset(i, x) + slot(i, x) <= 0
             /\ \A y \in DOMAIN slots[p[i]] : y < x => offset(i, x) + slot(i, x) <= offset(i, y)
  <2>1. /\ offset(i, x) = start(i) - below(i, x)
        /\ slot(i, x) \in Nat /\ below(i, x) \in Nat /\ below(i, x) <= full(i)
        /\ slot(i, x) <= below(i, x)
    BY <1>2
  <2>2. /\ start(i) \in Int /\ start(i) <= 0 /\ start(i) - size(i) >= 0 - size(1)
        /\ full(i) \in Nat /\ size(i) \in Nat /\ full(i) <= size(i) /\ size(1) \in Nat
    BY <1>1, <1>3, <1>4
  <2>3. 0 - size(1) <= offset(i, x) /\ offset(i, x) + slot(i, x) <= start(i)
    BY <2>1, <2>2
  <2>4. ASSUME NEW y \in DOMAIN slots[p[i]], y < x
        PROVE  offset(i, x) + slot(i, x) <= offset(i, y)
    <3>1. offset(i, y) = start(i) - below(i, y) /\ below(i, y) \in Nat
      BY <1>2
    <3>2. below(i, y) + slot(i, x) <= below(i, x)
      BY <1>2, <2>4
    <3>3. QED
      BY <2>1, <2>2, <3>1, <3>2
  <2>5. offset(i, x) + slot(i, x) <= 0
    BY <2>1, <2>2, <2>3
  <2>6. QED
    BY <2>3, <2>4, <2>5
<1>6. ASSUME NEW i \in 1 .. Len(p), NEW x \in DOMAIN slots[p[i]],
             NEW j \in 1 .. i, NEW y \in DOMAIN slots[p[j]], j < i \/ y < x
      PROVE  offset(i, x) + slot(i, x) <= offset(j, y)
  <2>1. j \in 1 .. Len(p)
    BY <1>1
  <2>2. CASE j = i
    BY <1>5, <1>6, <2>2
  <2>3. CASE j # i
    <3>1. j < i
      BY <1>1, <2>3
    <3>2. start(i) <= start(j) - full(j)
      BY <1>3, <2>1, <3>1
    <3>3. /\ offset(j, y) = start(j) - below(j, y) /\ below(j, y) \in Nat
          /\ below(j, y) <= full(j) /\ full(j) \in Nat /\ start(j) \in Int /\ start(i) \in Int
      BY <1>2, <1>3, <1>4, <2>1
    <3>4. /\ offset(i, x) + slot(i, x) <= start(i)
          /\ offset(i, x) \in Int /\ slot(i, x) \in Nat
      <4>1. offset(i, x) = start(i) - below(i, x) /\ below(i, x) \in Nat /\ slot(i, x) \in Nat
        BY <1>2
      <4>2. QED
        BY <1>3, <1>5, <4>1
    <3>5. QED
      BY <3>2, <3>3, <3>4
  <2>4. QED
    BY <2>2, <2>3
<1>7. QED
  BY <1>5, <1>6 DEF size, slot, offset

-----------------------------------------------------------------------------
(* What the generators emit                                                *)

Modes == {"Immediate", "Direct", "Indirect", "BaseDisplacement"}
Convs == {"Signed8", "Signed64"}
Names == {Key(o) : o \in Operand} \cup {LabelName(o) : o \in Operand}
           \cup {<<"__newr0", 0>>} \cup {<<"__function", f>> : f \in Nat}
Operands == [mode : Modes, conv : Convs, addr : Int, disp : Int,
             ref : Names \cup {<<>>}]
Opnds == {o \in Operands : o.ref # <<>> \/ o.addr # Placeholder}

Ops == {"CONV", "ADD", "SUB", "MUL", "B", "SPAWN", "EXIT"}
Jumps == {"none", "J", "JI", "Z", "NZ", "L", "LE", "E", "NE"}
Instrs == [op : Ops, jump : Jumps, args : Seq(Opnds)]
Emitted == {ins \in Instrs : Shaped(ins)}

\* An operand with an address is one that can be emitted.
LEMMA OpndTyped ==
  ASSUME NEW mode \in Modes, NEW a \in Int, a # Placeholder, NEW d \in Int,
         NEW conv \in Convs
  PROVE  Opnd(mode, a, d, conv) \in Opnds
BY DEF Opnd, Opnds, Operands

\* The attribute of an operand may be set afterwards.
LEMMA ConvSet ==
  ASSUME NEW o \in Opnds, NEW c \in Convs
  PROVE  [o EXCEPT !.conv = c] \in Opnds
BY DEF Opnds, Operands

\* An operand that waits for the address of a name is one, too.
LEMMA ToTyped ==
  ASSUME NEW mode \in Modes, NEW ref \in Names
  PROVE  To(mode, ref) \in Opnds
<1>1. ref # <<>>
  BY DEF Names, Key, LabelName
<1>2. To(mode, ref) = [mode |-> mode, conv |-> "Signed64", addr |-> Placeholder,
                       disp |-> 0, ref |-> ref]
  BY DEF To, Opnd
<1>3. QED
  BY <1>1, <1>2 DEF Opnds, Operands, Convs, Placeholder

\* The registers are words with an address.
LEMMA RegistersTyped ==
  /\ \A a \in {STACK_POINTER, FRAME_POINTER, GENERAL_REG_1, GENERAL_REG_2,
               CURRENT_STACK_BASE, CURRENT_STACK_SIZE} : a \in Int /\ a # Placeholder
  /\ Reg1 \in Opnds /\ Reg2 \in Opnds
BY OpndTyped DEF STACK_POINTER, FRAME_POINTER, GENERAL_REG_1, GENERAL_REG_2,
     CURRENT_STACK_BASE, CURRENT_STACK_SIZE, Placeholder, Reg1, Reg2, Direct,
     Modes, Convs

\* Numbers and words at an address, and
LEMMA ImmediateTyped ==
  ASSUME NEW a \in Int, a # Placeholder
  PROVE  Immediate(a) \in Opnds /\ Direct(a) \in Opnds
BY OpndTyped DEF Immediate, Direct, Modes, Convs

\* the words a pointer points to, with and without a displacement.
LEMMA ThroughTyped ==
  ASSUME NEW a \in Int, a # Placeholder, NEW d \in Int, NEW conv \in Convs
  PROVE  Indirect(a, conv) \in Opnds /\ BaseDisplacement(a, d, conv) \in Opnds
BY OpndTyped DEF Indirect, BaseDisplacement, Modes

-----------------------------------------------------------------------------

\* Sequences of one, two, three and four, and of sequences.
LEMMA Ones ==
  ASSUME NEW S, NEW a \in S, NEW b \in S, NEW c \in S, NEW d \in S
  PROVE  /\ <<>> \in Seq(S) /\ <<a>> \in Seq(S) /\ <<a, b>> \in Seq(S)
         /\ <<a, b, c>> \in Seq(S) /\ <<a, b, c, d>> \in Seq(S)
OBVIOUS

\* Sequences of instructions one after the other are one.
LEMMA Joining ==
  ASSUME NEW S, NEW s \in Seq(S), NEW t \in Seq(S)
  PROVE  s \o t \in Seq(S)
OBVIOUS

\* The instructions the Visits put together have one of the shapes: conv,
LEMMA ConvEmitted ==
  ASSUME NEW a \in Opnds, NEW b \in Opnds
  PROVE  CONV(a, b) \in Emitted
<1>1. <<a, b>> \in Seq(Opnds) /\ Len(<<a, b>>) = 2
  OBVIOUS
<1>2. QED
  BY <1>1 DEF CONV, Ins, Emitted, Instrs, Ops, Jumps, Shaped

\* the arithmetic instructions,
LEMMA ArithmeticEmitted ==
  ASSUME NEW op \in {"ADD", "SUB", "MUL"}, NEW a \in Opnds, NEW b \in Opnds,
         NEW c \in Opnds
  PROVE  /\ Ins(op, <<a, b, c>>) \in Emitted
         /\ ADD(a, b, c) \in Emitted /\ SUB(a, b, c) \in Emitted
<1>1. <<a, b, c>> \in Seq(Opnds) /\ Len(<<a, b, c>>) = 3
  OBVIOUS
<1>2. QED
  BY <1>1 DEF ADD, SUB, Ins, Emitted, Instrs, Ops, Jumps, Shaped

\* the branches by how many operands they compare,
LEMMA JumpEmitted ==
  ASSUME NEW a \in Opnds, NEW b \in Opnds, NEW c \in Opnds
  PROVE  /\ \A j \in {"J", "JI"} : Jump0(j, <<a>>) \in Emitted
         /\ \A j \in {"Z", "NZ"} : Jump0(j, <<a, b>>) \in Emitted
         /\ \A j \in {"L", "LE", "E", "NE"} : Jump0(j, <<a, b, c>>) \in Emitted
<1>1. /\ <<a>> \in Seq(Opnds) /\ Len(<<a>>) = 1
      /\ <<a, b>> \in Seq(Opnds) /\ Len(<<a, b>>) = 2
      /\ <<a, b, c>> \in Seq(Opnds) /\ Len(<<a, b, c>>) = 3
  OBVIOUS
<1>2. QED
  BY <1>1 DEF Jump0, Emitted, Instrs, Ops, Jumps, Shaped

\* and exit.
LEMMA ExitEmitted == Ins("EXIT", <<>>) \in Emitted
<1>1. <<>> \in Seq(Opnds) /\ Len(<<>>) = 0
  OBVIOUS
<1>2. QED
  BY <1>1 DEF Ins, Emitted, Instrs, Ops, Jumps, Shaped

-----------------------------------------------------------------------------
(* The operands of IL instructions                                         *)

LayoutOK == \A k \in DOMAIN layout.where : layout.where[k] \in Int \ {Placeholder}
ValueOpnd(o) == /\ o \in Operand /\ o.kind # "empty" /\ o.value # Placeholder
                /\ IsLocal(o) => Key(o) \in DOMAIN layout.where

\* Labels and variables have names, and a branch can have one as its target.
LEMMA NamesTyped ==
  ASSUME NEW o \in Operand
  PROVE  Key(o) \in Names /\ LabelName(o) \in Names /\ Target(o) \in Opnds
<1>1. Key(o) \in Names
  BY DEF Names
<1>2. LabelName(o) \in Names
  BY DEF Names
<1>3. Target(o) \in Opnds
  <2>1. To("Direct", LabelName(o)) \in Opnds
    BY <1>2, ToTyped DEF Modes
  <2>2. QED
    BY <2>1, ConvSet DEF Target, ConvAttribute, Convs
<1>4. QED
  BY <1>1, <1>2, <1>3

\* The attribute of an operand is that of a char or of a long.
LEMMA ConvAttributeTyped == \A o : ConvAttribute(o) \in Convs
BY DEF ConvAttribute, Convs

\* A local variable that is read has a place, which is not the placeholder.
LEMMA LocalPlace ==
  ASSUME LayoutOK, NEW o, ValueOpnd(o), o.kind = "variable", o.level # "global"
  PROVE  layout.where[Key(o)] \in Int /\ layout.where[Key(o)] # Placeholder
BY DEF LayoutOK, ValueOpnd, IsLocal

\* So the operand of a variable can be emitted,
LEMMA VariableTyped ==
  ASSUME LayoutOK, NEW o, ValueOpnd(o), o.kind = "variable"
  PROVE  VariableOperand(o) \in Opnds
<1>1. CASE o.level = "global"
  <2>1. Key(o) \in Names
    BY NamesTyped DEF ValueOpnd
  <2>2. To("Immediate", Key(o)) \in Opnds /\ To("Direct", Key(o)) \in Opnds
    BY <2>1, ToTyped DEF Modes
  <2>3. QED
    BY <1>1, <2>2 DEF VariableOperand
<1>2. CASE o.level # "global"
  <2>1. BaseDisplacement(FRAME_POINTER, layout.where[Key(o)], "Signed64") \in Opnds
    BY <1>2, LocalPlace, ThroughTyped, RegistersTyped DEF Convs
  <2>2. Direct(GENERAL_REG_2) \in Opnds
    BY RegistersTyped DEF Reg2
  <2>3. QED
    BY <1>2, <2>1, <2>2 DEF VariableOperand
<1>3. QED
  BY <1>1, <1>2

\* and that of a constant,
LEMMA Operand0Typed ==
  ASSUME LayoutOK, NEW o, ValueOpnd(o)
  PROVE  Operand0(o) \in Opnds
<1>1. CASE o.kind = "constant"
  <2>1. Immediate(o.value) \in Opnds
    BY ImmediateTyped DEF ValueOpnd, Operand
  <2>2. QED
    BY <1>1, <2>1, ConvSet, ConvAttributeTyped DEF Operand0
<1>2. CASE o.kind = "variable"
  <2>1. VariableOperand(o) \in Opnds
    BY <1>2, VariableTyped
  <2>2. QED
    BY <1>2, <2>1, ConvSet, ConvAttributeTyped DEF Operand0
<1>3. QED
  BY <1>1, <1>2 DEF ValueOpnd, Operand

\* and the instructions that take the address of an array,
LEMMA BeforeTyped ==
  ASSUME LayoutOK, NEW o, ValueOpnd(o)
  PROVE  Before(o) \in Seq(Emitted)
<1>1. CASE IsArrayOperand(o) /\ o.level # "global"
  <2>1. layout.where[Key(o)] \in Int /\ layout.where[Key(o)] # Placeholder
    BY <1>1, LocalPlace DEF IsArrayOperand
  <2>2. ADD(Direct(FRAME_POINTER), Immediate(layout.where[Key(o)]),
            Direct(GENERAL_REG_2)) \in Emitted
    BY <2>1, ImmediateTyped, RegistersTyped, ArithmeticEmitted
  <2>3. QED
    BY <1>1, <2>2, Ones DEF Before
<1>2. CASE ~(IsArrayOperand(o) /\ o.level # "global")
  BY <1>2, ExitEmitted, Ones DEF Before
<1>3. QED
  BY <1>1, <1>2

\* and those that load two operands into registers.
LEMMA LoadsTyped ==
  ASSUME LayoutOK, NEW a, ValueOpnd(a), NEW b, ValueOpnd(b)
  PROVE  Loads(a, b) \in Seq(Emitted)
<1>1. CONV(Operand0(a), Reg1) \in Emitted /\ CONV(Operand0(b), Reg2) \in Emitted
  BY Operand0Typed, RegistersTyped, ConvEmitted
<1>2. QED
  BY <1>1, Ones DEF Loads, Reg1, Reg2

-----------------------------------------------------------------------------
(* Lengths                                                                 *)

\* A sum of numbers is one.
LEMMA TotalIsNat ==
  ASSUME NEW s \in Seq(Nat)
  PROVE  Total(s) \in Nat
<1>1. Len(s) \in Nat /\ \A k \in 1 .. Len(s) : s[k] \in Nat
  OBVIOUS
<1>2. \A k \in 0 .. Len(s) : Accumulated(s)[k] \in Nat
  BY <1>1, TotalsGrow
<1>3. QED
  BY <1>1, <1>2 DEF Total

\* What an instruction that was emitted has.
LEMMA EmittedFacts ==
  ASSUME NEW ins \in Emitted
  PROVE  /\ ins.args \in Seq(Opnds) /\ Len(ins.args) \in Nat
         /\ ins.op \in Ops /\ ins.jump \in Jumps /\ Shaped(ins)
         /\ \A i \in 1 .. Len(ins.args) :
              /\ ins.args[i] \in Opnds
              /\ ins.args[i].mode \in Modes /\ ins.args[i].conv \in Convs
BY DEF Emitted, Instrs, Opnds, Operands

\* GetLength knows every instruction emitted: the bytes before the operands,
LEMMA HeaderLengthTyped ==
  ASSUME NEW ins \in Emitted
  PROVE  LengthOfHeader(ins) \in Nat
<1>1. Shaped(ins)
  BY EmittedFacts
<1>2. LengthOfHeaderI0(ins) \in Nat
  BY <1>1 DEF Shaped, LengthOfHeaderI0, IsArithmetic, IsTest, IsCompare
<1>3. LengthOfHeaderDisa(ins) \in Nat
  BY <1>1 DEF Shaped, LengthOfHeaderDisa, IsArithmetic, IsTest, IsCompare
<1>4. QED
  BY <1>2, <1>3 DEF LengthOfHeader

\* those of an operand,
LEMMA OperandLengthTyped ==
  ASSUME NEW ins, NEW o, o.mode \in Modes
  PROVE  OperandLength(ins, o) \in Nat
BY DEF OperandLength, ImmediateLength, ConvBytes, Modes

\* and those of the whole.
LEMMA LengthTyped ==
  ASSUME NEW ins \in Emitted
  PROVE  GetLength(ins) \in Nat
<1> DEFINE lens == [i \in 1 .. Len(ins.args) |-> OperandLength(ins, ins.args[i])]
<1>1. lens \in Seq(Nat)
  BY EmittedFacts, OperandLengthTyped
<1>2. Total(lens) \in Nat
  BY <1>1, TotalIsNat
<1> HIDE DEF lens
<1>3. QED
  BY <1>2, HeaderLengthTyped DEF GetLength, lens

\* The lengths of instructions in a row.
LEMMA LengthsTyped ==
  ASSUME NEW list \in Seq(Emitted)
  PROVE  /\ Lengths(list) \in Seq(Nat) /\ Len(Lengths(list)) = Len(list)
         /\ \A i \in 1 .. Len(list) : Lengths(list)[i] = GetLength(list[i])
         /\ LengthOf(list) \in Nat
<1>1. \A i \in 1 .. Len(list) : GetLength(list[i]) \in Nat
  BY LengthTyped
<1>2. Lengths(list) \in Seq(Nat) /\ Len(Lengths(list)) = Len(list)
  BY <1>1 DEF Lengths
<1>3. QED
  BY <1>2, TotalIsNat DEF Lengths, LengthOf

\* The place behind some code is an address and not the placeholder.
LEMMA AddressKnown ==
  ASSUME NEW a \in Nat, NEW list \in Seq(Emitted)
  PROVE  a + LengthOf(list) \in Nat /\ a + LengthOf(list) # Placeholder
BY LengthsTyped DEF Placeholder

-----------------------------------------------------------------------------
(* What every Visit emits                                                  *)

Ready(il) == /\ il \in Instruction /\ WellFormed(il) /\ Visitable(il, layout)
             /\ Assembles(il)

\* The operands of an IL instruction that a Visit may take for granted.
LEMMA ReadyArgs ==
  ASSUME NEW il, Ready(il)
  PROVE  /\ il.op \in VisitedOps /\ OperandsThere(il) /\ WellFormed(il)
         /\ il.args \in Seq(Operand) /\ Len(il.args) \in Nat
         /\ DOMAIN il.args = 1 .. Len(il.args)
         /\ \A i \in 1 .. Len(il.args) :
              /\ il.args[i] \in Operand
              /\ il.args[i].value # Placeholder
              /\ ReadsValue(il, i) /\ (il.op = "Call" => i # 2) /\ il.op # "Ret"
                   => ValueOpnd(il.args[i])
BY DEF Ready, Instruction, Visitable, Assembles, ValueOpnd

\* The operands of an instruction that reads all as values.
LEMMA ReadyValues ==
  ASSUME NEW il, Ready(il),
         il.op \notin {"Label", "Br", "Call", "Ret"} \cup ConditionalBranch \cup CompareBranch
  PROVE  \A i \in 1 .. Len(il.args) : ValueOpnd(il.args[i])
BY ReadyArgs DEF ReadsValue

\* Every Visit emits instructions of the shapes: arithmetic,
LEMMA ArithmeticVisit ==
  ASSUME LayoutOK, NEW il, Ready(il), il.op \in Arithmetic,
         NEW op \in {"ADD", "SUB", "MUL"}
  PROVE  GenerateBinaryArithmetic(il, op) \in Seq(Emitted)
<1>1. Len(il.args) = 3
  BY ReadyArgs DEF Arithmetic, WellFormed
<1>2. ValueOpnd(il.args[1]) /\ ValueOpnd(il.args[2]) /\ ValueOpnd(il.args[3])
  BY <1>1, ReadyValues DEF Arithmetic, ConditionalBranch, CompareBranch
<1> DEFINE o(i) == Operand0(il.args[i])
<1>3. o(1) \in Opnds /\ o(2) \in Opnds /\ o(3) \in Opnds
  BY <1>2, Operand0Typed
<1>4. Loads(il.args[2], il.args[3]) \in Seq(Emitted)
  BY <1>2, LoadsTyped
<1>5. Ins(op, <<Reg1, Reg2, Reg1>>) \in Emitted /\ CONV(Reg1, o(1)) \in Emitted
  BY <1>3, RegistersTyped, ArithmeticEmitted, ConvEmitted
<1>6. Ins(op, <<o(2), o(3), o(1)>>) \in Emitted
  BY <1>3, ArithmeticEmitted
<1> HIDE DEF o
<1>7. /\ <<Ins(op, <<Reg1, Reg2, Reg1>>), CONV(Reg1, o(1))>> \in Seq(Emitted)
      /\ <<Ins(op, <<o(2), o(3), o(1)>>)>> \in Seq(Emitted)
  BY <1>5, <1>6, Ones
<1> DEFINE before(i) == Before(il.args[i])
<1>8. before(1) \in Seq(Emitted) /\ before(2) \in Seq(Emitted) /\ before(3) \in Seq(Emitted)
  BY <1>2, BeforeTyped
<1>9. /\ before(2) \o before(3) \o before(1) \o Loads(il.args[2], il.args[3])
           \o <<Ins(op, <<Reg1, Reg2, Reg1>>), CONV(Reg1, o(1))>> \in Seq(Emitted)
      /\ before(1) \o before(2) \o before(3) \o <<Ins(op, <<o(2), o(3), o(1)>>)>>
           \in Seq(Emitted)
  <2> DEFINE narrow == <<Ins(op, <<Reg1, Reg2, Reg1>>), CONV(Reg1, o(1))>>
             wide == <<Ins(op, <<o(2), o(3), o(1)>>)>>
  <2>1. narrow \in Seq(Emitted) /\ wide \in Seq(Emitted)
    BY <1>7
  <2> HIDE DEF before, narrow, wide
  <2>2. /\ before(2) \o before(3) \o before(1) \o Loads(il.args[2], il.args[3]) \o narrow
             \in Seq(Emitted)
        /\ before(1) \o before(2) \o before(3) \o wide \in Seq(Emitted)
    BY <1>4, <1>8, <2>1, Joining
  <2>3. QED
    BY <2>2 DEF narrow, wide
<1>10. QED
  BY <1>9 DEF GenerateBinaryArithmetic, o

\* (the parts of a comparison, which branches over its own code)
ToCompare(il) ==
  LET loads == IF IsNarrow(il.args[1]) THEN Loads(il.args[2], il.args[3]) ELSE <<>>
  IN Before(il.args[2]) \o Before(il.args[3]) \o loads
Compared(il, mode, TL) ==
  LET loads == IF IsNarrow(il.args[1]) THEN Loads(il.args[2], il.args[3]) ELSE <<>>
      a == IF loads = <<>> THEN Operand0(il.args[2]) ELSE Reg1
      b == IF loads = <<>> THEN Operand0(il.args[3]) ELSE Reg2
  IN Jump0(mode, <<a, b, Direct(TL)>>)
SetTo(il, v) == Before(il.args[1]) \o <<CONV(Immediate(v), Operand0(il.args[1]))>>
Over(EL) == Jump0("J", <<Direct(EL)>>)
UpToTrue(il, mode, value, TL, EL) ==
  ToCompare(il) \o <<Compared(il, mode, TL)>> \o SetTo(il, IF value THEN 0 ELSE 1)
    \o <<Over(EL)>>
WholeCompare(il, mode, value, TL, EL) ==
  UpToTrue(il, mode, value, TL, EL) \o SetTo(il, IF value THEN 1 ELSE 0)

LEMMA ComparisonIs ==
  ASSUME NEW il, NEW mode, NEW value, NEW a0
  PROVE  GenerateComparison(il, mode, value, a0)
           = WholeCompare(il, mode, value, TrueLabel(UpToTrue(il, mode, value, 0, 0), a0),
                          a0 + LengthOf(WholeCompare(il, mode, value, 0, 0)))
BY DEF GenerateComparison, WholeCompare, UpToTrue, ToCompare, Compared, SetTo, Over

LEMMA ComparisonParts ==
  ASSUME LayoutOK, NEW il, Ready(il), il.op \in Comparison,
         NEW mode \in {"L", "LE", "E", "NE"}
  PROVE  /\ ToCompare(il) \in Seq(Emitted)
         /\ SetTo(il, 0) \in Seq(Emitted) /\ SetTo(il, 1) \in Seq(Emitted)
         /\ \A L \in Nat : Compared(il, mode, L) \in Emitted /\ Over(L) \in Emitted
<1>1. Len(il.args) = 3
  BY ReadyArgs DEF WellFormed
<1>2. ValueOpnd(il.args[1]) /\ ValueOpnd(il.args[2]) /\ ValueOpnd(il.args[3])
  BY <1>1, ReadyValues DEF Comparison, ConditionalBranch, CompareBranch
<1> DEFINE o(i) == Operand0(il.args[i])
           before(i) == Before(il.args[i])
           loads == IF IsNarrow(il.args[1]) THEN Loads(il.args[2], il.args[3]) ELSE <<>>
           a == IF loads = <<>> THEN o(2) ELSE Reg1
           b == IF loads = <<>> THEN o(3) ELSE Reg2
<1>3. o(1) \in Opnds /\ o(2) \in Opnds /\ o(3) \in Opnds
  BY <1>2, Operand0Typed
<1>4. before(1) \in Seq(Emitted) /\ before(2) \in Seq(Emitted) /\ before(3) \in Seq(Emitted)
  BY <1>2, BeforeTyped
<1>5. loads \in Seq(Emitted)
  BY <1>2, LoadsTyped, ExitEmitted, Ones
<1>6. ToCompare(il) \in Seq(Emitted)
  <2> HIDE DEF before, loads
  <2>1. before(2) \o before(3) \o loads \in Seq(Emitted)
    BY <1>4, <1>5, Joining
  <2>2. QED
    BY <2>1 DEF ToCompare, before, loads
<1>7. ASSUME NEW v \in {0, 1}
      PROVE  SetTo(il, v) \in Seq(Emitted)
  <2> DEFINE set == CONV(Immediate(v), o(1))
  <2>1. set \in Emitted
    BY <1>3, ImmediateTyped, ConvEmitted DEF Placeholder
  <2> HIDE DEF set, before
  <2>2. before(1) \o <<set>> \in Seq(Emitted)
    BY <1>4, <2>1, Ones, Joining
  <2>3. QED
    BY <2>2 DEF SetTo, set, before
<1>8. ASSUME NEW L \in Nat
      PROVE  Compared(il, mode, L) \in Emitted /\ Over(L) \in Emitted
  <2>1. Direct(L) \in Opnds
    BY ImmediateTyped DEF Placeholder
  <2>2. a \in Opnds /\ b \in Opnds
    BY <1>3, RegistersTyped
  <2> HIDE DEF a, b
  <2>3. Jump0(mode, <<a, b, Direct(L)>>) \in Emitted /\ Jump0("J", <<Direct(L)>>) \in Emitted
    BY <2>1, <2>2, JumpEmitted
  <2>4. QED
    BY <2>3 DEF Compared, Over, a, b
<1>9. QED
  BY <1>6, <1>7, <1>8

LEMMA ComparisonTyped ==
  ASSUME LayoutOK, NEW il, Ready(il), il.op \in Comparison,
         NEW mode \in {"L", "LE", "E", "NE"}, NEW value \in BOOLEAN,
         NEW TL \in Nat, NEW EL \in Nat
  PROVE  /\ UpToTrue(il, mode, value, TL, EL) \in Seq(Emitted)
         /\ WholeCompare(il, mode, value, TL, EL) \in Seq(Emitted)
<1>1. <<Compared(il, mode, TL)>> \in Seq(Emitted) /\ <<Over(EL)>> \in Seq(Emitted)
  BY ComparisonParts, Ones
<1>2. /\ SetTo(il, IF value THEN 0 ELSE 1) \in Seq(Emitted)
      /\ SetTo(il, IF value THEN 1 ELSE 0) \in Seq(Emitted)
  BY ComparisonParts
<1>3. UpToTrue(il, mode, value, TL, EL) \in Seq(Emitted)
  BY <1>1, <1>2, ComparisonParts, Joining DEF UpToTrue
<1>4. QED
  BY <1>2, <1>3, Joining DEF WholeCompare

\* a comparison,
LEMMA ComparisonVisit ==
  ASSUME LayoutOK, NEW il, Ready(il), il.op \in Comparison,
         NEW mode \in {"L", "LE", "E", "NE"}, NEW value \in BOOLEAN, NEW a0 \in Nat
  PROVE  GenerateComparison(il, mode, value, a0) \in Seq(Emitted)
<1>1. /\ UpToTrue(il, mode, value, 0, 0) \in Seq(Emitted)
      /\ WholeCompare(il, mode, value, 0, 0) \in Seq(Emitted)
  BY ComparisonTyped
<1>2. /\ TrueLabel(UpToTrue(il, mode, value, 0, 0), a0) \in Nat
      /\ a0 + LengthOf(WholeCompare(il, mode, value, 0, 0)) \in Nat
  BY <1>1, AddressKnown DEF TrueLabel
<1>3. QED
  BY <1>2, ComparisonTyped, ComparisonIs

\* a branch on a comparison,
LEMMA CompareBranchVisit ==
  ASSUME LayoutOK, NEW il, Ready(il), il.op \in CompareBranch,
         NEW mode \in {"L", "LE", "E", "NE"}
  PROVE  GenerateCompareBranch(il, mode) \in Seq(Emitted)
<1>1. Len(il.args) = 3 /\ il.op # "Call"
  BY ReadyArgs DEF WellFormed, CompareBranch
<1>2. ValueOpnd(il.args[1]) /\ ValueOpnd(il.args[2]) /\ il.args[3] \in Operand
  BY <1>1, ReadyArgs DEF ReadsValue, CompareBranch, ConditionalBranch
<1>3. /\ Operand0(il.args[1]) \in Opnds /\ Operand0(il.args[2]) \in Opnds
      /\ Target(il.args[3]) \in Opnds /\ Reg1 \in Opnds /\ Reg2 \in Opnds
  BY <1>2, Operand0Typed, NamesTyped, RegistersTyped
<1>4. Loads(il.args[1], il.args[2]) \in Seq(Emitted)
  BY <1>2, LoadsTyped
<1>5. /\ Jump0(mode, <<Reg1, Reg2, Target(il.args[3])>>) \in Emitted
      /\ Jump0(mode, <<Operand0(il.args[1]), Operand0(il.args[2]), Target(il.args[3])>>)
           \in Emitted
  BY <1>3, JumpEmitted
<1>6. /\ <<Jump0(mode, <<Reg1, Reg2, Target(il.args[3])>>)>> \in Seq(Emitted)
      /\ <<Jump0(mode, <<Operand0(il.args[1]), Operand0(il.args[2]), Target(il.args[3])>>)>>
           \in Seq(Emitted)
      /\ <<>> \in Seq(Emitted)
  BY <1>5, Ones
<1>7. Before(il.args[1]) \in Seq(Emitted) /\ Before(il.args[2]) \in Seq(Emitted)
  BY <1>2, BeforeTyped
<1> DEFINE narrow == <<Jump0(mode, <<Reg1, Reg2, Target(il.args[3])>>)>>
           wide == <<Jump0(mode, <<Operand0(il.args[1]), Operand0(il.args[2]),
                                   Target(il.args[3])>>)>>
<1>8. narrow \in Seq(Emitted) /\ wide \in Seq(Emitted)
  BY <1>6
<1> HIDE DEF narrow, wide
<1>9. /\ Before(il.args[1]) \o Before(il.args[2])
           \o Loads(il.args[1], il.args[2]) \o narrow \in Seq(Emitted)
      /\ Before(il.args[1]) \o Before(il.args[2]) \o <<>> \o wide \in Seq(Emitted)
  BY <1>4, <1>6, <1>7, <1>8, Joining
<1>10. CASE IsNarrow(il.args[1])
  BY <1>9, <1>10 DEF GenerateCompareBranch, narrow
<1>11. CASE ~IsNarrow(il.args[1])
  BY <1>9, <1>11 DEF GenerateCompareBranch, wide
<1>12. QED
  BY <1>10, <1>11

\* a branch on a value,
LEMMA ConditionalVisit ==
  ASSUME LayoutOK, NEW il, Ready(il), il.op \in ConditionalBranch, NEW mode \in {"Z", "NZ"}
  PROVE  GenerateConditionalBr(il, mode) \in Seq(Emitted)
<1>1. Len(il.args) = 2 /\ il.op # "Call"
  BY ReadyArgs DEF WellFormed, ConditionalBranch
<1>2. ValueOpnd(il.args[1]) /\ il.args[2] \in Operand
  BY <1>1, ReadyArgs DEF ReadsValue, ConditionalBranch
<1> DEFINE o == Operand0(il.args[1])
           to == Target(il.args[2])
<1>3. o \in Opnds /\ to \in Opnds /\ Reg1 \in Opnds
  BY <1>2, Operand0Typed, NamesTyped, RegistersTyped
<1> HIDE DEF o, to
<1>4. /\ CONV(o, Reg1) \in Emitted /\ Jump0(mode, <<Reg1, to>>) \in Emitted
      /\ Jump0(mode, <<o, to>>) \in Emitted
  BY <1>3, ConvEmitted, JumpEmitted
<1>5. /\ <<CONV(o, Reg1), Jump0(mode, <<Reg1, to>>)>> \in Seq(Emitted)
      /\ <<Jump0(mode, <<o, to>>)>> \in Seq(Emitted)
  BY <1>4, Ones
<1> DEFINE branch == IF IsNarrow(il.args[1])
                     THEN <<CONV(o, Reg1), Jump0(mode, <<Reg1, to>>)>>
                     ELSE <<Jump0(mode, <<o, to>>)>>
<1>6. branch \in Seq(Emitted)
  BY <1>5
<1> HIDE DEF branch
<1>7. Before(il.args[1]) \o branch \in Seq(Emitted)
  BY <1>2, <1>6, BeforeTyped, Joining
<1>8. QED
  BY <1>7 DEF GenerateConditionalBr, branch, o, to

\* a branch,
LEMMA BrVisit ==
  ASSUME NEW il, Ready(il), il.op = "Br"
  PROVE  VisitBr(il) \in Seq(Emitted)
<1>1. il.args[1] \in Operand
  BY ReadyArgs DEF WellFormed
<1>2. Jump0("J", <<Target(il.args[1])>>) \in Emitted
  BY <1>1, NamesTyped, JumpEmitted
<1>3. QED
  BY <1>2, Ones DEF VisitBr

\* a copy or conversion,
LEMMA MovVisit ==
  ASSUME LayoutOK, NEW il, Ready(il), il.op \in {"Mov", "Conv"}
  PROVE  VisitMov(il) \in Seq(Emitted)
<1>1. Len(il.args) = 2
  BY ReadyArgs DEF WellFormed
<1>2. ValueOpnd(il.args[1]) /\ ValueOpnd(il.args[2])
  BY <1>1, ReadyValues DEF ConditionalBranch, CompareBranch
<1>3. CONV(Operand0(il.args[2]), Operand0(il.args[1])) \in Emitted
  BY <1>2, Operand0Typed, ConvEmitted
<1>4. <<CONV(Operand0(il.args[2]), Operand0(il.args[1]))>> \in Seq(Emitted)
  BY <1>3, Ones
<1>5. QED
  BY <1>2, <1>4, BeforeTyped, Joining DEF VisitMov

\* a negation,
LEMMA NegVisit ==
  ASSUME LayoutOK, NEW il, Ready(il), il.op = "Neg"
  PROVE  VisitNeg(il) \in Seq(Emitted)
<1>1. Len(il.args) = 2
  BY ReadyArgs DEF WellFormed
<1>2. ValueOpnd(il.args[1]) /\ ValueOpnd(il.args[2])
  BY <1>1, ReadyValues DEF ConditionalBranch, CompareBranch
<1>3. /\ Immediate(0) \in Opnds
      /\ Operand0(il.args[1]) \in Opnds /\ Operand0(il.args[2]) \in Opnds
  BY <1>2, Operand0Typed, ImmediateTyped DEF Placeholder
<1>4. SUB(Immediate(0), Operand0(il.args[2]), Operand0(il.args[1])) \in Emitted
  BY <1>3, ArithmeticEmitted
<1>5. <<SUB(Immediate(0), Operand0(il.args[2]), Operand0(il.args[1]))>> \in Seq(Emitted)
  BY <1>4, Ones
<1>6. QED
  BY <1>2, <1>5, BeforeTyped, Joining DEF VisitNeg

\* the address of a variable,
LEMMA LdaVisit ==
  ASSUME LayoutOK, NEW il, Ready(il), il.op = "Lda"
  PROVE  VisitLda(il) \in Seq(Emitted)
<1>1. Len(il.args) = 2
  BY ReadyArgs DEF OperandsThere
<1>2. ValueOpnd(il.args[1]) /\ ValueOpnd(il.args[2]) /\ il.args[2] \in Operand
  BY <1>1, ReadyValues, ReadyArgs DEF ConditionalBranch, CompareBranch
<1> DEFINE o == il.args[2]
           name == IF o.name = "__function" THEN LabelName(o) ELSE Key(o)
<1>3. Operand0(il.args[1]) \in Opnds
  BY <1>2, Operand0Typed
<1>4. CONV(To("Immediate", name), Operand0(il.args[1])) \in Emitted
  <2>1. name \in Names
    BY <1>2, NamesTyped
  <2> HIDE DEF name
  <2>2. QED
    BY <1>3, <2>1, ToTyped, ConvEmitted DEF Modes
<1>5. ASSUME o.kind = "variable", o.level # "global"
      PROVE  ADD(Direct(FRAME_POINTER), Immediate(layout.where[Key(o)]),
                 Operand0(il.args[1])) \in Emitted
  <2>1. layout.where[Key(o)] \in Int /\ layout.where[Key(o)] # Placeholder
    BY <1>2, <1>5, LocalPlace
  <2>2. QED
    BY <1>3, <2>1, ImmediateTyped, RegistersTyped, ArithmeticEmitted
<1> DEFINE fixed == <<CONV(To("Immediate", name), Operand0(il.args[1]))>>
           inFrame == <<ADD(Direct(FRAME_POINTER), Immediate(layout.where[Key(o)]),
                            Operand0(il.args[1]))>>
<1>6. Before(il.args[1]) \in Seq(Emitted)
  BY <1>2, BeforeTyped
<1>7. CASE o.level = "global"
  <2>1. fixed \in Seq(Emitted)
    BY <1>4, Ones
  <2> HIDE DEF fixed
  <2>2. Before(il.args[1]) \o fixed \in Seq(Emitted)
    BY <1>6, <2>1, Joining
  <2>3. QED
    BY <1>7, <2>2 DEF VisitLda, fixed
<1>8. CASE o.level # "global"
  <2>1. o.kind = "variable"
    BY <1>1, ReadyArgs DEF OperandsThere
  <2>2. inFrame \in Seq(Emitted)
    BY <1>5, <1>8, <2>1, Ones
  <2> HIDE DEF inFrame
  <2>3. Before(il.args[1]) \o inFrame \in Seq(Emitted)
    BY <1>6, <2>2, Joining
  <2>4. QED
    BY <1>8, <2>3 DEF VisitLda, inFrame
<1>9. QED
  BY <1>7, <1>8

\* A pointer as the operand it is, and the instruction that loads it.
LEMMA PointerTyped ==
  ASSUME LayoutOK, NEW p, ValueOpnd(p), NEW conv \in Convs
  PROVE  Through(p, conv) \in Opnds /\ LoadPointer(p) \in Seq(Emitted)
<1>1. CASE p.kind = "constant"
  <2>1. Direct(p.value) \in Opnds
    BY ImmediateTyped DEF ValueOpnd, Operand
  <2>2. [Direct(p.value) EXCEPT !.conv = conv] \in Opnds
    BY <2>1, ConvSet
  <2>3. QED
    BY <1>1, <2>2, ExitEmitted, Ones DEF Through, LoadPointer
<1>2. CASE p.kind # "constant" /\ p.level = "global"
  <2>1. To("Indirect", Key(p)) \in Opnds
    BY NamesTyped, ToTyped DEF ValueOpnd, Modes
  <2>2. [To("Indirect", Key(p)) EXCEPT !.conv = conv] \in Opnds
    BY <2>1, ConvSet
  <2>3. QED
    BY <1>2, <2>2, ExitEmitted, Ones DEF Through, LoadPointer
<1>3. CASE p.kind # "constant" /\ p.level # "global"
  <2>1. p.kind = "variable"
    BY <1>3 DEF ValueOpnd, Operand
  <2>2. layout.where[Key(p)] \in Int
    BY <1>3, <2>1, LocalPlace
  <2>3. BaseDisplacement(FRAME_POINTER, layout.where[Key(p)], "Signed64") \in Opnds
    BY <2>2, ThroughTyped, RegistersTyped DEF Convs
  <2>4. CONV(BaseDisplacement(FRAME_POINTER, layout.where[Key(p)], "Signed64"), Reg1)
          \in Emitted
    BY <2>3, RegistersTyped, ConvEmitted
  <2>5. Indirect(GENERAL_REG_1, conv) \in Opnds
    BY RegistersTyped, ThroughTyped
  <2>6. QED
    BY <1>3, <2>4, <2>5, Ones DEF Through, LoadPointer
<1>4. QED
  BY <1>1, <1>2, <1>3

\* a read through a pointer,
LEMMA LdindVisit ==
  ASSUME LayoutOK, NEW il, Ready(il), il.op = "Ldind"
  PROVE  VisitLdind(il) \in Seq(Emitted)
<1>1. Len(il.args) = 2
  BY ReadyArgs DEF WellFormed
<1>2. ValueOpnd(il.args[1]) /\ ValueOpnd(il.args[2])
  BY <1>1, ReadyValues DEF ConditionalBranch, CompareBranch
<1> DEFINE conv == ConvAttribute(il.args[2])
           from == Through(il.args[2], conv)
           to == [Operand0(il.args[1]) EXCEPT !.conv = conv]
<1>3. conv \in Convs
  BY ConvAttributeTyped
<1>4. from \in Opnds /\ LoadPointer(il.args[2]) \in Seq(Emitted)
  BY <1>2, <1>3, PointerTyped
<1>5. to \in Opnds
  BY <1>2, <1>3, Operand0Typed, ConvSet
<1>6. <<CONV(from, to)>> \in Seq(Emitted)
  <2> HIDE DEF from, to
  <2>1. CONV(from, to) \in Emitted
    BY <1>4, <1>5, ConvEmitted
  <2>2. QED
    BY <2>1, Ones
<1>7. LoadPointer(il.args[2]) \o Before(il.args[1]) \o <<CONV(from, to)>> \in Seq(Emitted)
  <2> HIDE DEF from, to
  <2>1. QED
    BY <1>2, <1>4, <1>6, BeforeTyped, Joining
<1>8. QED
  BY <1>7 DEF VisitLdind

\* a write through a pointer,
LEMMA StindVisit ==
  ASSUME LayoutOK, NEW il, Ready(il), il.op = "Stind"
  PROVE  VisitStind(il) \in Seq(Emitted)
<1>1. Len(il.args) = 2
  BY ReadyArgs DEF OperandsThere
<1>2. ValueOpnd(il.args[1]) /\ ValueOpnd(il.args[2])
  BY <1>1, ReadyValues DEF ConditionalBranch, CompareBranch
<1> DEFINE to == Through(il.args[1], ConvAttribute(il.args[2]))
           from == Operand0(il.args[2])
<1>3. to \in Opnds /\ LoadPointer(il.args[1]) \in Seq(Emitted)
  BY <1>2, ConvAttributeTyped, PointerTyped
<1>4. from \in Opnds
  BY <1>2, Operand0Typed
<1>5. <<CONV(from, to)>> \in Seq(Emitted)
  <2> HIDE DEF from, to
  <2>1. CONV(from, to) \in Emitted
    BY <1>3, <1>4, ConvEmitted
  <2>2. QED
    BY <2>1, Ones
<1>6. LoadPointer(il.args[1]) \o Before(il.args[2]) \o <<CONV(from, to)>> \in Seq(Emitted)
  <2> HIDE DEF from, to
  <2>1. QED
    BY <1>2, <1>3, <1>5, BeforeTyped, Joining
<1>7. QED
  BY <1>6 DEF VisitStind

\* (the offset of an element in one register, its address in another)
LEMMA ElementTyped ==
  ASSUME LayoutOK, NEW a, ValueOpnd(a), NEW i, ValueOpnd(i)
  PROVE  ContainerAndIndex(a, i) \in Seq(Emitted) /\ ToElement(a, i) \in Seq(Emitted)
<1> DEFINE size == SizeOf(ElementType(layout.type[Key(a)]))
<1>1. size \in Nat /\ size # Placeholder
  BY WordAssumption DEF SizeOf, ElementType, Placeholder
<1>2. ElementOffset(a, i) \in Emitted
  <2> HIDE DEF size
  <2>1. Immediate(size) \in Opnds
    BY <1>1, ImmediateTyped
  <2>2. Ins("MUL", <<Operand0(i), Immediate(size), Reg1>>) \in Emitted
    BY <2>1, Operand0Typed, RegistersTyped, ArithmeticEmitted
  <2>3. QED
    BY <2>2 DEF ElementOffset, size
<1>3. ADD(Operand0(a), Reg1, Reg2) \in Emitted
  BY Operand0Typed, RegistersTyped, ArithmeticEmitted
<1>4. <<ElementOffset(a, i)>> \in Seq(Emitted) /\ <<ADD(Operand0(a), Reg1, Reg2)>> \in Seq(Emitted)
  BY <1>2, <1>3, Ones
<1>5. ContainerAndIndex(a, i) \in Seq(Emitted)
  BY <1>4, BeforeTyped, Joining DEF ContainerAndIndex
<1>6. QED
  BY <1>4, <1>5, Joining DEF ToElement

\* the elements of arrays,
LEMMA ElementVisits ==
  ASSUME LayoutOK, NEW il, Ready(il), il.op \in {"Ldelem", "Ldelema", "Stelem"}
  PROVE  /\ il.op = "Ldelem" => VisitLdelem(il) \in Seq(Emitted)
         /\ il.op = "Ldelema" => VisitLdelema(il) \in Seq(Emitted)
         /\ il.op = "Stelem" => VisitStelem(il) \in Seq(Emitted)
<1>1. Len(il.args) = 3
  BY ReadyArgs DEF OperandsThere, WellFormed
<1>2. ValueOpnd(il.args[1]) /\ ValueOpnd(il.args[2]) /\ ValueOpnd(il.args[3])
  BY <1>1, ReadyValues DEF ConditionalBranch, CompareBranch
<1>3. \A i \in 1 .. 3 : Operand0(il.args[i]) \in Opnds /\ Before(il.args[i]) \in Seq(Emitted)
  BY <1>1, <1>2, Operand0Typed, BeforeTyped
<1>4. \A c \in Convs : Indirect(GENERAL_REG_2, c) \in Opnds
  BY RegistersTyped, ThroughTyped
<1>5. /\ ToElement(il.args[2], il.args[3]) \in Seq(Emitted)
      /\ ContainerAndIndex(il.args[2], il.args[3]) \in Seq(Emitted)
      /\ ToElement(il.args[1], il.args[2]) \in Seq(Emitted)
  BY <1>2, ElementTyped
<1> DEFINE load == CONV(Indirect(GENERAL_REG_2, ConvAttribute(il.args[1])),
                        Operand0(il.args[1]))
           store == CONV(Operand0(il.args[3]),
                         Indirect(GENERAL_REG_2, ConvAttribute(il.args[3])))
           take == ADD(Operand0(il.args[2]), Reg1, Operand0(il.args[1]))
<1>6. load \in Emitted /\ store \in Emitted /\ take \in Emitted
  <2>1. /\ Operand0(il.args[1]) \in Opnds /\ Operand0(il.args[2]) \in Opnds
        /\ Operand0(il.args[3]) \in Opnds
    BY <1>3
  <2>2. load \in Emitted /\ store \in Emitted
    BY <1>4, <2>1, ConvAttributeTyped, ConvEmitted
  <2>3. take \in Emitted
    BY <2>1, RegistersTyped, ArithmeticEmitted
  <2>4. QED
    BY <2>2, <2>3
<1>7. <<load>> \in Seq(Emitted) /\ <<store>> \in Seq(Emitted) /\ <<take>> \in Seq(Emitted)
  <2> HIDE DEF load, store, take
  <2>1. QED
    BY <1>6, Ones
<1> DEFINE before(i) == Before(il.args[i])
<1>8. before(1) \in Seq(Emitted) /\ before(3) \in Seq(Emitted)
  BY <1>3
<1>9. /\ ToElement(il.args[2], il.args[3]) \o before(1) \o <<load>> \in Seq(Emitted)
      /\ ContainerAndIndex(il.args[2], il.args[3]) \o before(1) \o <<take>> \in Seq(Emitted)
      /\ ToElement(il.args[1], il.args[2]) \o before(3) \o <<store>> \in Seq(Emitted)
  <2> HIDE DEF load, store, take, before
  <2>1. QED
    BY <1>5, <1>7, <1>8, Joining
<1>10. QED
  BY <1>9 DEF VisitLdelem, VisitLdelema, VisitStelem

\* the instructions of an __asm block.
LEMMA AsmVisit ==
  ASSUME LayoutOK, NEW il, Ready(il), il.op \in {"AsmMov", "AsmMovNewr0", "AsmNewr"}
  PROVE  VisitAsm(il) \in Seq(Emitted)
<1>1. /\ il.op = "AsmMov" => Len(il.args) = 2
      /\ il.op = "AsmMovNewr0" => Len(il.args) = 1
      /\ il.op = "AsmNewr" => Len(il.args) = 4
  BY ReadyArgs DEF OperandsThere
<1>2. \A i \in 1 .. Len(il.args) : Direct(il.args[i].value) \in Opnds
                                   /\ Immediate(il.args[i].value) \in Opnds
                                   /\ Direct(il.args[i].value).mode = "Direct"
  <2>1. \A i \in 1 .. Len(il.args) : il.args[i].value \in Int /\ il.args[i].value # Placeholder
    BY ReadyArgs DEF Operand
  <2>2. QED
    BY <2>1, ImmediateTyped DEF Direct, Opnd
<1>3. CASE il.op = "AsmMov"
  <2>0. Immediate(il.args[1].value) \in Opnds /\ Direct(il.args[2].value) \in Opnds
    BY <1>1, <1>2, <1>3
  <2>1. CONV(Immediate(il.args[1].value), Direct(il.args[2].value)) \in Emitted
    BY <2>0, ConvEmitted
  <2>2. <<CONV(Immediate(il.args[1].value), Direct(il.args[2].value))>> \in Seq(Emitted)
    BY <2>1, Ones
  <2>3. QED
    BY <1>3, <2>2 DEF VisitAsm
<1>4. CASE il.op = "AsmMovNewr0"
  <2>0. Direct(il.args[1].value) \in Opnds
    BY <1>1, <1>2, <1>4
  <2>1. To("Immediate", <<"__newr0", 0>>) \in Opnds
    BY ToTyped DEF Names, Modes
  <2>2. CONV(To("Immediate", <<"__newr0", 0>>), Direct(il.args[1].value)) \in Emitted
    BY <2>0, <2>1, ConvEmitted
  <2>3. <<CONV(To("Immediate", <<"__newr0", 0>>), Direct(il.args[1].value))>> \in Seq(Emitted)
    BY <2>2, Ones
  <2>4. QED
    BY <1>4, <2>3 DEF VisitAsm
<1>5. CASE il.op = "AsmNewr"
  <2> DEFINE four == [i \in 1 .. 4 |-> Direct(il.args[i].value)]
  <2>1. four \in Seq(Opnds) /\ Len(four) = 4 /\ \A i \in 1 .. 4 : four[i].mode = "Direct"
    BY <1>1, <1>2, <1>5
  <2> HIDE DEF four
  <2>2. Ins("SPAWN", four) \in Emitted
    BY <2>1 DEF Ins, Emitted, Instrs, Ops, Jumps, Shaped
  <2>3. <<Ins("SPAWN", four)>> \in Seq(Emitted)
    BY <2>2, Ones
  <2>4. QED
    BY <1>5, <2>3 DEF VisitAsm, four
<1>6. QED
  BY <1>3, <1>4, <1>5

\* The whole of sequences of instructions is one.
LEMMA FlattenTyped ==
  ASSUME NEW S, NEW lists \in Seq(Seq(S))
  PROVE  FlattenSeq(lists) \in Seq(S)
<1>1. Len(lists) \in Nat /\ lists = [i \in 1 .. Len(lists) |-> lists[i]]
      /\ \A i \in 1 .. Len(lists) : lists[i] \in Seq(S)
  OBVIOUS
<1>2. Flat(lists, Len(lists)) \in Seq(S)
  BY <1>1, FlatType
<1>3. QED
  BY <1>1, <1>2 DEF Flat

\* Sizes are rounded up to words.
LEMMA Rounded ==
  ASSUME NEW n \in Nat
  PROVE  RoundUp(n, W) \in Nat
<1>1. n % W \in 0 .. (W - 1)
  BY WordAssumption
<1>2. QED
  BY <1>1, WordAssumption DEF RoundUp

\* The size of an operand on the stack is a number.
LEMMA OperandSizeTyped == \A o : GetOperandSize(o) \in Nat
  BY Rounded, WordAssumption DEF GetOperandSize

\* So are the size of the arguments of a call and where each of them goes.
LEMMA CallSizes ==
  ASSUME NEW il, Ready(il), il.op = "Call"
  PROVE  /\ CallPushSize(il) \in Nat /\ CallPushSize(il) # Placeholder
         /\ RetSize(il) \in Nat
         /\ \A n \in 0 .. (Len(il.args) - 2) :
              Total([j \in 1 .. n |-> GetOperandSize(il.args[j + 2])]) \in Nat
<1>1. Len(il.args) \in Nat /\ Len(il.args) >= 2
  BY ReadyArgs DEF OperandsThere
<1>2. ASSUME NEW n \in 0 .. (Len(il.args) - 2)
      PROVE  Total([j \in 1 .. n |-> GetOperandSize(il.args[j + 2])]) \in Nat
  <2> DEFINE sizes == [j \in 1 .. n |-> GetOperandSize(il.args[j + 2])]
  <2>1. n \in Nat
    BY <1>1
  <2>2. sizes \in Seq(Nat)
    BY <2>1, OperandSizeTyped
  <2> HIDE DEF sizes
  <2>3. Total(sizes) \in Nat
    BY <2>2, TotalIsNat
  <2>4. QED
    BY <2>3 DEF sizes
<1>3. RetSize(il) \in Nat
  BY OperandSizeTyped DEF RetSize
<1>4. Len(il.args) - 2 \in 0 .. (Len(il.args) - 2)
  BY <1>1
<1>5. Total([j \in 1 .. (Len(il.args) - 2) |-> GetOperandSize(il.args[j + 2])]) \in Nat
  BY <1>2, <1>4
<1>6. CallPushSize(il) \in Nat
  BY <1>3, <1>5, WordAssumption DEF CallPushSize
<1>7. QED
  BY <1>2, <1>3, <1>6 DEF Placeholder

Pushes(il) ==
  LET offset(i) == W + RetSize(il)
                     + Total([j \in 1 .. (i - 3) |-> GetOperandSize(il.args[j + 2])])
      Pushed(i) == Before(il.args[i])
                     \o <<CONV(Operand0(il.args[i]),
                               BaseDisplacement(STACK_POINTER, offset(i),
                                                ConvAttribute(il.args[i])))>>
  IN FlattenSeq([i \in 1 .. (Len(il.args) - 2) |-> Pushed(i + 2)])

\* The code that pushes the arguments of a call is like other code.
LEMMA PushesTyped ==
  ASSUME LayoutOK, NEW il, Ready(il), il.op = "Call"
  PROVE  Pushes(il) \in Seq(Emitted)
<1>1. Len(il.args) \in Nat /\ Len(il.args) >= 2 /\ Len(il.args) - 2 \in Nat
  BY ReadyArgs DEF OperandsThere
<1> DEFINE n == Len(il.args) - 2
           offset(i) == W + RetSize(il)
                          + Total([j \in 1 .. (i - 3) |-> GetOperandSize(il.args[j + 2])])
           to(i) == BaseDisplacement(STACK_POINTER, offset(i), ConvAttribute(il.args[i]))
           Pushed(i) == Before(il.args[i]) \o <<CONV(Operand0(il.args[i]), to(i))>>
           pushes == [i \in 1 .. n |-> Pushed(i + 2)]
<1>2. ASSUME NEW i \in 1 .. n
      PROVE  pushes[i] \in Seq(Emitted)
  <2>1. i + 2 \in 1 .. Len(il.args) /\ i + 2 # 2 /\ i + 2 > 1 /\ (i + 2) - 3 \in 0 .. n
    BY <1>1
  <2>2. ValueOpnd(il.args[i + 2])
    BY <2>1, ReadyArgs DEF ReadsValue, ConditionalBranch, CompareBranch
  <2>3. offset(i + 2) \in Int
    <3>1. Total([j \in 1 .. ((i + 2) - 3) |-> GetOperandSize(il.args[j + 2])]) \in Nat
      BY <2>1, CallSizes, Zenon
    <3> DEFINE before == Total([j \in 1 .. ((i + 2) - 3) |->
                                  GetOperandSize(il.args[j + 2])])
    <3> HIDE DEF before
    <3>2. W + RetSize(il) + before \in Int
      BY <3>1, CallSizes, WordAssumption DEF before
    <3>3. QED
      BY <3>2 DEF before
  <2>4. to(i + 2) \in Opnds
    <3> HIDE DEF offset
    <3>1. QED
      BY <2>3, RegistersTyped, ConvAttributeTyped, ThroughTyped
  <2>5. CONV(Operand0(il.args[i + 2]), to(i + 2)) \in Emitted
    <3> HIDE DEF to
    <3>1. QED
      BY <2>2, <2>4, Operand0Typed, ConvEmitted
  <2>6. Pushed(i + 2) \in Seq(Emitted)
    <3>1. <<CONV(Operand0(il.args[i + 2]), to(i + 2))>> \in Seq(Emitted)
      <4> DEFINE push == CONV(Operand0(il.args[i + 2]), to(i + 2))
      <4>1. push \in Emitted
        BY <2>5
      <4> HIDE DEF push
      <4>2. <<push>> \in Seq(Emitted)
        BY <4>1, Ones
      <4>3. QED
        BY <4>2 DEF push
    <3>2. Before(il.args[i + 2]) \in Seq(Emitted)
      BY <2>2, BeforeTyped
    <3> DEFINE second == <<CONV(Operand0(il.args[i + 2]), to(i + 2))>>
    <3> HIDE DEF second
    <3>3. Before(il.args[i + 2]) \o second \in Seq(Emitted)
      BY <3>1, <3>2, Joining DEF second
    <3>4. QED
      BY <3>3 DEF second
  <2> HIDE DEF Pushed
  <2>7. QED
    BY <2>6
<1>3. FlattenSeq(pushes) \in Seq(Emitted)
  <2> HIDE DEF Pushed
  <2>1. pushes = [i \in 1 .. n |-> pushes[i]]
    OBVIOUS
  <2> HIDE DEF pushes
  <2> DEFINE S == Seq(Emitted)
  <2>2. n \in Nat /\ \A i \in 1 .. n : pushes[i] \in S
    BY <1>1, <1>2
  <2> HIDE DEF n, S
  <2>3. pushes \in Seq(S)
    BY <2>1, <2>2
  <2>4. QED
    BY <2>3, FlattenTyped DEF S
<1>4. QED
  BY <1>3 DEF Pushes

\* The code of a call up to its branch, for any return address,
LEMMA CallTyped ==
  ASSUME LayoutOK, NEW il, Ready(il), il.op = "Call", NEW back \in Nat
  PROVE  CallCode(il, back) \in Seq(Emitted)
<1>1. Len(il.args) \in Nat /\ Len(il.args) >= 2
  BY ReadyArgs DEF OperandsThere
<1> DEFINE begin == <<SUB(Direct(STACK_POINTER), Immediate(CallPushSize(il)),
                          Direct(STACK_POINTER)),
                      CONV(Immediate(back), BaseDisplacement(STACK_POINTER, 0, "Signed64"))>>
           branch == <<Jump0("J", <<Target(il.args[1])>>)>>
<1>4. begin \in Seq(Emitted)
  <2>1. /\ Direct(STACK_POINTER) \in Opnds /\ Immediate(CallPushSize(il)) \in Opnds
        /\ Immediate(back) \in Opnds
    BY CallSizes, RegistersTyped, ImmediateTyped DEF Placeholder
  <2>2. BaseDisplacement(STACK_POINTER, 0, "Signed64") \in Opnds
    BY RegistersTyped, ThroughTyped DEF Convs
  <2>3. SUB(Direct(STACK_POINTER), Immediate(CallPushSize(il)), Direct(STACK_POINTER))
          \in Emitted
    BY <2>1, ArithmeticEmitted
  <2>4. CONV(Immediate(back), BaseDisplacement(STACK_POINTER, 0, "Signed64")) \in Emitted
    BY <2>1, <2>2, ConvEmitted
  <2>5. QED
    BY <2>3, <2>4, Ones
<1>5. branch \in Seq(Emitted)
  <2>1. il.args[1] \in Operand
    BY <1>1, ReadyArgs
  <2>2. Jump0("J", <<Target(il.args[1])>>) \in Emitted
    BY <2>1, NamesTyped, JumpEmitted
  <2>3. QED
    BY <2>2, Ones
<1>6. CallCode(il, back) = (begin \o Pushes(il)) \o branch
  BY DEF CallCode, Pushes
<1> HIDE DEF begin, branch
<1>7. QED
  BY <1>4, <1>5, <1>6, PushesTyped, Joining

\* the whole code of a call, and what is done behind it.
LEMMA CallVisits ==
  ASSUME LayoutOK, NEW il, Ready(il), il.op = "Call", NEW a0 \in Nat
  PROVE  VisitCall(il, a0) \in Seq(Emitted) /\ VisitCallReturn(il) \in Seq(Emitted)
<1>1. VisitCall(il, a0) \in Seq(Emitted)
  <2>1. CallCode(il, 0) \in Seq(Emitted)
    BY CallTyped
  <2>2. a0 + LengthOf(CallCode(il, 0)) \in Nat
    BY <2>1, AddressKnown
  <2>3. QED
    BY <2>2, CallTyped DEF VisitCall
<1> DEFINE pop == ADD(Direct(STACK_POINTER), Immediate(CallPushSize(il)),
                      Direct(STACK_POINTER))
           from == BaseDisplacement(STACK_POINTER, W, ConvAttribute(il.args[2]))
           to == Operand0(il.args[2])
<1>2. <<pop>> \in Seq(Emitted)
  <2>1. Direct(STACK_POINTER) \in Opnds /\ Immediate(CallPushSize(il)) \in Opnds
    BY CallSizes, RegistersTyped, ImmediateTyped
  <2>2. pop \in Emitted
    BY <2>1, ArithmeticEmitted
  <2> HIDE DEF pop
  <2>3. QED
    BY <2>2, Ones
<1>3. CASE il.args[2].kind = "empty"
  <2>1. <<>> \in Seq(Emitted)
    OBVIOUS
  <2>2. QED
    BY <1>1, <1>2, <1>3, <2>1, Joining DEF VisitCallReturn
<1>4. CASE il.args[2].kind # "empty"
  <2>1. 2 \in 1 .. Len(il.args) /\ il.args[2] \in Operand
    BY ReadyArgs DEF OperandsThere
  <2>2. ReadsValue(il, 2)
    BY DEF ReadsValue, ConditionalBranch, CompareBranch
  <2>3. ValueOpnd(il.args[2])
    BY <1>4, <2>1, <2>2 DEF Ready, Visitable, ValueOpnd, Instruction
  <2>4. to \in Opnds
    BY <2>3, Operand0Typed
  <2>5. from \in Opnds
    BY RegistersTyped, ThroughTyped, ConvAttributeTyped, WordAssumption
  <2> HIDE DEF to, from
  <2>6. CONV(from, to) \in Emitted
    BY <2>4, <2>5, ConvEmitted
  <2>7. <<CONV(from, to)>> \in Seq(Emitted)
    BY <2>6, Ones
  <2>8. Before(il.args[2]) \o <<CONV(from, to)>> \in Seq(Emitted)
    BY <2>3, <2>7, BeforeTyped, Joining
  <2> HIDE DEF pop
  <2>9. (Before(il.args[2]) \o <<CONV(from, to)>>) \o <<pop>> \in Seq(Emitted)
    BY <1>2, <2>8, Joining
  <2>10. QED
    BY <1>1, <1>4, <2>9 DEF VisitCallReturn, to, from, pop
<1>5. QED
  BY <1>1, <1>3, <1>4

\* The operands by which the frames of functions are made and left.
LEMMA StackOperands ==
  /\ Direct(STACK_POINTER) \in Opnds /\ Direct(FRAME_POINTER) \in Opnds
  /\ Direct(CURRENT_STACK_BASE) \in Opnds /\ Direct(CURRENT_STACK_SIZE) \in Opnds
  /\ Direct(GENERAL_REG_1) \in Opnds /\ Reg1 \in Opnds /\ Reg2 \in Opnds
  /\ Indirect(STACK_POINTER, "Signed64") \in Opnds
  /\ \A a \in {STACK_POINTER, FRAME_POINTER, GENERAL_REG_1} : \A d \in Int : \A c \in Convs :
       BaseDisplacement(a, d, c) \in Opnds
  /\ "Signed64" \in Convs
<1>1. "Signed64" \in Convs
  BY DEF Convs
<1>2. QED
  BY <1>1, RegistersTyped, ImmediateTyped, ThroughTyped DEF Reg1

\* The code of a return.
LEMMA RetVisit ==
  ASSUME LayoutOK, NEW il, Ready(il), il.op = "Ret"
  PROVE  VisitRet(il) \in Seq(Emitted)
<1> DEFINE leave == <<CONV(Direct(FRAME_POINTER), Direct(STACK_POINTER)),
                      CONV(Indirect(STACK_POINTER, "Signed64"), Direct(FRAME_POINTER)),
                      ADD(Direct(STACK_POINTER), Immediate(W), Direct(STACK_POINTER)),
                      Jump0("JI", <<Indirect(STACK_POINTER, "Signed64")>>)>>
           result == CONV(Operand0(il.args[1]),
                          BaseDisplacement(FRAME_POINTER, PARAMETER_OFFSET,
                                           ConvAttribute(il.args[1])))
<1>1. leave \in Seq(Emitted)
  <2>1. Immediate(W) \in Opnds
    BY ImmediateTyped, WordAssumption DEF Placeholder
  <2>2. /\ CONV(Direct(FRAME_POINTER), Direct(STACK_POINTER)) \in Emitted
        /\ CONV(Indirect(STACK_POINTER, "Signed64"), Direct(FRAME_POINTER)) \in Emitted
    BY StackOperands, ConvEmitted
  <2>3. ADD(Direct(STACK_POINTER), Immediate(W), Direct(STACK_POINTER)) \in Emitted
    BY <2>1, StackOperands, ArithmeticEmitted
  <2>4. Jump0("JI", <<Indirect(STACK_POINTER, "Signed64")>>) \in Emitted
    BY StackOperands, JumpEmitted
  <2>5. QED
    BY <2>2, <2>3, <2>4, Ones
<1>2. CASE il.args = <<>> \/ il.args[1].kind = "empty"
  <2>1. <<>> \in Seq(Emitted)
    OBVIOUS
  <2> HIDE DEF leave
  <2>2. <<>> \o leave \in Seq(Emitted)
    BY <1>1, <2>1, Joining
  <2>3. QED
    BY <1>2, <2>2 DEF VisitRet, leave
<1>3. CASE ~(il.args = <<>> \/ il.args[1].kind = "empty")
  <2>1. 1 \in 1 .. Len(il.args) /\ ReadsValue(il, 1)
    BY <1>3, ReadyArgs DEF ReadsValue, ConditionalBranch, CompareBranch
  <2>2. ValueOpnd(il.args[1])
    BY <1>3, <2>1, ReadyArgs DEF Ready, Visitable, ValueOpnd, Instruction
  <2>3. BaseDisplacement(FRAME_POINTER, PARAMETER_OFFSET, ConvAttribute(il.args[1])) \in Opnds
    BY StackOperands, ConvAttributeTyped, WordAssumption DEF PARAMETER_OFFSET
  <2>4. result \in Emitted
    BY <2>2, <2>3, Operand0Typed, ConvEmitted
  <2> HIDE DEF leave, result
  <2>5. <<result>> \in Seq(Emitted)
    BY <2>4, Ones
  <2>6. Before(il.args[1]) \in Seq(Emitted)
    BY <2>2, BeforeTyped
  <2>7. (Before(il.args[1]) \o <<result>>) \o leave \in Seq(Emitted)
    BY <1>1, <2>5, <2>6, Joining
  <2>8. QED
    BY <1>3, <2>7 DEF VisitRet, leave, result
<1>4. QED
  BY <1>2, <1>3

\* The code at the start of a function whose frame has a size.
LEMMA EnterTyped ==
  ASSUME NEW f, layout.frame[f] \in Nat
  PROVE  EnterFunctionCode(f) \in Seq(Emitted)
<1>1. /\ Immediate(W) \in Opnds /\ Immediate(layout.frame[f] + W) \in Opnds
      /\ BaseDisplacement(STACK_POINTER, -W, "Signed64") \in Opnds
  BY ImmediateTyped, WordAssumption, StackOperands DEF Placeholder
<1>2. CONV(Direct(FRAME_POINTER), BaseDisplacement(STACK_POINTER, -W, "Signed64")) \in Emitted
  BY <1>1, StackOperands, ConvEmitted
<1>3. /\ SUB(Direct(STACK_POINTER), Immediate(W), Direct(FRAME_POINTER)) \in Emitted
      /\ SUB(Direct(STACK_POINTER), Immediate(layout.frame[f] + W), Direct(STACK_POINTER))
           \in Emitted
  BY <1>1, StackOperands, ArithmeticEmitted
<1>4. QED
  BY <1>2, <1>3, Ones DEF EnterFunctionCode

\* A function has a name.
LEMMA FunctionName == ASSUME NEW f \in Nat PROVE <<"__function", f>> \in Names
  BY DEF Names

\* The code that starts a program,
LEMMA Crt0Typed == GenerateCrt0 \in Seq(Emitted)
<1>1. StackEnd(STACK_POINTER) \in Emitted
  BY StackOperands, ArithmeticEmitted DEF StackEnd
<1>2. CONV(Immediate(0), Direct(FRAME_POINTER)) \in Emitted
  BY StackOperands, ImmediateTyped, ConvEmitted DEF Placeholder
<1>3. Jump0("J", <<To("Immediate", <<"__function", 1>>)>>) \in Emitted
  <2>1. To("Immediate", <<"__function", 1>>) \in Opnds
    BY FunctionName, ToTyped DEF Modes
  <2>2. QED
    BY <2>1, JumpEmitted
<1>4. QED
  BY <1>1, <1>2, <1>3, Ones DEF GenerateCrt0

\* and that which starts a runner, up to its branch,
LEMMA Newr0CodeTyped ==
  ASSUME NEW back \in Nat
  PROVE  Newr0Code(back) \in Seq(Emitted)
<1>1. /\ Immediate(0) \in Opnds /\ Immediate(3 * W) \in Opnds /\ Immediate(back) \in Opnds
      /\ BaseDisplacement(GENERAL_REG_1, -(2 * W), "Signed64") \in Opnds
      /\ BaseDisplacement(GENERAL_REG_1, -W, "Signed64") \in Opnds
  BY ImmediateTyped, WordAssumption, StackOperands DEF Placeholder
<1> DEFINE c1 == StackEnd(GENERAL_REG_1)
           c2 == CONV(Immediate(0), Direct(FRAME_POINTER))
           c3 == SUB(Reg1, Immediate(3 * W), Direct(STACK_POINTER))
           c4 == SUB(Direct(STACK_POINTER),
                     BaseDisplacement(GENERAL_REG_1, -(2 * W), "Signed64"),
                     Direct(STACK_POINTER))
           c5 == CONV(BaseDisplacement(GENERAL_REG_1, -W, "Signed64"), Reg2)
           c6 == CONV(Immediate(back), Indirect(STACK_POINTER, "Signed64"))
           c7 == Jump0("JI", <<Reg2>>)
<1>2. c1 \in Emitted /\ c3 \in Emitted /\ c4 \in Emitted
  BY <1>1, StackOperands, ArithmeticEmitted DEF StackEnd
<1>3. c2 \in Emitted /\ c5 \in Emitted /\ c6 \in Emitted
  BY <1>1, StackOperands, ConvEmitted
<1>4. c7 \in Emitted
  BY StackOperands, JumpEmitted
<1>5. Newr0Code(back) = <<c1, c2, c3, c4, c5, c6, c7>>
  BY DEF Newr0Code
<1> HIDE DEF c1, c2, c3, c4, c5, c6, c7
<1>6. QED
  BY <1>2, <1>3, <1>4, <1>5

\* and the whole.
LEMMA Newr0Typed ==
  ASSUME NEW a0 \in Nat
  PROVE  GenerateNewr0(a0) \in Seq(Emitted)
<1>1. Newr0Code(0) \in Seq(Emitted)
  BY Newr0CodeTyped
<1>2. a0 + LengthOf(Newr0Code(0)) \in Nat
  BY <1>1, AddressKnown
<1>3. QED
  BY <1>2, Newr0CodeTyped DEF GenerateNewr0

\* Whatever is visited, what is emitted are instructions the encoder knows.
LEMMA VisitTyped ==
  ASSUME LayoutOK, NEW il, Ready(il), NEW a0 \in Nat
  PROVE  Visit(il, a0) \in Seq(Emitted)
<1>1. il.op \in VisitedOps
  BY ReadyArgs
<1>2. CASE il.op \in Arithmetic
  BY <1>2, ArithmeticVisit DEF Visit, Arithmetic
<1>3. CASE il.op \in Comparison
  <2>1. \A mode \in {"L", "LE", "E", "NE"} : \A value \in BOOLEAN :
          GenerateComparison(il, mode, value, a0) \in Seq(Emitted)
    BY <1>3, ComparisonVisit
  <2>2. QED
    BY <1>3, <2>1 DEF Visit, Comparison
<1>4. CASE il.op \in CompareBranch
  <2>1. \A mode \in {"L", "LE", "E", "NE"} : GenerateCompareBranch(il, mode) \in Seq(Emitted)
    BY <1>4, CompareBranchVisit
  <2>2. QED
    BY <1>4, <2>1 DEF Visit, CompareBranch
<1>5. CASE il.op \in ConditionalBranch
  <2>1. \A mode \in {"Z", "NZ"} : GenerateConditionalBr(il, mode) \in Seq(Emitted)
    BY <1>5, ConditionalVisit
  <2>2. QED
    BY <1>5, <2>1 DEF Visit, ConditionalBranch
<1>6. CASE il.op \in {"Br", "Mov", "Conv", "Neg", "Lda"}
  BY <1>6, BrVisit, MovVisit, NegVisit, LdaVisit DEF Visit
<1>7. CASE il.op \in {"Ldind", "Stind", "Ldelem", "Ldelema", "Stelem"}
  BY <1>7, LdindVisit, StindVisit, ElementVisits DEF Visit
<1>8. CASE il.op \in {"AsmMov", "AsmMovNewr0", "AsmNewr", "Call", "Ret"}
  BY <1>8, AsmVisit, CallVisits, RetVisit DEF Visit
<1>9. CASE il.op \in {"Exit", "Label"}
  <2>1. <<Ins("EXIT", <<>>)>> \in Seq(Emitted) /\ <<>> \in Seq(Emitted)
    BY ExitEmitted, Ones
  <2>2. QED
    BY <1>9, <2>1 DEF Visit
<1>10. QED
  BY <1>1, <1>2, <1>3, <1>4, <1>5, <1>6, <1>7, <1>8, <1>9 DEF VisitedOps

AttrI0(ins, i) == Codes.i0[ins.args[i].conv]
AttrDisa(ins, i) == Codes.disa[ins.args[i].conv]
ModeOf(ins, i) == ModeCode[ins.args[i].mode]
Four == {0, 1, 2, 3}
Two == {0, 1}

\* The codes that are put into a header are small.
LEMMA ModeCodes ==
  ASSUME NEW ins \in Emitted, NEW i \in 1 .. Len(ins.args)
  PROVE  ModeOf(ins, i) \in Four /\ AttrI0(ins, i) \in {0, 1} /\ AttrDisa(ins, i) \in {0, 2}
<1>1. ins.args[i].mode \in Modes /\ ins.args[i].conv \in Convs
  BY EmittedFacts
<1>2. \A m \in Modes : ModeCode[m] \in Four
  BY DEF Modes, ModeCode, Four
<1>3. \A c \in Convs : Codes.i0[c] \in {0, 1} /\ Codes.disa[c] \in {0, 2}
  BY DEF Convs, Codes
<1>4. QED
  BY <1>1, <1>2, <1>3 DEF ModeOf, AttrI0, AttrDisa

\* Fields that do not overlap are added by |, and nothing of them is cut off: the
\* modes of two operands,
LEMMA TwoModesOf == \A c \in {0, 1}, a, b \in Four :
  /\ Or3(c * 32, a * 4, b \div 2) = 32 * c + 4 * a + b \div 2
  /\ (32 * c + 4 * a + b \div 2) % 256 = 32 * c + 4 * a + b \div 2
<1> SUFFICES ASSUME NEW c \in {0, 1}, NEW a \in 0 .. 3, NEW b \in 0 .. 3
             PROVE  /\ Or3(c * 32, a * 4, b \div 2) = 32 * c + 4 * a + b \div 2
                    /\ (32 * c + 4 * a + b \div 2) % 256 = 32 * c + 4 * a + b \div 2
  BY DEF Four
<1>1. Or3(c * 32, a * 4, b \div 2) = 32 * c + 4 * a + b \div 2
  <2>1. \A h \in {0, 1}, m, n \in 0 .. 3 : Or3(h * 32, m * 4, n \div 2) = 32 * h + 4 * m + n \div 2
    BY DEF Or3, Or, Bit
  <2>2. QED
    BY <2>1
<1>2. 32 * c + 4 * a + b \div 2 \in 0 .. 255
  OBVIOUS
<1>3. QED
  BY <1>1, <1>2

\* of three,
LEMMA ThreeModesOf == \A a, b, c \in Four :
  Or3(a * 64, b * 8, c) = 64 * a + 8 * b + c /\ (64 * a + 8 * b + c) % 256 = 64 * a + 8 * b + c
<1>1. \A a, b \in Four : Or(a * 64, b * 8) = 64 * a + 8 * b
  BY DEF Or, Bit, Four
<1>2. \A b, c \in Four : Or(64 * 0 + 8 * b, c) = 64 * 0 + 8 * b + c
  BY DEF Or, Bit, Four
<1>3. \A b, c \in Four : Or(64 * 1 + 8 * b, c) = 64 * 1 + 8 * b + c
  BY DEF Or, Bit, Four
<1>4. \A b, c \in Four : Or(64 * 2 + 8 * b, c) = 64 * 2 + 8 * b + c
  BY DEF Or, Bit, Four
<1>5. \A b, c \in Four : Or(64 * 3 + 8 * b, c) = 64 * 3 + 8 * b + c
  BY DEF Or, Bit, Four
<1>6. \A a, b, c \in Four : Or(64 * a + 8 * b, c) = 64 * a + 8 * b + c
  BY <1>2, <1>3, <1>4, <1>5 DEF Four
<1>7. \A a, b, c \in Four : (64 * a + 8 * b + c) % 256 = 64 * a + 8 * b + c
  <2>1. \A a, b, c \in Four : 64 * a + 8 * b + c \in 0 .. 255
    BY DEF Four
  <2>2. \A n \in 0 .. 255 : n % 256 = n
    OBVIOUS
  <2>3. QED
    BY <2>1, <2>2
<1>8. QED
  BY <1>1, <1>6, <1>7 DEF Or3

\* and the bytes between the operation and the modes.
LEMMA FirstOf ==
  /\ \A c \in {0, 1} : Or3((33 % 8) * 32, c * 2, 0) = 32 + 2 * c
  /\ \A op \in {3, 6, 9} : Or3((op % 8) * 32, 1 * 2, 0) = (op % 8) * 32 + 2
  /\ Or3((37 % 8) * 32, 1 * 4, 0) = 164 /\ Or3(1 * 128, 1 * 16, 1 * 2) = 146
  /\ \A j \in {0, 2, 3, 4, 5, 6, 7, 12} : /\ Or((21 % 8) * 32, j * 2) = 160 + 2 * j
                                          /\ Or(160 + 2 * j, 0) = 160 + 2 * j
  /\ \A a \in Four : Or(32, a * 4) = 32 + 4 * a
<1>1. \A c \in {0, 1} : Or3((33 % 8) * 32, c * 2, 0) = 32 + 2 * c
  BY DEF Or3, Or, Bit
<1>2. \A op \in {3, 6, 9} : Or3((op % 8) * 32, 1 * 2, 0) = (op % 8) * 32 + 2
  BY DEF Or3, Or, Bit
<1>3. Or3((37 % 8) * 32, 1 * 4, 0) = 164 /\ Or3(1 * 128, 1 * 16, 1 * 2) = 146
  BY DEF Or3, Or, Bit
<1>4. \A j \in {0, 2, 3, 4, 5, 6, 7, 12} : Or((21 % 8) * 32, j * 2) = 160 + 2 * j
  BY DEF Or3, Or, Bit
<1>5. \A j \in {0, 2, 3, 4, 5, 6, 7, 12} : Or(160 + 2 * j, 0) = 160 + 2 * j
  BY DEF Or3, Or, Bit
<1>6. \A a \in 0 .. 3 : Or(32, a * 4) = 32 + 4 * a
  BY DEF Or3, Or, Bit
<1>7. QED
  BY <1>1, <1>2, <1>3, <1>4, <1>5, <1>6 DEF Four

\* The table of codes of i0, field by field,
LEMMA CodesOf ==
  /\ Codes.i0["CONV"] = 33 /\ Codes.i0["ADD"] = 3 /\ Codes.i0["SUB"] = 6
  /\ Codes.i0["MUL"] = 9 /\ Codes.i0["B"] = 21 /\ Codes.i0["SPAWN"] = 37
  /\ Codes.i0["EXIT"] = 134 /\ Codes.i0.Signed64 = 1
  /\ Codes.i0["J"] = 0 /\ Codes.i0["JI"] = 12 /\ Codes.i0["L"] = 2
  /\ Codes.i0["LE"] = 3 /\ Codes.i0["E"] = 4 /\ Codes.i0["NE"] = 5
  /\ Codes.i0["Z"] = 6 /\ Codes.i0["NZ"] = 7
BY DEF Codes

\* and that of disa.
LEMMA CodesOfDisa ==
  /\ Codes.disa["CONV"] = 11 /\ Codes.disa["ADD"] = 1 /\ Codes.disa["SUB"] = 2
  /\ Codes.disa["MUL"] = 3 /\ Codes.disa["B"] = 7 /\ Codes.disa["SPAWN"] = 5
  /\ Codes.disa["EXIT"] = 6 /\ Codes.disa.Signed64 = 0
  /\ Codes.disa["J"] = 0 /\ Codes.disa["JI"] = 1 /\ Codes.disa["L"] = 3
  /\ Codes.disa["LE"] = 2 /\ Codes.disa["E"] = 4 /\ Codes.disa["NE"] = 5
  /\ Codes.disa["Z"] = 6 /\ Codes.disa["NZ"] = 7
BY DEF Codes

\* The bytes of a header one by one.
LEMMA BytesAre ==
  ASSUME NEW first, NEW rest, NEW n \in {1, 2, 3}, Len(rest) = n
  PROVE  /\ Len(BytesOf(first, rest)) = n + 1
         /\ BytesOf(first, rest)[1] = first
         /\ BytesOf(first, rest)[2] = rest[1] % 256
         /\ n > 1 => BytesOf(first, rest)[3] = rest[2] % 256
         /\ n > 2 => BytesOf(first, rest)[4] = rest[3] % 256
<1> DEFINE f == BytesOf(first, rest)
<1>1. f = [i \in 1 .. (n + 1) |-> f[i]] /\ f[1] = first
  BY DEF BytesOf
<1>2. /\ f[2] = rest[2 - 1] % 256
      /\ n > 1 => f[3] = rest[3 - 1] % 256
      /\ n > 2 => f[4] = rest[4 - 1] % 256
  BY DEF BytesOf
<1>3. 2 - 1 = 1 /\ 3 - 1 = 2 /\ 4 - 1 = 3
  OBVIOUS
<1> HIDE DEF f
<1>4. Len(f) = n + 1
  BY <1>1
<1>5. /\ f[2] = rest[1] % 256 /\ (n > 1 => f[3] = rest[2] % 256)
      /\ (n > 2 => f[4] = rest[3] % 256)
  BY <1>2, <1>3
<1>6. QED
  BY <1>1, <1>4, <1>5 DEF f

-----------------------------------------------------------------------------
(* i0                                                                      *)

\* What the header of a conv is made of,
LEMMA ConvI0 ==
  ASSUME NEW ins \in Emitted, ins.op = "CONV", target = "i0"
  PROVE  LET h == Header(ins)
             c1 == AttrI0(ins, 1)
             c2 == AttrI0(ins, 2)
             m1 == ModeOf(ins, 1)
             m2 == ModeOf(ins, 2)
         IN Len(h) = 4 /\ h[1] = 4 /\ h[2] = 32 + 2 * c1
              /\ h[3] = 32 * c2 + 4 * m1 + m2 \div 2 /\ h[4] = (128 * m2) % 256
<1> DEFINE c1 == AttrI0(ins, 1)
           c2 == AttrI0(ins, 2)
           m1 == ModeOf(ins, 1)
           m2 == ModeOf(ins, 2)
<1>0. ins.jump = "none" /\ Len(ins.args) = 2
  BY EmittedFacts DEF Shaped
<1>1. c1 \in {0, 1} /\ c2 \in {0, 1} /\ m1 \in Four /\ m2 \in Four
  BY <1>0, ModeCodes
<1>3. BehindI0(ins) = <<Or3((33 % 8) * 32, c1 * 2, c2 \div 8),
                        Or3(c2 * 32, m1 * 4, m2 \div 2), m2 * 128>>
  BY <1>0, CodesOf DEF BehindI0, TwoModes, AttrI0, ModeOf, IsArithmetic, IsCompare, IsTest
<1>4. Header(ins) = BytesOf(4, BehindI0(ins))
  <2>1. Codes.i0[ins.op] \div 8 = 4
    BY CodesOf
  <2>2. QED
    BY <2>1 DEF Header
<1> HIDE DEF c1, c2, m1, m2
<1>5. /\ Or3((33 % 8) * 32, c1 * 2, c2 \div 8) = 32 + 2 * c1
      /\ (32 + 2 * c1) % 256 = 32 + 2 * c1
  BY <1>1, FirstOf
<1>6. m2 * 128 = 128 * m2
  BY <1>1 DEF Four
<1>7. /\ Or3(c2 * 32, m1 * 4, m2 \div 2) = 32 * c2 + 4 * m1 + m2 \div 2
      /\ (32 * c2 + 4 * m1 + m2 \div 2) % 256 = 32 * c2 + 4 * m1 + m2 \div 2
  BY <1>1, TwoModesOf
<1> DEFINE rest == BehindI0(ins)
<1>8. /\ Len(rest) = 3 /\ rest[1] = 32 + 2 * c1
      /\ rest[2] = 32 * c2 + 4 * m1 + m2 \div 2 /\ rest[3] = 128 * m2
  BY <1>3, <1>5, <1>6, <1>7
<1> HIDE DEF rest
<1> DEFINE h == BytesOf(4, rest)
<1>9. Len(h) = 4 /\ h[1] = 4 /\ h[2] = rest[1] % 256 /\ h[3] = rest[2] % 256
        /\ h[4] = rest[3] % 256
  BY <1>8, BytesAre
<1>10. Header(ins) = h
  BY <1>4 DEF rest
<1> HIDE DEF h
<1>11. QED
  BY <1>5, <1>7, <1>8, <1>9, <1>10 DEF c1, c2, m1, m2

\* that of add, sub and mul,
LEMMA ArithmeticI0 ==
  ASSUME NEW ins \in Emitted, IsArithmetic(ins), target = "i0"
  PROVE  LET h == Header(ins)
             op == Codes.i0[ins.op]
         IN /\ op \in {3, 6, 9} /\ Len(h) = 3
            /\ h[1] = op \div 8 /\ h[2] = (op % 8) * 32 + 2
            /\ h[3] = 64 * ModeOf(ins, 1) + 8 * ModeOf(ins, 2) + ModeOf(ins, 3)
<1> DEFINE op == Codes.i0[ins.op]
           m1 == ModeOf(ins, 1)
           m2 == ModeOf(ins, 2)
           m3 == ModeOf(ins, 3)
           rest == BehindI0(ins)
<1>1. ins.op \in {"ADD", "SUB", "MUL"} /\ ins.jump = "none" /\ Len(ins.args) = 3
  BY EmittedFacts DEF Shaped, IsArithmetic
<1>2. m1 \in Four /\ m2 \in Four /\ m3 \in Four /\ op \in {3, 6, 9}
  <2>1. 1 \in 1 .. Len(ins.args) /\ 2 \in 1 .. Len(ins.args) /\ 3 \in 1 .. Len(ins.args)
    BY <1>1
  <2>2. m1 \in Four /\ m2 \in Four /\ m3 \in Four
    BY <2>1, ModeCodes
  <2>3. op \in {3, 6, 9}
    BY <1>1, CodesOf
  <2>4. QED
    BY <2>2, <2>3
<1>3. rest = <<Or3((op % 8) * 32, 1 * 2, m1 \div 4), Or3(m1 * 64, m2 * 8, m3)>>
  BY <1>1, CodesOf DEF BehindI0, ModeOf, IsArithmetic, IsCompare, IsTest
<1>4. Header(ins) = BytesOf(op \div 8, rest)
  BY DEF Header
<1> HIDE DEF op, m1, m2, m3, rest
<1>5. m1 \div 4 = 0
  BY <1>2 DEF Four
<1>6. /\ Or3((op % 8) * 32, 1 * 2, m1 \div 4) = (op % 8) * 32 + 2
      /\ ((op % 8) * 32 + 2) % 256 = (op % 8) * 32 + 2
  BY <1>2, <1>5, FirstOf
<1>7. /\ Or3(m1 * 64, m2 * 8, m3) = 64 * m1 + 8 * m2 + m3
      /\ (64 * m1 + 8 * m2 + m3) % 256 = 64 * m1 + 8 * m2 + m3
  BY <1>2, ThreeModesOf
<1>8. Len(rest) = 2 /\ rest[1] = (op % 8) * 32 + 2 /\ rest[2] = 64 * m1 + 8 * m2 + m3
  BY <1>3, <1>6, <1>7
<1> DEFINE h == BytesOf(op \div 8, rest)
<1>9. Len(h) = 3 /\ h[1] = op \div 8 /\ h[2] = rest[1] % 256 /\ h[3] = rest[2] % 256
  BY <1>8, BytesAre
<1> HIDE DEF h
<1>10. Header(ins) = h
  BY <1>4 DEF h
<1>11. QED
  BY <1>2, <1>6, <1>7, <1>8, <1>9, <1>10 DEF op, m1, m2, m3

\* (a branch has the operands it compares)
LEMMA BranchOperands ==
  ASSUME NEW ins \in Emitted, ins.op = "B"
  PROVE  /\ ins.jump \in {"J", "JI", "Z", "NZ", "L", "LE", "E", "NE"}
         /\ 1 \in 1 .. Len(ins.args) /\ (IsCompare(ins) => 2 \in 1 .. Len(ins.args))
<1>1. \/ ins.jump \in {"J", "JI"} /\ Len(ins.args) = 1
      \/ ins.jump \in {"Z", "NZ"} /\ Len(ins.args) = 2
      \/ ins.jump \in {"L", "LE", "E", "NE"} /\ Len(ins.args) = 3
  <2>1. Shaped(ins)
    BY EmittedFacts
  <2>2. QED
    BY <2>1, Zenon DEF Shaped
<1>2. ins.jump \in {"J", "JI", "Z", "NZ", "L", "LE", "E", "NE"}
  BY <1>1
<1> DEFINE n == Len(ins.args)
<1>7. n = 1 \/ n = 2 \/ n = 3
  BY <1>1
<1>8. IsCompare(ins) => n = 3
  BY <1>1 DEF IsCompare
<1> HIDE DEF n
<1>9. 1 \in 1 .. n /\ (IsCompare(ins) => 2 \in 1 .. n)
  BY <1>7, <1>8
<1>6. QED
  BY <1>2, <1>9 DEF n

\* that of a branch by what it compares,
LEMMA BranchI0 ==
  ASSUME NEW ins \in Emitted, ins.op = "B", target = "i0"
  PROVE  LET h == Header(ins)
             j == Codes.i0[ins.jump]
             m1 == ModeOf(ins, 1)
             m2 == ModeOf(ins, 2)
         IN /\ h[1] = 2 /\ h[2] = 160 + 2 * j
            /\ ins.jump = "J" => Len(h) = 2
            /\ ins.jump = "JI" => Len(h) = 3 /\ h[3] = 64 * m1
            /\ IsTest(ins) => Len(h) = 3 /\ h[3] = 32 + 4 * m1
            /\ IsCompare(ins) => /\ Len(h) = 4 /\ h[3] = 32 + 4 * m1 + m2 \div 2
                                 /\ h[4] = (128 * m2) % 256
<1> DEFINE j == Codes.i0[ins.jump]
           m1 == ModeOf(ins, 1)
           m2 == ModeOf(ins, 2)
           rest == BehindI0(ins)
           jump == Or((21 % 8) * 32, j * 2)
<1>1. /\ ins.jump \in {"J", "JI", "Z", "NZ", "L", "LE", "E", "NE"}
      /\ 1 \in 1 .. Len(ins.args) /\ (IsCompare(ins) => 2 \in 1 .. Len(ins.args))
  BY BranchOperands
<1>2. j \in {0, 2, 3, 4, 5, 6, 7, 12}
  BY <1>1, CodesOf
<1>3. m1 \in Four /\ (IsCompare(ins) => m2 \in Four)
  BY <1>1, ModeCodes, EmittedFacts
<1>4. Header(ins) = BytesOf(2, rest)
  <2>1. Codes.i0[ins.op] \div 8 = 2
    BY CodesOf
  <2>2. QED
    BY <2>1 DEF Header
<1>5. ins.jump = "J" => rest = <<jump>>
  BY CodesOf DEF BehindI0, IsArithmetic, IsCompare, IsTest
<1>6. ins.jump = "JI" => rest = <<Or(jump, m1 \div 4), m1 * 64>>
  BY CodesOf DEF BehindI0, ModeOf, IsArithmetic, IsCompare, IsTest
<1>7. IsTest(ins) => rest = <<Or(jump, 1 \div 8), Or(1 * 32, m1 * 4)>>
  BY CodesOf DEF BehindI0, ModeOf, IsArithmetic, IsCompare, IsTest
<1>8. IsCompare(ins) =>
        rest = <<Or(jump, 1 \div 8), Or3(1 * 32, m1 * 4, m2 \div 2), m2 * 128>>
  BY CodesOf DEF BehindI0, ModeOf, IsArithmetic, IsCompare, IsTest, TwoModes
<1> HIDE DEF j, m1, m2, rest
<1>9. /\ jump = 160 + 2 * j /\ Or(jump, m1 \div 4) = 160 + 2 * j
      /\ Or(jump, 1 \div 8) = 160 + 2 * j /\ (160 + 2 * j) % 256 = 160 + 2 * j
  <2>1. jump = 160 + 2 * j /\ Or(160 + 2 * j, 0) = 160 + 2 * j
    BY <1>2, FirstOf
  <2>2. m1 \div 4 = 0 /\ 1 \div 8 = 0
    BY <1>3 DEF Four
  <2>3. (160 + 2 * j) % 256 = 160 + 2 * j
    BY <1>2
  <2>4. QED
    BY <2>1, <2>2, <2>3
<1>10. /\ m1 * 64 = 64 * m1 /\ (64 * m1) % 256 = 64 * m1
       /\ Or(1 * 32, m1 * 4) = 32 + 4 * m1 /\ (32 + 4 * m1) % 256 = 32 + 4 * m1
  BY <1>3, FirstOf DEF Four
<1>11. IsCompare(ins) =>
        /\ Or3(1 * 32, m1 * 4, m2 \div 2) = 32 + 4 * m1 + m2 \div 2
        /\ (32 + 4 * m1 + m2 \div 2) % 256 = 32 + 4 * m1 + m2 \div 2
        /\ m2 * 128 = 128 * m2
  <2>1. \A a, b \in Four :
          /\ Or3(1 * 32, a * 4, b \div 2) = 32 * 1 + 4 * a + b \div 2
          /\ (32 * 1 + 4 * a + b \div 2) % 256 = 32 * 1 + 4 * a + b \div 2
    BY TwoModesOf
  <2>2. QED
    BY <1>3, <2>1 DEF Four
<1> HIDE DEF jump
<1>12. /\ ins.jump = "J" => Len(rest) = 1 /\ rest[1] = 160 + 2 * j
       /\ ins.jump = "JI" => Len(rest) = 2 /\ rest[1] = 160 + 2 * j /\ rest[2] = 64 * m1
       /\ IsTest(ins) => Len(rest) = 2 /\ rest[1] = 160 + 2 * j /\ rest[2] = 32 + 4 * m1
       /\ IsCompare(ins) => /\ Len(rest) = 3 /\ rest[1] = 160 + 2 * j
                            /\ rest[2] = 32 + 4 * m1 + m2 \div 2 /\ rest[3] = 128 * m2
  BY <1>5, <1>6, <1>7, <1>8, <1>9, <1>10, <1>11
<1> DEFINE h == BytesOf(2, rest)
<1>13. /\ Len(rest) = 1 => Len(h) = 2 /\ h[1] = 2 /\ h[2] = rest[1] % 256
       /\ Len(rest) = 2 => Len(h) = 3 /\ h[1] = 2 /\ h[2] = rest[1] % 256 /\ h[3] = rest[2] % 256
       /\ Len(rest) = 3 => Len(h) = 4 /\ h[1] = 2 /\ h[2] = rest[1] % 256 /\ h[3] = rest[2] % 256
                             /\ h[4] = rest[3] % 256
  BY BytesAre
<1> HIDE DEF h
<1>14. Header(ins) = h
  BY <1>4 DEF h
<1>15. ins.jump = "J" \/ ins.jump = "JI" \/ IsTest(ins) \/ IsCompare(ins)
  BY <1>1 DEF IsTest, IsCompare
<1>16. h[1] = 2 /\ h[2] = 160 + 2 * j
  BY <1>9, <1>12, <1>13, <1>15
<1>17. ins.jump = "J" => Len(h) = 2
  BY <1>12, <1>13
<1>18. ins.jump = "JI" => Len(h) = 3 /\ h[3] = 64 * m1
  BY <1>10, <1>12, <1>13
<1>19. IsTest(ins) => Len(h) = 3 /\ h[3] = 32 + 4 * m1
  BY <1>10, <1>12, <1>13
<1>20. IsCompare(ins) => Len(h) = 4 /\ h[3] = 32 + 4 * m1 + m2 \div 2
                                    /\ h[4] = (128 * m2) % 256
  BY <1>11, <1>12, <1>13
<1>21. QED
  BY <1>14, <1>16, <1>17, <1>18, <1>19, <1>20 DEF j, m1, m2

\* and that of newr and exit.
LEMMA OthersI0 ==
  ASSUME NEW ins \in Emitted, target = "i0"
  PROVE  LET h == Header(ins)
         IN /\ ins.op = "SPAWN" => Len(h) = 3 /\ h[1] = 4 /\ h[2] = 164
            /\ ins.op = "EXIT" => Len(h) = 2 /\ h[1] = 16
<1> DEFINE rest == BehindI0(ins)
<1>1. CASE ins.op = "SPAWN"
  <2>1. /\ ins.jump = "none"
        /\ \A i \in 1 .. 4 : ins.args[i].mode = "Direct"
    BY <1>1, EmittedFacts DEF Shaped
  <2>2. \A i \in 1 .. 4 : ModeCode[ins.args[i].mode] = 1
    BY <2>1 DEF ModeCode
  <2>3. rest = <<Or3((37 % 8) * 32, 1 * 4, 1 \div 2), Or3(1 * 128, 1 * 16, 1 * 2)>>
    BY <1>1, <2>1, <2>2, CodesOf DEF BehindI0, IsArithmetic, IsCompare, IsTest
  <2>4. 1 \div 2 = 0 /\ 37 \div 8 = 4 /\ 164 % 256 = 164
    OBVIOUS
  <2>5. Len(rest) = 2 /\ rest[1] = 164
    BY <2>3, <2>4, FirstOf
  <2>6. Header(ins) = BytesOf(4, rest)
    BY <1>1, <2>4, CodesOf DEF Header
  <2> HIDE DEF rest
  <2>7. Len(BytesOf(4, rest)) = 3 /\ BytesOf(4, rest)[1] = 4
          /\ BytesOf(4, rest)[2] = rest[1] % 256
    BY <2>5, BytesAre
  <2>8. QED
    BY <1>1, <2>4, <2>5, <2>6, <2>7
<1>2. CASE ins.op = "EXIT"
  <2>1. ins.jump = "none"
    BY <1>2, EmittedFacts DEF Shaped
  <2>2. rest = <<(134 % 8) * 32>>
    BY <1>2, <2>1, CodesOf DEF BehindI0, IsArithmetic, IsCompare, IsTest
  <2>3. Len(rest) = 1
    BY <2>2
  <2>4. 134 \div 8 = 16
    OBVIOUS
  <2>5. Header(ins) = BytesOf(16, rest)
    BY <1>2, <2>4, CodesOf DEF Header
  <2> HIDE DEF rest
  <2>6. Len(BytesOf(16, rest)) = 2 /\ BytesOf(16, rest)[1] = 16
    BY <2>3, BytesAre
  <2>7. QED
    BY <1>2, <2>5, <2>6
<1>3. QED
  BY <1>1, <1>2

-----------------------------------------------------------------------------
(* disa                                                                    *)

\* The same for disa: its fields do not overlap,
LEMMA FirstOfDisa ==
  /\ \A c, d \in {0, 2} : Or(c * 16, d) = 16 * c + d /\ (16 * c + d) % 256 = 16 * c + d
  /\ \A a \in Four, b \in {0, 1} : /\ Or3(0 * 32, a * 4, b) = 4 * a + b
                                    /\ (4 * a + b) % 256 = 4 * a + b
  /\ \A a, b \in Four : /\ Or(a * 32, b * 4) = 32 * a + 4 * b
                         /\ (32 * a + 4 * b) % 256 = 32 * a + 4 * b
  /\ \A a \in Four, b \in {0, 1} : /\ Or(b * 128, a * 16) = 128 * b + 16 * a
                                    /\ (128 * b + 16 * a) % 256 = 128 * b + 16 * a
  /\ \A a, b \in Four : /\ Or(a * 64, b * 8) = 64 * a + 8 * b
                         /\ (64 * a + 8 * b) % 256 = 64 * a + 8 * b
  /\ \A a \in Four : /\ Or(1 * 16, a * 2) = 16 + 2 * a
                      /\ (16 + 2 * a) % 256 = 16 + 2 * a
  /\ \A j \in {2, 3, 4, 5, 6, 7} : /\ Or3(j * 16, 0 * 2, 0) = 16 * j
                                    /\ (16 * j) % 256 = 16 * j
<1>1. \A c, d \in {0, 2} : Or(c * 16, d) = 16 * c + d
  BY DEF Or, Bit
<1>2. \A a \in 0 .. 3, b \in {0, 1} : Or3(0 * 32, a * 4, b) = 4 * a + b
  BY DEF Or3, Or, Bit
<1>3. \A a, b \in 0 .. 3 : Or(a * 32, b * 4) = 32 * a + 4 * b
  BY DEF Or, Bit
<1>4. \A a \in 0 .. 3, b \in {0, 1} : Or(b * 128, a * 16) = 128 * b + 16 * a
  BY DEF Or, Bit
<1>5. \A a, b \in 0 .. 3 : Or(a * 64, b * 8) = 64 * a + 8 * b
  BY DEF Or, Bit
<1>6. \A a \in 0 .. 3 : Or(1 * 16, a * 2) = 16 + 2 * a
  BY DEF Or, Bit
<1>7. \A j \in {2, 3, 4, 5, 6, 7} : Or3(j * 16, 0 * 2, 0) = 16 * j
  BY DEF Or3, Or, Bit
<1>8. /\ \A c, d \in {0, 2} : (16 * c + d) % 256 = 16 * c + d
      /\ \A a \in 0 .. 3, b \in {0, 1} : (4 * a + b) % 256 = 4 * a + b
      /\ \A a, b \in 0 .. 3 : (32 * a + 4 * b) % 256 = 32 * a + 4 * b
      /\ \A a \in 0 .. 3, b \in {0, 1} : (128 * b + 16 * a) % 256 = 128 * b + 16 * a
      /\ \A a, b \in 0 .. 3 : (64 * a + 8 * b) % 256 = 64 * a + 8 * b
      /\ \A a \in 0 .. 3 : (16 + 2 * a) % 256 = 16 + 2 * a
      /\ \A j \in {2, 3, 4, 5, 6, 7} : (16 * j) % 256 = 16 * j
  OBVIOUS
<1>9. Four = 0 .. 3
  BY DEF Four
<1>10. QED
  BY <1>1, <1>2, <1>3, <1>4, <1>5, <1>6, <1>7, <1>8, <1>9

\* the header of a mov,
LEMMA ConvDisa ==
  ASSUME NEW ins \in Emitted, ins.op = "CONV", target = "disa"
  PROVE  LET h == Header(ins)
         IN Len(h) = 3 /\ h[1] = 11 /\ h[2] = 16 * AttrDisa(ins, 1) + AttrDisa(ins, 2)
              /\ h[3] = 32 * ModeOf(ins, 1) + 4 * ModeOf(ins, 2)
<1> DEFINE c1 == AttrDisa(ins, 1)
           c2 == AttrDisa(ins, 2)
           m1 == ModeOf(ins, 1)
           m2 == ModeOf(ins, 2)
           rest == BehindDisa(ins)
<1>1. ins.jump = "none" /\ Len(ins.args) = 2
  BY EmittedFacts DEF Shaped
<1>2. c1 \in {0, 2} /\ c2 \in {0, 2} /\ m1 \in Four /\ m2 \in Four
  <2>1. 1 \in 1 .. Len(ins.args) /\ 2 \in 1 .. Len(ins.args)
    BY <1>1
  <2>2. QED
    BY <2>1, ModeCodes
<1>3. rest = <<Or(c1 * 16, c2), Or(m1 * 32, m2 * 4)>>
  BY <1>1 DEF BehindDisa, AttrDisa, ModeOf, IsArithmetic, IsCompare, IsTest
<1>4. Header(ins) = BytesOf(11, rest)
  BY CodesOfDisa DEF Header
<1> HIDE DEF c1, c2, m1, m2, rest
<1>5. Or(c1 * 16, c2) = 16 * c1 + c2 /\ (16 * c1 + c2) % 256 = 16 * c1 + c2
  BY <1>2, FirstOfDisa
<1>6. Or(m1 * 32, m2 * 4) = 32 * m1 + 4 * m2 /\ (32 * m1 + 4 * m2) % 256 = 32 * m1 + 4 * m2
  BY <1>2, FirstOfDisa
<1>7. Len(rest) = 2 /\ rest[1] = 16 * c1 + c2 /\ rest[2] = 32 * m1 + 4 * m2
  BY <1>3, <1>5, <1>6
<1> DEFINE h == BytesOf(11, rest)
<1>8. Len(h) = 3 /\ h[1] = 11 /\ h[2] = rest[1] % 256 /\ h[3] = rest[2] % 256
  BY <1>7, BytesAre
<1> HIDE DEF h
<1>9. Header(ins) = h
  BY <1>4 DEF h
<1>10. QED
  BY <1>5, <1>6, <1>7, <1>8, <1>9 DEF c1, c2, m1, m2

\* that of add, sub and mul,
LEMMA ArithmeticDisa ==
  ASSUME NEW ins \in Emitted, IsArithmetic(ins), target = "disa"
  PROVE  LET h == Header(ins)
         IN /\ Len(h) = 3 /\ h[1] = Codes.disa[ins.op] /\ h[1] \in {1, 2, 3}
            /\ h[2] = 4 * ModeOf(ins, 1) + ModeOf(ins, 2) \div 2
            /\ h[3] = 128 * (ModeOf(ins, 2) % 2) + 16 * ModeOf(ins, 3)
<1> DEFINE op == Codes.disa[ins.op]
           m1 == ModeOf(ins, 1)
           m2 == ModeOf(ins, 2)
           m3 == ModeOf(ins, 3)
           rest == BehindDisa(ins)
<1>1. ins.op \in {"ADD", "SUB", "MUL"} /\ ins.jump = "none" /\ Len(ins.args) = 3
  BY EmittedFacts DEF Shaped, IsArithmetic
<1>2. m1 \in Four /\ m2 \in Four /\ m3 \in Four /\ op \in {1, 2, 3}
  <2>1. 1 \in 1 .. Len(ins.args) /\ 2 \in 1 .. Len(ins.args) /\ 3 \in 1 .. Len(ins.args)
    BY <1>1
  <2>2. m1 \in Four /\ m2 \in Four /\ m3 \in Four
    BY <2>1, ModeCodes
  <2>3. op \in {1, 2, 3}
    BY <1>1, CodesOfDisa
  <2>4. QED
    BY <2>2, <2>3
<1>3. rest = <<Or3(0 * 32, m1 * 4, (m2 \div 2) % 4), Or((m2 % 2) * 128, m3 * 16)>>
  BY <1>1, CodesOfDisa DEF BehindDisa, ModeOf, IsArithmetic, IsCompare, IsTest
<1>4. Header(ins) = BytesOf(op, rest)
  BY DEF Header
<1> HIDE DEF op, m1, m2, m3, rest
<1>5. (m2 \div 2) % 4 = m2 \div 2 /\ m2 \div 2 \in {0, 1} /\ m2 % 2 \in {0, 1}
  BY <1>2 DEF Four
<1>6. /\ Or3(0 * 32, m1 * 4, (m2 \div 2) % 4) = 4 * m1 + m2 \div 2
      /\ (4 * m1 + m2 \div 2) % 256 = 4 * m1 + m2 \div 2
  <2>1. \A a \in Four : \A b \in Two : /\ Or3(0 * 32, a * 4, b) = 4 * a + b
                                     /\ (4 * a + b) % 256 = 4 * a + b
    BY FirstOfDisa, Zenon DEF Two
  <2>2. PICK q \in Two : q = m2 \div 2
    BY <1>5 DEF Two
  <2>3. /\ Or3(0 * 32, m1 * 4, q) = 4 * m1 + q
        /\ (4 * m1 + q) % 256 = 4 * m1 + q
    BY <1>2, <2>1, <2>2
  <2>4. QED
    BY <1>5, <2>2, <2>3
<1>7. /\ Or((m2 % 2) * 128, m3 * 16) = 128 * (m2 % 2) + 16 * m3
      /\ (128 * (m2 % 2) + 16 * m3) % 256 = 128 * (m2 % 2) + 16 * m3
  <2>1. \A a \in Four : \A b \in Two : /\ Or(b * 128, a * 16) = 128 * b + 16 * a
                                     /\ (128 * b + 16 * a) % 256 = 128 * b + 16 * a
    BY FirstOfDisa, Zenon DEF Two
  <2>2. PICK q \in Two : q = m2 % 2
    BY <1>5 DEF Two
  <2>3. /\ Or(q * 128, m3 * 16) = 128 * q + 16 * m3
        /\ (128 * q + 16 * m3) % 256 = 128 * q + 16 * m3
    BY <1>2, <2>1, <2>2
  <2>4. QED
    BY <2>2, <2>3
<1>8. Len(rest) = 2 /\ rest[1] = 4 * m1 + m2 \div 2 /\ rest[2] = 128 * (m2 % 2) + 16 * m3
  BY <1>3, <1>6, <1>7
<1> DEFINE h == BytesOf(op, rest)
<1>9. Len(h) = 3 /\ h[1] = op /\ h[2] = rest[1] % 256 /\ h[3] = rest[2] % 256
  BY <1>8, BytesAre
<1> HIDE DEF h
<1>10. Header(ins) = h
  BY <1>4 DEF h
<1>11. QED
  BY <1>2, <1>6, <1>7, <1>8, <1>9, <1>10 DEF op, m1, m2, m3

\* that of a br,
LEMMA BranchDisa ==
  ASSUME NEW ins \in Emitted, ins.op = "B", target = "disa"
  PROVE  LET h == Header(ins)
             j == Codes.disa[ins.jump]
             m1 == ModeOf(ins, 1)
             m2 == ModeOf(ins, 2)
         IN /\ h[1] = 7
            /\ ins.jump = "J" => Len(h) = 2 /\ h[2] = 0
            /\ ins.jump = "JI" => Len(h) = 2 /\ h[2] = 16 + 2 * m1
            /\ IsTest(ins) => Len(h) = 3 /\ h[2] = 16 * j /\ h[3] = 64 * m1
            /\ IsCompare(ins) => Len(h) = 3 /\ h[2] = 16 * j /\ h[3] = 64 * m1 + 8 * m2
<1> DEFINE j == Codes.disa[ins.jump]
           m1 == ModeOf(ins, 1)
           m2 == ModeOf(ins, 2)
           rest == BehindDisa(ins)
<1>1. /\ ins.jump \in {"J", "JI", "Z", "NZ", "L", "LE", "E", "NE"}
      /\ 1 \in 1 .. Len(ins.args) /\ (IsCompare(ins) => 2 \in 1 .. Len(ins.args))
  BY BranchOperands
<1>2. IsTest(ins) \/ IsCompare(ins) => j \in {2, 3, 4, 5, 6, 7}
  BY CodesOfDisa DEF IsTest, IsCompare
<1>3. m1 \in Four /\ (IsCompare(ins) => m2 \in Four)
  BY <1>1, ModeCodes
<1>4. Header(ins) = BytesOf(7, rest)
  BY CodesOfDisa DEF Header
<1>5. ins.jump = "J" => rest = <<0 * 16>>
  BY CodesOfDisa DEF BehindDisa, IsArithmetic, IsCompare, IsTest
<1>6. ins.jump = "JI" => rest = <<Or(1 * 16, m1 * 2)>>
  BY CodesOfDisa DEF BehindDisa, ModeOf, IsArithmetic, IsCompare, IsTest
<1>7. IsTest(ins) => rest = <<Or3(j * 16, 0 * 2, (m1 \div 4) % 2), (m1 % 4) * 64>>
  BY CodesOfDisa DEF BehindDisa, ModeOf, IsArithmetic, IsCompare, IsTest
<1>8. IsCompare(ins) =>
        rest = <<Or3(j * 16, 0 * 2, (m1 \div 4) % 2), Or((m1 % 4) * 64, m2 * 8)>>
  BY CodesOfDisa DEF BehindDisa, ModeOf, IsArithmetic, IsCompare, IsTest
<1> HIDE DEF j, m1, m2, rest
<1>9. (m1 \div 4) % 2 = 0 /\ m1 % 4 = m1 /\ m1 * 64 = 64 * m1 /\ (64 * m1) % 256 = 64 * m1
  BY <1>3 DEF Four
<1>10. IsTest(ins) \/ IsCompare(ins) =>
         Or3(j * 16, 0 * 2, (m1 \div 4) % 2) = 16 * j /\ (16 * j) % 256 = 16 * j
  BY <1>2, <1>9, FirstOfDisa
<1>11. Or(1 * 16, m1 * 2) = 16 + 2 * m1 /\ (16 + 2 * m1) % 256 = 16 + 2 * m1
  BY <1>3, FirstOfDisa
<1>12. IsCompare(ins) => /\ Or((m1 % 4) * 64, m2 * 8) = 64 * m1 + 8 * m2
                         /\ (64 * m1 + 8 * m2) % 256 = 64 * m1 + 8 * m2
  BY <1>3, <1>9, FirstOfDisa
<1>13. /\ ins.jump = "J" => Len(rest) = 1 /\ rest[1] = 0
       /\ ins.jump = "JI" => Len(rest) = 1 /\ rest[1] = 16 + 2 * m1
       /\ IsTest(ins) => Len(rest) = 2 /\ rest[1] = 16 * j /\ rest[2] = 64 * m1
       /\ IsCompare(ins) => Len(rest) = 2 /\ rest[1] = 16 * j /\ rest[2] = 64 * m1 + 8 * m2
  <2>1. ins.jump = "J" => Len(rest) = 1 /\ rest[1] = 0
    BY <1>5
  <2>2. ins.jump = "JI" => Len(rest) = 1 /\ rest[1] = 16 + 2 * m1
    BY <1>6, <1>11
  <2>3. IsTest(ins) => Len(rest) = 2 /\ rest[1] = 16 * j /\ rest[2] = 64 * m1
    BY <1>7, <1>9, <1>10
  <2>4. IsCompare(ins) => Len(rest) = 2 /\ rest[1] = 16 * j /\ rest[2] = 64 * m1 + 8 * m2
    BY <1>8, <1>10, <1>12
  <2>5. QED
    BY <2>1, <2>2, <2>3, <2>4
<1> DEFINE h == BytesOf(7, rest)
<1>14. /\ Len(rest) = 1 => Len(h) = 2 /\ h[1] = 7 /\ h[2] = rest[1] % 256
       /\ Len(rest) = 2 => Len(h) = 3 /\ h[1] = 7 /\ h[2] = rest[1] % 256 /\ h[3] = rest[2] % 256
  BY BytesAre
<1> HIDE DEF h
<1>15. Header(ins) = h
  BY <1>4 DEF h
<1>16. ins.jump = "J" \/ ins.jump = "JI" \/ IsTest(ins) \/ IsCompare(ins)
  BY <1>1 DEF IsTest, IsCompare
<1>17. h[1] = 7
  BY <1>13, <1>14, <1>16
<1>18. /\ ins.jump = "J" => Len(h) = 2 /\ h[2] = 0
       /\ ins.jump = "JI" => Len(h) = 2 /\ h[2] = 16 + 2 * m1
  BY <1>11, <1>13, <1>14
<1>19. IsTest(ins) => Len(h) = 3 /\ h[2] = 16 * j /\ h[3] = 64 * m1
  BY <1>9, <1>10, <1>13, <1>14
<1>20. IsCompare(ins) => Len(h) = 3 /\ h[2] = 16 * j /\ h[3] = 64 * m1 + 8 * m2
  BY <1>10, <1>12, <1>13, <1>14
<1>21. QED
  BY <1>15, <1>17, <1>18, <1>19, <1>20 DEF j, m1, m2

\* and that of newr and exit.
LEMMA OthersDisa ==
  ASSUME NEW ins \in Emitted, target = "disa"
  PROVE  LET h == Header(ins)
         IN /\ ins.op = "SPAWN" => Len(h) = 3 /\ h[1] = 5
            /\ ins.op = "EXIT" => Len(h) = 2 /\ h[1] = 6
<1> DEFINE rest == BehindDisa(ins)
<1>1. CASE ins.op = "SPAWN"
  <2>1. ins.jump = "none"
    BY <1>1, EmittedFacts DEF Shaped
  <2>2. Len(rest) = 2
    BY <1>1, <2>1 DEF BehindDisa, IsArithmetic, IsCompare, IsTest
  <2>3. Header(ins) = BytesOf(5, rest)
    BY <1>1, CodesOfDisa DEF Header
  <2> HIDE DEF rest
  <2>4. Len(BytesOf(5, rest)) = 3 /\ BytesOf(5, rest)[1] = 5
    BY <2>2, BytesAre
  <2>5. QED
    BY <1>1, <2>3, <2>4
<1>2. CASE ins.op = "EXIT"
  <2>1. ins.jump = "none"
    BY <1>2, EmittedFacts DEF Shaped
  <2>2. Len(rest) = 1
    BY <1>2, <2>1 DEF BehindDisa, IsArithmetic, IsCompare, IsTest
  <2>3. Header(ins) = BytesOf(6, rest)
    BY <1>2, CodesOfDisa DEF Header
  <2> HIDE DEF rest
  <2>4. Len(BytesOf(6, rest)) = 2 /\ BytesOf(6, rest)[1] = 6
    BY <2>2, BytesAre
  <2>5. QED
    BY <1>2, <2>3, <2>4
<1>3. QED
  BY <1>1, <1>2

-----------------------------------------------------------------------------
(* What both say of an instruction                                         *)

\* The header that Encode writes is as long as GetLength says, for either target
\* and every instruction that is emitted.
LEMMA HeaderLength ==
  ASSUME NEW ins \in Emitted, target \in {"i0", "disa"}
  PROVE  Len(Header(ins)) = LengthOfHeader(ins)
<1>1. ins.op \in Ops /\ (ins.op # "B" => ins.jump = "none")
  BY EmittedFacts DEF Shaped
<1>2. CASE IsArithmetic(ins)
  <2>1. Len(Header(ins)) = 3
    BY <1>2, ArithmeticI0, ArithmeticDisa
  <2>2. QED
    BY <1>1, <1>2, <2>1 DEF LengthOfHeader, LengthOfHeaderI0, LengthOfHeaderDisa, IsArithmetic,
         IsTest, IsCompare
<1>3. CASE ins.op = "CONV"
  <2>1. target = "i0" => Len(Header(ins)) = 4
    BY <1>3, ConvI0
  <2>2. target = "disa" => Len(Header(ins)) = 3
    BY <1>3, ConvDisa
  <2>3. QED
    BY <1>1, <1>3, <2>1, <2>2 DEF LengthOfHeader, LengthOfHeaderI0, LengthOfHeaderDisa,
         IsArithmetic, IsTest, IsCompare
<1>4. CASE ins.op = "SPAWN" \/ ins.op = "EXIT"
  <2>1. Len(Header(ins)) = IF ins.op = "SPAWN" THEN 3 ELSE 2
    BY <1>4, OthersI0, OthersDisa
  <2>2. QED
    BY <1>1, <1>4, <2>1 DEF LengthOfHeader, LengthOfHeaderI0, LengthOfHeaderDisa, IsArithmetic,
         IsTest, IsCompare
<1>5. CASE ins.op = "B"
  <2>1. ins.jump \in {"J", "JI", "Z", "NZ", "L", "LE", "E", "NE"}
    BY <1>5, BranchOperands
  <2>2. CASE ins.jump = "J" \/ ins.jump = "JI"
    <3>1. Len(Header(ins)) = IF target = "i0" /\ ins.jump = "JI" THEN 3 ELSE 2
      BY <1>5, <2>2, BranchI0, BranchDisa
    <3>2. QED
      BY <1>5, <2>2, <3>1 DEF LengthOfHeader, LengthOfHeaderI0, LengthOfHeaderDisa,
           IsArithmetic, IsTest, IsCompare
  <2>3. CASE IsTest(ins)
    <3>1. Len(Header(ins)) = 3
      BY <1>5, <2>3, BranchI0, BranchDisa
    <3>2. QED
      BY <1>5, <2>3, <3>1 DEF LengthOfHeader, LengthOfHeaderI0, LengthOfHeaderDisa,
           IsArithmetic, IsTest, IsCompare
  <2>4. CASE IsCompare(ins)
    <3>1. Len(Header(ins)) = IF target = "i0" THEN 4 ELSE 3
      BY <1>5, <2>4, BranchI0, BranchDisa
    <3>2. QED
      BY <1>5, <2>4, <3>1 DEF LengthOfHeader, LengthOfHeaderI0, LengthOfHeaderDisa,
           IsArithmetic, IsTest, IsCompare
  <2>5. QED
    BY <2>1, <2>2, <2>3, <2>4 DEF IsTest, IsCompare
<1>6. QED
  BY <1>1, <1>2, <1>3, <1>4, <1>5 DEF Ops, IsArithmetic

ShortImmediate(ins) == /\ ins.op # "CONV"
                       /\ \E i \in 1 .. Len(ins.args) :
                            ins.args[i].mode = "Immediate" /\ ins.args[i].conv = "Signed8"

\* Encode writes as many bytes as GetLength says, but for an immediate of one byte
\* outside of a conv, of which GetLength says eight.
LEMMA BytesAreLength ==
  ASSUME NEW ins \in Emitted, target \in {"i0", "disa"}, ~ShortImmediate(ins)
  PROVE  BytesEncoded(ins) = GetLength(ins)
<1>1. ASSUME NEW i \in 1 .. Len(ins.args)
      PROVE  OperandBytes(ins.args[i]) = OperandLength(ins, ins.args[i])
  <2>1. ins.args[i].mode \in Modes /\ ins.args[i].conv \in Convs
    BY EmittedFacts
  <2>2. ins.op = "CONV" \/ ins.args[i].mode # "Immediate" \/ ins.args[i].conv = "Signed64"
    BY <2>1 DEF ShortImmediate, Convs
  <2>3. QED
    BY <2>1, <2>2 DEF Modes, OperandBytes, OperandLength, ImmediateBytes, ImmediateLength,
         ConvBytes
<1>2. [i \in 1 .. Len(ins.args) |-> OperandBytes(ins.args[i])]
        = [i \in 1 .. Len(ins.args) |-> OperandLength(ins, ins.args[i])]
  BY <1>1
<1>3. QED
  BY <1>2, HeaderLength DEF BytesEncoded, GetLength

-----------------------------------------------------------------------------
(* Headers tell instructions apart                                         *)

\* No two modes and no two attributes have the same code.
LEMMA CodesInjective ==
  ASSUME NEW ins \in Emitted, NEW jns \in Emitted,
         NEW i \in 1 .. Len(ins.args), i \in 1 .. Len(jns.args)
  PROVE  /\ ModeOf(ins, i) = ModeOf(jns, i) => ins.args[i].mode = jns.args[i].mode
         /\ AttrI0(ins, i) = AttrI0(jns, i) => ins.args[i].conv = jns.args[i].conv
         /\ AttrDisa(ins, i) = AttrDisa(jns, i) => ins.args[i].conv = jns.args[i].conv
<1>1. /\ ins.args[i].mode \in Modes /\ ins.args[i].conv \in Convs
      /\ jns.args[i].mode \in Modes /\ jns.args[i].conv \in Convs
  BY EmittedFacts
<1>2. \A m, n \in Modes : ModeCode[m] = ModeCode[n] => m = n
  BY DEF Modes, ModeCode
<1>3. \A c, d \in Convs : /\ (Codes.i0[c] = Codes.i0[d] => c = d)
                           /\ (Codes.disa[c] = Codes.disa[d] => c = d)
  BY DEF Convs, Codes
<1>4. QED
  BY <1>1, <1>2, <1>3 DEF ModeOf, AttrI0, AttrDisa

\* The header of i0 tells the operation and what a branch compares,
LEMMA SameOpI0 ==
  ASSUME NEW ins \in Emitted, NEW jns \in Emitted, target = "i0",
         Header(ins) = Header(jns)
  PROVE  ins.op = jns.op /\ ins.jump = jns.jump
<1> DEFINE Told(i, h) ==
      \/ i.op = "CONV" /\ i.jump = "none" /\ h[1] = 4 /\ h[2] \in {32, 34}
      \/ i.op = "SPAWN" /\ i.jump = "none" /\ h[1] = 4 /\ h[2] = 164
      \/ i.op = "ADD" /\ i.jump = "none" /\ h[1] = 0 /\ h[2] = 98
      \/ i.op = "SUB" /\ i.jump = "none" /\ h[1] = 0 /\ h[2] = 194
      \/ i.op = "MUL" /\ i.jump = "none" /\ h[1] = 1
      \/ i.op = "EXIT" /\ i.jump = "none" /\ h[1] = 16
      \/ i.op = "B" /\ i.jump = "J" /\ h[1] = 2 /\ h[2] = 160
      \/ i.op = "B" /\ i.jump = "JI" /\ h[1] = 2 /\ h[2] = 184
      \/ i.op = "B" /\ i.jump = "L" /\ h[1] = 2 /\ h[2] = 164
      \/ i.op = "B" /\ i.jump = "LE" /\ h[1] = 2 /\ h[2] = 166
      \/ i.op = "B" /\ i.jump = "E" /\ h[1] = 2 /\ h[2] = 168
      \/ i.op = "B" /\ i.jump = "NE" /\ h[1] = 2 /\ h[2] = 170
      \/ i.op = "B" /\ i.jump = "Z" /\ h[1] = 2 /\ h[2] = 172
      \/ i.op = "B" /\ i.jump = "NZ" /\ h[1] = 2 /\ h[2] = 174
<1>1. ASSUME NEW i \in Emitted PROVE Told(i, Header(i))
  <2>1. i.op \in Ops /\ (i.op # "B" => i.jump = "none")
    BY EmittedFacts DEF Shaped
  <2>2. CASE IsArithmetic(i)
    <3>1. /\ Header(i)[1] = Codes.i0[i.op] \div 8
          /\ Header(i)[2] = (Codes.i0[i.op] % 8) * 32 + 2
      BY <2>2, ArithmeticI0
    <3>2. /\ i.op = "ADD" => Codes.i0[i.op] \div 8 = 0 /\ (Codes.i0[i.op] % 8) * 32 + 2 = 98
          /\ i.op = "SUB" => Codes.i0[i.op] \div 8 = 0 /\ (Codes.i0[i.op] % 8) * 32 + 2 = 194
          /\ i.op = "MUL" => Codes.i0[i.op] \div 8 = 1
      BY CodesOf
    <3>3. QED
      BY <2>1, <2>2, <3>1, <3>2 DEF IsArithmetic
  <2>3. CASE i.op = "CONV"
    <3>1. AttrI0(i, 1) \in {0, 1}
      <4>1. Len(i.args) = 2
        BY <2>3, EmittedFacts DEF Shaped
      <4>2. 1 \in 1 .. Len(i.args)
        BY <4>1
      <4>3. QED
        BY <4>2, ModeCodes
    <3>2. Header(i)[1] = 4 /\ Header(i)[2] = 32 + 2 * AttrI0(i, 1)
      BY <2>3, ConvI0
    <3>3. QED
      BY <2>1, <2>3, <3>1, <3>2
  <2>4. CASE i.op = "SPAWN" \/ i.op = "EXIT"
    BY <2>1, <2>4, OthersI0
  <2>5. CASE i.op = "B"
    <3>1. i.jump \in {"J", "JI", "Z", "NZ", "L", "LE", "E", "NE"}
      BY <2>5, BranchOperands
    <3>2. Header(i)[1] = 2 /\ Header(i)[2] = 160 + 2 * Codes.i0[i.jump]
      BY <2>5, BranchI0
    <3>3. QED
      BY <2>5, <3>1, <3>2, CodesOf
  <2>6. QED
    BY <2>1, <2>2, <2>3, <2>4, <2>5 DEF Ops, IsArithmetic
<1>2. Told(ins, Header(ins)) /\ Told(jns, Header(ins))
  BY <1>1
<1>3. QED
  BY <1>2

\* and so does that of disa.
LEMMA SameOpDisa ==
  ASSUME NEW ins \in Emitted, NEW jns \in Emitted, target = "disa",
         Header(ins) = Header(jns)
  PROVE  ins.op = jns.op /\ ins.jump = jns.jump
<1> DEFINE Told(i, h) ==
      \/ i.op = "CONV" /\ i.jump = "none" /\ h[1] = 11
      \/ i.op = "SPAWN" /\ i.jump = "none" /\ h[1] = 5
      \/ i.op = "ADD" /\ i.jump = "none" /\ h[1] = 1
      \/ i.op = "SUB" /\ i.jump = "none" /\ h[1] = 2
      \/ i.op = "MUL" /\ i.jump = "none" /\ h[1] = 3
      \/ i.op = "EXIT" /\ i.jump = "none" /\ h[1] = 6
      \/ i.op = "B" /\ i.jump = "J" /\ h[1] = 7 /\ h[2] = 0
      \/ i.op = "B" /\ i.jump = "JI" /\ h[1] = 7 /\ h[2] \in {16, 18, 20, 22}
      \/ i.op = "B" /\ i.jump = "L" /\ h[1] = 7 /\ h[2] = 48
      \/ i.op = "B" /\ i.jump = "LE" /\ h[1] = 7 /\ h[2] = 32
      \/ i.op = "B" /\ i.jump = "E" /\ h[1] = 7 /\ h[2] = 64
      \/ i.op = "B" /\ i.jump = "NE" /\ h[1] = 7 /\ h[2] = 80
      \/ i.op = "B" /\ i.jump = "Z" /\ h[1] = 7 /\ h[2] = 96
      \/ i.op = "B" /\ i.jump = "NZ" /\ h[1] = 7 /\ h[2] = 112
<1>1. ASSUME NEW i \in Emitted PROVE Told(i, Header(i))
  <2>1. i.op \in Ops /\ (i.op # "B" => i.jump = "none")
    BY EmittedFacts DEF Shaped
  <2>2. CASE IsArithmetic(i)
    <3>1. Header(i)[1] = Codes.disa[i.op]
      BY <2>2, ArithmeticDisa
    <3>2. QED
      BY <2>1, <2>2, <3>1, CodesOfDisa DEF IsArithmetic
  <2>3. CASE i.op = "CONV"
    BY <2>1, <2>3, ConvDisa
  <2>4. CASE i.op = "SPAWN" \/ i.op = "EXIT"
    BY <2>1, <2>4, OthersDisa
  <2>5. CASE i.op = "B"
    <3>1. i.jump \in {"J", "JI", "Z", "NZ", "L", "LE", "E", "NE"} /\ ModeOf(i, 1) \in Four
      BY <2>5, BranchOperands, ModeCodes
    <3>2. Header(i)[1] = 7
      BY <2>5, BranchDisa
    <3>3. CASE i.jump = "J" \/ i.jump = "JI"
      <4>1. /\ i.jump = "J" => Header(i)[2] = 0
            /\ i.jump = "JI" => Header(i)[2] = 16 + 2 * ModeOf(i, 1)
        BY <2>5, BranchDisa
      <4>2. 16 + 2 * ModeOf(i, 1) \in {16, 18, 20, 22}
        BY <3>1 DEF Four
      <4>3. QED
        BY <2>5, <3>2, <3>3, <4>1, <4>2
    <3>4. CASE i.jump \notin {"J", "JI"}
      <4>1. Header(i)[2] = 16 * Codes.disa[i.jump]
        BY <2>5, <3>1, <3>4, BranchDisa DEF IsTest, IsCompare
      <4>2. QED
        BY <2>5, <3>1, <3>2, <3>4, <4>1, CodesOfDisa
    <3>5. QED
      BY <3>3, <3>4
  <2>6. QED
    BY <2>1, <2>2, <2>3, <2>4, <2>5 DEF Ops, IsArithmetic
<1>2. Told(ins, Header(ins)) /\ Told(jns, Header(ins))
  BY <1>1
<1>3. QED
  BY <1>2

\* What is put side by side in a byte can be told from it.
LEMMA Unpacked ==
  /\ \A a, b, c, x, y, z \in Four :
       64 * a + 8 * b + c = 64 * x + 8 * y + z => a = x /\ b = y /\ c = z
  /\ \A c, d \in {0, 1}, a, b, x, y \in Four :
       /\ 32 * c + 4 * a + b \div 2 = 32 * d + 4 * x + y \div 2
       /\ (128 * b) % 256 = (128 * y) % 256
       => c = d /\ a = x /\ b = y
  /\ \A a, b, c, x, y, z \in Four :
       /\ 4 * a + b \div 2 = 4 * x + y \div 2
       /\ 128 * (b % 2) + 16 * c = 128 * (y % 2) + 16 * z
       => a = x /\ b = y /\ c = z
<1>1. \A a, b, c, x, y, z \in 0 .. 3 :
       64 * a + 8 * b + c = 64 * x + 8 * y + z => a = x /\ b = y /\ c = z
  OBVIOUS
<1>2. \A c, d \in {0, 1}, a, b, x, y \in 0 .. 3 :
       /\ 32 * c + 4 * a + b \div 2 = 32 * d + 4 * x + y \div 2
       /\ (128 * b) % 256 = (128 * y) % 256
       => c = d /\ a = x /\ b = y
  OBVIOUS
<1>3. \A a, b, c, x, y, z \in 0 .. 3 :
       /\ 4 * a + b \div 2 = 4 * x + y \div 2
       /\ 128 * (b % 2) + 16 * c = 128 * (y % 2) + 16 * z
       => a = x /\ b = y /\ c = z
  OBVIOUS
<1>4. Four = 0 .. 3
  BY DEF Four
<1>5. QED
  BY <1>1, <1>2, <1>3, <1>4

\* The operands whose modes are in the header are operands.
LEMMA AddressedTyped ==
  ASSUME NEW ins \in Emitted
  PROVE  /\ Addressed(ins) \in 0 .. 4 /\ Addressed(ins) <= Len(ins.args)
         /\ Len(ins.args) \in Nat
         /\ ins.op = "CONV" => Addressed(ins) = 2
         /\ IsArithmetic(ins) => Addressed(ins) = 3
         /\ ins.op = "SPAWN" => Addressed(ins) = 4
         /\ ins.op = "EXIT" \/ ins.jump = "J" => Addressed(ins) = 0
         /\ ins.jump = "JI" \/ IsTest(ins) => Addressed(ins) = 1
         /\ IsCompare(ins) => Addressed(ins) = 2
<1>1. Shaped(ins) /\ Len(ins.args) \in Nat
  BY EmittedFacts
<1>2. /\ ins.op = "CONV" => Addressed(ins) = 2 /\ Len(ins.args) = 2
      /\ IsArithmetic(ins) => Addressed(ins) = 3 /\ Len(ins.args) = 3
      /\ ins.op = "SPAWN" => Addressed(ins) = 4 /\ Len(ins.args) = 4
      /\ ins.op = "EXIT" \/ ins.jump = "J" => Addressed(ins) = 0
      /\ ins.jump = "JI" \/ IsTest(ins) =>
           Addressed(ins) = 1 /\ (Len(ins.args) = 1 \/ Len(ins.args) = 2)
      /\ IsCompare(ins) => Addressed(ins) = 2 /\ Len(ins.args) = 3
  <2>1. ins.op = "CONV" => Addressed(ins) = 2 /\ Len(ins.args) = 2
    BY <1>1 DEF Shaped, Addressed, IsArithmetic, IsCompare, IsTest
  <2>2. IsArithmetic(ins) => Addressed(ins) = 3 /\ Len(ins.args) = 3
    BY <1>1 DEF Shaped, Addressed, IsArithmetic, IsCompare, IsTest
  <2>3. ins.op = "SPAWN" => Addressed(ins) = 4 /\ Len(ins.args) = 4
    BY <1>1 DEF Shaped, Addressed, IsArithmetic, IsCompare, IsTest
  <2>4. ins.op = "EXIT" \/ ins.jump = "J" => Addressed(ins) = 0
    BY <1>1 DEF Shaped, Addressed, IsArithmetic, IsCompare, IsTest
  <2>5. ins.jump = "JI" \/ IsTest(ins) =>
          Addressed(ins) = 1 /\ (Len(ins.args) = 1 \/ Len(ins.args) = 2)
    BY <1>1 DEF Shaped, Addressed, IsArithmetic, IsCompare, IsTest
  <2>6. IsCompare(ins) => Addressed(ins) = 2 /\ Len(ins.args) = 3
    BY <1>1 DEF Shaped, Addressed, IsArithmetic, IsCompare, IsTest
  <2>7. QED
    BY <2>1, <2>2, <2>3, <2>4, <2>5, <2>6
<1>3. ins.op = "CONV" \/ IsArithmetic(ins) \/ ins.op \in {"SPAWN", "EXIT"}
        \/ ins.jump \in {"J", "JI"} \/ IsTest(ins) \/ IsCompare(ins)
  <2>1. \/ ins.op = "CONV" \/ ins.op \in {"ADD", "SUB", "MUL"}
        \/ ins.op = "B" /\ ins.jump \in {"J", "JI"}
        \/ ins.op = "B" /\ ins.jump \in {"Z", "NZ"}
        \/ ins.op = "B" /\ ins.jump \in {"L", "LE", "E", "NE"}
        \/ ins.op = "SPAWN" \/ ins.op = "EXIT"
    BY <1>1 DEF Shaped
  <2>2. ins.op \in {"ADD", "SUB", "MUL"} => IsArithmetic(ins)
    BY DEF IsArithmetic
  <2>3. ins.op = "B" /\ ins.jump \in {"Z", "NZ"} => IsTest(ins)
    BY DEF IsTest
  <2>4. ins.op = "B" /\ ins.jump \in {"L", "LE", "E", "NE"} => IsCompare(ins)
    BY DEF IsCompare
  <2>5. QED
    BY <2>1, <2>2, <2>3, <2>4
<1>4. Addressed(ins) \in 0 .. 4 /\ Addressed(ins) <= Len(ins.args)
  <2>1. \/ Addressed(ins) = 2 /\ Len(ins.args) = 2
        \/ Addressed(ins) = 3 /\ Len(ins.args) = 3
        \/ Addressed(ins) = 4 /\ Len(ins.args) = 4
        \/ Addressed(ins) = 0
        \/ Addressed(ins) = 1 /\ (Len(ins.args) = 1 \/ Len(ins.args) = 2)
        \/ Addressed(ins) = 2 /\ Len(ins.args) = 3
    <3>1. ins.op \in {"SPAWN", "EXIT"} => ins.op = "SPAWN" \/ ins.op = "EXIT"
      OBVIOUS
    <3>2. ins.jump \in {"J", "JI"} => ins.jump = "J" \/ ins.jump = "JI"
      OBVIOUS
    <3>3. QED
      BY <1>2, <1>3, <3>1, <3>2, Zenon
  <2>2. QED
    BY <1>1, <2>1
<1>5. QED
  BY <1>1, <1>2, <1>4

\* The header tells the modes of these, and the attributes of a conv.
LEMMA SameModes ==
  ASSUME NEW ins \in Emitted, NEW jns \in Emitted, target \in {"i0", "disa"},
         Header(ins) = Header(jns), ins.op = jns.op, ins.jump = jns.jump
  PROVE  /\ \A i \in 1 .. Addressed(ins) : ins.args[i].mode = jns.args[i].mode
         /\ ins.op = "CONV" => \A i \in {1, 2} : ins.args[i].conv = jns.args[i].conv
<1>1. /\ \A i \in 1 .. Addressed(ins) :
           /\ i \in 1 .. Len(ins.args) /\ i \in 1 .. Len(jns.args)
           /\ ModeOf(ins, i) \in Four /\ ModeOf(jns, i) \in Four
           /\ AttrI0(ins, i) \in {0, 1} /\ AttrI0(jns, i) \in {0, 1}
           /\ AttrDisa(ins, i) \in {0, 2} /\ AttrDisa(jns, i) \in {0, 2}
  <2>1. Addressed(jns) = Addressed(ins)
    BY DEF Addressed, IsArithmetic, IsCompare, IsTest
  <2>2. /\ Addressed(ins) \in 0 .. 4 /\ Addressed(ins) <= Len(ins.args)
        /\ Addressed(ins) <= Len(jns.args)
        /\ Len(ins.args) \in Nat /\ Len(jns.args) \in Nat
    BY <2>1, AddressedTyped
  <2>3. \A i \in 1 .. Addressed(ins) : i \in 1 .. Len(ins.args) /\ i \in 1 .. Len(jns.args)
    BY <2>2
  <2>4. QED
    BY <2>3, ModeCodes
<1>2. \A i \in 1 .. Addressed(ins) :
        /\ ModeOf(ins, i) = ModeOf(jns, i) => ins.args[i].mode = jns.args[i].mode
        /\ AttrI0(ins, i) = AttrI0(jns, i) => ins.args[i].conv = jns.args[i].conv
        /\ AttrDisa(ins, i) = AttrDisa(jns, i) => ins.args[i].conv = jns.args[i].conv
  BY <1>1, CodesInjective
<1>3. ins.op \in Ops /\ (ins.op # "B" => ins.jump = "none")
  BY EmittedFacts DEF Shaped
<1>4. CASE IsArithmetic(ins)
  <2>1. Addressed(ins) = 3
    BY <1>4, AddressedTyped
  <2>2. 1 \in 1 .. Addressed(ins) /\ 2 \in 1 .. Addressed(ins) /\ 3 \in 1 .. Addressed(ins)
    BY <2>1
  <2>3. IsArithmetic(jns)
    BY <1>4 DEF IsArithmetic
  <2> DEFINE m(i) == ModeOf(ins, i)
             n(i) == ModeOf(jns, i)
  <2>4. /\ m(1) \in Four /\ m(2) \in Four /\ m(3) \in Four
        /\ n(1) \in Four /\ n(2) \in Four /\ n(3) \in Four
    BY <1>1, <2>2
  <2>5. m(1) = n(1) /\ m(2) = n(2) /\ m(3) = n(3)
    <3>1. CASE target = "i0"
      <4>1. 64 * m(1) + 8 * m(2) + m(3) = 64 * n(1) + 8 * n(2) + n(3)
        BY <1>4, <2>3, <3>1, ArithmeticI0
      <4> HIDE DEF m, n
      <4>2. QED
        BY <2>4, <4>1, Unpacked
    <3>2. CASE target = "disa"
      <4>1. /\ 4 * m(1) + m(2) \div 2 = 4 * n(1) + n(2) \div 2
            /\ 128 * (m(2) % 2) + 16 * m(3) = 128 * (n(2) % 2) + 16 * n(3)
        BY <1>4, <2>3, <3>2, ArithmeticDisa
      <4>2. \A a, b, c, x, y, z \in Four :
              /\ 4 * a + b \div 2 = 4 * x + y \div 2
              /\ 128 * (b % 2) + 16 * c = 128 * (y % 2) + 16 * z
              => a = x /\ b = y /\ c = z
        BY Unpacked, Zenon
      <4> HIDE DEF m, n
      <4>3. QED
        BY <2>4, <4>1, <4>2
    <3>3. QED
      BY <3>1, <3>2
  <2>6. \A i \in 1 .. Addressed(ins) : ModeOf(ins, i) = ModeOf(jns, i)
    BY <2>1, <2>5
  <2>7. ins.op # "CONV"
    BY <1>4 DEF IsArithmetic
  <2>8. QED
    BY <1>2, <2>6, <2>7
<1>5. CASE ins.op = "CONV"
  <2>0. jns.op = "CONV"
    BY <1>5
  <2>1. Addressed(ins) = 2
    BY <1>3, <1>5, AddressedTyped
  <2>2. 1 \in 1 .. Addressed(ins) /\ 2 \in 1 .. Addressed(ins)
    BY <2>1
  <2> DEFINE m(i) == ModeOf(ins, i)
             n(i) == ModeOf(jns, i)
  <2>3. m(1) \in Four /\ m(2) \in Four /\ n(1) \in Four /\ n(2) \in Four
    BY <1>1, <2>2
  <2>4. m(1) = n(1) /\ m(2) = n(2) /\ \A i \in {1, 2} : ins.args[i].conv = jns.args[i].conv
    <3>1. CASE target = "i0"
      <4> DEFINE c(i) == AttrI0(ins, i)
                 d(i) == AttrI0(jns, i)
      <4>1. c(1) \in {0, 1} /\ c(2) \in {0, 1} /\ d(1) \in {0, 1} /\ d(2) \in {0, 1}
        BY <1>1, <2>2
      <4>2. /\ 32 + 2 * c(1) = 32 + 2 * d(1)
            /\ 32 * c(2) + 4 * m(1) + m(2) \div 2 = 32 * d(2) + 4 * n(1) + n(2) \div 2
            /\ (128 * m(2)) % 256 = (128 * n(2)) % 256
        <5>1. /\ Header(ins)[2] = 32 + 2 * c(1)
              /\ Header(ins)[3] = 32 * c(2) + 4 * m(1) + m(2) \div 2
              /\ Header(ins)[4] = (128 * m(2)) % 256
          BY <1>5, <3>1, ConvI0
        <5>2. /\ Header(jns)[2] = 32 + 2 * d(1)
              /\ Header(jns)[3] = 32 * d(2) + 4 * n(1) + n(2) \div 2
              /\ Header(jns)[4] = (128 * n(2)) % 256
          BY <2>0, <3>1, ConvI0
        <5> HIDE DEF c, d, m, n
        <5>3. QED
          BY <5>1, <5>2
      <4>3. c(1) = d(1) /\ c(2) = d(2) /\ m(1) = n(1) /\ m(2) = n(2)
        <5> HIDE DEF c, d, m, n
        <5>1. c(1) = d(1)
          BY <4>1, <4>2
        <5>2. QED
          BY <2>3, <4>1, <4>2, <5>1, Unpacked
      <4>4. QED
        BY <1>2, <2>2, <4>3
    <3>2. CASE target = "disa"
      <4> DEFINE c(i) == AttrDisa(ins, i)
                 d(i) == AttrDisa(jns, i)
      <4>1. c(1) \in {0, 2} /\ c(2) \in {0, 2} /\ d(1) \in {0, 2} /\ d(2) \in {0, 2}
        BY <1>1, <2>2
      <4>2. /\ 16 * c(1) + c(2) = 16 * d(1) + d(2)
            /\ 32 * m(1) + 4 * m(2) = 32 * n(1) + 4 * n(2)
        BY <1>5, <3>2, ConvDisa
      <4>3. c(1) = d(1) /\ c(2) = d(2) /\ m(1) = n(1) /\ m(2) = n(2)
        <5> HIDE DEF c, d, m, n
        <5>1. c(1) = d(1) /\ c(2) = d(2)
          BY <4>1, <4>2
        <5>2. m(1) = n(1) /\ m(2) = n(2)
          BY <2>3, <4>2 DEF Four
        <5>3. QED
          BY <5>1, <5>2
      <4>4. QED
        BY <1>2, <2>2, <4>3
    <3>3. QED
      BY <3>1, <3>2
  <2>5. \A i \in 1 .. Addressed(ins) : ModeOf(ins, i) = ModeOf(jns, i)
    BY <2>1, <2>4
  <2>6. QED
    BY <1>2, <2>4, <2>5
<1>6. CASE ins.op = "SPAWN"
  <2>1. Addressed(ins) = 4
    BY <1>6, AddressedTyped
  <2>2. \A i \in 1 .. 4 : ins.args[i].mode = "Direct" /\ jns.args[i].mode = "Direct"
    BY <1>6, EmittedFacts DEF Shaped
  <2>3. QED
    BY <1>6, <2>1, <2>2
<1>7. CASE ins.op = "EXIT"
  <2>1. Addressed(ins) = 0
    BY <1>3, <1>7, AddressedTyped
  <2>2. QED
    BY <1>7, <2>1
<1>8. CASE ins.op = "B"
  <2>1. /\ ins.jump \in {"J", "JI", "Z", "NZ", "L", "LE", "E", "NE"}
        /\ IsTest(ins) = IsTest(jns) /\ IsCompare(ins) = IsCompare(jns)
    BY <1>8, BranchOperands DEF IsTest, IsCompare
  <2> DEFINE m(i) == ModeOf(ins, i)
             n(i) == ModeOf(jns, i)
  <2>2. CASE ins.jump = "J"
    <3>1. Addressed(ins) = 0
      BY <1>8, <2>2, AddressedTyped
    <3>2. QED
      BY <1>8, <3>1
  <2>3. CASE ins.jump = "JI" \/ IsTest(ins)
    <3>1. Addressed(ins) = 1
      BY <1>8, <2>3, AddressedTyped
    <3>2. m(1) \in Four /\ n(1) \in Four
      BY <1>1, <3>1
    <3>3. \/ 64 * m(1) = 64 * n(1) \/ 32 + 4 * m(1) = 32 + 4 * n(1)
          \/ 16 + 2 * m(1) = 16 + 2 * n(1)
      <4>0. jns.op = "B" /\ (ins.jump = "JI" => jns.jump = "JI") /\ (IsTest(ins) => IsTest(jns))
        BY <1>8, <2>1
      <4>1. CASE target = "i0"
        <5>1. /\ ins.jump = "JI" => Header(ins)[3] = 64 * m(1) /\ Header(jns)[3] = 64 * n(1)
              /\ IsTest(ins) => Header(ins)[3] = 32 + 4 * m(1) /\ Header(jns)[3] = 32 + 4 * n(1)
          BY <1>8, <4>0, <4>1, BranchI0
        <5>2. QED
          BY <2>3, <5>1
      <4>2. CASE target = "disa"
        <5>1. /\ ins.jump = "JI" => Header(ins)[2] = 16 + 2 * m(1) /\ Header(jns)[2] = 16 + 2 * n(1)
              /\ IsTest(ins) => Header(ins)[3] = 64 * m(1) /\ Header(jns)[3] = 64 * n(1)
          BY <1>8, <4>0, <4>2, BranchDisa
        <5>2. QED
          BY <2>3, <5>1
      <4>3. QED
        BY <4>1, <4>2
    <3>4. m(1) = n(1)
      <4> HIDE DEF m, n
      <4>1. QED
        BY <3>2, <3>3 DEF Four
    <3>5. \A i \in 1 .. Addressed(ins) : ModeOf(ins, i) = ModeOf(jns, i)
      BY <3>1, <3>4
    <3>6. QED
      BY <1>2, <1>8, <3>5
  <2>4. CASE IsCompare(ins)
    <3>1. Addressed(ins) = 2
      BY <1>8, <2>4, AddressedTyped
    <3>2. m(1) \in Four /\ m(2) \in Four /\ n(1) \in Four /\ n(2) \in Four
      BY <1>1, <3>1
    <3>3. m(1) = n(1) /\ m(2) = n(2)
      <4>1. CASE target = "i0"
        <5>1. /\ 32 + 4 * m(1) + m(2) \div 2 = 32 + 4 * n(1) + n(2) \div 2
              /\ (128 * m(2)) % 256 = (128 * n(2)) % 256
          <6>1. /\ Header(ins)[3] = 32 + 4 * m(1) + m(2) \div 2
                /\ Header(ins)[4] = (128 * m(2)) % 256
            BY <1>8, <2>4, <4>1, BranchI0
          <6>2. jns.op = "B" /\ IsCompare(jns)
            BY <1>8, <2>1, <2>4
          <6>3. /\ Header(jns)[3] = 32 + 4 * n(1) + n(2) \div 2
                /\ Header(jns)[4] = (128 * n(2)) % 256
            BY <4>1, <6>2, BranchI0
          <6> HIDE DEF m, n
          <6>4. QED
            BY <6>1, <6>3
        <5> HIDE DEF m, n
        <5>2. 32 * 1 + 4 * m(1) + m(2) \div 2 = 32 * 1 + 4 * n(1) + n(2) \div 2
          BY <5>1
        <5>3. QED
          BY <3>2, <5>1, <5>2, Unpacked
      <4>2. CASE target = "disa"
        <5>1. 64 * m(1) + 8 * m(2) = 64 * n(1) + 8 * n(2)
          BY <1>8, <2>1, <2>4, <4>2, BranchDisa
        <5> HIDE DEF m, n
        <5>2. QED
          BY <3>2, <5>1 DEF Four
      <4>3. QED
        BY <4>1, <4>2
    <3>4. \A i \in 1 .. Addressed(ins) : ModeOf(ins, i) = ModeOf(jns, i)
      BY <3>1, <3>3
    <3>5. QED
      BY <1>2, <1>8, <3>4
  <2>5. QED
    BY <2>1, <2>2, <2>3, <2>4 DEF IsTest, IsCompare
<1>9. QED
  BY <1>3, <1>4, <1>5, <1>6, <1>7, <1>8 DEF Ops, IsArithmetic

\* So it tells apart whatever differs in one of the fields.
LEMMA HeadersTell ==
  ASSUME NEW ins \in Emitted, NEW jns \in Emitted, target \in {"i0", "disa"},
         Header(ins) = Header(jns)
  PROVE  Fields(ins) = Fields(jns)
<1>1. ins.op = jns.op /\ ins.jump = jns.jump
  BY SameOpI0, SameOpDisa
<1>2. Addressed(jns) = Addressed(ins)
  BY <1>1 DEF Addressed, IsArithmetic, IsCompare, IsTest
<1>3. [i \in 1 .. Addressed(ins) |-> ins.args[i].mode]
        = [i \in 1 .. Addressed(ins) |-> jns.args[i].mode]
  BY <1>1, SameModes
<1>4. ins.op = "CONV" => [i \in {1, 2} |-> ins.args[i].conv]
                           = [i \in {1, 2} |-> jns.args[i].conv]
  BY <1>1, SameModes
<1>5. QED
  BY <1>1, <1>2, <1>3, <1>4 DEF Fields

-----------------------------------------------------------------------------
(* The optimizer leaves what can be visited                                *)

Good(places) == {il \in Instruction : WellFormed(il) /\ Visitable(il, places)}
Compiling(places) == /\ program \in Seq(Seq(Good(places)))
                     /\ \A i \in 1 .. Len(ils) : ils[i] \in Good(places) \/ ils[i].op = "Nop"

\* What an instruction that can be visited has.
LEMMA GoodFacts ==
  ASSUME NEW places, NEW il \in Good(places)
  PROVE  /\ il \in Code /\ il.op \in VisitedOps /\ il.op # "Nop" /\ OperandsThere(il)
         /\ \A i \in 1 .. Len(il.args) :
              /\ il.args[i] \in Operand /\ il.args[i].value # Placeholder
              /\ ReadsValue(il, i) /\ IsLocal(il.args[i]) => Key(il.args[i]) \in DOMAIN places.where
<1>1. il \in Instruction /\ WellFormed(il) /\ Visitable(il, places)
  BY DEF Good
<1>2. il.args \in Seq(Operand) /\ DOMAIN il.args = 1 .. Len(il.args)
  BY <1>1 DEF Instruction
<1>3. il.op # "Nop"
  BY <1>1 DEF Visitable, VisitedOps, Arithmetic, Comparison, CompareBranch, ConditionalBranch
<1>4. QED
  BY <1>1, <1>2, <1>3 DEF Visitable, Code

\* A comparison and the branch behind it become an instruction that can be visited,
LEMMA GoodFused ==
  ASSUME NEW places, NEW il \in Good(places), NEW branch \in Good(places),
         il.op \in Comparison, branch.op \in ConditionalBranch
  PROVE  FusedBranch(il, branch) \in Good(places)
<1> DEFINE a == il.args[2]
           b == il.args[3]
           to == branch.args[2]
           fused == FusedBranch(il, branch)
<1>1. /\ fused.op \in CompareBranch /\ fused \in Code
      /\ fused.args \in {<<a, b, to>>, <<b, a, to>>}
      /\ Len(il.args) = 3 /\ Len(branch.args) = 2
  BY GoodFacts, FusedFacts
<1> HIDE DEF fused
<1>2. fused \in Instruction /\ WellFormed(fused)
  BY <1>1 DEF Code
<1>3. /\ 2 \in 1 .. Len(il.args) /\ 3 \in 1 .. Len(il.args) /\ 2 \in 1 .. Len(branch.args)
      /\ ReadsValue(il, 2) /\ ReadsValue(il, 3)
  BY <1>1 DEF ReadsValue, Comparison, ConditionalBranch, CompareBranch
<1>4. /\ a.value # Placeholder /\ (IsLocal(a) => Key(a) \in DOMAIN places.where)
      /\ b.value # Placeholder /\ (IsLocal(b) => Key(b) \in DOMAIN places.where)
      /\ to.value # Placeholder
  BY <1>3, GoodFacts
<1> HIDE DEF a, b, to
<1>5. OperandsThere(fused) /\ fused.op \in VisitedOps
  BY <1>1 DEF OperandsThere, VisitedOps, CompareBranch
<1>6. ASSUME NEW i \in DOMAIN fused.args
      PROVE  /\ fused.args[i].value # Placeholder
             /\ ReadsValue(fused, i) /\ IsLocal(fused.args[i])
                  => Key(fused.args[i]) \in DOMAIN places.where
  <2>1. i \in {1, 2, 3} /\ fused.args[i] \in {a, b, to} /\ (i < 3 => fused.args[i] \in {a, b})
    BY <1>1
  <2>2. ReadsValue(fused, i) => i < 3
    BY <1>1 DEF ReadsValue, CompareBranch, ConditionalBranch
  <2>3. QED
    BY <1>4, <2>1, <2>2
<1>7. Visitable(fused, places)
  BY <1>5, <1>6 DEF Visitable
<1>8. QED
  BY <1>2, <1>7 DEF Good, fused

\* an instruction still can when it writes another variable,
LEMMA GoodForwarded ==
  ASSUME NEW places, NEW il \in Good(places), NEW mov \in Good(places),
         il.op \in Forwardable, mov.op \in {"Mov", "Conv"},
         NEW x, x = [il EXCEPT !.args[1] = mov.args[1]], x \in Code
  PROVE  x \in Good(places)
<1>1. /\ x.op = il.op /\ Len(x.args) = Len(il.args) /\ DOMAIN x.args = DOMAIN il.args
      /\ \A i \in DOMAIN il.args : x.args[i] = IF i = 1 THEN mov.args[1] ELSE il.args[i]
  BY GoodFacts DEF Code, Instruction
<1>2. DOMAIN il.args = 1 .. Len(il.args)
  BY GoodFacts DEF Code, Instruction
<1>3. /\ mov.args[1].value # Placeholder
      /\ IsLocal(mov.args[1]) => Key(mov.args[1]) \in DOMAIN places.where
  <2>1. WellFormed(mov)
    BY GoodFacts DEF Code
  <2>2. Len(mov.args) = 2
    BY <2>1 DEF WellFormed
  <2>3. 1 \in 1 .. Len(mov.args) /\ ReadsValue(mov, 1)
    BY <2>2 DEF ReadsValue, CompareBranch, ConditionalBranch
  <2>4. QED
    BY <2>3, GoodFacts
<1>4. OperandsThere(x) /\ x.op \in VisitedOps
  BY <1>1, GoodFacts DEF OperandsThere, Forwardable
<1>5. ASSUME NEW i \in DOMAIN x.args
      PROVE  /\ x.args[i].value # Placeholder
             /\ ReadsValue(x, i) /\ IsLocal(x.args[i]) => Key(x.args[i]) \in DOMAIN places.where
  <2>1. ReadsValue(x, i) => ReadsValue(il, i)
    BY <1>1 DEF ReadsValue
  <2>2. CASE i = 1
    BY <1>1, <1>3, <1>5, <2>2
  <2>3. CASE i # 1
    BY <1>1, <1>2, <1>5, <2>1, <2>3, GoodFacts
  <2>4. QED
    BY <2>2, <2>3
<1>6. QED
  BY <1>4, <1>5 DEF Visitable, Good, Code

\* and the Nops, which cannot, are deleted when a pass ends.
LEMMA GoodDeleteNops ==
  ASSUME NEW places, NEW b \in Body,
         \A i \in 1 .. Len(b) : b[i] \in Good(places) \/ b[i].op = "Nop"
  PROVE  DeleteNops(b) \in Seq(Good(places))
<1>1. DeleteNops(b) = Flat(Kept(b), Len(b)) /\ Len(b) \in Nat
  BY FlatControl, BodyFacts
<1>2. ASSUME NEW i \in 1 .. Len(b)
      PROVE  Kept(b)[i] \in Seq(Good(places))
  <2>1. Kept(b)[i] = IF b[i].op = "Nop" THEN <<>> ELSE <<b[i]>>
    BY BodyFacts DEF Kept
  <2>2. CASE b[i].op = "Nop"
    BY <2>1, <2>2
  <2>3. CASE b[i].op # "Nop"
    BY <2>1, <2>3
  <2>4. QED
    BY <2>2, <2>3
<1>3. QED
  BY <1>1, <1>2, FlatType

\* The invariant of the optimizer, for any of its steps.
LEMMA OptimizerStep ==
  ASSUME OptimizerInv, Next
  PROVE  OptimizerInv'
BY FuseBranchStep, ForwardStep, SkipStep, EndPassStep DEF Next

\* The optimizer leaves a program that can be visited, with as many functions.
LEMMA CompilingStep ==
  ASSUME OptimizerInv, Next, NEW places, Compiling(places)
  PROVE  Compiling(places)' /\ Len(program') = Len(program)
<1>1. TypeOK
  BY DEF OptimizerInv
<1>2. /\ program \in Seq(Seq(Good(places)))
      /\ \A i \in 1 .. Len(ils) : ils[i] \in Good(places) \/ ils[i].op = "Nop"
  BY DEF Compiling
<1>3. CASE FuseBranch
  <2>1. Inside /\ ils[at].op \in Comparison /\ ils[at + 1].op \in ConditionalBranch
        /\ ils' = [ils EXCEPT ![at] = FusedBranch(ils[at], ils[at + 1]), ![at + 1] = Nop]
        /\ program' = program
    BY <1>3 DEF FuseBranch, CanFuse, Here, Ahead
  <2>2. at \in 1 .. Len(ils) /\ at + 1 \in 1 .. Len(ils)
    BY <1>1, <2>1, InsideFacts
  <2>3. ils[at] \in Good(places) /\ ils[at + 1] \in Good(places)
    BY <1>2, <2>1, <2>2 DEF Comparison, ConditionalBranch
  <2>4. FusedBranch(ils[at], ils[at + 1]) \in Good(places)
    BY <2>1, <2>3, GoodFused
  <2>5. ils \in Body
    BY <1>1 DEF TypeOK
  <2>6. Len(ils') = Len(ils)
    BY <2>1, <2>5 DEF Body
  <2>7. ASSUME NEW i \in 1 .. Len(ils) PROVE ils'[i] \in Good(places) \/ ils'[i].op = "Nop"
    <3>1. ils'[i] = IF i = at + 1 THEN Nop
                    ELSE IF i = at THEN FusedBranch(ils[at], ils[at + 1]) ELSE ils[i]
      BY <2>1, <2>5 DEF Body
    <3>2. QED
      BY <1>2, <2>4, <3>1, NopIsCode
  <2>8. QED
    BY <1>2, <2>1, <2>6, <2>7 DEF Compiling
<1>4. CASE Forward
  <2> DEFINE k == at - 1
             x == [ils[k] EXCEPT !.args[1] = ils[at].args[1]]
  <2>1. Inside /\ ils[at].op \in {"Mov", "Conv"} /\ ils[k].op \in Forwardable
        /\ ils' = [ils EXCEPT ![k].args[1] = ils[at].args[1], ![at] = Nop]
        /\ program' = program
    BY <1>4 DEF Forward, CanForward, Here, Behind
  <2>2. at \in 1 .. Len(ils) /\ k \in 1 .. Len(ils) /\ k # at
    BY <1>1, <2>1, InsideFacts
  <2>3. ils[at] \in Good(places) /\ ils[k] \in Good(places)
    BY <1>2, <2>1, <2>2 DEF Forwardable
  <2>4. ils \in Body
    BY <1>1 DEF TypeOK
  <2>5. Len(ils') = Len(ils) /\ ils' = [ils EXCEPT ![k] = x, ![at] = Nop]
    BY <2>1, <2>2, <2>4 DEF Body
  <2>6. x \in Good(places)
    <3>1. OptimizerInv'
      BY OptimizerStep
    <3>2. ils' \in Body
      BY <3>1 DEF OptimizerInv, TypeOK
    <3>3. ils'[k] = x
      BY <2>2, <2>4, <2>5 DEF Body
    <3>4. x \in Code
      BY <2>2, <2>5, <3>2, <3>3, BodyFacts
    <3>5. QED
      BY <2>1, <2>3, <3>4, GoodForwarded
  <2> HIDE DEF x
  <2>7. ASSUME NEW i \in 1 .. Len(ils) PROVE ils'[i] \in Good(places) \/ ils'[i].op = "Nop"
    <3>1. ils'[i] = IF i = at THEN Nop ELSE IF i = k THEN x ELSE ils[i]
      BY <2>2, <2>4, <2>5 DEF Body
    <3>2. QED
      BY <1>2, <2>6, <3>1, NopIsCode
  <2>8. QED
    BY <1>2, <2>1, <2>5, <2>7 DEF Compiling
<1>5. CASE Skip
  BY <1>2, <1>5 DEF Skip, Compiling
<1>6. CASE EndPass
  <2>1. /\ ~Done /\ program' = [program EXCEPT ![fn] = DeleteNops(ils)]
        /\ fn' = IF optimized THEN fn ELSE fn + 1
        /\ ils' = IF fn' <= Len(program) THEN program'[fn'] ELSE <<>>
    BY <1>6 DEF EndPass
  <2>2. fn \in 1 .. Len(program) /\ ils \in Body /\ Len(program) \in Nat
    BY <1>1, <2>1, Working
  <2>3. DeleteNops(ils) \in Seq(Good(places))
    BY <1>2, <2>2, GoodDeleteNops
  <2>4. program' \in Seq(Seq(Good(places))) /\ Len(program') = Len(program)
    BY <1>2, <2>1, <2>2, <2>3
  <2>5. ils' \in Seq(Good(places))
    <3>1. CASE fn' <= Len(program)
      <4>1. fn' \in 1 .. Len(program')
        BY <2>1, <2>2, <2>4, <3>1
      <4>2. QED
        BY <2>1, <2>4, <3>1, <4>1
    <3>2. CASE ~(fn' <= Len(program))
      BY <2>1, <3>2
    <3>3. QED
      BY <3>1, <3>2
  <2>6. \A i \in 1 .. Len(ils') : ils'[i] \in Good(places)
    BY <2>5
  <2>7. QED
    BY <2>4, <2>6 DEF Compiling
<1>7. QED
  BY <1>3, <1>4, <1>5, <1>6 DEF Next

-----------------------------------------------------------------------------
(* Code in a row                                                           *)

PlacedIns == [ins : Emitted, at : Nat]
Sizes == [ins \in Emitted |-> GetLength(ins)]
Written == [ins \in Emitted |-> BytesEncoded(ins)]
InRow(c, size) ==
  /\ c \in Seq(PlacedIns)
  /\ \A i \in 1 .. Len(c) :
       c[i].at = IF i = 1 THEN TextStart ELSE c[i - 1].at + size[c[i - 1].ins]
Top(c, size) == IF c = <<>> THEN TextStart ELSE c[Len(c)].at + size[c[Len(c)].ins]

\* The sizes of instructions are numbers.
LEMMA SizesTyped == Sizes \in [Emitted -> Nat]
BY LengthTyped DEF Sizes

\* They depend on the target only.
LEMMA SizesSame ==
  ASSUME target' = target
  PROVE  Sizes' = Sizes /\ Written' = Written
BY DEF Sizes, Written, GetLength, LengthOfHeader, BytesEncoded, Header

\* The end of code in a row is an address,
LEMMA TopTyped ==
  ASSUME NEW size \in [Emitted -> Nat], NEW c, InRow(c, size)
  PROVE  Top(c, size) \in Nat
<1>1. c \in Seq(PlacedIns) /\ Len(c) \in Nat
  BY DEF InRow
<1>2. CASE c = <<>>
  BY <1>2, TextAssumption DEF Top
<1>3. CASE c # <<>>
  <2>1. c[Len(c)] \in PlacedIns
    BY <1>1, <1>3
  <2>2. QED
    BY <1>3, <2>1 DEF Top, PlacedIns
<1>4. QED
  BY <1>2, <1>3

\* the one that _currentText is.
LEMMA TextIsTop ==
  ASSUME InRow(code, Sizes)
  PROVE  Text = Top(code, Sizes) /\ Text \in Nat
<1>1. code \in Seq(PlacedIns)
  BY DEF InRow
<1>2. CASE code = <<>>
  BY <1>2, TextAssumption DEF Text, Top
<1>3. CASE code # <<>>
  <2>1. code[Len(code)] \in PlacedIns /\ Last(code) = code[Len(code)]
    BY <1>1, <1>3 DEF Last
  <2>2. Sizes[code[Len(code)].ins] = GetLength(code[Len(code)].ins)
    BY <2>1 DEF Sizes, PlacedIns
  <2>3. Text = Top(code, Sizes)
    BY <1>3, <2>1, <2>2 DEF Text, Top
  <2>4. QED
    BY <2>3, SizesTyped, TopTyped
<1>4. QED
  BY <1>2, <1>3

IsSums(A, list) ==
  /\ A[0] = 0 /\ A[Len(list)] = LengthOf(list)
  /\ \A k \in 0 .. Len(list) : A[k] \in Nat
  /\ \A k \in 1 .. Len(list) : A[k] = A[k - 1] + Sizes[list[k]]
  /\ \A t : PlacedFrom(list, t) =
       [i \in 1 .. Len(list) |-> [ins |-> list[i], at |-> t + A[i - 1]]]
Follow(p, T, A, size) == \A i \in 1 .. Len(p) : /\ p[i].at = T + A[i - 1]
                                            /\ A[i] = A[i - 1] + size[p[i].ins]

\* Instructions that are emitted together lie where the sums of the lengths before
\* them say,
LEMMA RowSums ==
  ASSUME NEW list \in Seq(Emitted)
  PROVE  \E A : IsSums(A, list)
<1> DEFINE s == Lengths(list)
           n == Len(list)
           A == Accumulated(s)
<1>1. s \in Seq(Nat) /\ Len(s) = n /\ \A i \in 1 .. n : s[i] = GetLength(list[i])
  BY LengthsTyped
<1>2. n \in Nat /\ \A i \in 1 .. n : list[i] \in Emitted
  OBVIOUS
<1>3. LengthOf(list) = A[n]
  BY <1>1 DEF LengthOf, Total
<1>4. \A T : PlacedFrom(list, T) = [i \in 1 .. n |-> [ins |-> list[i], at |-> T + A[i - 1]]]
  BY DEF PlacedFrom
<1> HIDE DEF s, n
<1>5. Len(s) \in Nat /\ \A k \in 1 .. Len(s) : s[k] \in Nat
  BY <1>1, <1>2
<1>6. /\ A[0] = 0 /\ \A k \in 0 .. n : A[k] \in Nat
      /\ \A k \in 0 .. n : k # 0 => A[k] = A[k - 1] + s[k]
  <2> HIDE DEF A
  <2>1. A[0] = 0 /\ \A k \in 0 .. Len(s) : k # 0 => A[k] = A[k - 1] + s[k]
    BY <1>5, TotalsAre DEF A
  <2>2. \A k \in 0 .. Len(s) : A[k] \in Nat
    BY <1>5, TotalsGrow DEF A
  <2>3. QED
    BY <1>1, <2>1, <2>2
<1> HIDE DEF A
<1>7. ASSUME NEW k \in 1 .. n PROVE A[k] = A[k - 1] + Sizes[list[k]]
  <2>1. k \in 0 .. n /\ k # 0
    BY <1>2
  <2>2. Sizes[list[k]] = s[k]
    BY <1>1, <1>2 DEF Sizes
  <2>3. QED
    BY <1>6, <2>1, <2>2
<1>8. QED
  <2>1. IsSums(A, list)
    BY <1>3, <1>4, <1>6, <1>7 DEF n, IsSums
  <2>2. QED
    BY <2>1

\* and when they start at the end of the code they continue the row.
LEMMA RowJoin ==
  ASSUME NEW size \in [Emitted -> Nat], NEW c, InRow(c, size),
         NEW m \in Nat, NEW p \in Seq(PlacedIns), Len(p) = m,
         NEW T, T = Top(c, size), NEW A, A[0] = 0, \A k \in 0 .. m : A[k] \in Nat,
         Follow(p, T, A, size)
  PROVE  InRow(c \o p, size) /\ Top(c \o p, size) = T + A[m]
<1>1. c \in Seq(PlacedIns) /\ Len(c) \in Nat /\ T \in Nat
  <2>1. T \in Nat
    BY TopTyped
  <2>2. c \in Seq(PlacedIns)
    BY DEF InRow
  <2>3. QED
    BY <2>1, <2>2
<1>2. PICK n \in Nat : n = Len(c)
  BY <1>1
<1>3. PICK d : d = c \o p
  OBVIOUS
<1>4. d \in Seq(PlacedIns) /\ Len(d) = n + m
  <2>1. d \in Seq(PlacedIns)
    BY <1>1, <1>3, Joining
  <2>2. Len(c \o p) = Len(c) + Len(p)
    BY <1>1, ConcatProperties
  <2>3. QED
    BY <1>2, <1>3, <2>1, <2>2
<1>5. \A i \in 1 .. n : d[i] = c[i]
  BY <1>1, <1>2, <1>3
<1>6. \A i \in 1 .. m : d[n + i] = p[i]
  BY <1>1, <1>2, <1>3
<1>7. \A i \in 1 .. n : c[i].at = IF i = 1 THEN TextStart ELSE c[i - 1].at + size[c[i - 1].ins]
  BY <1>2 DEF InRow
<1>8. T = IF n = 0 THEN TextStart ELSE c[n].at + size[c[n].ins]
  BY <1>1, <1>2 DEF Top
<1>9. ASSUME NEW i \in 1 .. Len(d)
      PROVE  d[i].at = IF i = 1 THEN TextStart ELSE d[i - 1].at + size[d[i - 1].ins]
  <2>1. CASE i <= n
    <3>1. i \in 1 .. n /\ (i # 1 => i - 1 \in 1 .. n)
      BY <1>2, <1>4, <2>1
    <3>2. d[i] = c[i] /\ (i # 1 => d[i - 1] = c[i - 1])
      BY <1>5, <3>1
    <3>3. QED
      BY <1>7, <3>1, <3>2
  <2>2. CASE i = n + 1
    <3>1. 1 \in 1 .. m
      BY <1>2, <1>4, <2>2
    <3>2. d[i] = p[1]
      BY <1>6, <2>2, <3>1
    <3>3. p[1].at = T
      BY <1>1, <3>1 DEF Follow
    <3>4. CASE n = 0
      BY <1>8, <2>2, <3>2, <3>3, <3>4
    <3>5. CASE n # 0
      <4>1. i # 1 /\ i - 1 = n /\ n \in 1 .. n
        BY <1>2, <2>2, <3>5
      <4>2. d[i - 1] = c[n]
        BY <1>5, <4>1
      <4>3. QED
        BY <1>8, <3>2, <3>3, <3>5, <4>1, <4>2
    <3>6. QED
      BY <3>4, <3>5
  <2>3. CASE i > n + 1
    <3>0. i - n \in 2 .. m
      BY <1>2, <1>4, <2>3
    <3>1. PICK j \in 2 .. m : j = i - n
      BY <3>0
    <3>2. j \in 1 .. m /\ j - 1 \in 1 .. m /\ i = n + j /\ i - 1 = n + (j - 1) /\ i # 1
      BY <1>2, <1>4, <2>3, <3>1
    <3>3. d[i] = p[j] /\ d[i - 1] = p[j - 1]
      BY <1>6, <3>2
    <3>4. /\ p[j].at = T + A[j - 1]
          /\ p[j - 1].at = T + A[(j - 1) - 1]
          /\ A[j - 1] = A[(j - 1) - 1] + size[p[j - 1].ins]
      BY <3>2 DEF Follow
    <3>5. A[(j - 1) - 1] \in Nat /\ p[j - 1].ins \in Emitted
      <4>1. (j - 1) - 1 \in 0 .. m
        BY <3>2
      <4>2. p[j - 1] \in PlacedIns
        BY <3>2
      <4>3. QED
        BY <4>1, <4>2 DEF PlacedIns
    <3>6. size[p[j - 1].ins] \in Nat
      BY <3>5
    <3>7. p[j].at = p[j - 1].at + size[p[j - 1].ins]
      BY <1>1, <3>4, <3>5, <3>6
    <3>8. QED
      BY <3>2, <3>3, <3>7
  <2>4. i <= n \/ i = n + 1 \/ i > n + 1
    BY <1>2, <1>4
  <2>5. QED
    BY <2>1, <2>2, <2>3, <2>4
<1>10. InRow(d, size)
  BY <1>4, <1>9 DEF InRow
<1>11. CASE m = 0
  <2>1. d = c
    BY <1>1, <1>3, <1>11
  <2>2. QED
    BY <1>1, <1>3, <1>10, <1>11, <2>1
<1>12. CASE m # 0
  <2>1. d # <<>> /\ m \in 1 .. m
    BY <1>2, <1>4, <1>12
  <2>2. d[Len(d)] = p[m] /\ p[m].at = T + A[m - 1] /\ A[m] = A[m - 1] + size[p[m].ins]
    BY <1>4, <1>6, <2>1 DEF Follow
  <2>3. A[m - 1] \in Nat /\ p[m].ins \in Emitted
    <3>1. m - 1 \in 0 .. m
      BY <1>12
    <3>2. p[m] \in PlacedIns
      BY <2>1
    <3>3. QED
      BY <3>1, <3>2 DEF PlacedIns
  <2>4. size[p[m].ins] \in Nat
    BY <2>3
  <2>5. Top(d, size) = p[m].at + size[p[m].ins]
    BY <2>1, <2>2 DEF Top
  <2>6. QED
    BY <1>1, <1>3, <1>10, <2>2, <2>3, <2>4, <2>5
<1>13. QED
  BY <1>11, <1>12

\* Emitting a list of instructions keeps the code in a row, and longer by the list.
LEMMA RowGrows ==
  ASSUME NEW c, InRow(c, Sizes), NEW list \in Seq(Emitted)
  PROVE  LET d == c \o PlacedFrom(list, Top(c, Sizes))
         IN InRow(d, Sizes) /\ Top(d, Sizes) = Top(c, Sizes) + LengthOf(list)
<1>1. PICK T \in Nat : T = Top(c, Sizes)
  BY SizesTyped, TopTyped
<1>2. PICK A : IsSums(A, list)
  BY RowSums
<1>3. PICK m \in Nat : m = Len(list)
  OBVIOUS
<1>4. PICK p : p = PlacedFrom(list, T)
  OBVIOUS
<1>5. p = [i \in 1 .. m |-> [ins |-> list[i], at |-> T + A[i - 1]]]
  BY <1>2, <1>3, <1>4 DEF IsSums
<1>6. ASSUME NEW i \in 1 .. m
      PROVE  /\ p[i] \in PlacedIns /\ p[i].at = T + A[i - 1]
             /\ A[i] = A[i - 1] + Sizes[p[i].ins]
  <2>1. i - 1 \in 0 .. m /\ list[i] \in Emitted
    BY <1>3
  <2>2. A[i - 1] \in Nat
    BY <1>2, <1>3, <2>1 DEF IsSums
  <2>3. T + A[i - 1] \in Nat
    BY <2>2
  <2>4. QED
    BY <1>2, <1>3, <1>5, <2>1, <2>3 DEF PlacedIns, IsSums
<1>7. p = [i \in 1 .. m |-> p[i]]
  BY <1>5
<1>8. p \in Seq(PlacedIns) /\ Len(p) = m
  BY <1>6, <1>7
<1>9. InRow(c \o p, Sizes) /\ Top(c \o p, Sizes) = T + A[m]
  <2>1. A[0] = 0 /\ \A k \in 0 .. m : A[k] \in Nat
    BY <1>2, <1>3 DEF IsSums
  <2>2. Follow(p, T, A, Sizes)
    BY <1>6, <1>8 DEF Follow
  <2>3. QED
    BY <1>1, <1>3, <1>8, <2>1, <2>2, RowJoin, SizesTyped
<1>10. QED
  BY <1>1, <1>2, <1>3, <1>4, <1>9 DEF IsSums

\* A part of a list at its start is not longer than the list.
LEMMA PrefixLength ==
  ASSUME NEW a \in Seq(Emitted), NEW b \in Seq(Emitted)
  PROVE  LengthOf(a) <= LengthOf(a \o b)
<1>1. PICK d : d = a \o b
  OBVIOUS
<1>2. /\ d \in Seq(Emitted) /\ Len(d) = Len(a) + Len(b) /\ Len(a) \in Nat /\ Len(b) \in Nat
      /\ \A i \in 1 .. Len(a) : d[i] = a[i]
  BY <1>1, ConcatProperties
<1>3. PICK A : IsSums(A, a)
  BY RowSums
<1>4. PICK B : IsSums(B, d)
  BY <1>2, RowSums
<1>5. PICK n \in Nat : n = Len(a)
  BY <1>2
<1>6. PICK m \in Nat : m = Len(d)
  BY <1>2
<1>7. n <= m
  BY <1>2, <1>5, <1>6
<1> DEFINE P == {k \in Nat : k <= n => A[k] = B[k]}
           Q == {k \in Nat : n + k <= m => B[n] <= B[n + k]}
<1>8. 0 \in P
  BY <1>3, <1>4 DEF IsSums
<1>9. ASSUME NEW k \in P PROVE k + 1 \in P
  <2>1. SUFFICES ASSUME k + 1 <= n PROVE A[k + 1] = B[k + 1]
    OBVIOUS
  <2>2. A[k] = B[k] /\ k + 1 \in 1 .. n /\ k + 1 \in 1 .. m /\ (k + 1) - 1 = k
    BY <1>5, <1>7, <2>1
  <2>3. A[k + 1] = A[k] + Sizes[a[k + 1]]
    BY <1>3, <1>5, <2>2 DEF IsSums
  <2>4. B[k + 1] = B[k] + Sizes[d[k + 1]]
    BY <1>4, <1>6, <2>2 DEF IsSums
  <2>5. d[k + 1] = a[k + 1]
    BY <1>2, <1>5, <2>2
  <2>6. QED
    BY <2>2, <2>3, <2>4, <2>5
<1>10. 0 \in Q
  <2>1. n \in 0 .. m
    BY <1>7
  <2>2. B[n] \in Nat
    BY <1>4, <1>6, <2>1 DEF IsSums
  <2>3. QED
    BY <2>2
<1>11. ASSUME NEW k \in Q PROVE k + 1 \in Q
  <2>1. SUFFICES ASSUME n + (k + 1) <= m PROVE B[n] <= B[n + (k + 1)]
    OBVIOUS
  <2>2. PICK j \in Nat : j = n + k
    BY <1>5
  <2>3. /\ j + 1 \in 1 .. m /\ (j + 1) - 1 = j /\ j \in 0 .. m /\ n + (k + 1) = j + 1 /\ n \in 0 .. m
        /\ n + k <= m
    BY <1>5, <1>6, <1>7, <2>1, <2>2
  <2>4. B[j + 1] = B[j] + Sizes[d[j + 1]]
    BY <1>4, <1>6, <2>3 DEF IsSums
  <2>5. Sizes[d[j + 1]] \in Nat
    BY <1>2, <1>6, <2>3, SizesTyped
  <2>6. B[n] \in Nat /\ B[j] \in Nat
    BY <1>4, <1>6, <2>3 DEF IsSums
  <2>7. B[n] <= B[j]
    BY <2>2, <2>3
  <2>8. B[n] <= B[j + 1]
    BY <2>4, <2>5, <2>6, <2>7
  <2>9. QED
    BY <2>3, <2>8
<1> HIDE DEF P, Q
<1>12. P = Nat /\ Q = Nat
  <2>1. P \in SUBSET Nat /\ Q \in SUBSET Nat
    BY DEF P, Q
  <2>2. P = Nat
    BY <1>8, <1>9, <2>1, EveryNat
  <2>3. Q = Nat
    BY <1>10, <1>11, <2>1, EveryNat
  <2>4. QED
    BY <2>2, <2>3
<1>13. A[n] = B[n]
  BY <1>12 DEF P
<1>14. B[n] <= B[m]
  <2>1. m - n \in Nat /\ n + (m - n) = m
    BY <1>7
  <2>2. m - n \in Q
    BY <1>12, <2>1
  <2>3. QED
    BY <2>1, <2>2 DEF Q
<1>15. LengthOf(a) = A[n] /\ LengthOf(d) = B[m]
  BY <1>3, <1>4, <1>5, <1>6 DEF IsSums
<1>16. QED
  BY <1>1, <1>13, <1>14, <1>15

\* The code of several IL instructions starts with that of the first.
LEMMA FirstOfThree ==
  ASSUME NEW S, NEW a \in Seq(S), NEW b \in Seq(S), NEW c \in Seq(S)
  PROVE  \E rest \in Seq(S) : FlattenSeq(<<a, b, c>>) = a \o rest
<1>1. PICK s : s = <<a, b, c>>
  OBVIOUS
<1>2. s = [i \in 1 .. 3 |-> s[i]] /\ s[1] = a /\ s[2] = b /\ s[3] = c
  BY <1>1
<1>3. \A i \in 1 .. 3 : s[i] \in Seq(S)
  BY <1>2
<1>4. FlattenSeq(s) = Flat(s, 3)
  BY <1>2 DEF Flat
<1>5. Flat(s, 0) = <<>>
  BY FlatIs
<1>6. Flat(s, 1) = Cat(Flat(s, 0), s[1])
  <2>1. \A i \in 1 .. (0 + 1) : s[i] \in Seq(S)
    BY <1>3
  <2>2. Flat(s, 0 + 1) = Cat(Flat(s, 0), s[0 + 1])
    BY <2>1, FlatStep
  <2>3. QED
    BY <2>2
<1>7. Flat(s, 2) = Cat(Flat(s, 1), s[2])
  <2>1. \A i \in 1 .. (1 + 1) : s[i] \in Seq(S)
    BY <1>3
  <2>2. Flat(s, 1 + 1) = Cat(Flat(s, 1), s[1 + 1])
    BY <2>1, FlatStep
  <2>3. QED
    BY <2>2
<1>8. Flat(s, 3) = Cat(Flat(s, 2), s[3])
  <2>1. \A i \in 1 .. (2 + 1) : s[i] \in Seq(S)
    BY <1>3
  <2>2. Flat(s, 2 + 1) = Cat(Flat(s, 2), s[2 + 1])
    BY <2>1, FlatStep
  <2>3. QED
    BY <2>2
<1>9. Flat(s, 1) = a
  BY <1>2, <1>5, <1>6, ConcatEmptySeq DEF Cat
<1>10. Flat(s, 3) = (a \o b) \o c
  BY <1>2, <1>7, <1>8, <1>9 DEF Cat
<1>11. (a \o b) \o c = a \o (b \o c)
  BY ConcatAssociative
<1>12. b \o c \in Seq(S)
  BY ConcatProperties
<1>13. QED
  BY <1>1, <1>4, <1>10, <1>11, <1>12

\* What is emitted follows what is there.
LEMMA Emitting ==
  ASSUME InRow(code, Sizes), NEW lists \in Seq(Seq(Emitted)), NEW ils0,
         EmitAll(ils0, lists)
  PROVE  InRow(code', Sizes) /\ Top(code', Sizes) = Text + LengthOf(FlattenSeq(lists))
<1>1. PICK list : list = FlattenSeq(lists)
  OBVIOUS
<1>2. list \in Seq(Emitted)
  BY <1>1, FlattenTyped
<1>3. Text = Top(code, Sizes)
  BY TextIsTop
<1>4. code' = code \o PlacedFrom(list, Text)
  BY <1>1 DEF EmitAll
<1>5. QED
  BY <1>1, <1>2, <1>3, <1>4, RowGrows

\* An instruction is as long with an address as with a name.
SameShape(ins, jns) ==
  /\ ins.op = jns.op /\ ins.jump = jns.jump
  /\ Len(ins.args) = Len(jns.args)
  /\ \A i \in 1 .. Len(ins.args) :
       ins.args[i].mode = jns.args[i].mode /\ ins.args[i].conv = jns.args[i].conv

\* Instructions that differ in addresses only have the same length.
LEMMA SameLength ==
  ASSUME NEW ins, NEW jns, SameShape(ins, jns)
  PROVE  GetLength(ins) = GetLength(jns)
<1>1. LengthOfHeader(ins) = LengthOfHeader(jns)
  BY DEF SameShape, LengthOfHeader, LengthOfHeaderI0, LengthOfHeaderDisa, IsArithmetic,
     IsTest, IsCompare
<1>2. [i \in 1 .. Len(ins.args) |-> OperandLength(ins, ins.args[i])]
        = [i \in 1 .. Len(jns.args) |-> OperandLength(jns, jns.args[i])]
  <2>1. ASSUME NEW i \in 1 .. Len(ins.args)
        PROVE  OperandLength(ins, ins.args[i]) = OperandLength(jns, jns.args[i])
    BY DEF SameShape, OperandLength, ImmediateLength, ConvBytes
  <2>2. Len(ins.args) = Len(jns.args)
    BY DEF SameShape
  <2>3. QED
    BY <2>1, <2>2
<1>3. QED
  BY <1>1, <1>2 DEF GetLength

-----------------------------------------------------------------------------
(* The invariant                                                           *)

Phases == {"compile", "crt", "generate", "resolve", "failed", "aborted", "encode", "file"}
PlacedBytes == [from : Nat, bytes : Nat, next : Nat]
Addresses(a, top) ==
  \A k \in DOMAIN a : a[k] \in Nat /\ IF Len(k) = 2 THEN a[k] <= top ELSE a[k] < TextStart
Clean(ins) == \A j \in 1 .. Len(ins.args) :
                ins.args[j].ref = <<>> /\ ins.args[j].addr # Placeholder
CleanUpTo(c, n) == \A i \in 1 .. n : Clean(c[i].ins)
SideBySide(p, c, size, written) ==
  /\ p \in Seq(PlacedBytes) /\ Len(p) <= Len(c)
  /\ \A i \in 1 .. Len(p) : /\ TextStart + p[i].from = c[i].at
                            /\ p[i].next = p[i].from + size[c[i].ins]
                            /\ p[i].bytes = written[c[i].ins]

InPhase == src \in Units /\ phase \in Phases
InCompile == phase = "compile" =>
  /\ OptimizerInv /\ Compiling(src.layout)
  /\ target = "none" /\ code = <<>> /\ address = <<>>
InProgram == phase # "file" =>
  program \in Seq(Seq(Good(src.layout))) /\ Len(program) = Len(src.bodies)
InTarget == phase # "compile" => target \in Targets /\ layout = src.layout
InText == InRow(code, Sizes)
InAddress == Addresses(address, Top(code, Sizes))
InCount == count \in 0 .. Len(code) /\ (phase \in {"compile", "crt", "generate", "aborted"} => count = 0)
InPlaced == /\ SideBySide(placed, code, Sizes, Written)
            /\ Len(placed) = IF phase = "encode" THEN count
                             ELSE IF phase = "file" THEN Len(code) ELSE 0
InClean == /\ phase \in {"resolve", "failed"} => CleanUpTo(code, count)
           /\ phase \in {"encode", "file"} => CleanUpTo(code, Len(code))

AssemblerInv == /\ InPhase /\ InCompile /\ InProgram /\ InTarget /\ InText
                /\ InAddress /\ InCount /\ InPlaced /\ InClean

\* Code that differs in addresses only has the same length.
LEMMA SameLengths ==
  ASSUME NEW c, NEW d, Len(c) \in Nat, Len(c) = Len(d),
         \A i \in 1 .. Len(c) : SameShape(c[i], d[i])
  PROVE  LengthOf(c) = LengthOf(d)
<1>1. \A i \in 1 .. Len(c) : GetLength(c[i]) = GetLength(d[i])
  BY SameLength
<1>2. Lengths(c) = Lengths(d)
  BY <1>1 DEF Lengths
<1>3. QED
  BY <1>2 DEF LengthOf

\* Code has the shape it has.
LEMMA ShapeOfSelf == \A ins : SameShape(ins, ins)
BY DEF SameShape

\* A branch or a CONV has the same shape whatever its address or number is.
LEMMA OnePlaceChanged ==
  ASSUME NEW op, NEW jump, NEW mode, NEW conv, NEW x, NEW y, NEW a, NEW b
  PROVE  /\ SameShape(Jump0(jump, <<a, b, Direct(x)>>), Jump0(jump, <<a, b, Direct(y)>>))
         /\ SameShape(Jump0(jump, <<Direct(x)>>), Jump0(jump, <<Direct(y)>>))
         /\ SameShape(CONV(Immediate(x), a), CONV(Immediate(y), a))
<1>1. /\ Direct(x).mode = Direct(y).mode /\ Direct(x).conv = Direct(y).conv
      /\ Immediate(x).mode = Immediate(y).mode /\ Immediate(x).conv = Immediate(y).conv
  BY DEF Direct, Immediate, Opnd
<1> DEFINE dx == Direct(x)
           dy == Direct(y)
           ix == Immediate(x)
           iy == Immediate(y)
<1>2. dx.mode = dy.mode /\ dx.conv = dy.conv /\ ix.mode = iy.mode /\ ix.conv = iy.conv
  BY <1>1
<1> HIDE DEF dx, dy, ix, iy
<1>3. SameShape(Jump0(jump, <<a, b, dx>>), Jump0(jump, <<a, b, dy>>))
  BY <1>2 DEF SameShape, Jump0
<1>4. SameShape(Jump0(jump, <<dx>>), Jump0(jump, <<dy>>))
  BY <1>2 DEF SameShape, Jump0
<1>5. SameShape(CONV(ix, a), CONV(iy, a))
  BY <1>2 DEF SameShape, CONV, Ins
<1>6. QED
  BY <1>3, <1>4, <1>5 DEF dx, dy, ix, iy

\* Code of the same shape, piece by piece.
SameShapes(c, d) == /\ Len(c) \in Nat /\ Len(c) = Len(d)
                    /\ \A i \in 1 .. Len(c) : SameShape(c[i], d[i])

LEMMA ShapesJoin ==
  ASSUME NEW S, NEW b \in Seq(S), NEW c \in Seq(S), NEW d \in Seq(S), NEW e \in Seq(S),
         SameShapes(b, c), SameShapes(d, e)
  PROVE  SameShapes(b \o d, c \o e)
<1> DEFINE m == Len(b)
           n == Len(d)
<1>1. m \in Nat /\ n \in Nat /\ Len(c) = m /\ Len(e) = n
  BY DEF SameShapes
<1>2. /\ Len(b \o d) = m + n
      /\ \A i \in 1 .. m + n : (b \o d)[i] = IF i <= m THEN b[i] ELSE d[i - m]
  BY ConcatProperties
<1>3. /\ Len(c \o e) = m + n
      /\ \A i \in 1 .. m + n : (c \o e)[i] = IF i <= m THEN c[i] ELSE e[i - m]
  BY <1>1, ConcatProperties
<1>4. /\ \A i \in 1 .. m : SameShape(b[i], c[i])
      /\ \A i \in 1 .. n : SameShape(d[i], e[i])
  BY DEF SameShapes
<1> HIDE DEF m, n
<1>5. ASSUME NEW i \in 1 .. m + n
      PROVE  SameShape((b \o d)[i], (c \o e)[i])
  <2>1. CASE i <= m
    <3>1. i \in 1 .. m
      BY <1>1, <2>1
    <3>2. QED
      BY <1>2, <1>3, <1>4, <2>1, <3>1
  <2>2. CASE ~(i <= m)
    <3>1. i - m \in 1 .. n
      BY <1>1, <2>2
    <3>2. QED
      BY <1>2, <1>3, <1>4, <2>2, <3>1
  <2>3. QED
    BY <2>1, <2>2
<1>6. m + n \in Nat
  BY <1>1
<1>7. QED
  BY <1>2, <1>3, <1>5, <1>6 DEF SameShapes

LEMMA ShapesOfSelf ==
  ASSUME NEW S, NEW c \in Seq(S)
  PROVE  SameShapes(c, c)
BY ShapeOfSelf DEF SameShapes

LEMMA ShapeOfOne ==
  ASSUME NEW ins, NEW jns, SameShape(ins, jns)
  PROVE  SameShapes(<<ins>>, <<jns>>)
<1>1. /\ Len(<<ins>>) = 1 /\ Len(<<jns>>) = 1 /\ <<ins>>[1] = ins /\ <<jns>>[1] = jns
  OBVIOUS
<1>2. \A i \in 1 .. 1 : i = 1
  OBVIOUS
<1> DEFINE c == <<ins>>
           d == <<jns>>
<1>3. Len(c) = 1 /\ Len(d) = 1 /\ c[1] = ins /\ d[1] = jns
  BY <1>1
<1> HIDE DEF c, d
<1>4. SameShapes(c, d)
  BY <1>2, <1>3 DEF SameShapes
<1>5. QED
  BY <1>4 DEF c, d

\* The front of some code and the instruction at its end.
LEMMA PartsOfJoin ==
  ASSUME NEW S, NEW c \in Seq(S), NEW d \in Seq(S)
  PROVE  /\ Len(c \o d) = Len(c) + Len(d)
         /\ SubSeq(c \o d, 1, Len(c)) = c
         /\ \A i \in 1 .. Len(c) : (c \o d)[i] = c[i]
<1>1. /\ Len(c \o d) = Len(c) + Len(d) /\ c \o d \in Seq(S)
      /\ \A i \in 1 .. Len(c) + Len(d) : (c \o d)[i] = IF i <= Len(c) THEN c[i] ELSE d[i - Len(c)]
  BY ConcatProperties
<1>2. Len(c) \in Nat /\ Len(d) \in Nat /\ Len(c) <= Len(c) + Len(d)
  OBVIOUS
<1>3. \A i \in 1 .. Len(c) : (c \o d)[i] = c[i]
  BY <1>1, <1>2
<1> DEFINE both == c \o d
<1>4. both \in Seq(S) /\ Len(c) <= Len(both) /\ \A i \in 1 .. Len(c) : both[i] = c[i]
  BY <1>1, <1>2, <1>3
<1> HIDE DEF both
<1>5. SubSeq(both, 1, Len(c)) = c
  BY <1>2, <1>4
<1>6. QED
  BY <1>1, <1>3, <1>5 DEF both

LEMMA LastOne ==
  ASSUME NEW S, NEW c \in Seq(S), NEW ins \in S
  PROVE  /\ Len(c \o <<ins>>) = Len(c) + 1 /\ c \o <<ins>> \in Seq(S)
         /\ (c \o <<ins>>)[Len(c) + 1] = ins
OBVIOUS

\* GenerateComparison patches the addresses of two branches after it has measured the
\* code: the first one goes to where the result is set a second time, the second one
\* behind it all.  What sets the result has as many instructions both times: one, and
\* one more if the result has to be located first.
THEOREM LabelsOfComparison ==
  ASSUME LayoutOK, NEW il, Ready(il), il.op \in Comparison,
         NEW mode \in {"L", "LE", "E", "NE"}, NEW value \in BOOLEAN, NEW a0 \in Nat
  PROVE  LET code0 == GenerateComparison(il, mode, value, a0)
             n == Len(code0)
             m == Len(Before(il.args[1])) + 1
         IN /\ n - 2 * m - 1 \in 1 .. n /\ n - m \in 1 .. n
            /\ code0[n - 2 * m - 1].args[3].addr = a0 + LengthOf(SubSeq(code0, 1, n - m))
            /\ code0[n - m].args[1].addr = a0 + LengthOf(code0)
<1> DEFINE Up(TL, EL) == UpToTrue(il, mode, value, TL, EL)
           All(TL, EL) == WholeCompare(il, mode, value, TL, EL)
           begin == ToCompare(il)
           br(TL) == Compared(il, mode, TL)
           no == SetTo(il, IF value THEN 0 ELSE 1)
           yes == SetTo(il, IF value THEN 1 ELSE 0)
           TL0 == TrueLabel(Up(0, 0), a0)
           EL0 == a0 + LengthOf(All(0, 0))
           k == Len(begin)
           m == Len(Before(il.args[1])) + 1
<1>1. begin \in Seq(Emitted) /\ no \in Seq(Emitted) /\ yes \in Seq(Emitted)
  BY ComparisonParts
<1>2. \A L \in Nat : br(L) \in Emitted /\ Over(L) \in Emitted
  BY ComparisonParts
<1>3. Len(no) = m /\ Len(yes) = m /\ m \in Nat /\ k \in Nat /\ m >= 1
  <2>1. ValueOpnd(il.args[1])
    <3>1. Len(il.args) = 3
      BY ReadyArgs DEF WellFormed
    <3>2. QED
      BY <3>1, ReadyValues DEF Comparison, ConditionalBranch, CompareBranch
  <2>2. Before(il.args[1]) \in Seq(Emitted) /\ Operand0(il.args[1]) \in Opnds
    BY <2>1, BeforeTyped, Operand0Typed
  <2>3. ASSUME NEW v \in {0, 1}
        PROVE  Len(SetTo(il, v)) = m
    <3> DEFINE set == CONV(Immediate(v), Operand0(il.args[1]))
    <3>1. set \in Emitted
      BY <2>2, ImmediateTyped, ConvEmitted DEF Placeholder
    <3> HIDE DEF set
    <3>2. Len(Before(il.args[1]) \o <<set>>) = m
      BY <2>2, <3>1, LastOne
    <3>3. QED
      BY <3>2 DEF SetTo, set
  <2>4. QED
    BY <1>1, <2>2, <2>3
<1>4. ASSUME NEW TL \in Nat, NEW EL \in Nat
      PROVE  /\ Up(TL, EL) = ((begin \o <<br(TL)>>) \o no) \o <<Over(EL)>>
             /\ All(TL, EL) = Up(TL, EL) \o yes
  BY DEF UpToTrue, WholeCompare
<1>5. ASSUME NEW TL \in Nat, NEW EL \in Nat
      PROVE  /\ Up(TL, EL) \in Seq(Emitted) /\ All(TL, EL) \in Seq(Emitted)
             /\ Len(Up(TL, EL)) = k + 1 + m + 1 /\ Len(All(TL, EL)) = k + 1 + m + 1 + m
             /\ SubSeq(All(TL, EL), 1, k + 1 + m + 1) = Up(TL, EL)
             /\ All(TL, EL)[k + 1] = br(TL) /\ All(TL, EL)[k + 1 + m + 1] = Over(EL)
  <2> DEFINE up1 == begin \o <<br(TL)>>
             up2 == up1 \o no
             up3 == up2 \o <<Over(EL)>>
             up4 == up3 \o yes
  <2>1. br(TL) \in Emitted /\ Over(EL) \in Emitted
    BY <1>2
  <2> HIDE DEF br, no, yes, begin, k, m
  <2>2. up1 \in Seq(Emitted) /\ Len(up1) = k + 1 /\ up1[k + 1] = br(TL)
    BY <1>1, <2>1, LastOne DEF k
  <2> HIDE DEF up1
  <2>3. up2 \in Seq(Emitted) /\ Len(up2) = k + 1 + m /\ up2[k + 1] = br(TL)
    <3>1. /\ Len(up1 \o no) = Len(up1) + Len(no)
          /\ \A i \in 1 .. Len(up1) : (up1 \o no)[i] = up1[i]
      BY <1>1, <2>2, PartsOfJoin
    <3>2. k + 1 \in 1 .. Len(up1)
      BY <1>3, <2>2
    <3>3. up1 \o no \in Seq(Emitted)
      BY <1>1, <2>2, Joining
    <3>4. QED
      BY <1>3, <2>2, <3>1, <3>2, <3>3
  <2> HIDE DEF up2
  <2>4. /\ up3 \in Seq(Emitted) /\ Len(up3) = k + 1 + m + 1 /\ up3[k + 1] = br(TL)
        /\ up3[k + 1 + m + 1] = Over(EL)
    <3>1. <<Over(EL)>> \in Seq(Emitted)
      BY <2>1, Ones
    <3>2. up3[k + 1] = br(TL)
      BY <1>3, <2>3, <3>1, PartsOfJoin
    <3>3. QED
      BY <1>3, <2>1, <2>3, <3>2, LastOne
  <2> HIDE DEF up3
  <2>5. /\ up4 \in Seq(Emitted) /\ Len(up4) = k + 1 + m + 1 + m
        /\ SubSeq(up4, 1, k + 1 + m + 1) = up3
        /\ up4[k + 1] = up3[k + 1] /\ up4[k + 1 + m + 1] = up3[k + 1 + m + 1]
    <3>1. /\ Len(up3 \o yes) = Len(up3) + Len(yes)
          /\ SubSeq(up3 \o yes, 1, Len(up3)) = up3
          /\ \A i \in 1 .. Len(up3) : (up3 \o yes)[i] = up3[i]
      BY <1>1, <2>4, PartsOfJoin
    <3>2. k + 1 \in 1 .. Len(up3) /\ k + 1 + m + 1 \in 1 .. Len(up3)
      BY <1>3, <2>4
    <3>3. up3 \o yes \in Seq(Emitted)
      BY <1>1, <2>4, Joining
    <3>4. up4 = up3 \o yes
      OBVIOUS
    <3> HIDE DEF up4
    <3>5. QED
      BY <1>3, <2>4, <3>1, <3>2, <3>3, <3>4
  <2>6. Up(TL, EL) = up3
    BY <1>4 DEF up3, up2, up1
  <2>7. All(TL, EL) = up4
    BY <1>4, <2>6
  <2> HIDE DEF up4, Up, All
  <2>8. QED
    BY <2>4, <2>5, <2>6, <2>7
<1>6. TL0 \in Nat /\ EL0 \in Nat
  <2>1. Up(0, 0) \in Seq(Emitted) /\ All(0, 0) \in Seq(Emitted)
    BY <1>5
  <2> HIDE DEF Up, All
  <2>2. QED
    BY <2>1, AddressKnown DEF TrueLabel
<1> HIDE DEF TL0, EL0
<1>7. /\ LengthOf(Up(TL0, EL0)) = LengthOf(Up(0, 0))
      /\ LengthOf(All(TL0, EL0)) = LengthOf(All(0, 0))
  <2>1. SameShape(br(TL0), br(0)) /\ SameShape(Over(EL0), Over(0))
    BY OnePlaceChanged, Zenon DEF Compared, Over
  <2>2. br(TL0) \in Emitted /\ br(0) \in Emitted /\ Over(EL0) \in Emitted /\ Over(0) \in Emitted
    BY <1>2, <1>6
  <2>3. /\ Up(TL0, EL0) = ((begin \o <<br(TL0)>>) \o no) \o <<Over(EL0)>>
        /\ Up(0, 0) = ((begin \o <<br(0)>>) \o no) \o <<Over(0)>>
        /\ All(TL0, EL0) = Up(TL0, EL0) \o yes /\ All(0, 0) = Up(0, 0) \o yes
    BY <1>4, <1>6
  <2> DEFINE b1 == br(TL0)
             b0 == br(0)
             o1 == Over(EL0)
             o0 == Over(0)
  <2>4. b1 \in Emitted /\ b0 \in Emitted /\ o1 \in Emitted /\ o0 \in Emitted
    BY <2>2
  <2>5. SameShapes(<<b1>>, <<b0>>) /\ SameShapes(<<o1>>, <<o0>>)
    BY <2>1, ShapeOfOne
  <2> HIDE DEF br, no, yes, begin, b1, b0, o1, o0
  <2>6. SameShapes(begin, begin) /\ SameShapes(no, no) /\ SameShapes(yes, yes)
    BY <1>1, ShapesOfSelf
  <2>7. /\ <<b1>> \in Seq(Emitted) /\ <<b0>> \in Seq(Emitted)
        /\ <<o1>> \in Seq(Emitted) /\ <<o0>> \in Seq(Emitted)
    BY <2>4, Ones
  <2>8. /\ SameShapes(begin \o <<b1>>, begin \o <<b0>>)
        /\ begin \o <<b1>> \in Seq(Emitted) /\ begin \o <<b0>> \in Seq(Emitted)
    BY <1>1, <2>5, <2>6, <2>7, ShapesJoin, Joining
  <2>9. /\ SameShapes((begin \o <<b1>>) \o no, (begin \o <<b0>>) \o no)
        /\ (begin \o <<b1>>) \o no \in Seq(Emitted) /\ (begin \o <<b0>>) \o no \in Seq(Emitted)
    BY <1>1, <2>6, <2>8, ShapesJoin, Joining
  <2>10. /\ SameShapes(((begin \o <<b1>>) \o no) \o <<o1>>, ((begin \o <<b0>>) \o no) \o <<o0>>)
         /\ ((begin \o <<b1>>) \o no) \o <<o1>> \in Seq(Emitted)
         /\ ((begin \o <<b0>>) \o no) \o <<o0>> \in Seq(Emitted)
    BY <2>5, <2>7, <2>9, ShapesJoin, Joining
  <2>11. /\ Up(TL0, EL0) = ((begin \o <<b1>>) \o no) \o <<o1>>
         /\ Up(0, 0) = ((begin \o <<b0>>) \o no) \o <<o0>>
    BY <2>3 DEF b1, b0, o1, o0
  <2> HIDE DEF Up, All
  <2>12. /\ SameShapes(Up(TL0, EL0), Up(0, 0))
         /\ Up(TL0, EL0) \in Seq(Emitted) /\ Up(0, 0) \in Seq(Emitted)
    BY <2>10, <2>11
  <2>13. SameShapes(All(TL0, EL0), All(0, 0))
    BY <1>1, <2>3, <2>6, <2>12, ShapesJoin
  <2>14. QED
    BY <2>12, <2>13, SameLengths DEF SameShapes
<1>8. GenerateComparison(il, mode, value, a0) = All(TL0, EL0)
  BY ComparisonIs DEF TL0, EL0
<1>9. /\ TL0 = a0 + LengthOf(Up(TL0, EL0)) /\ EL0 = a0 + LengthOf(All(TL0, EL0))
  BY <1>7 DEF TL0, EL0, TrueLabel
<1>10. br(TL0).args[3].addr = TL0 /\ Over(EL0).args[1].addr = EL0
  <2>1. Direct(TL0).addr = TL0 /\ Direct(EL0).addr = EL0
    BY DEF Direct, Opnd
  <2> DEFINE t == Direct(TL0)
             e == Direct(EL0)
  <2> HIDE DEF t, e
  <2>2. \A a, b : Jump0(mode, <<a, b, t>>).args[3] = t
    BY DEF Jump0
  <2>3. Jump0("J", <<e>>).args[1] = e
    BY DEF Jump0
  <2>4. QED
    BY <2>1, <2>2, <2>3 DEF Compared, Over, t, e
<1>11. /\ Len(All(TL0, EL0)) = k + 1 + m + 1 + m
       /\ SubSeq(All(TL0, EL0), 1, k + 1 + m + 1) = Up(TL0, EL0)
       /\ All(TL0, EL0)[k + 1] = br(TL0) /\ All(TL0, EL0)[k + 1 + m + 1] = Over(EL0)
  BY <1>5, <1>6
<1> HIDE DEF Up, All, br, k, m
<1> DEFINE n == k + 1 + m + 1 + m
<1>12. /\ n - 2 * m - 1 = k + 1 /\ n - m = k + 1 + m + 1
       /\ k + 1 \in 1 .. n /\ k + 1 + m + 1 \in 1 .. n
  BY <1>3
<1>13. /\ n - 2 * m - 1 \in 1 .. n /\ n - m \in 1 .. n
       /\ All(TL0, EL0)[n - 2 * m - 1].args[3].addr
            = a0 + LengthOf(SubSeq(All(TL0, EL0), 1, n - m))
       /\ All(TL0, EL0)[n - m].args[1].addr = a0 + LengthOf(All(TL0, EL0))
  BY <1>9, <1>10, <1>11, <1>12
<1>14. Len(All(TL0, EL0)) = n
  BY <1>11
<1> HIDE DEF n
<1>15. QED
  BY <1>8, <1>13, <1>14 DEF m

\* A number in the second instruction is patched: the length stays.
LEMMA SecondChanged ==
  ASSUME NEW S, NEW rest \in Seq(S), NEW p, NEW q, NEW r, NEW last, SameShape(q, r)
  PROVE  /\ LengthOf((<<p, q>> \o rest) \o <<last>>) = LengthOf((<<p, r>> \o rest) \o <<last>>)
         /\ ((<<p, q>> \o rest) \o <<last>>)[2] = q
<1> DEFINE T == S \cup {p, q, r, last}
           two(x) == <<p, x>>
           end == <<last>>
           k == Len(rest)
           all(x) == (two(x) \o rest) \o end
<1>1. k \in Nat /\ rest \in Seq(T) /\ end \in Seq(T) /\ Len(end) = 1
  OBVIOUS
<1>2. ASSUME NEW x \in {q, r}
      PROVE  two(x) \in Seq(T) /\ Len(two(x)) = 2 /\ two(x)[1] = p /\ two(x)[2] = x
  OBVIOUS
<1> HIDE DEF T, two, end
<1>3. ASSUME NEW x \in {q, r}
      PROVE  /\ Len(all(x)) = k + 3
             /\ all(x)[1] = p /\ all(x)[2] = x
             /\ \A i \in 3 .. k + 2 : all(x)[i] = rest[i - 2]
             /\ all(x)[k + 3] = end[1]
  <2> DEFINE mid == two(x) \o rest
  <2>1. two(x) \in Seq(T) /\ Len(two(x)) = 2
    BY <1>2
  <2>2. /\ mid \in Seq(T) /\ Len(mid) = Len(two(x)) + Len(rest)
        /\ \A i \in 1 .. Len(two(x)) + Len(rest) :
             mid[i] = IF i <= Len(two(x)) THEN two(x)[i] ELSE rest[i - Len(two(x))]
    BY <1>1, <2>1, ConcatProperties
  <2> HIDE DEF mid
  <2>3. /\ Len(mid \o end) = Len(mid) + Len(end)
        /\ \A i \in 1 .. Len(mid) + Len(end) :
             (mid \o end)[i] = IF i <= Len(mid) THEN mid[i] ELSE end[i - Len(mid)]
    <3>1. mid \in Seq(T) /\ end \in Seq(T)
      BY <1>1, <2>2, Zenon
    <3>2. QED
      BY <3>1, ConcatProperties
  <2>4. Len(mid) = k + 2 /\ \A i \in 1 .. k + 2 : mid[i] = IF i <= 2 THEN two(x)[i] ELSE rest[i - 2]
    BY <2>1, <2>2, <1>1
  <2> HIDE DEF k
  <2>5. Len(mid \o end) = k + 3
        /\ \A i \in 1 .. k + 3 : (mid \o end)[i] = IF i <= k + 2 THEN mid[i] ELSE end[i - (k + 2)]
    BY <1>1, <2>3, <2>4
  <2>6. /\ 1 \in 1 .. k + 3 /\ 1 \in 1 .. k + 2 /\ 2 \in 1 .. k + 3 /\ 2 \in 1 .. k + 2
        /\ 1 <= k + 2 /\ 2 <= k + 2 /\ k + 3 \in 1 .. k + 3
        /\ ~(k + 3 <= k + 2) /\ (k + 3) - (k + 2) = 1
        /\ \A i \in 3 .. k + 2 : i \in 1 .. k + 2 /\ i \in 1 .. k + 3 /\ i <= k + 2 /\ ~(i <= 2)
    BY <1>1
  <2>7. /\ (mid \o end)[1] = two(x)[1] /\ (mid \o end)[2] = two(x)[2]
        /\ (mid \o end)[k + 3] = end[1]
        /\ \A i \in 3 .. k + 2 : (mid \o end)[i] = rest[i - 2]
    BY <2>4, <2>5, <2>6
  <2>8. QED
    BY <1>2, <2>5, <2>7 DEF mid
<1> HIDE DEF all, k
<1>4. ASSUME NEW i \in 1 .. Len(all(q))
      PROVE  SameShape(all(q)[i], all(r)[i])
  <2>1. Len(all(q)) = k + 3
    BY <1>3
  <2>2. i = 1 \/ i = 2 \/ i \in 3 .. k + 2 \/ i = k + 3
    BY <1>1, <2>1
  <2>3. CASE i = 2
    BY <1>3, <2>3
  <2>4. CASE i = 1 \/ i \in 3 .. k + 2 \/ i = k + 3
    <3>1. all(q)[i] = all(r)[i]
      BY <1>3, <2>4
    <3>2. QED
      BY <3>1, ShapeOfSelf
  <2>5. QED
    BY <2>2, <2>3, <2>4
<1>5. Len(all(q)) \in Nat /\ Len(all(q)) = Len(all(r))
  BY <1>1, <1>3
<1>6. LengthOf(all(q)) = LengthOf(all(r))
  BY <1>4, <1>5, SameLengths
<1>7. QED
  BY <1>3, <1>6 DEF all, two, end

\* Visit(CallILOperand): the return address pushed is that of the instruction behind
\* the branch.
THEOREM ReturnsBehindCall ==
  ASSUME LayoutOK, NEW il, Ready(il), il.op = "Call", NEW a0 \in Nat
  PROVE  LET code0 == VisitCall(il, a0)
         IN code0[2] = CONV(Immediate(a0 + LengthOf(code0)),
                            BaseDisplacement(STACK_POINTER, 0, "Signed64"))
<1> DEFINE first == SUB(Direct(STACK_POINTER), Immediate(CallPushSize(il)), Direct(STACK_POINTER))
           Back(x) == CONV(Immediate(x), BaseDisplacement(STACK_POINTER, 0, "Signed64"))
           branch == Jump0("J", <<Target(il.args[1])>>)
           rest == Pushes(il)
           behind == a0 + LengthOf(CallCode(il, 0))
<1>1. rest \in Seq(Emitted)
  BY PushesTyped
<1>2. \A x : CallCode(il, x) = (<<first, Back(x)>> \o rest) \o <<branch>>
  BY DEF CallCode, Pushes
<1>3. VisitCall(il, a0) = CallCode(il, behind)
  BY DEF VisitCall
<1>4. SameShape(Back(behind), Back(0))
  BY OnePlaceChanged, Zenon
<1> HIDE DEF first, Back, branch, rest, behind
<1>5. /\ LengthOf(CallCode(il, behind)) = LengthOf(CallCode(il, 0))
      /\ CallCode(il, behind)[2] = Back(behind)
  <2>1. /\ LengthOf((<<first, Back(behind)>> \o rest) \o <<branch>>)
             = LengthOf((<<first, Back(0)>> \o rest) \o <<branch>>)
        /\ ((<<first, Back(behind)>> \o rest) \o <<branch>>)[2] = Back(behind)
    <3> DEFINE q == Back(behind)
               r == Back(0)
    <3>1. rest \in Seq(Emitted) /\ SameShape(q, r)
      BY <1>1, <1>4
    <3> HIDE DEF q, r
    <3>2. /\ LengthOf((<<first, q>> \o rest) \o <<branch>>)
               = LengthOf((<<first, r>> \o rest) \o <<branch>>)
          /\ ((<<first, q>> \o rest) \o <<branch>>)[2] = q
      BY <3>1, SecondChanged
    <3>3. QED
      BY <3>2 DEF q, r
  <2>2. QED
    BY <1>2, <2>1, Zenon
<1>6. behind = a0 + LengthOf(VisitCall(il, a0))
  BY <1>3, <1>5 DEF behind
<1>7. QED
  BY <1>3, <1>5, <1>6 DEF Back

\* GenerateNewr0: a new runner returns behind the code that starts it.
THEOREM ReturnsBehindNewr ==
  ASSUME NEW a0 \in Nat
  PROVE  LET code0 == GenerateNewr0(a0)
         IN code0[6] = CONV(Immediate(a0 + LengthOf(code0)),
                            Indirect(STACK_POINTER, "Signed64"))
<1> DEFINE Back(x) == CONV(Immediate(x), Indirect(STACK_POINTER, "Signed64"))
           behind == a0 + LengthOf(Newr0Code(0))
<1>1. \A x : /\ Len(Newr0Code(x)) = 7 /\ Newr0Code(x)[6] = Back(x)
             /\ \A i \in {1, 2, 3, 4, 5, 7} : Newr0Code(x)[i] = Newr0Code(0)[i]
  BY DEF Newr0Code
<1>2. GenerateNewr0(a0) = Newr0Code(behind)
  BY DEF GenerateNewr0
<1>3. SameShape(Back(behind), Back(0))
  BY OnePlaceChanged, Zenon
<1> HIDE DEF Back, behind
<1>4. ASSUME NEW i \in 1 .. 7
      PROVE  SameShape(Newr0Code(behind)[i], Newr0Code(0)[i])
  <2>1. i \in {1, 2, 3, 4, 5, 7} \/ i = 6
    OBVIOUS
  <2>2. CASE i = 6
    BY <1>1, <1>3, <2>2
  <2>3. CASE i \in {1, 2, 3, 4, 5, 7}
    <3>1. Newr0Code(behind)[i] = Newr0Code(0)[i]
      BY <1>1, <2>3
    <3>2. QED
      BY <3>1, ShapeOfSelf
  <2>4. QED
    BY <2>1, <2>2, <2>3
<1>5. LengthOf(Newr0Code(behind)) = LengthOf(Newr0Code(0))
  BY <1>1, <1>4, SameLengths
<1>6. QED
  BY <1>1, <1>2, <1>5 DEF Back, behind

\* What is assumed of the programs.
LEMMA UnitFacts ==
  ASSUME NEW unit \in Units
  PROVE  /\ unit.bodies \in Programs /\ unit.bodies \in Seq(Body)
         /\ \A f \in DOMAIN unit.bodies : unit.layout.frame[f] \in Nat
         /\ \A k \in DOMAIN unit.layout.where : unit.layout.where[k] \in Int \ {Placeholder}
         /\ unit.bodies \in Seq(Seq(Good(unit.layout)))
<1>1. /\ unit.bodies \in Programs
      /\ \A f \in DOMAIN unit.bodies : unit.layout.frame[f] \in Nat
      /\ \A f \in DOMAIN unit.bodies : \A i \in DOMAIN unit.bodies[f] :
           Visitable(unit.bodies[f][i], unit.layout)
      /\ \A k \in DOMAIN unit.layout.where : unit.layout.where[k] \in Int \ {Placeholder}
  BY UnitsAssumption
<1>2. unit.bodies \in Seq(Body)
  BY <1>1, ProgramsAssumption
<1>3. PICK b : b = unit.bodies
  OBVIOUS
<1>4. b \in Seq(Body) /\ DOMAIN b = 1 .. Len(b) /\ Len(b) \in Nat
  BY <1>2, <1>3
<1>5. ASSUME NEW f \in 1 .. Len(b) PROVE b[f] \in Seq(Good(unit.layout))
  <2>1. b[f] \in Body
    BY <1>4
  <2>2. /\ DOMAIN b[f] = 1 .. Len(b[f]) /\ b[f] \in Seq(Code)
        /\ \A i \in 1 .. Len(b[f]) : b[f][i] \in Code
    BY <2>1, BodyFacts
  <2>3. \A i \in 1 .. Len(b[f]) : b[f][i] \in Good(unit.layout)
    BY <1>1, <1>3, <1>4, <2>2 DEF Good, Code
  <2>4. QED
    BY <2>2, <2>3
<1>6. b = [f \in 1 .. Len(b) |-> b[f]]
  BY <1>4
<1>7. b \in Seq(Seq(Good(unit.layout)))
  BY <1>4, <1>5, <1>6
<1>8. QED
  BY <1>1, <1>2, <1>3, <1>7

\* After the optimizer the layout is that of the program.
LEMMA LayoutKnown ==
  ASSUME AssemblerInv, phase # "compile"
  PROVE  LayoutOK
BY UnitFacts DEF AssemblerInv, InPhase, InTarget, LayoutOK

\* No code is in a row.
LEMMA EmptyRow ==
  ASSUME NEW size
  PROVE  InRow(<<>>, size) /\ Top(<<>>, size) = TextStart
BY DEF InRow, Top

\* The invariant holds at the start.
LEMMA AsmInitInv == AsmInit => AssemblerInv
<1>1. SUFFICES ASSUME AsmInit PROVE AssemblerInv
  OBVIOUS
<1>2. /\ src \in Units /\ program = src.bodies /\ Begin
      /\ phase = "compile" /\ target = "none"
      /\ code = <<>> /\ address = <<>> /\ count = 0 /\ placed = <<>>
  BY <1>1 DEF AsmInit
<1>3. /\ program \in Programs /\ program \in Seq(Body)
      /\ program \in Seq(Seq(Good(src.layout))) /\ Len(program) \in Nat
  BY <1>2, UnitFacts
<1>4. OptimizerInv
  BY <1>2, <1>3, InvInit DEF Init
<1>5. ils \in Seq(Good(src.layout))
  <2>1. CASE program = <<>>
    BY <1>2, <2>1 DEF Begin
  <2>2. CASE program # <<>>
    <3>1. 1 \in 1 .. Len(program)
      BY <1>3, <2>2
    <3>2. ils = program[1]
      BY <1>2, <2>2 DEF Begin
    <3>3. QED
      BY <1>3, <3>1, <3>2
  <2>3. QED
    BY <2>1, <2>2
<1>6. Compiling(src.layout)
  BY <1>3, <1>5 DEF Compiling
<1>7. InPhase /\ InCompile /\ InTarget
  BY <1>2, <1>4, <1>6 DEF InPhase, InCompile, InTarget, Phases
<1>8. InProgram
  BY <1>2, <1>3 DEF InProgram
<1>9. InText
  BY <1>2, EmptyRow DEF InText
<1>10. InAddress
  BY <1>2 DEF InAddress, Addresses
<1>11. InCount
  BY <1>2 DEF InCount
<1>12. InPlaced
  BY <1>2 DEF InPlaced, SideBySide
<1>13. InClean
  BY <1>2 DEF InClean
<1>14. QED
  BY <1>7, <1>8, <1>9, <1>10, <1>11, <1>12, <1>13 DEF AssemblerInv

\* What a step that emits nothing leaves true.
LEMMA NothingEmitted ==
  ASSUME AssemblerInv, UNCHANGED <<target, code, address>>
  PROVE  /\ Sizes' = Sizes /\ Written' = Written
         /\ InText' /\ InAddress'
<1>1. Sizes' = Sizes /\ Written' = Written
  BY SizesSame
<1>2. InRow(code', Sizes') /\ Addresses(address', Top(code', Sizes'))
  BY <1>1 DEF AssemblerInv, InText, InAddress
<1>3. QED
  BY <1>1, <1>2 DEF InText, InAddress

\* What a step of ld0 that places nothing in the file leaves true.
LEMMA NothingPlaced ==
  ASSUME AssemblerInv, Len(placed) = 0, UNCHANGED placed, phase' \notin {"encode", "file"}
  PROVE  InPlaced'
<1>1. placed' \in Seq(PlacedBytes) /\ Len(placed') = 0
  BY DEF AssemblerInv, InPlaced, SideBySide
<1>2. InCount => Len(code) \in Nat
  BY DEF InCount
<1>3. QED
  BY <1>1 DEF InPlaced, SideBySide

\* A step of the optimizer keeps it.
LEMMA CompileStep ==
  ASSUME AssemblerInv, Compile PROVE AssemblerInv'
<1>1. /\ phase = "compile" /\ Next
      /\ UNCHANGED <<phase, target, layout, code, address, src, count, placed>>
  BY DEF Compile, generator
<1>2. OptimizerInv /\ Compiling(src.layout) /\ target = "none" /\ code = <<>> /\ address = <<>>
  BY <1>1 DEF AssemblerInv, InCompile
<1>3. OptimizerInv'
  BY <1>1, <1>2, OptimizerStep
<1>4. Compiling(src.layout)' /\ Len(program') = Len(program)
  <2>1. PICK places : places = src.layout
    OBVIOUS
  <2>2. Compiling(places)' /\ Len(program') = Len(program)
    BY <1>1, <1>2, <2>1, CompilingStep
  <2>3. src'.layout = places
    BY <1>1, <2>1
  <2>4. QED
    BY <2>2, <2>3 DEF Compiling
<1>5. InPhase' /\ InCompile'
  BY <1>1, <1>2, <1>3, <1>4 DEF AssemblerInv, InPhase, InCompile
<1>6. InProgram'
  BY <1>1, <1>4 DEF AssemblerInv, InProgram, Compiling
<1>7. InTarget' /\ InCount' /\ InClean'
  BY <1>1 DEF AssemblerInv, InTarget, InCount, InClean, CleanUpTo
<1>8. InText' /\ InAddress'
  BY <1>1, NothingEmitted
<1>9. Len(placed) = 0
  BY <1>1 DEF AssemblerInv, InPlaced
<1>10. InPlaced'
  BY <1>1, <1>9, NothingPlaced
<1>11. QED
  BY <1>5, <1>6, <1>7, <1>8, <1>10 DEF AssemblerInv

\* The addresses of the global variables are below the code.
LEMMA EnterProgramStep ==
  ASSUME AssemblerInv, EnterProgram PROVE AssemblerInv'
<1>1. /\ phase = "compile" /\ target' \in Targets /\ layout' = src.layout
      /\ address' = src.globals /\ phase' = "crt"
      /\ UNCHANGED <<program, code, src, count, placed>>
  BY DEF EnterProgram, vars
<1>2. code = <<>> /\ count = 0 /\ src \in Units /\ Len(placed) = 0
  BY <1>1 DEF AssemblerInv, InCompile, InCount, InPhase, InPlaced
<1>3. InPhase' /\ InCompile' /\ InTarget'
  BY <1>1, <1>2 DEF InPhase, InCompile, InTarget, Phases
<1>4. InProgram'
  BY <1>1 DEF AssemblerInv, InProgram
<1>5. InText'
  BY <1>1, <1>2, EmptyRow DEF InText
<1>6. InAddress'
  <2>1. \A k \in DOMAIN address' : Len(k) = 4 /\ address'[k] \in 1 .. (TextStart - 1)
    BY <1>1, <1>2, UnitsAssumption
  <2>2. QED
    BY <2>1, TextAssumption DEF InAddress, Addresses
<1>7. InCount' /\ InClean'
  BY <1>1, <1>2 DEF InCount, InClean
<1>8. InPlaced'
  BY <1>1, <1>2, NothingPlaced
<1>9. QED
  BY <1>3, <1>4, <1>5, <1>6, <1>7, <1>8 DEF AssemblerInv

\* While nothing is resolved or encoded.
LEMMA OnlyEmits ==
  ASSUME AssemblerInv, phase \in {"crt", "generate"}, phase' = "generate",
         UNCHANGED <<program, target, layout, src, count, placed>>,
         Len(code') \in Nat
  PROVE  InPhase' /\ InCompile' /\ InProgram' /\ InTarget' /\ InCount' /\ InPlaced' /\ InClean'
<1>1. count = 0 /\ Len(placed) = 0
  BY DEF AssemblerInv, InCount, InPlaced
<1>2. InPhase' /\ InCompile' /\ InTarget'
  BY DEF AssemblerInv, InPhase, InCompile, InTarget, Phases
<1>3. InProgram'
  BY DEF AssemblerInv, InProgram
<1>4. InCount' /\ InClean'
  BY <1>1 DEF InCount, InClean
<1>5. InPlaced'
  BY <1>1, NothingPlaced
<1>6. QED
  BY <1>2, <1>3, <1>4, <1>5

\* What is an address in the code stays one when more is emitted.
LEMMA AddressesGrow ==
  ASSUME NEW a, NEW low \in Nat, NEW top \in Nat, low <= top, Addresses(a, low)
  PROVE  Addresses(a, top)
<1>1. ASSUME NEW k \in DOMAIN a
      PROVE  a[k] \in Nat /\ IF Len(k) = 2 THEN a[k] <= top ELSE a[k] < TextStart
  <2>1. a[k] \in Nat /\ IF Len(k) = 2 THEN a[k] <= low ELSE a[k] < TextStart
    BY DEF Addresses
  <2>2. QED
    BY <2>1
<1>2. QED
  BY <1>1 DEF Addresses

WithName(a, name, value) ==
  [k \in DOMAIN a \cup {name} |-> IF k = name THEN value ELSE a[k]]
Named(a, b, top) == \E name : \E value \in Nat :
  b = WithName(a, name, value) /\ Len(name) = 2 /\ value <= top

\* One more name gets an address,
LEMMA AddressAdded ==
  ASSUME NEW a, NEW top \in Nat, Addresses(a, top), NEW key, Len(key) = 2,
         NEW value \in Nat, value <= top
  PROVE  Addresses(WithName(a, key, value), top)
<1>0. PICK b : b = WithName(a, key, value)
  OBVIOUS
<1>1. /\ DOMAIN b = {key} \cup DOMAIN a
      /\ \A k \in DOMAIN b : b[k] = IF k = key THEN value ELSE a[k]
  BY <1>0 DEF WithName
<1>2. ASSUME NEW k \in DOMAIN b
      PROVE  b[k] \in Nat /\ IF Len(k) = 2 THEN b[k] <= top ELSE b[k] < TextStart
  <2>1. CASE k = key
    BY <1>1, <2>1
  <2>2. CASE k # key
    BY <1>1, <2>2 DEF Addresses
  <2>3. QED
    BY <2>1, <2>2
<1>3. QED
  BY <1>0, <1>2 DEF Addresses

\* whatever its name is.
LEMMA NamedAdded ==
  ASSUME NEW a, NEW b, NEW top \in Nat, Addresses(a, top), Named(a, b, top)
  PROVE  Addresses(b, top)
<1>1. PICK name : \E value \in Nat : b = WithName(a, name, value) /\ Len(name) = 2 /\ value <= top
  BY DEF Named
<1>2. PICK value \in Nat : b = WithName(a, name, value) /\ Len(name) = 2 /\ value <= top
  BY <1>1
<1>3. QED
  BY <1>2, AddressAdded

\* The code of one IL instruction, with or without a name for its place.
LEMMA EmitsStep ==
  ASSUME AssemblerInv, phase \in {"crt", "generate"}, phase' = "generate",
         UNCHANGED <<program, target, layout, src, count, placed>>,
         NEW lists \in Seq(Seq(Emitted)), NEW ils0, EmitAll(ils0, lists),
         \/ address' = address
         \/ Named(address, address', Text + LengthOf(FlattenSeq(lists)))
  PROVE  AssemblerInv'
<1>1. InRow(code, Sizes)
  BY DEF AssemblerInv, InText
<1>2. Sizes' = Sizes
  BY SizesSame
<1>3. InRow(code', Sizes') /\ Top(code', Sizes') = Text + LengthOf(FlattenSeq(lists))
  BY <1>1, <1>2, Emitting
<1>4. Text = Top(code, Sizes) /\ Text \in Nat
  BY <1>1, TextIsTop
<1>5. LengthOf(FlattenSeq(lists)) \in Nat
  BY FlattenTyped, LengthsTyped
<1>6. PICK top \in Nat : top = Top(code', Sizes')
  BY <1>3, <1>4, <1>5
<1>7. Addresses(address, top)
  BY <1>3, <1>4, <1>5, <1>6, AddressesGrow DEF AssemblerInv, InAddress
<1>8. Addresses(address', top)
  <2>1. CASE address' = address
    BY <1>7, <2>1
  <2>2. CASE Named(address, address', Text + LengthOf(FlattenSeq(lists)))
    <3>1. Named(address, address', top)
      BY <1>3, <1>6, <2>2
    <3>2. QED
      BY <1>6, <1>7, <3>1, NamedAdded
  <2>3. QED
    BY <2>1, <2>2
<1>9. InText' /\ InAddress'
  BY <1>3, <1>6, <1>8 DEF InText, InAddress
<1>10. Len(code') \in Nat
  BY <1>3 DEF InRow
<1>11. InPhase' /\ InCompile' /\ InProgram' /\ InTarget' /\ InCount' /\ InPlaced' /\ InClean'
  BY <1>10, OnlyEmits
<1>12. QED
  BY <1>9, <1>11 DEF AssemblerInv

\* __newr0 lies within the code that starts the program.
LEMMA GenerateCrtStep ==
  ASSUME AssemblerInv, GenerateCrt PROVE AssemblerInv'
<1> DEFINE crt0 == GenerateCrt0
           newr0 == Text + LengthOf(crt0)
           names == <<IL("Crt0", <<>>), IL("Start", <<>>), IL("Exit", <<>>)>>
           a == GenerateCrt0
           b == GenerateNewr0(newr0)
           c == <<Ins("EXIT", <<>>)>>
           lists == <<a, b, c>>
<1>1. /\ phase = "crt" /\ phase' = "generate"
      /\ UNCHANGED <<program, target, layout, src, count, placed>>
      /\ EmitAll(names, lists)
      /\ address' = WithAddress(<<"__newr0", 0>>, newr0)
  BY DEF GenerateCrt, vars
<1>2. Text \in Nat
  BY TextIsTop DEF AssemblerInv, InText
<1>3. crt0 \in Seq(Emitted)
  BY Crt0Typed
<1>4. LengthOf(crt0) \in Nat
  BY <1>3, LengthsTyped
<1>5. b \in Seq(Emitted)
  <2>1. newr0 \in Nat
    BY <1>2, <1>4
  <2> HIDE DEF newr0
  <2>2. QED
    BY <2>1, Newr0Typed
<1>6. c \in Seq(Emitted)
  <2>1. Ins("EXIT", <<>>) \in Emitted
    BY DEF Ins, Emitted, Instrs, Ops, Jumps, Shaped
  <2>2. QED
    BY <2>1
<1>7. a \in Seq(Emitted)
  BY <1>3
<1> HIDE DEF a, b, c, names
<1>8. lists \in Seq(Seq(Emitted))
  BY <1>5, <1>6, <1>7, Ones
<1>9. PICK rest \in Seq(Emitted) : FlattenSeq(lists) = a \o rest
  BY <1>5, <1>6, <1>7, FirstOfThree
<1> HIDE DEF lists
<1>10. LengthOf(a) <= LengthOf(FlattenSeq(lists))
  BY <1>7, <1>9, PrefixLength
<1>11. LengthOf(FlattenSeq(lists)) \in Nat
  BY <1>8, FlattenTyped, LengthsTyped
<1>12. newr0 \in Nat /\ newr0 <= Text + LengthOf(FlattenSeq(lists))
  <2>1. LengthOf(crt0) = LengthOf(a)
    BY DEF a
  <2> HIDE DEF crt0
  <2>2. QED
    BY <1>2, <1>4, <1>10, <1>11, <2>1
<1> HIDE DEF newr0
<1>13. Len(<<"__newr0", 0>>) = 2
  OBVIOUS
<1>14. Named(address, address', Text + LengthOf(FlattenSeq(lists)))
  BY <1>1, <1>12, <1>13 DEF Named, WithName, WithAddress
<1>15. QED
  BY <1>1, <1>8, <1>14, EmitsStep

\* A function has the address at which its code starts.
LEMMA EnterFunctionStep ==
  ASSUME AssemblerInv, EnterFunction PROVE AssemblerInv'
<1> DEFINE f == CurrentFunction
           list == EnterFunctionCode(f)
           ils0 == <<IL("Enter", <<Variable(FunctionSym(f), "I")>>)>>
<1>1. /\ phase = "generate" /\ f \in DOMAIN program /\ phase' = phase
      /\ UNCHANGED <<program, target, layout, src, count, placed>>
      /\ EmitAll(ils0, <<list>>)
      /\ address' = WithAddress(<<"__function", f>>, Text)
  BY DEF EnterFunction, VisitsFunction, vars
<1>2. Text \in Nat
  BY TextIsTop DEF AssemblerInv, InText
<1>3. layout.frame[f] \in Nat
  <2>1. layout = src.layout /\ src \in Units /\ Len(program) = Len(src.bodies)
        /\ program \in Seq(Seq(Good(src.layout)))
    BY <1>1 DEF AssemblerInv, InTarget, InPhase, InProgram
  <2>2. src.bodies \in Seq(Body) /\ \A g \in DOMAIN src.bodies : src.layout.frame[g] \in Nat
    BY <2>1, UnitFacts
  <2>3. DOMAIN program = DOMAIN src.bodies
    BY <2>1, <2>2
  <2>4. QED
    BY <1>1, <2>1, <2>2, <2>3
<1>4. list \in Seq(Emitted)
  BY <1>3, EnterTyped
<1> HIDE DEF f, list, ils0
<1>5. <<list>> \in Seq(Seq(Emitted))
  BY <1>4
<1>6. LengthOf(FlattenSeq(<<list>>)) \in Nat
  BY <1>5, FlattenTyped, LengthsTyped
<1>7. Len(<<"__function", f>>) = 2 /\ Text <= Text + LengthOf(FlattenSeq(<<list>>))
  BY <1>2, <1>6
<1>8. Named(address, address', Text + LengthOf(FlattenSeq(<<list>>)))
  BY <1>1, <1>2, <1>7 DEF Named, WithName, WithAddress
<1>9. QED
  BY <1>1, <1>5, <1>8, EmitsStep

\* The code of an IL instruction follows, a label names its start.
LEMMA VisitILStep ==
  ASSUME AssemblerInv, VisitIL PROVE AssemblerInv'
<1> DEFINE il == Visiting
           first == Visit(il, Text)
           behind == VisitCallReturn(il)
           call == <<il, IL("CallReturn", il.args)>>
<1>1. /\ phase = "generate" /\ phase' = "generate"
      /\ CurrentFunction \in DOMAIN program /\ visit[2] \in DOMAIN program[CurrentFunction]
      /\ UNCHANGED <<program, target, layout, src, count, placed>>
      /\ IF il.op = "Call" THEN EmitAll(call, <<first, behind>>) ELSE EmitAll(<<il>>, <<first>>)
      /\ address' = WithLabel(il) /\ Assembles(il)
  BY DEF VisitIL, VisitsIL, VisitsFunction, vars
<1>2. Text \in Nat
  BY TextIsTop DEF AssemblerInv, InText
<1>3. LayoutOK
  BY <1>1, LayoutKnown
<1>4. Ready(il)
  <2>1. layout = src.layout /\ program \in Seq(Seq(Good(src.layout)))
    BY <1>1 DEF AssemblerInv, InTarget, InProgram
  <2>2. program[CurrentFunction] \in Seq(Good(src.layout))
    BY <1>1, <2>1
  <2>3. Visiting \in Good(src.layout)
    BY <1>1, <2>2 DEF Visiting
  <2>4. il \in Instruction /\ WellFormed(il) /\ Visitable(il, src.layout)
    BY <2>3 DEF Good
  <2>5. Visitable(il, layout)
    <3>1. layout = src.layout
      BY <2>1
    <3> HIDE DEF il
    <3>2. QED
      BY <2>4, <3>1
  <2>6. QED
    BY <1>1, <2>4, <2>5 DEF Ready
<1> HIDE DEF il
<1>5. first \in Seq(Emitted)
  BY <1>2, <1>3, <1>4, VisitTyped
<1>6. il.op = "Call" => behind \in Seq(Emitted)
  BY <1>2, <1>3, <1>4, CallVisits
<1> HIDE DEF first, behind, call
<1>7. ASSUME NEW lists \in Seq(Seq(Emitted))
      PROVE  \/ address' = address
             \/ Named(address, address', Text + LengthOf(FlattenSeq(lists)))
  <2>1. LengthOf(FlattenSeq(lists)) \in Nat
    BY FlattenTyped, LengthsTyped
  <2>2. Text <= Text + LengthOf(FlattenSeq(lists))
    BY <1>2, <2>1
  <2>3. CASE il.op = "Label"
    <3>1. address' = WithAddress(LabelName(il.args[1]), Text)
      BY <1>1, <2>3 DEF WithLabel
    <3>2. Len(LabelName(il.args[1])) = 2
      BY DEF LabelName
    <3>3. QED
      BY <1>2, <2>2, <3>1, <3>2 DEF Named, WithName, WithAddress
  <2>4. CASE il.op # "Label"
    BY <1>1, <2>4 DEF WithLabel
  <2>5. QED
    BY <2>3, <2>4
<1>8. CASE il.op = "Call"
  <2>1. <<first, behind>> \in Seq(Seq(Emitted))
    BY <1>5, <1>6, <1>8, Ones
  <2>2. EmitAll(call, <<first, behind>>)
    BY <1>1, <1>8
  <2>3. QED
    BY <1>1, <1>7, <2>1, <2>2, EmitsStep
<1>9. CASE il.op # "Call"
  <2>1. <<first>> \in Seq(Seq(Emitted))
    BY <1>5
  <2>2. EmitAll(<<il>>, <<first>>)
    BY <1>1, <1>9
  <2>3. QED
    BY <1>1, <1>7, <2>1, <2>2, EmitsStep
<1>10. QED
  BY <1>8, <1>9

\* What a step that moves on without emitting, resolving or encoding leaves true.
LEMMA MovesOn ==
  ASSUME AssemblerInv, phase \in {"generate", "resolve"},
         phase' \in {"generate", "resolve", "failed", "aborted"},
         UNCHANGED <<program, target, layout, code, address, src, count, placed>>,
         phase' \in {"resolve", "failed"} => CleanUpTo(code, count),
         phase' \in {"generate", "aborted"} => count = 0
  PROVE  AssemblerInv'
<1>1. InPhase' /\ InCompile' /\ InTarget'
  BY DEF AssemblerInv, InPhase, InCompile, InTarget, Phases
<1>2. InProgram'
  BY DEF AssemblerInv, InProgram
<1>3. InText' /\ InAddress'
  BY NothingEmitted
<1>4. InCount'
  BY DEF AssemblerInv, InCount
<1>5. InClean'
  BY DEF InClean, CleanUpTo
<1>6. InPlaced'
  <2>1. Len(placed) = 0
    BY DEF AssemblerInv, InPlaced
  <2>2. QED
    BY <2>1, NothingPlaced
<1>7. QED
  BY <1>1, <1>2, <1>3, <1>4, <1>5, <1>6 DEF AssemblerInv

\* The generator goes on to the next function, to resolving, or aborts.
LEMMA GeneratorMoves ==
  ASSUME AssemblerInv,
         SkipFunction \/ AbortGenerator \/ LeaveFunction \/ LeaveProgram
  PROVE  AssemblerInv'
<1>1. /\ phase = "generate" /\ phase' \in {"generate", "aborted", "resolve"}
      /\ UNCHANGED <<program, target, layout, code, address, src, count, placed>>
  BY DEF SkipFunction, AbortGenerator, LeaveFunction, LeaveProgram, VisitsFunction, VisitsIL,
     generator, vars
<1>2. count = 0
  BY <1>1 DEF AssemblerInv, InCount
<1>3. CleanUpTo(code, count)
  BY <1>2 DEF CleanUpTo
<1>4. QED
  BY <1>1, <1>2, <1>3, MovesOn

\* An unknown name ends it.
LEMMA ReportUnresolvedStep ==
  ASSUME AssemblerInv, ReportUnresolved PROVE AssemblerInv'
<1>1. /\ phase = "resolve" /\ phase' = "failed"
      /\ UNCHANGED <<program, target, layout, code, address, src, count, placed>>
  BY DEF ReportUnresolved, Resolving, generator, vars
<1>2. CleanUpTo(code, count)
  BY <1>1 DEF AssemblerInv, InClean
<1>3. QED
  BY <1>1, <1>2, MovesOn

\* Resolving an operand makes it clean and changes neither its length nor the
\* attribute by which it is encoded.
LEMMA ResolvedOperand ==
  ASSUME NEW o \in Opnds, \A k \in DOMAIN address : address[k] \in Nat,
         ~(o.ref # <<>> /\ AddressOf0(o.ref) = 0)
  PROVE  /\ Resolved(o) \in Opnds /\ Resolved(o).ref = <<>> /\ Resolved(o).addr # Placeholder
         /\ Resolved(o).mode = o.mode /\ Resolved(o).conv = o.conv
<1>1. o \in Operands
  BY DEF Opnds
<1>2. CASE o.ref = <<>>
  BY <1>1, <1>2 DEF Resolved, Opnds
<1>3. CASE o.ref # <<>>
  <2>1. AddressOf0(o.ref) # 0
    BY <1>3
  <2>2. AddressOf0(o.ref) \in Nat
    BY <2>1 DEF AddressOf0
  <2>3. PICK a \in Nat : a = AddressOf0(o.ref)
    BY <2>2
  <2>4. Resolved(o) = [o EXCEPT !.addr = a, !.ref = <<>>]
    BY <1>3, <2>3 DEF Resolved
  <2>5. /\ Resolved(o) \in Operands /\ Resolved(o).ref = <<>> /\ Resolved(o).addr = a
        /\ Resolved(o).mode = o.mode /\ Resolved(o).conv = o.conv
    <3>1. PICK r : r = Resolved(o)
      OBVIOUS
    <3>2. r = [mode |-> o.mode, conv |-> o.conv, addr |-> a, disp |-> o.disp, ref |-> <<>>]
      BY <1>1, <2>4, <3>1 DEF Operands
    <3>3. o.mode \in Modes /\ o.conv \in Convs /\ o.disp \in Int
      BY <1>1 DEF Operands
    <3>4. r \in Operands
      BY <3>2, <3>3 DEF Operands
    <3>5. QED
      BY <3>1, <3>2, <3>4
  <2>6. a # Placeholder
    BY DEF Placeholder
  <2>7. QED
    BY <2>5, <2>6 DEF Opnds
<1>4. QED
  BY <1>2, <1>3

\* So does it for all operands of an instruction.
LEMMA ResolvedIns ==
  ASSUME NEW ins \in Emitted, \A k \in DOMAIN address : address[k] \in Nat,
         \A i \in DOMAIN ins.args : ~(ins.args[i].ref # <<>> /\ AddressOf0(ins.args[i].ref) = 0),
         NEW jns, jns = [ins EXCEPT !.args = [i \in DOMAIN ins.args |-> Resolved(ins.args[i])]]
  PROVE  jns \in Emitted /\ Clean(jns) /\ SameShape(ins, jns)
<1>1. /\ ins.args \in Seq(Opnds) /\ Len(ins.args) \in Nat /\ DOMAIN ins.args = 1 .. Len(ins.args)
      /\ ins.op \in Ops /\ ins.jump \in Jumps /\ Shaped(ins)
      /\ \A i \in 1 .. Len(ins.args) : ins.args[i] \in Opnds
  BY EmittedFacts
<1>2. PICK n \in Nat : n = Len(ins.args)
  BY <1>1
<1>3. PICK args : args = [i \in 1 .. n |-> Resolved(ins.args[i])]
  OBVIOUS
<1>4. jns = [op |-> ins.op, jump |-> ins.jump, args |-> args]
  <2>1. jns = [ins EXCEPT !.args = args]
    BY <1>1, <1>2, <1>3
  <2>2. ins \in Instrs
    BY DEF Emitted
  <2>3. QED
    BY <2>1, <2>2 DEF Instrs
<1>5. ASSUME NEW i \in 1 .. n
      PROVE  /\ args[i] \in Opnds /\ args[i].ref = <<>> /\ args[i].addr # Placeholder
             /\ args[i].mode = ins.args[i].mode /\ args[i].conv = ins.args[i].conv
  <2>1. args[i] = Resolved(ins.args[i]) /\ ins.args[i] \in Opnds
    BY <1>1, <1>2, <1>3
  <2>2. ~(ins.args[i].ref # <<>> /\ AddressOf0(ins.args[i].ref) = 0)
    BY <1>1, <1>2
  <2>3. QED
    BY <2>1, <2>2, ResolvedOperand
<1>6. args = [i \in 1 .. n |-> args[i]]
  BY <1>3
<1>7. args \in Seq(Opnds) /\ Len(args) = n
  BY <1>5, <1>6
<1>8. SameShape(ins, jns)
  BY <1>2, <1>4, <1>5, <1>7 DEF SameShape
<1>9. Clean(jns)
  BY <1>4, <1>5, <1>7 DEF Clean
<1>10. Shaped(jns)
  <2>1. jns.op = ins.op /\ jns.jump = ins.jump /\ Len(jns.args) = Len(ins.args)
        /\ \A i \in 1 .. n : jns.args[i].mode = ins.args[i].mode
    BY <1>2, <1>4, <1>5, <1>7
  <2>2. QED
    BY <1>1, <1>2, <2>1 DEF Shaped
<1>11. jns \in Instrs
  <2>1. ins.op \in Ops /\ ins.jump \in Jumps
    BY <1>1
  <2>2. args \in Seq(Opnds)
    BY <1>7
  <2>3. \A op \in Ops : \A jump \in Jumps : \A list \in Seq(Opnds) :
          [op |-> op, jump |-> jump, args |-> list] \in Instrs
    BY DEF Instrs
  <2>4. [op |-> ins.op, jump |-> ins.jump, args |-> args] \in Instrs
    BY <2>1, <2>2, <2>3, Zenon
  <2>5. QED
    BY <1>4, <2>4, Zenon
<1>12. QED
  BY <1>8, <1>9, <1>10, <1>11 DEF Emitted

\* Resolving an instruction moves no other one.
LEMMA ResolveStep ==
  ASSUME AssemblerInv, Resolve PROVE AssemblerInv'
<1> DEFINE k == count + 1
<1>1. /\ phase = "resolve" /\ count < Len(code) /\ Unknown = {} /\ phase' = phase
      /\ code' = [code EXCEPT ![k].ins.args = [i \in DOMAIN @ |-> Resolved(@[i])]]
      /\ count' = k
      /\ UNCHANGED <<program, target, layout, address, src, placed>>
  BY DEF Resolve, Resolving, vars
<1>2. /\ InRow(code, Sizes) /\ code \in Seq(PlacedIns) /\ Len(code) \in Nat
      /\ count \in 0 .. Len(code) /\ k \in 1 .. Len(code)
  BY <1>1 DEF AssemblerInv, InText, InCount, InRow
<1> HIDE DEF k
<1>3. PICK ins \in Emitted : ins = code[k].ins
  <2>1. code[k] \in PlacedIns
    BY <1>2
  <2>2. QED
    BY <2>1 DEF PlacedIns
<1>4. PICK jns : jns = [ins EXCEPT !.args = [i \in DOMAIN ins.args |-> Resolved(ins.args[i])]]
  OBVIOUS
<1>5. /\ Len(code') = Len(code) /\ DOMAIN code' = DOMAIN code
      /\ \A i \in 1 .. Len(code) :
           code'[i] = IF i = k THEN [code[k] EXCEPT !.ins = jns] ELSE code[i]
  BY <1>1, <1>2, <1>3, <1>4
<1>6. jns \in Emitted /\ Clean(jns) /\ SameShape(ins, jns)
  <2>1. \A i \in DOMAIN ins.args : ~(ins.args[i].ref # <<>> /\ AddressOf0(ins.args[i].ref) = 0)
    BY <1>1, <1>3 DEF Unknown, OpndsHere, k
  <2>2. \A key \in DOMAIN address : address[key] \in Nat
    BY DEF AssemblerInv, InAddress, Addresses
  <2>3. QED
    BY <1>4, <2>1, <2>2, ResolvedIns
<1>7. Sizes[jns] = Sizes[ins]
  <2>1. GetLength(jns) = GetLength(ins)
    BY <1>6, SameLength
  <2>2. QED
    BY <1>6, <2>1 DEF Sizes
<1>8. ASSUME NEW i \in 1 .. Len(code)
      PROVE  /\ code'[i] \in PlacedIns /\ code'[i].at = code[i].at
             /\ Sizes[code'[i].ins] = Sizes[code[i].ins]
             /\ i # k => code'[i] = code[i]
             /\ i = k => code'[i].ins = jns
  <2>1. code[i] \in PlacedIns
    BY <1>2
  <2>2. CASE i = k
    BY <1>3, <1>5, <1>6, <1>7, <2>1, <2>2 DEF PlacedIns
  <2>3. CASE i # k
    BY <1>5, <2>1, <2>3
  <2>4. QED
    BY <2>2, <2>3
<1>9. Sizes' = Sizes /\ Written' = Written
  BY <1>1, SizesSame
<1>10. code' \in Seq(PlacedIns)
  <2>1. code' = [i \in DOMAIN code |-> code'[i]]
    BY <1>1
  <2>2. DOMAIN code = 1 .. Len(code)
    BY <1>2
  <2>3. QED
    BY <1>2, <1>8, <2>1, <2>2
<1>11. InRow(code', Sizes)
  <2>1. ASSUME NEW i \in 1 .. Len(code)
        PROVE  code'[i].at = IF i = 1 THEN TextStart ELSE code'[i - 1].at + Sizes[code'[i - 1].ins]
    <3>1. i # 1 => i - 1 \in 1 .. Len(code)
      BY <1>2
    <3>2. code[i].at = IF i = 1 THEN TextStart ELSE code[i - 1].at + Sizes[code[i - 1].ins]
      BY <1>2 DEF InRow
    <3>3. code'[i].at = code[i].at
      BY <1>8
    <3>4. i # 1 => /\ code'[i - 1].at = code[i - 1].at
                   /\ Sizes[code'[i - 1].ins] = Sizes[code[i - 1].ins]
      BY <1>8, <3>1
    <3>5. QED
      BY <3>2, <3>3, <3>4
  <2>2. QED
    BY <1>5, <1>10, <2>1 DEF InRow
<1>12. Top(code', Sizes) = Top(code, Sizes)
  <2>1. code # <<>> /\ code' # <<>> /\ Len(code) \in 1 .. Len(code)
    BY <1>1, <1>2, <1>5
  <2>2. code'[Len(code)].at = code[Len(code)].at
        /\ Sizes[code'[Len(code)].ins] = Sizes[code[Len(code)].ins]
    BY <1>8, <2>1
  <2>3. QED
    BY <1>5, <2>1, <2>2 DEF Top
<1>13. InText' /\ InAddress'
  <2>1. Addresses(address', Top(code', Sizes'))
    BY <1>1, <1>9, <1>12 DEF AssemblerInv, InAddress
  <2>2. QED
    BY <1>9, <1>11, <2>1 DEF InText, InAddress
<1>14. InPhase' /\ InCompile' /\ InTarget' /\ InProgram'
  BY <1>1 DEF AssemblerInv, InPhase, InCompile, InTarget, InProgram
<1>15. InCount'
  BY <1>1, <1>2, <1>5 DEF InCount
<1>16. InPlaced'
  <2>1. Len(placed) = 0
    BY <1>1 DEF AssemblerInv, InPlaced
  <2>2. QED
    BY <1>1, <2>1, NothingPlaced
<1>17. InClean'
  <2>1. CleanUpTo(code, count)
    BY <1>1 DEF AssemblerInv, InClean
  <2>2. ASSUME NEW i \in 1 .. k PROVE Clean(code'[i].ins)
    <3>1. i \in 1 .. Len(code)
      BY <1>2
    <3>2. CASE i = k
      BY <1>6, <1>8, <3>1, <3>2
    <3>3. CASE i # k
      <4>1. i \in 1 .. count
        BY <1>2, <3>3 DEF k
      <4>2. QED
        BY <1>8, <2>1, <3>1, <3>3, <4>1 DEF CleanUpTo
    <3>4. QED
      BY <3>2, <3>3
  <2>3. CleanUpTo(code', count')
    BY <1>1, <2>2 DEF CleanUpTo
  <2>4. QED
    BY <1>1, <2>3 DEF InClean
<1>18. QED
  BY <1>13, <1>14, <1>15, <1>16, <1>17 DEF AssemblerInv

\* When all are resolved encoding starts, at the first.
LEMMA EndResolveStep ==
  ASSUME AssemblerInv, EndResolve PROVE AssemblerInv'
<1>1. /\ phase = "resolve" /\ count = Len(code) /\ phase' = "encode" /\ count' = 0
      /\ UNCHANGED <<program, target, layout, code, address, src, placed>>
  BY DEF EndResolve, generator, vars
<1>2. InPhase' /\ InCompile' /\ InTarget'
  BY <1>1 DEF AssemblerInv, InPhase, InCompile, InTarget, Phases
<1>3. InProgram'
  BY <1>1 DEF AssemblerInv, InProgram
<1>4. InText' /\ InAddress'
  BY <1>1, NothingEmitted
<1>5. InCount' /\ InClean'
  BY <1>1 DEF AssemblerInv, InCount, InClean
<1>6. InPlaced'
  <2>1. placed \in Seq(PlacedBytes) /\ Len(placed) = 0 /\ Len(code) \in Nat
    BY <1>1 DEF AssemblerInv, InPlaced, SideBySide, InText, InRow
  <2>2. QED
    BY <1>1, <2>1 DEF InPlaced, SideBySide
<1>7. QED
  BY <1>2, <1>3, <1>4, <1>5, <1>6 DEF AssemblerInv

\* Encode writes a number of bytes.
LEMMA BytesTyped ==
  ASSUME NEW ins \in Emitted, target \in Targets
  PROVE  BytesEncoded(ins) \in Nat
<1> DEFINE n == Len(ins.args)
           sizes == [i \in 1 .. n |-> OperandBytes(ins.args[i])]
<1>1. n \in Nat /\ \A i \in 1 .. n : ins.args[i].mode \in Modes
  BY EmittedFacts
<1>2. ASSUME NEW i \in 1 .. n PROVE OperandBytes(ins.args[i]) \in Nat
  <2>1. ins.args[i].mode \in Modes
    BY <1>1
  <2>2. QED
    BY <2>1 DEF Modes, OperandBytes, ImmediateBytes, ConvBytes
<1> HIDE DEF n
<1>3. sizes \in Seq(Nat)
  BY <1>1, <1>2
<1> HIDE DEF sizes
<1>4. Total(sizes) \in Nat
  BY <1>3, TotalIsNat
<1>5. Len(Header(ins)) \in Nat
  BY TextAssumption, HeaderLength, HeaderLengthTyped
<1>6. QED
  BY <1>4, <1>5 DEF BytesEncoded, sizes, n

\* The place in the buffer at which an instruction is written is its address, less
\* that of the code.
LEMMA EncodeStep ==
  ASSUME AssemblerInv, Encode PROVE AssemblerInv'
<1> DEFINE k == count + 1
           ins == code[k].ins
           size == GetLength(ins)
           new == [from |-> TextSize, bytes |-> BytesEncoded(ins), next |-> TextSize + size]
<1>1. /\ phase = "encode" /\ count < Len(code) /\ phase' = phase
      /\ placed' = Append(placed, new)
      /\ count' = k
      /\ UNCHANGED <<program, target, layout, code, address, src>>
  BY DEF Encode, generator, vars
<1>2. /\ InRow(code, Sizes) /\ code \in Seq(PlacedIns) /\ Len(code) \in Nat
      /\ count \in 0 .. Len(code) /\ k \in 1 .. Len(code) /\ Len(placed) = count
      /\ placed \in Seq(PlacedBytes) /\ target \in Targets
  BY <1>1 DEF AssemblerInv, InText, InCount, InRow, InPlaced, SideBySide, InTarget
<1>3. /\ code[k] \in PlacedIns /\ ins \in Emitted
  <2>1. code[k] \in PlacedIns
    BY <1>2
  <2>2. QED
    BY <2>1 DEF PlacedIns
<1>4. Sizes[ins] = size /\ Written[ins] = BytesEncoded(ins) /\ size \in Nat
  BY <1>3, LengthTyped DEF Sizes, Written
<1>5. BytesEncoded(ins) \in Nat
  BY <1>2, <1>3, BytesTyped
<1> HIDE DEF k, ins, size
<1>6. TextSize \in Nat /\ TextStart + TextSize = code[k].at
  <2>1. code[k].at = IF k = 1 THEN TextStart ELSE code[k - 1].at + Sizes[code[k - 1].ins]
    BY <1>2 DEF InRow
  <2>2. CASE count = 0
    <3>1. placed = <<>>
      BY <1>2, <2>2
    <3>2. k = 1
      BY <2>2 DEF k
    <3>3. QED
      BY <2>1, <3>1, <3>2, TextAssumption DEF TextSize
  <2>3. CASE count # 0
    <3>1. k # 1 /\ k - 1 = count /\ count \in 1 .. Len(placed) /\ count \in 1 .. Len(code)
      BY <1>2, <2>3 DEF k
    <3>2. TextSize = placed[count].next /\ placed[count] \in PlacedBytes
      BY <1>2, <3>1 DEF TextSize, Last
    <3>3. /\ TextStart + placed[count].from = code[count].at
          /\ placed[count].next = placed[count].from + Sizes[code[count].ins]
      BY <3>1 DEF AssemblerInv, InPlaced, SideBySide
    <3>4. code[count].ins \in Emitted
      <4>1. code[count] \in PlacedIns
        BY <1>2, <3>1
      <4>2. QED
        BY <4>1 DEF PlacedIns
    <3>5. Sizes[code[count].ins] \in Nat
      BY <3>4, SizesTyped
    <3>6. placed[count].from \in Nat /\ placed[count].next \in Nat
      BY <3>2 DEF PlacedBytes
    <3>7. QED
      BY <2>1, <3>1, <3>2, <3>3, <3>5, <3>6, TextAssumption
  <2>4. QED
    BY <2>2, <2>3
<1>7. new \in PlacedBytes
  BY <1>4, <1>5, <1>6 DEF PlacedBytes
<1>8. /\ new.from = TextSize /\ new.bytes = BytesEncoded(ins) /\ new.next = TextSize + size
  OBVIOUS
<1> HIDE DEF new
<1>9. /\ placed' \in Seq(PlacedBytes) /\ Len(placed') = k
      /\ \A i \in 1 .. count : placed'[i] = placed[i]
      /\ placed'[k] = new
  BY <1>1, <1>2, <1>7 DEF k
<1>10. Sizes' = Sizes /\ Written' = Written
  BY <1>1, SizesSame
<1>11. ASSUME NEW i \in 1 .. Len(placed')
       PROVE  /\ TextStart + placed'[i].from = code[i].at
              /\ placed'[i].next = placed'[i].from + Sizes[code[i].ins]
              /\ placed'[i].bytes = Written[code[i].ins]
  <2>1. CASE i = k
    BY <1>4, <1>6, <1>8, <1>9, <2>1 DEF ins
  <2>2. CASE i # k
    <3>1. i \in 1 .. count /\ i \in 1 .. Len(placed)
      BY <1>2, <1>9, <2>2 DEF k
    <3>2. placed'[i] = placed[i]
      BY <1>9, <3>1
    <3>3. QED
      BY <3>1, <3>2 DEF AssemblerInv, InPlaced, SideBySide
  <2>3. QED
    BY <2>1, <2>2
<1>12. SideBySide(placed', code', Sizes', Written')
  <2>1. Len(placed') <= Len(code)
    BY <1>2, <1>9
  <2>2. QED
    BY <1>1, <1>9, <1>10, <1>11, <2>1 DEF SideBySide
<1>13. InPlaced'
  BY <1>1, <1>9, <1>12 DEF InPlaced
<1>14. InPhase' /\ InCompile' /\ InTarget' /\ InProgram'
  BY <1>1 DEF AssemblerInv, InPhase, InCompile, InTarget, InProgram
<1>15. InText' /\ InAddress'
  BY <1>1, NothingEmitted
<1>16. InCount' /\ InClean'
  BY <1>1, <1>2 DEF AssemblerInv, InCount, InClean
<1>17. QED
  BY <1>13, <1>14, <1>15, <1>16 DEF AssemblerInv

\* When the file is written nothing moves any more.
LEMMA WriteFileStep ==
  ASSUME AssemblerInv, WriteFile PROVE AssemblerInv'
<1>1. /\ phase = "encode" /\ count = Len(code) /\ phase' = "file"
      /\ UNCHANGED <<target, layout, code, address, src, count, placed>>
  BY DEF WriteFile
<1>2. InPhase' /\ InCompile' /\ InTarget' /\ InProgram'
  BY <1>1 DEF AssemblerInv, InPhase, InCompile, InTarget, InProgram, Phases
<1>3. InText' /\ InAddress'
  BY <1>1, NothingEmitted
<1>4. InCount' /\ InClean'
  BY <1>1 DEF AssemblerInv, InCount, InClean
<1>5. InPlaced'
  <2>1. Sizes' = Sizes /\ Written' = Written
    BY <1>1, SizesSame
  <2>2. SideBySide(placed', code', Sizes', Written') /\ Len(placed) = count
    BY <1>1, <2>1 DEF AssemblerInv, InPlaced
  <2>3. QED
    BY <1>1, <2>2 DEF InPlaced
<1>6. QED
  BY <1>2, <1>3, <1>4, <1>5 DEF AssemblerInv

\* A step of others than the optimizer leaves its invariant.
LEMMA SameOptimizer ==
  ASSUME OptimizerInv, UNCHANGED vars PROVE OptimizerInv'
<1>1. /\ program' = program /\ fn' = fn /\ ils' = ils /\ at' = at /\ optimized' = optimized
      /\ TypeOK /\ CountsFresh /\ ControlFresh
  BY DEF vars, OptimizerInv
<1>2. TypeOK'
  BY <1>1 DEF TypeOK
<1>3. CASE Done
  <2>1. Done'
    BY <1>1, <1>3 DEF Done
  <2>2. QED
    BY <1>2, <2>1 DEF OptimizerInv, CountsFresh, ControlFresh
<1>4. CASE ~Done
  <2>1. ControlFresh'
    BY <1>1, <1>4 DEF ControlFresh, Done, body, Control
  <2>2. CountsFresh'
    BY <1>1, <1>4 DEF CountsFresh, Done, body
  <2>3. QED
    BY <1>2, <2>1, <2>2 DEF OptimizerInv
<1>5. QED
  BY <1>3, <1>4

\* Every step keeps the invariant.
LEMMA AsmNextInv == AssemblerInv /\ [AsmNext]_assembler => AssemblerInv'
<1>1. SUFFICES ASSUME AssemblerInv, [AsmNext]_assembler PROVE AssemblerInv'
  OBVIOUS
<1>2. CASE UNCHANGED assembler
  <2>1. UNCHANGED <<phase, vars, program, target, layout, code, address, src, count, placed>>
        /\ ils' = ils
    BY <1>2 DEF assembler, generator, vars
  <2>2. InCompile'
    <3>1. SUFFICES ASSUME phase = "compile" PROVE InCompile'
      BY <2>1 DEF InCompile
    <3>2. OptimizerInv /\ Compiling(src.layout) /\ target = "none" /\ code = <<>> /\ address = <<>>
      BY <1>1, <3>1 DEF AssemblerInv, InCompile
    <3>3. OptimizerInv'
      BY <2>1, <3>2, SameOptimizer
    <3>4. Compiling(src.layout)'
      BY <2>1, <3>2 DEF Compiling
    <3>5. QED
      BY <2>1, <3>2, <3>3, <3>4 DEF InCompile
  <2>3. Sizes' = Sizes /\ Written' = Written /\ InText' /\ InAddress'
    BY <1>1, <2>1, NothingEmitted
  <2>4. InPhase' /\ InProgram' /\ InTarget' /\ InCount'
    BY <1>1, <2>1 DEF AssemblerInv, InPhase, InProgram, InTarget, InCount
  <2>5. InPlaced'
    <3>1. SideBySide(placed', code', Sizes', Written')
      BY <1>1, <2>1, <2>3 DEF AssemblerInv, InPlaced
    <3>2. QED
      BY <1>1, <2>1, <3>1 DEF AssemblerInv, InPlaced
  <2>6. InClean'
    BY <1>1, <2>1 DEF AssemblerInv, InClean
  <2>7. QED
    BY <2>2, <2>3, <2>4, <2>5, <2>6 DEF AssemblerInv
<1>3. CASE AsmNext
  BY <1>1, <1>3, CompileStep, EnterProgramStep, GenerateCrtStep, GeneratorMoves,
     EnterFunctionStep, VisitILStep, ResolveStep, ReportUnresolvedStep, EndResolveStep,
     EncodeStep, WriteFileStep DEF AsmNext
<1>4. QED
  BY <1>1, <1>2, <1>3

\* The invariant, for every set of programs and either target.
THEOREM AssemblerInvHolds == AsmSpec => []AssemblerInv
BY AsmInitInv, AsmNextInv, PTL DEF AsmSpec

\* Whatever the programs are: an instruction lies behind all that were emitted before it,
\* has a form and operands the encoders know, and what is known of a name is an address
\* of the code emitted so far or of the data.
THEOREM AddressesTyped == AsmSpec => []ATypeOK
<1>1. ASSUME AssemblerInv PROVE ATypeOK
  <2>1. target \in Targets \cup {"none"}
    BY <1>1 DEF AssemblerInv, InPhase, InTarget, InCompile
  <2>2. /\ count \in 0 .. Len(code)
        /\ Len(placed) = IF phase = "encode" THEN count ELSE IF phase = "file" THEN Len(code) ELSE 0
    BY <1>1 DEF AssemblerInv, InCount, InPlaced
  <2>3. Text = Top(code, Sizes) /\ Text \in Nat
    BY <1>1, TextIsTop DEF AssemblerInv, InText
  <2>4. /\ code \in Seq(PlacedIns)
        /\ \A i \in 1 .. Len(code) :
             code[i].at = IF i = 1 THEN TextStart
                          ELSE code[i - 1].at + Sizes[code[i - 1].ins]
    BY <1>1 DEF AssemblerInv, InText, InRow
  <2>5. \A i \in 1 .. Len(code) : code[i].ins \in Emitted
    <3>1. code \in Seq(PlacedIns)
      BY <2>4
    <3>2. \A i \in 1 .. Len(code) : code[i] \in PlacedIns
      BY <3>1
    <3>3. QED
      BY <3>2 DEF PlacedIns
  <2>6. ASSUME NEW i \in DOMAIN code
        PROVE  /\ code[i].at = IF i = 1 THEN TextStart
                               ELSE code[i - 1].at + GetLength(code[i - 1].ins)
               /\ EncoderKnows(code[i].ins)
    <3>1. i \in 1 .. Len(code) /\ Len(code) \in Nat
      BY <2>4
    <3>2. ASSUME i # 1
          PROVE  Sizes[code[i - 1].ins] = GetLength(code[i - 1].ins)
      <4>1. i - 1 \in 1 .. Len(code)
        BY <3>1, <3>2
      <4>2. QED
        BY <2>5, <4>1 DEF Sizes
    <3>3. code[i].ins \in Emitted
      BY <2>5, <3>1
    <3>4. EncoderKnows(code[i].ins)
      BY <3>3, EmittedFacts DEF EncoderKnows, Opnds, Operands, Modes, Convs, ModeCode
    <3>5. QED
      BY <2>4, <3>1, <3>2, <3>4
  <2>7. ASSUME NEW k \in DOMAIN address
        PROVE  /\ address[k] \in Nat
               /\ IF Len(k) = 2 THEN address[k] <= Text ELSE address[k] < TextStart
    BY <1>1, <2>3 DEF AssemblerInv, InAddress, Addresses
  <2>8. QED
    BY <2>1, <2>2, <2>6, <2>7 DEF ATypeOK
<1>2. AssemblerInv => ATypeOK
  BY <1>1
<1>3. QED
  BY <1>2, AssemblerInvHolds, PTL

\* No instruction in the file has the placeholder, or a name, for an address.
THEOREM NamesResolved == AsmSpec => []AllResolved
<1>1. ASSUME AssemblerInv PROVE AllResolved
  <2>1. SUFFICES ASSUME NEW i \in DOMAIN placed PROVE Clean(code[i].ins) /\ code[i].ins \in Emitted
    <3>1. ASSUME NEW i \in DOMAIN placed, NEW j \in DOMAIN code[i].ins.args
          PROVE  code[i].ins.args[j].ref = <<>> /\ code[i].ins.args[j].addr # Placeholder
      <4>1. Clean(code[i].ins) /\ code[i].ins \in Emitted
        BY <2>1
      <4>2. DOMAIN code[i].ins.args = 1 .. Len(code[i].ins.args)
        BY <4>1, EmittedFacts
      <4>3. QED
        BY <4>1, <4>2 DEF Clean
    <3>2. QED
      BY <3>1 DEF AllResolved
  <2>2. /\ placed \in Seq(PlacedBytes) /\ Len(placed) <= Len(code) /\ code \in Seq(PlacedIns)
    BY <1>1 DEF AssemblerInv, InPlaced, SideBySide, InText, InRow
  <2>3. i \in 1 .. Len(placed) /\ i \in 1 .. Len(code) /\ Len(placed) # 0
    BY <2>2
  <2>4. phase \in {"encode", "file"}
    BY <1>1, <2>3 DEF AssemblerInv, InPlaced
  <2>5. code[i] \in PlacedIns
    BY <2>2, <2>3
  <2>6. QED
    BY <1>1, <2>3, <2>4, <2>5 DEF AssemblerInv, InClean, CleanUpTo, PlacedIns
<1>2. AssemblerInv => AllResolved
  BY <1>1
<1>3. QED
  BY <1>2, AssemblerInvHolds, PTL

\* The bytes before the operands tell the instructions of a file apart.
THEOREM HeadersDiffer == AsmSpec => []HeadersTellApart
<1>1. ASSUME AssemblerInv, phase = "file" PROVE HeadersTellApart
  <2>1. target \in {"i0", "disa"} /\ code \in Seq(PlacedIns)
    BY <1>1, TextAssumption DEF AssemblerInv, InTarget, InText, InRow
  <2>2. ASSUME NEW i \in DOMAIN code, NEW j \in DOMAIN code,
               Header(code[i].ins) = Header(code[j].ins)
        PROVE  Fields(code[i].ins) = Fields(code[j].ins)
    <3>1. code[i] \in PlacedIns /\ code[j] \in PlacedIns
      BY <2>1
    <3>2. code[i].ins \in Emitted /\ code[j].ins \in Emitted
      BY <3>1 DEF PlacedIns
    <3>3. QED
      BY <2>1, <2>2, <3>2, HeadersTell
  <2>3. QED
    BY <2>2 DEF HeadersTellApart
<1>2. AssemblerInv => HeadersTellApart
  BY <1>1 DEF HeadersTellApart
<1>3. QED
  BY <1>2, AssemblerInvHolds, PTL

\* Where every instruction of the file is, and how many bytes it has.
ExactButShort == \A i \in DOMAIN placed :
  /\ TextStart + placed[i].from = code[i].at
  /\ ShortImmediate(code[i].ins) \/ placed[i].from + placed[i].bytes = placed[i].next
ShortPlaced == \E i \in DOMAIN placed : ShortImmediate(code[i].ins)

\* Every instruction lies in the file where the generator gave out its address, and
\* is as long as it was measured, but for an immediate of one byte outside of a
\* conv; and without one TextExact holds.
THEOREM FileExact == AsmSpec => [](ExactButShort /\ (TextExact \/ ShortPlaced))
<1>1. ASSUME AssemblerInv PROVE ExactButShort
  <2>1. SUFFICES ASSUME NEW i \in DOMAIN placed
                 PROVE  /\ TextStart + placed[i].from = code[i].at
                        /\ \/ ShortImmediate(code[i].ins)
                           \/ placed[i].from + placed[i].bytes = placed[i].next
    BY DEF ExactButShort
  <2>2. /\ placed \in Seq(PlacedBytes) /\ Len(placed) <= Len(code) /\ code \in Seq(PlacedIns)
    BY <1>1 DEF AssemblerInv, InPlaced, SideBySide, InText, InRow
  <2>3. i \in 1 .. Len(placed) /\ i \in 1 .. Len(code) /\ Len(placed) # 0
    BY <2>2
  <2>4. target \in {"i0", "disa"}
    BY <1>1, <2>3, TextAssumption DEF AssemblerInv, InPlaced, InTarget
  <2>5. code[i].ins \in Emitted
    <3>1. code[i] \in PlacedIns
      BY <2>2, <2>3
    <3>2. QED
      BY <3>1 DEF PlacedIns
  <2>6. /\ TextStart + placed[i].from = code[i].at
        /\ placed[i].next = placed[i].from + Sizes[code[i].ins]
        /\ placed[i].bytes = Written[code[i].ins]
    BY <1>1, <2>3 DEF AssemblerInv, InPlaced, SideBySide
  <2>7. Sizes[code[i].ins] = GetLength(code[i].ins) /\ Written[code[i].ins] = BytesEncoded(code[i].ins)
    BY <2>5 DEF Sizes, Written
  <2>8. ShortImmediate(code[i].ins) \/ BytesEncoded(code[i].ins) = GetLength(code[i].ins)
    BY <2>4, <2>5, BytesAreLength
  <2>9. QED
    BY <2>6, <2>7, <2>8
<1>2. ExactButShort => TextExact \/ ShortPlaced
  BY DEF ExactButShort, TextExact, ShortPlaced
<1>3. AssemblerInv => ExactButShort /\ (TextExact \/ ShortPlaced)
  BY <1>1, <1>2
<1>4. QED
  BY <1>3, AssemblerInvHolds, PTL
=============================================================================
