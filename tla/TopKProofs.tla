----------------------------- MODULE TopKProofs -----------------------------
(***************************************************************************)
(* Proofs about TopK for any number of vertices, any ranks and any TOPK_K:  *)
(* TopKInv is inductive, and what select_topk and sort promise follows.     *)
(***************************************************************************)
EXTENDS TopK, TLAPS, SequenceTheorems

-----------------------------------------------------------------------------
(* Lemmas                                                                  *)

(* A vertex at every position has a rank, and ranks are integers.          *)
LEMMA RanksAreIntegers ==
  ASSUME TypeOK, NEW c \in Positions
  PROVE  RankAt(c) \in Int
<1>1. value[idx[c]] \in Value
  BY DEF TypeOK
<1> QED  BY <1>1, TopKAssumption DEF RankAt

LEMMA BoundsAreIntegers ==
  ASSUME TypeOK, StackInv, NEW m \in Pairs
  PROVE  Start(m) \in Int /\ End(m) \in Int
<1>1. stack \in Seq(-1 .. vertices_cnt) /\ Len(stack) \in Nat
  BY LenProperties DEF TypeOK
<1>2. 2 * m \in 1 .. Len(stack) /\ 2 * m - 1 \in 1 .. Len(stack)
  BY <1>1 DEF Pairs, StackInv
<1> QED  BY <1>1, <1>2, ElementOfSeq, TopKAssumption DEF Start, End

(* A swap leaves a permutation, and moves two ranks.                       *)
LEMMA SwapRanks ==
  ASSUME TypeOK, NEW x \in Positions, NEW y \in Positions,
         idx' = Swapped(x, y), UNCHANGED value
  PROVE  /\ idx' \in [Positions -> Positions]
         /\ \A a, b \in Positions : idx'[a] = idx'[b] => a = b
         /\ \A c \in Positions :
              RankAt(c)' = IF c = x THEN RankAt(y)
                           ELSE IF c = y THEN RankAt(x) ELSE RankAt(c)
BY DEF TypeOK, Swapped, RankAt

(* What push and pop of a pair of bounds do to the stack.                  *)
LEMMA StackOfTwo ==
  ASSUME NEW a \in -1 .. vertices_cnt, NEW b \in -1 .. vertices_cnt,
         stack' = <<a, b>>
  PROVE  /\ stack' \in Seq(-1 .. vertices_cnt)
         /\ Pairs' = {1} /\ Len(stack') = 2
         /\ Start(1)' = a /\ End(1)' = b
BY DEF Pairs, Start, End

LEMMA StackPopped ==
  ASSUME stack \in Seq(-1 .. vertices_cnt), stack # <<>>, Len(stack) % 2 = 0,
         NEW h \in Nat, h = Len(stack) \div 2,
         stack' = SubSeq(stack, 1, Len(stack) - 2)
  PROVE  /\ stack' \in Seq(-1 .. vertices_cnt)
         /\ h \in Nat \ {0} /\ Len(stack) = 2 * h /\ Len(stack') = 2 * (h - 1)
         /\ Pairs = 1 .. h /\ Pairs' = 1 .. (h - 1)
         /\ Start(h) = stack[Len(stack) - 1] /\ End(h) = stack[Len(stack)]
         /\ \A m \in Pairs' : Start(m)' = Start(m) /\ End(m)' = End(m)
<1>1. Len(stack) \in Nat /\ Len(stack) >= 2
  BY EmptySeq
<1>2. /\ stack' \in Seq(-1 .. vertices_cnt) /\ Len(stack') = Len(stack) - 2
      /\ \A j \in 1 .. (Len(stack) - 2) : stack'[j] = stack[j]
  <2> DEFINE n == Len(stack) - 2
  <2>1. n \in Int /\ n >= 0 /\ n - 1 + 1 = n
    BY <1>1
  <2>2. \A j \in 1 .. n : j \in 1 .. Len(stack) /\ 1 + j - 1 = j
    BY <1>1
  <2>3. \A j \in 1 .. n : stack[j] \in -1 .. vertices_cnt
    BY <2>2, ElementOfSeq
  <2>4. /\ SubSeq(stack, 1, n) \in Seq(-1 .. vertices_cnt)
        /\ Len(SubSeq(stack, 1, n)) = IF 1 <= n THEN n - 1 + 1 ELSE 0
        /\ \A j \in 1 .. n - 1 + 1 : SubSeq(stack, 1, n)[j] = stack[1 + j - 1]
    <3> DEFINE T == -1 .. vertices_cnt
    <3>1. 1 \in Int /\ n \in Int /\ \A j \in 1 .. n : stack[j] \in T
      BY <2>1, <2>3
    <3> HIDE DEF n, T
    <3>2. /\ SubSeq(stack, 1, n) \in Seq(T)
          /\ Len(SubSeq(stack, 1, n)) = IF 1 <= n THEN n - 1 + 1 ELSE 0
          /\ \A j \in 1 .. n - 1 + 1 : SubSeq(stack, 1, n)[j] = stack[1 + j - 1]
      BY <3>1, SubSeqProperties
    <3> QED  BY <3>2 DEF T
  <2>5. Len(stack') = n
    BY <2>1, <2>4
  <2>6. \A j \in 1 .. n : stack'[j] = stack[j]
    BY <2>1, <2>2, <2>4
  <2> QED  BY <2>4, <2>5, <2>6
<1>3. h \in Nat /\ Len(stack) = 2 * h /\ h >= 1
  BY <1>1
<1>4. Len(stack') = 2 * (h - 1) /\ Len(stack') \div 2 = h - 1
  <2>1. Len(stack') = 2 * (h - 1)
    BY <1>2, <1>3
  <2>2. \A n \in Nat : (2 * n) \div 2 = n
    OBVIOUS
  <2>3. h - 1 \in Nat
    BY <1>3
  <2> QED  BY <2>1, <2>2, <2>3
<1>5. Pairs = 1 .. h /\ Pairs' = 1 .. (h - 1)
  BY <1>4 DEF Pairs
<1>6. \A m \in Pairs' : Start(m)' = Start(m) /\ End(m)' = End(m)
  <2> TAKE m \in Pairs'
  <2>1. m \in 1 .. (h - 1)  BY <1>5
  <2>2. 2 * m \in 1 .. (Len(stack) - 2) /\ 2 * m - 1 \in 1 .. (Len(stack) - 2)
    BY <2>1, <1>3
  <2> QED  BY <2>2, <1>2 DEF Start, End
<1> QED  BY <1>2, <1>3, <1>4, <1>5, <1>6 DEF Start, End

LEMMA StackPushed ==
  ASSUME stack \in Seq(-1 .. vertices_cnt), Len(stack) % 2 = 0,
         p + 1 \in -1 .. vertices_cnt, end \in -1 .. vertices_cnt,
         start \in -1 .. vertices_cnt, p - 1 \in -1 .. vertices_cnt,
         NEW h \in Nat, h = Len(stack) \div 2,
         Push
  PROVE  /\ stack' \in Seq(-1 .. vertices_cnt)
         /\ h \in Nat /\ Len(stack) = 2 * h
         /\ Len(stack') = 2 * (h + 2)
         /\ Pairs = 1 .. h /\ Pairs' = 1 .. (h + 2)
         /\ \A m \in Pairs : Start(m)' = Start(m) /\ End(m)' = End(m)
         /\ Start(h + 1)' = p + 1 /\ End(h + 1)' = end
         /\ Start(h + 2)' = start /\ End(h + 2)' = p - 1
<1> DEFINE new == <<p + 1, end, start, p - 1>>
<1>1. h \in Nat /\ Len(stack) = 2 * h
  BY LenProperties
<1>2. new \in Seq(-1 .. vertices_cnt) /\ Len(new) = 4
  OBVIOUS
<1>3. /\ stack' \in Seq(-1 .. vertices_cnt) /\ Len(stack') = Len(stack) + 4
      /\ \A j \in 1 .. Len(stack) : stack'[j] = stack[j]
      /\ \A j \in 1 .. 4 : stack'[Len(stack) + j] = new[j]
  BY <1>2, ConcatProperties DEF Push
<1>4. Len(stack') = 2 * (h + 2) /\ Len(stack') \div 2 = h + 2
  BY <1>1, <1>3
<1>5. Pairs = 1 .. h /\ Pairs' = 1 .. (h + 2)
  BY <1>4 DEF Pairs
<1>6. \A m \in Pairs : Start(m)' = Start(m) /\ End(m)' = End(m)
  <2> TAKE m \in Pairs
  <2>1. 2 * m \in 1 .. Len(stack) /\ 2 * m - 1 \in 1 .. Len(stack)
    BY <1>1, <1>5
  <2> QED  BY <2>1, <1>3 DEF Start, End
<1>7. /\ stack'[2 * h + 1] = p + 1 /\ stack'[2 * h + 2] = end
      /\ stack'[2 * h + 3] = start /\ stack'[2 * h + 4] = p - 1
  <2>1. new[1] = p + 1 /\ new[2] = end /\ new[3] = start /\ new[4] = p - 1
    OBVIOUS
  <2>2. /\ stack'[Len(stack) + 1] = new[1] /\ stack'[Len(stack) + 2] = new[2]
        /\ stack'[Len(stack) + 3] = new[3] /\ stack'[Len(stack) + 4] = new[4]
    BY <1>3
  <2> QED  BY <1>1, <2>1, <2>2
<1>8. /\ 2 * (h + 1) - 1 = 2 * h + 1 /\ 2 * (h + 1) = 2 * h + 2
      /\ 2 * (h + 2) - 1 = 2 * h + 3 /\ 2 * (h + 2) = 2 * h + 4
  BY <1>1
<1>9. Start(h + 1)' = p + 1 /\ End(h + 1)' = end /\ Start(h + 2)' = start /\ End(h + 2)' = p - 1
  BY <1>7, <1>8 DEF Start, End
<1> QED  BY <1>1, <1>3, <1>4, <1>5, <1>6, <1>9

-----------------------------------------------------------------------------
(* TopKInv is inductive                                                    *)

LEMMA InitInv == Init => TopKInv
<1> SUFFICES ASSUME Init PROVE TopKInv
  OBVIOUS
<1> USE TopKAssumption DEF Init
<1>1. stack = <<>> /\ Len(stack) = 0 /\ Pairs = {}
  BY DEF Pairs
<1>2. TypeOK
  BY <1>1 DEF TypeOK, Positions
<1>3. SelectInv
  BY <1>1 DEF SelectInv, Positions
<1>4. StackInv
  BY <1>1 DEF StackInv
<1> QED  BY <1>2, <1>3, <1>4 DEF TopKInv, TopSelected, LoopInv, SortInv

(* The guards and the range within which a step works.                     *)
LEMMA SelectKeeps == TopKInv /\ Select => TopKInv'
<1> SUFFICES ASSUME TopKInv, Select PROVE TopKInv'
  OBVIOUS
<1> USE TopKAssumption DEF Select, EnterLoop, range
<1>1. start \in Positions /\ start < end
  BY DEF TopKInv, TypeOK, SelectInv, Positions
<1>2. TypeOK'
  BY <1>1 DEF TopKInv, TypeOK, Positions
<1>3. SelectInv' /\ TopSelected'
  BY DEF TopKInv, SelectInv, TopSelected, RankAt
<1>4. LoopInv'
  BY <1>1 DEF TopKInv, TypeOK, LoopInv, RankAt
<1>5. StackInv' /\ SortInv'
  BY DEF TopKInv, StackInv, SortInv, Pairs, Start, End
<1> QED  BY <1>2, <1>3, <1>4, <1>5 DEF TopKInv

(* What the sort begins with: the top, all of it pending.                  *)
LEMMA SortStarts ==
  ASSUME TypeOK', StartSort, loop' = "outside", Len(stack') = 2,
         \A a \in Positions \ Top, b \in Top : RankAt(a)' <= RankAt(b)'
  PROVE  TopKInv'
<1> USE TopKAssumption DEF StartSort
<1> DEFINE low == vertices_cnt - TOPK_K
           high == vertices_cnt - 1
<1>1. low \in -1 .. vertices_cnt /\ high \in -1 .. vertices_cnt /\ low <= high
  OBVIOUS
<1>2. Pairs' = {1} /\ Start(1)' = low /\ End(1)' = high
  BY <1>1, StackOfTwo
<1>3. StackInv'
  BY <1>1, <1>2 DEF StackInv
<1>4. SortInv'
  BY <1>1, <1>2 DEF SortInv, Pending, Top
<1> QED  BY <1>3, <1>4 DEF TopKInv, TopSelected, SelectInv, LoopInv, Positions, Top

LEMMA SelectAllKeeps == TopKInv /\ SelectAll => TopKInv'
<1> SUFFICES ASSUME TopKInv, SelectAll PROVE TopKInv'
  OBVIOUS
<1> USE TopKAssumption DEF SelectAll
<1>1. start = vertices_cnt - TOPK_K
  BY DEF TopKInv, TypeOK, SelectInv
<1>2. \A a \in Positions \ Top, b \in Top : RankAt(a)' <= RankAt(b)'
  BY <1>1 DEF TopKInv, SelectInv, Positions, Top, RankAt
<1>3. stack' \in Seq(-1 .. vertices_cnt) /\ Len(stack') = 2
  BY StackOfTwo DEF StartSort
<1>4. TypeOK'
  BY <1>3 DEF TopKInv, TypeOK, StartSort, range
<1> QED  BY <1>2, <1>3, <1>4, SortStarts DEF TopKInv, TypeOK

-----------------------------------------------------------------------------
(* Move swaps within the range.                                            *)

LEMMA MoveKeeps == TopKInv /\ Move => TopKInv'
<1> SUFFICES ASSUME TopKInv, Move PROVE TopKInv'
  OBVIOUS
<1> USE TopKAssumption DEF Move, range
<1>0. TypeOK /\ StackInv
  BY DEF TopKInv
<1>1. /\ start \in Positions /\ end \in Positions /\ p \in Positions /\ i \in Positions
      /\ start \in Int /\ end \in Int /\ p \in Int /\ i \in Int
      /\ start <= p /\ p <= i /\ i < end
  BY <1>0 DEF TypeOK, Positions
<1>2. \A c \in Positions : RankAt(c) \in Int
  BY <1>0, RanksAreIntegers
<1>3. CASE RankAt(i) < RankAt(end)
  <2>1. idx' = Swapped(i, p) /\ p' = p + 1 /\ i' = i + 1
    BY <1>3
  <2>2. /\ idx' \in [Positions -> Positions]
        /\ \A a, b \in Positions : idx'[a] = idx'[b] => a = b
        /\ \A c \in Positions :
             RankAt(c)' = IF c = i THEN RankAt(p)
                          ELSE IF c = p THEN RankAt(i) ELSE RankAt(c)
    BY <1>0, <1>1, <2>1, SwapRanks
  <2>3. TypeOK'
    <3>1. p + 1 \in Positions /\ i + 1 \in Positions /\ p + 1 <= i + 1 /\ i + 1 <= end
      BY <1>1 DEF Positions
    <3>2. UNCHANGED <<value, work, loop, start, end, k, stack>>
      OBVIOUS
    <3> QED  BY <1>0, <1>1, <2>1, <2>2, <3>1, <3>2 DEF TypeOK
  <2>4. TopSelected'
    <3> SUFFICES ASSUME work = "sort", NEW a \in Positions \ Top, NEW b \in Top
                 PROVE  RankAt(a)' <= RankAt(b)'
      BY DEF TopSelected
    <3>1. vertices_cnt - TOPK_K <= start
      BY DEF TopKInv, StackInv
    <3>2. i \in Top /\ p \in Top /\ b \in Positions
      BY <1>1, <3>1 DEF Top, Positions
    <3>3. RankAt(a)' = RankAt(a)
      BY <2>2, <3>2
    <3>4. RankAt(a) <= RankAt(b) /\ RankAt(a) <= RankAt(i) /\ RankAt(a) <= RankAt(p)
      BY <3>2 DEF TopKInv, TopSelected
    <3> QED  BY <2>2, <3>2, <3>3, <3>4
  <2>5. SelectInv'
    <3>1. CASE work = "select"
      <4> SUFFICES ASSUME NEW a \in Positions, NEW b \in Positions,
                          (a < start /\ start <= b) \/ (a <= end /\ end < b)
                   PROVE  RankAt(a)' <= RankAt(b)'
        BY <3>1 DEF TopKInv, SelectInv
      <4>1. \A c, d \in Positions :
              (c < start /\ start <= d) \/ (c <= end /\ end < d)
              => RankAt(c) <= RankAt(d)
        BY <3>1 DEF TopKInv, SelectInv
      <4>2. CASE a < start /\ start <= b
        <5>1. RankAt(a)' = RankAt(a)
          BY <1>1, <2>2, <4>2
        <5>2. RankAt(a) <= RankAt(b) /\ RankAt(a) <= RankAt(i) /\ RankAt(a) <= RankAt(p)
          BY <1>1, <4>1, <4>2 DEF Positions
        <5> QED  BY <1>1, <2>2, <5>1, <5>2
      <4>3. CASE a <= end /\ end < b
        <5>1. RankAt(b)' = RankAt(b)
          BY <1>1, <2>2, <4>3 DEF Positions
        <5>2. RankAt(a) <= RankAt(b) /\ RankAt(i) <= RankAt(b) /\ RankAt(p) <= RankAt(b)
          BY <1>1, <4>1, <4>3 DEF Positions
        <5> QED  BY <1>1, <2>2, <5>1, <5>2
      <4> QED  BY <4>2, <4>3
    <3> QED  BY <3>1 DEF SelectInv
  <2>6. LoopInv'
    <3>1. \A a \in start .. (p - 1) : RankAt(a) < RankAt(end)
      BY DEF TopKInv, LoopInv
    <3>2. \A a \in p .. (i - 1) : RankAt(end) <= RankAt(a)
      BY DEF TopKInv, LoopInv
    <3>3. RankAt(end)' = RankAt(end)
      BY <1>1, <2>2 DEF Positions
    <3>4. \A a \in start .. p : RankAt(a)' < RankAt(end)'
      <4> TAKE a \in start .. p
      <4>1. a \in Positions /\ (a # i \/ a = p)
        BY <1>1 DEF Positions
      <4>2. CASE a = p
        BY <1>1, <1>3, <2>2, <3>3, <4>2
      <4>3. CASE a # p
        BY <1>1, <2>2, <3>1, <3>3, <4>1, <4>3
      <4> QED  BY <4>2, <4>3
    <3>5. \A a \in (p + 1) .. i : RankAt(end)' <= RankAt(a)'
      <4> TAKE a \in (p + 1) .. i
      <4>1. a \in Positions /\ a # p
        BY <1>1 DEF Positions
      <4>2. CASE a = i
        <5>1. RankAt(a)' = RankAt(p)
          BY <2>2, <4>1, <4>2
        <5>2. p \in p .. (i - 1)
          BY <1>1, <4>2
        <5> QED  BY <3>2, <3>3, <5>1, <5>2
      <4>3. CASE a # i
        <5>1. RankAt(a)' = RankAt(a)
          BY <2>2, <4>1, <4>3
        <5>2. a \in p .. (i - 1)
          BY <1>1, <4>3
        <5> QED  BY <3>2, <3>3, <5>1, <5>2
      <4> QED  BY <4>2, <4>3
    <3> QED  BY <1>1, <2>1, <3>4, <3>5 DEF LoopInv, Positions
  <2>7. StackInv'
    BY DEF TopKInv, StackInv, Pairs, Start, End
  <2>8. SortInv'
    <3> SUFFICES ASSUME work = "sort", NEW a \in Top, NEW b \in Top, a < b
                 PROVE  RankAt(a)' <= RankAt(b)' \/ Pending(a, b)'
      BY DEF SortInv
    <3>1. \A c, d \in Top : c < d => RankAt(c) <= RankAt(d) \/ Pending(c, d)
      BY DEF TopKInv, SortInv
    <3>2. \A c, d : Pending(c, d)' <=> Pending(c, d)
      BY DEF Pending, Pairs, Start, End
    <3>3. \A m \in Pairs : end < Start(m)
      BY DEF TopKInv, StackInv
    <3>4. i \in Top /\ p \in Top /\ a \in Positions /\ b \in Positions
      BY <1>1 DEF TopKInv, StackInv, Top, Positions
    <3>5. CASE start <= a /\ b <= end
      BY <3>2, <3>5 DEF Pending
    <3>6. CASE start <= a /\ a <= end /\ end < b
      <4>1. RankAt(b)' = RankAt(b)
        BY <1>1, <2>2, <3>4, <3>6
      <4>2. \A c \in Top : start <= c /\ c <= end => RankAt(c) <= RankAt(b)
        <5> SUFFICES ASSUME NEW c \in Top, start <= c, c <= end
                     PROVE  RankAt(c) <= RankAt(b)
          OBVIOUS
        <5>1. c < b
          BY <1>1, <3>6 DEF Top, Positions
        <5>2. ~ Pending(c, b)
          BY <1>0, <1>1, <3>3, <3>4, <3>6, BoundsAreIntegers DEF Pending, Top, Positions
        <5> QED  BY <3>1, <5>1, <5>2
      <4> QED  BY <1>1, <2>2, <3>4, <3>6, <4>1, <4>2
    <3>7. CASE a < start /\ start <= b /\ b <= end
      <4>1. RankAt(a)' = RankAt(a)
        BY <1>1, <2>2, <3>4, <3>7
      <4>2. \A c \in Top : start <= c /\ c <= end => RankAt(a) <= RankAt(c)
        <5> SUFFICES ASSUME NEW c \in Top, start <= c, c <= end
                     PROVE  RankAt(a) <= RankAt(c)
          OBVIOUS
        <5>1. a < c
          BY <1>1, <3>7 DEF Top, Positions
        <5>2. ~ Pending(a, c)
          <6>1. \A m \in Pairs : ~ (Start(m) <= a)
            BY <1>0, <1>1, <3>3, <3>4, <3>7, BoundsAreIntegers DEF Positions
          <6> QED  BY <1>1, <3>4, <3>7, <6>1 DEF Pending, Positions
        <5> QED  BY <3>1, <5>1, <5>2
      <4> QED  BY <1>1, <2>2, <3>4, <3>7, <4>1, <4>2
    <3>8. CASE (a < start \/ end < a) /\ (b < start \/ end < b)
      <4>1. RankAt(a)' = RankAt(a) /\ RankAt(b)' = RankAt(b)
        BY <1>1, <2>2, <3>4, <3>8
      <4> QED  BY <3>1, <3>2, <4>1
    <3> QED  BY <1>1, <3>4, <3>5, <3>6, <3>7, <3>8 DEF Positions
  <2> QED  BY <2>3, <2>4, <2>5, <2>6, <2>7, <2>8 DEF TopKInv
<1>4. CASE ~ (RankAt(i) < RankAt(end))
  <2>1. idx' = idx /\ p' = p /\ i' = i + 1
    BY <1>4
  <2>2. TypeOK'
    <3>1. i + 1 \in Positions /\ p <= i + 1 /\ i + 1 <= end
      BY <1>1 DEF Positions
    <3>2. UNCHANGED <<value, work, loop, start, end, k, stack>>
      OBVIOUS
    <3> QED  BY <1>0, <1>1, <2>1, <3>1, <3>2 DEF TypeOK
  <2>3. TopSelected' /\ SelectInv' /\ StackInv' /\ SortInv'
    BY <2>1 DEF TopKInv, TopSelected, SelectInv, StackInv, SortInv, Pending,
                Pairs, Start, End, RankAt
  <2>4. LoopInv'
    <3>1. \A a \in p .. i : RankAt(end) <= RankAt(a)
      BY <1>1, <1>2, <1>4 DEF TopKInv, LoopInv
    <3> QED  BY <1>1, <2>1, <3>1 DEF TopKInv, LoopInv, RankAt
  <2> QED  BY <2>2, <2>3, <2>4 DEF TopKInv
<1> QED  BY <1>3, <1>4

-----------------------------------------------------------------------------
(* The end of the loop: the last one of the range is put at p.             *)

LEMMA Partitioned ==
  ASSUME TopKInv, LeaveLoop
  PROVE  /\ start \in Positions /\ end \in Positions /\ p \in start .. end
         /\ start < end
         /\ idx' \in [Positions -> Positions]
         /\ \A a, b \in Positions : idx'[a] = idx'[b] => a = b
         /\ \A c \in Positions : RankAt(c)' \in Int
         /\ \A c \in Positions \ (start .. end) : RankAt(c)' = RankAt(c)
         /\ \A c \in start .. end : \E d \in start .. end : RankAt(c)' = RankAt(d)
         /\ \E pivot \in Int :
              /\ \A c \in start .. p : RankAt(c)' <= pivot
              /\ \A c \in p .. end : pivot <= RankAt(c)'
<1> USE TopKAssumption DEF LeaveLoop
<1>0. TypeOK /\ LoopInv
  BY DEF TopKInv
<1>1. /\ start \in Positions /\ end \in Positions /\ p \in Positions /\ i = end
      /\ start \in Int /\ end \in Int /\ p \in Int
      /\ start <= p /\ p <= end /\ start < end
  BY <1>0 DEF TypeOK, LoopInv, Positions
<1>2. \A c \in Positions : RankAt(c) \in Int
  BY <1>0, RanksAreIntegers
<1>3. /\ idx' \in [Positions -> Positions]
      /\ \A a, b \in Positions : idx'[a] = idx'[b] => a = b
      /\ \A c \in Positions :
           RankAt(c)' = IF c = end THEN RankAt(p)
                        ELSE IF c = p THEN RankAt(end) ELSE RankAt(c)
  BY <1>0, <1>1, SwapRanks
<1>4. \A c \in start .. end : c \in Positions
  BY <1>1 DEF Positions
<1>5. /\ \A c \in start .. (p - 1) : RankAt(c) < RankAt(end)
      /\ \A c \in p .. (end - 1) : RankAt(end) <= RankAt(c)
  BY <1>0, <1>1 DEF LoopInv
<1>6. \A c \in start .. p : RankAt(c)' <= RankAt(end)
  <2> TAKE c \in start .. p
  <2>1. c \in Positions /\ (c = end => c = p)
    BY <1>1, <1>4
  <2>2. CASE c = p
    <3>1. RankAt(c)' = RankAt(end)
      BY <1>1, <1>3, <2>1, <2>2
    <3> QED  BY <1>1, <1>2, <3>1
  <2>3. CASE c # p
    <3>1. RankAt(c)' = RankAt(c)
      BY <1>3, <2>1, <2>3
    <3>2. RankAt(c) < RankAt(end)
      BY <1>1, <1>5, <2>3
    <3> QED  BY <1>1, <1>2, <2>1, <3>1, <3>2
  <2> QED  BY <2>2, <2>3
<1>7. \A c \in p .. end : RankAt(end) <= RankAt(c)'
  <2> TAKE c \in p .. end
  <2>1. c \in Positions
    BY <1>1, <1>4
  <2>2. CASE c = end
    <3>1. RankAt(c)' = RankAt(p)
      BY <1>3, <2>1, <2>2
    <3>2. RankAt(end) <= RankAt(p)
      BY <1>1, <1>2, <1>5
    <3> QED  BY <3>1, <3>2
  <2>3. CASE c # end /\ c = p
    <3>1. RankAt(c)' = RankAt(end)
      BY <1>3, <2>1, <2>3
    <3> QED  BY <1>1, <1>2, <3>1
  <2>4. CASE c # end /\ c # p
    <3>1. RankAt(c)' = RankAt(c)
      BY <1>3, <2>1, <2>4
    <3>2. RankAt(end) <= RankAt(c)
      BY <1>1, <1>5, <2>4
    <3> QED  BY <3>1, <3>2
  <2> QED  BY <2>2, <2>3, <2>4
<1>8. \E pivot \in Int : /\ \A c \in start .. p : RankAt(c)' <= pivot
                         /\ \A c \in p .. end : pivot <= RankAt(c)'
  BY <1>1, <1>2, <1>6, <1>7
<1>9. \A c \in Positions : RankAt(c)' \in Int
  BY <1>1, <1>2, <1>3
<1>10. \A c \in Positions \ (start .. end) : RankAt(c)' = RankAt(c)
  BY <1>1, <1>3
<1>11. \A c \in start .. end : \E d \in start .. end : RankAt(c)' = RankAt(d)
  BY <1>1, <1>3, <1>4
<1> QED  BY <1>1, <1>3, <1>8, <1>9, <1>10, <1>11

LEMMA SelectedKeeps == TopKInv /\ Selected => TopKInv'
<1> SUFFICES ASSUME TopKInv, Selected PROVE TopKInv'
  OBVIOUS
<1> USE TopKAssumption DEF Selected
<1>0. TypeOK /\ SelectInv /\ StackInv /\ work = "select" /\ LeaveLoop
  BY DEF TopKInv
<1>1. /\ start \in Positions /\ end \in Positions /\ p \in start .. end
      /\ start < end
      /\ idx' \in [Positions -> Positions]
      /\ \A a, b \in Positions : idx'[a] = idx'[b] => a = b
      /\ \A c \in Positions : RankAt(c)' \in Int
      /\ \A c \in Positions \ (start .. end) : RankAt(c)' = RankAt(c)
      /\ \A c \in start .. end : \E d \in start .. end : RankAt(c)' = RankAt(d)
  BY <1>0, Partitioned
<1>pivot. PICK pivot \in Int : /\ \A c \in start .. p : RankAt(c)' <= pivot
                               /\ \A c \in p .. end : pivot <= RankAt(c)'
  BY <1>0, Partitioned
<1>2. start \in Int /\ end \in Int /\ p \in Int /\ start <= p /\ p <= end /\ k \in Int
  BY <1>0, <1>1 DEF Positions, TypeOK
<1>3. \A a, b \in Positions :
        (a < start /\ start <= b) \/ (a <= end /\ end < b) => RankAt(a)' <= RankAt(b)'
  <2> SUFFICES ASSUME NEW a \in Positions, NEW b \in Positions,
                      (a < start /\ start <= b) \/ (a <= end /\ end < b)
               PROVE  RankAt(a)' <= RankAt(b)'
    OBVIOUS
  <2>1. \A c, d \in Positions :
          (c < start /\ start <= d) \/ (c <= end /\ end < d) => RankAt(c) <= RankAt(d)
    BY <1>0 DEF SelectInv
  <2>2. \A c \in Positions : \E d \in Positions :
          /\ RankAt(c)' = RankAt(d)
          /\ (c < start) <=> (d < start)
          /\ (end < c) <=> (end < d)
    <3> TAKE c \in Positions
    <3>1. CASE c \in start .. end
      <4>1. PICK d \in start .. end : RankAt(c)' = RankAt(d)
        BY <1>1, <3>1
      <4>2. d \in Positions /\ ~ (d < start) /\ ~ (end < d) /\ ~ (c < start) /\ ~ (end < c)
        BY <1>1, <1>2, <3>1 DEF Positions
      <4> QED  BY <4>1, <4>2
    <3>2. CASE c \notin start .. end
      BY <1>1, <3>2
    <3> QED  BY <3>1, <3>2
  <2>3. PICK c \in Positions : /\ RankAt(a)' = RankAt(c)
                               /\ (a < start) <=> (c < start)
                               /\ (end < a) <=> (end < c)
    BY <2>2
  <2>4. PICK d \in Positions : /\ RankAt(b)' = RankAt(d)
                               /\ (b < start) <=> (d < start)
                               /\ (end < b) <=> (end < d)
    BY <2>2
  <2>5. (c < start /\ start <= d) \/ (c <= end /\ end < d)
    BY <1>2, <2>3, <2>4 DEF Positions
  <2>6. RankAt(c) <= RankAt(d)
    BY <2>1, <2>5
  <2> QED  BY <2>3, <2>4, <2>6
<1>4. \A a, b \in Positions : a < p /\ p <= b => RankAt(a)' <= RankAt(b)'
  <2> SUFFICES ASSUME NEW a \in Positions, NEW b \in Positions, a < p, p <= b
               PROVE  RankAt(a)' <= RankAt(b)'
    OBVIOUS
  <2>1. CASE a < start \/ end < b
    BY <1>2, <1>3, <2>1 DEF Positions
  <2>2. CASE start <= a /\ b <= end
    <3>1. RankAt(a)' <= pivot /\ pivot <= RankAt(b)'
      BY <1>2, <1>pivot, <2>2 DEF Positions
    <3> QED  BY <1>1, <3>1
  <2> QED  BY <1>2, <2>1, <2>2 DEF Positions
<1>5. \A a, b \in Positions : a <= p /\ p < b => RankAt(a)' <= RankAt(b)'
  <2> SUFFICES ASSUME NEW a \in Positions, NEW b \in Positions, a <= p, p < b
               PROVE  RankAt(a)' <= RankAt(b)'
    OBVIOUS
  <2>1. CASE a < p
    BY <1>2, <1>4, <2>1 DEF Positions
  <2>2. CASE a = p /\ b <= end
    <3>1. RankAt(a)' <= pivot /\ pivot <= RankAt(b)'
      BY <1>2, <1>pivot, <2>2 DEF Positions
    <3> QED  BY <1>1, <3>1
  <2>3. CASE a = p /\ end < b
    BY <1>2, <1>3, <2>3 DEF Positions
  <2> QED  BY <1>2, <2>1, <2>2, <2>3 DEF Positions
<1>6. CASE Upper = k /\ StartSort
  <2>1. p = vertices_cnt - TOPK_K
    BY <1>0, <1>2, <1>6 DEF SelectInv, Upper
  <2>2. \A a \in Positions \ Top, b \in Top : RankAt(a)' <= RankAt(b)'
    BY <1>4, <2>1 DEF Positions, Top
  <2>3. stack' \in Seq(-1 .. vertices_cnt) /\ Len(stack') = 2
    BY <1>6, StackOfTwo DEF StartSort
  <2>4. UNCHANGED <<value, p, i, start, end, k>> /\ work' = "sort" /\ loop' = "outside"
    BY <1>6 DEF StartSort, LeaveLoop, range
  <2>5. TypeOK'
    BY <1>0, <1>1, <2>3, <2>4 DEF TypeOK
  <2> QED  BY <1>6, <2>2, <2>3, <2>4, <2>5, SortStarts
<1>7. CASE Narrow /\ UNCHANGED <<work, stack>>
  <2>1. UNCHANGED <<value, p, i, work, stack>> /\ loop' = "outside"
    BY <1>7 DEF LeaveLoop
  <2>2. stack = <<>> /\ end + 1 - k = vertices_cnt - TOPK_K /\ start + k <= end + 1
    BY <1>0 DEF SelectInv
  <2>3. CASE Upper < k /\ end' = p - 1 /\ k' = k - Upper /\ UNCHANGED start
    <3>1. end' \in -1 .. (vertices_cnt - 1) /\ k' \in 1 .. TOPK_K
      BY <1>0, <1>1, <1>2, <2>3 DEF Upper, TypeOK, Positions
    <3>2. TypeOK'
      BY <1>0, <1>1, <2>1, <2>3, <3>1 DEF TypeOK
    <3>3. end' + 1 - k' = vertices_cnt - TOPK_K /\ start' + k' <= end' + 1
      BY <1>2, <2>2, <2>3 DEF Upper
    <3>4. \A a, b \in Positions :
            (a < start' /\ start' <= b) \/ (a <= end' /\ end' < b)
            => RankAt(a)' <= RankAt(b)'
      BY <1>2, <1>3, <1>4, <2>3 DEF Positions
    <3>5. SelectInv'
      BY <2>1, <2>2, <3>3, <3>4 DEF SelectInv, Positions
    <3> QED  BY <1>0, <2>1, <2>2, <3>2, <3>5
               DEF TopKInv, TopSelected, LoopInv, StackInv, SortInv, Pairs, Start, End
  <2>4. CASE Upper > k /\ start' = p + 1 /\ UNCHANGED <<end, k>>
    <3>1. start' \in 0 .. vertices_cnt
      BY <1>1, <1>2, <2>4 DEF Positions
    <3>2. TypeOK'
      BY <1>0, <1>1, <2>1, <2>4, <3>1 DEF TypeOK
    <3>3. end' + 1 - k' = vertices_cnt - TOPK_K /\ start' + k' <= end' + 1
      BY <1>2, <2>2, <2>4 DEF Upper
    <3>4. \A a, b \in Positions :
            (a < start' /\ start' <= b) \/ (a <= end' /\ end' < b)
            => RankAt(a)' <= RankAt(b)'
      BY <1>2, <1>3, <1>5, <2>4 DEF Positions
    <3>5. SelectInv'
      BY <2>1, <2>2, <3>3, <3>4 DEF SelectInv, Positions
    <3> QED  BY <1>0, <2>1, <2>2, <3>2, <3>5
               DEF TopKInv, TopSelected, LoopInv, StackInv, SortInv, Pairs, Start, End
  <2> QED  BY <1>7, <2>3, <2>4 DEF Narrow
<1> QED  BY <1>6, <1>7
-----------------------------------------------------------------------------
(* The sort takes a pair of bounds from its stack.                         *)

LEMMA PopKeeps == TopKInv /\ Pop => TopKInv'
<1> SUFFICES ASSUME TopKInv, Pop PROVE TopKInv'
  OBVIOUS
<1> USE TopKAssumption DEF Pop, EnterLoop
<1>0. TypeOK /\ StackInv /\ SortInv
  BY DEF TopKInv
<1>h. PICK h \in Nat : h = Len(stack) \div 2
  BY <1>0, LenProperties DEF TypeOK, StackInv
<1>1. /\ stack' \in Seq(-1 .. vertices_cnt)
      /\ Len(stack') = 2 * (h - 1) /\ Len(stack) = 2 * h
      /\ h \in Nat \ {0} /\ Pairs = 1 .. h /\ Pairs' = 1 .. (h - 1)
      /\ start' = Start(h) /\ end' = End(h)
      /\ \A m \in Pairs' : Start(m)' = Start(m) /\ End(m)' = End(m)
  BY <1>0, <1>h, StackPopped DEF TypeOK, StackInv
<1>2. h \in Pairs /\ Pairs' = Pairs \ {h} /\ Len(stack') \div 2 = h - 1
  BY <1>1
<1>3. /\ start' \in Int /\ end' \in Int
      /\ vertices_cnt - TOPK_K <= start' /\ start' <= end' + 1
      /\ end' + h <= vertices_cnt
  BY <1>0, <1>1, <1>2, BoundsAreIntegers DEF StackInv
<1>4. TypeOK'
  <2>1. start' \in 0 .. vertices_cnt /\ end' \in -1 .. (vertices_cnt - 1)
    <3>1. PICK low \in Int : low = start'
      BY <1>3
    <3>2. PICK high \in Int : high = end'
      BY <1>3
    <3>3. /\ vertices_cnt - TOPK_K <= low /\ low <= high + 1
          /\ high + h <= vertices_cnt /\ h >= 1
      BY <1>1, <1>3, <3>1, <3>2
    <3>4. low \in 0 .. vertices_cnt /\ high \in -1 .. (vertices_cnt - 1)
      BY <3>3
    <3> QED  BY <3>1, <3>2, <3>4
  <2>2. CASE end' > start'
    <3>1. loop' = "inside" /\ p' = start' /\ i' = start'
      BY <2>2
    <3>2. start' \in Positions /\ start' <= start'
      BY <2>1, <2>2 DEF Positions
    <3>3. p' \in Positions /\ i' \in Positions /\ start' <= p' /\ p' <= i' /\ i' <= end'
      BY <2>1, <2>2, <3>1, <3>2
    <3>4. UNCHANGED <<value, idx, work, k>>
      OBVIOUS
    <3> HIDE DEF Pop
    <3> QED  BY <1>0, <1>1, <2>1, <3>1, <3>3, <3>4 DEF TypeOK
  <2>3. CASE ~ (end' > start')
    <3>1. loop' = "outside" /\ UNCHANGED <<p, i>>
      BY <2>3
    <3> QED  BY <1>0, <1>1, <2>1, <3>1 DEF TypeOK
  <2> QED  BY <2>2, <2>3
<1>5. TopSelected' /\ SelectInv'
  BY DEF TopKInv, TopSelected, SelectInv, RankAt
<1>6. LoopInv'
  BY <1>3 DEF LoopInv
<1>7. StackInv'
  <2>1. Len(stack') % 2 = 0 /\ Len(stack') <= 2 * TOPK_K
    BY <1>0, <1>1, <1>2 DEF StackInv
  <2>2. \A m \in Pairs' :
          /\ vertices_cnt - TOPK_K <= Start(m)' /\ Start(m)' <= End(m)' + 1
          /\ End(m)' + m <= vertices_cnt
          /\ \A o \in Pairs' : m < o => End(o)' < Start(m)'
    BY <1>0, <1>1, <1>2 DEF StackInv
  <2>3. end' + Len(stack') \div 2 < vertices_cnt
    <3>1. PICK high \in Int : high = end'
      BY <1>3
    <3>2. high + (h - 1) < vertices_cnt
      BY <1>3, <3>1
    <3> QED  BY <1>2, <3>1, <3>2
  <2>4. \A m \in Pairs' : end' < Start(m)'
    <3> TAKE m \in Pairs'
    <3>1. m \in Pairs /\ m < h /\ Start(m)' = Start(m)
      BY <1>1, <1>2
    <3> QED  BY <1>0, <1>1, <1>2, <3>1 DEF StackInv
  <2> QED  BY <1>3, <2>1, <2>2, <2>3, <2>4 DEF StackInv
<1>8. SortInv'
  <2> SUFFICES ASSUME NEW a \in Top, NEW b \in Top, a < b
               PROVE  RankAt(a)' <= RankAt(b)' \/ Pending(a, b)'
    BY DEF SortInv
  <2>1. RankAt(a)' = RankAt(a) /\ RankAt(b)' = RankAt(b)
    BY DEF RankAt
  <2>2. RankAt(a) <= RankAt(b) \/ \E m \in Pairs : Start(m) <= a /\ b <= End(m)
    BY <1>0 DEF SortInv, Pending
  <2>3. CASE Start(h) <= a /\ b <= End(h)
    <3>1. start' <= a /\ b <= end' /\ end' > start'
      BY <1>1, <1>3, <2>3 DEF Top
    <3> QED  BY <3>1 DEF Pending
  <2>4. CASE \E m \in Pairs \ {h} : Start(m) <= a /\ b <= End(m)
    BY <1>1, <1>2, <2>4 DEF Pending
  <2> QED  BY <2>1, <2>2, <2>3, <2>4
<1> QED  BY <1>4, <1>5, <1>6, <1>7, <1>8 DEF TopKInv

(* ... and leaves it two others, for what lies to each side of p.          *)
LEMMA SortedKeeps == TopKInv /\ Sorted => TopKInv'
<1> SUFFICES ASSUME TopKInv, Sorted PROVE TopKInv'
  OBVIOUS
<1> USE TopKAssumption DEF Sorted
<1>0. /\ TypeOK /\ TopSelected /\ StackInv /\ SortInv /\ LeaveLoop
      /\ work = "sort" /\ loop = "inside"
      /\ UNCHANGED <<value, p, i, work, start, end, k>> /\ loop' = "outside"
  BY DEF TopKInv, LeaveLoop, range
<1>1. /\ start \in Positions /\ end \in Positions /\ p \in start .. end
      /\ start < end
      /\ idx' \in [Positions -> Positions]
      /\ \A a, b \in Positions : idx'[a] = idx'[b] => a = b
      /\ \A c \in Positions : RankAt(c)' \in Int
      /\ \A c \in Positions \ (start .. end) : RankAt(c)' = RankAt(c)
      /\ \A c \in start .. end : \E d \in start .. end : RankAt(c)' = RankAt(d)
  BY <1>0, Partitioned
<1>pivot. PICK pivot \in Int : /\ \A c \in start .. p : RankAt(c)' <= pivot
                               /\ \A c \in p .. end : pivot <= RankAt(c)'
  BY <1>0, Partitioned
<1>2. start \in Int /\ end \in Int /\ p \in Int /\ start <= p /\ p <= end
  BY <1>1 DEF Positions
<1>h. PICK h \in Nat : h = Len(stack) \div 2
  BY <1>0, LenProperties DEF TypeOK, StackInv
<1>3. /\ vertices_cnt - TOPK_K <= start /\ end + h < vertices_cnt
      /\ \A m \in Pairs : end < Start(m)
  BY <1>0, <1>h DEF StackInv
<1>4. /\ stack' \in Seq(-1 .. vertices_cnt)
      /\ h \in Nat /\ Len(stack) = 2 * h
      /\ Len(stack') = 2 * (h + 2)
      /\ Pairs = 1 .. h /\ Pairs' = 1 .. (h + 2)
      /\ \A m \in Pairs : Start(m)' = Start(m) /\ End(m)' = End(m)
      /\ Start(h + 1)' = p + 1 /\ End(h + 1)' = end
      /\ Start(h + 2)' = start /\ End(h + 2)' = p - 1
  <2>1. /\ stack \in Seq(-1 .. vertices_cnt) /\ Len(stack) % 2 = 0
        /\ p + 1 \in -1 .. vertices_cnt /\ end \in -1 .. vertices_cnt
        /\ start \in -1 .. vertices_cnt /\ p - 1 \in -1 .. vertices_cnt
    BY <1>0, <1>1, <1>2 DEF TypeOK, StackInv, Positions
  <2>2. Push
    OBVIOUS
  <2>3. h = Len(stack) \div 2
    BY <1>h
  <2> HIDE DEF Sorted
  <2> QED  BY <2>1, <2>2, <2>3, StackPushed
<1>5. TypeOK'
  BY <1>0, <1>1, <1>4 DEF TypeOK
<1>6. \A c \in start .. end : c \in Top /\ c \in Positions
  <2>1. end <= vertices_cnt - 1
    BY <1>1 DEF Positions
  <2>2. 0 <= start
    BY <1>1 DEF Positions
  <2> QED  BY <1>2, <1>3, <2>1, <2>2 DEF Positions, Top
<1>7. TopSelected'
  <2> SUFFICES ASSUME NEW a \in Positions \ Top, NEW b \in Top
               PROVE  RankAt(a)' <= RankAt(b)'
    BY DEF TopSelected
  <2>1. RankAt(a)' = RankAt(a)
    BY <1>1, <1>6
  <2>2. \A c \in Top : RankAt(a) <= RankAt(c)
    BY <1>0 DEF TopSelected
  <2>3. \E c \in Top : RankAt(b)' = RankAt(c)
    <3>1. CASE b \in start .. end
      BY <1>1, <1>6, <3>1
    <3>2. CASE b \notin start .. end
      <4>1. b \in Positions
        BY DEF Top, Positions
      <4> QED  BY <1>1, <3>2, <4>1
    <3> QED  BY <3>1, <3>2
  <2> QED  BY <2>1, <2>2, <2>3
<1>8. StackInv'
  <2>1. Len(stack') % 2 = 0 /\ Len(stack') <= 2 * TOPK_K
    BY <1>1, <1>2, <1>3, <1>4
  <2>2. \A m \in Pairs' :
          /\ vertices_cnt - TOPK_K <= Start(m)' /\ Start(m)' <= End(m)' + 1
          /\ End(m)' + m <= vertices_cnt
    <3> TAKE m \in Pairs'
    <3>1. CASE m \in Pairs
      <4>1. /\ vertices_cnt - TOPK_K <= Start(m) /\ Start(m) <= End(m) + 1
            /\ End(m) + m <= vertices_cnt
        BY <1>0, <3>1 DEF StackInv
      <4>2. Start(m)' = Start(m) /\ End(m)' = End(m)
        BY <1>4, <3>1
      <4> QED  BY <4>1, <4>2
    <3>2. CASE m = h + 1
      <4>1. Start(m)' = p + 1 /\ End(m)' = end
        BY <1>4, <3>2
      <4>2. vertices_cnt - TOPK_K <= p + 1 /\ p + 1 <= end + 1
        BY <1>2, <1>3
      <4>3. end + m <= vertices_cnt
        BY <1>2, <1>3, <1>4, <3>2
      <4> QED  BY <4>1, <4>2, <4>3
    <3>3. CASE m = h + 2
      <4>1. Start(m)' = start /\ End(m)' = p - 1
        BY <1>4, <3>3
      <4>2. vertices_cnt - TOPK_K <= start /\ start <= p - 1 + 1
        BY <1>2, <1>3
      <4>3. p - 1 + m <= vertices_cnt
        BY <1>2, <1>3, <1>4, <3>3
      <4> QED  BY <4>1, <4>2, <4>3
    <3> QED  BY <1>4, <3>1, <3>2, <3>3
  <2>3. \A m, o \in Pairs' : m < o => End(o)' < Start(m)'
    <3> SUFFICES ASSUME NEW m \in Pairs', NEW o \in Pairs', m < o
                 PROVE  End(o)' < Start(m)'
      OBVIOUS
    <3>1. CASE o \in Pairs
      <4>1. m \in Pairs
        BY <1>4, <3>1
      <4>2. End(o) < Start(m)
        BY <1>0, <3>1, <4>1 DEF StackInv
      <4>3. End(o)' = End(o) /\ Start(m)' = Start(m)
        BY <1>4, <3>1, <4>1
      <4> QED  BY <4>2, <4>3
    <3>2. CASE m \in Pairs /\ o \notin Pairs
      <4>1. Start(m)' = Start(m) /\ Start(m) \in Int /\ end < Start(m)
        BY <1>0, <1>3, <1>4, <3>2, BoundsAreIntegers
      <4>2. o = h + 1 \/ o = h + 2
        BY <1>4, <3>2
      <4>3. End(o)' = end \/ End(o)' = p - 1
        BY <1>4, <4>2
      <4> QED  BY <1>2, <4>1, <4>3
    <3>3. CASE m \notin Pairs
      <4>1. m = h + 1 /\ o = h + 2
        BY <1>4, <3>3
      <4>2. Start(m)' = p + 1 /\ End(o)' = p - 1
        BY <1>4, <4>1
      <4> QED  BY <1>2, <4>2
    <3> QED  BY <1>4, <3>1, <3>2, <3>3
  <2> QED  BY <1>0, <2>1, <2>2, <2>3 DEF StackInv
<1>9. SortInv'
  <2> SUFFICES ASSUME NEW a \in Top, NEW b \in Top, a < b
               PROVE  RankAt(a)' <= RankAt(b)' \/ Pending(a, b)'
    BY DEF SortInv
  <2>1. \A c, d \in Top : c < d => RankAt(c) <= RankAt(d) \/ Pending(c, d)
    BY <1>0 DEF SortInv
  <2>2. a \in Positions /\ b \in Positions /\ a \in Int /\ b \in Int
    BY DEF Top, Positions
  <2>3. CASE start <= a /\ b <= end
    <3>1. CASE b <= p - 1
      <4>1. h + 2 \in Pairs' /\ Start(h + 2)' <= a /\ b <= End(h + 2)'
        BY <1>4, <2>3, <3>1
      <4> QED  BY <4>1 DEF Pending
    <3>2. CASE p + 1 <= a
      <4>1. h + 1 \in Pairs' /\ Start(h + 1)' <= a /\ b <= End(h + 1)'
        BY <1>4, <2>3, <3>2
      <4> QED  BY <4>1 DEF Pending
    <3>3. CASE a <= p /\ p <= b
      <4>1. RankAt(a)' <= pivot /\ pivot <= RankAt(b)'
        BY <1>2, <1>pivot, <2>2, <2>3, <3>3
      <4> QED  BY <1>1, <2>2, <4>1
    <3> QED  BY <1>2, <2>2, <3>1, <3>2, <3>3
  <2>4. CASE start <= a /\ a <= end /\ end < b
    <3>1. RankAt(b)' = RankAt(b)
      BY <1>1, <1>2, <2>2, <2>4
    <3>2. PICK c \in start .. end : RankAt(a)' = RankAt(c)
      BY <1>1, <1>2, <2>2, <2>4
    <3>3. ~ Pending(c, b)
      BY <1>0, <1>2, <1>3, <2>2, <2>4, BoundsAreIntegers DEF Pending
    <3>4. RankAt(c) <= RankAt(b)
      BY <1>2, <1>6, <2>1, <2>2, <2>4, <3>3
    <3> QED  BY <3>1, <3>2, <3>4
  <2>5. CASE a < start /\ start <= b /\ b <= end
    <3>1. RankAt(a)' = RankAt(a)
      BY <1>1, <1>2, <2>2, <2>5
    <3>2. PICK c \in start .. end : RankAt(b)' = RankAt(c)
      BY <1>1, <1>2, <2>2, <2>5
    <3>3. \A m \in Pairs : ~ (Start(m) <= a)
      BY <1>0, <1>2, <1>3, <2>2, <2>5, BoundsAreIntegers
    <3>4. ~ Pending(a, c)
      BY <1>2, <2>2, <2>5, <3>3 DEF Pending
    <3>5. RankAt(a) <= RankAt(c)
      BY <1>2, <1>6, <2>1, <2>2, <2>5, <3>4
    <3> QED  BY <3>1, <3>2, <3>5
  <2>6. CASE (a < start \/ end < a) /\ (b < start \/ end < b)
    <3>1. RankAt(a)' = RankAt(a) /\ RankAt(b)' = RankAt(b)
      BY <1>1, <1>2, <2>2, <2>6
    <3>2. CASE ~ (start <= a /\ b <= end)
      <4>1. Pending(a, b) => \E m \in Pairs : Start(m) <= a /\ b <= End(m)
        BY <3>2 DEF Pending
      <4>2. Pending(a, b) => Pending(a, b)'
        BY <1>4, <4>1 DEF Pending
      <4> QED  BY <2>1, <3>1, <4>2
    <3> QED  BY <1>2, <2>2, <2>6, <3>2
  <2> QED  BY <1>2, <2>2, <2>3, <2>4, <2>5, <2>6
<1> QED  BY <1>0, <1>5, <1>7, <1>8, <1>9 DEF TopKInv, SelectInv, LoopInv

-----------------------------------------------------------------------------
(* Theorems                                                                *)

(* From any ranks, every step of select_topk and of sort keeps TopKInv:     *)
(* idx remains a permutation, what is outside the range of the moment is on *)
(* its side of it, and what is out of order is still on the stack.          *)
THEOREM TopKKept == Spec => []TopKInv
<1>1. TopKInv /\ [Next]_vars => TopKInv'
  <2> SUFFICES ASSUME TopKInv, [Next]_vars PROVE TopKInv'
    OBVIOUS
  <2>1. CASE Select     BY <2>1, SelectKeeps
  <2>2. CASE SelectAll  BY <2>2, SelectAllKeeps
  <2>3. CASE Selected   BY <2>3, SelectedKeeps
  <2>4. CASE Move       BY <2>4, MoveKeeps
  <2>5. CASE Pop        BY <2>5, PopKeeps
  <2>6. CASE Sorted     BY <2>6, SortedKeeps
  <2>7. CASE UNCHANGED vars
    BY <2>7 DEF vars, range, TopKInv, TypeOK, TopSelected, SelectInv, LoopInv,
                StackInv, SortInv, Pending, Pairs, Start, End, RankAt
  <2> QED  BY <2>1, <2>2, <2>3, <2>4, <2>5, <2>6, <2>7 DEF Next
<1> QED  BY InitInv, <1>1, PTL DEF Spec

(* No index leaves the array or its range, and no vertex is lost from idx or *)
(* doubled in it.                                                          *)
THEOREM IdxIsPermutation == Spec => []TypeOK
<1>1. TopKInv => TypeOK
  BY DEF TopKInv
<1> QED  BY <1>1, TopKKept, PTL

(* select_topk leaves the TOPK_K vertices of highest rank at the end of idx. *)
THEOREM SelectsTop == Spec => []TopSelected
<1>1. TopKInv => TopSelected
  BY DEF TopKInv
<1> QED  BY <1>1, TopKKept, PTL

(* sort has them in order when its stack is empty.                         *)
THEOREM SortsTop == Spec => []TopSorted
<1>1. TopKInv => TopSorted
  <2> SUFFICES ASSUME TopKInv, Done, NEW a \in Top, NEW b \in Top, a <= b
               PROVE  RankAt(a) <= RankAt(b)
    BY DEF TopSorted
  <2>1. Pairs = {}
    BY DEF Done, Pairs
  <2>2. ~ Pending(a, b)
    BY <2>1 DEF Pending, Done
  <2>3. CASE a < b
    BY <2>2, <2>3 DEF TopKInv, SortInv, Done
  <2>4. CASE a = b
    <3>1. RankAt(a) \in Int
      BY TopKAssumption, RanksAreIntegers DEF TopKInv, Top, Positions
    <3> QED  BY <2>4, <3>1
  <2> QED  BY <2>3, <2>4, TopKAssumption DEF Top
<1> QED  BY <1>1, TopKKept, PTL

(* A stack of two longs for each of the TOPK_K is enough: sort never writes  *)
(* behind it, although it tests for that after it has written.             *)
THEOREM StackIsEnough == Spec => []StackFits
<1>1. TopKInv => StackFits
  <2> SUFFICES ASSUME TopKInv PROVE StackFits
    OBVIOUS
  <2>1. Len(stack) \in Nat /\ Len(stack) <= 2 * TOPK_K
    BY LenProperties DEF TopKInv, TypeOK, StackInv
  <2> QED  BY <2>1, TopKAssumption DEF StackFits
<1> QED  BY <1>1, TopKKept, PTL
=============================================================================
