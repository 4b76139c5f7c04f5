-------------------------------- MODULE TopK --------------------------------
(***************************************************************************)
(* The vertices of highest rank (apps/pagerank/pagerank-frompmem.c0, topk): *)
(* select_topk moves the TOPK_K highest to the end of idx, sort orders that *)
(* end with a stack of its own.  Both have the same loop to partition a     *)
(* range, one step of which is one step here.                              *)
(***************************************************************************)
EXTENDS Integers, Sequences

CONSTANTS
  vertices_cnt,
  TOPK_K,
  SORT_STACK_LEN,
  Value             \* the ranks a vertex may have

ASSUME TopKAssumption ==
  /\ vertices_cnt \in Nat \ {0}
  /\ TOPK_K \in 1 .. vertices_cnt
  /\ Value \subseteq Int
  /\ SORT_STACK_LEN \in Nat /\ 2 * TOPK_K <= SORT_STACK_LEN

VARIABLES
  value,        \* ranks of the vertices
  idx,          \* the vertices, in the order they have got to
  work,         \* "select" or "sort": who works
  loop,         \* whether it partitions a range: "outside" or "inside"
  start, end,   \* the range idx[start,,end]
  k,            \* how many are still to be selected from it
  p, i,         \* of the loop that partitions
  stack         \* of sort

range == <<start, end>>
vars == <<value, idx, work, loop, range, k, p, i, stack>>

Positions == 0 .. (vertices_cnt - 1)
Top == (vertices_cnt - TOPK_K) .. (vertices_cnt - 1)
RankAt(j) == value[idx[j]]

Init ==
  /\ value \in [Positions -> Value]
  /\ idx = [j \in Positions |-> j]
  /\ work = "select" /\ loop = "outside"
  /\ start = 0 /\ end = vertices_cnt - 1
  /\ k = TOPK_K
  /\ p = 0 /\ i = 0
  /\ stack = <<>>

-----------------------------------------------------------------------------
(* Partition: those lower than the last one of the range go before p.      *)

SkipFirst(first) == loop' = "inside" /\ p' = first /\ i' = first + 1      \* mutant
EnterLoop(first) == loop' = "inside" /\ p' = first /\ i' = first

Swapped(a, b) == [idx EXCEPT ![a] = idx[b], ![b] = idx[a]]

Move ==
  /\ loop = "inside" /\ i < end
  /\ IF RankAt(i) < RankAt(end) THEN idx' = Swapped(i, p) /\ p' = p + 1
     ELSE UNCHANGED <<idx, p>>
  /\ i' = i + 1
  /\ UNCHANGED <<value, work, loop, range, k, stack>>

LeaveLoop ==
  /\ loop = "inside" /\ i = end
  /\ idx' = Swapped(end, p)
  /\ loop' = "outside"
  /\ UNCHANGED <<value, p, i>>

-----------------------------------------------------------------------------
(* select_topk                                                             *)

Select ==
  /\ work = "select" /\ loop = "outside"
  /\ end - start + 1 > k
  /\ EnterLoop(start)
  /\ UNCHANGED <<value, idx, work, range, k, stack>>

StartSort ==
  /\ work' = "sort"
  /\ stack' = <<vertices_cnt - TOPK_K, vertices_cnt - 1>>
  /\ UNCHANGED <<range, k>>

SelectAll ==
  /\ work = "select" /\ loop = "outside"
  /\ end - start + 1 <= k
  /\ StartSort
  /\ UNCHANGED <<value, idx, loop, p, i>>

Upper == end - p + 1

Narrow ==
  \/ Upper < k /\ end' = p - 1 /\ k' = k - Upper /\ UNCHANGED start
  \/ Upper > k /\ start' = p + 1 /\ UNCHANGED <<end, k>>

Selected ==
  /\ work = "select" /\ LeaveLoop
  /\ \/ Upper = k /\ StartSort
     \/ Narrow /\ UNCHANGED <<work, stack>>

-----------------------------------------------------------------------------
(* sort                                                                    *)

Pop ==
  /\ work = "sort" /\ loop = "outside" /\ stack # <<>>
  /\ end' = stack[Len(stack)] /\ start' = stack[Len(stack) - 1]
  /\ stack' = SubSeq(stack, 1, Len(stack) - 2)
  /\ IF end' > start' THEN EnterLoop(start') ELSE UNCHANGED <<loop, p, i>>
  /\ UNCHANGED <<value, idx, work, k>>

PushPivotToo == stack' = stack \o <<p, end, start, p - 1>>      \* mutant
PushLeft == stack' = stack \o <<end + 1, end, start, p - 1>>      \* mutant

Push == stack' = stack \o <<p + 1, end, start, p - 1>>

Sorted ==
  /\ work = "sort" /\ LeaveLoop /\ Push
  /\ UNCHANGED <<work, range, k>>

Done == work = "sort" /\ loop = "outside" /\ stack = <<>>

Next == Select \/ SelectAll \/ Selected \/ Move \/ Pop \/ Sorted
          \/ (Done /\ UNCHANGED vars)

Spec == Init /\ [][Next]_vars /\ WF_vars(Next)

-----------------------------------------------------------------------------
(* Properties                                                              *)

(* No index leaves the array or the range it belongs to, and idx remains a  *)
(* permutation of the vertices.                                            *)
TypeOK ==
  /\ value \in [Positions -> Value]
  /\ idx \in [Positions -> Positions]
  /\ \A a, b \in Positions : idx[a] = idx[b] => a = b
  /\ work \in {"select", "sort"} /\ loop \in {"outside", "inside"}
  /\ start \in 0 .. vertices_cnt /\ end \in -1 .. (vertices_cnt - 1)
  /\ k \in 1 .. TOPK_K
  /\ p \in Positions /\ i \in Positions
  /\ loop = "inside" => start <= p /\ p <= i /\ i <= end
  /\ stack \in Seq(-1 .. vertices_cnt)

(* select_topk, by whatever pivots it met: from when it is left on, no      *)
(* vertex outside the end of idx ranks above one inside.                   *)
TopSelected ==
  work = "sort" =>
    \A a \in Positions \ Top, b \in Top : RankAt(a) <= RankAt(b)

(* What is printed, from the end of idx down, is in order.                 *)
TopSorted == Done => \A a, b \in Top : a <= b => RankAt(a) <= RankAt(b)

(* Nothing is written behind the stack of sort ("ensure no overflow": the   *)
(* test of stop comes after the four writes).                              *)
StackFits == Len(stack) <= SORT_STACK_LEN

(* Why that is so.  While select_topk works, k more are to come from the     *)
(* range, below which no rank is higher and above which none is lower;      *)
(* in a loop, what is before p is lower than the last one of the range and  *)
(* what is before i is not; while sort works, the ranges on the stack lie   *)
(* in the top, each below the ones under it, and two vertices are out of    *)
(* order only within one that is pending.                                  *)
Pairs == 1 .. (Len(stack) \div 2)
Start(m) == stack[2 * m - 1]
End(m) == stack[2 * m]

SelectInv ==
  work = "select" =>
    /\ stack = <<>>
    /\ end + 1 - k = vertices_cnt - TOPK_K /\ start + k <= end + 1
    /\ \A a, b \in Positions :
         (a < start /\ start <= b) \/ (a <= end /\ end < b) => RankAt(a) <= RankAt(b)

LoopInv ==
  loop = "inside" =>
    /\ start < end
    /\ \A a \in start .. (p - 1) : RankAt(a) < RankAt(end)
    /\ \A a \in p .. (i - 1) : RankAt(end) <= RankAt(a)

StackInv ==
  /\ Len(stack) % 2 = 0 /\ Len(stack) <= 2 * TOPK_K
  /\ \A m \in Pairs :
       /\ vertices_cnt - TOPK_K <= Start(m) /\ Start(m) <= End(m) + 1
       /\ End(m) + m <= vertices_cnt
       /\ \A o \in Pairs : m < o => End(o) < Start(m)
  /\ work = "sort" /\ loop = "inside" =>
       /\ vertices_cnt - TOPK_K <= start
       /\ end + Len(stack) \div 2 < vertices_cnt
       /\ \A m \in Pairs : end < Start(m)

Pending(a, b) ==
  \/ loop = "inside" /\ start <= a /\ b <= end
  \/ \E m \in Pairs : Start(m) <= a /\ b <= End(m)

SortInv ==
  work = "sort" =>
    \A a, b \in Top : a < b => RankAt(a) <= RankAt(b) \/ Pending(a, b)

TopKInv == TypeOK /\ TopSelected /\ SelectInv /\ LoopInv /\ StackInv /\ SortInv

(* topk gets to print.                                                     *)
Prints == <>Done
=============================================================================
