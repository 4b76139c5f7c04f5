---------------------------- MODULE FrameLayout ----------------------------
(***************************************************************************)
(* Where SymbolAddressAllocator puts the variables                         *)
(* (core/Symbol/SymbolAddressAllocator.cpp): globals at absolute           *)
(* addresses, parameters and local variables at offsets from the frame     *)
(* pointer, and how large a frame is.                                      *)
(*                                                                         *)
(* Blocks are numbered so that a block's number is above its parent's;     *)
(* parent[b] = 0 when b is the body of a function.                         *)
(***************************************************************************)
EXTENDS ILCode, Totals

CONSTANTS
  W,              \* PointerType::PointerSize: 8 in the code
  NewrMetadata,   \* NEWR_METADATA_ADDR: where a runner is described to newr
  NewStack        \* where newr leaves the base and size of its stack

ASSUME WordAssumption == W \in Nat \ {0, 1}

SizeOf(type) == CASE type = "char" -> 1
                  [] type = "chars" -> ArrayLength
                  [] type = "longs" -> ArrayLength * W
                  [] type \in {"label", "void"} -> 0
                  [] OTHER -> W

RoundUp(n, align) == IF align = 0 \/ n % align = 0 THEN n
                     ELSE n + align - (n % align)
Smaller(m, n) == IF m < n THEN m ELSE n
Largest(S) == IF S = {} THEN 0 ELSE CHOOSE n \in S : \A m \in S : m <= n

-----------------------------------------------------------------------------
(* Globals: one after the other from the second word on, each aligned to   *)
(* its size.  The value is the address of the i-th symbol.                 *)
GlobalAddress(syms) ==
  LET Align(i) == Smaller(SizeOf(syms[i].type), W)
      f[i \in DOMAIN syms] ==
        RoundUp(IF i = 1 THEN W ELSE f[i - 1] + SizeOf(syms[i - 1].type),
                Align(i))
  IN f

(* Parameters: the first one is above the caller's frame pointer, the      *)
(* return address and the space for the result.  A parameter is placed     *)
(* before the position is rounded up.                                      *)
ParameterOffset(params, ret) ==
  LET f[i \in DOMAIN params] ==
        IF i = 1 THEN 2 * W + RoundUp(SizeOf(ret), W)
        ELSE RoundUp(f[i - 1], W) + SizeOf(params[i - 1].type)
  IN f

(* Locals: every variable of a block takes whole words, below those of the *)
(* blocks around it; blocks side by side share their memory.  slots[b] is  *)
(* the sequence of block b's symbols.                                      *)
SlotSize(sym) == RoundUp(SizeOf(sym.type), W)

Below(syms) ==      \* bytes taken by the first i symbols
  Accumulated([i \in 1 .. Len(syms) |-> SlotSize(syms[i])])

BlockSize(syms) == Below(syms)[Len(syms)]

BlockStart(parent, slots) ==
  LET f[b \in DOMAIN parent] ==
        IF parent[b] = 0 THEN 0
        ELSE f[parent[b]] - BlockSize(slots[parent[b]])
  IN f

LocalOffset(parent, slots) ==
  [b \in DOMAIN parent |->
     [i \in DOMAIN slots[b] |->
        BlockStart(parent, slots)[b] - Below(slots[b])[i]]]

(* SetMemorySize: a block's variables and its largest child's.             *)
MemorySize(parent, slots) ==
  LET f[b \in DOMAIN parent] ==
        BlockSize(slots[b])
          + Largest({f[c] : c \in {d \in DOMAIN parent : parent[d] = b}})
  IN f
=============================================================================
