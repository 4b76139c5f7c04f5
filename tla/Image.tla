------------------------------- MODULE Image -------------------------------
(***************************************************************************)
(* The memory of a linked program: numbers in bytes, the place ld0 gives   *)
(* to every symbol of a program (SymbolAddressAllocator on its scopes),    *)
(* and the memory a runner of the program starts with.                     *)
(***************************************************************************)
EXTENDS FrameLayout, SequencesExt

CONSTANTS
  StackTop,   \* CURRENT_STACK_BASE + CURRENT_STACK_SIZE of the first runner
  Fills       \* the byte a stack that nobody has written to holds

(* Numbers in memory: little-endian, signed.                               *)
Power == LET f[i \in 0 .. W] == IF i = 0 THEN 1 ELSE 256 * f[i - 1] IN f
Signed(n, size) == IF 2 * n >= Power[size] THEN n - Power[size] ELSE n
Fetch(m, a, size) ==
  LET f[i \in 0 .. size] ==
        IF i = 0 THEN 0 ELSE f[i - 1] + Power[i - 1] * m[a + i - 1]
  IN Signed(f[size], size)
Put(m, a, v, size) ==
  [x \in a .. (a + size - 1) |-> (v \div Power[x - a]) % 256] @@ m

(* The scopes of the blocks, the enclosing block of each.                  *)
RECURSIVE BlocksOf(_, _)
BlocksOf(s, parent) ==
  LET All(list, p) == UNION {BlocksOf(list[i], p) : i \in DOMAIN list}
  IN CASE s.kind = "block" /\ s.id = 0 -> All(s.body, parent)
       [] s.kind = "block" -> {[id |-> s.id, parent |-> parent, vars |-> s.vars]}
                              \cup All(s.body, s.id)
       [] s.kind = "if" -> BlocksOf(s.then, parent) \cup BlocksOf(s.else, parent)
       [] s.kind = "switch" -> All(s.bodies, parent)
                               \cup BlocksOf(s.default, parent)
       [] s.kind = "loop" -> BlocksOf(s.body, parent)
       [] OTHER -> {}

(* The scopes of a program as the allocator sees them: Allocate on the     *)
(* root scope.  Of every symbol the address or offset, how many bytes from *)
(* there are its own, and its type.                                        *)
Layout(prog, temporaries) ==
  LET functions == DOMAIN prog.functions
      blocks == UNION {BlocksOf(prog.functions[f].body, 0) : f \in functions}
      ids == {b.id : b \in blocks}
      BlockOf(id) == CHOOSE b \in blocks : b.id = id
      parent == [id \in ids |-> BlockOf(id).parent]
      slots == [id \in ids |->
                  BlockOf(id).vars \o SelectSeq(temporaries,
                                        LAMBDA sym : sym.scope = id)]
      local == LocalOffset(parent, slots)
      global == GlobalAddress(prog.globals)
      param == [f \in functions |-> ParameterOffset(prog.functions[f].params,
                                                    prog.functions[f].ret)]
      Places(syms, place, Bytes0(_)) ==
        {<<Key(syms[i]), place[i], Bytes0(syms[i].type), syms[i].type>> :
            i \in DOMAIN syms}
      Words(type) == RoundUp(SizeOf(type), W)
      places == Places(prog.globals, global, SizeOf)
        \cup UNION {Places(prog.functions[f].params, param[f], SizeOf) :
                       f \in functions}
        \cup UNION {Places(slots[id], local[id], Words) : id \in ids}
      PlaceOfKey(k) == CHOOSE p \in places : p[1] = k
  IN [where |-> [k \in {p[1] : p \in places} |-> PlaceOfKey(k)[2]],
      room |-> [k \in {p[1] : p \in places} |-> PlaceOfKey(k)[3]],
      type |-> [k \in {p[1] : p \in places} |-> PlaceOfKey(k)[4]],
      frame |-> [f \in functions |->
                   MemorySize(parent, slots)[prog.functions[f].body.id]]]

(* The globals are in the bss: they start as zero.                         *)
BssEnd(prog) == LET syms == prog.globals
             IN IF syms = <<>> THEN W
                ELSE GlobalAddress(syms)[Len(syms)] + SizeOf(Last(syms).type)

(* newr makes the i-th runner of what its four operands point at: no stack *)
(* is given, a number of ranges and the ranges to use, the same to watch,  *)
(* the place to start at.  The runner gets a stack of its own.             *)
RangesAt(m, p) == [i \in 1 .. Fetch(m, p, W) |->
                     <<Fetch(m, p + W + 2 * W * (i - 1), W),
                       Fetch(m, p + 2 * W + 2 * W * (i - 1), W)>>]
RunnerMade(i, m, pointers) ==
  [entry |-> Fetch(m, pointers[4], W), using |-> RangesAt(m, pointers[2]),
   watching |-> RangesAt(m, pointers[3]), top |-> StackTop * (i + 1)]
WithStackOf(i, m, fill) ==
  LET base == StackTop * i
      stack == [a \in base .. (base + StackTop - 1) |-> fill]
  IN Put(Put(stack @@ m, NewStack, base, W), NewStack + W, StackTop, W)

(* The parent leaves at the top of the runner's stack the function's       *)
(* address, the size of the arguments and the arguments, the last one      *)
(* first, each in a word of which it writes what the argument's type needs.*)
RunnerMemory(bss, fill, args, entry, params) ==
  LET blank == [a \in 0 .. (StackTop - 1) |-> IF a < bss THEN 0 ELSE fill]
      size == W * Len(args)
      Push(m, i) == Put(m, StackTop - 2 * W - size + W * (i - 1), args[i],
                        SizeOf(params[i].type))
  IN FoldLeft(Push, Put(Put(blank, StackTop - W, entry, W),
                        StackTop - 2 * W, size, W),
              [i \in DOMAIN args |-> i])
=============================================================================
