------------------------------ MODULE Assembly ------------------------------
(***************************************************************************)
(* The compiled programs assembled, and the file executed: a core executes *)
(* the instructions from the addresses they are loaded at.                 *)
(*                                                                         *)
(* I0Machine says what an IL instruction does in one step.  Here it is     *)
(* several instructions, and the places of I0Machine are addresses: `seen' *)
(* is the state of the core when it last was between two IL instructions,  *)
(* and through it the core implements I0Machine.                           *)
(***************************************************************************)
EXTENDS ILGenerator, Image, Assembler

CONSTANTS
  Sources,    \* the programs, a set; function 1 of each is the runner
  Inputs      \* the arguments a runner is started with

VARIABLES
  core,       \* [mem, reg, at, created]: the core that executes the file
  seen        \* [mem, sp, fp, pc, created] when it was last between two ILs

asm == <<assembler, core, seen>>

(* What the passes before and the allocator make of a program.             *)
Globals(s) == [k \in {Key(s.globals[i]) : i \in DOMAIN s.globals} |->
                 Layout(s, <<>>).where[k]]
Linked(s, g) == [bodies |-> g.bodies, layout |-> Layout(s, g.temps),
                 globals |-> Globals(s), bss |-> BssEnd(s),
                 params |-> s.functions[1].params]
LinkedUnits == {Linked(s, GenProgram(s)) : s \in {t \in Sources : GenProgram(t).ok}}
GeneratedBodies == {u.bodies : u \in LinkedUnits}

-----------------------------------------------------------------------------
(* A core that executes the file, as the generators take it to.            *)

At(a, size) == IF a \in Registers THEN core.reg[a] ELSE Fetch(core.mem, a, size)
Place(o) == CASE o.mode = "Direct" -> o.addr
              [] o.mode = "Indirect" -> At(o.addr, W)
              [] o.mode = "BaseDisplacement" -> At(o.addr, W) + o.disp
ReadAs(o, size) == IF o.mode = "Immediate" THEN o.addr ELSE At(Place(o), size)
Word(o) == ReadAs(o, W)
ConvSize(o) == IF o.conv = "Signed8" THEN 1 ELSE W
Stored(o, v, size) ==
  IF Place(o) \in Registers THEN [core EXCEPT !.reg[Place(o)] = v]
  ELSE [core EXCEPT !.mem = Put(@, Place(o), v, size)]

Current == image.loaded[core.at]
Running == core # <<>>
Instr == code[Current].ins
Opd(i) == Instr.args[i]
GoesOn == TextStart + placed[Current].next
Holds(mode, a, b) == CASE mode = "E" -> a = b
                       [] mode = "NE" -> a # b
                       [] mode = "L" -> a < b
                       [] mode = "LE" -> a <= b

(* Between two IL instructions what there is to see is the memory, the     *)
(* stack and frame pointers and the address of the instruction ahead.      *)
Seen(state) == [mem |-> state.mem, sp |-> state.reg[STACK_POINTER],
                fp |-> state.reg[FRAME_POINTER], pc |-> state.at,
                created |-> state.created]
Goes(state) ==
  /\ core' = state
  /\ seen' = IF state.at = 0 \/ state.at \in DOMAIN image.text THEN Seen(state)
             ELSE seen
  /\ UNCHANGED assembler
Executes == Running /\ core.at # 0

ExecuteConv ==
  /\ Executes /\ Instr.op = "CONV"
  /\ Goes([Stored(Opd(2), ReadAs(Opd(1), ConvSize(Opd(1))), ConvSize(Opd(2)))
             EXCEPT !.at = GoesOn])
ExecuteArithmetic ==
  /\ Executes /\ IsArithmetic(Instr)
  /\ LET a == Word(Opd(1))
         b == Word(Opd(2))
     IN Goes([Stored(Opd(3), CASE Instr.op = "ADD" -> a + b
                               [] Instr.op = "SUB" -> a - b
                               [] Instr.op = "MUL" -> a * b, W)
                EXCEPT !.at = GoesOn])
ExecuteJump ==
  /\ Executes /\ Instr.jump \in {"J", "JI"}
  /\ Goes([core EXCEPT !.at = IF Instr.jump = "J" THEN Opd(1).addr
                              ELSE Word(Opd(1))])
ExecuteTest ==
  /\ Executes /\ IsTest(Instr)
  /\ Goes([core EXCEPT !.at = IF (Word(Opd(1)) = 0) = (Instr.jump = "Z")
                              THEN Opd(2).addr ELSE GoesOn])
ExecuteCompare ==
  /\ Executes /\ IsCompare(Instr)
  /\ Goes([core EXCEPT !.at = IF Holds(Instr.jump, Word(Opd(1)), Word(Opd(2)))
                              THEN Opd(3).addr ELSE GoesOn])
ExecuteSpawn ==
  /\ Executes /\ Instr.op = "SPAWN"
  /\ LET i == Len(core.created) + 1
     IN \E fill \in Fills :
          Goes([core EXCEPT !.mem = WithStackOf(i, @, fill), !.at = GoesOn,
                            !.created = Append(@, RunnerMade(i, core.mem,
                                          [j \in 1 .. 4 |-> Word(Opd(j))]))])
ExecuteExit ==
  /\ Executes /\ Instr.op = "EXIT"
  /\ Goes([core EXCEPT !.at = 0])

(* A runner starts at __newr0, which is behind crt0.                       *)
Newr0 == CHOOSE a \in DOMAIN image.text : image.text[a].op = "Start"
Spawn ==
  /\ phase = "file" /\ ~Running
  /\ \E args \in Inputs, fill \in Fills :
       core' = [mem |-> RunnerMemory(image.bss, fill, args, image.entry[1],
                                     src.params),
                reg |-> [r \in Registers |->
                           IF r = CURRENT_STACK_SIZE THEN StackTop ELSE 0],
                at |-> Newr0, created |-> <<>>]
  /\ seen' = Seen(core')
  /\ UNCHANGED assembler

-----------------------------------------------------------------------------

AInit == AsmInit /\ core = <<>> /\ seen = <<>>

Stopped == \/ phase \in {"failed", "aborted"}
           \/ Running /\ core.at = 0
Stop == Stopped /\ UNCHANGED asm

Assemble == AsmNext /\ UNCHANGED <<core, seen>>
Execute == \/ ExecuteConv \/ ExecuteArithmetic \/ ExecuteJump \/ ExecuteTest
           \/ ExecuteCompare \/ ExecuteSpawn \/ ExecuteExit

ANext == Assemble \/ Spawn \/ Execute \/ Stop

ASpec == AInit /\ [][ANext]_asm

-----------------------------------------------------------------------------
(* Properties                                                              *)

(* Seen from between the IL instructions the core does what I0Machine      *)
(* says the IL does: branches arrive where the labels are, a call returns  *)
(* behind its branch, registers the generator uses are not needed longer.  *)
M == INSTANCE I0Machine WITH mem <- seen.mem, sp <- seen.sp, fp <- seen.fp,
                             pc <- seen.pc, top <- StackTop,
                             created <- seen.created
ImplementsMachine == [][Running => M!Run]_seen
=============================================================================
