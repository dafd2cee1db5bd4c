--------------------------------- MODULE Cpu ---------------------------------
(***************************************************************************)
(* The loop of gameboy_run in lib/gameboy.c and what z80_execute of        *)
(* lib/z80_gameboy.h does to the program counter, the stack, the interrupt *)
(* switch and the accumulator: one instruction, then the interrupts.       *)
(*                                                                         *)
(* The program is anything: an instruction is chosen at every step.  An    *)
(* address of code is a number modulo `size'; the stack moves in the last  *)
(* words of the work RAM and in their mirror 0x2000 above, which mmu_write *)
(* and mmu_read redirect and mmu_write_16 does not.                        *)
(***************************************************************************)
EXTENDS Alu, Sequences

CONSTANTS Programs,     \* what each program consists of
          Operands      \* second operands of its arithmetic: bytes

VARIABLES
  program,
  at,                   \* in the loop: "execute", then "check"
  op,                   \* the last instruction, as far as the loop asks
  pc, sp, int_enable,   \* of z80_state_t
  a, f,
  memory,               \* the words the stack can be in
  int_e, int_f,         \* memory[0xFFFF] and memory[0xFF0F]: sets of bits
  frames,               \* history: the words that should be on the stack, the
                        \* last one on top,
  echoed                \* and whether a word was pushed into the mirror

machine == <<pc, sp, int_enable, memory, frames, echoed>>
alu     == <<a, f>>
lines   == <<int_e, int_f>>
vars    == <<program, at, op, machine, alu, lines>>

Uses == {"alu", "branch", "push", "stack", "interrupt"}
Joypad == 4

ASSUME CpuAssumption ==
  /\ Operands \subseteq Byte
  /\ \A p \in Programs : /\ p.uses \subseteq Uses
                         /\ p.size \in Nat \ {0} /\ p.slots \in Nat \ {0}
                         /\ p.bits \subseteq 0 .. Joypad

UsesPart(x) == x \in program.uses

Code   == 0 .. program.size - 1
Slots  == program.slots
Work   == 0 .. Slots - 1
Mirror == Slots .. 2 * Slots - 1
Words  == Work \cup Mirror

\* The addresses of the interrupts (0x40, 0x48, 0x50, 0x58) and of RST.
Vector(i) == i % program.size
Vectors   == {Vector(i) : i \in 0 .. 7}

\* gameboy_init, on a classic console (a is 0x11 on a colour one), and the game's
\* first LD SP.
Init ==
  /\ program \in Programs
  /\ at = "execute" /\ op = "other"
  /\ pc = 0 /\ sp = Slots /\ int_enable = FALSE
  /\ a = 0 /\ f = [z |-> 1, n |-> 0, h |-> 1, c |-> 1]
  /\ memory = [w \in Words |-> 0]
  /\ int_e = {} /\ int_f = {}
  /\ frames = <<>> /\ echoed = FALSE

-----------------------------------------------------------------------------
(* The stack.                                                              *)

\* Where mmu_read and mmu_write find a word.
Mapped(w) == IF w \in Mirror THEN w - Slots ELSE w

\* Bounds of the model: the stack stays in its words and does not meet itself;
\* while the interrupts are on there is room for one.
Room(n) == sp - n \in Words /\ Len(frames) + n <= Slots
MayPush == Room(IF int_enable THEN 2 ELSE 1)
MayPop  == sp \in Words

\* mmu_write_16(sp - 2, v); sp -= 2.  The write is not redirected.
Push16(v) ==
  /\ memory' = [memory EXCEPT ![sp - 1] = v]
  /\ sp' = sp - 1
  /\ echoed' = (echoed \/ sp - 1 \in Mirror)

Popped == memory[Mapped(sp)]
Pop16  == /\ MayPop
          /\ sp' = sp + 1
          /\ frames' = SubSeq(frames, 1, Len(frames) - 1)
          /\ UNCHANGED <<memory, echoed>>

-----------------------------------------------------------------------------
(* z80_execute.                                                            *)

\* After the instruction the loop looks at the interrupts.
Done(what) == at = "execute" /\ at' = "check" /\ op' = what /\ UNCHANGED program

After(b) == (pc + b) % program.size

\* LD of a register or (HL) from another, of one byte.
Move ==
  /\ Done("other")
  /\ pc' = After(1)
  /\ UNCHANGED <<sp, int_enable, memory, frames, echoed, alu, lines>>

\* The other instructions that only compute, load or store: one to three bytes.
Plain ==
  /\ Done("other")
  /\ \E b \in 1 .. 3 : pc' = After(b)
  /\ UNCHANGED <<sp, int_enable, memory, frames, echoed, alu, lines>>

\* What can be left in the accumulator: by ADD to SBC, and by AND to CP, with a
\* register, (HL) or a byte ...
Additive(b) == {z80_add(a, b), z80_adc(a, b, f), z80_sub(a, b), z80_sbc(a, b, f)}
Logical(b)  == {z80_ana(a, b), z80_xra(a, b), z80_ora(a, b), z80_cmp(a, b)}

\* ... by INC A, DEC A, DAA, RLCA, RRCA, RLA, RRA, CPL, SCF and CCF.
Alone ==
  {z80_inr(a, f), z80_dcr(a, f), z80_daa(a, f),
   z80_rla(a, f, TRUE), z80_rra(a, f, TRUE),
   z80_rla(a, f, FALSE), z80_rra(a, f, FALSE),
   [v |-> 255 - a, f |-> [f EXCEPT !.n = 1, !.h = 1]],
   [v |-> a, f |-> [f EXCEPT !.n = 0, !.h = 0, !.c = 1]],
   [v |-> a, f |-> [f EXCEPT !.n = 0, !.h = 0, !.c = 1 - f.c]]}

Results(b) == Additive(b) \cup Logical(b) \cup Alone
              \cup {z80_ext_cb_execute(b, a, f)}

Accumulate ==
  /\ UsesPart("alu")
  /\ Done("other")
  /\ \E b \in Operands : \E r \in Results(b) : a' = r.v /\ f' = r.f
  /\ pc' = After(1)
  /\ UNCHANGED <<sp, int_enable, memory, frames, echoed, lines>>

\* JR, JP, JP (HL): a branch not taken is a Plain step.
Jump ==
  /\ UsesPart("branch")
  /\ Done("other")
  /\ pc' \in Code
  /\ UNCHANGED <<sp, int_enable, memory, frames, echoed, alu, lines>>

\* (a slip: the address of the call itself is saved)
z80_call_early ==
  /\ UsesPart("branch")
  /\ Done("other")
  /\ MayPush /\ Push16(pc)
  /\ frames' = Append(frames, After(3))
  /\ pc' \in Code
  /\ UNCHANGED <<int_enable, alu, lines>>

\* CALL: to return to the instruction after its three bytes.
z80_call ==
  /\ UsesPart("branch")
  /\ Done("other")
  /\ MayPush /\ Push16(After(3))
  /\ frames' = Append(frames, After(3))
  /\ pc' \in Code
  /\ UNCHANGED <<int_enable, alu, lines>>

Rst ==
  /\ UsesPart("branch")
  /\ Done("other")
  /\ MayPush /\ Push16(After(1))
  /\ frames' = Append(frames, After(1))
  /\ pc' \in Vectors
  /\ UNCHANGED <<int_enable, alu, lines>>

\* RET, and RETI, which turns the interrupts on.
z80_ret ==
  /\ Done("other")
  /\ UsesPart("branch") \/ UsesPart("interrupt")
  /\ Pop16 /\ pc' = Popped
  /\ int_enable' \in {int_enable, TRUE}
  /\ UNCHANGED <<alu, lines>>

\* PUSH BC, DE, HL.
PushPair ==
  /\ UsesPart("push")
  /\ Done("other")
  /\ MayPush
  /\ \E v \in Code : Push16(v) /\ frames' = Append(frames, v)
  /\ pc' = After(1)
  /\ UNCHANGED <<int_enable, alu, lines>>

\* PUSH AF goes through mmu_write, byte by byte.
PushPsw ==
  /\ UsesPart("push")
  /\ Done("other")
  /\ MayPush
  /\ \E v \in Code : /\ memory' = [memory EXCEPT ![Mapped(sp - 1)] = v]
                     /\ frames' = Append(frames, v)
  /\ sp' = sp - 1
  /\ pc' = After(1)
  /\ UNCHANGED <<int_enable, echoed, alu, lines>>

\* POP, of a pair or AF.
PopPair ==
  /\ UsesPart("push")
  /\ Done("other")
  /\ Pop16
  /\ pc' = After(1)
  /\ UNCHANGED <<int_enable, alu, lines>>

\* LD SP,nn, LD SP,HL, ADD SP,dd, INC SP, DEC SP: another stack.
MoveStack ==
  /\ UsesPart("stack")
  /\ Done("other")
  /\ sp' \in 1 .. 2 * Slots
  /\ frames' = <<>> /\ echoed' = FALSE
  /\ pc' = After(1)
  /\ UNCHANGED <<int_enable, memory, alu, lines>>

\* EI, DI, HALT, which does not move the program counter, and stores to IE and
\* IF.
EnableInterrupts ==
  /\ UsesPart("interrupt")
  /\ Done("EI") /\ Room(1)
  /\ int_enable' = TRUE
  /\ pc' = After(1)
  /\ UNCHANGED <<sp, memory, frames, echoed, alu, lines>>

DisableInterrupts ==
  /\ UsesPart("interrupt")
  /\ Done("DI")
  /\ int_enable' = FALSE
  /\ pc' = After(1)
  /\ UNCHANGED <<sp, memory, frames, echoed, alu, lines>>

Halt ==
  /\ UsesPart("interrupt")
  /\ Done("HALT")
  /\ UNCHANGED <<machine, alu, lines>>

StoreLines ==
  /\ UsesPart("interrupt")
  /\ Done("store")
  /\ \/ int_e' \in SUBSET program.bits /\ UNCHANGED int_f
     \/ int_f' \in SUBSET program.bits /\ UNCHANGED int_e
  /\ pc' = After(2)
  /\ UNCHANGED <<sp, int_enable, memory, frames, echoed, alu>>

\* What the game does next is up to it, but until a request moves the program
\* counter the byte at it is still HALT.
Execute ==
  \/ Halt
  \/ /\ op # "HALT"
     /\ \/ Move \/ Plain \/ Accumulate
        \/ Jump \/ z80_call \/ Rst \/ z80_ret
        \/ PushPair \/ PushPsw \/ PopPair \/ MoveStack
        \/ EnableInterrupts \/ DisableInterrupts \/ StoreLines

\* The timer, the PPU and the serial port set their bits in cycles_step, during
\* an instruction; the bit of the joypad is set by nothing but a store.
Request ==
  /\ at = "execute"
  /\ \E i \in program.bits \ (int_f \cup {Joypad}) : int_f' = int_f \cup {i}
  /\ UNCHANGED <<program, at, op, machine, alu, int_e>>

-----------------------------------------------------------------------------
(* The interrupts, in gameboy_run.                                         *)

Checked(what) == at = "check" /\ at' = "execute" /\ op' = what /\ UNCHANGED program

int_r == int_f \cap int_e

\* (a slip: a halted processor is only woken with the interrupts on)
AttendsIfEnabled == op # "EI" /\ int_enable /\ int_r # {}

\* Whether the loop goes into "check for interrupts" with something to do: not
\* right after EI, and after HALT with the interrupts off too.
Attends == op # "EI" /\ (int_enable \/ op = "HALT") /\ int_r # {}

Ignore ==
  /\ ~Attends
  /\ Checked(op)
  /\ UNCHANGED <<machine, alu, lines>>

\* HALT ends with the interrupts off: none of them is served.
WakeUp ==
  /\ Attends /\ ~int_enable
  /\ Checked("other")
  /\ pc' = After(1)
  /\ UNCHANGED <<sp, int_enable, memory, frames, echoed, alu, lines>>

\* The instruction a handler returns to.
Resume == IF op = "HALT" THEN After(1) ELSE pc

\* (a slip: the last request is served first)
Last(S) == CHOOSE i \in S : \A j \in S : j <= i

\* The lowest bit is served first.
First(S) == CHOOSE i \in S : \A j \in S : i <= j

\* z80_intr: the program counter is pushed as it is.
Serve ==
  /\ Attends /\ int_enable /\ int_r \ {Joypad} # {}
  /\ Checked("other")
  /\ int_f' = int_f \ {First(int_r)}
  /\ Push16(Resume)
  /\ frames' = Append(frames, Resume)
  /\ pc' = Vector(First(int_r))
  /\ int_enable' = FALSE
  /\ UNCHANGED <<alu, int_e>>

\* The joypad's request alone turns the interrupts off and calls no handler.
Joy ==
  /\ Attends /\ int_enable /\ int_r = {Joypad}
  /\ Checked("other")
  /\ pc' = Resume
  /\ int_enable' = FALSE
  /\ UNCHANGED <<sp, memory, frames, echoed, alu, lines>>

Check == Ignore \/ WakeUp \/ Serve \/ Joy

Next == Execute \/ Request \/ Check

Spec == Init /\ [][Next]_vars

\* The emulator thread goes on; what its instructions are is left to the game.
FairSpec == Spec /\ WF_vars(Execute) /\ WF_vars(Check)

-----------------------------------------------------------------------------
(* Properties.                                                             *)

\* Every word on the stack is what was put there, whether by CALL, RST, an
\* interrupt or PUSH and wherever the stack crosses into the mirror of the work
\* RAM, and a return address is that of the instruction that comes next (after a
\* HALT, if it was interrupted); but for words pushed into the mirror by
\* mmu_write_16, which mmu_read does not find again.
StackIsKept ==
  ~echoed => \A i \in 1 .. Len(frames) :
               memory[Mapped(sp + Len(frames) - i)] = frames[i]

\* A request leaves IF when the game clears it, or because it is served: it is
\* enabled, no enabled request is before it, the interrupts are on and go off,
\* and the instruction after EI has been executed.
ServedInTurn ==
  [][\A i \in int_f \ int_f' :
       \/ op' = "store"
       \/ /\ i \in int_e /\ \A j \in int_r : i <= j
          /\ int_enable /\ ~int_enable' /\ op # "EI"
          /\ pc' = Vector(i)]_vars

\* A halted processor goes on when a request it has enabled comes, whether the
\* interrupts are on or off.
HaltEnds == (op = "HALT" /\ int_r # {}) ~> (op # "HALT")

Computes == UsesPart("alu") /\ at = "execute"

\* The nine bits of a byte and the carry turn around: RR undoes RL and RRC undoes
\* RLC, carry and all; SWAP undoes itself; SRL halves a byte and SRA a signed
\* one; RES and SET make BIT tell 0 and 1 and touch no other bit.
RotationsAreRight(v, g) ==
  LET turn(y, r) == z80_ext_cb_execute(CodeOf(0, y), r.v, r.f)
      start == [v |-> v, f |-> g]
      rl    == turn(2, start)
      rlc   == turn(0, start)
      rr    == turn(3, rl)
  IN /\ rr.v = v /\ rr.f.c = g.c
     /\ turn(1, rlc) = [rlc EXCEPT !.v = v]
     /\ turn(6, turn(6, start)).v = v
     /\ turn(7, start).v = v \div 2
     /\ Signed(turn(5, start).v) = Signed(v) \div 2
     /\ \A p \in 0 .. 7 :
          LET off == z80_ext_cb_execute(CodeOf(2, p), v, g)
              on  == z80_ext_cb_execute(CodeOf(3, p), v, g)
          IN /\ z80_ext_cb_execute(CodeOf(1, p), off.v, off.f).f.z = 1
             /\ z80_ext_cb_execute(CodeOf(1, p), on.v, on.f).f.z = 0
             /\ on.v - off.v = Weight[p + 1] /\ v \in {on.v, off.v}

\* Additions and subtractions give the sum and the difference modulo 256, the
\* carry and the half carry say whether they left the byte and the digit, with
\* the carry that came in counted; comparing is subtracting; INC and DEC are
\* adding and subtracting 1 but for the carry; 16 bits likewise; and the
\* rotations are right.
ArithmeticIsRight ==
  Computes =>
    /\ RotationsAreRight(a, f)
    /\ \A b \in Byte :
         /\ z80_adc(a, b, f) = Sum(a, b, f.c) /\ z80_add(a, b) = Sum(a, b, 0)
         /\ z80_sbc(a, b, f) = Difference(a, b, f.c)
         /\ z80_sub(a, b) = Difference(a, b, 0)
         /\ z80_cmp(a, b) = [Difference(a, b, 0) EXCEPT !.v = a]
    /\ z80_inr(a, f) = [Sum(a, 1, 0) EXCEPT !.f.c = f.c]
    /\ z80_dcr(a, f) = [Difference(a, 1, 0) EXCEPT !.f.c = f.c]
    /\ \A b \in Operands : WideSum(a, b, f)

\* DAA after an addition, or a subtraction, of decimal numbers with a carry gives
\* the decimal sum or difference and its carry.
DecimalIsRight ==
  Computes =>
    \A x \in {x \in Decimal : Bcd(x) = a}, y \in Decimal :
      LET sum  == z80_adc(a, Bcd(y), f)
          diff == z80_sbc(a, Bcd(y), f)
          s    == z80_daa(sum.v, sum.f)
          d    == z80_daa(diff.v, diff.f)
      IN /\ s.v = Bcd((x + y + f.c) % 100) /\ s.f.c = Truth(x + y + f.c > 99)
         /\ d.v = Bcd((x - y - f.c) % 100) /\ d.f.c = Truth(x < y + f.c)
         /\ s.f.z = Truth(s.v = 0) /\ d.f.z = Truth(d.v = 0)
=============================================================================
