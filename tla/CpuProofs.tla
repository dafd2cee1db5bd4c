------------------------------ MODULE CpuProofs ------------------------------
(***************************************************************************)
(* Proofs about Cpu and Alu: for every program, every size of its code and *)
(* of its stack, and all bytes.                                            *)
(***************************************************************************)
EXTENDS Cpu, TLAPS

(* The requests.                                                           *)

\* The bits of IE and IF are among the five.
LinesType ==
  /\ program \in Programs
  /\ int_e \subseteq 0 .. Joypad /\ int_f \subseteq 0 .. Joypad

LEMMA LinesInit == Init => LinesType
BY DEF Init, LinesType

LEMMA LinesStep == LinesType /\ [Next]_vars => LinesType'
<1> SUFFICES ASSUME LinesType, [Next]_vars PROVE LinesType'
  OBVIOUS
<1> USE DEF LinesType, Done, Checked
<1>1. program.bits \subseteq 0 .. Joypad
  BY CpuAssumption
<1>2. CASE StoreLines
  BY <1>1, <1>2 DEF StoreLines
<1>3. CASE Request
  BY <1>1, <1>3 DEF Request
<1>4. CASE Move \/ Plain \/ Accumulate \/ Jump \/ z80_call \/ Rst \/ z80_ret
  BY <1>4 DEF Move, Plain, Accumulate, Jump, z80_call, Rst, z80_ret, lines
<1>5. CASE \/ PushPair \/ PushPsw \/ PopPair \/ MoveStack
           \/ EnableInterrupts \/ DisableInterrupts \/ Halt
  BY <1>5 DEF PushPair, PushPsw, PopPair, MoveStack, EnableInterrupts,
              DisableInterrupts, Halt, lines
<1>6. CASE Ignore \/ WakeUp \/ Joy
  BY <1>6 DEF Ignore, WakeUp, Joy, lines
<1>7. CASE Serve
  BY <1>7 DEF Serve
<1>8. CASE UNCHANGED vars
  BY <1>8 DEF vars, lines
<1> QED
  BY <1>2, <1>3, <1>4, <1>5, <1>6, <1>7, <1>8 DEF Next, Execute, Check

LEMMA LinesAlways == Spec => []LinesType
BY LinesInit, LinesStep, PTL DEF Spec

\* The request served is the lowest bit.
LEMMA FirstIsLeast ==
  ASSUME NEW S \in SUBSET (0 .. Joypad), S # {}
  PROVE  First(S) \in S /\ \A j \in S : First(S) <= j
<1>1. S \subseteq {0, 1, 2, 3, 4}
  BY DEF Joypad
<1> DEFINE HasLeast == \E i \in S : \A j \in S : i <= j
<1>2. HasLeast
  <2>1. CASE 0 \in S
    BY <1>1, <2>1
  <2>2. CASE 0 \notin S /\ 1 \in S
    BY <1>1, <2>2
  <2>3. CASE 0 \notin S /\ 1 \notin S /\ 2 \in S
    BY <1>1, <2>3
  <2>4. CASE 0 \notin S /\ 1 \notin S /\ 2 \notin S /\ 3 \in S
    BY <1>1, <2>4
  <2>5. CASE 0 \notin S /\ 1 \notin S /\ 2 \notin S /\ 3 \notin S
    <3>1. 4 \in S /\ S \subseteq {4}
      BY <1>1, <2>5
    <3> QED
      BY <3>1
  <2> HIDE DEF HasLeast
  <2> QED
    BY <2>1, <2>2, <2>3, <2>4, <2>5
<1> QED
  BY <1>2 DEF First

\* A request leaves IF when the game clears it or in its turn: enabled, before
\* every other that is, with the interrupts on and never right after EI
\* (gameboy.c:222-290, z80_gameboy.h:527-541).
THEOREM RequestsServedInTurn == Spec => ServedInTurn
<1>1. LinesType /\ [Next]_vars =>
        [\A i \in int_f \ int_f' :
           \/ op' = "store"
           \/ /\ i \in int_e /\ \A j \in int_r : i <= j
              /\ int_enable /\ ~int_enable' /\ op # "EI"
              /\ pc' = Vector(i)]_vars
  <2> SUFFICES ASSUME LinesType, Next, NEW i \in int_f \ int_f'
               PROVE  \/ op' = "store"
                      \/ /\ i \in int_e /\ \A j \in int_r : i <= j
                         /\ int_enable /\ ~int_enable' /\ op # "EI"
                         /\ pc' = Vector(i)
    OBVIOUS
  <2>1. CASE StoreLines
    BY <2>1 DEF StoreLines, Done
  <2>2. CASE Serve
    <3>1. int_r # {} /\ int_r \in SUBSET (0 .. Joypad)
      BY <2>2 DEF Serve, Attends, LinesType, int_r
    <3>2. i = First(int_r)
      BY <2>2 DEF Serve
    <3>3. i \in int_r /\ \A j \in int_r : i <= j
      BY <3>1, <3>2, FirstIsLeast
    <3>4. i \in int_e
      BY <3>3 DEF int_r
    <3> QED
      BY <2>2, <3>2, <3>3, <3>4 DEF Serve, Attends
  <2>3. ASSUME ~StoreLines, ~Serve PROVE int_f \subseteq int_f'
    <3>1. CASE Request
      BY <3>1 DEF Request
    <3>2. CASE Execute
      BY <2>3, <3>2 DEF Execute, Move, Plain, Accumulate, Jump, z80_call, Rst, z80_ret,
        PushPair, PushPsw, PopPair, MoveStack, EnableInterrupts, DisableInterrupts,
        Halt, lines
    <3>3. CASE Check
      BY <2>3, <3>3 DEF Check, Ignore, WakeUp, Joy, lines
    <3> QED
      BY <3>1, <3>2, <3>3 DEF Next
  <2> QED
    BY <2>1, <2>2, <2>3
<1> QED
  BY <1>1, LinesAlways, PTL DEF Spec, ServedInTurn

-----------------------------------------------------------------------------
(* The stack.                                                              *)

ControlType ==
  /\ program \in Programs
  /\ pc \in Code
  /\ int_enable \in BOOLEAN /\ echoed \in BOOLEAN

\* The words on the stack are in the memory the stack has, at most as many as it
\* has; while the interrupts are on there is room for one.
StackType ==
  /\ sp \in 0 .. 2 * Slots
  /\ memory \in [Words -> Code]
  /\ frames \in Seq(Code)
  /\ Len(frames) <= Slots /\ sp + Len(frames) <= 2 * Slots
  /\ int_enable => sp >= 1 /\ Len(frames) < Slots

StackInv == ControlType /\ StackType /\ StackIsKept

\* What a program consists of.
LEMMA ProgramType ==
  ASSUME program \in Programs
  PROVE  /\ program.size \in Nat \ {0} /\ Slots \in Nat \ {0}
         /\ program.bits \subseteq 0 .. Joypad
BY CpuAssumption DEF Slots

\* Addresses of code.
LEMMA CodeType ==
  ASSUME program \in Programs
  PROVE  /\ 0 \in Code
         /\ \A i \in Nat : Vector(i) \in Code
         /\ pc \in Code => \A i \in Nat : After(i) \in Code
<1>1. PICK n \in Nat \ {0} : n = program.size
  BY ProgramType
<1>2. \A i \in Nat : i % n \in 0 .. n - 1
  OBVIOUS
<1>3. Code = 0 .. n - 1
  BY <1>1 DEF Code
<1>4. ASSUME pc \in Code, NEW i \in Nat PROVE After(i) \in Code
  <2>1. PICK p \in 0 .. n - 1 : p = pc
    BY <1>3, <1>4
  <2>2. p + i \in Nat
    BY <2>1
  <2>3. (p + i) % n \in Code
    BY <1>2, <1>3, <2>2
  <2> QED
    BY <1>1, <2>1, <2>3 DEF After
<1> QED
  BY <1>1, <1>2, <1>3, <1>4 DEF Vector

\* Where a word is found, in n words and their mirror.
Place(n, w) == IF w \in n .. 2 * n - 1 THEN w - n ELSE w

\* Two words of a stack that is not longer than its memory are not the same.
LEMMA Apart ==
  ASSUME NEW n \in Nat \ {0}, NEW x \in 0 .. 2 * n - 1, NEW y \in 0 .. 2 * n - 1,
         x < y, y < x + n
  PROVE  Place(n, x) # Place(n, y)
BY DEF Place

\* A word pushed, wherever it is stored, is the top of the stack and leaves the
\* rest of it alone.
LEMMA Push ==
  ASSUME StackInv, NEW v \in Code, NEW w \in {sp - 1, Mapped(sp - 1)},
         sp >= 1, Len(frames) < Slots,
         memory' = [memory EXCEPT ![w] = v],
         sp' = sp - 1, frames' = Append(frames, v),
         program' = program,
         echoed' \in BOOLEAN,
         ~echoed' => ~echoed /\ w = Mapped(sp - 1)
  PROVE  /\ sp' \in 0 .. 2 * Slots /\ memory' \in [Words -> Code]
         /\ frames' \in Seq(Code) /\ Len(frames') = Len(frames) + 1
         /\ StackIsKept'
<1>1. program \in Programs /\ Slots \in Nat \ {0} /\ Slots' = Slots
  BY ProgramType DEF StackInv, ControlType, Slots
<1>2. PICK n \in Nat \ {0} : n = Slots
  BY <1>1
<1>3. PICK s \in 0 .. 2 * n : s = sp
  BY <1>2 DEF StackInv, StackType
<1>4. PICK l \in Nat : l = Len(frames)
  BY DEF StackInv, StackType
<1>5. l < n /\ s + l <= 2 * n /\ s >= 1
  BY <1>2, <1>3, <1>4 DEF StackInv, StackType
<1>6. Words = 0 .. 2 * n - 1 /\ Mirror = n .. 2 * n - 1 /\ Work = 0 .. n - 1
  BY <1>2 DEF Words, Mirror, Work
<1>0. \A x : Mapped(x) = Place(n, x)
  BY <1>2, <1>6 DEF Mapped, Place
<1>7. w \in Words
  <2>1. w = s - 1 \/ w = Place(n, s - 1)
    BY <1>0, <1>3
  <2>2. s - 1 \in 0 .. 2 * n - 1
    BY <1>5
  <2> QED
    BY <1>6, <2>1, <2>2 DEF Place
<1>8. memory \in [Words -> Code] /\ frames \in Seq(Code)
  BY DEF StackInv, StackType
<1>9. sp' \in 0 .. 2 * Slots /\ memory' \in [Words -> Code]
  <2>1. memory' \in [Words -> Code]
    BY <1>8
  <2>2. s - 1 \in 0 .. 2 * n
    BY <1>5
  <2> QED
    BY <1>2, <1>3, <2>1, <2>2
<1>10. /\ frames' \in Seq(Code) /\ Len(frames') = l + 1
       /\ \A i \in 1 .. l : frames'[i] = frames[i]
       /\ frames'[l + 1] = v
  BY <1>4, <1>8
<1>11. ASSUME ~echoed', NEW i \in 1 .. l + 1
       PROVE  memory'[Place(n, (s - 1) + (l + 1) - i)] = frames'[i]
  <2>1. w = Place(n, s - 1) /\ ~echoed
    BY <1>0, <1>3, <1>11
  <2>2. CASE i = l + 1
    <3>1. (s - 1) + (l + 1) - i = s - 1
      BY <2>2
    <3> QED
      BY <1>7, <1>8, <1>10, <2>1, <2>2, <3>1
  <2>3. CASE i \in 1 .. l
    <3>1. PICK y \in 0 .. 2 * n - 1 : y = s + l - i /\ y = (s - 1) + (l + 1) - i
      BY <1>5, <2>3
    <3>2. s - 1 < y /\ y < (s - 1) + n /\ s - 1 \in 0 .. 2 * n - 1
      BY <1>5, <2>3, <3>1
    <3>3. Place(n, s - 1) # Place(n, y)
      BY <3>2, Apart
    <3>4. memory[Place(n, y)] = frames[i]
      BY <1>0, <1>3, <1>4, <2>1, <2>3, <3>1 DEF StackInv, StackIsKept
    <3>5. Place(n, y) \in Words
      BY <1>6 DEF Place
    <3> QED
      BY <1>7, <1>8, <1>10, <2>1, <2>3, <3>1, <3>3, <3>4, <3>5
  <2>4. i = l + 1 \/ i \in 1 .. l
    OBVIOUS
  <2> QED
    BY <2>2, <2>3, <2>4, Zenon
<1>12. StackIsKept'
  <2>1. Slots' = n /\ Mirror' = n .. 2 * n - 1
    BY <1>1, <1>2 DEF Mirror
  <2>2. StackIsKept' <=>
          (~echoed' => \A i \in 1 .. Len(frames') :
                         memory'[Place(n, sp' + Len(frames') - i)] = frames'[i])
    BY <2>1 DEF StackIsKept, Mapped, Place
  <2> SUFFICES ASSUME ~echoed', NEW i \in 1 .. l + 1
               PROVE  memory'[Place(n, sp' + (l + 1) - i)] = frames'[i]
    BY <1>10, <2>2
  <2> QED
    BY <1>3, <1>11
<1> QED
  BY <1>4, <1>9, <1>10, <1>12

\* A word taken off.
LEMMA Pop ==
  ASSUME StackInv, Pop16, program' = program
  PROVE  /\ sp' \in 1 .. 2 * Slots /\ memory' = memory
         /\ frames' \in Seq(Code) /\ Len(frames') < Slots
         /\ sp' + Len(frames') <= 2 * Slots
         /\ StackIsKept'
<1>1. program \in Programs /\ Slots \in Nat \ {0} /\ Slots' = Slots
  BY ProgramType DEF StackInv, ControlType, Slots
<1>2. PICK n \in Nat \ {0} : n = Slots
  BY <1>1
<1>3. PICK s \in 0 .. 2 * n : s = sp
  BY <1>2 DEF StackInv, StackType
<1>4. PICK l \in Nat : l = Len(frames)
  BY DEF StackInv, StackType
<1>5. l <= n /\ s + l <= 2 * n
  BY <1>2, <1>3, <1>4 DEF StackInv, StackType
<1>6. Words = 0 .. 2 * n - 1 /\ Mirror = n .. 2 * n - 1 /\ Work = 0 .. n - 1
  BY <1>2 DEF Words, Mirror, Work
<1>7. s <= 2 * n - 1
  BY <1>3, <1>6 DEF Pop16, MayPop
<1>8. /\ sp' = s + 1 /\ memory' = memory /\ echoed' = echoed
      /\ frames' = SubSeq(frames, 1, l - 1)
  BY <1>3, <1>4 DEF Pop16
<1>9. frames \in Seq(Code)
  BY DEF StackInv, StackType
<1>10. CASE l = 0
  <2>1. frames' = <<>>
    BY <1>8, <1>10
  <2>2. Len(frames') = 0 /\ frames' \in Seq(Code)
    BY <2>1
  <2>3. StackIsKept'
    BY <2>2 DEF StackIsKept
  <2> QED
    BY <1>2, <1>7, <1>8, <2>2, <2>3
<1>11. CASE l > 0
  <2>1. /\ frames' \in Seq(Code) /\ Len(frames') = l - 1
        /\ \A i \in 1 .. l - 1 : frames'[i] = frames[i]
    BY <1>4, <1>8, <1>9, <1>11
  <2>2. Mirror' = Mirror /\ Slots' = n
    BY <1>1, <1>2 DEF Mirror
  <2>3. ASSUME ~echoed', NEW i \in 1 .. l - 1
        PROVE  memory'[Mapped(sp' + (l - 1) - i)] = frames'[i]
    <3>1. i \in 1 .. l /\ sp' + (l - 1) - i = s + l - i
      BY <1>8, <2>3
    <3>2. memory[Mapped(s + l - i)] = frames[i]
      BY <1>3, <1>4, <1>8, <2>3, <3>1 DEF StackInv, StackIsKept
    <3> QED
      BY <1>8, <2>1, <3>1, <3>2
  <2>4. StackIsKept'
    BY <1>2, <2>1, <2>2, <2>3 DEF StackIsKept, Mapped
  <2>5. s + 1 \in 1 .. 2 * n /\ l - 1 < n /\ s + 1 + (l - 1) <= 2 * n
    BY <1>5, <1>7, <1>11
  <2> QED
    BY <1>2, <1>8, <2>1, <2>4, <2>5
<1> QED
  BY <1>10, <1>11

\* A step that does not touch the stack.
LEMMA Same ==
  ASSUME StackInv, program' = program, pc' \in Code, int_enable' \in BOOLEAN,
         UNCHANGED <<sp, memory, frames, echoed>>,
         int_enable' => sp >= 1 /\ Len(frames) < Slots
  PROVE  StackInv'
<1>1. Slots' = Slots /\ Code' = Code /\ Words' = Words /\ Mirror' = Mirror
  BY DEF Slots, Code, Words, Work, Mirror
<1>2. ControlType'
  BY <1>1 DEF StackInv, ControlType
<1>3. StackType'
  BY <1>1 DEF StackInv, StackType
<1>4. StackIsKept'
  BY <1>1 DEF StackInv, StackIsKept, Mapped
<1> QED
  BY <1>2, <1>3, <1>4 DEF StackInv

\* The rooms the model asks for.
LEMMA RoomFacts ==
  ASSUME StackInv
  PROVE  /\ Room(1) <=> sp >= 1 /\ Len(frames) < Slots
         /\ Room(2) => sp >= 2 /\ Len(frames) + 1 < Slots
<1>1. PICK n \in Nat \ {0} : n = Slots
  BY ProgramType DEF StackInv, ControlType
<1>2. PICK s \in 0 .. 2 * n : s = sp
  BY <1>1 DEF StackInv, StackType
<1>3. PICK l \in Nat : l = Len(frames)
  BY DEF StackInv, StackType
<1>4. Words = 0 .. 2 * n - 1
  BY <1>1 DEF Words, Work, Mirror
<1> QED
  BY <1>1, <1>2, <1>3, <1>4 DEF Room

\* A step that pushes a word.
LEMMA PushStep ==
  ASSUME StackInv, NEW v \in Code, NEW w \in {sp - 1, Mapped(sp - 1)},
         Room(1), int_enable' \in BOOLEAN, int_enable' => Room(2),
         memory' = [memory EXCEPT ![w] = v],
         sp' = sp - 1, frames' = Append(frames, v),
         program' = program, pc' \in Code,
         echoed' \in BOOLEAN, ~echoed' => ~echoed /\ w = Mapped(sp - 1)
  PROVE  StackInv'
<1>1. Slots' = Slots /\ Code' = Code /\ Words' = Words
  BY DEF Slots, Code, Words, Work, Mirror
<1>2. PICK n \in Nat \ {0} : n = Slots
  BY ProgramType DEF StackInv, ControlType
<1>3. PICK s \in 0 .. 2 * n : s = sp
  BY <1>2 DEF StackInv, StackType
<1>4. PICK l \in Nat : l = Len(frames)
  BY DEF StackInv, StackType
<1>5. s >= 1 /\ l < n /\ s + l <= 2 * n /\ (int_enable' => s >= 2 /\ l + 1 < n)
  BY <1>2, <1>3, <1>4, RoomFacts DEF StackInv, StackType
<1>6. /\ sp' \in 0 .. 2 * Slots /\ memory' \in [Words -> Code]
      /\ frames' \in Seq(Code) /\ Len(frames') = l + 1
      /\ StackIsKept'
  BY <1>4, RoomFacts, Push
<1>7. sp' = s - 1
  BY <1>3
<1>8. s - 1 + (l + 1) <= 2 * n /\ l + 1 <= n
      /\ (int_enable' => s - 1 >= 1 /\ l + 1 < n)
  BY <1>5
<1>9. StackType'
  BY <1>1, <1>2, <1>6, <1>7, <1>8 DEF StackType
<1>10. ControlType'
  BY <1>1 DEF StackInv, ControlType
<1> QED
  BY <1>6, <1>9, <1>10 DEF StackInv

\* One that takes a word off: the interrupts may go on with it.
LEMMA PopStep ==
  ASSUME StackInv, Pop16, program' = program, pc' \in Code,
         int_enable' \in BOOLEAN
  PROVE  StackInv'
<1>1. Slots' = Slots /\ Code' = Code /\ Words' = Words
  BY DEF Slots, Code, Words, Work, Mirror
<1>2. PICK n \in Nat \ {0} : n = Slots
  BY ProgramType DEF StackInv, ControlType
<1>3. /\ sp' \in 1 .. 2 * n /\ memory' = memory
      /\ frames' \in Seq(Code) /\ Len(frames') < n
      /\ sp' + Len(frames') <= 2 * n
      /\ StackIsKept'
  BY <1>2, Pop
<1>4. PICK l \in Nat : l = Len(frames')
  BY <1>1, <1>3
<1>5. StackType'
  BY <1>1, <1>2, <1>3, <1>4 DEF StackInv, StackType
<1>6. ControlType'
  BY <1>1 DEF StackInv, ControlType, Pop16
<1> QED
  BY <1>3, <1>5, <1>6 DEF StackInv

LEMMA StackInit == Init => StackInv
<1> SUFFICES ASSUME Init PROVE StackInv
  OBVIOUS
<1>1. program \in Programs
  BY DEF Init
<1>2. Slots \in Nat \ {0} /\ 0 \in Code
  BY <1>1, ProgramType, CodeType
<1>3. memory \in [Words -> Code]
  BY <1>2 DEF Init
<1>4. frames = <<>> /\ Len(frames) = 0 /\ frames \in Seq(Code)
  BY DEF Init
<1>5. PICK n \in Nat \ {0} : n = Slots
  BY <1>2
<1>6. sp = n /\ int_enable = FALSE /\ pc = 0 /\ echoed = FALSE
  BY <1>5 DEF Init
<1>7. ControlType
  BY <1>1, <1>2, <1>6 DEF ControlType
<1>8. StackType
  BY <1>3, <1>4, <1>5, <1>6 DEF StackType
<1>9. StackIsKept
  BY <1>4 DEF StackIsKept
<1> QED
  BY <1>7, <1>8, <1>9 DEF StackInv

LEMMA StackStep == LinesType /\ StackInv /\ [Next]_vars => StackInv'
<1> SUFFICES ASSUME LinesType, StackInv, [Next]_vars PROVE StackInv'
  OBVIOUS
<1>1. /\ program \in Programs /\ pc \in Code /\ int_enable \in BOOLEAN
      /\ echoed \in BOOLEAN
      /\ int_enable => sp >= 1 /\ Len(frames) < Slots
  BY DEF StackInv, ControlType, StackType
<1>2. /\ \A i \in Nat : After(i) \in Code
      /\ \A i \in Nat : Vector(i) \in Code
      /\ 0 \in Code /\ Vectors \subseteq Code
  BY <1>1, CodeType DEF Vectors
<1>3. MayPush => Room(1) /\ (int_enable => Room(2))
  <2>1. Room(2) => Room(1)
    <3>1. PICK n \in Nat \ {0} : n = Slots
      BY <1>1, ProgramType
    <3>2. PICK s \in 0 .. 2 * n : s = sp
      BY <3>1 DEF StackInv, StackType
    <3>3. PICK l \in Nat : l = Len(frames)
      BY DEF StackInv, StackType
    <3>4. Words = 0 .. 2 * n - 1
      BY <3>1 DEF Words, Work, Mirror
    <3> QED
      BY <3>1, <3>2, <3>3, <3>4 DEF Room
  <2> QED
    BY <2>1 DEF MayPush
<1> USE DEF Done, Checked
<1>4. CASE Move
  BY <1>1, <1>2, <1>4, Same DEF Move
<1>5. CASE Plain
  BY <1>1, <1>2, <1>5, Same DEF Plain
<1>6. CASE Accumulate
  BY <1>1, <1>2, <1>6, Same DEF Accumulate
<1>7. CASE Jump
  BY <1>1, <1>2, <1>7, Same DEF Jump
<1>8. CASE z80_call
  BY <1>1, <1>2, <1>3, <1>8, PushStep DEF z80_call, Push16, Mapped
<1>9. CASE Rst
  BY <1>1, <1>2, <1>3, <1>9, PushStep DEF Rst, Push16, Mapped
<1>10. CASE z80_ret
  <2>1. Popped \in Code
    <3>1. Mapped(sp) \in Words
      BY <1>10, <1>1, ProgramType DEF z80_ret, Pop16, MayPop, Mapped, Words, Work, Mirror
    <3> QED
      BY <3>1 DEF StackInv, StackType, Popped
  <2> QED
    BY <1>1, <1>10, <2>1, PopStep DEF z80_ret
<1>11. CASE PushPair
  BY <1>1, <1>2, <1>3, <1>11, PushStep DEF PushPair, Push16, Mapped
<1>12. CASE PushPsw
  BY <1>1, <1>2, <1>3, <1>12, PushStep DEF PushPsw
<1>13. CASE PopPair
  BY <1>1, <1>2, <1>13, PopStep DEF PopPair
<1>14. CASE MoveStack
  <2>1. PICK n \in Nat \ {0} : n = Slots
    BY <1>1, ProgramType
  <2>2. Slots' = Slots /\ Code' = Code /\ Words' = Words
    BY <1>14 DEF MoveStack, Slots, Code, Words, Work, Mirror
  <2>3. frames' = <<>> /\ Len(frames') = 0 /\ frames' \in Seq(Code)
    BY <1>14 DEF MoveStack
  <2>4. PICK s \in 1 .. 2 * n : s = sp'
    BY <1>14, <2>1 DEF MoveStack
  <2>5. StackType'
    <3>1. memory' \in [Words' -> Code']
      BY <1>14, <2>2 DEF MoveStack, StackInv, StackType
    <3>2. /\ s \in 0 .. 2 * n /\ 0 <= n /\ s + 0 <= 2 * n
          /\ s >= 1 /\ 0 < n
      OBVIOUS
    <3>3. Slots' = n /\ frames' \in Seq(Code')
      BY <2>1, <2>2, <2>3
    <3> QED
      <4>1. sp' \in 0 .. 2 * Slots'
        BY <2>4, <3>2, <3>3
      <4>2. Len(frames') <= Slots' /\ sp' + Len(frames') <= 2 * Slots'
        BY <2>3, <2>4, <3>2, <3>3
      <4>3. sp' >= 1 /\ Len(frames') < Slots'
        BY <2>3, <2>4, <3>2, <3>3
      <4> QED
        BY <3>1, <3>3, <4>1, <4>2, <4>3 DEF StackType
  <2>6. ControlType'
    BY <1>1, <1>2, <1>14, <2>2 DEF MoveStack, ControlType
  <2> QED
    BY <2>3, <2>5, <2>6 DEF StackInv, StackIsKept
<1>15. CASE EnableInterrupts
  BY <1>1, <1>2, <1>15, Same, RoomFacts DEF EnableInterrupts
<1>16. CASE DisableInterrupts
  BY <1>1, <1>2, <1>16, Same DEF DisableInterrupts
<1>17. CASE Halt
  BY <1>1, <1>17, Same DEF Halt, machine
<1>18. CASE StoreLines
  BY <1>1, <1>2, <1>18, Same DEF StoreLines
<1>19. CASE Request
  BY <1>1, <1>19, Same DEF Request, machine
<1>20. CASE Ignore
  BY <1>1, <1>20, Same DEF Ignore, machine
<1>21. CASE WakeUp
  BY <1>1, <1>2, <1>21, Same DEF WakeUp
<1>22. CASE Serve
  <2>1. Resume \in Code
    BY <1>1, <1>2 DEF Resume
  <2>2. Vector(First(int_r)) \in Code
    <3>1. int_r # {} /\ int_r \in SUBSET (0 .. Joypad)
      BY <1>22 DEF Serve, Attends, LinesType, int_r
    <3>2. First(int_r) \in 0 .. Joypad
      BY <3>1, FirstIsLeast
    <3>3. First(int_r) \in Nat
      BY <3>2 DEF Joypad
    <3> QED
      BY <1>2, <3>3
  <2>3. Room(1)
    BY <1>1, <1>22, RoomFacts DEF Serve
  <2> QED
    BY <1>1, <1>22, <2>1, <2>2, <2>3, PushStep DEF Serve, Push16, Mapped
<1>23. CASE Joy
  <2>1. Resume \in Code
    BY <1>1, <1>2 DEF Resume
  <2> QED
    BY <1>1, <1>23, <2>1, Same DEF Joy
<1>24. CASE UNCHANGED vars
  BY <1>1, <1>24, Same DEF vars, machine
<1> QED
  BY <1>4, <1>5, <1>6, <1>7, <1>8, <1>9, <1>10, <1>11, <1>12, <1>13, <1>14, <1>15,
     <1>16, <1>17, <1>18, <1>19, <1>20, <1>21, <1>22, <1>23, <1>24
  DEF Next, Execute, Check

\* Whatever a program does, for every size of its code and its stack, a word on
\* the stack is what was put there (z80_gameboy.h:329-347, 527-541, 636-645,
\* 2065-2069, 2323-2350; mmu.c:1106-1140).
THEOREM StackKept == Spec => []StackIsKept
<1>1. StackInv => StackIsKept
  BY DEF StackInv
<1> QED
  BY <1>1, LinesAlways, StackInit, StackStep, PTL DEF Spec

-----------------------------------------------------------------------------
(* Additions and subtractions of bytes.                                   *)

Digit == 0 .. 15

\* Quotient and remainder.
LEMMA DivisionLaw ==
  ASSUME NEW n \in Nat, NEW m \in Nat \ {0}
  PROVE  n = m * (n \div m) + (n % m) /\ n \div m \in Nat /\ n % m \in 0 .. m - 1
OBVIOUS

\* A byte as two digits.
LEMMA Digits ==
  ASSUME NEW x \in Byte
  PROVE  \E high \in Digit, low \in Digit :
            x = 16 * high + low /\ x \div 16 = high /\ x % 16 = low
<1>1. x = 16 * (x \div 16) + (x % 16)
  BY DivisionLaw, x \in Nat, 16 \in Nat \ {0} DEF Byte
<1>2. x \div 16 \in Digit /\ x % 16 \in Digit
  BY DEF Byte, Digit
<1> QED
  BY <1>1, <1>2

\* The fifth bit of a sum of digits.
LEMMA DigitsAdd ==
  ASSUME NEW xh \in Digit, NEW xl \in Digit, NEW yh \in Digit, NEW yl \in Digit,
         NEW k \in Flag, NEW s, s = 16 * xh + xl + (16 * yh + yl) + k
  PROVE  ((xh % 2) + (yh % 2) + ((s \div 16) % 2)) % 2 = Truth(xl + yl + k > 15)
<1> USE DEF Digit, Flag, Truth
<1>1. CASE xl + yl + k > 15
  <2>1. s \div 16 = xh + yh + 1
    BY <1>1
  <2>2. ((xh % 2) + (yh % 2) + ((xh + yh + 1) % 2)) % 2 = 1
    OBVIOUS
  <2> QED
    BY <1>1, <2>1, <2>2
<1>2. CASE ~(xl + yl + k > 15)
  <2>1. s \div 16 = xh + yh
    BY <1>2
  <2>2. ((xh % 2) + (yh % 2) + ((xh + yh) % 2)) % 2 = 0
    OBVIOUS
  <2> QED
    BY <1>2, <2>1, <2>2
<1> QED
  BY <1>1, <1>2

\* And of their difference, e being what makes it an unsigned number.
LEMMA DigitsSubtract ==
  ASSUME NEW xh \in Digit, NEW xl \in Digit, NEW yh \in Digit, NEW yl \in Digit,
         NEW k \in Flag, NEW e, e = 0 \/ e = 131072,
         NEW s, s = 16 * xh + xl - (16 * yh + yl) - k + e
  PROVE  ((xh % 2) + (yh % 2) + ((s \div 16) % 2)) % 2 = Truth(xl < yl + k)
<1> USE DEF Digit, Flag, Truth
<1>1. CASE xl < yl + k
  <2>1. s \div 16 = xh - yh - 1 \/ s \div 16 = xh - yh - 1 + 8192
    <3>1. CASE e = 0
      BY <1>1, <3>1
    <3>2. CASE e = 131072
      BY <1>1, <3>2
    <3> QED
      BY <3>1, <3>2
  <2>2. ((xh % 2) + (yh % 2) + ((xh - yh - 1) % 2)) % 2 = 1
    OBVIOUS
  <2>3. ((xh % 2) + (yh % 2) + ((xh - yh - 1 + 8192) % 2)) % 2 = 1
    OBVIOUS
  <2> QED
    BY <1>1, <2>1, <2>2, <2>3
<1>2. CASE ~(xl < yl + k)
  <2>1. s \div 16 = xh - yh \/ s \div 16 = xh - yh + 8192
    <3>1. CASE e = 0
      BY <1>2, <3>1
    <3>2. CASE e = 131072
      BY <1>2, <3>2
    <3> QED
      BY <3>1, <3>2
  <2>2. ((xh % 2) + (yh % 2) + ((xh - yh) % 2)) % 2 = 0
    OBVIOUS
  <2>3. ((xh % 2) + (yh % 2) + ((xh - yh + 8192) % 2)) % 2 = 0
    OBVIOUS
  <2> QED
    BY <1>2, <2>1, <2>2, <2>3
<1> QED
  BY <1>1, <1>2

\* The exclusive or of three bits, of numbers that are h, i and s after w.
LEMMA XorBits ==
  ASSUME NEW w \in Nat \ {0}, NEW x \in Int, NEW y \in Int, NEW r \in Int,
         NEW h \in Int, NEW i \in Int, NEW s \in Int,
         x \div w = h, y \div w = i, r % 131072 = s
  PROVE  Xored(w, x, y, r) = ((h % 2) + (i % 2) + ((s \div w) % 2)) % 2
BY DEF Xored, Bit

\* The half carry of a sum, from the fifth bits of the numbers and the sum.
LEMMA HalfCarry ==
  ASSUME NEW x \in Byte, NEW y \in Byte, NEW k \in Flag
  PROVE  Xored(16, x, y, x + y + k) = Truth((x % 16) + (y % 16) + k > 15)
<1>1. PICK xh \in Digit, xl \in Digit :
        x = 16 * xh + xl /\ x \div 16 = xh /\ x % 16 = xl
  BY Digits
<1>2. PICK yh \in Digit, yl \in Digit :
        y = 16 * yh + yl /\ y \div 16 = yh /\ y % 16 = yl
  BY Digits
<1>3. (x + y + k) % 131072 = x + y + k
  BY DEF Byte, Flag
<1>4. PICK s \in Int : s = 16 * xh + xl + (16 * yh + yl) + k
  BY DEF Digit, Flag
<1>5. (x + y + k) % 131072 = s
  BY <1>1, <1>2, <1>3, <1>4 DEF Digit, Flag
<1>6. Xored(16, x, y, x + y + k) = ((xh % 2) + (yh % 2) + ((s \div 16) % 2)) % 2
  <2>1. x \in Int /\ y \in Int /\ xh \in Int /\ yh \in Int /\ k \in Int
    BY DEF Byte, Digit, Flag
  <2> QED
    BY <1>1, <1>2, <1>5, <2>1, XorBits
<1>7. ((xh % 2) + (yh % 2) + ((s \div 16) % 2)) % 2 = Truth(xl + yl + k > 15)
  BY <1>3, <1>4, DigitsAdd
<1> QED
  BY <1>1, <1>2, <1>6, <1>7, Zenon

\* And the half borrow of a difference.
LEMMA HalfBorrow ==
  ASSUME NEW x \in Byte, NEW y \in Byte, NEW k \in Flag
  PROVE  Xored(16, x, y, x - y - k) = Truth(x % 16 < (y % 16) + k)
<1>1. PICK xh \in Digit, xl \in Digit :
        x = 16 * xh + xl /\ x \div 16 = xh /\ x % 16 = xl
  BY Digits
<1>2. PICK yh \in Digit, yl \in Digit :
        y = 16 * yh + yl /\ y \div 16 = yh /\ y % 16 = yl
  BY Digits
<1>3. PICK e \in Int : /\ e = 0 \/ e = 131072
                       /\ (x - y - k) % 131072 = x - y - k + e
  BY DEF Byte, Flag
<1>4. PICK s \in Int : s = 16 * xh + xl - (16 * yh + yl) - k + e
  BY DEF Digit, Flag
<1>5. (x - y - k) % 131072 = s
  BY <1>1, <1>2, <1>3, <1>4 DEF Digit, Flag
<1>6. Xored(16, x, y, x - y - k) = ((xh % 2) + (yh % 2) + ((s \div 16) % 2)) % 2
  <2>1. x \in Int /\ y \in Int /\ xh \in Int /\ yh \in Int /\ k \in Int
    BY DEF Byte, Digit, Flag
  <2> QED
    BY <1>1, <1>2, <1>5, <2>1, XorBits
<1>7. ((xh % 2) + (yh % 2) + ((s \div 16) % 2)) % 2 = Truth(xl < yl + k)
  BY <1>3, <1>4, DigitsSubtract
<1> QED
  BY <1>1, <1>2, <1>6, <1>7, Zenon

\* So the nine bits of a sum are the sum, and those of a difference are the
\* difference.
LEMMA NineIsSum ==
  ASSUME NEW x \in Byte, NEW y \in Byte, NEW k \in Flag
  PROVE  Nine(x + y + k, x, y, 0) = Sum(x, y, k)
<1>1. ((x + y + k) % 512 > 255) <=> (x + y + k > 255)
  BY DEF Byte, Flag
<1>2. Truth((x + y + k) % 512 > 255) = Truth(x + y + k > 255)
  BY <1>1 DEF Truth
<1>3. Xored(16, x, y, x + y + k) = Truth((x % 16) + (y % 16) + k > 15)
  BY HalfCarry
<1>4. PICK h : h = Truth((x % 16) + (y % 16) + k > 15)
  OBVIOUS
<1>5. PICK c : c = Truth(x + y + k > 255)
  OBVIOUS
<1>6. Xored(16, x, y, x + y + k) = h /\ Truth((x + y + k) % 512 > 255) = c
  BY <1>2, <1>3, <1>4, <1>5
<1> QED
  BY <1>4, <1>5, <1>6 DEF Nine, Sum

LEMMA NineIsDifference ==
  ASSUME NEW x \in Byte, NEW y \in Byte, NEW k \in Flag
  PROVE  Nine(x - y - k, x, y, 1) = Difference(x, y, k)
<1>1. ((x - y - k) % 512 > 255) <=> (x < y + k)
  BY DEF Byte, Flag
<1>2. Truth((x - y - k) % 512 > 255) = Truth(x < y + k)
  BY <1>1 DEF Truth
<1>3. Xored(16, x, y, x - y - k) = Truth(x % 16 < (y % 16) + k)
  BY HalfBorrow
<1>4. PICK h : h = Truth(x % 16 < (y % 16) + k)
  OBVIOUS
<1>5. PICK c : c = Truth(x < y + k)
  OBVIOUS
<1>6. Xored(16, x, y, x - y - k) = h /\ Truth((x - y - k) % 512 > 255) = c
  BY <1>2, <1>3, <1>4, <1>5
<1> QED
  BY <1>4, <1>5, <1>6 DEF Nine, Difference

LEMMA FlagsType ==
  ASSUME NEW g \in Flags
  PROVE  g.z \in Flag /\ g.n \in Flag /\ g.h \in Flag /\ g.c \in Flag
BY DEF Flags

\* The instructions that add and subtract bytes.
LEMMA AddsRight ==
  ASSUME NEW x \in Byte, NEW y \in Byte, NEW g \in Flags
  PROVE  /\ z80_adc(x, y, g) = Sum(x, y, g.c) /\ z80_add(x, y) = Sum(x, y, 0)
         /\ z80_sbc(x, y, g) = Difference(x, y, g.c)
         /\ z80_sub(x, y) = Difference(x, y, 0)
         /\ z80_cmp(x, y) = [Difference(x, y, 0) EXCEPT !.v = x]
<1>1. x + y + 0 = x + y /\ x - y - 0 = x - y /\ 0 \in Flag /\ g.c \in Flag
  BY FlagsType DEF Byte, Flag
<1>2. /\ Nine(x + y + g.c, x, y, 0) = Sum(x, y, g.c)
      /\ Nine(x - y - g.c, x, y, 1) = Difference(x, y, g.c)
  BY <1>1, NineIsSum, NineIsDifference
<1>3. /\ Nine(x + y + 0, x, y, 0) = Sum(x, y, 0)
      /\ Nine(x - y - 0, x, y, 1) = Difference(x, y, 0)
  BY <1>1, NineIsSum, NineIsDifference
<1>4. /\ Nine(x + y, x, y, 0) = Sum(x, y, 0)
      /\ Nine(x - y, x, y, 1) = Difference(x, y, 0)
  BY <1>1, <1>3
<1> QED
  BY <1>2, <1>4 DEF z80_adc, z80_add, z80_sbc, z80_sub, z80_cmp

\* INC and DEC are adding and subtracting 1, but for the carry.
LEMMA StepsRight ==
  ASSUME NEW x \in Byte, NEW g \in Flags
  PROVE  /\ z80_inr(x, g) = [Sum(x, 1, 0) EXCEPT !.f.c = g.c]
         /\ z80_dcr(x, g) = [Difference(x, 1, 0) EXCEPT !.f.c = g.c]
<1>1. x + 1 + 0 = x + 1 /\ x - 1 - 0 = x - 1 /\ 0 \in Flag /\ 1 \in Byte
  BY DEF Byte, Flag
<1>2. /\ Nine(x + 1 + 0, x, 1, 0) = Sum(x, 1, 0)
      /\ Nine(x - 1 - 0, x, 1, 1) = Difference(x, 1, 0)
  BY <1>1, NineIsSum, NineIsDifference
<1>3. /\ Nine(x + 1, x, 1, 0) = Sum(x, 1, 0)
      /\ Nine(x - 1, x, 1, 1) = Difference(x, 1, 0)
  BY <1>1, <1>2
<1> QED
  BY <1>3 DEF z80_inr, z80_dcr

-----------------------------------------------------------------------------
(* Rotations.                                                              *)

\* The byte after 0xCB says which.
LEMMA Codes ==
  ASSUME NEW v, NEW g
  PROVE  /\ z80_ext_cb_execute(CodeOf(0, 0), v, g) = z80_rl(v, g, TRUE)
         /\ z80_ext_cb_execute(CodeOf(0, 1), v, g) = z80_rr(v, g, TRUE)
         /\ z80_ext_cb_execute(CodeOf(0, 2), v, g) = z80_rl(v, g, FALSE)
         /\ z80_ext_cb_execute(CodeOf(0, 3), v, g) = z80_rr(v, g, FALSE)
         /\ z80_ext_cb_execute(CodeOf(0, 5), v, g) = z80_sr(v, TRUE)
         /\ z80_ext_cb_execute(CodeOf(0, 6), v, g) = swap(v)
         /\ z80_ext_cb_execute(CodeOf(0, 7), v, g) = z80_sr(v, FALSE)
<1>1. CodeOf(0, 0) = 0 /\ CodeOf(0, 1) = 8 /\ CodeOf(0, 2) = 16 /\ CodeOf(0, 3) = 24
      /\ CodeOf(0, 5) = 40 /\ CodeOf(0, 6) = 48 /\ CodeOf(0, 7) = 56
  BY DEF CodeOf
<1>2. 0 \div 64 = 0 /\ 8 \div 64 = 0 /\ 16 \div 64 = 0 /\ 24 \div 64 = 0 /\ 40 \div 64 = 0
      /\ 48 \div 64 = 0 /\ 56 \div 64 = 0
  OBVIOUS
<1>3. (0 \div 8) % 8 = 0 /\ (8 \div 8) % 8 = 1 /\ (16 \div 8) % 8 = 2
      /\ (24 \div 8) % 8 = 3 /\ (40 \div 8) % 8 = 5 /\ (48 \div 8) % 8 = 6
      /\ (56 \div 8) % 8 = 7
  OBVIOUS
<1>4. z80_ext_cb_execute(0, v, g) = z80_rl(v, g, TRUE)
  BY <1>2, <1>3 DEF z80_ext_cb_execute, Turned
<1>5. z80_ext_cb_execute(8, v, g) = z80_rr(v, g, TRUE)
  BY <1>2, <1>3 DEF z80_ext_cb_execute, Turned
<1>6. z80_ext_cb_execute(16, v, g) = z80_rl(v, g, FALSE)
  BY <1>2, <1>3 DEF z80_ext_cb_execute, Turned
<1>7. z80_ext_cb_execute(24, v, g) = z80_rr(v, g, FALSE)
  BY <1>2, <1>3 DEF z80_ext_cb_execute, Turned
<1>8. z80_ext_cb_execute(40, v, g) = z80_sr(v, TRUE)
  BY <1>2, <1>3 DEF z80_ext_cb_execute, Turned
<1>9. z80_ext_cb_execute(48, v, g) = swap(v)
  BY <1>2, <1>3 DEF z80_ext_cb_execute, Turned
<1>10. z80_ext_cb_execute(56, v, g) = z80_sr(v, FALSE)
  BY <1>2, <1>3 DEF z80_ext_cb_execute, Turned
<1> QED
  BY <1>1, <1>4, <1>5, <1>6, <1>7, <1>8, <1>9, <1>10, Zenon

\* And of which bit.
LEMMA BitCodes ==
  ASSUME NEW p \in 0 .. 7, NEW v, NEW g
  PROVE  /\ z80_ext_cb_execute(CodeOf(1, p), v, g) = z80_bit(v, p, g)
         /\ z80_ext_cb_execute(CodeOf(2, p), v, g) = [v |-> z80_res(v, p), f |-> g]
         /\ z80_ext_cb_execute(CodeOf(3, p), v, g) = [v |-> z80_set(v, p), f |-> g]
<1>1. /\ CodeOf(1, p) \div 64 = 1 /\ (CodeOf(1, p) \div 8) % 8 = p
      /\ CodeOf(2, p) \div 64 = 2 /\ (CodeOf(2, p) \div 8) % 8 = p
      /\ CodeOf(3, p) \div 64 = 3 /\ (CodeOf(3, p) \div 8) % 8 = p
  BY DEF CodeOf
<1>2. z80_ext_cb_execute(CodeOf(1, p), v, g) = z80_bit(v, p, g)
  BY <1>1 DEF z80_ext_cb_execute
<1>3. z80_ext_cb_execute(CodeOf(2, p), v, g) = [v |-> z80_res(v, p), f |-> g]
  BY <1>1 DEF z80_ext_cb_execute
<1>4. z80_ext_cb_execute(CodeOf(3, p), v, g) = [v |-> z80_set(v, p), f |-> g]
  BY <1>1 DEF z80_ext_cb_execute
<1> QED
  BY <1>2, <1>3, <1>4

\* A rotation to the left, k coming in, and the one to the right that follows.
LEMMA LeftAndBack ==
  ASSUME NEW v \in Byte, NEW k \in Flag
  PROVE  /\ Bit(v, 128) \in Flag /\ ((2 * v) % 256) + k \in Byte
         /\ Bit(((2 * v) % 256) + k, 1) = k
         /\ ((((2 * v) % 256) + k) \div 2) + 128 * Bit(v, 128) = v
BY DEF Byte, Flag, Bit

\* And one to the right.
LEMMA Right ==
  ASSUME NEW v \in Byte, NEW k \in Flag
  PROVE  Bit(v, 1) \in Flag /\ (v \div 2) + 128 * k \in Byte
BY DEF Byte, Flag, Bit

\* SWAP undoes itself.
LEMMA SwapBack ==
  ASSUME NEW v \in Byte
  PROVE  /\ (v \div 16) + 16 * (v % 16) \in Byte
         /\ (((v \div 16) + 16 * (v % 16)) \div 16)
              + 16 * (((v \div 16) + 16 * (v % 16)) % 16) = v
<1>1. PICK high \in Digit, low \in Digit :
        v = 16 * high + low /\ v \div 16 = high /\ v % 16 = low
  BY Digits
<1>2. (high + 16 * low) \div 16 = low /\ (high + 16 * low) % 16 = high
  BY DEF Digit
<1> QED
  BY <1>1, <1>2 DEF Digit, Byte

\* SRA halves a signed byte.
LEMMA Halves ==
  ASSUME NEW v \in Byte
  PROVE  /\ (v \div 2) + 128 * Bit(v, 128) \in Byte
         /\ Signed((v \div 2) + 128 * Bit(v, 128)) = Signed(v) \div 2
<1>1. CASE v < 128
  BY <1>1 DEF Byte, Bit, Signed
<1>2. CASE v >= 128
  BY <1>2 DEF Byte, Bit, Signed
<1> QED
  BY <1>1, <1>2 DEF Byte

\* A bit, by weight, and the byte with it off and on.
LEMMA OffAndOn ==
  ASSUME NEW v \in Byte, NEW w \in {1, 2, 4, 8, 16, 32, 64, 128}
  PROVE  /\ v - w * Bit(v, w) \in Byte /\ v + w * (1 - Bit(v, w)) \in Byte
         /\ Bit(v - w * Bit(v, w), w) = 0
         /\ Bit(v + w * (1 - Bit(v, w)), w) = 1
         /\ (v + w * (1 - Bit(v, w))) - (v - w * Bit(v, w)) = w
         /\ v = v - w * Bit(v, w) \/ v = v + w * (1 - Bit(v, w))
<1> USE DEF Byte, Bit
<1>1. CASE w = 1
  BY <1>1
<1>2. CASE w = 2
  BY <1>2
<1>3. CASE w = 4
  BY <1>3
<1>4. CASE w = 8
  BY <1>4
<1>5. CASE w = 16
  BY <1>5
<1>6. CASE w = 32
  BY <1>6
<1>7. CASE w = 64
  BY <1>7
<1>8. CASE w = 128
  BY <1>8
<1> QED
  BY <1>1, <1>2, <1>3, <1>4, <1>5, <1>6, <1>7, <1>8

LEMMA Weights ==
  ASSUME NEW p \in 0 .. 7
  PROVE  Weight[p + 1] \in {1, 2, 4, 8, 16, 32, 64, 128}
BY DEF Weight

\* A byte v rotated to the left by one bit with k coming in, which makes q and
\* carries t out, and back.
LEMMA ThereAndBack ==
  ASSUME NEW v \in Byte, NEW k \in Flag
  PROVE  \E q \in Byte, t \in Flag :
           /\ q = ((2 * v) % 256) + k /\ t = Bit(v, 128)
           /\ Bit(q, 1) = k /\ (q \div 2) + 128 * t = v
           /\ k = t => (q = 0 <=> v = 0)
<1>1. PICK t \in Flag : t = Bit(v, 128)
  BY LeftAndBack
<1>2. PICK q \in Byte : q = ((2 * v) % 256) + k
  BY LeftAndBack
<1>3. Bit(q, 1) = k /\ (q \div 2) + 128 * t = v
  BY <1>1, <1>2, LeftAndBack
<1>4. k = t => (q = 0 <=> v = 0)
  BY <1>1, <1>2, <1>3 DEF Byte, Flag, Bit
<1> QED
  BY <1>1, <1>2, <1>3, <1>4

\* What an instruction that rotates leaves.
Rotated(v, z, c) == Out(v, z, 0, 0, c)

\* All that is said of the instructions after 0xCB, by the lemmas above.
LEMMA RotationsRight ==
  ASSUME NEW v \in Byte, NEW g \in Flags
  PROVE  RotationsAreRight(v, g)
<1> DEFINE rl  == z80_rl(v, g, FALSE)
           rlc == z80_rl(v, g, TRUE)
<1>0. PICK t \in Flag : t = Bit(v, 128)
  <2>1. 0 \in Flag
    BY DEF Flag
  <2> QED
    BY <2>1, LeftAndBack
<1>1. PICK k \in Flag : k = g.c
  BY FlagsType
<1>2. /\ z80_rr(rl.v, rl.f, FALSE).v = v
      /\ z80_rr(rl.v, rl.f, FALSE).f.c = g.c
  <2>1. PICK q \in Byte, s \in Flag :
          /\ q = ((2 * v) % 256) + k /\ s = Bit(v, 128)
          /\ Bit(q, 1) = k /\ (q \div 2) + 128 * s = v
    BY ThereAndBack
  <2>2. rl = Rotated(q, Truth(q = 0), s)
    BY <1>1, <2>1 DEF z80_rl, Rotated
  <2> HIDE DEF rl
  <2>3. rl.v = q /\ rl.f.c = s
    BY <2>2 DEF Rotated, Out
  <2>4. z80_rr(rl.v, rl.f, FALSE) = Rotated(v, Truth(v = 0), k)
    BY <2>1, <2>3 DEF z80_rr, Rotated
  <2>5. PICK b : b = z80_rr(rl.v, rl.f, FALSE)
    OBVIOUS
  <2>6. PICK z : z = Truth(v = 0)
    OBVIOUS
  <2>7. b = Rotated(v, z, k)
    BY <2>4, <2>5, <2>6, Zenon
  <2>8. b.v = v /\ b.f.c = k
    BY <2>7 DEF Rotated, Out
  <2> QED
    BY <1>1, <2>5, <2>8, Zenon
<1>3. z80_rr(rlc.v, rlc.f, TRUE) = [rlc EXCEPT !.v = v]
  <2>1. PICK q \in Byte, s \in Flag :
          /\ q = ((2 * v) % 256) + t /\ s = Bit(v, 128)
          /\ Bit(q, 1) = t /\ (q \div 2) + 128 * s = v
          /\ t = s => (q = 0 <=> v = 0)
    BY ThereAndBack
  <2>2. rlc = Rotated(q, Truth(q = 0), t)
    BY <1>0, <2>1 DEF z80_rl, Rotated
  <2> HIDE DEF rlc
  <2>3. rlc.v = q
    BY <2>2 DEF Rotated, Out
  <2>4. z80_rr(rlc.v, rlc.f, TRUE) = Rotated(v, Truth(v = 0), t)
    BY <1>0, <2>1, <2>3 DEF z80_rr, Rotated
  <2>5. Truth(v = 0) = Truth(q = 0)
    BY <1>0, <2>1 DEF Truth
  <2>6. PICK z : z = Truth(v = 0)
    OBVIOUS
  <2>7. rlc = Rotated(q, z, t)
    BY <2>2, <2>5, <2>6, Zenon
  <2>8. [rlc EXCEPT !.v = v] = Rotated(v, z, t)
    BY <2>7 DEF Rotated, Out
  <2> QED
    BY <2>4, <2>6, <2>8, Zenon
<1>4. swap(swap(v).v).v = v
  BY SwapBack DEF swap, Out
<1>5. z80_sr(v, FALSE).v = v \div 2
  BY DEF z80_sr, Out, Byte
<1>6. Signed(z80_sr(v, TRUE).v) = Signed(v) \div 2
  BY Halves DEF z80_sr, Out
<1>7. ASSUME NEW p \in 0 .. 7
      PROVE  LET off == z80_ext_cb_execute(CodeOf(2, p), v, g)
                 on  == z80_ext_cb_execute(CodeOf(3, p), v, g)
             IN /\ z80_ext_cb_execute(CodeOf(1, p), off.v, off.f).f.z = 1
                /\ z80_ext_cb_execute(CodeOf(1, p), on.v, on.f).f.z = 0
                /\ on.v - off.v = Weight[p + 1] /\ v \in {on.v, off.v}
  <2> DEFINE off == z80_ext_cb_execute(CodeOf(2, p), v, g)
             on  == z80_ext_cb_execute(CodeOf(3, p), v, g)
  <2>1. off.v = z80_res(v, p) /\ on.v = z80_set(v, p)
    BY BitCodes
  <2>2. /\ z80_ext_cb_execute(CodeOf(1, p), off.v, off.f) = z80_bit(off.v, p, off.f)
        /\ z80_ext_cb_execute(CodeOf(1, p), on.v, on.f) = z80_bit(on.v, p, on.f)
    BY BitCodes
  <2> HIDE DEF off, on
  <2>3. PICK w \in {1, 2, 4, 8, 16, 32, 64, 128} : w = Weight[p + 1]
    BY Weights
  <2>4. off.v = v - w * Bit(v, w) /\ on.v = v + w * (1 - Bit(v, w))
    BY <2>1, <2>3 DEF z80_res, z80_set
  <2>5. Bit(off.v, w) = 0 /\ Bit(on.v, w) = 1 /\ on.v - off.v = w
        /\ (v = off.v \/ v = on.v)
    BY <2>4, OffAndOn
  <2>6. z80_bit(off.v, p, off.f).f.z = 1 /\ z80_bit(on.v, p, on.f).f.z = 0
    BY <2>3, <2>5 DEF z80_bit, Out, Truth
  <2>7. /\ z80_ext_cb_execute(CodeOf(1, p), off.v, off.f).f.z = 1
        /\ z80_ext_cb_execute(CodeOf(1, p), on.v, on.f).f.z = 0
        /\ on.v - off.v = Weight[p + 1] /\ v \in {on.v, off.v}
    BY <2>2, <2>3, <2>5, <2>6
  <2> QED
    BY <2>7 DEF off, on
<1> DEFINE turn(y, r) == z80_ext_cb_execute(CodeOf(0, y), r.v, r.f)
           start == [v |-> v, f |-> g]
<1>8. /\ turn(2, start) = rl /\ turn(0, start) = rlc
      /\ \A r : turn(3, r) = z80_rr(r.v, r.f, FALSE) /\ turn(1, r) = z80_rr(r.v, r.f, TRUE)
      /\ \A r : turn(6, r) = swap(r.v)
      /\ turn(7, start) = z80_sr(v, FALSE) /\ turn(5, start) = z80_sr(v, TRUE)
  BY Codes
<1> HIDE DEF rl, rlc, turn
<1>9. /\ turn(3, turn(2, start)).v = v /\ turn(3, turn(2, start)).f.c = g.c
      /\ turn(1, turn(0, start)) = [turn(0, start) EXCEPT !.v = v]
      /\ turn(6, turn(6, start)).v = v
      /\ turn(7, start).v = v \div 2
      /\ Signed(turn(5, start).v) = Signed(v) \div 2
  <2>1. start.v = v
    OBVIOUS
  <2>2. turn(3, turn(2, start)) = z80_rr(rl.v, rl.f, FALSE)
    BY <1>8
  <2>3. turn(1, turn(0, start)) = z80_rr(rlc.v, rlc.f, TRUE)
    BY <1>8
  <2>4. turn(6, turn(6, start)) = swap(swap(v).v)
    BY <1>8, <2>1
  <2> HIDE DEF start
  <2> QED
    BY <1>2, <1>3, <1>4, <1>5, <1>6, <1>8, <2>2, <2>3, <2>4, Zenon
<1> QED
  BY <1>7, <1>9, Zenon DEF RotationsAreRight, turn

-----------------------------------------------------------------------------
(* Additions in 16 bits.                                                   *)

Rest == 0 .. 4095

\* A word as a digit and twelve bits.
LEMMA WideDigits ==
  ASSUME NEW x \in Int, 0 <= x, x < 65536
  PROVE  \E high \in Digit, low \in Rest :
            x = 4096 * high + low /\ x \div 4096 = high /\ x % 4096 = low
<1>1. x = 4096 * (x \div 4096) + (x % 4096)
  BY DivisionLaw, x \in Nat, 4096 \in Nat \ {0}
<1>2. x \div 4096 \in Digit
  BY SMT DEF Digit
<1>3. x % 4096 \in Rest
  BY SMT DEF Rest
<1> QED
  BY <1>1, <1>2, <1>3

\* The fifth digit of a sum tells the carry of the lower twelve bits.
LEMMA WideDigitsAdd ==
  ASSUME NEW xh \in Digit, NEW xl \in Rest, NEW yh \in Digit, NEW yl \in Rest,
         NEW s, s = 4096 * xh + xl + (4096 * yh + yl)
  PROVE  ((xh % 2) + (yh % 2) + ((s \div 4096) % 2)) % 2 = Truth(xl + yl > 4095)
<1>1. /\ xh \in Int /\ yh \in Int /\ xl \in Int /\ yl \in Int
      /\ 0 <= xl /\ xl < 4096 /\ 0 <= yl /\ yl < 4096
  BY SMT DEF Digit, Rest
<1>2. CASE xl + yl > 4095
  <2>1. s \div 4096 = xh + yh + 1
    BY <1>1, <1>2, SMT
  <2>2. ((xh % 2) + (yh % 2) + ((xh + yh + 1) % 2)) % 2 = 1
    BY <1>1
  <2> QED
    BY <1>2, <2>1, <2>2 DEF Truth
<1>3. CASE ~(xl + yl > 4095)
  <2>1. s \div 4096 = xh + yh
    BY <1>1, <1>3, SMT
  <2>2. ((xh % 2) + (yh % 2) + ((xh + yh) % 2)) % 2 = 0
    BY <1>1
  <2> QED
    BY <1>3, <2>1, <2>2 DEF Truth
<1> QED
  BY <1>2, <1>3

\* The half carry of an addition in 16 bits.
LEMMA WideHalfCarry ==
  ASSUME NEW x \in Int, 0 <= x, x < 65536, NEW y \in Int, 0 <= y, y < 65536,
         NEW h, h = Truth((x % 4096) + (y % 4096) > 4095)
  PROVE  Xored(4096, x, y, x + y) = h
<1>1. PICK xh \in Digit, xl \in Rest :
        x = 4096 * xh + xl /\ x \div 4096 = xh /\ x % 4096 = xl
  BY WideDigits
<1>2. PICK yh \in Digit, yl \in Rest :
        y = 4096 * yh + yl /\ y \div 4096 = yh /\ y % 4096 = yl
  BY WideDigits
<1>3. PICK s \in Int : s = x + y /\ (x + y) % 131072 = s
  BY SMT
<1>4. s = 4096 * xh + xl + (4096 * yh + yl)
  BY <1>1, <1>2, <1>3, SMT
<1>5. Xored(4096, x, y, x + y) = ((xh % 2) + (yh % 2) + ((s \div 4096) % 2)) % 2
  <2>1. xh \in Int /\ yh \in Int
    BY SMT DEF Digit
  <2> QED
    BY <1>1, <1>2, <1>3, <2>1, SMT DEF Xored, Bit
<1>6. ((xh % 2) + (yh % 2) + ((s \div 4096) % 2)) % 2 = Truth(xl + yl > 4095)
  BY <1>4, WideDigitsAdd, SMT
<1> QED
  BY <1>1, <1>2, <1>5, <1>6, SMT

\* Flags with all but Z replaced.
LEMMA Replaced ==
  ASSUME NEW g \in Flags, NEW h, NEW c
  PROVE  [g EXCEPT !.n = 0, !.c = c, !.h = h] = [z |-> g.z, n |-> 0, h |-> h, c |-> c]
<1>1. g = [z |-> g.z, n |-> g.n, h |-> g.h, c |-> g.c]
  BY DEF Flags
<1>2. PICK e : e = [[z |-> g.z, n |-> g.n, h |-> g.h, c |-> g.c]
                      EXCEPT !.n = 0, !.c = c, !.h = h]
  OBVIOUS
<1>3. e.h = h /\ e.n = 0 /\ e.c = c /\ e.z = g.z
      /\ e = [z |-> e.z, n |-> e.n, h |-> e.h, c |-> e.c]
  BY <1>2
<1>4. e = [z |-> g.z, n |-> 0, h |-> h, c |-> c]
  BY <1>3
<1> QED
  BY <1>1, <1>2, <1>4, Zenon

\* ADD HL,rr and the flags of ADD SP,dd.
LEMMA WideRight ==
  ASSUME NEW x \in Byte, NEW y \in Byte, NEW g \in Flags
  PROVE  WideSum(x, y, g)
<1>1. PICK m \in Int : m = 256 * x + y /\ 0 <= m /\ m < 65536
  BY SMT DEF Byte
<1>2. PICK n \in Int : n = 256 * y + x /\ 0 <= n /\ n < 65536
  BY SMT DEF Byte
<1>3. PICK h : h = Truth((m % 4096) + (n % 4096) > 4095)
  OBVIOUS
<1>4. Xored(4096, m, n, m + n) = h
  <2>1. m \in Int /\ 0 <= m /\ m < 65536 /\ n \in Int /\ 0 <= n /\ n < 65536
    BY <1>1, <1>2
  <2> QED
    BY <2>1, <1>3, WideHalfCarry, SMT
<1>5. PICK c : c = Truth(m + n > 65535)
  OBVIOUS
<1>6. dad_16(m, n, g) = Out((m + n) % 65536, g.z, 0, h, c)
  BY <1>4, <1>5, SMT DEF dad_16
<1>7. PICK d : d = dad_16(m, n, g)
  OBVIOUS
<1>8. /\ d.v = (m + n) % 65536
      /\ d.f = [g EXCEPT !.n = 0, !.c = c, !.h = h]
  <2>1. d.f = [z |-> g.z, n |-> 0, h |-> h, c |-> c]
    BY <1>6, <1>7, SMT DEF Out
  <2>2. d.f = [g EXCEPT !.n = 0, !.c = c, !.h = h]
    BY <2>1, Replaced, Zenon
  <2>3. d.v = (m + n) % 65536
    BY <1>6, <1>7, SMT DEF Out
  <2> QED
    BY <2>2, <2>3, SMT
<1>9. m % 256 = y
  BY <1>1, SMT DEF Byte
<1>10. y + x + 0 = y + x /\ 0 \in Flag
  BY DEF Byte, Flag
<1>11. PICK k : k = Truth((y % 16) + (x % 16) + 0 > 15)
  OBVIOUS
<1>12. Xored(16, y, x, y + x) = k
  BY <1>10, <1>11, HalfCarry
<1>13. PICK e : e = add_sp(m, x)
  OBVIOUS
<1>14. e = Out((m + Signed(x)) % 65536, 0, 0, k, Truth(y + x > 255))
  BY <1>9, <1>12, <1>13, SMT DEF add_sp
<1>15. Sum(y, x, 0) = Out((y + x) % 256, Truth((y + x) % 256 = 0), 0, k,
                          Truth(y + x > 255))
  BY <1>10, <1>11 DEF Sum
<1>16. e.v = (m + Signed(x)) % 65536 /\ e.f = [Sum(y, x, 0).f EXCEPT !.z = 0]
  BY <1>14, <1>15, SMT DEF Out
<1> QED
  BY <1>1, <1>2, <1>3, <1>5, <1>7, <1>8, <1>13, <1>16, SMT DEF WideSum

-----------------------------------------------------------------------------
(* Decimal numbers.                                                        *)

Dec == 0 .. 9

LEMMA BcdOf ==
  ASSUME NEW p \in Dec, NEW q \in Dec
  PROVE  Bcd(10 * p + q) = 16 * p + q
<1>1. (10 * p + q) \div 10 = p /\ (10 * p + q) % 10 = q
  BY DEF Dec
<1> QED
  BY <1>1 DEF Bcd

LEMMA DecimalDigits ==
  ASSUME NEW x \in Decimal
  PROVE  \E p \in Dec, q \in Dec : x = 10 * p + q /\ Bcd(x) = 16 * p + q
<1>1. x = 10 * (x \div 10) + (x % 10)
  BY DivisionLaw, x \in Nat, 10 \in Nat \ {0} DEF Decimal
<1>2. x \div 10 \in Dec /\ x % 10 \in Dec
  BY DEF Decimal, Dec
<1> QED
  BY <1>1, <1>2 DEF Bcd

\* The two steps of z80_daa, after an addition ...
LEMMA DaaAdded ==
  ASSUME NEW v, NEW g, g.n = 0, NEW low, NEW high,
         low = IF (v % 16) > 9 \/ g.h = 1 THEN v + 6 ELSE v,
         high = IF g.c = 1 \/ low - (low % 16) > 144 THEN low + 96 ELSE low
  PROVE  /\ z80_daa(v, g).v = high % 256
         /\ z80_daa(v, g).f.z = Truth(high % 256 = 0)
         /\ z80_daa(v, g).f.c = IF Bit(high % 65536, 256) = 1 THEN 1 ELSE g.c
BY DEF z80_daa, Out

\* ... and after a subtraction.
LEMMA DaaSubtracted ==
  ASSUME NEW v, NEW g, g.n = 1, NEW low, NEW high,
         low = IF g.h = 1 THEN (v - 6) % 256 ELSE v,
         high = IF g.c = 1 THEN low - 96 ELSE low
  PROVE  /\ z80_daa(v, g).v = high % 256
         /\ z80_daa(v, g).f.z = Truth(high % 256 = 0)
         /\ z80_daa(v, g).f.c = IF Bit(high % 65536, 256) = 1 THEN 1 ELSE g.c
BY DEF z80_daa, Out

LEMMA DigitFacts ==
  ASSUME NEW p \in Dec
  PROVE  p \in Int /\ 0 <= p /\ p <= 9
BY DEF Dec

\* Numbers of decimal digits: hundreds are left out, and counted.
LEMMA Hundreds ==
  ASSUME NEW D \in Int, NEW e \in Int, 0 <= e, e <= 9, -10 <= D, D <= 19
  PROVE  (10 * D + e) % 100 = 10 * (IF D < 0 THEN D + 10 ELSE IF D > 9 THEN D - 10 ELSE D) + e
<1>1. CASE D < 0
  BY <1>1, SMT
<1>2. CASE D > 9
  BY <1>2, SMT
<1>3. CASE ~(D < 0) /\ ~(D > 9)
  BY <1>3, SMT
<1> QED
  BY <1>1, <1>2, <1>3

\* The byte and the flags after an addition whose digits are D (with the carry
\* of the other, d) and e.
AfterSum(D, e, d, t, v, g) ==
  /\ d = 0 \/ d = 1
  /\ 0 <= D /\ D <= 19 /\ 0 <= e /\ e <= 9
  /\ t = 16 * D + e - 6 * d /\ 0 <= t /\ v = t % 256
  /\ g.n = 0 /\ g.c = Truth(t > 255)
  /\ (v % 16 > 9 \/ g.h = 1) <=> d = 1

\* What z80_daa makes of it: a carry of the higher digit is kept in the carry, and
\* 96, 10 times 16 less than 256, puts the rest back into a digit.
LEMMA AddedUp ==
  ASSUME NEW D \in Int, NEW e \in Int, NEW d \in Int, NEW t \in Int, NEW v \in Int,
         NEW g, AfterSum(D, e, d, t, v, g)
  PROVE  /\ z80_daa(v, g).v = 16 * (IF D > 9 THEN D - 10 ELSE D) + e
         /\ z80_daa(v, g).f.c = Truth(D > 9)
         /\ z80_daa(v, g).f.z = Truth(z80_daa(v, g).v = 0)
<1> USE DEF AfterSum
<1>0. g.n = 0
  OBVIOUS
<1>1. PICK low \in Int : low = v + 6 * d
  OBVIOUS
<1>2. low = IF (v % 16) > 9 \/ g.h = 1 THEN v + 6 ELSE v
  BY <1>1, SMT
<1>3. CASE t > 255
  <2>1. v = t - 256 /\ g.c = 1
    BY <1>3, SMT DEF Truth
  <2>2. low = 16 * (D - 16) + e /\ D > 9
    BY <1>1, <1>3, <2>1, SMT
  <2>3. PICK high \in Int : high = 16 * (D - 10) + e
    OBVIOUS
  <2>4. high = IF g.c = 1 \/ low - (low % 16) > 144 THEN low + 96 ELSE low
    BY <2>1, <2>2, <2>3, SMT
  <2>5. 0 <= high /\ high < 256
    BY <2>2, <2>3, <1>3, SMT
  <2>6. high % 256 = high /\ Bit(high % 65536, 256) = 0
    BY <2>5, SMT DEF Bit
  <2>7. /\ z80_daa(v, g).v = high % 256
        /\ z80_daa(v, g).f.z = Truth(high % 256 = 0)
        /\ z80_daa(v, g).f.c = IF Bit(high % 65536, 256) = 1 THEN 1 ELSE g.c
    <3> HIDE DEF AfterSum
    <3> QED
      BY <1>0, <1>2, <2>4, DaaAdded, SMT
  <2> QED
    BY <2>1, <2>2, <2>3, <2>6, <2>7, SMT DEF Truth
<1>4. CASE ~(t > 255) /\ D > 9
  <2>1. v = t /\ g.c = 0
    BY <1>4, SMT DEF Truth
  <2>2. low = 16 * D + e
    BY <1>1, <1>4, <2>1, SMT
  <2>3. PICK high \in Int : high = 256 + 16 * (D - 10) + e
    OBVIOUS
  <2>4. high = IF g.c = 1 \/ low - (low % 16) > 144 THEN low + 96 ELSE low
    BY <1>4, <2>1, <2>2, <2>3, SMT
  <2>5. 256 <= high /\ high < 512
    BY <2>2, <2>3, <1>4, SMT
  <2>6. high % 256 = high - 256 /\ Bit(high % 65536, 256) = 1
    BY <2>5, SMT DEF Bit
  <2>7. /\ z80_daa(v, g).v = high % 256
        /\ z80_daa(v, g).f.z = Truth(high % 256 = 0)
        /\ z80_daa(v, g).f.c = IF Bit(high % 65536, 256) = 1 THEN 1 ELSE g.c
    <3> HIDE DEF AfterSum
    <3> QED
      BY <1>0, <1>2, <2>4, DaaAdded, SMT
  <2> QED
    BY <1>4, <2>1, <2>2, <2>3, <2>6, <2>7, SMT DEF Truth
<1>5. CASE ~(D > 9)
  <2>1. v = t /\ g.c = 0
    BY <1>5, SMT DEF Truth
  <2>2. low = 16 * D + e
    BY <1>1, <1>5, <2>1, SMT
  <2>3. low = IF g.c = 1 \/ low - (low % 16) > 144 THEN low + 96 ELSE low
    BY <1>5, <2>1, <2>2, SMT
  <2>5. 0 <= low /\ low < 256
    BY <2>2, <1>5, SMT
  <2>6. low % 256 = low /\ Bit(low % 65536, 256) = 0
    BY <2>5, SMT DEF Bit
  <2>7. /\ z80_daa(v, g).v = low % 256
        /\ z80_daa(v, g).f.z = Truth(low % 256 = 0)
        /\ z80_daa(v, g).f.c = IF Bit(low % 65536, 256) = 1 THEN 1 ELSE g.c
    <3> HIDE DEF AfterSum
    <3> QED
      BY <1>0, <1>2, <2>3, DaaAdded, SMT
  <2> QED
    BY <1>5, <2>1, <2>2, <2>6, <2>7, SMT DEF Truth
<1> QED
  BY <1>3, <1>4, <1>5

\* The same of a subtraction.
AfterDifference(D, e, d, t, v, g) ==
  /\ d = 0 \/ d = 1
  /\ -10 <= D /\ D <= 9 /\ 0 <= e /\ e <= 9
  /\ t = 16 * D + e + 6 * d /\ t < 256 /\ v = t % 256
  /\ g.n = 1 /\ g.c = Truth(t < 0)
  /\ g.h = 1 <=> d = 1

\* And z80_daa after it: a borrow of the higher digit leaves ten more.
LEMMA TakenAway ==
  ASSUME NEW D \in Int, NEW e \in Int, NEW d \in Int, NEW t \in Int, NEW v \in Int,
         NEW g, AfterDifference(D, e, d, t, v, g)
  PROVE  /\ z80_daa(v, g).v = 16 * (IF D < 0 THEN D + 10 ELSE D) + e
         /\ z80_daa(v, g).f.c = Truth(D < 0)
         /\ z80_daa(v, g).f.z = Truth(z80_daa(v, g).v = 0)
<1> USE DEF AfterDifference
<1>1. CASE D < 0
  <2>1. t < 0 /\ v = t + 256 /\ g.c = 1
    BY <1>1, SMT DEF Truth
  <2>2. PICK low \in Int : low = 256 + 16 * D + e
    OBVIOUS
  <2>3. low = IF g.h = 1 THEN (v - 6) % 256 ELSE v
    BY <1>1, <2>1, <2>2, SMT
  <2>4. PICK high \in Int : high = 16 * (D + 10) + e
    OBVIOUS
  <2>5. high = IF g.c = 1 THEN low - 96 ELSE low
    BY <2>1, <2>2, <2>4, SMT
  <2>6. high % 256 = high /\ Bit(high % 65536, 256) = 0
    BY <1>1, <2>4, SMT DEF Bit
  <2>7. /\ z80_daa(v, g).v = high % 256
        /\ z80_daa(v, g).f.z = Truth(high % 256 = 0)
        /\ z80_daa(v, g).f.c = IF Bit(high % 65536, 256) = 1 THEN 1 ELSE g.c
    BY <2>3, <2>5, DaaSubtracted, SMT
  <2> QED
    BY <1>1, <2>1, <2>4, <2>6, <2>7, SMT DEF Truth
<1>2. CASE ~(D < 0)
  <2>1. v = t /\ g.c = 0
    BY <1>2, SMT DEF Truth
  <2>2. PICK low \in Int : low = 16 * D + e
    OBVIOUS
  <2>3. low = IF g.h = 1 THEN (v - 6) % 256 ELSE v
    BY <1>2, <2>1, <2>2, SMT
  <2>5. low = IF g.c = 1 THEN low - 96 ELSE low
    BY <2>1, SMT
  <2>6. low % 256 = low /\ Bit(low % 65536, 256) = 0
    BY <1>2, <2>2, SMT DEF Bit
  <2>7. /\ z80_daa(v, g).v = low % 256
        /\ z80_daa(v, g).f.z = Truth(low % 256 = 0)
        /\ z80_daa(v, g).f.c = IF Bit(low % 65536, 256) = 1 THEN 1 ELSE g.c
    BY <2>3, <2>5, DaaSubtracted, SMT
  <2> QED
    BY <1>2, <2>1, <2>2, <2>6, <2>7, SMT DEF Truth
<1> QED
  BY <1>1, <1>2

\* A decimal number in a byte: its digits.
LEMMA TwoDigits ==
  ASSUME NEW x \in Decimal
  PROVE  \E p \in Int, q \in Int :
            /\ 0 <= p /\ p <= 9 /\ 0 <= q /\ q <= 9
            /\ x = 10 * p + q /\ Bcd(x) = 16 * p + q /\ Bcd(x) \in Byte
            /\ Bcd(x) % 16 = q
<1>1. PICK p \in Dec, q \in Dec : x = 10 * p + q /\ Bcd(x) = 16 * p + q
  BY DecimalDigits
<1>2. p \in Int /\ 0 <= p /\ p <= 9 /\ q \in Int /\ 0 <= q /\ q <= 9
  BY DigitFacts
<1>3. 16 * p + q \in Byte /\ (16 * p + q) % 16 = q
  BY <1>2, SMT DEF Byte
<1> QED
  BY <1>1, <1>2, <1>3

LEMMA Packed ==
  ASSUME NEW D \in Int, NEW e \in Int, 0 <= D, D <= 9, 0 <= e, e <= 9
  PROVE  Bcd(10 * D + e) = 16 * D + e
<1>1. D \in Dec /\ e \in Dec
  BY SMT DEF Dec
<1> QED
  BY <1>1, BcdOf

\* ADC and DAA of two decimal numbers.
LEMMA DecimalSum ==
  ASSUME NEW x \in Decimal, NEW y \in Decimal, NEW g \in Flags, NEW u, NEW o,
         u = z80_adc(Bcd(x), Bcd(y), g), o = z80_daa(u.v, u.f)
  PROVE  /\ o.v = Bcd((x + y + g.c) % 100) /\ o.f.c = Truth(x + y + g.c > 99)
         /\ o.f.z = Truth(o.v = 0)
<1>1. PICK p \in Int, q \in Int :
        /\ 0 <= p /\ p <= 9 /\ 0 <= q /\ q <= 9
        /\ x = 10 * p + q /\ Bcd(x) = 16 * p + q /\ Bcd(x) \in Byte
        /\ Bcd(x) % 16 = q
  BY TwoDigits
<1>2. PICK r \in Int, s \in Int :
        /\ 0 <= r /\ r <= 9 /\ 0 <= s /\ s <= 9
        /\ y = 10 * r + s /\ Bcd(y) = 16 * r + s /\ Bcd(y) \in Byte
        /\ Bcd(y) % 16 = s
  BY TwoDigits
<1>3. PICK k \in Int : k = g.c /\ (k = 0 \/ k = 1)
  BY FlagsType DEF Flag
<1>4. PICK t \in Int : t = Bcd(x) + Bcd(y) + k /\ t = 16 * (p + r) + (q + s + k)
  BY <1>1, <1>2, <1>3, SMT
<1>5. PICK v \in Int : v = t % 256
  BY <1>4
<1>6. PICK h : h = Truth(q + s + k > 15)
  OBVIOUS
<1>7. u = Out(v, Truth(v = 0), 0, h, Truth(t > 255))
  <2>1. u = Sum(Bcd(x), Bcd(y), k)
    BY <1>1, <1>2, <1>3, AddsRight
  <2> QED
    BY <1>1, <1>2, <1>4, <1>5, <1>6, <2>1, SMT DEF Sum
<1>8. u.v = v /\ u.f.n = 0 /\ u.f.h = h /\ u.f.c = Truth(t > 255)
  BY <1>7, SMT DEF Out
<1>9. PICK d \in Int : (d = 0 \/ d = 1) /\ (d = 1 <=> q + s + k > 9)
  <2>1. CASE q + s + k > 9
    BY <2>1
  <2>2. CASE ~(q + s + k > 9)
    BY <2>2
  <2> QED
    BY <2>1, <2>2
<1>10. PICK D \in Int, e \in Int : D = p + r + d /\ e = q + s + k - 10 * d
  BY <1>9
<1>11. /\ 0 <= D /\ D <= 19 /\ 0 <= e /\ e <= 9
       /\ t = 16 * D + e - 6 * d /\ 0 <= t
       /\ x + y + k = 10 * D + e
  <2>1. /\ 0 <= p /\ p <= 9 /\ 0 <= q /\ q <= 9 /\ 0 <= r /\ r <= 9 /\ 0 <= s /\ s <= 9
        /\ k = 0 \/ k = 1
        /\ t = 16 * (p + r) + (q + s + k)
    BY <1>1, <1>2, <1>3, <1>4
  <2>2. x + y + k = 10 * (p + r) + (q + s + k)
    BY <1>1, <1>2, SMT
  <2> QED
    BY <2>1, <2>2, <1>9, <1>10, SMT
<1>13. h = 1 <=> q + s + k > 15
  BY <1>6 DEF Truth
<1>14. v % 16 = (q + s + k) % 16
  BY <1>4, <1>5, SMT
<1>15. (v % 16 > 9 \/ h = 1) <=> d = 1
  <2>1. 0 <= q + s + k /\ q + s + k <= 19
    BY <1>1, <1>2, <1>3, SMT
  <2> QED
    BY <1>9, <1>13, <1>14, <2>1, SMT
<1>16. PICK w : w = u.f
  OBVIOUS
<1>17. /\ z80_daa(v, w).v = 16 * (IF D > 9 THEN D - 10 ELSE D) + e
       /\ z80_daa(v, w).f.c = Truth(D > 9)
       /\ z80_daa(v, w).f.z = Truth(z80_daa(v, w).v = 0)
  <2>1. w.n = 0 /\ ((v % 16 > 9 \/ w.h = 1) <=> d = 1) /\ w.c = Truth(t > 255)
    BY <1>8, <1>15, <1>16
  <2>2. AfterSum(D, e, d, t, v, w)
    BY <1>5, <1>9, <1>11, <2>1 DEF AfterSum
  <2> QED
    BY <2>2, AddedUp
<1>18. o = z80_daa(v, w)
  BY <1>8, <1>16, Zenon
<1>19. PICK E \in Int : E = (IF D > 9 THEN D - 10 ELSE D)
  OBVIOUS
<1>20. (x + y + k) % 100 = 10 * E + e /\ 0 <= E /\ E <= 9
  <2>1. (10 * D + e) % 100 = 10 * E + e
    BY <1>11, <1>19, Hundreds, SMT
  <2> QED
    BY <1>11, <1>19, <2>1, SMT
<1>21. Bcd((x + y + k) % 100) = 16 * E + e
  BY <1>11, <1>20, Packed
<1>22. Truth(x + y + k > 99) = Truth(D > 9)
  BY <1>11, SMT DEF Truth
<1> QED
  BY <1>3, <1>17, <1>18, <1>19, <1>21, <1>22, SMT

\* SBC and DAA of two decimal numbers.
LEMMA DecimalDifference ==
  ASSUME NEW x \in Decimal, NEW y \in Decimal, NEW g \in Flags, NEW u, NEW o,
         u = z80_sbc(Bcd(x), Bcd(y), g), o = z80_daa(u.v, u.f)
  PROVE  /\ o.v = Bcd((x - y - g.c) % 100) /\ o.f.c = Truth(x < y + g.c)
         /\ o.f.z = Truth(o.v = 0)
<1>1. PICK p \in Int, q \in Int :
        /\ 0 <= p /\ p <= 9 /\ 0 <= q /\ q <= 9
        /\ x = 10 * p + q /\ Bcd(x) = 16 * p + q /\ Bcd(x) \in Byte
        /\ Bcd(x) % 16 = q
  BY TwoDigits
<1>2. PICK r \in Int, s \in Int :
        /\ 0 <= r /\ r <= 9 /\ 0 <= s /\ s <= 9
        /\ y = 10 * r + s /\ Bcd(y) = 16 * r + s /\ Bcd(y) \in Byte
        /\ Bcd(y) % 16 = s
  BY TwoDigits
<1>3. PICK k \in Int : k = g.c /\ (k = 0 \/ k = 1)
  BY FlagsType DEF Flag
<1>4. PICK t \in Int : t = Bcd(x) - Bcd(y) - k /\ t = 16 * (p - r) + (q - s - k)
  BY <1>1, <1>2, <1>3, SMT
<1>5. PICK v \in Int : v = t % 256
  BY <1>4
<1>6. PICK h : h = Truth(q < s + k)
  OBVIOUS
<1>7. u = Out(v, Truth(v = 0), 1, h, Truth(t < 0))
  <2>1. u = Difference(Bcd(x), Bcd(y), k)
    BY <1>1, <1>2, <1>3, AddsRight
  <2>2. Truth(Bcd(x) < Bcd(y) + k) = Truth(t < 0)
    BY <1>1, <1>2, <1>3, <1>4, SMT DEF Truth
  <2> QED
    BY <1>1, <1>2, <1>4, <1>5, <1>6, <2>1, <2>2, SMT DEF Difference
<1>8. u.v = v /\ u.f.n = 1 /\ u.f.h = h /\ u.f.c = Truth(t < 0)
  BY <1>7, SMT DEF Out
<1>9. PICK d \in Int : (d = 0 \/ d = 1) /\ (d = 1 <=> q < s + k)
  <2>1. CASE q < s + k
    BY <2>1
  <2>2. CASE ~(q < s + k)
    BY <2>2
  <2> QED
    BY <2>1, <2>2
<1>10. PICK D \in Int, e \in Int : D = p - r - d /\ e = q - s - k + 10 * d
  BY <1>9
<1>11. /\ -10 <= D /\ D <= 9 /\ 0 <= e /\ e <= 9
       /\ t = 16 * D + e + 6 * d /\ t < 256
       /\ x - y - k = 10 * D + e
  <2>1. /\ 0 <= p /\ p <= 9 /\ 0 <= q /\ q <= 9 /\ 0 <= r /\ r <= 9 /\ 0 <= s /\ s <= 9
        /\ k = 0 \/ k = 1
        /\ t = 16 * (p - r) + (q - s - k)
    BY <1>1, <1>2, <1>3, <1>4
  <2>2. x - y - k = 10 * (p - r) + (q - s - k)
    BY <1>1, <1>2, SMT
  <2> QED
    BY <2>1, <2>2, <1>9, <1>10, SMT
<1>12. h = 1 <=> d = 1
  BY <1>6, <1>9 DEF Truth
<1>13. PICK w : w = u.f
  OBVIOUS
<1>14. /\ z80_daa(v, w).v = 16 * (IF D < 0 THEN D + 10 ELSE D) + e
       /\ z80_daa(v, w).f.c = Truth(D < 0)
       /\ z80_daa(v, w).f.z = Truth(z80_daa(v, w).v = 0)
  <2>1. w.n = 1 /\ (w.h = 1 <=> d = 1) /\ w.c = Truth(t < 0)
    BY <1>8, <1>12, <1>13
  <2>2. AfterDifference(D, e, d, t, v, w)
    BY <1>5, <1>9, <1>11, <2>1 DEF AfterDifference
  <2> QED
    BY <2>2, TakenAway
<1>15. o = z80_daa(v, w)
  BY <1>8, <1>13, Zenon
<1>16. PICK E \in Int : E = (IF D < 0 THEN D + 10 ELSE D)
  OBVIOUS
<1>17. (x - y - k) % 100 = 10 * E + e /\ 0 <= E /\ E <= 9
  <2>1. (10 * D + e) % 100 = 10 * E + e
    BY <1>11, <1>16, Hundreds, SMT
  <2> QED
    BY <1>11, <1>16, <2>1, SMT
<1>18. Bcd((x - y - k) % 100) = 16 * E + e
  BY <1>11, <1>17, Packed
<1>19. Truth(x < y + k) = Truth(D < 0)
  <2>1. x < y + k <=> D < 0
    BY <1>1, <1>2, <1>3, <1>11, SMT
  <2> QED
    BY <2>1 DEF Truth
<1> QED
  BY <1>3, <1>14, <1>15, <1>16, <1>18, <1>19, SMT

-----------------------------------------------------------------------------
(* What is in the accumulator.                                             *)

\* What is left in the accumulator is a byte with four flags.
Result == [v : Byte, f : Flags]

LEMMA OutType ==
  ASSUME NEW v \in Byte, NEW z \in Flag, NEW n \in Flag, NEW h \in Flag, NEW c \in Flag
  PROVE  Out(v, z, n, h, c) \in Result
BY DEF Out, Result, Flags

LEMMA ResultType ==
  ASSUME NEW r \in Result
  PROVE  r.v \in Byte /\ r.f \in Flags
BY DEF Result

LEMMA Constants == 0 \in Flag /\ 1 \in Flag /\ 0 \in Byte /\ 1 \in Byte
BY DEF Flag, Byte

LEMMA TruthType ==
  ASSUME NEW p
  PROVE  Truth(p) \in Flag
BY DEF Truth, Flag

LEMMA Remainder ==
  ASSUME NEW x \in Int
  PROVE  x % 256 \in Byte
BY DEF Byte

LEMMA SumType ==
  ASSUME NEW x \in Byte, NEW y \in Byte, NEW k \in Flag
  PROVE  Sum(x, y, k) \in Result /\ Difference(x, y, k) \in Result
<1>1. x + y + k \in Int /\ x - y - k \in Int
  BY DEF Byte, Flag
<1>2. (x + y + k) % 256 \in Byte /\ (x - y - k) % 256 \in Byte
  BY <1>1, Remainder
<1> QED
  BY <1>2, OutType, TruthType, Constants DEF Sum, Difference

\* The results with a field of another.
LEMMA ChangedType ==
  ASSUME NEW r \in Result, NEW v \in Byte, NEW k \in Flag
  PROVE  /\ [r EXCEPT !.v = v] \in Result
         /\ [r EXCEPT !.f.c = k] \in Result
         /\ [r EXCEPT !.f.z = k] \in Result
BY DEF Result, Flags

LEMMA NumberType ==
  ASSUME NEW S
  PROVE  Number(S) \in Byte
BY DEF Number, Byte

LEMMA LogicalType ==
  ASSUME NEW x, NEW y
  PROVE  z80_ana(x, y) \in Result /\ z80_ora(x, y) \in Result /\ z80_xra(x, y) \in Result
BY NumberType, OutType, TruthType, Constants DEF z80_ana, z80_ora, z80_xra

\* The steps of z80_daa stay in the integers, and its result is cut to a byte.
LEMMA DaaType ==
  ASSUME NEW x \in Byte, NEW g \in Flags
  PROVE  z80_daa(x, g) \in Result
<1> DEFINE low  == IF g.n = 1 THEN IF g.h = 1 THEN (x - 6) % 256 ELSE x
                   ELSE IF (x % 16) > 9 \/ g.h = 1 THEN x + 6 ELSE x
           high == IF g.n = 1 THEN IF g.c = 1 THEN low - 96 ELSE low
                   ELSE IF g.c = 1 \/ low - (low % 16) > 144 THEN low + 96 ELSE low
<1>1. low \in Int
  BY DEF Byte
<1>2. high \in Int
  <2> HIDE DEF low
  <2> QED
    BY <1>1
<1>3. z80_daa(x, g) = Out(high % 256, Truth(high % 256 = 0), g.n, 0,
                          IF Bit(high % 65536, 256) = 1 THEN 1 ELSE g.c)
  BY SMT DEF z80_daa
<1> HIDE DEF high
<1>4. high % 256 \in Byte
  BY <1>2, Remainder
<1>5. (IF Bit(high % 65536, 256) = 1 THEN 1 ELSE g.c) \in Flag /\ g.n \in Flag
  BY FlagsType, Constants
<1> QED
  BY <1>3, <1>4, <1>5, OutType, TruthType, Constants

LEMMA RotationsType ==
  ASSUME NEW x \in Byte, NEW g \in Flags, NEW around \in BOOLEAN
  PROVE  z80_rl(x, g, around) \in Result /\ z80_rr(x, g, around) \in Result
<1>1. Bit(x, 128) \in Flag /\ Bit(x, 1) \in Flag /\ g.c \in Flag
  BY FlagsType, LeftAndBack, Right, Constants
<1>2. PICK k \in Flag : k = (IF around THEN Bit(x, 128) ELSE g.c)
  BY <1>1
<1>3. PICK m \in Flag : m = (IF around THEN Bit(x, 1) ELSE g.c)
  BY <1>1
<1>4. ((2 * x) % 256) + k \in Byte /\ (x \div 2) + 128 * m \in Byte
  BY LeftAndBack, Right
<1>5. /\ z80_rl(x, g, around) = Out(((2 * x) % 256) + k, Truth(((2 * x) % 256) + k = 0),
                                    0, 0, Bit(x, 128))
      /\ z80_rr(x, g, around) = Out((x \div 2) + 128 * m, Truth((x \div 2) + 128 * m = 0),
                                    0, 0, Bit(x, 1))
  BY <1>2, <1>3, SMT DEF z80_rl, z80_rr
<1> QED
  BY <1>1, <1>4, <1>5, OutType, TruthType, Constants

LEMMA ShiftsType ==
  ASSUME NEW x \in Byte, NEW g \in Flags
  PROVE  /\ z80_sl(x, 0) \in Result /\ z80_sr(x, TRUE) \in Result
         /\ z80_sr(x, FALSE) \in Result /\ swap(x) \in Result
<1>1. Bit(x, 128) \in Flag /\ Bit(x, 1) \in Flag
  BY LeftAndBack, Right, Constants
<1>2. ((2 * x) % 256) + 0 \in Byte /\ (x \div 2) + 128 * Bit(x, 128) \in Byte
      /\ (x \div 2) + 0 \in Byte /\ (x \div 16) + 16 * (x % 16) \in Byte
  <2>1. ((2 * x) % 256) + 0 \in Byte
    BY LeftAndBack, Constants
  <2>2. (x \div 2) + 128 * Bit(x, 128) \in Byte
    BY Halves
  <2>3. (x \div 2) + 0 \in Byte
    BY DEF Byte
  <2> QED
    BY <2>1, <2>2, <2>3, SwapBack
<1>3. z80_sl(x, 0) \in Result
  BY <1>1, <1>2, OutType, TruthType, Constants DEF z80_sl
<1>4. z80_sr(x, TRUE) \in Result /\ z80_sr(x, FALSE) \in Result
  BY <1>1, <1>2, OutType, TruthType, Constants DEF z80_sr
<1>5. swap(x) \in Result
  BY <1>2, OutType, TruthType, Constants DEF swap
<1> QED
  BY <1>3, <1>4, <1>5

\* Whatever the byte after 0xCB is.
LEMMA CodeResult ==
  ASSUME NEW code \in Byte, NEW x \in Byte, NEW g \in Flags
  PROVE  z80_ext_cb_execute(code, x, g) \in Result
<1>1. PICK y \in 0 .. 7 : y = (code \div 8) % 8
  BY DEF Byte
<1>2. code \div 64 \in 0 .. 3
  BY DEF Byte
<1>3. Turned(y, x, g) \in Result
  <2>1. /\ z80_rl(x, g, TRUE) \in Result /\ z80_rl(x, g, FALSE) \in Result
        /\ z80_rr(x, g, TRUE) \in Result /\ z80_rr(x, g, FALSE) \in Result
        /\ z80_sl(x, 0) \in Result /\ z80_sr(x, TRUE) \in Result
        /\ z80_sr(x, FALSE) \in Result /\ swap(x) \in Result
    BY RotationsType, ShiftsType
  <2>2. y = 0 \/ y = 1 \/ y = 2 \/ y = 3 \/ y = 4 \/ y = 5 \/ y = 6 \/ y = 7
    OBVIOUS
  <2>3. CASE y = 0
    BY <2>1, <2>3 DEF Turned
  <2>4. CASE y = 1
    BY <2>1, <2>4 DEF Turned
  <2>5. CASE y = 2
    BY <2>1, <2>5 DEF Turned
  <2>6. CASE y = 3
    BY <2>1, <2>6 DEF Turned
  <2>7. CASE y = 4
    BY <2>1, <2>7 DEF Turned
  <2>8. CASE y = 5
    BY <2>1, <2>8 DEF Turned
  <2>9. CASE y = 6
    BY <2>1, <2>9 DEF Turned
  <2>10. CASE y = 7
    BY <2>1, <2>10 DEF Turned
  <2> QED
    BY <2>2, <2>3, <2>4, <2>5, <2>6, <2>7, <2>8, <2>9, <2>10
<1>4. z80_bit(x, y, g) \in Result
  BY OutType, TruthType, FlagsType, Constants DEF z80_bit
<1>5. PICK w \in {1, 2, 4, 8, 16, 32, 64, 128} : w = Weight[y + 1]
  BY Weights
<1>6. z80_res(x, y) \in Byte /\ z80_set(x, y) \in Byte
  BY <1>5, OffAndOn DEF z80_res, z80_set
<1>7. [v |-> z80_res(x, y), f |-> g] \in Result /\ [v |-> z80_set(x, y), f |-> g] \in Result
  BY <1>6 DEF Result
<1> QED
  BY <1>1, <1>2, <1>3, <1>4, <1>7 DEF z80_ext_cb_execute

LEMMA AloneType ==
  ASSUME NEW x \in Byte, NEW g \in Flags
  PROVE  /\ [v |-> 255 - x, f |-> [g EXCEPT !.n = 1, !.h = 1]] \in Result
         /\ [v |-> x, f |-> [g EXCEPT !.n = 0, !.h = 0, !.c = 1]] \in Result
         /\ [v |-> x, f |-> [g EXCEPT !.n = 0, !.h = 0, !.c = 1 - g.c]] \in Result
<1>1. 255 - x \in Byte
  BY DEF Byte
<1>2. 1 - g.c \in Flag
  BY FlagsType DEF Flag
<1>3. ASSUME NEW h \in Flags, NEW k \in Flag
      PROVE  [h EXCEPT !.n = k] \in Flags /\ [h EXCEPT !.h = k] \in Flags
             /\ [h EXCEPT !.c = k] \in Flags
  BY DEF Flags
<1>4. [g EXCEPT !.n = 1, !.h = 1] \in Flags
  BY <1>3, Constants
<1>5. [g EXCEPT !.n = 0, !.h = 0, !.c = 1] \in Flags
  BY <1>3, Constants
<1>6. [g EXCEPT !.n = 0, !.h = 0, !.c = 1 - g.c] \in Flags
  BY <1>2, <1>3, Constants
<1> QED
  BY <1>1, <1>4, <1>5, <1>6 DEF Result

\* `Alone', of any byte and flags.
AloneOf(x, g) ==
  {z80_inr(x, g), z80_dcr(x, g), z80_daa(x, g),
  z80_rla(x, g, TRUE), z80_rra(x, g, TRUE),
  z80_rla(x, g, FALSE), z80_rra(x, g, FALSE),
  [v |-> 255 - x, f |-> [g EXCEPT !.n = 1, !.h = 1]],
  [v |-> x, f |-> [g EXCEPT !.n = 0, !.h = 0, !.c = 1]],
  [v |-> x, f |-> [g EXCEPT !.n = 0, !.h = 0, !.c = 1 - g.c]]}

LEMMA AloneResult ==
  ASSUME NEW x \in Byte, NEW g \in Flags,
         NEW r \in AloneOf(x, g)
  PROVE  r \in Result
<1>1. g.c \in Flag /\ Difference(x, 1, 0) \in Result /\ Sum(x, 1, 0) \in Result
  BY FlagsType, SumType, Constants
<1>2. PICK d \in Result : d = Difference(x, 1, 0)
  BY <1>1
<1>3. PICK e \in Result : e = Sum(x, 1, 0)
  BY <1>1
<1>4. z80_inr(x, g) \in Result
  <2>1. z80_inr(x, g) = [e EXCEPT !.f.c = g.c]
    BY <1>3, StepsRight, Zenon
  <2> QED
    BY <1>1, <2>1, ChangedType
<1>5. z80_dcr(x, g) \in Result
  <2>1. z80_dcr(x, g) = [d EXCEPT !.f.c = g.c]
    BY <1>2, StepsRight, Zenon
  <2> QED
    BY <1>1, <2>1, ChangedType
<1>6. ASSUME NEW around \in BOOLEAN
      PROVE  z80_rla(x, g, around) \in Result /\ z80_rra(x, g, around) \in Result
  <2>1. z80_rl(x, g, around) \in Result /\ z80_rr(x, g, around) \in Result
    BY RotationsType
  <2> QED
    BY <2>1, ChangedType, Constants DEF z80_rla, z80_rra
<1>7. /\ z80_rla(x, g, TRUE) \in Result /\ z80_rra(x, g, TRUE) \in Result
      /\ z80_rla(x, g, FALSE) \in Result /\ z80_rra(x, g, FALSE) \in Result
  BY <1>6
<1>8. z80_daa(x, g) \in Result
  BY DaaType
<1>9. /\ [v |-> 255 - x, f |-> [g EXCEPT !.n = 1, !.h = 1]] \in Result
      /\ [v |-> x, f |-> [g EXCEPT !.n = 0, !.h = 0, !.c = 1]] \in Result
      /\ [v |-> x, f |-> [g EXCEPT !.n = 0, !.h = 0, !.c = 1 - g.c]] \in Result
  BY AloneType, Zenon
<1> QED
  BY <1>4, <1>5, <1>7, <1>8, <1>9, Zenon DEF AloneOf

\* The inductive invariant: the registers hold what the operators above take.
AluInv == a \in Byte /\ f \in Flags

LEMMA ResultsType ==
  ASSUME AluInv, NEW b \in Byte, NEW r \in Results(b)
  PROVE  r \in Result
<1>0. PICK x, g : x = a /\ g = f
  OBVIOUS
<1>1. x \in Byte /\ g \in Flags /\ g.c \in Flag
  BY <1>0, FlagsType DEF AluInv
<1>2. /\ Sum(x, b, g.c) \in Result /\ Sum(x, b, 0) \in Result
      /\ Difference(x, b, g.c) \in Result /\ Difference(x, b, 0) \in Result
      /\ Sum(x, 1, 0) \in Result /\ Difference(x, 1, 0) \in Result
  BY <1>1, SumType, Constants
<1>3. CASE r \in Additive(b)
  <2>1. r \in {z80_add(x, b), z80_adc(x, b, g), z80_sub(x, b), z80_sbc(x, b, g)}
    BY <1>0, <1>3 DEF Additive
  <2> QED
    BY <1>1, <1>2, <2>1, AddsRight
<1>4. CASE r \in Logical(b)
  <2>1. r \in {z80_ana(x, b), z80_xra(x, b), z80_ora(x, b), z80_cmp(x, b)}
    BY <1>0, <1>4 DEF Logical
  <2>2. z80_cmp(x, b) \in Result
    <3>1. PICK d \in Result : d = Difference(x, b, 0)
      BY <1>2
    <3>2. z80_cmp(x, b) = [d EXCEPT !.v = x]
      BY <1>1, <3>1, AddsRight, Zenon
    <3> QED
      BY <1>1, <3>2, ChangedType, Constants
  <2> QED
    BY <2>1, <2>2, LogicalType
<1>5. CASE r \in Alone
  <2>1. r \in AloneOf(x, g)
    BY <1>0, <1>5, Zenon DEF Alone, AloneOf
  <2> QED
    BY <1>1, <2>1, AloneResult
<1>6. CASE r \in {z80_ext_cb_execute(b, a, f)}
  BY <1>0, <1>1, <1>6, CodeResult
<1> QED
  BY <1>3, <1>4, <1>5, <1>6 DEF Results

LEMMA AluInit == Init => AluInv
<1> SUFFICES ASSUME Init
             PROVE  AluInv
  OBVIOUS
<1>1. a = 0 /\ f = [z |-> 1, n |-> 0, h |-> 1, c |-> 1]
  BY DEF Init
<1> QED
  BY <1>1, Constants DEF AluInv, Flags

LEMMA AluStep == AluInv /\ [Next]_vars => AluInv'
<1> SUFFICES ASSUME AluInv, [Next]_vars
             PROVE  AluInv'
  OBVIOUS
<1>1. CASE Accumulate
  <2>1. PICK b \in Operands : \E r \in Results(b) : a' = r.v /\ f' = r.f
    BY <1>1 DEF Accumulate
  <2>2. PICK r \in Results(b) : a' = r.v /\ f' = r.f
    BY <2>1
  <2>3. b \in Byte
    BY CpuAssumption
  <2>4. r \in Result
    BY <2>3, ResultsType
  <2> QED
    BY <2>2, <2>4, ResultType DEF AluInv
<1>2. CASE UNCHANGED alu
  BY <1>2 DEF AluInv, alu
<1>3. Accumulate \/ UNCHANGED alu
  BY DEF Next, Execute, Check, vars, alu, Request, Move, Plain, Jump, z80_call, Rst, z80_ret,
         PushPair, PushPsw, PopPair, MoveStack, EnableInterrupts, DisableInterrupts,
         Halt, StoreLines, Ignore, WakeUp, Serve, Joy
<1> QED
  BY <1>1, <1>2, <1>3

LEMMA AluAlways == Spec => []AluInv
BY AluInit, AluStep, PTL DEF Spec

\* The accumulator and the flags are right after every addition, subtraction,
\* comparison, rotation and shift of z80_gameboy.h, whatever the program, the
\* bytes and the flags: the half carries taken from a ^ b ^ r and the carries from
\* bit 8 or 16 of the wider result are those of the arithmetic.
THEOREM ArithmeticHolds == Spec => []ArithmeticIsRight
<1>1. AluInv => ArithmeticIsRight
  <2> SUFFICES ASSUME AluInv, NEW x, NEW g, x = a, g = f
               PROVE  ArithmeticIsRight
    OBVIOUS
  <2>1. x \in Byte /\ g \in Flags
    BY DEF AluInv
  <2>2. RotationsAreRight(x, g)
    BY <2>1, RotationsRight
  <2>3. \A b \in Byte :
          /\ z80_adc(x, b, g) = Sum(x, b, g.c) /\ z80_add(x, b) = Sum(x, b, 0)
          /\ z80_sbc(x, b, g) = Difference(x, b, g.c)
          /\ z80_sub(x, b) = Difference(x, b, 0)
          /\ z80_cmp(x, b) = [Difference(x, b, 0) EXCEPT !.v = x]
    BY <2>1, AddsRight
  <2>4. /\ z80_inr(x, g) = [Sum(x, 1, 0) EXCEPT !.f.c = g.c]
        /\ z80_dcr(x, g) = [Difference(x, 1, 0) EXCEPT !.f.c = g.c]
    BY <2>1, StepsRight
  <2>5. \A b \in Operands : WideSum(x, b, g)
    BY <2>1, WideRight, CpuAssumption
  <2> QED
    BY <2>2, <2>3, <2>4, <2>5, Zenon DEF ArithmeticIsRight
<1> QED
  BY <1>1, AluAlways, PTL

\* z80_daa gives the two decimal digits of a sum or a difference of decimal
\* numbers, and their carry, for all of them and both carries in.
THEOREM DecimalHolds == Spec => []DecimalIsRight
<1>1. AluInv => DecimalIsRight
  <2> SUFFICES ASSUME AluInv, NEW x \in {x \in Decimal : Bcd(x) = a}, NEW y \in Decimal
               PROVE  LET sum  == z80_adc(a, Bcd(y), f)
                          diff == z80_sbc(a, Bcd(y), f)
                          s    == z80_daa(sum.v, sum.f)
                          d    == z80_daa(diff.v, diff.f)
                      IN /\ s.v = Bcd((x + y + f.c) % 100) /\ s.f.c = Truth(x + y + f.c > 99)
                         /\ d.v = Bcd((x - y - f.c) % 100) /\ d.f.c = Truth(x < y + f.c)
                         /\ s.f.z = Truth(s.v = 0) /\ d.f.z = Truth(d.v = 0)
    BY DEF DecimalIsRight
  <2>1. PICK g \in Flags : g = f
    BY DEF AluInv
  <2>2. x \in Decimal /\ a = Bcd(x)
    OBVIOUS
  <2>3. PICK sum : sum = z80_adc(a, Bcd(y), f)
    OBVIOUS
  <2>4. PICK diff : diff = z80_sbc(a, Bcd(y), f)
    OBVIOUS
  <2>5. PICK s : s = z80_daa(sum.v, sum.f)
    OBVIOUS
  <2>6. PICK d : d = z80_daa(diff.v, diff.f)
    OBVIOUS
  <2>7. /\ s.v = Bcd((x + y + g.c) % 100) /\ s.f.c = Truth(x + y + g.c > 99)
        /\ s.f.z = Truth(s.v = 0)
    BY <2>1, <2>2, <2>3, <2>5, DecimalSum
  <2>8. /\ d.v = Bcd((x - y - g.c) % 100) /\ d.f.c = Truth(x < y + g.c)
        /\ d.f.z = Truth(d.v = 0)
    BY <2>1, <2>2, <2>4, <2>6, DecimalDifference
  <2> QED
    BY <2>1, <2>3, <2>4, <2>5, <2>6, <2>7, <2>8, SMT
<1> QED
  BY <1>1, AluAlways, PTL
=============================================================================
