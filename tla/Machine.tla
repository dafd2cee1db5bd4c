------------------------------ MODULE Machine ------------------------------
(***************************************************************************)
(* The devices under one clock: cycles_step of lib/cycles.c drives the     *)
(* picture unit, the timer, the object DMA and a serial transfer without a *)
(* peer, and the game writes their registers through mmu_write.  A state   *)
(* can be saved and restored (gameboy_save_stat, gameboy_restore_stat) and *)
(* the program left and started again.                                     *)
(*                                                                         *)
(* mmu_write and mmu_read call cycles_step before they do anything, so two *)
(* effects of a game are never at one count: `access' says that the CPU    *)
(* has stepped for an access whose effect is still to come.                *)
(***************************************************************************)
EXTENDS Timer, Ppu

CONSTANTS FastByte, SlowByte,    \* 64 and 2048: cycles of a serial transfer
          Blocks,                \* the lengths of HBLANK transfers games start
          MaxCnt, LastEvent,     \* bounds of the model: cycles, the last of
                                 \* them at which anything but time happens,
          MaxWrites,             \* writes and speed keys,
          MaxRestores            \* and restores in a run

ASSUME MachineAssumption ==
  /\ Period(FastByte) /\ Period(SlowByte)
  /\ Blocks \subseteq 1 .. 128
  /\ MaxCnt \in Nat /\ LastEvent \in Nat /\ MaxWrites \in Nat /\ MaxRestores \in Nat

VARIABLES
  access,
  dma_next,                           \* mmu.dma_next
  sc_start, sc_clock, serial_next,    \* SC (0xFF02), serial.next
  saved,                              \* the state file, if there is one
  writes, restores                    \* writes and keys, and restores so far

serial == <<sc_start, sc_clock, serial_next>>
irqs   == <<timer_irq, vblank_irq, stat_irq>>
budget == <<writes, restores>>
vars   == <<clock, timer, gpu, hdma, irqs, access, dma_next, serial, saved,
            budget>>

\* The state file: every module but the timer, and not the speed.  (The last
\* line is history, which goes with the picture.)
Stat ==
  [cnt |-> cnt, next |-> next, hs_next |-> hs_next,
   lcd_on |-> lcd_on, ir_modes |-> ir_modes, ir_lyc |-> ir_lyc, lyc |-> lyc,
   mode |-> mode, coincidence |-> coincidence, ly |-> ly, gpu_next |-> gpu_next,
   hdma_left |-> hdma_left, hdma_mode |-> hdma_mode, hdma_line |-> hdma_line,
   dma_next |-> dma_next,
   sc_start |-> sc_start, sc_clock |-> sc_clock, serial_next |-> serial_next,
   frame |-> frame, served |-> served, double |-> double]

Boot ==
  /\ ClockInit /\ TimerInit /\ PpuInit
  /\ access = FALSE
  /\ dma_next = 0
  /\ sc_start = FALSE /\ sc_clock = FALSE /\ serial_next = 0

Init ==
  /\ Boot
  /\ saved = {} /\ writes = 0 /\ restores = 0

-----------------------------------------------------------------------------
(* Time passes.                                                            *)

DmaTick == dma_next' = IF dma_next = cnt' THEN 1 ELSE dma_next

SerialTick ==
  /\ IF serial_next = cnt'
     THEN serial_next' = serial_next - 1 /\ sc_start' = FALSE
     ELSE UNCHANGED <<serial_next, sc_start>>
  /\ UNCHANGED sc_clock

cycles_step ==
  /\ cnt < MaxCnt
  /\ ClockTick /\ DmaTick /\ GpuTick /\ TimerTick /\ SerialTick
  /\ access' = TRUE
  /\ UNCHANGED <<saved, budget>>

-----------------------------------------------------------------------------
(* The game writes a register.                                             *)

Access ==
  /\ cnt <= LastEvent
  /\ access /\ access' = FALSE
  /\ writes < MaxWrites /\ writes' = writes + 1
  /\ UNCHANGED <<irqs, saved, restores>>

TimerWrite ==
  /\ Access
  /\ \/ WriteDiv
     \/ \E v \in Bytes : WriteTima(v) \/ WriteTma(v)
     \/ \E on \in BOOLEAN, speed \in 0 .. 3 : WriteTac(on, speed)
  /\ UNCHANGED <<clock, gpu, hdma, dma_next, serial>>

PpuWrite ==
  /\ Access
  /\ \/ \E on \in BOOLEAN : WriteLcdc(on)
     \/ \E w \in StatWrites : WriteStat(w)
     \/ \E l \in LycWrites : WriteLyc(l)
     \/ \E hblank \in BOOLEAN, n \in Blocks : WriteHdma(hblank, n)
  /\ UNCHANGED <<clock, timer, dma_next, serial>>

\* FF46: the copy is made by the next step.
DmaWrite ==
  /\ Access
  /\ dma_next' = cnt + 4
  /\ UNCHANGED <<clock, timer, gpu, hdma, serial>>

\* SC with no peer: a transfer on the game's own clock gets a deadline.
ScWrite ==
  /\ Access
  /\ \E start, own, fast \in BOOLEAN :
       /\ sc_start' = start /\ sc_clock' = own
       /\ serial_next' = IF start /\ own
                         THEN cnt + (IF fast THEN FastByte ELSE SlowByte)
                         ELSE serial_next
  /\ UNCHANGED <<clock, timer, gpu, hdma, dma_next>>

SpeedWrite ==
  /\ Access
  /\ cycles_set_speed /\ PpuSpeed
  /\ UNCHANGED <<timer, dma_next, serial>>

-----------------------------------------------------------------------------
(* The user.                                                               *)

SpeedKey ==
  /\ cnt <= LastEvent
  /\ cycles_change_emulation_speed
  /\ writes < MaxWrites /\ writes' = writes + 1
  /\ UNCHANGED <<timer, gpu, hdma, irqs, access, dma_next, serial, saved,
                 restores>>

SaveStat ==
  /\ cnt <= LastEvent
  /\ saved = {}
  /\ saved' = {Stat}
  /\ UNCHANGED <<clock, timer, gpu, hdma, irqs, access, dma_next, serial,
                 budget>>

\* (a slip: cycles_t is left out of the state file)
RestoreWithoutCycles ==
  /\ cnt <= LastEvent
  /\ restores < MaxRestores /\ restores' = restores + 1
  /\ \E s \in saved :
       /\ lcd_on' = s.lcd_on /\ ir_modes' = s.ir_modes /\ ir_lyc' = s.ir_lyc
       /\ lyc' = s.lyc /\ mode' = s.mode /\ coincidence' = s.coincidence
       /\ ly' = s.ly /\ gpu_next' = s.gpu_next
       /\ hdma_left' = s.hdma_left /\ hdma_mode' = s.hdma_mode
       /\ hdma_line' = s.hdma_line /\ dma_next' = s.dma_next
       /\ sc_start' = s.sc_start /\ sc_clock' = s.sc_clock
       /\ serial_next' = s.serial_next
       /\ drawn' = s.frame[1] /\ first' = s.frame[2] /\ on_at' = s.frame[3]
       /\ steady' = (s.frame[4] /\ s.double = double)
       /\ served' = s.served
  /\ access' = FALSE
  /\ UNCHANGED <<cnt, next, hs_next, timer, double, pace, irqs, saved, writes,
                 twice>>

\* The timer keeps what it has, the double speed flag as well.
RestoreStat ==
  /\ cnt <= LastEvent
  /\ restores < MaxRestores /\ restores' = restores + 1
  /\ \E s \in saved :
       /\ cnt' = s.cnt /\ next' = s.next /\ hs_next' = s.hs_next
       /\ lcd_on' = s.lcd_on /\ ir_modes' = s.ir_modes /\ ir_lyc' = s.ir_lyc
       /\ lyc' = s.lyc /\ mode' = s.mode /\ coincidence' = s.coincidence
       /\ ly' = s.ly /\ gpu_next' = s.gpu_next
       /\ hdma_left' = s.hdma_left /\ hdma_mode' = s.hdma_mode
       /\ hdma_line' = s.hdma_line /\ dma_next' = s.dma_next
       /\ sc_start' = s.sc_start /\ sc_clock' = s.sc_clock
       /\ serial_next' = s.serial_next
       /\ drawn' = s.frame[1] /\ first' = s.frame[2] /\ on_at' = s.frame[3]
       /\ steady' = (s.frame[4] /\ s.double = double)
       /\ served' = s.served
  /\ access' = FALSE
  /\ UNCHANGED <<timer, double, pace, irqs, saved, writes, twice>>

\* The program is left and started again: Boot, on the primed variables.
\* (`twice' is history.)
Restart ==
  /\ cnt <= LastEvent
  /\ saved # {} /\ restores = 0
  /\ cnt' = 0 /\ double' = FALSE /\ pace' = Normal /\ next' = Normal
  /\ hs_next' = HsFirst
  /\ div' = 0 /\ tima' = 0 /\ tma' = 0 /\ active' = FALSE /\ threshold' = 0
  /\ timer_next' = DivPeriod /\ sub_next' = 0
  /\ lcd_on' = TRUE /\ mode' = 0 /\ coincidence' = FALSE /\ ir_modes' = {}
  /\ ir_lyc' = FALSE /\ ly' = 0 /\ lyc' = 0 /\ gpu_next' = Line
  /\ hdma_left' = 0 /\ hdma_mode' = FALSE /\ hdma_line' = 0
  /\ on_at' = 0 /\ steady' = TRUE /\ drawn' = {} /\ first' = TRUE
  /\ served' = FALSE
  /\ timer_irq' = FALSE /\ vblank_irq' = FALSE /\ stat_irq' = FALSE
  /\ access' = FALSE
  /\ dma_next' = 0
  /\ sc_start' = FALSE /\ sc_clock' = FALSE /\ serial_next' = 0
  /\ UNCHANGED <<saved, budget, twice>>

Next ==
  \/ cycles_step
  \/ TimerWrite \/ PpuWrite \/ DmaWrite \/ ScWrite \/ SpeedWrite
  \/ SpeedKey \/ SaveStat \/ RestoreStat \/ Restart

Spec == Init /\ [][Next]_vars

-----------------------------------------------------------------------------
(* Properties.                                                             *)

\* The types of the devices' state; TIMA fits its byte between two steps.
TypeOK ==
  /\ cnt \in Nat /\ next \in Nat /\ hs_next \in Nat
  /\ double \in BOOLEAN /\ pace \in Paces
  /\ div \in 0 .. 255 /\ tima \in 0 .. 255 /\ tma \in 0 .. 255
  /\ active \in BOOLEAN /\ threshold \in Nat
  /\ timer_next \in Nat /\ sub_next \in Nat
  /\ lcd_on \in BOOLEAN /\ mode \in 0 .. 3 /\ coincidence \in BOOLEAN
  /\ ir_modes \in SUBSET (0 .. 2) /\ ir_lyc \in BOOLEAN
  /\ ly \in 0 .. Lines - 1 /\ lyc \in 0 .. 255 /\ gpu_next \in Nat
  /\ hdma_left \in 0 .. 128 /\ hdma_mode \in BOOLEAN
  /\ hdma_line \in 0 .. Lines - 1
  /\ dma_next \in Nat /\ serial_next \in Nat
  /\ sc_start \in BOOLEAN /\ sc_clock \in BOOLEAN

\* No deadline of a saved module is ever missed, across writes at any moment,
\* speed switches and restored states: the pause, the hard sync, the picture
\* while the LCD is on, and a transfer on the game's own clock always have a
\* moment to come that the test for equality (cycles.c:192-295) will meet.
DeadlinesAhead ==
  /\ Ahead(next) /\ Ahead(hs_next)
  /\ lcd_on => Ahead(gpu_next) /\ gpu_next <= cnt + 2 * Line
  /\ sc_start /\ sc_clock => Ahead(serial_next)

\* Until a state is restored, the divider and a timer that is on always have
\* a deadline to come, at most one period away, whatever the game wrote to
\* FF07 and when (timer.c:52-63, cycles.c:272-281).
TimerAheadHere ==
  /\ Ahead(timer_next) /\ timer_next <= cnt + DivPeriod
  /\ active => Ahead(sub_next) /\ sub_next <= cnt + threshold

TimerAhead == restores = 0 => TimerAheadHere

\* The mode of the picture and its line belong together: VBLANK is outside
\* the screen and every other mode inside it, so that only lines of the screen
\* are drawn (gpu.c:843-971); an LCD that is off stands at the first line in
\* mode 0 (gpu.c:169-173), whatever deadline it had.
ModeOfLine ==
  /\ (mode = 1) <=> (ly >= Visible)
  /\ ~lcd_on => mode = 0 /\ ly = 0

\* While the LCD is on and the speed is not switched, the line is the one
\* that the time since it was turned on gives: the four modes of a line and
\* the ten lines of VBLANK add up with no drift, across restored states.
LineOfTime ==
  lcd_on /\ steady => ly = ((cnt - on_at) \div Scaled(Line)) % Lines

\* When VBLANK begins every line of the screen has been drawn once more; the
\* first frame after the LCD was turned on lacks the first line.
FrameComplete ==
  [][vblank_irq' /\ cycles_step
       => drawn = (IF first THEN 1 ELSE 0) .. Visible - 1]_vars

\* An HBLANK transfer copies at most one block in the HBLANK of a line, even
\* if it is started, stopped and started again there (cycles.c:331-337).
OneBlockPerLine == ~twice

\* gameboy.c:356 and 390, "dump every module": a restored state takes up where
\* the saved one was, so that the divider still has a deadline that will come.
\* (The timer is not in the file.)
RestoredTimerRuns == Ahead(timer_next)
=============================================================================
