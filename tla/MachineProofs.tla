--------------------------- MODULE MachineProofs ---------------------------
(***************************************************************************)
(* Machine, for every length of the periods, lines and transfers that is a *)
(* positive multiple of 4, as the code's are: no deadline of a saved module *)
(* is missed, the timer's are not until a state is restored, the mode of   *)
(* the picture goes with its line, which is the one the time gives, every  *)
(* frame is drawn whole, and an HBLANK transfer copies one block in a line. *)
(***************************************************************************)
EXTENDS Machine, Integers, TLAPS

\* The count moves in fours, and the game has an access only after a step.
OnGrid ==
  /\ cnt \in Nat /\ cnt % 4 = 0
  /\ access \in BOOLEAN /\ (access => cnt > 0)

ClockOk ==
  /\ double \in BOOLEAN /\ pace \in Paces
  /\ next \in Nat /\ Ahead(next)
  /\ hs_next \in Nat /\ Ahead(hs_next)

TimerOk ==
  /\ div \in 0 .. 255 /\ tima \in 0 .. 255 /\ tma \in 0 .. 255
  /\ active \in BOOLEAN /\ threshold \in Nat
  /\ timer_next \in Nat /\ sub_next \in Nat
  /\ active => Period(threshold)
  /\ restores \in Nat
  /\ restores = 0 => TimerAheadHere

PictureOk ==
  /\ lcd_on \in BOOLEAN /\ mode \in 0 .. 3 /\ coincidence \in BOOLEAN
  /\ ir_modes \in SUBSET (0 .. 2) /\ ir_lyc \in BOOLEAN
  /\ ly \in 0 .. Lines - 1 /\ lyc \in 0 .. 255 /\ gpu_next \in Nat
  /\ lcd_on => Ahead(gpu_next) /\ gpu_next <= cnt + 2 * Line
  /\ ~lcd_on => gpu_next % 4 # 0
  /\ ModeOfLine

\* A block copied in this line was the last one, and its HBLANK goes on.
HdmaOk ==
  /\ hdma_left \in 0 .. 128 /\ hdma_mode \in BOOLEAN
  /\ hdma_line \in 0 .. Lines - 1
  /\ served \in BOOLEAN
  /\ served => mode = 0 /\ hdma_line = ly
  /\ twice = FALSE

SerialOk ==
  /\ dma_next \in Nat /\ serial_next \in Nat
  /\ sc_start \in BOOLEAN /\ sc_clock \in BOOLEAN
  /\ sc_start /\ sc_clock => Ahead(serial_next)

\* The state file holds what the components ask of a state, at its own count.
FileOk(s) ==
  /\ s.cnt \in Nat /\ s.cnt % 4 = 0
  /\ s.next \in Nat /\ s.next > s.cnt /\ s.next % 4 = 0
  /\ s.hs_next \in Nat /\ s.hs_next > s.cnt /\ s.hs_next % 4 = 0
  /\ s.lcd_on \in BOOLEAN /\ s.mode \in 0 .. 3 /\ s.coincidence \in BOOLEAN
  /\ s.ir_modes \in SUBSET (0 .. 2) /\ s.ir_lyc \in BOOLEAN
  /\ s.ly \in 0 .. Lines - 1 /\ s.lyc \in 0 .. 255 /\ s.gpu_next \in Nat
  /\ s.lcd_on => /\ s.gpu_next > s.cnt /\ s.gpu_next % 4 = 0
                 /\ s.gpu_next <= s.cnt + 2 * Line
  /\ ~s.lcd_on => s.gpu_next % 4 # 0 /\ s.mode = 0 /\ s.ly = 0
  /\ (s.mode = 1) <=> (s.ly >= Visible)
  /\ s.hdma_left \in 0 .. 128 /\ s.hdma_mode \in BOOLEAN
  /\ s.hdma_line \in 0 .. Lines - 1 /\ s.served \in BOOLEAN
  /\ s.served => s.mode = 0 /\ s.hdma_line = s.ly
  /\ s.dma_next \in Nat /\ s.serial_next \in Nat
  /\ s.sc_start \in BOOLEAN /\ s.sc_clock \in BOOLEAN
  /\ s.sc_start /\ s.sc_clock
       => s.serial_next > s.cnt /\ s.serial_next % 4 = 0

SavedOk == \A s \in saved : FileOk(s)

IInv ==
  /\ OnGrid /\ ClockOk /\ TimerOk /\ PictureOk /\ HdmaOk /\ SerialOk /\ SavedOk

-----------------------------------------------------------------------------
\* A deadline that is ahead is still ahead after a step, or is set again.
LEMMA StillAhead ==
  ASSUME NEW c \in Nat, c % 4 = 0,
         NEW d \in Nat, d > c, d % 4 = 0,
         NEW p \in Nat, p > 0, p % 4 = 0
  PROVE  /\ Again(d, c + 4, p) \in Nat
         /\ Again(d, c + 4, p) > c + 4
         /\ Again(d, c + 4, p) % 4 = 0
         /\ d <= c + p => Again(d, c + 4, p) <= c + 4 + p
<1>1. CASE d = c + 4
  BY <1>1 DEF Again
<1>2. CASE d # c + 4
  BY <1>2 DEF Again
<1> QED
  BY <1>1, <1>2

\* A period is still one at double speed.
LEMMA ScaledPeriod ==
  ASSUME NEW p, Period(p)
  PROVE  Period(Scaled(p)) /\ Scaled(p) \in Nat /\ Scaled(p) <= 2 * p
<1>1. p \in Nat /\ p > 0 /\ p % 4 = 0 /\ (2 * p) % 4 = 0
  BY DEF Period
<1> QED
  BY <1>1 DEF Scaled, Period

\* A period from now is ahead.
LEMMA PeriodAhead ==
  ASSUME NEW c \in Nat, c % 4 = 0, NEW p, Period(p)
  PROVE  c + p \in Nat /\ c + p > c /\ (c + p) % 4 = 0
BY DEF Period

\* The lengths of the modes are periods no longer than the line.
LEMMA LinePeriods ==
  /\ Period(Oam) /\ Period(Vram) /\ Period(HBlank) /\ Period(Line)
  /\ Oam <= Line /\ Vram <= Line /\ HBlank <= Line
<1>1. /\ Oam \in Nat /\ Vram \in Nat /\ HBlank \in Nat
      /\ Oam > 0 /\ Vram > 0 /\ HBlank > 0
      /\ Oam % 4 = 0 /\ Vram % 4 = 0 /\ HBlank % 4 = 0
      /\ Line = Oam + Vram + HBlank
  BY PpuAssumption DEF PpuAssumption, Period
<1>2. (Oam + Vram + HBlank) % 4 = 0
  BY <1>1
<1> QED
  BY <1>1, <1>2 DEF Period

-----------------------------------------------------------------------------
\* A step of the clock.
LEMMA TickClock ==
  ASSUME OnGrid, ClockOk, cycles_step
  PROVE  OnGrid' /\ ClockOk'
<1>1. cnt' = cnt + 4 /\ access' = TRUE
  BY DEF cycles_step, ClockTick
<1>2. OnGrid'
  BY <1>1 DEF OnGrid
<1>3. Period(Scaled(pace)) /\ Period(Scaled(HsPeriod))
  BY ScaledPeriod, ClockAssumption DEF ClockAssumption, ClockOk
<1>4. next' \in Nat /\ Ahead(next)'
  <2>1. next' = Again(next, cnt + 4, Scaled(pace))
    BY <1>1 DEF cycles_step, ClockTick
  <2>2. /\ cnt \in Nat /\ cnt % 4 = 0
        /\ next \in Nat /\ next > cnt /\ next % 4 = 0
        /\ Scaled(pace) \in Nat /\ Scaled(pace) > 0 /\ Scaled(pace) % 4 = 0
    BY <1>3 DEF OnGrid, ClockOk, Ahead, Period
  <2>3. next' \in Nat /\ next' > cnt + 4 /\ next' % 4 = 0
    BY <2>1, <2>2, StillAhead
  <2> QED
    BY <1>1, <2>3 DEF Ahead
<1>5. hs_next' \in Nat /\ Ahead(hs_next)'
  <2>1. hs_next' = Again(hs_next, cnt + 4, Scaled(HsPeriod))
    BY <1>1 DEF cycles_step, ClockTick
  <2>2. /\ cnt \in Nat /\ cnt % 4 = 0
        /\ hs_next \in Nat /\ hs_next > cnt /\ hs_next % 4 = 0
        /\ Scaled(HsPeriod) \in Nat /\ Scaled(HsPeriod) > 0 /\ Scaled(HsPeriod) % 4 = 0
    BY <1>3 DEF OnGrid, ClockOk, Ahead, Period
  <2>3. hs_next' \in Nat /\ hs_next' > cnt + 4 /\ hs_next' % 4 = 0
    BY <2>1, <2>2, StillAhead
  <2> QED
    BY <1>1, <2>3 DEF Ahead
<1>6. double' \in BOOLEAN /\ pace' \in Paces
  BY DEF cycles_step, ClockTick, ClockOk
<1> QED
  BY <1>2, <1>4, <1>5, <1>6 DEF ClockOk

\* The timer's two deadlines stay ahead, or are set a period further.
LEMMA TickTimer ==
  ASSUME OnGrid, TimerOk, cycles_step
  PROVE  TimerOk'
<1>1. cnt' = cnt + 4 /\ restores' = restores
  BY DEF cycles_step, ClockTick, budget
<1>2. Period(DivPeriod)
  BY TimerAssumption DEF TimerAssumption
<1>3. /\ timer_next' = Again(timer_next, cnt + 4, DivPeriod)
      /\ sub_next' = Again(sub_next, cnt + 4, threshold)
      /\ UNCHANGED <<tma, active, threshold>>
  BY <1>1 DEF cycles_step, TimerTick
<1>4. div' \in 0 .. 255 /\ tima' \in 0 .. 255
  BY DEF cycles_step, TimerTick, Counted, TimerOk
<1>5. timer_next' \in Nat /\ sub_next' \in Nat
  BY <1>2, <1>3 DEF Again, TimerOk, Period
<1>6. ASSUME restores = 0
      PROVE  TimerAheadHere'
  <2>1. Ahead(timer_next)' /\ timer_next' <= cnt' + DivPeriod
    <3>1. /\ cnt \in Nat /\ cnt % 4 = 0
          /\ timer_next \in Nat /\ timer_next > cnt /\ timer_next % 4 = 0
          /\ timer_next <= cnt + DivPeriod
          /\ DivPeriod \in Nat /\ DivPeriod > 0 /\ DivPeriod % 4 = 0
      BY <1>2, <1>6 DEF OnGrid, TimerOk, TimerAheadHere, Ahead, Period
    <3>2. /\ timer_next' > cnt + 4 /\ timer_next' % 4 = 0
          /\ timer_next' <= cnt + 4 + DivPeriod
      BY <1>3, <3>1, StillAhead
    <3> QED
      BY <1>1, <3>2 DEF Ahead
  <2>2. ASSUME active
        PROVE  Ahead(sub_next)' /\ sub_next' <= cnt' + threshold
    <3>1. /\ cnt \in Nat /\ cnt % 4 = 0
          /\ sub_next \in Nat /\ sub_next > cnt /\ sub_next % 4 = 0
          /\ sub_next <= cnt + threshold
          /\ threshold \in Nat /\ threshold > 0 /\ threshold % 4 = 0
      BY <1>6, <2>2 DEF OnGrid, TimerOk, TimerAheadHere, Ahead, Period
    <3>2. /\ sub_next' > cnt + 4 /\ sub_next' % 4 = 0
          /\ sub_next' <= cnt + 4 + threshold
      BY <1>3, <3>1, StillAhead
    <3> QED
      BY <1>1, <3>2 DEF Ahead
  <2> QED
    BY <1>3, <2>1, <2>2 DEF TimerAheadHere
<1> QED
  BY <1>1, <1>3, <1>4, <1>5, <1>6 DEF TimerOk

\* The picture: its deadline is set again, a whole mode away, or still comes.
LEMMA TickPicture ==
  ASSUME OnGrid, ClockOk, PictureOk, cycles_step
  PROVE  PictureOk'
<1>1. cnt' = cnt + 4 /\ cnt' \in Nat /\ cnt' % 4 = 0
  BY DEF cycles_step, ClockTick, OnGrid
<1>2. /\ UNCHANGED <<lcd_on, ir_modes, ir_lyc, lyc>>
  BY DEF cycles_step, GpuTick, regs
<1>3. GpuTick
  BY DEF cycles_step
<1>4. Visible \in Nat /\ Lines \in Nat /\ 1 < Visible /\ Visible < Lines
  BY PpuAssumption DEF PpuAssumption
<1>5. CASE gpu_next # cnt'
  <2>1. UNCHANGED <<mode, coincidence, ly, gpu_next>>
    BY <1>3, <1>5 DEF GpuTick, GpuStep, stat
  <2>2. ASSUME lcd_on
        PROVE  Ahead(gpu_next)' /\ gpu_next' <= cnt' + 2 * Line
    BY <1>1, <1>5, <2>1, <2>2, LinePeriods
       DEF PictureOk, Ahead, OnGrid, Period
  <2> QED
    BY <1>2, <2>1, <2>2 DEF PictureOk, ModeOfLine
<1>6. CASE gpu_next = cnt'
  <2>1. lcd_on
    BY <1>1, <1>6 DEF PictureOk
  <2>2. GpuStep
    BY <1>3, <1>6 DEF GpuTick
  <2>3. \E p \in {Oam, Vram, HBlank, Line} : gpu_next' = cnt' + Scaled(p)
    BY <2>2 DEF GpuStep, LeaveHBlank, VBlankLine, LeaveOam, LeaveVram
  <2>4. gpu_next' \in Nat /\ Ahead(gpu_next)' /\ gpu_next' <= cnt' + 2 * Line
    <3>1. PICK p \in {Oam, Vram, HBlank, Line} : gpu_next' = cnt' + Scaled(p)
      BY <2>3
    <3>2. Period(p) /\ p \in Nat /\ p <= Line /\ Line \in Nat
      BY LinePeriods DEF Period
    <3>3. /\ Period(Scaled(p)) /\ Scaled(p) \in Nat /\ Scaled(p) <= 2 * p
      BY <3>2, ScaledPeriod
    <3>4. /\ cnt' + Scaled(p) \in Nat /\ cnt' + Scaled(p) > cnt'
          /\ (cnt' + Scaled(p)) % 4 = 0
      BY <1>1, <3>3, PeriodAhead
    <3> QED
      BY <1>1, <3>1, <3>2, <3>3, <3>4 DEF Ahead
  <2>5. /\ ly' \in 0 .. Lines - 1 /\ mode' \in 0 .. 3
        /\ (mode' = 1) <=> (ly' >= Visible)
    <3>1. mode \in 0 .. 3 /\ ly \in 0 .. Lines - 1 /\ (mode = 1 <=> ly >= Visible)
      BY DEF PictureOk, ModeOfLine
    <3>2. CASE LeaveHBlank
      BY <1>4, <3>1, <3>2 DEF LeaveHBlank, LastLine
    <3>3. CASE VBlankLine
      BY <1>4, <3>1, <3>3 DEF VBlankLine
    <3>4. CASE LeaveOam
      BY <1>4, <3>1, <3>4 DEF LeaveOam
    <3>5. CASE LeaveVram
      BY <1>4, <3>1, <3>5 DEF LeaveVram
    <3> QED
      BY <2>2, <3>2, <3>3, <3>4, <3>5 DEF GpuStep
  <2>6. coincidence' \in BOOLEAN
    BY <2>2 DEF GpuStep, LeaveHBlank, VBlankLine, LeaveOam, LeaveVram, LyChanged,
       PictureOk
  <2> QED
    BY <1>2, <2>1, <2>4, <2>5, <2>6 DEF PictureOk, ModeOfLine
<1> QED
  BY <1>5, <1>6

\* The HBLANK transfer: a copy at the end of HBLANK is the line's first.
LEMMA TickHdma ==
  ASSUME PictureOk, HdmaOk, cycles_step
  PROVE  HdmaOk'
<1>1. CASE mode = 0 /\ LeaveHBlank
  <2>1. hdma_left' \in 0 .. 128 /\ hdma_line' \in 0 .. Lines - 1
    BY <1>1 DEF LeaveHBlank, cycles_hdma, HdmaDue, HdmaOk, PictureOk
  <2>2. hdma_mode' \in BOOLEAN /\ served' = FALSE
    BY <1>1 DEF LeaveHBlank, HdmaOk
  <2>3. twice' = FALSE
    BY <1>1 DEF LeaveHBlank, cycles_hdma, HdmaDue, HdmaOk
  <2> QED
    BY <2>1, <2>2, <2>3 DEF HdmaOk
<1>2. CASE /\ UNCHANGED hdma
           /\ (mode # 0 \/ UNCHANGED <<mode, ly>>)
  BY <1>2 DEF hdma, HdmaOk
<1>3. (mode = 0 /\ LeaveHBlank)
      \/ (UNCHANGED hdma /\ (mode # 0 \/ UNCHANGED <<mode, ly>>))
  <2>1. CASE GpuStep
    <3>1. CASE LeaveHBlank
      BY <3>1 DEF LeaveHBlank
    <3>2. CASE VBlankLine
      BY <3>2 DEF VBlankLine
    <3>3. CASE LeaveOam
      BY <3>3 DEF LeaveOam
    <3>4. CASE LeaveVram
      BY <3>4 DEF LeaveVram
    <3> QED
      BY <2>1, <3>1, <3>2, <3>3, <3>4 DEF GpuStep
  <2>2. CASE UNCHANGED <<stat, hdma>>
    BY <2>2 DEF stat
  <2> QED
    BY <2>1, <2>2 DEF cycles_step, GpuTick
<1> QED
  BY <1>1, <1>2, <1>3

\* A transfer's deadline stays ahead until it comes, which ends the transfer.
LEMMA TickSerial ==
  ASSUME OnGrid, SerialOk, cycles_step
  PROVE  SerialOk'
<1>1. cnt' = cnt + 4 /\ cnt' \in Nat
  BY DEF cycles_step, ClockTick, OnGrid
<1>2. dma_next' \in Nat
  BY DEF cycles_step, DmaTick, SerialOk
<1>3. CASE serial_next = cnt'
  <2>1. serial_next' = cnt + 3 /\ serial_next' \in Nat
    BY <1>1, <1>3 DEF cycles_step, SerialTick, OnGrid
  <2>2. sc_start' = FALSE /\ sc_clock' = sc_clock
    BY <1>3 DEF cycles_step, SerialTick
  <2> QED
    BY <1>2, <2>1, <2>2 DEF SerialOk
<1>4. CASE serial_next # cnt'
  BY <1>1, <1>2, <1>4 DEF cycles_step, SerialTick, SerialOk, OnGrid, Ahead
<1> QED
  BY <1>3, <1>4

\* A step of the clock keeps what every device asks.
LEMMA TickIInv == IInv /\ cycles_step => IInv'
<1> SUFFICES ASSUME IInv, cycles_step PROVE IInv'
  OBVIOUS
<1>1. saved' = saved
  BY DEF cycles_step
<1>2. SavedOk'
  BY <1>1 DEF IInv, SavedOk
<1> QED
  BY <1>2, TickClock, TickTimer, TickPicture, TickHdma, TickSerial DEF IInv

-----------------------------------------------------------------------------
\* The writes of the game: an access ends, the count stands still.
LEMMA AccessOnGrid ==
  ASSUME OnGrid, Access, UNCHANGED cnt
  PROVE  OnGrid' /\ cnt > 0 /\ UNCHANGED <<saved, restores>>
BY DEF OnGrid, Access

\* FF04 to FF07: a timer switched on gets a deadline one whole period away.
LEMMA TimerWriteIInv == IInv /\ TimerWrite => IInv'
<1> SUFFICES ASSUME IInv, TimerWrite PROVE IInv'
  OBVIOUS
<1> USE DEF IInv
<1>1. UNCHANGED <<clock, gpu, hdma, dma_next, serial>> /\ Access
  BY DEF TimerWrite
<1>2. UNCHANGED <<cnt, double, pace, next, hs_next>>
  BY <1>1 DEF clock
<1>3. OnGrid' /\ cnt > 0 /\ UNCHANGED <<saved, restores>>
  BY <1>1, <1>2, AccessOnGrid
<1>4. ClockOk'
  BY <1>2 DEF ClockOk, Ahead
<1>5. PictureOk' /\ HdmaOk'
  BY <1>1, <1>2 DEF gpu, stat, regs, frame, hdma, PictureOk, HdmaOk, ModeOfLine,
     Ahead
<1>6. SerialOk'
  BY <1>1, <1>2 DEF serial, SerialOk, Ahead
<1>7. SavedOk'
  BY <1>3 DEF SavedOk
<1>8. TimerOk'
  <2>1. CASE WriteDiv
    BY <1>2, <1>3, <2>1 DEF WriteDiv, TimerOk, TimerAheadHere, Ahead
  <2>2. CASE \E v \in Bytes : WriteTima(v) \/ WriteTma(v)
    <3>1. PICK v \in Bytes : WriteTima(v) \/ WriteTma(v)
      BY <2>2
    <3>2. v \in 0 .. 255
      BY TimerAssumption DEF TimerAssumption
    <3> QED
      BY <1>2, <1>3, <3>1, <3>2 DEF WriteTima, WriteTma, TimerOk,
         TimerAheadHere, Ahead
  <2>3. ASSUME NEW on \in BOOLEAN, NEW speed \in 0 .. 3, WriteTac(on, speed)
        PROVE  TimerOk'
    <3>1. Period(Threshold[speed]) /\ Threshold[speed] \in Nat
      BY TimerAssumption DEF TimerAssumption
    <3>2. /\ cnt \in Nat /\ cnt % 4 = 0
          /\ cnt + Threshold[speed] \in Nat /\ cnt + Threshold[speed] > cnt
          /\ (cnt + Threshold[speed]) % 4 = 0
      BY <3>1, PeriodAhead DEF OnGrid
    <3>3. /\ threshold' = Threshold[speed] /\ active' = on
          /\ UNCHANGED <<div, tima, tma, timer_next>>
          /\ sub_next' = IF on THEN cnt + Threshold[speed] ELSE sub_next
      BY <2>3 DEF WriteTac
    <3>4. sub_next' \in Nat
      BY <3>2, <3>3 DEF TimerOk
    <3>5. active' => Ahead(sub_next)' /\ sub_next' <= cnt' + threshold'
      BY <1>2, <3>1, <3>2, <3>3 DEF Ahead
    <3>6. restores' = 0 => Ahead(timer_next)' /\ timer_next' <= cnt' + DivPeriod
      BY <1>2, <1>3, <3>3 DEF TimerOk, TimerAheadHere, Ahead
    <3> QED
      BY <1>3, <3>1, <3>3, <3>4, <3>5, <3>6 DEF TimerOk, TimerAheadHere
  <2> QED
    BY <2>1, <2>2, <2>3 DEF TimerWrite
<1> QED
  BY <1>3, <1>4, <1>5, <1>6, <1>7, <1>8

\* What a write that leaves the clock and the timer alone keeps.
LEMMA TimerKept ==
  ASSUME TimerOk, UNCHANGED timer, UNCHANGED <<cnt, restores>>
  PROVE  TimerOk'
BY DEF timer, TimerOk, TimerAheadHere, Ahead

\* LCDC, STAT, LYC and the HBLANK transfer: an LCD switched on gets a deadline,
\* one switched off leaves the grid of the deadlines for good.
LEMMA PpuWriteIInv == IInv /\ PpuWrite => IInv'
<1> SUFFICES ASSUME IInv, PpuWrite PROVE IInv'
  OBVIOUS
<1> USE DEF IInv
<1>1. UNCHANGED <<clock, timer, dma_next, serial>> /\ Access
  BY DEF PpuWrite
<1>2. UNCHANGED <<cnt, double, pace, next, hs_next>>
  BY <1>1 DEF clock
<1>3. OnGrid' /\ cnt > 0 /\ UNCHANGED <<saved, restores>>
  BY <1>1, <1>2, AccessOnGrid
<1>4. ClockOk'
  BY <1>2 DEF ClockOk, Ahead
<1>5. TimerOk'
  BY <1>1, <1>2, <1>3, TimerKept
<1>6. SerialOk'
  BY <1>1, <1>2 DEF serial, SerialOk, Ahead
<1>7. SavedOk'
  BY <1>3 DEF SavedOk
<1>8. ASSUME NEW on \in BOOLEAN, WriteLcdc(on)
      PROVE  PictureOk' /\ HdmaOk'
  <2>1. /\ lcd_on' = on /\ mode' = 0 /\ ly' = 0 /\ served' = FALSE
        /\ UNCHANGED <<ir_modes, ir_lyc, lyc, hdma_left, hdma_mode, hdma_line, twice>>
    BY <1>8 DEF WriteLcdc
  <2>2. coincidence' \in BOOLEAN
    BY <1>8 DEF WriteLcdc, PictureOk
  <2>3. Visible \in Nat /\ Lines \in Nat /\ 1 < Visible /\ 0 \in 0 .. Lines - 1
    BY PpuAssumption DEF PpuAssumption
  <2>4. /\ cnt \in Nat /\ cnt > 0 /\ cnt % 4 = 0
        /\ cnt - 1 \in Nat /\ (cnt - 1) % 4 # 0
    BY <1>3 DEF OnGrid
  <2>5. /\ cnt + Scaled(Line) \in Nat /\ cnt + Scaled(Line) > cnt
        /\ (cnt + Scaled(Line)) % 4 = 0 /\ Scaled(Line) <= 2 * Line
    BY <2>4, LinePeriods, ScaledPeriod, PeriodAhead
  <2>6. gpu_next' = IF on THEN cnt + Scaled(Line) ELSE cnt - 1
    BY <1>8 DEF WriteLcdc
  <2>7. /\ gpu_next' \in Nat
        /\ on => Ahead(gpu_next)' /\ gpu_next' <= cnt' + 2 * Line
        /\ ~on => gpu_next' % 4 # 0
    <3>1. Scaled(Line) \in Nat /\ Line \in Nat
      BY LinePeriods, ScaledPeriod DEF Period
    <3> QED
      BY <1>2, <2>4, <2>5, <2>6, <3>1 DEF Ahead
  <2>8. PictureOk'
    <3>1. /\ mode' \in 0 .. 3 /\ ly' \in 0 .. Lines - 1
          /\ ir_modes' \in SUBSET (0 .. 2) /\ lyc' \in 0 .. 255
      BY <2>1, <2>3 DEF PictureOk
    <3>2. lcd_on' \in BOOLEAN /\ ir_lyc' \in BOOLEAN
      BY Zenon, <2>1 DEF PictureOk
    <3>3. /\ lcd_on' => Ahead(gpu_next)' /\ gpu_next' <= cnt' + 2 * Line
          /\ ~lcd_on' => gpu_next' % 4 # 0
      BY <2>1, <2>7
    <3>4. ModeOfLine'
      BY <2>1, <2>3 DEF ModeOfLine
    <3> QED
      BY <2>2, <2>7, <3>1, <3>2, <3>3, <3>4 DEF PictureOk
  <2> QED
    BY <2>1, <2>8 DEF HdmaOk
<1>9. ASSUME NEW w \in StatWrites, WriteStat(w)
      PROVE  PictureOk' /\ HdmaOk'
  <2>1. w.modes \in SUBSET (0 .. 2) /\ w.lyc \in BOOLEAN
    BY PpuAssumption DEF PpuAssumption
  <2> QED
    BY <1>2, <1>9, <2>1 DEF WriteStat, stat, frame, hdma, PictureOk, HdmaOk,
       ModeOfLine, Ahead
<1>10. ASSUME NEW l \in LycWrites, WriteLyc(l)
       PROVE  PictureOk' /\ HdmaOk'
  <2>1. l \in 0 .. 255
    BY PpuAssumption DEF PpuAssumption
  <2> QED
    BY <1>2, <1>10, <2>1 DEF WriteLyc, stat, frame, hdma, PictureOk, HdmaOk,
       ModeOfLine, Ahead
<1>11. ASSUME NEW hblank \in BOOLEAN, NEW n \in Blocks, WriteHdma(hblank, n)
       PROVE  PictureOk' /\ HdmaOk'
  <2>1. PictureOk'
    BY <1>2, <1>11 DEF WriteHdma, gpu, stat, regs, PictureOk, ModeOfLine, Ahead
  <2>2. n \in 1 .. 128
    BY MachineAssumption DEF MachineAssumption
  <2>3. UNCHANGED <<mode, ly>>
    BY <1>11 DEF WriteHdma, gpu, stat
  <2>4. CASE ~hblank
    <3>1. /\ hdma_left' = 0 /\ hdma_mode' = FALSE
          /\ UNCHANGED <<hdma_line, served, twice>>
      BY <1>11, <2>4 DEF WriteHdma
    <3>2. hdma_left' \in 0 .. 128 /\ hdma_line' \in 0 .. Lines - 1
      BY <3>1 DEF HdmaOk
    <3>3. /\ hdma_mode' \in BOOLEAN /\ served' \in BOOLEAN /\ twice' = FALSE
          /\ served' => mode' = 0 /\ hdma_line' = ly'
      BY Zenon, <2>3, <3>1 DEF HdmaOk
    <3> QED
      BY <2>1, <3>2, <3>3 DEF HdmaOk
  <2>5. CASE hblank /\ HdmaDue(n, TRUE)
    <3>1. /\ hdma_left' = n - 1 /\ hdma_line' = ly /\ hdma_mode' = TRUE
          /\ mode = 0 /\ hdma_line # ly
      BY <1>11, <2>5 DEF WriteHdma, cycles_hdma, HdmaDue
    <3>2. served' = TRUE
      BY <1>11, <2>5 DEF WriteHdma
    <3>3. twice' = FALSE
      <4>1. twice' = (twice \/ served)
        BY <1>11, <2>5 DEF WriteHdma, cycles_hdma
      <4>2. served = FALSE /\ twice = FALSE
        BY <3>1 DEF HdmaOk
      <4> QED
        BY <4>1, <4>2
    <3>4. hdma_left' \in 0 .. 128 /\ hdma_line' \in 0 .. Lines - 1
      BY <2>2, <3>1 DEF PictureOk
    <3>5. /\ hdma_mode' \in BOOLEAN /\ served' \in BOOLEAN
          /\ served' => mode' = 0 /\ hdma_line' = ly'
      BY <2>3, <3>1, <3>2
    <3> QED
      BY <2>1, <3>3, <3>4, <3>5 DEF HdmaOk
  <2>6. CASE hblank /\ ~HdmaDue(n, TRUE)
    <3>1. /\ hdma_left' = n /\ hdma_mode' = TRUE
          /\ UNCHANGED <<hdma_line, twice>>
      BY <1>11, <2>6 DEF WriteHdma, cycles_hdma
    <3>2. served' = served
      BY <1>11, <2>6 DEF WriteHdma, HdmaOk
    <3> QED
      BY <2>1, <2>2, <2>3, <3>1, <3>2 DEF HdmaOk
  <2> QED
    BY <2>1, <2>4, <2>5, <2>6
<1> QED
  BY <1>3, <1>4, <1>5, <1>6, <1>7, <1>8, <1>9, <1>10, <1>11 DEF PpuWrite

\* Writes that touch neither the timer nor the picture.
LEMMA OtherWriteIInv == IInv /\ (DmaWrite \/ ScWrite \/ SpeedWrite) => IInv'
<1> SUFFICES ASSUME IInv, DmaWrite \/ ScWrite \/ SpeedWrite PROVE IInv'
  OBVIOUS
<1> USE DEF IInv
<1>1. /\ UNCHANGED <<cnt, pace, next, hs_next, timer>> /\ Access
      /\ double' \in BOOLEAN
  BY DEF DmaWrite, ScWrite, SpeedWrite, clock, cycles_set_speed, ClockOk
<1>2. OnGrid' /\ cnt > 0 /\ UNCHANGED <<saved, restores>>
  BY <1>1, AccessOnGrid
<1>3. ClockOk'
  BY <1>1 DEF ClockOk, Ahead
<1>4. TimerOk'
  BY <1>1, <1>2, TimerKept
<1>5. UNCHANGED <<stat, regs, gpu_next, hdma>>
  BY DEF DmaWrite, ScWrite, SpeedWrite, PpuSpeed, gpu
<1>6. PictureOk' /\ HdmaOk'
  BY <1>1, <1>5 DEF stat, regs, hdma, PictureOk, HdmaOk, ModeOfLine, Ahead
<1>7. SavedOk'
  BY <1>2 DEF SavedOk
<1>8. SerialOk'
  <2>1. CASE DmaWrite
    BY <1>1, <2>1 DEF DmaWrite, serial, SerialOk, OnGrid, Ahead
  <2>2. CASE SpeedWrite
    BY <1>1, <2>2 DEF SpeedWrite, serial, SerialOk, Ahead
  <2>3. CASE ScWrite
    <3>1. PICK start \in BOOLEAN, own \in BOOLEAN, fast \in BOOLEAN :
            /\ sc_start' = start /\ sc_clock' = own
            /\ serial_next' = IF start /\ own
                              THEN cnt + (IF fast THEN FastByte ELSE SlowByte)
                              ELSE serial_next
      BY <2>3 DEF ScWrite
    <3>2. Period(IF fast THEN FastByte ELSE SlowByte)
      BY MachineAssumption DEF MachineAssumption
    <3>3. DEFINE due == cnt + (IF fast THEN FastByte ELSE SlowByte)
    <3>4. due \in Nat /\ due > cnt /\ due % 4 = 0
      BY <3>2, PeriodAhead DEF OnGrid
    <3>5. dma_next' = dma_next /\ cnt' = cnt
      BY <1>1, <2>3 DEF ScWrite
    <3>6. CASE start /\ own
      <4>1. serial_next' = due
        BY <3>1, <3>6
      <4> HIDE DEF due
      <4> QED
        BY <3>1, <3>4, <3>5, <4>1 DEF SerialOk, Ahead
    <3>7. CASE ~(start /\ own)
      BY <3>1, <3>5, <3>7 DEF SerialOk
    <3> QED
      BY <3>6, <3>7
  <2> QED
    BY <2>1, <2>2, <2>3
<1> QED
  BY <1>2, <1>3, <1>4, <1>6, <1>7, <1>8

-----------------------------------------------------------------------------
\* The user: another speed, a saved state, a restored one, a new start.

\* Another emulation speed is another period of the pause, from the next one on.
LEMMA SpeedKeyIInv == IInv /\ SpeedKey => IInv'
<1> SUFFICES ASSUME IInv, SpeedKey PROVE IInv'
  OBVIOUS
<1> USE DEF IInv
<1>1. /\ UNCHANGED <<cnt, double, next, hs_next, timer, gpu, hdma, access>>
      /\ UNCHANGED <<dma_next, serial, saved, restores>>
      /\ pace' \in Paces
  BY DEF SpeedKey, cycles_change_emulation_speed
<1>2. OnGrid' /\ ClockOk'
  BY <1>1 DEF OnGrid, ClockOk, Ahead
<1>3. TimerOk'
  BY <1>1, TimerKept
<1>4. PictureOk' /\ HdmaOk'
  BY <1>1 DEF gpu, stat, regs, hdma, PictureOk, HdmaOk, ModeOfLine, Ahead
<1>5. SerialOk' /\ SavedOk'
  BY <1>1 DEF serial, SerialOk, SavedOk, Ahead
<1> QED
  BY <1>2, <1>3, <1>4, <1>5

\* A state file written now fulfils what was true of the machine.
LEMMA SaveIInv == IInv /\ SaveStat => IInv'
<1> SUFFICES ASSUME IInv, SaveStat PROVE IInv'
  OBVIOUS
<1> USE DEF IInv
<1>1. UNCHANGED <<clock, timer, gpu, hdma, access, dma_next, serial, restores>>
  BY DEF SaveStat, budget
<1>2. OnGrid' /\ ClockOk'
  BY <1>1 DEF clock, OnGrid, ClockOk, Ahead
<1>3. TimerOk'
  BY <1>1, TimerKept DEF clock
<1>4. PictureOk' /\ HdmaOk'
  BY <1>1 DEF clock, gpu, stat, regs, hdma, PictureOk, HdmaOk, ModeOfLine, Ahead
<1>5. SerialOk'
  BY <1>1 DEF clock, serial, SerialOk, Ahead
<1>6. SavedOk'
  <2>1. saved' = {Stat}
    BY DEF SaveStat
  <2> DEFINE s == Stat
  <2>2. /\ s.cnt = cnt /\ s.next = next /\ s.hs_next = hs_next
        /\ s.lcd_on = lcd_on /\ s.mode = mode /\ s.coincidence = coincidence
        /\ s.ir_modes = ir_modes /\ s.ir_lyc = ir_lyc
        /\ s.ly = ly /\ s.lyc = lyc /\ s.gpu_next = gpu_next
        /\ s.hdma_left = hdma_left /\ s.hdma_mode = hdma_mode
        /\ s.hdma_line = hdma_line /\ s.served = served
        /\ s.dma_next = dma_next /\ s.serial_next = serial_next
        /\ s.sc_start = sc_start /\ s.sc_clock = sc_clock
    BY DEF Stat
  <2> HIDE DEF s
  <2>3. /\ s.cnt \in Nat /\ s.cnt % 4 = 0
        /\ s.next \in Nat /\ s.next > s.cnt /\ s.next % 4 = 0
        /\ s.hs_next \in Nat /\ s.hs_next > s.cnt /\ s.hs_next % 4 = 0
    BY <2>2 DEF OnGrid, ClockOk, Ahead
  <2>4. /\ s.lcd_on \in BOOLEAN /\ s.coincidence \in BOOLEAN
        /\ s.ir_lyc \in BOOLEAN /\ s.hdma_mode \in BOOLEAN
        /\ s.served \in BOOLEAN
        /\ s.sc_start \in BOOLEAN /\ s.sc_clock \in BOOLEAN
    BY Zenon, <2>2 DEF PictureOk, HdmaOk, SerialOk
  <2>5. /\ s.mode \in 0 .. 3 /\ s.ir_modes \in SUBSET (0 .. 2)
        /\ s.ly \in 0 .. Lines - 1 /\ s.lyc \in 0 .. 255 /\ s.gpu_next \in Nat
        /\ (s.mode = 1) <=> (s.ly >= Visible)
    BY <2>2 DEF PictureOk, ModeOfLine
  <2>6. /\ s.lcd_on => /\ s.gpu_next > s.cnt /\ s.gpu_next % 4 = 0
                       /\ s.gpu_next <= s.cnt + 2 * Line
        /\ ~s.lcd_on => s.gpu_next % 4 # 0 /\ s.mode = 0 /\ s.ly = 0
    BY <2>2 DEF PictureOk, ModeOfLine, Ahead
  <2>7. /\ s.hdma_left \in 0 .. 128 /\ s.hdma_line \in 0 .. Lines - 1
        /\ s.served => s.mode = 0 /\ s.hdma_line = s.ly
        /\ s.dma_next \in Nat /\ s.serial_next \in Nat
    BY <2>2 DEF HdmaOk, SerialOk
  <2>8. s.sc_start /\ s.sc_clock
          => s.serial_next > s.cnt /\ s.serial_next % 4 = 0
    BY <2>2 DEF SerialOk, Ahead
  <2>9. FileOk(s)
    BY <2>3, <2>4, <2>5, <2>6, <2>7, <2>8 DEF FileOk
  <2> QED
    BY <2>1, <2>9 DEF SavedOk, s
<1> QED
  BY <1>2, <1>3, <1>4, <1>5, <1>6

\* Whatever the machine was doing, a restored state brings its own deadlines
\* and its own count.
LEMMA RestoreIInv == IInv /\ RestoreStat => IInv'
<1> SUFFICES ASSUME IInv, RestoreStat PROVE IInv'
  OBVIOUS
<1> USE DEF IInv
<1>1. PICK s \in saved :
       /\ cnt' = s.cnt /\ next' = s.next /\ hs_next' = s.hs_next
       /\ lcd_on' = s.lcd_on /\ ir_modes' = s.ir_modes /\ ir_lyc' = s.ir_lyc
       /\ lyc' = s.lyc /\ mode' = s.mode /\ coincidence' = s.coincidence
       /\ ly' = s.ly /\ gpu_next' = s.gpu_next
       /\ hdma_left' = s.hdma_left /\ hdma_mode' = s.hdma_mode
       /\ hdma_line' = s.hdma_line /\ dma_next' = s.dma_next
       /\ sc_start' = s.sc_start /\ sc_clock' = s.sc_clock
       /\ serial_next' = s.serial_next
       /\ served' = s.served
  BY DEF RestoreStat
<1>2. /\ access' = FALSE /\ restores' = restores + 1
      /\ UNCHANGED <<timer, double, pace, saved, twice>>
  BY DEF RestoreStat
<1>3. OnGrid' /\ ClockOk'
  <2>1. FileOk(s)
    BY DEF SavedOk
  <2>2. /\ cnt' \in Nat /\ cnt' % 4 = 0
        /\ next' \in Nat /\ next' > cnt' /\ next' % 4 = 0
        /\ hs_next' \in Nat /\ hs_next' > cnt' /\ hs_next' % 4 = 0
    BY <1>1, <2>1, Zenon DEF FileOk
  <2>3. double' \in BOOLEAN /\ pace' \in Paces
    BY <1>2 DEF ClockOk
  <2> QED
    BY <1>2, <2>2, <2>3 DEF OnGrid, ClockOk, Ahead
<1>4. TimerOk'
  BY <1>2 DEF timer, TimerOk
<1>5. PictureOk'
  BY <1>1 DEF SavedOk, FileOk, PictureOk, ModeOfLine, Ahead
<1>6. HdmaOk'
  BY <1>1, <1>2 DEF SavedOk, FileOk, HdmaOk
<1>7. SerialOk'
  BY <1>1 DEF SavedOk, FileOk, SerialOk, Ahead
<1>8. SavedOk'
  BY <1>2 DEF SavedOk
<1> QED
  BY <1>3, <1>4, <1>5, <1>6, <1>7, <1>8

\* The start of the program.
LEMMA InitIInv == Init => IInv
<1> SUFFICES ASSUME Init PROVE IInv
  OBVIOUS
<1> USE DEF Init, Boot, ClockInit, TimerInit, PpuInit
<1>1. OnGrid /\ cnt = 0
  <2>1. cnt = 0 /\ 0 % 4 = 0
    OBVIOUS
  <2>2. access \in BOOLEAN /\ ~access
    BY Zenon
  <2> QED
    BY <2>1, <2>2 DEF OnGrid
<1>2. ClockOk
  BY ClockAssumption DEF ClockAssumption, ClockOk, Ahead, Period
<1>3. TimerOk
  <2>1. /\ div = 0 /\ tima = 0 /\ tma = 0 /\ threshold = 0
        /\ timer_next = DivPeriod /\ sub_next = 0 /\ restores \in Nat
    BY DEF Init
  <2>2. active \in BOOLEAN /\ ~active
    BY Zenon
  <2>3. DivPeriod \in Nat /\ DivPeriod > 0 /\ DivPeriod % 4 = 0
    BY TimerAssumption DEF TimerAssumption, Period
  <2>4. TimerAheadHere
    BY <1>1, <2>1, <2>2, <2>3 DEF TimerAheadHere, Ahead
  <2> QED
    BY <2>1, <2>2, <2>3, <2>4 DEF TimerOk
<1>4. /\ mode = 0 /\ ly = 0 /\ lyc = 0 /\ gpu_next = Line /\ ir_modes = {}
      /\ hdma_left = 0 /\ hdma_line = 0
  OBVIOUS
<1>5. /\ lcd_on \in BOOLEAN /\ lcd_on
      /\ coincidence \in BOOLEAN /\ ir_lyc \in BOOLEAN
      /\ hdma_mode \in BOOLEAN /\ served \in BOOLEAN /\ ~served
      /\ twice = FALSE
  BY Zenon
<1>6. /\ Lines \in Nat /\ Visible \in Nat /\ 1 < Visible /\ Visible < Lines
      /\ Line \in Nat /\ Line > 0 /\ Line % 4 = 0
  BY PpuAssumption, LinePeriods DEF PpuAssumption, Period
<1>7. PictureOk
  BY <1>1, <1>4, <1>5, <1>6 DEF PictureOk, ModeOfLine, Ahead
<1>8. HdmaOk
  BY <1>4, <1>5, <1>6 DEF HdmaOk
<1>9. SerialOk /\ SavedOk
  BY DEF SerialOk, SavedOk
<1> QED
  BY <1>1, <1>2, <1>3, <1>7, <1>8, <1>9 DEF IInv

\* Started again, the program finds the machine as at its first start, and the
\* state file as it left it.
LEMMA RestartIInv == IInv /\ Restart => IInv'
<1> SUFFICES ASSUME IInv, Restart PROVE IInv'
  OBVIOUS
<1> USE DEF Restart
<1>1. OnGrid' /\ cnt' = 0
  <2>1. cnt' = 0 /\ 0 % 4 = 0
    OBVIOUS
  <2>2. access' \in BOOLEAN /\ ~access'
    BY Zenon
  <2> QED
    BY <2>1, <2>2 DEF OnGrid
<1>2. ClockOk'
  BY ClockAssumption DEF ClockAssumption, ClockOk, Ahead, Period
<1>3. TimerOk'
  <2>1. /\ div' = 0 /\ tima' = 0 /\ tma' = 0 /\ threshold' = 0
        /\ timer_next' = DivPeriod /\ sub_next' = 0 /\ restores' \in Nat
    BY DEF IInv, TimerOk, budget
  <2>2. active' \in BOOLEAN /\ ~active'
    BY Zenon
  <2>3. DivPeriod \in Nat /\ DivPeriod > 0 /\ DivPeriod % 4 = 0
    BY TimerAssumption DEF TimerAssumption, Period
  <2>4. TimerAheadHere'
    BY <1>1, <2>1, <2>2, <2>3 DEF TimerAheadHere, Ahead
  <2> QED
    BY <2>1, <2>2, <2>3, <2>4 DEF TimerOk
<1>4. /\ mode' = 0 /\ ly' = 0 /\ lyc' = 0 /\ gpu_next' = Line /\ ir_modes' = {}
      /\ hdma_left' = 0 /\ hdma_line' = 0
  OBVIOUS
<1>5. /\ lcd_on' \in BOOLEAN /\ lcd_on'
      /\ coincidence' \in BOOLEAN /\ ir_lyc' \in BOOLEAN
      /\ hdma_mode' \in BOOLEAN /\ served' \in BOOLEAN /\ ~served'
      /\ twice' = FALSE
  BY Zenon DEF IInv, HdmaOk
<1>6. /\ Lines \in Nat /\ Visible \in Nat /\ 1 < Visible /\ Visible < Lines
      /\ Line \in Nat /\ Line > 0 /\ Line % 4 = 0
  BY PpuAssumption, LinePeriods DEF PpuAssumption, Period
<1>7. PictureOk'
  BY <1>1, <1>4, <1>5, <1>6 DEF PictureOk, ModeOfLine, Ahead
<1>8. HdmaOk'
  BY <1>4, <1>5, <1>6 DEF HdmaOk
<1>9. SerialOk' /\ SavedOk'
  BY DEF SerialOk, SavedOk, IInv
<1> QED
  BY <1>1, <1>2, <1>3, <1>7, <1>8, <1>9 DEF IInv

\* What the actions keep is always so.
LEMMA IInvAlways == Spec => []IInv
<1>1. IInv /\ UNCHANGED vars => IInv'
  BY DEF vars, clock, timer, gpu, stat, regs, hdma, irqs, serial, budget,
     IInv, OnGrid, ClockOk, TimerOk, TimerAheadHere, PictureOk, ModeOfLine,
     HdmaOk, SerialOk, SavedOk, FileOk, Ahead
<1>2. IInv /\ [Next]_vars => IInv'
  BY <1>1, TickIInv, TimerWriteIInv, PpuWriteIInv, OtherWriteIInv,
     SpeedKeyIInv, SaveIInv, RestoreIInv, RestartIInv DEF Next
<1> QED
  BY InitIInv, <1>2, PTL DEF Spec

-----------------------------------------------------------------------------
\* Every variable keeps its type (TypeOK): TIMA stays a byte and LY a line of
\* the picture, for every length of the periods (timer.c, gpu.c, cycles.c).
THEOREM Typing == Spec => []TypeOK
<1>1. IInv => TypeOK
  BY DEF IInv, OnGrid, ClockOk, TimerOk, PictureOk, HdmaOk, SerialOk, TypeOK
<1> QED
  BY IInvAlways, <1>1, PTL

\* The pause, the hard sync, the picture and a running transfer always have a
\* deadline that cycles_step will meet, restored states included.
THEOREM NothingMissed == Spec => []DeadlinesAhead
<1>1. IInv => DeadlinesAhead
  BY DEF IInv, ClockOk, PictureOk, SerialOk, DeadlinesAhead
<1> QED
  BY IInvAlways, <1>1, PTL

\* The divider and a timer that is on have one too until a state is restored.
THEOREM TimerNotMissed == Spec => []TimerAhead
<1>1. IInv => TimerAhead
  BY DEF IInv, TimerOk, TimerAhead
<1> QED
  BY IInvAlways, <1>1, PTL

\* VBLANK is outside the screen, the other modes inside it (gpu_step).
THEOREM ModesInStep == Spec => []ModeOfLine
<1>1. IInv => ModeOfLine
  BY DEF IInv, PictureOk
<1> QED
  BY IInvAlways, <1>1, PTL

\* An HBLANK transfer copies at most one block in a line (cycles_hdma).
THEOREM OneBlock == Spec => []OneBlockPerLine
<1>1. IInv => OneBlockPerLine
  BY DEF IInv, HdmaOk, OneBlockPerLine
<1> QED
  BY IInvAlways, <1>1, PTL

-----------------------------------------------------------------------------
(* Frames: which lines are drawn when.                                     *)

\* The lines of a frame drawn by mode m of line l; the first frame after the LCD
\* was turned on starts with line 1.
FirstLine(f) == IF f THEN 1 ELSE 0
DrawnBy(m, l, f) ==
  IF m = 1 THEN {} ELSE FirstLine(f) .. (IF m = 0 THEN l ELSE l - 1)

FrameOk(m, l, d, f) ==
  /\ f \in BOOLEAN /\ d = DrawnBy(m, l, f)
  /\ m = 1 => ~f
  /\ m \in {2, 3} /\ f => l >= 1

FrameInv ==
  /\ FrameOk(mode, ly, drawn, first)
  /\ \A s \in saved : FrameOk(s.mode, s.ly, s.frame[1], s.frame[2])

\* What a step can do to the frame: count on, start again, save or restore.
FrameStep ==
  /\ UNCHANGED saved
  /\ \/ UNCHANGED <<mode, ly, drawn, first>>
     \/ cycles_step /\ GpuStep
     \/ mode' = 0 /\ ly' = 0 /\ drawn' = {} /\ first' = TRUE
     \/ \E s \in saved : /\ mode' = s.mode /\ ly' = s.ly
                         /\ drawn' = s.frame[1] /\ first' = s.frame[2]

\* No other step than these touches the frame.
LEMMA FrameSteps ==
  ASSUME [Next]_vars
  PROVE  FrameStep \/ SaveStat
<1>1. CASE cycles_step
  BY <1>1 DEF cycles_step, GpuTick, stat, FrameStep
<1>2. CASE PpuWrite
  <2>1. UNCHANGED saved
    BY <1>2 DEF PpuWrite, Access
  <2>2. ASSUME NEW on \in BOOLEAN, WriteLcdc(on) PROVE FrameStep
    BY <2>1, <2>2 DEF WriteLcdc, FrameStep
  <2>3. ASSUME NEW w \in StatWrites, WriteStat(w) PROVE FrameStep
    BY <2>1, <2>3 DEF WriteStat, stat, frame, FrameStep
  <2>4. ASSUME NEW l \in LycWrites, WriteLyc(l) PROVE FrameStep
    BY <2>1, <2>4 DEF WriteLyc, stat, frame, FrameStep
  <2>5. ASSUME NEW h \in BOOLEAN, NEW n \in Blocks, WriteHdma(h, n) PROVE FrameStep
    BY <2>1, <2>5 DEF WriteHdma, gpu, stat, frame, FrameStep
  <2> QED
    BY <1>2, <2>2, <2>3, <2>4, <2>5 DEF PpuWrite
<1>3. CASE TimerWrite \/ DmaWrite \/ ScWrite
  BY <1>3 DEF TimerWrite, DmaWrite, ScWrite, Access, gpu, stat, frame, FrameStep
<1>4. CASE SpeedWrite
  BY <1>4 DEF SpeedWrite, Access, PpuSpeed, stat, FrameStep
<1>5. CASE SpeedKey \/ UNCHANGED vars
  BY <1>5 DEF SpeedKey, vars, gpu, stat, frame, FrameStep
<1>6. CASE RestoreStat
  <2>1. UNCHANGED saved
    BY <1>6 DEF RestoreStat
  <2>2. \E s \in saved : /\ mode' = s.mode /\ ly' = s.ly
                         /\ drawn' = s.frame[1] /\ first' = s.frame[2]
    BY <1>6 DEF RestoreStat
  <2> QED
    BY <2>1, <2>2 DEF FrameStep
<1>7. CASE Restart
  BY <1>7 DEF Restart, FrameStep
<1> QED
  BY <1>1, <1>2, <1>3, <1>4, <1>5, <1>6, <1>7 DEF Next

\* One mode after the other: the lines drawn grow by the one of mode 3, and are
\* none once all are drawn.
LEMMA FrameGoesOn ==
  ASSUME PictureOk, FrameOk(mode, ly, drawn, first), GpuStep
  PROVE  FrameOk(mode, ly, drawn, first)'
<1>1. /\ mode \in 0 .. 3 /\ ly \in Int /\ ly >= 0 /\ first \in BOOLEAN
      /\ Visible \in Nat /\ Lines \in Nat /\ 1 < Visible
      /\ FirstLine(first) \in {0, 1} /\ (first => FirstLine(first) = 1)
  BY PpuAssumption DEF PpuAssumption, PictureOk, FrameOk, FirstLine
<1>2. CASE LeaveHBlank
  <2>1. CASE LastLine
    BY <1>2, <2>1, <1>1 DEF LeaveHBlank, FrameOk, DrawnBy
  <2>2. CASE ~LastLine
    <3>1. /\ mode = 0 /\ mode' = 2 /\ ly' = ly + 1 /\ drawn' = drawn /\ first' = first
      BY <1>2, <2>2 DEF LeaveHBlank
    <3>2. drawn = FirstLine(first) .. ly
      BY <3>1 DEF FrameOk, DrawnBy
    <3>3. drawn' = DrawnBy(2, ly', first')
      BY <1>1, <3>1, <3>2 DEF DrawnBy
    <3> QED
      BY <1>1, <3>1, <3>3 DEF FrameOk
  <2> QED
    BY <2>1, <2>2
<1>3. CASE VBlankLine
  <2>1. mode = 1 /\ drawn' = {} /\ first' = first /\ ~first
    BY <1>3 DEF VBlankLine, FrameOk, DrawnBy
  <2>2. mode' = 1 \/ (mode' = 2 /\ ly' = 0)
    BY <1>3 DEF VBlankLine
  <2>3. DrawnBy(mode', ly', first') = {}
    BY <2>1, <2>2 DEF DrawnBy, FirstLine
  <2> QED
    BY <1>1, <2>1, <2>2, <2>3 DEF FrameOk
<1>4. CASE LeaveOam
  BY <1>4 DEF LeaveOam, FrameOk, DrawnBy
<1>5. CASE LeaveVram
  <2>1. /\ mode = 3 /\ mode' = 0 /\ ly' = ly /\ drawn' = drawn \cup {ly} /\ first' = first
    BY <1>5 DEF LeaveVram
  <2>2. drawn = FirstLine(first) .. ly - 1 /\ FirstLine(first) <= ly
    BY <1>1, <2>1 DEF FrameOk, DrawnBy, FirstLine
  <2>3. drawn' = FirstLine(first) .. ly
    BY <1>1, <2>1, <2>2
  <2> QED
    BY <1>1, <2>1, <2>3 DEF FrameOk, DrawnBy
<1> QED
  BY <1>2, <1>3, <1>4, <1>5 DEF GpuStep

\* Together with the other invariants it is always so.
LEMMA FrameAlways == Spec => [](IInv /\ FrameInv)
<1>1. Init => FrameInv
  BY DEF Init, Boot, PpuInit, FrameInv, FrameOk, DrawnBy, FirstLine
<1>2. IInv /\ FrameInv /\ [Next]_vars => FrameInv'
  <2> SUFFICES ASSUME IInv, FrameInv, [Next]_vars PROVE FrameInv'
    OBVIOUS
  <2>1. CASE SaveStat
    <3>1. /\ saved' = {Stat} /\ UNCHANGED <<mode, ly, drawn, first>>
      BY <2>1 DEF SaveStat, gpu, stat, frame
    <3>2. Stat.mode = mode /\ Stat.ly = ly /\ Stat.frame[1] = drawn /\ Stat.frame[2] = first
      BY DEF Stat, frame
    <3> QED
      BY <3>1, <3>2 DEF FrameInv
  <2>2. CASE FrameStep
    <3>1. CASE UNCHANGED <<mode, ly, drawn, first>>
      BY <2>2, <3>1 DEF FrameStep, FrameInv
    <3>2. CASE GpuStep
      BY <2>2, <3>2, FrameGoesOn DEF FrameStep, FrameInv, IInv
    <3>3. CASE mode' = 0 /\ ly' = 0 /\ drawn' = {} /\ first' = TRUE
      <4>1. FrameOk(0, 0, {}, TRUE)
        BY DEF FrameOk, DrawnBy, FirstLine
      <4> QED
        BY <2>2, <3>3, <4>1 DEF FrameStep, FrameInv
    <3>4. CASE \E s \in saved : /\ mode' = s.mode /\ ly' = s.ly
                                /\ drawn' = s.frame[1] /\ first' = s.frame[2]
      BY <2>2, <3>4 DEF FrameStep, FrameInv
    <3> QED
      BY <2>2, <3>1, <3>2, <3>3, <3>4 DEF FrameStep
  <2> QED
    BY <2>1, <2>2, FrameSteps
<1> QED
  BY <1>1, <1>2, IInvAlways, PTL DEF Spec

\* When VBLANK begins every line of the screen has been drawn once more, but for
\* the first line of the first frame (gpu_step, gpu_toggle).
THEOREM FramesAreWhole == Spec => FrameComplete
<1>1. ASSUME FrameInv, vblank_irq', cycles_step
      PROVE  drawn = (IF first THEN 1 ELSE 0) .. Visible - 1
  <2>1. vblank_irq' # FALSE
    BY <1>1
  <2>2. LeaveHBlank /\ LastLine
    BY <1>1, <2>1 DEF cycles_step, GpuTick, GpuStep, LeaveHBlank, VBlankLine, LeaveOam, LeaveVram
  <2> QED
    BY <1>1, <2>2 DEF LeaveHBlank, LastLine, FrameInv, FrameOk, DrawnBy, FirstLine
<1>2. FrameInv => [vblank_irq' /\ cycles_step
                     => drawn = (IF first THEN 1 ELSE 0) .. Visible - 1]_vars
  BY <1>1
<1> QED
  BY <1>2, FrameAlways, PTL DEF FrameComplete

-----------------------------------------------------------------------------
(* Lines: what the time since the LCD was turned on says.                  *)

\* Products and divisions by a number that is not a literal.
LEMMA OneMore ==
  ASSUME NEW k \in Nat, NEW n \in Nat
  PROVE  k * n \in Nat /\ (k + 1) * n = k * n + n
OBVIOUS

LEMMA Divided ==
  ASSUME NEW x \in Nat, NEW n \in Nat, n > 0
  PROVE  /\ x \div n \in Int /\ x % n \in 0 .. n - 1
         /\ x = (x \div n) * n + (x % n)
OBVIOUS

\* No multiple but 0 is less than n away from 0.
LEMMA NoMultiple ==
  ASSUME NEW d \in Int, NEW n \in Nat, d * n < n, 0 - n < d * n, n > 0
  PROVE  d = 0
<1>1. d >= 1 => d * n >= n
  OBVIOUS
<1>2. d <= 0 - 1 => d * n <= 0 - n
  OBVIOUS
<1> QED
  BY <1>1, <1>2

\* k whole n and a rest.
LEMMA WholeAndRest ==
  ASSUME NEW k \in Nat, NEW n \in Nat, n > 0, NEW r \in 0 .. n - 1
  PROVE  (k * n + r) \div n = k /\ (k * n + r) % n = r
<1>1. PICK x \in Nat : x = k * n + r
  <2>1. k * n \in Nat /\ r \in Nat
    BY OneMore
  <2>2. PICK p \in Nat : p = k * n
    BY <2>1
  <2>3. p + r \in Nat
    BY <2>1
  <2> QED
    BY <2>2, <2>3
<1>2. PICK q \in Int, m \in 0 .. n - 1 : q = x \div n /\ m = x % n /\ x = q * n + m
  BY Divided
<1>3. (q - k) * n = r - m
  BY <1>1, <1>2
<1>4. q - k = 0
  BY <1>3, NoMultiple
<1>5. q = k
  BY <1>4
<1>6. m = r
  BY <1>3, <1>4
<1> QED
  BY <1>1, <1>2, <1>5, <1>6

\* n cycles of the CPU's normal speed, at the speed of dbl.
At(dbl, n) == IF dbl THEN 2 * n ELSE n

\* How far into its line mode m ends.
EndOf(m) == CASE m = 2 -> Oam [] m = 3 -> Oam + Vram [] OTHER -> Line

\* Since `on' there have been k frames and l lines; the line under way is in mode
\* m, which ends at `due'.
OnSchedule(k, c, due, m, l, on, dbl) ==
  LET start == on + (k * Lines + l) * At(dbl, Line)
  IN due = start + At(dbl, EndOf(m)) /\ start <= c

TimeOk(c, due, m, l, on, dbl) ==
  \E k \in Nat : OnSchedule(k, c, due, m, l, on, dbl)

\* While the LCD is on and the speed is the one it was turned on at, the picture
\* is on schedule; so is the one in the state file.
TimeInv ==
  /\ on_at \in Nat /\ steady \in BOOLEAN
  /\ lcd_on /\ steady => TimeOk(cnt, gpu_next, mode, ly, on_at, double)
  /\ \A s \in saved :
       /\ s.frame[3] \in Nat /\ s.frame[4] \in BOOLEAN /\ s.double \in BOOLEAN
       /\ s.lcd_on /\ s.frame[4]
            => TimeOk(s.cnt, s.gpu_next, s.mode, s.ly, s.frame[3], s.double)

\* The three modes make a line at either speed.
LEMMA AtTypes ==
  ASSUME NEW dbl \in BOOLEAN
  PROVE  \E o \in Nat, v \in Nat, h \in Nat, w \in Nat :
           /\ o = At(dbl, Oam) /\ v = At(dbl, Vram) /\ h = At(dbl, HBlank)
           /\ w = At(dbl, Line) /\ w = o + v + h /\ o + v = At(dbl, Oam + Vram)
           /\ o > 0 /\ v > 0 /\ h > 0
<1>1. /\ Oam \in Nat /\ Vram \in Nat /\ HBlank \in Nat
      /\ Oam > 0 /\ Vram > 0 /\ HBlank > 0
      /\ Line = Oam + Vram + HBlank
  BY PpuAssumption DEF PpuAssumption, Period
<1>2. CASE dbl
  <2>1. /\ At(dbl, Oam) = 2 * Oam /\ At(dbl, Vram) = 2 * Vram
        /\ At(dbl, HBlank) = 2 * HBlank /\ At(dbl, Line) = 2 * Line
        /\ At(dbl, Oam + Vram) = 2 * (Oam + Vram)
    BY <1>2 DEF At
  <2>2. /\ 2 * Oam \in Nat /\ 2 * Vram \in Nat /\ 2 * HBlank \in Nat
        /\ 2 * Line \in Nat /\ 2 * Line = 2 * Oam + 2 * Vram + 2 * HBlank
        /\ 2 * Oam + 2 * Vram = 2 * (Oam + Vram)
        /\ 2 * Oam > 0 /\ 2 * Vram > 0 /\ 2 * HBlank > 0
    BY <1>1
  <2> QED
    BY <2>1, <2>2
<1>3. CASE ~dbl
  <2>1. \A n : At(dbl, n) = n
    BY <1>3 DEF At
  <2>2. Line \in Nat
    BY <1>1
  <2> QED
    BY <1>1, <2>1, <2>2
<1> QED
  BY <1>2, <1>3

LEMMA Ends ==
  EndOf(0) = Line /\ EndOf(1) = Line /\ EndOf(2) = Oam /\ EndOf(3) = Oam + Vram
<1>1. EndOf(0) = Line
  BY DEF EndOf
<1>2. EndOf(1) = Line
  BY DEF EndOf
<1>3. EndOf(2) = Oam
  BY DEF EndOf
<1>4. EndOf(3) = Oam + Vram
  BY DEF EndOf
<1> QED
  BY <1>1, <1>2, <1>3, <1>4

\* A mode ends: the next one of the line begins, or the next line, or the next
\* frame.
LEMMA OnTime ==
  ASSUME PictureOk, on_at \in Nat, double \in BOOLEAN, cnt \in Nat,
         TimeOk(cnt, gpu_next, mode, ly, on_at, double),
         cnt' = gpu_next, GpuStep
  PROVE  TimeOk(cnt', gpu_next', mode', ly', on_at, double)
<1>1. PICK k \in Nat : OnSchedule(k, cnt, gpu_next, mode, ly, on_at, double)
  BY DEF TimeOk
<1>2. PICK o \in Nat, v \in Nat, h \in Nat, w \in Nat :
        /\ o = At(double, Oam) /\ v = At(double, Vram) /\ h = At(double, HBlank)
        /\ w = At(double, Line) /\ w = o + v + h /\ o + v = At(double, Oam + Vram)
        /\ o > 0 /\ v > 0 /\ h > 0
  BY AtTypes
<1>3. ly \in Nat /\ Lines \in Nat /\ k * Lines \in Nat
  BY OneMore, PpuAssumption DEF PpuAssumption, PictureOk
<1>4. PICK n \in Nat : n = k * Lines + ly
  BY <1>3
<1>5. PICK start \in Nat : start = on_at + n * w
  <2>1. n * w \in Nat
    BY OneMore
  <2> QED
    BY <2>1
<1>6. gpu_next = start + At(double, EndOf(mode)) /\ start <= cnt
  BY <1>1, <1>2, <1>4, <1>5 DEF OnSchedule
<1>7. (n + 1) * w = n * w + w
  BY OneMore
<1>8. \A p : Scaled(p) = At(double, p)
  BY DEF Scaled, At
<1>9. CASE LeaveHBlank
  <2>1. gpu_next = start + w
    BY <1>2, <1>6, <1>9, Ends DEF LeaveHBlank
  <2>2. n + 1 = k * Lines + ly'
    BY <1>3, <1>4, <1>9 DEF LeaveHBlank
  <2>3. gpu_next' = cnt' + At(double, EndOf(mode'))
    <3>1. CASE LastLine
      BY <1>8, <1>9, <3>1, Ends DEF LeaveHBlank
    <3>2. CASE ~LastLine
      BY <1>8, <1>9, <3>2, Ends DEF LeaveHBlank
    <3> QED
      BY <3>1, <3>2
  <2>4. cnt' = on_at + (n + 1) * w
    BY <1>5, <1>7, <2>1
  <2>5. OnSchedule(k, cnt', gpu_next', mode', ly', on_at, double)
    BY <1>2, <2>2, <2>3, <2>4, <1>5, <2>1 DEF OnSchedule
  <2> QED
    BY <2>5 DEF TimeOk
<1>10. CASE VBlankLine
  <2>1. gpu_next = start + w
    BY <1>2, <1>6, <1>10, Ends DEF VBlankLine
  <2>2. PICK j \in Nat : n + 1 = j * Lines + ly'
    <3>1. CASE ly + 1 = Lines
      <4>1. ly' = 0
        BY <1>10, <3>1, <1>3 DEF VBlankLine
      <4>2. (k + 1) * Lines = k * Lines + Lines
        BY <1>3, OneMore
      <4>3. n + 1 = (k + 1) * Lines + ly'
        BY <1>3, <1>4, <3>1, <4>1, <4>2
      <4> QED
        BY <4>3
    <3>2. CASE ly + 1 # Lines
      <4>1. ly' = ly + 1
        BY <1>10, <3>2 DEF VBlankLine
      <4> QED
        BY <1>3, <1>4, <4>1
    <3> QED
      BY <3>1, <3>2
  <2>3. gpu_next' = cnt' + At(double, EndOf(mode'))
    BY <1>8, <1>10, Ends DEF VBlankLine
  <2>4. cnt' = on_at + (n + 1) * w
    BY <1>5, <1>7, <2>1
  <2>5. OnSchedule(j, cnt', gpu_next', mode', ly', on_at, double)
    BY <1>2, <2>2, <2>3, <2>4, <1>5, <2>1 DEF OnSchedule
  <2> QED
    BY <2>5 DEF TimeOk
<1>11. CASE LeaveOam
  <2>1. gpu_next = start + o /\ ly' = ly /\ mode' = 3 /\ gpu_next' = cnt' + v
    BY <1>2, <1>6, <1>8, <1>11, Ends DEF LeaveOam
  <2>2. At(double, EndOf(mode')) = o + v
    BY <1>2, <2>1, Ends
  <2>3. gpu_next' = start + At(double, EndOf(mode')) /\ start <= cnt'
    BY <2>1, <2>2
  <2>4. OnSchedule(k, cnt', gpu_next', mode', ly', on_at, double)
    BY <1>2, <1>4, <1>5, <2>1, <2>3 DEF OnSchedule
  <2> QED
    BY <2>4 DEF TimeOk
<1>12. CASE LeaveVram
  <2>1. /\ gpu_next = start + (o + v) /\ ly' = ly /\ mode' = 0
        /\ gpu_next' = cnt' + h
    BY <1>2, <1>6, <1>8, <1>12, Ends DEF LeaveVram
  <2>2. At(double, EndOf(mode')) = w
    BY <1>2, <2>1, Ends
  <2>3. gpu_next' = start + At(double, EndOf(mode')) /\ start <= cnt'
    BY <1>2, <2>1, <2>2
  <2>4. OnSchedule(k, cnt', gpu_next', mode', ly', on_at, double)
    BY <1>2, <1>4, <1>5, <2>1, <2>3 DEF OnSchedule
  <2> QED
    BY <2>4 DEF TimeOk
<1> QED
  BY <1>9, <1>10, <1>11, <1>12 DEF GpuStep

\* What a step can do to the schedule.
TimeStep ==
  /\ UNCHANGED saved
  /\ \/ UNCHANGED <<cnt, gpu_next, mode, ly, on_at, double, lcd_on, steady>>
     \/ /\ cnt' = cnt + 4 /\ UNCHANGED <<on_at, double, lcd_on, steady>>
        /\ IF gpu_next = cnt' THEN GpuStep ELSE UNCHANGED <<gpu_next, mode, ly>>
     \/ \E on \in BOOLEAN : WriteLcdc(on) /\ UNCHANGED <<cnt, double>>
     \/ SpeedWrite
     \/ RestoreStat
     \/ Restart

\* No other step than these touches the schedule.
LEMMA TimeSteps ==
  ASSUME [Next]_vars
  PROVE  TimeStep \/ SaveStat
<1>1. CASE cycles_step
  BY <1>1 DEF cycles_step, ClockTick, GpuTick, GpuStep, stat, regs, TimeStep
<1>2. CASE PpuWrite
  <2>1. UNCHANGED <<saved, cnt, double>>
    BY <1>2 DEF PpuWrite, Access, clock
  <2>2. ASSUME NEW on \in BOOLEAN, WriteLcdc(on) PROVE TimeStep
    BY <2>1, <2>2 DEF TimeStep
  <2>3. ASSUME NEW x \in StatWrites, WriteStat(x) PROVE TimeStep
    BY <2>1, <2>3 DEF WriteStat, stat, frame, TimeStep
  <2>4. ASSUME NEW l \in LycWrites, WriteLyc(l) PROVE TimeStep
    BY <2>1, <2>4 DEF WriteLyc, stat, frame, TimeStep
  <2>5. ASSUME NEW b \in BOOLEAN, NEW n \in Blocks, WriteHdma(b, n) PROVE TimeStep
    BY <2>1, <2>5 DEF WriteHdma, gpu, stat, regs, frame, TimeStep
  <2> QED
    BY <1>2, <2>2, <2>3, <2>4, <2>5 DEF PpuWrite
<1>3. CASE TimerWrite \/ DmaWrite \/ ScWrite
  BY <1>3 DEF TimerWrite, DmaWrite, ScWrite, Access, clock, gpu, stat, regs, frame, TimeStep
<1>4. CASE SpeedWrite
  BY <1>4 DEF SpeedWrite, Access, TimeStep
<1>5. CASE SpeedKey \/ UNCHANGED vars
  BY <1>5 DEF SpeedKey, cycles_change_emulation_speed, vars, clock, gpu, stat, regs,
              frame, TimeStep
<1>6. CASE RestoreStat \/ Restart
  BY <1>6 DEF RestoreStat, Restart, TimeStep
<1> QED
  BY <1>1, <1>2, <1>3, <1>4, <1>5, <1>6 DEF Next

\* The LCD has just been turned on.
LEMMA FirstOnTime ==
  ASSUME NEW c \in Nat, NEW dbl \in BOOLEAN
  PROVE  TimeOk(c, c + At(dbl, Line), 0, 0, c, dbl)
<1>1. PICK w \in Nat : w = At(dbl, Line)
  BY AtTypes
<1>2. Lines \in Nat /\ 0 * Lines + 0 = 0 /\ 0 * w = 0
  BY PpuAssumption DEF PpuAssumption
<1>3. OnSchedule(0, c, c + At(dbl, Line), 0, 0, c, dbl)
  BY <1>1, <1>2, Ends DEF OnSchedule
<1> QED
  BY <1>3 DEF TimeOk

\* Every step keeps the schedule: the modes by OnTime, the rest by what it sets.
LEMMA TimeNext == IInv /\ TimeInv /\ [Next]_vars => TimeInv'
<1> SUFFICES ASSUME IInv, TimeInv, [Next]_vars PROVE TimeInv'
  OBVIOUS
<1>1. PictureOk /\ cnt \in Nat /\ double \in BOOLEAN /\ gpu_next \in Nat
  BY DEF IInv, OnGrid, ClockOk, PictureOk
<1>2. CASE SaveStat
  <2>1. /\ saved' = {Stat}
        /\ UNCHANGED <<cnt, gpu_next, mode, ly, on_at, double, lcd_on, steady>>
    BY <1>2 DEF SaveStat, clock, gpu, stat, regs, frame
  <2>2. /\ Stat.cnt = cnt /\ Stat.gpu_next = gpu_next /\ Stat.mode = mode
        /\ Stat.ly = ly /\ Stat.frame[3] = on_at /\ Stat.double = double
        /\ Stat.lcd_on = lcd_on /\ Stat.frame[4] = steady
    BY DEF Stat, frame
  <2> QED
    BY <1>1, <2>1, <2>2, Zenon DEF TimeInv
<1>3. CASE TimeStep
  <2>1. CASE UNCHANGED <<cnt, gpu_next, mode, ly, on_at, double, lcd_on, steady>>
    BY <1>3, <2>1 DEF TimeStep, TimeInv
  <2>2. CASE /\ cnt' = cnt + 4 /\ UNCHANGED <<on_at, double, lcd_on, steady>>
             /\ IF gpu_next = cnt' THEN GpuStep ELSE UNCHANGED <<gpu_next, mode, ly>>
    <3>1. ASSUME lcd_on, steady
          PROVE  TimeOk(cnt', gpu_next', mode', ly', on_at, double)
      <4>1. TimeOk(cnt, gpu_next, mode, ly, on_at, double) /\ on_at \in Nat
        BY <3>1 DEF TimeInv
      <4>2. CASE gpu_next = cnt'
        BY <1>1, <2>2, <4>1, <4>2, OnTime
      <4>3. CASE gpu_next # cnt'
        <5>1. PICK k \in Nat : OnSchedule(k, cnt, gpu_next, mode, ly, on_at, double)
          BY <4>1 DEF TimeOk
        <5>2. PICK start : start = on_at + (k * Lines + ly) * At(double, Line)
          OBVIOUS
        <5>3. start \in Nat
          <6>1. PICK w \in Nat : w = At(double, Line)
            BY <1>1, AtTypes
          <6>2. k * Lines \in Nat /\ ly \in Nat
            BY <1>1, OneMore, PpuAssumption DEF PpuAssumption, PictureOk
          <6>3. PICK n \in Nat : n = k * Lines + ly
            BY <6>2
          <6>4. n * w \in Nat
            BY OneMore
          <6> QED
            BY <4>1, <5>2, <6>1, <6>3, <6>4
        <5>4. start <= cnt /\ gpu_next = start + At(double, EndOf(mode))
          BY <5>1, <5>2 DEF OnSchedule
        <5>5. start <= cnt'
          BY <1>1, <2>2, <5>3, <5>4
        <5>6. UNCHANGED <<gpu_next, mode, ly>>
          BY <2>2, <4>3
        <5>7. OnSchedule(k, cnt', gpu_next', mode', ly', on_at, double)
          BY <5>2, <5>4, <5>5, <5>6 DEF OnSchedule
        <5> QED
          BY <5>7 DEF TimeOk
      <4> QED
        BY <4>2, <4>3
    <3> QED
      BY <1>3, <2>2, <3>1 DEF TimeStep, TimeInv
  <2>3. ASSUME NEW on \in BOOLEAN, WriteLcdc(on), UNCHANGED <<cnt, double>>
        PROVE  TimeInv'
    <3>1. /\ lcd_on' = on /\ mode' = 0 /\ ly' = 0 /\ on_at' = cnt /\ steady' = TRUE
          /\ on => gpu_next' = cnt + At(double, Line)
      BY <2>3 DEF WriteLcdc, Scaled, At
    <3>2. TimeOk(cnt, cnt + At(double, Line), 0, 0, cnt, double)
      BY <1>1, FirstOnTime
    <3> QED
      BY <1>1, <1>3, <2>3, <3>1, <3>2 DEF TimeStep, TimeInv
  <2>4. CASE SpeedWrite
    <3>1. /\ UNCHANGED <<cnt, gpu_next, mode, ly, on_at, lcd_on, saved>>
          /\ double' = TRUE /\ steady' = (steady /\ (double \/ ~lcd_on))
      BY <2>4 DEF SpeedWrite, Access, cycles_set_speed, PpuSpeed, stat, regs
    <3>2. steady' \in BOOLEAN /\ (steady' /\ lcd_on => steady /\ double = TRUE)
      BY <1>1, <3>1, Zenon
    <3> QED
      BY <3>1, <3>2 DEF TimeInv
  <2>5. CASE RestoreStat
    <3>1. PICK s \in saved :
            /\ cnt' = s.cnt /\ gpu_next' = s.gpu_next /\ mode' = s.mode /\ ly' = s.ly
            /\ on_at' = s.frame[3] /\ lcd_on' = s.lcd_on
            /\ steady' = (s.frame[4] /\ s.double = double)
      BY <2>5 DEF RestoreStat
    <3>2. UNCHANGED <<double, saved>>
      BY <2>5 DEF RestoreStat
    <3>3. steady' \in BOOLEAN /\ (steady' => s.frame[4] /\ s.double = double)
      BY <3>1, Zenon
    <3> QED
      BY <3>1, <3>2, <3>3 DEF TimeInv
  <2>6. CASE Restart
    <3>1. /\ cnt' = 0 /\ mode' = 0 /\ ly' = 0 /\ gpu_next' = Line /\ on_at' = 0
          /\ steady' = TRUE /\ double' = FALSE /\ UNCHANGED saved
      BY <2>6 DEF Restart
    <3>2. TimeOk(0, 0 + At(FALSE, Line), 0, 0, 0, FALSE)
      BY FirstOnTime
    <3>3. 0 + At(FALSE, Line) = Line
      BY LinePeriods DEF At, Period
    <3> QED
      BY <3>1, <3>2, <3>3 DEF TimeInv
  <2> QED
    BY <1>3, <2>1, <2>2, <2>3, <2>4, <2>5, <2>6 DEF TimeStep
<1> QED
  BY <1>2, <1>3, TimeSteps

LEMMA TimeInit == Init => TimeInv
<1> SUFFICES ASSUME Init PROVE TimeInv
  OBVIOUS
<1>1. /\ cnt = 0 /\ mode = 0 /\ ly = 0 /\ gpu_next = Line /\ on_at = 0
      /\ steady = TRUE /\ double = FALSE /\ saved = {}
  BY DEF Init, Boot, ClockInit, PpuInit
<1>2. TimeOk(0, 0 + At(FALSE, Line), 0, 0, 0, FALSE)
  BY FirstOnTime
<1>3. 0 + At(FALSE, Line) = Line
  BY LinePeriods DEF At, Period
<1> QED
  BY <1>1, <1>2, <1>3 DEF TimeInv

LEMMA TimeAlways == Spec => [](IInv /\ TimeInv)
BY TimeInit, TimeNext, InitIInv, IInvAlways, PTL DEF Spec

\* The line is the one that the time since the LCD was turned on gives, for
\* every length of the modes: no drift, whatever is written and restored
\* (gpu_step, gpu_toggle, cycles_step).
THEOREM LineKeepsTime == Spec => []LineOfTime
<1>1. ASSUME IInv, TimeInv, lcd_on, steady
      PROVE  ly = ((cnt - on_at) \div Scaled(Line)) % Lines
  <2>1. /\ cnt \in Nat /\ on_at \in Nat /\ double \in BOOLEAN /\ cnt < gpu_next
        /\ gpu_next \in Nat /\ ly \in 0 .. Lines - 1
    BY <1>1 DEF IInv, OnGrid, ClockOk, PictureOk, Ahead, TimeInv
  <2>2. PICK k \in Nat : OnSchedule(k, cnt, gpu_next, mode, ly, on_at, double)
    BY <1>1 DEF TimeInv, TimeOk
  <2>3. PICK o \in Nat, v \in Nat, h \in Nat, w \in Nat :
          /\ o = At(double, Oam) /\ v = At(double, Vram) /\ h = At(double, HBlank)
          /\ w = At(double, Line) /\ w = o + v + h /\ o + v = At(double, Oam + Vram)
          /\ o > 0 /\ v > 0 /\ h > 0
    BY <2>1, AtTypes
  <2>4. Lines \in Nat /\ Lines > 0 /\ k * Lines \in Nat /\ ly \in Nat
    BY <2>1, OneMore, PpuAssumption DEF PpuAssumption
  <2>5. PICK n \in Nat : n = k * Lines + ly
    BY <2>4
  <2>6. n * w \in Nat
    BY OneMore
  <2>7. PICK p \in Nat : p = n * w
    BY <2>6
  <2>8. gpu_next = on_at + p + At(double, EndOf(mode)) /\ on_at + p <= cnt
    BY <2>2, <2>3, <2>5, <2>7 DEF OnSchedule
  <2>9. At(double, EndOf(mode)) \in {o, o + v, w}
    <3>1. mode = 0 \/ mode = 1 \/ mode = 2 \/ mode = 3
      BY <1>1 DEF IInv, PictureOk
    <3> QED
      BY <2>3, <3>1, Ends, Zenon
  <2>10. cnt - on_at - p \in 0 .. w - 1
    BY <2>1, <2>3, <2>8, <2>9
  <2>11. PICK r \in 0 .. w - 1 : cnt - on_at = p + r
    BY <2>1, <2>7, <2>10
  <2>12. (n * w + r) \div w = n
    BY <2>3, WholeAndRest
  <2>13. (k * Lines + ly) % Lines = ly
    BY <2>1, <2>4, WholeAndRest
  <2>14. Scaled(Line) = w
    BY <2>3 DEF Scaled, At
  <2> QED
    BY <2>5, <2>7, <2>11, <2>12, <2>13, <2>14
<1>2. IInv /\ TimeInv => LineOfTime
  BY <1>1 DEF LineOfTime
<1> QED
  BY <1>2, TimeAlways, PTL
=============================================================================
