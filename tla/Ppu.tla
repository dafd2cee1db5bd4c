-------------------------------- MODULE Ppu --------------------------------
(***************************************************************************)
(* The picture unit of lib/gpu.c as a machine of modes and lines, with the *)
(* HBLANK transfer of lib/cycles.c.  What a line looks like is left out: a *)
(* line is drawn, or it is not.                                            *)
(*                                                                         *)
(* A line is 80 cycles of mode 2 (OAM), 172 of mode 3 (VRAM) and 204 of    *)
(* mode 0 (HBLANK); lines 144 to 153 are 456 cycles of mode 1 (VBLANK).    *)
(***************************************************************************)
EXTENDS Clock, FiniteSets

CONSTANTS Oam, Vram, HBlank, Line,    \* 80, 172, 204 and 456 cycles
          Visible, Lines,             \* 144 and 154 lines
          StatWrites,                 \* values written to STAT
          LycWrites                   \* values written to LYC

ASSUME PpuAssumption ==
  /\ Period(Oam) /\ Period(Vram) /\ Period(HBlank)
  /\ Line = Oam + Vram + HBlank
  /\ Visible \in Nat /\ Lines \in Nat
  /\ 1 < Visible /\ Visible < Lines /\ Lines <= 256
  /\ StatWrites \subseteq [modes : SUBSET (0 .. 2), lyc : BOOLEAN]
  /\ LycWrites \subseteq 0 .. 255

VARIABLES
  lcd_on,                    \* bit 7 of LCDC (0xFF40)
  mode, coincidence,         \* STAT (0xFF41): its mode and its LYC flag
  ir_modes, ir_lyc,          \* and the interrupts a game asks for
  ly, lyc,                   \* 0xFF44, 0xFF45
  gpu_next,                  \* gpu.next
  vblank_irq, stat_irq,      \* the interrupts the last step raised
  hdma_left,                 \* mmu.hdma_to_transfer, in blocks of 16 bytes
  hdma_mode,                 \* mmu.hdma_transfer_mode: TRUE is HBLANK
  hdma_line,                 \* mmu.hdma_current_line
  on_at, steady,             \* history: the count at which the LCD was turned
                             \* on, and whether the speed has not changed since
  drawn, first,              \* history: lines drawn in this frame, and whether
                             \* it is the first one since the LCD is on
  served, twice              \* history: a block was copied in this line's
                             \* HBLANK, and two of them were in some line's

stat  == <<mode, coincidence, ly>>
regs  == <<lcd_on, ir_modes, ir_lyc, lyc>>
hdma  == <<hdma_left, hdma_mode, hdma_line, served, twice>>
frame == <<drawn, first, on_at, steady>>
gpu   == <<stat, regs, gpu_next, frame>>

PpuInit ==
  /\ lcd_on = TRUE /\ mode = 0 /\ coincidence = FALSE
  /\ ir_modes = {} /\ ir_lyc = FALSE
  /\ ly = 0 /\ lyc = 0
  /\ gpu_next = Line
  /\ vblank_irq = FALSE /\ stat_irq = FALSE
  /\ hdma_left = 0 /\ hdma_mode = FALSE /\ hdma_line = 0
  /\ on_at = 0 /\ steady = TRUE /\ drawn = {} /\ first = TRUE
  /\ served = FALSE /\ twice = FALSE

-----------------------------------------------------------------------------
(* gpu_step: one action for each mode, with its two notifications.         *)

LyChanged ==
  coincidence' = (ly' = lyc)

\* The interrupts of a step: LY's if it has changed, the mode's if the code
\* says that it has changed.
Notified(lyChanged, modeChanged) ==
  stat_irq' = \/ lyChanged /\ ly' = lyc /\ ir_lyc
              \/ modeChanged /\ mode' \in ir_modes

\* (a slip: the line of the last block is not looked at)
HdmaDueAgain(left, hblank) ==
  left > 0 /\ hblank /\ ly < Visible - 1 /\ mode = 0

\* cycles_hdma: a block at the end of an HBLANK, or at once if one is on.
HdmaDue(left, hblank) ==
  left > 0 /\ hblank /\ ly < Visible - 1 /\ hdma_line # ly /\ mode = 0

\* A block is copied, or none: `left' and `hblank' are what FF55 has just set.
cycles_hdma(left, hblank) ==
  IF HdmaDue(left, hblank)
  THEN hdma_left' = left - 1 /\ hdma_line' = ly /\ twice' = (twice \/ served)
  ELSE hdma_left' = left /\ UNCHANGED <<hdma_line, twice>>

\* The last line of the screen, before ly counts on.
LastLineEarly == ly = Visible - 2    \* (a slip)
LastLine      == ly = Visible - 1

LeaveHBlank ==
  /\ mode = 0
  /\ cycles_hdma(hdma_left, hdma_mode) /\ UNCHANGED hdma_mode
  /\ served' = FALSE
  /\ ly' = ly + 1
  /\ \/ /\ LastLine                                 \* gpu_draw_frame
        /\ mode' = 1
        /\ gpu_next' = cnt' + Scaled(Line)
        /\ vblank_irq' = TRUE
        /\ drawn' = {} /\ first' = FALSE
     \/ /\ ~LastLine
        /\ mode' = 2
        /\ gpu_next' = cnt' + Scaled(Oam)
        /\ vblank_irq' = FALSE
        /\ UNCHANGED <<drawn, first>>
  /\ LyChanged /\ Notified(TRUE, TRUE)

\* (a slip: one line too many, as with a test for > 154)
VBlankLineLong ==
  /\ mode = 1
  /\ \/ /\ ly = Lines
        /\ ly' = 0 /\ mode' = 2 /\ gpu_next' = cnt' + Scaled(Oam)
     \/ /\ ly < Lines
        /\ ly' = ly + 1 /\ mode' = 1 /\ gpu_next' = cnt' + Scaled(Line)
  /\ vblank_irq' = FALSE
  /\ LyChanged /\ Notified(TRUE, FALSE)
  /\ UNCHANGED <<hdma, drawn, first>>

\* The last VBLANK line leads to mode 2 without a mode notification.
VBlankLine ==
  /\ mode = 1
  /\ \/ /\ ly + 1 = Lines
        /\ ly' = 0 /\ mode' = 2 /\ gpu_next' = cnt' + Scaled(Oam)
     \/ /\ ly + 1 < Lines
        /\ ly' = ly + 1 /\ mode' = 1 /\ gpu_next' = cnt' + Scaled(Line)
  /\ vblank_irq' = FALSE
  /\ LyChanged /\ Notified(TRUE, FALSE)
  /\ UNCHANGED <<hdma, drawn, first>>

LeaveOam ==
  /\ mode = 2
  /\ mode' = 3 /\ gpu_next' = cnt' + Scaled(Vram)
  /\ vblank_irq' = FALSE
  /\ Notified(FALSE, TRUE)
  /\ UNCHANGED <<ly, coincidence, hdma, drawn, first>>

\* The line is drawn at the end of mode 3.
LeaveVram ==
  /\ mode = 3
  /\ mode' = 0 /\ gpu_next' = cnt' + Scaled(HBlank)
  /\ drawn' = drawn \cup {ly}
  /\ vblank_irq' = FALSE
  /\ Notified(FALSE, TRUE)
  /\ UNCHANGED <<ly, coincidence, hdma, first>>

GpuStep == LeaveHBlank \/ VBlankLine \/ LeaveOam \/ LeaveVram

GpuTick ==
  /\ \/ gpu_next = cnt' /\ GpuStep
     \/ /\ gpu_next # cnt'
        /\ vblank_irq' = FALSE /\ stat_irq' = FALSE
        /\ UNCHANGED <<stat, gpu_next, hdma, drawn, first>>
  /\ UNCHANGED <<regs, on_at, steady>>
-----------------------------------------------------------------------------
(* Writes to the registers.                                                *)

\* (a slip: the mode is left as it was)
WriteLcdcMode(on) ==
  /\ on # lcd_on /\ lcd_on' = on
  /\ ly' = 0 /\ UNCHANGED mode
  /\ IF on THEN gpu_next' = cnt + Scaled(Line) /\ coincidence' = FALSE
           ELSE gpu_next' = cnt - 1 /\ UNCHANGED coincidence
  /\ on_at' = cnt /\ steady' = TRUE /\ drawn' = {} /\ first' = TRUE
  /\ served' = FALSE
  /\ UNCHANGED <<ir_modes, ir_lyc, lyc, hdma_left, hdma_mode, hdma_line, twice>>

\* gpu_toggle, if bit 7 of LCDC changes.  Turned off, the deadline is past.
WriteLcdc(on) ==
  /\ on # lcd_on /\ lcd_on' = on
  /\ ly' = 0 /\ mode' = 0
  /\ IF on THEN gpu_next' = cnt + Scaled(Line) /\ coincidence' = FALSE
           ELSE gpu_next' = cnt - 1 /\ UNCHANGED coincidence
  /\ on_at' = cnt /\ steady' = TRUE /\ drawn' = {} /\ first' = TRUE
  /\ served' = FALSE
  /\ UNCHANGED <<ir_modes, ir_lyc, lyc, hdma_left, hdma_mode, hdma_line, twice>>

\* The mode and the LYC flag of STAT are read-only.
WriteStat(w) ==
  /\ ir_modes' = w.modes /\ ir_lyc' = w.lyc
  /\ UNCHANGED <<stat, lcd_on, lyc, gpu_next, frame, hdma>>

WriteLyc(l) ==
  /\ lyc' = l
  /\ UNCHANGED <<stat, lcd_on, ir_modes, ir_lyc, gpu_next, frame, hdma>>

\* FF55: a zero in bit 7 stops an HBLANK transfer, or copies everything now.
WriteHdma(hblank, blocks) ==
  /\ IF ~hblank
     THEN /\ hdma_left' = 0 /\ hdma_mode' = FALSE
          /\ UNCHANGED <<hdma_line, served, twice>>
     ELSE /\ hdma_mode' = TRUE
          /\ cycles_hdma(blocks, TRUE)
          /\ served' = (served \/ HdmaDue(blocks, TRUE))
  /\ UNCHANGED gpu

\* The speed switch in the middle of a line leaves gpu.next alone.
PpuSpeed ==
  /\ steady' = (steady /\ (double \/ ~lcd_on))
  /\ UNCHANGED <<stat, regs, gpu_next, on_at, drawn, first, hdma>>
=============================================================================
