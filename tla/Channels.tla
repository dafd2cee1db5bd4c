------------------------------ MODULE Channels ------------------------------
(***************************************************************************)
(* A sound channel in lib/sound.c: its length counter, frequency sweep and *)
(* volume envelope, stepped by the frame sequencer, and the registers a    *)
(* game writes.  The four channels meet only in the sequencer and the      *)
(* power switch, so one of them is followed, whichever it is.              *)
(*                                                                         *)
(* `c' is its structure (channel_square_t, channel_wave_t or               *)
(* channel_noise_t), `nr' the registers, which the structure points at in  *)
(* memory.  Volumes are counted in steps of 0x111.  The waveform is left   *)
(* out.                                                                    *)
(***************************************************************************)
EXTENDS Integers

CONSTANTS MaxLength,    \* 64 (256 on channel three): a full length counter
          MaxFreq,      \* 2047
          MaxVolume,    \* 15
          Eight,        \* 8: what a sweep period of 0 stands for
          CntMod,       \* 256: envelope_cnt is a byte
          Frequencies, Periods, Shifts, Volumes,     \* what games write
          Games         \* the channel and the modules of it each game uses

VARIABLES
  game,
  fs_cycles_idx, power,
  c, nr,
  late,                 \* history: the envelope's period was set to one its
                        \* counter has passed,
  quiet                 \* and the game has stopped writing

channel == <<c, nr>>
vars    == <<game, fs_cycles_idx, power, channel, late, quiet>>

Uses == {"length", "sweep", "envelope", "power"}

ASSUME ChannelsAssumption ==
  /\ MaxLength \in Nat \ {0} /\ MaxFreq \in Nat /\ MaxVolume \in Nat \ {0}
  /\ Eight \in Nat \ {0} /\ CntMod \in Nat \ {0}
  /\ Frequencies \subseteq 0 .. MaxFreq
  /\ Periods \subseteq 0 .. CntMod - 1 /\ (\E p \in Periods : p # 0)
  /\ Shifts \subseteq 0 .. 7
  /\ Volumes \subseteq 0 .. MaxVolume
  /\ \A g \in Games : /\ g.channel \in 1 .. 4 /\ g.cgb \in BOOLEAN
                      /\ g.uses \subseteq Uses

UsesPart(p) == p \in game.uses
Sweeps      == game.channel = 1
Wave        == game.channel = 3

\* The register block after bzero(mmu_addr(0xFF10), 22).
Cleared == [sweep |-> 0, negate |-> FALSE, shift |-> 0,      \* NRx0
            volume |-> 0, add |-> FALSE, period |-> 0,       \* NRx2
            dac |-> FALSE,                                   \* NR30
            length_enable |-> FALSE]                         \* NRx4

\* The frequency a new process finds in NRx3 and NRx4: 0x700, for NRx4 is 0xBF.
BootFreq == MaxFreq - MaxFreq \div 8

\* gameboy_init: NR12 is 0xF3, the other envelopes are 0.  `written' is the
\* frequency in NRx3 and NRx4, which the sweep writes too.
Init ==
  /\ game \in Games
  /\ fs_cycles_idx = 0 /\ power = TRUE
  /\ nr = [Cleared EXCEPT !.volume = IF Sweeps THEN MaxVolume ELSE 0,
                          !.period = IF Sweeps THEN CHOOSE p \in Periods : p # 0 ELSE 0]
  /\ c = [active |-> FALSE, length |-> 0, frequency |-> 0, written |-> BootFreq,
          volume |-> 0, envelope_cnt |-> 0, sweep_active |-> FALSE, sweep_cnt |-> 0,
          sweep_neg |-> FALSE, sweep_next |-> 0, shadow |-> 0]
  /\ late = FALSE /\ quiet = FALSE

\* The channel's converter is on: NR30, or a volume that is not 0 for good.
DacOn == IF Wave THEN nr.dac ELSE nr.volume # 0 \/ nr.add

-----------------------------------------------------------------------------
(* The frame sequencer's modules, on a channel x with registers r.         *)

\* (a slip: the channel is not turned off)
LengthStepOn(x, r) ==
  IF r.length_enable /\ x.length # 0
  THEN [x EXCEPT !.length = @ - 1] ELSE x

\* sound_length_ctrl_step_ch
LengthStep(x, r) ==
  IF r.length_enable /\ x.length # 0
  THEN [x EXCEPT !.length = @ - 1, !.active = @ /\ x.length # 1]
  ELSE x

\* sound_sweep_calc: its result, and what it does to the channel.
NewFreq(x, r) ==
  LET diff == x.shadow \div 2 ^ r.shift
  IN IF r.negate THEN x.shadow - diff ELSE x.shadow + diff

SweepCalc(x, r) ==
  [x EXCEPT !.sweep_neg = @ \/ r.negate,
            !.active = @ /\ NewFreq(x, r) <= MaxFreq]

\* (a slip: a frequency that is too high is set)
SetFrequencyAny(x, new) == [x EXCEPT !.frequency = new, !.written = new]

\* sound_set_frequency
SetFrequency(x, new) ==
  IF new > MaxFreq THEN [x EXCEPT !.active = FALSE]
                   ELSE [x EXCEPT !.frequency = new, !.written = new]

Period(r) == IF r.sweep # 0 THEN r.sweep ELSE Eight

\* When the sweep's counter has come to its period.
Swept(x, r) ==
  LET new == NewFreq(x, r)
      y   == SweepCalc(x, r)
  IN IF r.shift # 0 /\ new <= MaxFreq
     THEN SweepCalc(SetFrequency([y EXCEPT !.shadow = new], new), r)
     ELSE y

\* sound_sweep_step
SweepStep(x, r) ==
  IF ~(x.active /\ x.sweep_active) THEN x
  ELSE IF x.sweep_cnt + 1 # x.sweep_next THEN [x EXCEPT !.sweep_cnt = @ + 1]
  ELSE LET y == [x EXCEPT !.sweep_cnt = 0, !.sweep_next = Period(r)]
       IN IF r.sweep = 0 THEN y ELSE Swept(y, r)

\* The volume rises to one below the highest; that of channel four does not fall
\* to 0.
Louder(v)  == IF v < MaxVolume - 1 THEN v + 1 ELSE v
Softer(v)  == IF v >= 1 /\ (game.channel = 4 => v > 1) THEN v - 1 ELSE v

\* sound_envelope_step
EnvelopeStep(x, r) ==
  LET cnt == (x.envelope_cnt + 1) % CntMod
  IN IF Wave \/ ~x.active \/ r.period = 0 THEN x
     ELSE IF cnt # r.period THEN [x EXCEPT !.envelope_cnt = cnt]
     ELSE [x EXCEPT !.envelope_cnt = 0,
                    !.volume = IF r.add THEN Louder(@) ELSE Softer(@)]

\* sound_step_fs: 256 Hz, 128 Hz and 64 Hz out of 512.
FrameStep ==
  LET idx == (fs_cycles_idx + 1) % 8
      x   == IF idx % 2 = 0 THEN LengthStep(c, nr) ELSE c
      y   == IF Sweeps /\ idx \in {2, 6} THEN SweepStep(x, nr) ELSE x
      z   == IF idx = 7 THEN EnvelopeStep(y, nr) ELSE y
  IN /\ fs_cycles_idx' = idx
     /\ c' = z
     /\ late' = (late /\ z.envelope_cnt # 0)
     /\ UNCHANGED <<game, power, nr, quiet>>

-----------------------------------------------------------------------------
(* sound_write_reg, with the power on.                                     *)

Writing == power /\ ~quiet /\ UNCHANGED <<game, fs_cycles_idx, power, quiet>>

\* 0xFF10: a sweep that has subtracted may not add any more.
WriteSweep ==
  /\ Writing /\ Sweeps /\ UsesPart("sweep")
  /\ \E p \in Periods, n \in BOOLEAN, s \in Shifts :
       nr' = [nr EXCEPT !.sweep = p, !.negate = n, !.shift = s]
  /\ c' = [c EXCEPT !.active = @ /\ ~(~nr'.negate /\ c.sweep_neg)]
  /\ UNCHANGED late

\* 0xFF1A
WriteDac ==
  /\ Writing /\ Wave
  /\ \E d \in BOOLEAN : nr' = [nr EXCEPT !.dac = d]
  /\ c' = [c EXCEPT !.active = @ /\ nr'.dac]
  /\ UNCHANGED late

\* 0xFF11, 0xFF16, 0xFF1B, 0xFF20
WriteLength ==
  /\ Writing /\ UsesPart("length")
  /\ \E load \in 0 .. MaxLength - 1 : c' = [c EXCEPT !.length = MaxLength - load]
  /\ UNCHANGED <<nr, late>>

\* 0xFF12, 0xFF17, 0xFF21
WriteEnvelope ==
  /\ Writing /\ ~Wave /\ UsesPart("envelope")
  /\ \E v \in Volumes, a \in BOOLEAN, p \in Periods :
       nr' = [nr EXCEPT !.volume = v, !.add = a, !.period = p]
  /\ c' = [c EXCEPT !.active = @ /\ (nr'.volume # 0 \/ nr'.add)]
  /\ late' = (c.envelope_cnt # 0 /\ c.envelope_cnt >= nr'.period)

\* 0xFF13 and 0xFF18.  (The upper bits, of the next register, come with it.)
WriteFrequency ==
  /\ Writing /\ UsesPart("sweep")
  /\ \E f \in Frequencies : c' = [c EXCEPT !.frequency = f, !.written = f]
  /\ UNCHANGED <<nr, late>>

\* The extra clock when the length counter is enabled in the first half of its
\* period.
ExtraClock(x, r) ==
  IF ~nr.length_enable /\ fs_cycles_idx % 2 = 0 THEN LengthStep(x, r) ELSE x

\* (a slip: the counter stays where it is)
ReloadedNot(x) == x

Reloaded(x) == [x EXCEPT !.length = IF @ = 0 THEN MaxLength ELSE @]

\* (a slip: the counter of the envelope goes on)
RestartedVolume(x, r) == [x EXCEPT !.volume = r.volume]

Restarted(x, r) == [x EXCEPT !.volume = r.volume, !.envelope_cnt = 0]

\* Channel one: the sweep starts over, and the frequency is moved at once.
SweepStarted(x, r) ==
  LET y == [x EXCEPT !.shadow = x.frequency, !.sweep_cnt = 0, !.sweep_neg = FALSE,
                     !.sweep_next = Period(r),
                     !.sweep_active = r.sweep # 0 \/ r.shift # 0]
  IN IF r.shift = 0 THEN y
     ELSE SetFrequency(SweepCalc(y, r), NewFreq(y, r))

\* A channel that is triggered with its converter off stays off; a full counter
\* is clocked in the first half of its period.
Triggered(x, r) ==
  LET y == Restarted(Reloaded([x EXCEPT !.active = TRUE]), r)
      z == IF Sweeps THEN SweepStarted(y, r) ELSE y
      w == [z EXCEPT !.active = @ /\ DacOn]
  IN IF fs_cycles_idx % 2 = 0 /\ w.length = MaxLength THEN LengthStep(w, r) ELSE w

\* 0xFF14, 0xFF19, 0xFF1E, 0xFF23
WriteControl ==
  /\ Writing
  /\ \E enable \in BOOLEAN, trigger \in BOOLEAN :
       LET r == [nr EXCEPT !.length_enable = enable]
           x == [ExtraClock(c, r) EXCEPT !.frequency = c.written]
       IN /\ nr' = r
          /\ c' = IF trigger THEN Triggered(x, r) ELSE x
          /\ late' = (late /\ ~trigger)

-----------------------------------------------------------------------------
(* 0xFF26, and what a classic console takes while the power is off.        *)

PowerOff ==
  /\ UsesPart("power") /\ ~quiet
  /\ power' = FALSE
  /\ nr' = Cleared
  /\ c' = [c EXCEPT !.active = FALSE, !.written = 0,
                    !.length = IF game.cgb /\ game.channel = 4 THEN 0 ELSE @]
  /\ late' = FALSE
  /\ UNCHANGED <<game, fs_cycles_idx, quiet>>

PowerOn ==
  /\ UsesPart("power") /\ ~quiet
  /\ power' = TRUE
  /\ fs_cycles_idx' = IF power THEN fs_cycles_idx ELSE 7
  /\ UNCHANGED <<game, c, nr, late, quiet>>

LengthWhileOff ==
  /\ ~power /\ ~quiet /\ ~game.cgb
  /\ \E load \in 0 .. MaxLength - 1 : c' = [c EXCEPT !.length = MaxLength - load]
  /\ UNCHANGED <<game, fs_cycles_idx, power, nr, late, quiet>>

Rest == ~quiet /\ quiet' = TRUE /\ UNCHANGED <<game, fs_cycles_idx, power, c, nr, late>>

sound_write_reg ==
  \/ WriteSweep \/ WriteDac \/ WriteLength \/ WriteEnvelope \/ WriteFrequency
  \/ WriteControl \/ PowerOff \/ PowerOn \/ LengthWhileOff

Next == FrameStep \/ sound_write_reg \/ Rest

\* cycles_step comes to the frame sequencer as long as the emulator runs.
Spec == Init /\ [][Next]_vars /\ WF_vars(FrameStep)

-----------------------------------------------------------------------------
(* Properties.                                                             *)

\* A channel that plays has time left, its converter is on and so is the power:
\* whatever the order of writes, extra clocks and triggers, one whose length ran
\* out, or whose converter was turned off, is silent until it is triggered.
PlaysWithReason == c.active => c.length > 0 /\ DacOn /\ power

\* The sweep never leaves a frequency in the channel that the registers could not
\* hold, and the envelope no volume out of its four bits; and the sweep's counter
\* stays below the period it is compared with for equality, and so reaches it,
\* wherever triggers and new periods restart it.
StaysInRange ==
  /\ c.frequency \in 0 .. MaxFreq /\ c.shadow \in 0 .. MaxFreq
  /\ c.volume \in 0 .. MaxVolume
  /\ c.active /\ c.sweep_active => c.sweep_cnt < c.sweep_next

\* The envelope's counter stays below its period and so reaches it; but for a
\* period the game sets while the counter is past it.
EnvelopeInTime ==
  c.active /\ nr.period # 0 /\ ~late => c.envelope_cnt < nr.period

\* When the game leaves a channel alone whose length counter is on, it falls
\* silent.
LengthRunsOut == (quiet /\ nr.length_enable) ~> ~c.active
=============================================================================
