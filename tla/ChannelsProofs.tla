--------------------------- MODULE ChannelsProofs ---------------------------
(***************************************************************************)
(* Proofs about Channels for every length, frequency, volume and period,   *)
(* every channel and whatever games write.  The three properties hold      *)
(* together with the types and one fact about the channels that have no    *)
(* sweep; each module of the frame sequencer is described once by what it  *)
(* keeps of a channel, and every write by the modules it calls.            *)
(***************************************************************************)
EXTENDS Channels, TLAPS

Byte == 0 .. CntMod - 1

\* The channel's structure and its registers.
Chan ==
  [active : BOOLEAN, length : 0 .. MaxLength, frequency : 0 .. MaxFreq,
   written : 0 .. MaxFreq, volume : 0 .. MaxVolume, envelope_cnt : Byte,
   sweep_active : BOOLEAN, sweep_cnt : Nat, sweep_neg : BOOLEAN,
   sweep_next : Nat, shadow : 0 .. MaxFreq]

Regs ==
  [sweep : Byte, negate : BOOLEAN, shift : 0 .. 7, volume : 0 .. MaxVolume,
   add : BOOLEAN, period : Byte, dac : BOOLEAN, length_enable : BOOLEAN]

TypeOK ==
  /\ game \in Games
  /\ fs_cycles_idx \in 0 .. 7
  /\ power \in BOOLEAN /\ late \in BOOLEAN /\ quiet \in BOOLEAN
  /\ c \in Chan /\ nr \in Regs

\* The sweep's counter of a channel that plays is short of its period.
SweepAhead(x) == x.active /\ x.sweep_active => x.sweep_cnt < x.sweep_next

\* The envelope's counter of a channel that plays is short of its period.
EnvelopeAhead(x, r, l) ==
  x.active /\ r.period # 0 /\ ~l => x.envelope_cnt < r.period

\* Only channel one has a sweep.
SweepOnOne == ~Sweeps => ~c.sweep_active

IInv == TypeOK /\ SweepOnOne /\ PlaysWithReason /\ StaysInRange /\ EnvelopeInTime

\* What a module does to a channel x: it never turns it on, and leaves it time
\* and its place in the sweep.
Tends(x, y) ==
  /\ y \in Chan
  /\ y.active => x.active /\ (x.length > 0 => y.length > 0)
  /\ SweepAhead(x) => SweepAhead(y)
  /\ y.sweep_active = x.sweep_active

\* The calculation of a frequency changes nothing else, but may turn x off.
Keeps(x, y) ==
  /\ y \in Chan
  /\ y.active => x.active
  /\ y.length = x.length /\ y.envelope_cnt = x.envelope_cnt
  /\ y.sweep_active = x.sweep_active
  /\ y.sweep_cnt = x.sweep_cnt /\ y.sweep_next = x.sweep_next

-----------------------------------------------------------------------------

\* Shifting a frequency to the right leaves a smaller one.
LEMMA ShiftedDown ==
  ASSUME NEW f \in Nat, NEW s \in 0 .. 7
  PROVE  f \div 2 ^ s \in 0 .. f
<1> DEFINE P(n) == 2 ^ n
<1>1. /\ P(0) = 1 /\ P(1) = 2 /\ P(2) = 4 /\ P(3) = 8
      /\ P(4) = 16 /\ P(5) = 32 /\ P(6) = 64 /\ P(7) = 128
  OBVIOUS
<1>2. s = 0 \/ s = 1 \/ s = 2 \/ s = 3 \/ s = 4 \/ s = 5 \/ s = 6 \/ s = 7
  OBVIOUS
<1> HIDE DEF P
<1>3. P(s) \in Nat \ {0}
  BY <1>1, <1>2
<1>4. f \div P(s) \in 0 .. f
  BY <1>3
<1> QED
  BY <1>4 DEF P

\* The frequency the sweep comes to is a number; it is negative never.
LEMMA NewFreqType ==
  ASSUME NEW x \in Chan, NEW r \in Regs
  PROVE  NewFreq(x, r) \in Nat
<1>1. x.shadow \in Nat /\ r.shift \in 0 .. 7
  BY ChannelsAssumption DEF Chan, Regs
<1>2. x.shadow \div 2 ^ r.shift \in 0 .. x.shadow
  BY <1>1, ShiftedDown
<1> QED
  BY <1>1, <1>2 DEF NewFreq

\* The length counter: a channel whose time runs out is turned off.
LEMMA LengthTends ==
  ASSUME NEW x \in Chan, NEW r \in Regs
  PROVE  /\ Tends(x, LengthStep(x, r))
         /\ LengthStep(x, r).envelope_cnt = x.envelope_cnt
         /\ LengthStep(x, r).frequency = x.frequency
         /\ LengthStep(x, r).shadow = x.shadow
<1> DEFINE y == LengthStep(x, r)
<1>1. CASE r.length_enable /\ x.length # 0
  <2>1. y = [x EXCEPT !.length = x.length - 1, !.active = x.active /\ x.length # 1]
    BY <1>1 DEF LengthStep
  <2>2. x.length \in Nat \ {0} /\ x.length - 1 \in 0 .. MaxLength
    BY <1>1, ChannelsAssumption DEF Chan
  <2>3. (x.active /\ x.length # 1) \in BOOLEAN
    OBVIOUS
  <2>4. y \in Chan
    <3> HIDE DEF y
    <3> QED  BY <2>1, <2>2, <2>3 DEF Chan
  <2>5. /\ y.length = x.length - 1
        /\ y.active => x.active /\ x.length # 1
        /\ y.sweep_active = x.sweep_active /\ y.sweep_cnt = x.sweep_cnt
        /\ y.sweep_next = x.sweep_next /\ y.envelope_cnt = x.envelope_cnt
        /\ y.frequency = x.frequency /\ y.shadow = x.shadow
    <3> HIDE DEF y
    <3> QED  BY <2>1 DEF Chan
  <2> HIDE DEF y
  <2>6. Tends(x, y)
    BY <2>2, <2>4, <2>5 DEF Tends, SweepAhead
  <2> QED
    BY <2>5, <2>6 DEF y
<1>2. CASE ~(r.length_enable /\ x.length # 0)
  <2>1. y = x
    BY <1>2 DEF LengthStep
  <2> QED
    BY <2>1 DEF Tends
<1> QED
  BY <1>1, <1>2

\* One calculation after another.
LEMMA KeepsTransitive ==
  ASSUME NEW x, NEW y, NEW z, Keeps(x, y), Keeps(y, z)
  PROVE  Keeps(x, z)
BY DEF Keeps

\* sound_sweep_calc and sound_set_frequency.
LEMMA SweepCalcKeeps ==
  ASSUME NEW x \in Chan, NEW r \in Regs
  PROVE  Keeps(x, SweepCalc(x, r))
<1> DEFINE y == SweepCalc(x, r)
<1>1. y = [x EXCEPT !.sweep_neg = x.sweep_neg \/ r.negate,
                    !.active = x.active /\ NewFreq(x, r) <= MaxFreq]
  BY DEF SweepCalc
<1>2. /\ (x.sweep_neg \/ r.negate) \in BOOLEAN
      /\ (x.active /\ NewFreq(x, r) <= MaxFreq) \in BOOLEAN
  OBVIOUS
<1> HIDE DEF y
<1>3. y \in Chan
  BY <1>1, <1>2 DEF Chan
<1> QED
  BY <1>1, <1>3 DEF Keeps, Chan, y

LEMMA SetFrequencyKeeps ==
  ASSUME NEW x \in Chan, NEW new \in Nat
  PROVE  Keeps(x, SetFrequency(x, new))
<1> DEFINE y == SetFrequency(x, new)
<1>1. CASE new > MaxFreq
  <2>1. y = [x EXCEPT !.active = FALSE]
    BY <1>1 DEF SetFrequency
  <2> HIDE DEF y
  <2> QED
    BY <2>1 DEF Keeps, Chan, y
<1>2. CASE ~(new > MaxFreq)
  <2>1. y = [x EXCEPT !.frequency = new, !.written = new]
    BY <1>2 DEF SetFrequency
  <2>2. new \in 0 .. MaxFreq
    BY <1>2, ChannelsAssumption
  <2> HIDE DEF y
  <2> QED
    BY <2>1, <2>2 DEF Keeps, Chan, y
<1> QED
  BY <1>1, <1>2

\* A period of 0 stands for eight, so the sweep has some time in any case.
LEMMA PeriodType ==
  ASSUME NEW r \in Regs
  PROVE  Period(r) \in Nat /\ Period(r) > 0
BY ChannelsAssumption DEF Period, Regs, Byte

\* The sweep moves the frequency, within its range.
LEMMA SweptKeeps ==
  ASSUME NEW x \in Chan, NEW r \in Regs
  PROVE  Keeps(x, Swept(x, r))
<1> DEFINE new == NewFreq(x, r)
           y   == SweepCalc(x, r)
           z   == [y EXCEPT !.shadow = new]
           w   == SetFrequency(z, new)
<1>1. new \in Nat /\ y \in Chan /\ Keeps(x, y)
  BY NewFreqType, SweepCalcKeeps DEF Keeps
<1>2. CASE r.shift # 0 /\ new <= MaxFreq
  <2>1. new \in 0 .. MaxFreq
    BY <1>1, <1>2, ChannelsAssumption
  <2>2. z \in Chan /\ Keeps(y, z)
    <3> HIDE DEF y, new
    <3> QED  BY <1>1, <2>1 DEF Chan, Keeps
  <2>3. w \in Chan /\ Keeps(z, w)
    <3> HIDE DEF new, z
    <3> QED  BY <1>1, <2>2, SetFrequencyKeeps DEF Keeps
  <2>4. Keeps(w, SweepCalc(w, r))
    <3> HIDE DEF w
    <3> QED  BY <2>3, SweepCalcKeeps
  <2>5. Swept(x, r) = SweepCalc(w, r)
    BY <1>2 DEF Swept
  <2> HIDE DEF y, z, w
  <2> QED
    BY <1>1, <2>2, <2>3, <2>4, <2>5, KeepsTransitive
<1>3. CASE ~(r.shift # 0 /\ new <= MaxFreq)
  BY <1>1, <1>3 DEF Swept
<1> QED
  BY <1>2, <1>3

\* The sweep's counter starts over when it comes to its period.
LEMMA SweepTends ==
  ASSUME NEW x \in Chan, NEW r \in Regs
  PROVE  /\ Tends(x, SweepStep(x, r))
         /\ SweepStep(x, r).envelope_cnt = x.envelope_cnt
<1> DEFINE s == SweepStep(x, r)
           y == [x EXCEPT !.sweep_cnt = 0, !.sweep_next = Period(r)]
<1>1. CASE ~(x.active /\ x.sweep_active)
  BY <1>1 DEF SweepStep, Tends
<1>2. CASE x.active /\ x.sweep_active /\ x.sweep_cnt + 1 # x.sweep_next
  <2>1. s = [x EXCEPT !.sweep_cnt = x.sweep_cnt + 1]
    BY <1>2 DEF SweepStep
  <2>2. x.sweep_cnt \in Nat /\ x.sweep_next \in Nat
    BY DEF Chan
  <2> HIDE DEF s
  <2>3. s \in Chan /\ s.length = x.length /\ s.active = x.active
        /\ s.envelope_cnt = x.envelope_cnt /\ s.sweep_active = x.sweep_active
        /\ s.sweep_cnt = x.sweep_cnt + 1 /\ s.sweep_next = x.sweep_next
    BY <2>1, <2>2 DEF Chan
  <2>4. Tends(x, s)
    BY <1>2, <2>2, <2>3 DEF Tends, SweepAhead
  <2> QED
    BY <2>3, <2>4 DEF s
<1>3. CASE x.active /\ x.sweep_active /\ x.sweep_cnt + 1 = x.sweep_next
  <2>1. s = IF r.sweep = 0 THEN y ELSE Swept(y, r)
    BY <1>3 DEF SweepStep
  <2>2. /\ y \in Chan /\ y.active = x.active /\ y.length = x.length
        /\ y.envelope_cnt = x.envelope_cnt /\ y.sweep_active = x.sweep_active
        /\ y.sweep_cnt = 0 /\ y.sweep_next = Period(r)
    BY PeriodType DEF Chan
  <2> HIDE DEF s, y
  <2>3. Keeps(y, s)
    BY <2>1, <2>2, SweptKeeps DEF Keeps
  <2>4. Tends(x, s)
    BY <1>3, <2>2, <2>3, PeriodType DEF Tends, Keeps, SweepAhead
  <2> QED
    BY <2>2, <2>3, <2>4 DEF Keeps, s
<1> QED
  BY <1>1, <1>2, <1>3

\* The envelope's counter starts over when it comes to its period; if it is past
\* it, that is remembered until it has come round.
LEMMA EnvelopeTends ==
  ASSUME NEW x \in Chan, NEW r \in Regs, NEW l \in BOOLEAN,
         EnvelopeAhead(x, r, l)
  PROVE  LET e == EnvelopeStep(x, r)
         IN Tends(x, e) /\ EnvelopeAhead(e, r, l /\ e.envelope_cnt # 0)
<1> DEFINE e   == EnvelopeStep(x, r)
           cnt == (x.envelope_cnt + 1) % CntMod
           v   == IF r.add THEN Louder(x.volume) ELSE Softer(x.volume)
<1>1. /\ x.envelope_cnt \in Byte /\ r.period \in Byte /\ CntMod \in Nat \ {0}
      /\ x.volume \in 0 .. MaxVolume /\ MaxVolume \in Nat
  BY ChannelsAssumption DEF Chan, Regs
<1>2. /\ cnt \in Byte
      /\ x.envelope_cnt + 1 < CntMod => cnt = x.envelope_cnt + 1
      /\ x.envelope_cnt + 1 = CntMod => cnt = 0
  BY <1>1 DEF Byte
<1>3. CASE Wave \/ ~x.active \/ r.period = 0
  BY <1>1, <1>3 DEF EnvelopeStep, Tends, EnvelopeAhead, Byte
<1>4. CASE ~(Wave \/ ~x.active \/ r.period = 0) /\ cnt # r.period
  <2>1. e = [x EXCEPT !.envelope_cnt = cnt]
    BY <1>4 DEF EnvelopeStep
  <2> HIDE DEF e, cnt
  <2>2. /\ e \in Chan /\ e.envelope_cnt = cnt
        /\ e.active = x.active /\ e.length = x.length
        /\ e.sweep_active = x.sweep_active
        /\ e.sweep_cnt = x.sweep_cnt /\ e.sweep_next = x.sweep_next
    BY <1>2, <2>1 DEF Chan
  <2>3. Tends(x, e)
    BY <2>2 DEF Tends, SweepAhead
  <2>4. EnvelopeAhead(e, r, l /\ e.envelope_cnt # 0)
    BY <1>1, <1>2, <1>4, <2>2 DEF EnvelopeAhead, Byte
  <2> QED
    BY <2>3, <2>4 DEF e
<1>5. CASE ~(Wave \/ ~x.active \/ r.period = 0) /\ cnt = r.period
  <2>1. e = [x EXCEPT !.envelope_cnt = 0, !.volume = v]
    BY <1>5 DEF EnvelopeStep
  <2>2. v \in 0 .. MaxVolume
    BY <1>1 DEF Louder, Softer
  <2>3. 0 \in Byte
    BY <1>1 DEF Byte
  <2> HIDE DEF e, cnt, v
  <2>4. /\ e \in Chan /\ e.envelope_cnt = 0
        /\ e.active = x.active /\ e.length = x.length
        /\ e.sweep_active = x.sweep_active
        /\ e.sweep_cnt = x.sweep_cnt /\ e.sweep_next = x.sweep_next
    BY <2>1, <2>2, <2>3 DEF Chan
  <2>5. Tends(x, e)
    BY <2>4 DEF Tends, SweepAhead
  <2>6. EnvelopeAhead(e, r, l /\ e.envelope_cnt # 0)
    BY <1>1, <2>4 DEF EnvelopeAhead, Byte
  <2> QED
    BY <2>5, <2>6 DEF e
<1> QED
  BY <1>3, <1>4, <1>5

-----------------------------------------------------------------------------

\* The invariant, with the two ranges that the type holds already left out.
LEMMA IInvParts ==
  IInv <=> /\ TypeOK /\ SweepOnOne /\ PlaysWithReason
           /\ SweepAhead(c) /\ EnvelopeAhead(c, nr, late)
BY DEF IInv, TypeOK, Chan, StaysInRange, SweepAhead, EnvelopeInTime, EnvelopeAhead

\* The same of the next state.
LEMMA IInvPartsNext ==
  /\ TypeOK' /\ SweepOnOne' /\ PlaysWithReason'
  /\ SweepAhead(c') /\ EnvelopeAhead(c', nr', late')
  => IInv'
BY DEF IInv, TypeOK, Chan, StaysInRange, SweepAhead, EnvelopeInTime, EnvelopeAhead

\* The registers as the program starts and after the power was turned off.
LEMMA ClearedType == Cleared \in Regs
BY ChannelsAssumption DEF Cleared, Regs, Byte

\* It holds at the start: every channel is silent.
LEMMA InitIInv == Init => IInv
<1> SUFFICES ASSUME Init PROVE IInv
  OBVIOUS
<1> DEFINE p == CHOOSE q \in Periods : q # 0
<1>1. p \in Periods
  <2>1. \E q \in Periods : q # 0
    BY ChannelsAssumption
  <2> QED
    BY <2>1, Zenon
<1>2. p \in Byte /\ 0 \in Byte /\ 0 \in 0 .. MaxVolume /\ MaxVolume \in 0 .. MaxVolume
  <2> HIDE DEF p
  <2> QED
    BY <1>1, ChannelsAssumption DEF Byte
<1>3. nr \in Regs
  <2>1. nr = [Cleared EXCEPT !.volume = IF Sweeps THEN MaxVolume ELSE 0,
                             !.period = IF Sweeps THEN p ELSE 0]
    BY DEF Init
  <2> HIDE DEF p
  <2> QED
    BY <1>2, <2>1, ClearedType DEF Regs
<1>4. c \in Chan /\ ~c.active /\ ~c.sweep_active
  <2>1. c = [active |-> FALSE, length |-> 0, frequency |-> 0, written |-> BootFreq,
             volume |-> 0, envelope_cnt |-> 0, sweep_active |-> FALSE,
             sweep_cnt |-> 0, sweep_neg |-> FALSE, sweep_next |-> 0, shadow |-> 0]
    BY DEF Init
  <2>2. 0 \in 0 .. MaxLength /\ 0 \in 0 .. MaxFreq /\ 0 \in 0 .. MaxVolume /\ 0 \in Byte
    BY ChannelsAssumption DEF Byte
  <2>3. BootFreq \in 0 .. MaxFreq
    BY ChannelsAssumption DEF BootFreq
  <2> HIDE DEF p
  <2> QED
    BY <2>1, <2>2, <2>3 DEF Chan
<1>5. TypeOK
  <2>1. /\ game \in Games /\ fs_cycles_idx = 0
        /\ power = TRUE /\ late = FALSE /\ quiet = FALSE
    BY Zenon DEF Init
  <2>2. 0 \in 0 .. 7
    OBVIOUS
  <2> QED
    BY <1>3, <1>4, <2>1, <2>2, Zenon DEF TypeOK
<1> QED
  BY <1>4, <1>5, IInvParts
     DEF SweepOnOne, PlaysWithReason, SweepAhead, EnvelopeAhead

\* One module after another.
LEMMA TendsTransitive ==
  ASSUME NEW x, NEW y, NEW z, Tends(x, y), Tends(y, z)
  PROVE  Tends(x, z)
BY DEF Tends

LEMMA TendsReflexive == \A x \in Chan : Tends(x, x)
BY DEF Tends

\* A step that leaves the converter and the power on and on which the channel
\* tends keeps the invariant, if the envelope's counter is looked after.
LEMMA TendingKeepsIInv ==
  ASSUME IInv, Tends(c, c'), UNCHANGED <<game, power>>,
         nr' \in Regs, DacOn => DacOn', fs_cycles_idx' \in 0 .. 7, late' \in BOOLEAN, quiet' \in BOOLEAN,
         EnvelopeAhead(c', nr', late')
  PROVE  IInv'
<1>1. TypeOK'
  BY DEF IInv, TypeOK, Tends
<1>2. SweepOnOne'
  BY DEF IInv, SweepOnOne, Sweeps, Tends
<1>3. PlaysWithReason'
  BY DEF IInv, PlaysWithReason, Tends
<1>4. SweepAhead(c')
  BY IInvParts DEF Tends
<1> QED
  BY <1>1, <1>2, <1>3, <1>4, IInvPartsNext

\* sound_step_fs: the three modules in their turn.
LEMMA FrameStepKeepsIInv == IInv /\ FrameStep => IInv'
<1> SUFFICES ASSUME IInv, FrameStep PROVE IInv'
  OBVIOUS
<1> DEFINE idx == (fs_cycles_idx + 1) % 8
           x   == IF idx % 2 = 0 THEN LengthStep(c, nr) ELSE c
           y   == IF Sweeps /\ idx \in {2, 6} THEN SweepStep(x, nr) ELSE x
           z   == IF idx = 7 THEN EnvelopeStep(y, nr) ELSE y
<1>1. c \in Chan /\ nr \in Regs /\ late \in BOOLEAN /\ quiet \in BOOLEAN
  BY DEF IInv, TypeOK
<1>2. /\ c' = z /\ late' = (late /\ z.envelope_cnt # 0)
      /\ UNCHANGED <<game, power, nr, quiet>> /\ fs_cycles_idx' = idx
  BY DEF FrameStep
<1>3. idx \in 0 .. 7
  BY DEF IInv, TypeOK
<1> HIDE DEF idx
<1>4. Tends(c, x) /\ x.envelope_cnt = c.envelope_cnt
  BY <1>1, LengthTends, TendsReflexive
<1>5. x \in Chan
  BY <1>4 DEF Tends
<1> HIDE DEF x
<1>6. Tends(x, y) /\ y.envelope_cnt = x.envelope_cnt
  BY <1>1, <1>5, SweepTends, TendsReflexive
<1>7. y \in Chan
  BY <1>6 DEF Tends
<1>8. EnvelopeAhead(y, nr, late)
  BY <1>4, <1>6, IInvParts DEF EnvelopeAhead, Tends
<1> HIDE DEF y
<1>9. Tends(y, z) /\ EnvelopeAhead(z, nr, late /\ z.envelope_cnt # 0)
  <2>1. CASE idx = 7
    BY <1>1, <1>7, <1>8, <2>1, EnvelopeTends
  <2>2. CASE idx # 7
    BY <1>1, <1>7, <1>8, <2>2, TendsReflexive, ChannelsAssumption
       DEF EnvelopeAhead, Chan, Regs, Byte
  <2> QED
    BY <2>1, <2>2
<1> HIDE DEF z
<1>10. Tends(c, c')
  BY <1>2, <1>4, <1>6, <1>9, TendsTransitive
<1>11. EnvelopeAhead(c', nr', late') /\ late' \in BOOLEAN
  BY <1>2, <1>9
<1>12. DacOn => DacOn'
  BY <1>2 DEF DacOn, Wave
<1> QED
  BY <1>1, <1>2, <1>3, <1>10, <1>11, <1>12, TendingKeepsIInv

\* 0xFF10
LEMMA WriteSweepKeepsIInv == IInv /\ WriteSweep => IInv'
<1> SUFFICES ASSUME IInv, WriteSweep PROVE IInv'
  OBVIOUS
<1>1. c \in Chan /\ nr \in Regs /\ late \in BOOLEAN
  BY DEF IInv, TypeOK
<1>2. PICK p \in Periods, n \in BOOLEAN, s \in Shifts :
        nr' = [nr EXCEPT !.sweep = p, !.negate = n, !.shift = s]
  BY DEF WriteSweep
<1>3. p \in Byte /\ s \in 0 .. 7
  BY ChannelsAssumption DEF Byte
<1>4. nr' \in Regs /\ nr'.period = nr.period /\ nr'.dac = nr.dac
      /\ nr'.volume = nr.volume /\ nr'.add = nr.add
  BY <1>1, <1>2, <1>3 DEF Regs
<1>5. /\ c' = [c EXCEPT !.active = c.active /\ ~(~nr'.negate /\ c.sweep_neg)]
      /\ UNCHANGED <<game, fs_cycles_idx, power, late, quiet>>
  BY DEF WriteSweep, Writing
<1>6. Keeps(c, c')
  BY <1>1, <1>5 DEF Chan, Keeps
<1>7. Tends(c, c') /\ EnvelopeAhead(c', nr', late')
  BY <1>4, <1>5, <1>6, IInvParts DEF Keeps, Tends, SweepAhead, EnvelopeAhead
<1>8. DacOn => DacOn'
  BY <1>4, <1>5 DEF DacOn, Wave
<1> QED
  BY <1>1, <1>4, <1>5, <1>7, <1>8, TendingKeepsIInv DEF IInv, TypeOK

\* 0xFF1A: channel three is turned off with its converter.
LEMMA WriteDacKeepsIInv == IInv /\ WriteDac => IInv'
<1> SUFFICES ASSUME IInv, WriteDac PROVE IInv'
  OBVIOUS
<1>1. c \in Chan /\ nr \in Regs /\ late \in BOOLEAN
  BY DEF IInv, TypeOK
<1>2. PICK d \in BOOLEAN : nr' = [nr EXCEPT !.dac = d]
  BY DEF WriteDac
<1>3. nr' \in Regs /\ nr'.period = nr.period
  BY <1>1, <1>2 DEF Regs
<1>4. /\ c' = [c EXCEPT !.active = c.active /\ nr'.dac]
      /\ Wave /\ UNCHANGED <<game, fs_cycles_idx, power, late, quiet>>
  BY DEF WriteDac, Writing
<1>5. Keeps(c, c') /\ (c'.active => nr'.dac)
  <2>1. (c.active /\ nr'.dac) \in BOOLEAN
    OBVIOUS
  <2> QED
    BY <1>1, <1>4, <2>1 DEF Chan, Keeps
<1>6. TypeOK'
  BY <1>3, <1>4, <1>5 DEF IInv, TypeOK, Keeps
<1>7. PlaysWithReason'
  BY <1>4, <1>5 DEF IInv, PlaysWithReason, DacOn, Wave, Keeps
<1>8. SweepAhead(c') /\ EnvelopeAhead(c', nr', late') /\ SweepOnOne'
  BY <1>3, <1>4, <1>5, IInvParts
     DEF Keeps, SweepAhead, EnvelopeAhead, SweepOnOne, Sweeps
<1> QED
  BY <1>6, <1>7, <1>8, IInvPartsNext

\* Loading a length counter, with the power on or off: it is not 0 after that.
LEMMA LoadTends ==
  ASSUME NEW x \in Chan, NEW load \in 0 .. MaxLength - 1
  PROVE  LET y == [x EXCEPT !.length = MaxLength - load]
         IN Tends(x, y) /\ y.envelope_cnt = x.envelope_cnt /\ y.active = x.active
<1> DEFINE y == [x EXCEPT !.length = MaxLength - load]
<1>1. MaxLength - load \in 1 .. MaxLength
  BY ChannelsAssumption
<1>2. /\ y \in Chan /\ y.length > 0 /\ y.active = x.active
      /\ y.envelope_cnt = x.envelope_cnt /\ y.sweep_active = x.sweep_active
      /\ y.sweep_cnt = x.sweep_cnt /\ y.sweep_next = x.sweep_next
  BY <1>1, ChannelsAssumption DEF Chan
<1> HIDE DEF y
<1>3. Tends(x, y)
  BY <1>2 DEF Tends, SweepAhead
<1> QED
  BY <1>2, <1>3 DEF y

LEMMA WriteLengthKeepsIInv == IInv /\ (WriteLength \/ LengthWhileOff) => IInv'
<1> SUFFICES ASSUME IInv, WriteLength \/ LengthWhileOff PROVE IInv'
  OBVIOUS
<1>1. c \in Chan /\ TypeOK
  BY DEF IInv, TypeOK
<1>2. PICK load \in 0 .. MaxLength - 1 : c' = [c EXCEPT !.length = MaxLength - load]
  BY DEF WriteLength, LengthWhileOff
<1>3. UNCHANGED <<game, fs_cycles_idx, power, nr, late, quiet>>
  BY DEF WriteLength, LengthWhileOff, Writing
<1>4. Tends(c, c') /\ c'.envelope_cnt = c.envelope_cnt /\ c'.active = c.active
  BY <1>1, <1>2, LoadTends
<1>5. EnvelopeAhead(c', nr', late')
  BY <1>3, <1>4, IInvParts DEF EnvelopeAhead
<1>6. DacOn => DacOn'
  BY <1>3 DEF DacOn, Wave
<1> QED
  BY <1>1, <1>3, <1>4, <1>5, <1>6, TendingKeepsIInv DEF TypeOK

\* 0xFF12 and the like: a counter past its new period is remembered.
LEMMA WriteEnvelopeKeepsIInv == IInv /\ WriteEnvelope => IInv'
<1> SUFFICES ASSUME IInv, WriteEnvelope PROVE IInv'
  OBVIOUS
<1>1. c \in Chan /\ nr \in Regs
  BY DEF IInv, TypeOK
<1>2. PICK v \in Volumes, a \in BOOLEAN, p \in Periods :
        nr' = [nr EXCEPT !.volume = v, !.add = a, !.period = p]
  BY DEF WriteEnvelope
<1>3. p \in Byte /\ v \in 0 .. MaxVolume
  BY ChannelsAssumption DEF Byte
<1>4. nr' \in Regs
  BY <1>1, <1>2, <1>3 DEF Regs
<1>5. /\ c' = [c EXCEPT !.active = c.active /\ (nr'.volume # 0 \/ nr'.add)]
      /\ late' = (c.envelope_cnt # 0 /\ c.envelope_cnt >= nr'.period)
      /\ ~Wave /\ UNCHANGED <<game, fs_cycles_idx, power, quiet>>
  BY DEF WriteEnvelope, Writing
<1>6. Keeps(c, c') /\ (c'.active => nr'.volume # 0 \/ nr'.add)
  <2>1. (c.active /\ (nr'.volume # 0 \/ nr'.add)) \in BOOLEAN
    OBVIOUS
  <2> QED
    BY <1>1, <1>5, <2>1 DEF Chan, Keeps
<1>7. TypeOK'
  BY <1>4, <1>5, <1>6 DEF IInv, TypeOK, Keeps
<1>8. PlaysWithReason'
  BY <1>5, <1>6 DEF IInv, PlaysWithReason, DacOn, Wave, Keeps
<1>9. EnvelopeAhead(c', nr', late')
  <2>1. c.envelope_cnt \in Byte /\ nr'.period \in Byte /\ CntMod \in Nat
    BY <1>1, <1>4, ChannelsAssumption DEF Chan, Regs
  <2> QED
    BY <1>5, <1>6, <2>1 DEF EnvelopeAhead, Keeps, Byte
<1>10. SweepAhead(c') /\ SweepOnOne'
  BY <1>5, <1>6, IInvParts DEF Keeps, SweepAhead, SweepOnOne, Sweeps
<1> QED
  BY <1>7, <1>8, <1>9, <1>10, IInvPartsNext

\* 0xFF13 and 0xFF18
LEMMA WriteFrequencyKeepsIInv == IInv /\ WriteFrequency => IInv'
<1> SUFFICES ASSUME IInv, WriteFrequency PROVE IInv'
  OBVIOUS
<1>1. c \in Chan /\ TypeOK
  BY DEF IInv, TypeOK
<1>2. PICK f \in Frequencies : c' = [c EXCEPT !.frequency = f, !.written = f]
  BY DEF WriteFrequency
<1>3. f \in 0 .. MaxFreq /\ UNCHANGED <<game, fs_cycles_idx, power, nr, late, quiet>>
  BY ChannelsAssumption DEF WriteFrequency, Writing
<1>4. Keeps(c, c')
  BY <1>1, <1>2, <1>3 DEF Chan, Keeps
<1>5. Tends(c, c') /\ EnvelopeAhead(c', nr', late')
  BY <1>3, <1>4, IInvParts DEF Keeps, Tends, SweepAhead, EnvelopeAhead
<1>6. DacOn => DacOn'
  BY <1>3 DEF DacOn, Wave
<1> QED
  BY <1>1, <1>3, <1>5, <1>6, TendingKeepsIInv DEF TypeOK

-----------------------------------------------------------------------------

\* The sweep of a triggered channel starts over.
LEMMA SweepStartedAhead ==
  ASSUME NEW x \in Chan, NEW r \in Regs
  PROVE  LET y == SweepStarted(x, r)
         IN /\ y \in Chan /\ SweepAhead(y)
            /\ y.length = x.length /\ y.envelope_cnt = x.envelope_cnt
<1> DEFINE s == SweepStarted(x, r)
           on == r.sweep # 0 \/ r.shift # 0
           y == [x EXCEPT !.shadow = x.frequency, !.sweep_cnt = 0,
                          !.sweep_neg = FALSE, !.sweep_next = Period(r),
                          !.sweep_active = on]
           z == SweepCalc(y, r)
<1>1. s = IF r.shift = 0 THEN y ELSE SetFrequency(z, NewFreq(y, r))
  BY DEF SweepStarted
<1>2. on \in BOOLEAN /\ x.frequency \in 0 .. MaxFreq
  BY DEF Chan
<1> HIDE DEF on, s
<1>3. /\ y \in Chan /\ y.length = x.length /\ y.envelope_cnt = x.envelope_cnt
      /\ y.sweep_cnt = 0 /\ y.sweep_next = Period(r)
  BY <1>2, PeriodType DEF Chan
<1> HIDE DEF y
<1>4. Keeps(y, y)
  BY <1>3 DEF Keeps
<1>5. Keeps(y, z) /\ z \in Chan
  BY <1>3, SweepCalcKeeps DEF Keeps
<1> HIDE DEF z
<1>6. NewFreq(y, r) \in Nat
  BY <1>3, NewFreqType
<1>7. Keeps(z, SetFrequency(z, NewFreq(y, r)))
  BY <1>5, <1>6, SetFrequencyKeeps
<1>8. Keeps(y, s)
  BY <1>1, <1>4, <1>5, <1>7, KeepsTransitive
<1>9. SweepAhead(s)
  BY <1>3, <1>8, PeriodType DEF Keeps, SweepAhead
<1> QED
  BY <1>3, <1>8, <1>9 DEF Keeps, s

\* A triggered channel plays with its converter on and time left, and its
\* counters start over.
LEMMA TriggeredPlays ==
  ASSUME NEW x \in Chan, NEW r \in Regs
  PROVE  LET t == Triggered(x, r)
         IN /\ t \in Chan
            /\ t.active => DacOn /\ t.length > 0
            /\ t.envelope_cnt = 0
            /\ Sweeps => SweepAhead(t)
            /\ ~Sweeps => t.sweep_active = x.sweep_active
<1> DEFINE a == [x EXCEPT !.active = TRUE]
           b == [a EXCEPT !.length = IF a.length = 0 THEN MaxLength ELSE a.length]
           y == [b EXCEPT !.volume = r.volume, !.envelope_cnt = 0]
           z == IF Sweeps THEN SweepStarted(y, r) ELSE y
           w == [z EXCEPT !.active = z.active /\ DacOn]
           t == Triggered(x, r)
<1>1. y = Restarted(Reloaded([x EXCEPT !.active = TRUE]), r)
  BY DEF Reloaded, Restarted
<1>2. t = IF fs_cycles_idx % 2 = 0 /\ w.length = MaxLength
          THEN LengthStep(w, r) ELSE w
  <2> HIDE DEF y
  <2> QED
    BY <1>1, Zenon DEF Triggered
<1> HIDE DEF t
<1>3. /\ a \in Chan /\ a.length = x.length /\ a.sweep_active = x.sweep_active
      /\ a.sweep_cnt = x.sweep_cnt /\ a.sweep_next = x.sweep_next
  BY DEF Chan
<1> HIDE DEF a
<1>4. /\ b \in Chan /\ b.length > 0 /\ b.sweep_active = x.sweep_active
      /\ b.sweep_cnt = x.sweep_cnt /\ b.sweep_next = x.sweep_next
  BY <1>3, ChannelsAssumption DEF Chan
<1> HIDE DEF b
<1>5. r.volume \in 0 .. MaxVolume /\ 0 \in Byte
  BY ChannelsAssumption DEF Regs, Byte
<1>6. /\ y \in Chan /\ y.length > 0 /\ y.envelope_cnt = 0
      /\ y.sweep_active = x.sweep_active
      /\ y.sweep_cnt = x.sweep_cnt /\ y.sweep_next = x.sweep_next
  BY <1>4, <1>5 DEF Chan
<1> HIDE DEF y
<1>7. /\ z \in Chan /\ z.length > 0 /\ z.envelope_cnt = 0
      /\ Sweeps => SweepAhead(z)
      /\ ~Sweeps => /\ z.sweep_active = x.sweep_active
                    /\ z.sweep_cnt = x.sweep_cnt /\ z.sweep_next = x.sweep_next
  BY <1>6, SweepStartedAhead
<1> HIDE DEF z
<1>8. PICK on \in BOOLEAN : on = (z.active /\ DacOn)
  OBVIOUS
<1>9. /\ w \in Chan /\ w.length > 0 /\ w.envelope_cnt = 0
      /\ w.active => z.active /\ DacOn
      /\ w.sweep_active = z.sweep_active
      /\ w.sweep_cnt = z.sweep_cnt /\ w.sweep_next = z.sweep_next
  <2>1. w = [z EXCEPT !.active = on]
    BY <1>8, Zenon
  <2>2. w \in Chan
    BY <1>7, <2>1 DEF Chan
  <2>3. w.active = on
    BY <1>7, <2>1 DEF Chan
  <2> QED
    BY <1>7, <1>8, <2>1, <2>2, <2>3 DEF Chan
<1> HIDE DEF w
<1>10. Tends(w, t) /\ t.envelope_cnt = 0
  BY <1>2, <1>9, LengthTends, TendsReflexive
<1> QED
  BY <1>7, <1>9, <1>10 DEF Tends, SweepAhead, t

\* 0xFF14 and the like: extra clock, frequency and trigger.
LEMMA WriteControlKeepsIInv == IInv /\ WriteControl => IInv'
<1> SUFFICES ASSUME IInv, WriteControl PROVE IInv'
  OBVIOUS
<1>1. /\ c \in Chan /\ nr \in Regs /\ late \in BOOLEAN /\ quiet \in BOOLEAN
      /\ fs_cycles_idx \in 0 .. 7 /\ SweepAhead(c) /\ EnvelopeAhead(c, nr, late)
  BY IInvParts DEF TypeOK
<1>2. power /\ UNCHANGED <<game, fs_cycles_idx, power, quiet>>
  BY DEF WriteControl, Writing
<1> DEFINE r(enable) == [nr EXCEPT !.length_enable = enable]
           e(enable) == ExtraClock(c, r(enable))
           x(enable) == [e(enable) EXCEPT !.frequency = c.written]
<1>3. PICK enable \in BOOLEAN, trigger \in BOOLEAN :
        /\ nr' = r(enable)
        /\ c' = IF trigger THEN Triggered(x(enable), r(enable)) ELSE x(enable)
        /\ late' = (late /\ ~trigger)
  BY DEF WriteControl
<1>4. /\ r(enable) \in Regs /\ r(enable).period = nr.period
      /\ r(enable).volume = nr.volume /\ r(enable).add = nr.add
      /\ r(enable).dac = nr.dac
  BY <1>1 DEF Regs
<1>5. DacOn => DacOn'
  BY <1>2, <1>3, <1>4 DEF DacOn, Wave
<1> HIDE DEF r
<1>6. Tends(c, e(enable)) /\ e(enable).envelope_cnt = c.envelope_cnt
  BY <1>1, <1>4, LengthTends, TendsReflexive DEF ExtraClock
<1> HIDE DEF e
<1>7. /\ Tends(e(enable), x(enable)) /\ x(enable).envelope_cnt = c.envelope_cnt
      /\ x(enable) \in Chan
  <2>1. e(enable) \in Chan /\ c.written \in 0 .. MaxFreq
    BY <1>1, <1>6 DEF Tends, Chan
  <2>2. Keeps(e(enable), x(enable))
    BY <2>1 DEF Keeps, Chan
  <2> QED
    BY <1>6, <2>2 DEF Keeps, Tends, SweepAhead
<1> HIDE DEF x
<1>8. Tends(c, x(enable))
  BY <1>6, <1>7, TendsTransitive
<1>9. CASE ~trigger
  <2>1. c' = x(enable) /\ late' = late
    BY <1>1, <1>3, <1>9
  <2>2. EnvelopeAhead(c', nr', late')
    BY <1>1, <1>3, <1>4, <1>7, <1>8, <2>1 DEF EnvelopeAhead, Tends
  <2> QED
    BY <1>1, <1>2, <1>3, <1>4, <1>5, <1>8, <2>1, <2>2, TendingKeepsIInv
<1>10. CASE trigger
  <2>1. c' = Triggered(x(enable), r(enable)) /\ late' = FALSE
    BY <1>3, <1>10
  <2>2. /\ c' \in Chan
        /\ c'.active => DacOn /\ c'.length > 0
        /\ c'.envelope_cnt = 0
        /\ Sweeps => SweepAhead(c')
        /\ ~Sweeps => c'.sweep_active = x(enable).sweep_active
    BY <1>4, <1>7, <2>1, TriggeredPlays
  <2>3. TypeOK'
    BY <1>2, <1>3, <1>4, <2>1, <2>2 DEF IInv, TypeOK
  <2>4. PlaysWithReason'
    BY <1>2, <1>5, <2>2 DEF PlaysWithReason
  <2>5. SweepOnOne'
    BY <1>2, <1>8, <2>2 DEF IInv, SweepOnOne, Sweeps, Tends
  <2>6. SweepAhead(c')
    BY <1>2, <2>2, <2>5 DEF SweepOnOne, Sweeps, SweepAhead
  <2>7. EnvelopeAhead(c', nr', late')
    <3>1. nr'.period \in Nat
      BY <1>3, <1>4, ChannelsAssumption DEF Regs, Byte
    <3> QED
      BY <2>2, <3>1 DEF EnvelopeAhead
  <2> QED
    BY <2>3, <2>4, <2>5, <2>6, <2>7, IInvPartsNext
<1> QED
  BY <1>3, <1>9, <1>10

\* 0xFF26: everything is silent, and then the registers are empty.
LEMMA PowerOffKeepsIInv == IInv /\ PowerOff => IInv'
<1> SUFFICES ASSUME IInv, PowerOff PROVE IInv'
  OBVIOUS
<1>1. TypeOK /\ c \in Chan
  BY DEF IInv, TypeOK
<1> DEFINE l == IF game.cgb /\ game.channel = 4 THEN 0 ELSE c.length
<1>2. /\ c' = [c EXCEPT !.active = FALSE, !.written = 0, !.length = l]
      /\ power' = FALSE /\ nr' = Cleared /\ late' = FALSE
      /\ UNCHANGED <<game, fs_cycles_idx, quiet>>
  BY DEF PowerOff
<1>3. l \in 0 .. MaxLength /\ 0 \in 0 .. MaxFreq
  BY <1>1, ChannelsAssumption DEF Chan
<1> HIDE DEF l
<1>4. c' \in Chan /\ ~c'.active /\ c'.sweep_active = c.sweep_active
  BY <1>1, <1>2, <1>3 DEF Chan
<1>5. TypeOK'
  BY <1>1, <1>2, <1>4, ClearedType DEF TypeOK
<1> QED
  BY <1>2, <1>4, <1>5, IInvPartsNext
     DEF IInv, SweepOnOne, Sweeps, PlaysWithReason, SweepAhead, EnvelopeAhead

\* The power comes, or the game leaves the channel alone.
LEMMA RestKeepsIInv == IInv /\ (PowerOn \/ Rest \/ UNCHANGED vars) => IInv'
<1> SUFFICES ASSUME IInv, PowerOn \/ Rest \/ UNCHANGED vars PROVE IInv'
  OBVIOUS
<1>1. UNCHANGED <<game, c, nr, late>>
  BY DEF PowerOn, Rest, vars, channel
<1>2. /\ fs_cycles_idx' \in 0 .. 7 /\ quiet' \in BOOLEAN
      /\ power' \in BOOLEAN /\ (power => power')
  <2>1. TypeOK
    BY DEF IInv
  <2>2. CASE PowerOn
    BY <2>1, <2>2 DEF TypeOK, PowerOn
  <2>3. CASE Rest \/ UNCHANGED vars
    BY <2>1, <2>3 DEF TypeOK, Rest, vars
  <2> QED
    BY <2>2, <2>3
<1>3. TypeOK'
  BY <1>1, <1>2 DEF IInv, TypeOK
<1>4. PlaysWithReason' /\ SweepOnOne'
  BY <1>1, <1>2 DEF IInv, PlaysWithReason, DacOn, Wave, SweepOnOne, Sweeps
<1> QED
  BY <1>1, <1>3, <1>4, IInvParts, IInvPartsNext

\* Every step keeps it.
LEMMA NextIInv == IInv /\ [Next]_vars => IInv'
BY FrameStepKeepsIInv, WriteSweepKeepsIInv, WriteDacKeepsIInv,
   WriteLengthKeepsIInv, WriteEnvelopeKeepsIInv, WriteFrequencyKeepsIInv,
   WriteControlKeepsIInv, PowerOffKeepsIInv, RestKeepsIInv
   DEF Next, sound_write_reg

LEMMA IInvHolds == Spec => []IInv
BY InitIInv, NextIInv, PTL DEF Spec

-----------------------------------------------------------------------------

\* Every field of the channel and its registers keeps its type, whatever games
\* write: the frequency its 11 bits, the volume its four, the counters theirs.
THEOREM Typing == Spec => []TypeOK
<1>1. IInv => TypeOK
  BY DEF IInv
<1> QED
  BY <1>1, IInvHolds, PTL

\* For every length: a channel that plays has time left, its converter is on and
\* so is the power (sound_length_ctrl_step_ch, sound_write_reg).
THEOREM PlaysOnlyWithReason == Spec => []PlaysWithReason
<1>1. IInv => PlaysWithReason
  BY DEF IInv
<1> QED
  BY <1>1, IInvHolds, PTL

\* For every highest frequency and volume, the sweep and the envelope stay in
\* their ranges, and the sweep's counter short of its period (sound_sweep_step,
\* sound_set_frequency, sound_envelope_step).
THEOREM NeverOutOfRange == Spec => []StaysInRange
<1>1. IInv => StaysInRange
  BY DEF IInv
<1> QED
  BY <1>1, IInvHolds, PTL

\* For every width of the counter and every period, the envelope's counter is
\* short of its period unless the game just set one it is past
\* (sound_envelope_step, 0xFF12).
THEOREM EnvelopeNeverMissed == Spec => []EnvelopeInTime
<1>1. IInv => EnvelopeInTime
  BY DEF IInv
<1> QED
  BY <1>1, IInvHolds, PTL
=============================================================================
