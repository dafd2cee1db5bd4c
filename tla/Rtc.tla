--------------------------------- MODULE Rtc ---------------------------------
(***************************************************************************)
(* The clock of an MBC3 cartridge in lib/mmu.c.  It is not counted: it is  *)
(* the host's time less `rtc_time', the moment at which the clock would    *)
(* have stood at zero, so that it goes on while the program is not         *)
(* running.  Writing a register moves rtc_time.                            *)
(***************************************************************************)
EXTENDS Integers

CONSTANTS Sixty,        \* 60: seconds of a minute and minutes of an hour
          TwentyFour,   \* 24: hours of a day
          Epoch,        \* the host's time at the start, late enough for
                        \* rtc_time to stay positive
          MaxTime,      \* bounds of the model: the host's time, and how far
          MinRtc        \* back registers can be set

ASSUME RtcAssumption ==
  /\ Sixty \in 1 .. 256 /\ TwentyFour \in 1 .. 256
  /\ Epoch \in Nat /\ MaxTime \in Nat /\ Epoch <= MaxTime
  /\ MinRtc \in Nat

Hour == Sixty * Sixty
Day  == Hour * TwentyFour

VARIABLES now,              \* time(NULL)
          rtc_mode,         \* the register at 0xA000, "ram" when it is RAM
          rtc_time,
          rtc_latch_time,
          expects           \* history: what each register was set to, or showed,
                            \* in the second it is set in; {} when not followed

rtc == <<now, rtc_mode, rtc_time, rtc_latch_time, expects>>

Registers == {"seconds", "minutes", "hours", "days", "high"}

\* C's remainder has the sign of the dividend.
CMod(a, b) == IF a >= 0 THEN a % b ELSE 0 - ((0 - a) % b)
CDiv(a, b) == IF a >= 0 THEN a \div b ELSE 0 - ((0 - a) \div b)

\* What a register of the clock shows `diff' seconds after zero.
Shows(register, diff) ==
  CASE register = "seconds" -> CMod(diff, Sixty) % 256
    [] register = "minutes" -> CMod(CDiv(diff, Sixty), Sixty) % 256
    [] register = "hours"   -> CMod(CDiv(diff, Hour), TwentyFour) % 256
    [] register = "days"    -> CDiv(diff, Day) % 256
    [] register = "high"    -> (CDiv(diff, Day) \div 256) % 256

\* The byte mmu_read returns for a register: the clock as it was latched.
Reading(register) == Shows(register, rtc_latch_time - rtc_time)

\* The parts of a time, in seconds.
Secs(t)  == t % Sixty
Mins(t)  == (t - Secs(t)) % Hour
Hours(t) == (t - Mins(t) - Secs(t)) % Day
Days(t)  == t - Hours(t) - Mins(t) - Secs(t)

\* d & 0xFF00 and d & 0xFEFF of a number of days.
High(d)        == (d % 65536) - (d % 256)
WithoutBit8(d) == (d % 65536) - 256 * ((d \div 256) % 2)

\* (a slip: the old minutes are not taken off)
AdjustedOnTop(register, t, r, v) ==
  LET d == CDiv(Days(t) - Days(r), Day)
  IN CASE register = "seconds" -> r - Secs(r) + (Secs(t) - v)
       [] register = "minutes" -> r + (Mins(t) - v * Sixty)
       [] register = "hours"   -> r - Hours(r) + (Hours(t) - v * Sixty * TwentyFour)
       [] register = "days"    ->
            r - Days(r) + (Days(t) - (High(d) + v) * Day)
       [] register = "high"    ->
            r - Days(r) + (Days(t) - (WithoutBit8(d) + 256 * v) * Day)

\* rtc_time after `v' is written to a register at time t.  (An hour is taken
\* for 60 * 24 seconds.)  The carry and halt bits of the high byte are left out:
\* it is written with 0 or 1.
Adjusted(register, t, r, v) ==
  LET d == CDiv(Days(t) - Days(r), Day)
  IN CASE register = "seconds" -> r - Secs(r) + (Secs(t) - v)
       [] register = "minutes" -> r - Mins(r) + (Mins(t) - v * Sixty)
       [] register = "hours"   -> r - Hours(r) + (Hours(t) - v * Sixty * TwentyFour)
       [] register = "days"    ->
            r - Days(r) + (Days(t) - (High(d) + v) * Day)
       [] register = "high"    ->
            r - Days(r) + (Days(t) - (WithoutBit8(d) + 256 * v) * Day)

\* The seconds of now and of rtc_time do not borrow from the minutes, nor the
\* minutes from the hours, nor the hours from the days.
NoBorrow ==
  /\ Secs(now) >= Secs(rtc_time)
  /\ Mins(now) >= Mins(rtc_time)
  /\ Hours(now) >= Hours(rtc_time)

\* The number of days fits in the nine bits the hardware has for it.
NoOverflow == Days(now) - Days(rtc_time) < 512 * Day

\* The clock as a latch in this second shows it.
Showing == [register \in Registers |-> Shows(register, now - rtc_time)]

RtcInit == /\ now = Epoch /\ rtc_mode = "ram" /\ rtc_time = Epoch
           /\ rtc_latch_time = 0 /\ expects = {}

Tick == /\ now < MaxTime /\ now' = now + 1
        /\ expects' = {}
        /\ UNCHANGED <<rtc_mode, rtc_time, rtc_latch_time>>

Latch == rtc_latch_time' = now /\ UNCHANGED <<now, rtc_mode, rtc_time, expects>>

\* 0xA000 shows a register, or the RAM.
Show(what) == rtc_mode' = what /\ UNCHANGED <<now, rtc_time, rtc_latch_time, expects>>

\* The written register is followed, but for the hours, and so are the others,
\* when none borrows from the next.
SetRegister(v) ==
  /\ rtc_time' = Adjusted(rtc_mode, now, rtc_time, v)
  /\ rtc_time' >= MinRtc
  /\ expects' = IF rtc_mode # "hours" /\ NoBorrow /\ NoOverflow
                THEN {[e EXCEPT ![rtc_mode] = v] :
                        e \in IF expects = {} THEN {Showing} ELSE expects}
                ELSE {}
  /\ UNCHANGED <<now, rtc_mode, rtc_latch_time>>
=============================================================================
