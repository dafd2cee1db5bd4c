------------------------------- MODULE Clock -------------------------------
(***************************************************************************)
(* The cycle counter and the two clocks of lib/cycles.c: the pause that    *)
(* keeps the emulation at the speed of the hardware, and the hard sync.    *)
(*                                                                         *)
(* Every device keeps the count at which it acts next and cycles_step      *)
(* compares it FOR EQUALITY after each increment by 4: a deadline that is  *)
(* already past, or off the multiples of 4, never comes.                   *)
(***************************************************************************)
EXTENDS Naturals

CONSTANTS Normal,    \* 16384: cycles.step, the cycles between two pauses
          Paces,     \* 1/4, 1/2, 1, 2 and 4 times Normal
          HsFirst,   \* 70224: the first hard sync
          HsPeriod   \* 16384: cycles between two hard syncs

\* A number of cycles that deadlines are counted in.
Period(n) == n \in Nat /\ n > 0 /\ n % 4 = 0

ASSUME ClockAssumption ==
  /\ Normal \in Paces /\ \A p \in Paces : Period(p)
  /\ Period(HsFirst) /\ Period(HsPeriod)

VARIABLES
  cnt,       \* cycles.cnt
  double,    \* global_cpu_double_speed
  pace,      \* the step at normal CPU speed: global_emulation_speed
  next,      \* cycles.next, the next pause
  hs_next    \* cycles.hs_next, the next hard sync

clock == <<cnt, double, pace, next, hs_next>>

Scaled(n) == IF double THEN 2 * n ELSE n

\* A deadline that comes at `now' is set again, one period later.
Again(deadline, now, period) ==
  IF deadline = now THEN deadline + period ELSE deadline

\* A deadline that is still to come.
Ahead(deadline) == deadline > cnt /\ deadline % 4 = 0

ClockInit ==
  /\ cnt = 0 /\ double = FALSE
  /\ pace = Normal /\ next = Normal
  /\ hs_next = HsFirst

\* cycles.cnt += 4, the pause and the hard sync (SerialLink has what a hard
\* sync does).
ClockTick ==
  /\ cnt' = cnt + 4
  /\ next' = Again(next, cnt', Scaled(pace))
  /\ hs_next' = Again(hs_next, cnt', Scaled(HsPeriod))
  /\ UNCHANGED <<double, pace>>

\* The user doubles or halves the emulation speed: the pause under way keeps its
\* length.
cycles_change_emulation_speed ==
  /\ \E p \in Paces : (p = 2 * pace \/ pace = 2 * p) /\ pace' = p
  /\ UNCHANGED <<cnt, double, next, hs_next>>

\* A write to KEY1 (0xFF4D).  The flag is flipped and then set again by
\* cycles_set_speed(1): a game that is at double speed stays there.
cycles_set_speed ==
  /\ double' = TRUE
  /\ UNCHANGED <<cnt, pace, next, hs_next>>
=============================================================================
