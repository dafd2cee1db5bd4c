------------------------------- MODULE Timer -------------------------------
(***************************************************************************)
(* The divider and the timer of lib/timer.c, and the part of cycles_step   *)
(* that drives them.                                                       *)
(***************************************************************************)
EXTENDS Clock

CONSTANTS DivPeriod,    \* 256 cycles
          Threshold,    \* 1024, 16, 64, 256: cycles per count, by TAC & 3
          Bytes         \* the values games write to TIMA and TMA

ASSUME TimerAssumption ==
  /\ Period(DivPeriod)
  /\ Threshold \in [0 .. 3 -> Nat] /\ \A s \in 0 .. 3 : Period(Threshold[s])
  /\ Bytes \subseteq 0 .. 255

VARIABLES
  div,           \* timer.div, 0xFF04
  tima,          \* timer.cnt, 0xFF05
  tma,           \* timer.mod, 0xFF06
  active,        \* timer.active, bit 2 of 0xFF07
  threshold,     \* timer.threshold
  timer_next,    \* timer.next, when div counts
  sub_next,      \* timer.sub_next, when tima counts
  timer_irq      \* the last step raised the timer interrupt

timer == <<div, tima, tma, active, threshold, timer_next, sub_next>>

TimerInit ==
  /\ div = 0 /\ tima = 0 /\ tma = 0
  /\ active = FALSE /\ threshold = 0
  /\ timer_next = DivPeriod /\ sub_next = 0
  /\ timer_irq = FALSE

\* tima is compared with 255 after its increment; it holds more than a byte.
Counted == IF tima + 1 > 255 THEN tma ELSE tima + 1

TimerTick ==
  /\ timer_next' = Again(timer_next, cnt', DivPeriod)
  /\ div' = IF timer_next = cnt' THEN (div + 1) % 256 ELSE div
  /\ sub_next' = Again(sub_next, cnt', threshold)
  /\ tima' = IF sub_next = cnt' THEN Counted ELSE tima
  /\ timer_irq' = (sub_next = cnt' /\ tima = 255)
  /\ UNCHANGED <<tma, active, threshold>>

\* timer_write_reg.
WriteDiv ==
  /\ div' = 0
  /\ UNCHANGED <<tima, tma, active, threshold, timer_next, sub_next>>

WriteTima(v) ==
  /\ tima' = v
  /\ UNCHANGED <<div, tma, active, threshold, timer_next, sub_next>>

WriteTma(v) ==
  /\ tma' = v
  /\ UNCHANGED <<div, tima, active, threshold, timer_next, sub_next>>

\* (a slip: switching on keeps a deadline set long ago)
WriteTacKeep(on, speed) ==
  /\ active' = on
  /\ threshold' = Threshold[speed]
  /\ sub_next' = IF on /\ sub_next = 0 THEN cnt + Threshold[speed] ELSE sub_next
  /\ UNCHANGED <<div, tima, tma, timer_next>>

\* A timer that is switched on starts a whole period; one that is switched
\* off keeps its deadline, and counts on.
WriteTac(on, speed) ==
  /\ active' = on
  /\ threshold' = Threshold[speed]
  /\ sub_next' = IF on THEN cnt + Threshold[speed] ELSE sub_next
  /\ UNCHANGED <<div, tima, tma, timer_next>>
=============================================================================
