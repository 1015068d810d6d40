------------------------------ MODULE UipTimer ------------------------------
(***************************************************************************)
(* Timers (src/plc-sw/uip/timer.c) on a clock that wraps (clock_datetime   *)
(* of clock-arch.c, counted by the overflow interrupt of timer 1).         *)
(*                                                                         *)
(* The clock itself is read for the time that has passed since the start   *)
(* of a timer only, clock_time() - t->start in the width of the clock:     *)
(* this is what a timer keeps here, in place of its start.                 *)
(***************************************************************************)
EXTENDS Integers

CONSTANT ClockMod   \* the clock counts modulo ClockMod (65536 in the code)

timer_set(interval) == [passed |-> 0, interval |-> interval % ClockMod]
timer_restart(t)    == [t EXCEPT !.passed = 0]
timer_expired(t)    == t.passed >= t.interval

(* The start moves by the interval, so that a periodic timer does not      *)
(* drift.                                                                  *)
timer_reset(t) == [t EXCEPT !.passed = (@ - t.interval) % ClockMod]

(* The overflow interrupt, as a timer sees it.                             *)
Ticked(t) == [t EXCEPT !.passed = (@ + 1) % ClockMod]
=============================================================================
