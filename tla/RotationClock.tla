--------------------------- MODULE RotationClock ----------------------------
(***************************************************************************)
(* The clock of the file sinks that rotate by time.  Time is counted in    *)
(* ticks, TicksPerPeriod of them to a period: a day for the daily sinks,   *)
(* an hour for the hourly one.  Local time has no jumps here: changes of   *)
(* the time zone's offset are left out.                                    *)
(***************************************************************************)
EXTENDS Integers

CONSTANTS TicksPerPeriod, MaxTime   \* MaxTime bounds the clock
ASSUME ClockAssumption == TicksPerPeriod \in Nat \ {0} /\ MaxTime \in Nat

VARIABLE now            \* log_clock::now()

(* The part of the time that calc_filename puts into the file name.        *)
Period(t) == t \div TicksPerPeriod

(* next_rotation_tp_(): the first moment after now that lies offset ticks  *)
(* into a period.                                                          *)
next_rotation_tp(offset) ==
    LET rotation_time == Period(now) * TicksPerPeriod + offset
    IN  IF rotation_time > now THEN rotation_time ELSE rotation_time + TicksPerPeriod

Advance == now < MaxTime /\ now' = now + 1
=============================================================================
