---------------------------- MODULE AlarmSchedule ----------------------------
(***************************************************************************)
(* When an alarm is due: get_next_instance() of libsrc/alarm.cpp.          *)
(*                                                                         *)
(* The wall clock is a day of the week and a time of day; a day has        *)
(* SlotsPerDay instants.  The code computes the QDateTime of the next      *)
(* instance; its only caller that acts on it (AlarmDispatcher) uses the    *)
(* distance to now, which is what Remaining is.                            *)
(***************************************************************************)
EXTENDS Integers

CONSTANT SlotsPerDay        \* instants the wall clock tells apart in a day

ASSUME SlotsAssumption == SlotsPerDay \in Nat \ {0}

Saturday == 6               \* Qt::Saturday
Sunday   == 7               \* Qt::Sunday, the last day of a Qt week

DayOfWeek == 1 .. Sunday
TimeOfDay == 0 .. SlotsPerDay - 1
WallClock == [dow : DayOfWeek, time : TimeOfDay]

LongestWait == 7 * SlotsPerDay

Period   == {"once", "daily", "weekend", "workdays"}
AlarmRec == [time : TimeOfDay, period : Period, enabled : BOOLEAN]

(* Mutant: the week never ends. *)
AddDaysUnwrapped(dow, n) == dow + n

(* QDate::addDays, seen through dayOfWeek(), for the steps the code takes. *)
AddDays(dow, n) == IF dow + n > Sunday THEN dow + n - Sunday ELSE dow + n

(* The next instant of the wall clock. *)
Successor(w) ==
    IF w.time + 1 < SlotsPerDay
    THEN [dow |-> w.dow, time |-> w.time + 1]
    ELSE [dow |-> AddDays(w.dow, 1), time |-> 0]

------------------------------------------------------------------------------
(* get_next_instance(): the number of days it adds to today's date. *)

Passed(alm, now) == now.time > alm.time

DailyDays(alm, now) == IF Passed(alm, now) THEN 1 ELSE 0

(* Mutant: the day that is over is not counted. *)
WeekendDaysUncounted(alm, now) ==
    LET spill == IF now.dow >= Saturday /\ Passed(alm, now) THEN 1 ELSE 0
        day   == AddDays(now.dow, spill)
    IN  IF day < Saturday THEN Saturday - day ELSE spill

WeekendDays(alm, now) ==
    LET spill == IF now.dow >= Saturday /\ Passed(alm, now) THEN 1 ELSE 0
        day   == AddDays(now.dow, spill)
    IN  IF day < Saturday THEN spill + Saturday - day ELSE spill

WorkdayDays(alm, now) ==
    LET spill  == IF now.dow < Saturday /\ Passed(alm, now) THEN 1 ELSE 0
        moved  == IF now.dow >= Saturday THEN Sunday - now.dow + 1 ELSE spill
        day    == AddDays(now.dow, moved)
    IN  IF day >= Saturday THEN moved + Sunday - day + 1 ELSE moved

DaysUntil(alm, now) ==
    CASE alm.period \in {"daily", "once"} -> DailyDays(alm, now)
      [] alm.period = "weekend"           -> WeekendDays(alm, now)
      [] alm.period = "workdays"          -> WorkdayDays(alm, now)

(* Instants from now to the next instance of an enabled alarm. *)
Remaining(alm, now) == DaysUntil(alm, now) * SlotsPerDay + alm.time - now.time

------------------------------------------------------------------------------
(* What the periods mean (enum Alarm::Period), stated without arithmetic:   *)
(* the days of the week an alarm rings on, and the instants it is due at.   *)

RingDays(period) ==
    CASE period \in {"daily", "once"} -> DayOfWeek
      [] period = "weekend"           -> Saturday .. Sunday
      [] period = "workdays"          -> 1 .. Saturday - 1

DueAt(alm, w) == w.time = alm.time /\ w.dow \in RingDays(alm.period)

(* The wall clock n instants from w, for all n of a week. *)
After(w) ==
    LET at[n \in 0 .. LongestWait] == IF n = 0 THEN w ELSE Successor(at[n - 1])
    IN  at

(* Remaining is the distance to the first instant, from now on, at which    *)
(* the alarm is due.                                                        *)
FirstDue(alm, now) ==
    LET n == Remaining(alm, now) IN
    /\ n \in 0 .. LongestWait
    /\ DueAt(alm, After(now)[n])
    /\ \A k \in 0 .. n - 1 : ~DueAt(alm, After(now)[k])

==============================================================================
