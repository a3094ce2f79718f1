------------------------------ MODULE SleepTimer ------------------------------
(***************************************************************************)
(* The slots of SleepTimer (libsrc/sleeptimer.cpp), as functions from the  *)
(* state of the object before the call to the one after it.                *)
(*                                                                         *)
(* activity is the private enum TimerState; active, left and interval are  *)
(* those of the single-shot QTimer sleep_timer.                            *)
(***************************************************************************)
EXTENDS Naturals

Activity == {"Idle", "Alarm", "Playing"}

(* QTimer::setInterval() and start(). *)
StartTimer(s, interval) ==
    [s EXCEPT !.interval = interval, !.left = interval, !.active = TRUE]

(* Mutant: the interval is set and the timer is not started. *)
PlaybackStartedTimerOff(s, sleepTimeout) ==
    IF s.activity = "Alarm"
    THEN [s EXCEPT !.activity = "Playing"]
    ELSE [s EXCEPT !.activity = "Playing", !.interval = sleepTimeout]

(* playback_state_changed(PlayingState).  A start that follows the trigger  *)
(* of an alarm leaves the timer alone, but only the first one does.         *)
PlaybackStarted(s, sleepTimeout) ==
    IF s.activity = "Alarm"
    THEN [s EXCEPT !.activity = "Playing"]
    ELSE [StartTimer(s, sleepTimeout) EXCEPT !.activity = "Playing"]

(* Mutant: it goes on with what is left. *)
ResetTimerToRest(s) == StartTimer(s, s.left)

(* reset_timer() starts the timer with the interval it had last. *)
ResetTimer(s) == StartTimer(s, s.interval)

(* alarm_triggered() *)
AlarmStarted(s, alarmTimeout) ==
    [StartTimer(s, alarmTimeout) EXCEPT !.activity = "Alarm"]

(* timeout_changed(), the second half of set_sleep_timeout(). *)
TimeoutChanged(s, sleepTimeout) == StartTimer(s, sleepTimeout)

(* The timer elapses. *)
Elapsed(s) == [s EXCEPT !.activity = "Idle", !.active = FALSE]

==============================================================================
