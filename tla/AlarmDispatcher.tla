--------------------------- MODULE AlarmDispatcher ---------------------------
(***************************************************************************)
(* The alarm store of Configuration and the AlarmDispatcher that watches   *)
(* it (libsrc/alarmdispatcher.cpp, libsrc/configuration.cpp).              *)
(*                                                                         *)
(* The dispatcher keeps one upcoming alarm and one single-shot QTimer.  It *)
(* looks at the alarms again only when Configuration::alarms_changed is    *)
(* emitted or its own timer fires.  The signal is a direct call when the   *)
(* GUI changes an alarm, and a queued call when a thread of the REST       *)
(* server does; a reload of the configuration file does not emit it.       *)
(*                                                                         *)
(* check_alarms() reads the wall clock again and again: in the comparisons *)
(* of the sort, in get_next_instance(), and for the delta.  Time passes in *)
(* between, so a check is three steps (pc); other slots of the GUI thread  *)
(* wait until it is over, the threads of the REST server do not.           *)
(***************************************************************************)
EXTENDS AlarmSchedule, FiniteSets

CONSTANTS
    Id,             \* alarm ids (QUuid)
    None,           \* no upcoming alarm
    Times,          \* times of day that users give to alarms
    Periods,        \* periods that users give to alarms
    DefaultTime,    \* 06:30, the time create_alarm() gives a new alarm
    EarlyBy,        \* a QTimer may fire this many instants early ...
    LateBy,         \* ... or this many late: coarse timers, a busy event loop
    MaxQueued,      \* bound on queued alarms_changed calls
    Actors          \* who acts besides the dispatcher: GUI, REST, file, clock

ASSUME DispatcherAssumption ==
    /\ Times \subseteq TimeOfDay
    /\ Periods \subseteq Period
    /\ DefaultTime \in TimeOfDay
    /\ EarlyBy \in Nat /\ LateBy \in Nat /\ MaxQueued \in Nat
    /\ Actors \subseteq {"gui", "rest", "file", "clock"}
    /\ None \notin Id

VARIABLES
    now,            \* wallclock->now()
    store,          \* ids of the alarms in Configuration::alarms
    alarms,         \* their time, period and enabled flag
    upcoming,       \* id of AlarmDispatcher::upcoming_alarm; None also stands
                    \* for an upcoming alarm that is disabled
    target,         \* what the object upcoming_alarm points to says
    pc,             \* the GUI thread: in its event loop, or in check_alarms(),
                    \* before or after get_next_instance() for the timer
    armed,          \* AlarmDispatcher::timer runs
    left,           \* its remaining time, negative once it is overdue; while
                    \* pc = "reading", what delta would be now
    queued,         \* alarms_changed calls queued for the GUI thread
    stale,          \* history: who acted behind the dispatcher since the
                    \* last check began
    overtaken,      \* history: an alarm was due, and was it no longer, while
                    \* the last check was under way
    due,            \* history: alarms that became due and were not dispatched
    rang            \* history: what was dispatched at this instant

vars == <<now, store, alarms, upcoming, target, pc, armed, left, queued,
          stale, overtaken, due, rang>>

NoAlarm   == [time |-> DefaultTime, period |-> "daily", enabled |-> FALSE]
NewAlarm  == [NoAlarm EXCEPT !.enabled = TRUE]
UserAlarm == [time : Times, period : Periods, enabled : BOOLEAN]

TypeOK ==
    /\ now \in WallClock
    /\ store \subseteq Id
    /\ alarms \in [Id -> AlarmRec]
    /\ upcoming \in Id \cup {None}
    /\ target \in AlarmRec
    /\ pc \in {"loop", "sorting", "reading"}
    /\ armed \in BOOLEAN
    /\ left \in -LateBy .. LongestWait
    /\ queued \in 0 .. MaxQueued
    /\ stale \subseteq {"file", "clock"}
    /\ overtaken \in BOOLEAN
    /\ due \subseteq Id
    /\ rang \subseteq Id

------------------------------------------------------------------------------
(* get_upcoming_alarm(): the first of a copy of the list sorted by the     *)
(* operator< of alarms.  Equal alarms keep no particular order.            *)

Enabled(st, al) == {a \in st : al[a].enabled}

Earliest(st, al) ==
    {a \in Enabled(st, al) :
        \A b \in Enabled(st, al) : Remaining(al[a], now) <= Remaining(al[b], now)}

(* Mutant: timer.stop() is forgotten. *)
CheckAlarmsNeverStops(st, al) ==
    /\ stale' = {}
    /\ overtaken' = FALSE
    /\ IF Enabled(st, al) = {}
       THEN pc' = "loop" /\ upcoming' = None /\ target' = NoAlarm /\ UNCHANGED <<armed, left>>
       ELSE /\ pc' = "sorting" /\ armed' = FALSE /\ left' = 0
            /\ \E a \in Earliest(st, al) : upcoming' = a /\ target' = al[a]

(* check_alarms() begins, on the alarms as they are after the handler's     *)
(* changes: a copy of the list is sorted.  Without an enabled alarm the     *)
(* timer is stopped; otherwise it will be started anew, and what it was set *)
(* to before does not matter any more.                                      *)
CheckAlarms(st, al) ==
    /\ stale' = {}
    /\ overtaken' = FALSE
    /\ armed' = FALSE
    /\ left' = 0
    /\ IF Enabled(st, al) = {}
       THEN pc' = "loop" /\ upcoming' = None /\ target' = NoAlarm
       ELSE /\ pc' = "sorting"
            /\ \E a \in Earliest(st, al) : upcoming' = a /\ target' = al[a]

(* Comparisons on both sides of a moment that changes the order can put any *)
(* enabled alarm first.                                                     *)
SortedAnyhow ==
    /\ pc = "sorting"
    /\ \E a \in Enabled(store, alarms) : upcoming' = a /\ target' = alarms[a]

(* Mutant: every alarm is taken for a daily one. *)
ReadInstanceDaily ==
    /\ pc = "sorting"
    /\ pc' = "reading"
    /\ left' = DailyDays(target, now) * SlotsPerDay + target.time - now.time
    /\ UNCHANGED <<now, store, alarms, upcoming, target, armed, queued,
                   stale, overtaken, due, rang>>

(* get_next_instance() of the upcoming alarm, which is then shown ... *)
ReadInstance ==
    /\ pc = "sorting"
    /\ pc' = "reading"
    /\ left' = Remaining(target, now)
    /\ UNCHANGED <<now, store, alarms, upcoming, target, armed, queued,
                   stale, overtaken, due, rang>>

(* ... and the timer is started with what is left until then.  QTimer does  *)
(* not start with a negative interval.                                      *)
StartTimer ==
    /\ pc = "reading"
    /\ pc' = "loop"
    /\ armed' = (left >= 0)
    /\ UNCHANGED <<now, store, alarms, upcoming, target, left, queued,
                   stale, overtaken, due, rang>>

(* Mutants: nothing is scheduled after a dispatch; the same alarm is        *)
(* scheduled for the next day.                                              *)
TriggerLast ==
    /\ pc = "loop" /\ armed /\ left <= EarlyBy
    /\ rang' = rang \cup ({upcoming} \ {None})
    /\ due' = due \ {upcoming}
    /\ armed' = FALSE
    /\ UNCHANGED <<now, store, alarms, upcoming, target, pc, left, queued, stale, overtaken>>

TriggerDaily ==
    /\ pc = "loop" /\ armed /\ left <= EarlyBy
    /\ rang' = rang \cup ({upcoming} \ {None})
    /\ due' = due \ {upcoming}
    /\ left' = SlotsPerDay
    /\ UNCHANGED <<now, store, alarms, upcoming, target, pc, armed, queued, stale, overtaken>>

(* The single-shot timer fires: trigger() dispatches the upcoming alarm and *)
(* checks the alarms again.                                                 *)
Trigger ==
    /\ pc = "loop" /\ armed /\ left <= EarlyBy
    /\ rang' = IF upcoming # None THEN rang \cup {upcoming} ELSE rang
    /\ due' = due \ {upcoming}
    /\ CheckAlarms(store, alarms)
    /\ UNCHANGED <<now, store, alarms, queued>>

(* The event loop delivers one alarms_changed queued by a REST thread. *)
DeliverQueued ==
    /\ pc = "loop" /\ queued > 0
    /\ queued' = queued - 1
    /\ CheckAlarms(store, alarms)
    /\ UNCHANGED <<now, store, alarms, due, rang>>

------------------------------------------------------------------------------
(* Changes made on the GUI thread: alarms_changed is a direct call. *)

(* Whoever changes or removes an alarm takes back what was due of it. *)
Touch(a) == due' = due \ {a} /\ UNCHANGED rang

GuiChange(a, st, al) ==
    /\ pc = "loop"
    /\ store' = st
    /\ alarms' = al
    /\ CheckAlarms(st, al)
    /\ Touch(a)
    /\ UNCHANGED <<now, queued>>

(* AlarmListModel::create_alarm(): the alarm is in the store, enabled, as   *)
(* soon as the dialog opens.                                                *)
CreateAlarm(a) ==
    /\ a \notin store
    /\ GuiChange(a, store \cup {a}, [alarms EXCEPT ![a] = NewAlarm])

(* OK in the edit dialog sets time, url, period and enabled in this order;  *)
(* set_period() emits no dataChanged, enable() comes last and does.         *)
EditAlarm(a, rec) ==
    /\ a \in store
    /\ GuiChange(a, store, [alarms EXCEPT ![a] = rec])

(* AlarmListModel::set_enabled(), the switch in the list of alarms. *)
SetEnabled(a, on) ==
    /\ a \in store
    /\ GuiChange(a, store, [alarms EXCEPT ![a].enabled = on])

(* AlarmListModel::delete_alarm(). *)
DeleteAlarm(a) ==
    /\ a \in store
    /\ GuiChange(a, store \ {a}, [alarms EXCEPT ![a] = NoAlarm])

------------------------------------------------------------------------------
(* Changes made by the two threads of the REST server: they call the store  *)
(* directly, and the signal is queued for the thread of the dispatcher.     *)

RestChange(a, st, al) ==
    /\ queued < MaxQueued
    /\ store' = st
    /\ alarms' = al
    /\ queued' = queued + 1
    /\ Touch(a)
    /\ UNCHANGED <<now, upcoming, target, pc, armed, left, stale, overtaken>>

RestAdd(a, rec) ==
    /\ a \notin store
    /\ RestChange(a, store \cup {a}, [alarms EXCEPT ![a] = rec])

RestDelete(a) ==
    /\ a \in store
    /\ RestChange(a, store \ {a}, [alarms EXCEPT ![a] = NoAlarm])

(* The file watcher saw another program write the file: the alarms are      *)
(* replaced by those of the file.  refresh_configuration() emits            *)
(* configuration_changed, which nothing is connected to.                    *)
Reload(st, al) ==
    /\ pc = "loop"
    /\ store' = st
    /\ alarms' = [a \in Id |-> IF a \in st THEN al[a] ELSE NoAlarm]
    /\ stale' = stale \cup {"file"}
    /\ due' = {}
    /\ UNCHANGED <<now, upcoming, target, pc, armed, left, queued, overtaken, rang>>

------------------------------------------------------------------------------
(* Time.  A timer is never more than LateBy instants overdue, and a check   *)
(* does not end later than that after the instant it has read.              *)

Running == armed \/ pc = "reading"

DueNow == \E a \in Enabled(store, alarms) : DueAt(alarms[a], now)

Tick ==
    /\ Running => left > -LateBy
    /\ now' = Successor(now)
    /\ left' = IF Running THEN left - 1 ELSE left
    /\ rang' = {}
    /\ due' = due \cup {a \in Enabled(store, alarms) : DueAt(alarms[a], now')}
    /\ overtaken' = (overtaken \/ (pc # "loop" /\ DueNow))
    /\ UNCHANGED <<upcoming, target>> \/ (DueNow /\ SortedAnyhow)
    /\ UNCHANGED <<store, alarms, pc, armed, queued, stale>>

(* The wall clock is set (NTP after boot, a user), by less than a week:     *)
(* QTimer does not follow, but a delta that is not computed yet does.       *)
ClockSet(w) ==
    /\ w # now
    /\ now' = w
    /\ IF pc = "reading" THEN left' \in -LateBy .. LongestWait ELSE UNCHANGED left
    /\ stale' = stale \cup {"clock"}
    /\ due' = {}
    /\ rang' = {}
    /\ UNCHANGED <<upcoming, target>> \/ SortedAnyhow
    /\ UNCHANGED <<store, alarms, pc, armed, queued, overtaken>>

------------------------------------------------------------------------------
(* The constructor begins check_alarms() on the alarms read from the file. *)
Init ==
    /\ now \in WallClock
    /\ store \in SUBSET Id
    /\ alarms \in [Id -> UserAlarm \cup {NoAlarm}]
    /\ \A a \in Id \ store : alarms[a] = NoAlarm
    /\ \A a \in store : alarms[a] \in UserAlarm
    /\ armed = FALSE /\ left = 0
    /\ IF Enabled(store, alarms) = {}
       THEN pc = "loop" /\ upcoming = None /\ target = NoAlarm
       ELSE /\ pc = "sorting"
            /\ \E a \in Earliest(store, alarms) : upcoming = a /\ target = alarms[a]
    /\ queued = 0
    /\ stale = {}
    /\ overtaken = FALSE
    /\ due = {}
    /\ rang = {}

Gui ==
    /\ "gui" \in Actors
    /\ \E a \in Id :
        \/ CreateAlarm(a)
        \/ \E rec \in UserAlarm : EditAlarm(a, rec)
        \/ \E on \in BOOLEAN : SetEnabled(a, on)
        \/ DeleteAlarm(a)

Rest ==
    /\ "rest" \in Actors
    /\ \E a \in Id :
        \/ \E rec \in UserAlarm : RestAdd(a, rec)
        \/ RestDelete(a)

File ==
    /\ "file" \in Actors
    /\ \E st \in SUBSET Id, al \in [Id -> UserAlarm] : Reload(st, al)

Clock ==
    /\ "clock" \in Actors
    /\ \E w \in WallClock : ClockSet(w)

Dispatcher == Trigger \/ DeliverQueued \/ ReadInstance \/ StartTimer

Next == Dispatcher \/ Tick \/ Gui \/ Rest \/ File \/ Clock

(* The event loop runs, a check goes on, and time passes; users need not do *)
(* anything.                                                                *)
Fairness ==
    /\ WF_vars(Trigger) /\ WF_vars(DeliverQueued)
    /\ WF_vars(ReadInstance) /\ WF_vars(StartTimer)
    /\ WF_vars(Tick)

Spec == Init /\ [][Next]_vars
FairSpec == Spec /\ Fairness

------------------------------------------------------------------------------
(***************************************************************************)
(* Properties.                                                             *)
(***************************************************************************)

(* get_next_instance() gives, for every enabled alarm, the first due        *)
(* instant from now on: its day arithmetic, with the spill over the end of  *)
(* the weekend and of the working week, agrees with the periods.            *)
NextInstanceIsFirstDue == \A alm \in AlarmRec : alm.enabled => FirstDue(alm, now)

(* The timer of the dispatcher points at an instant at which its upcoming   *)
(* alarm is due, however long a check takes: an alarm is never dispatched   *)
(* at another time than its own (check_alarms, trigger).  Only a change of  *)
(* the wall clock sets it off, until the next check.                        *)
TimerPointsAtDue ==
    "clock" \notin stale /\ Running /\ left >= 0 =>
        target.enabled /\ Remaining(target, now) = left

(* Between two checks, with none queued and nothing reloaded or set behind  *)
(* its back, the dispatcher knows the store: the timer runs exactly when    *)
(* some alarm is enabled, for an alarm that is still stored as it was when  *)
(* the timer was started, and no enabled alarm is due before the timer      *)
(* fires.  One gap of the code is named: when the instant of an alarm goes  *)
(* by while a check is under way, between two of its readings of the clock, *)
(* the check starts no timer, or one for another alarm.                     *)
TimerCoversStore ==
    pc = "loop" /\ queued = 0 /\ stale = {} /\ ~overtaken =>
        /\ armed <=> Enabled(store, alarms) # {}
        /\ armed => upcoming \in store /\ target = alarms[upcoming]
        /\ \A a \in Enabled(store, alarms) : left <= Remaining(alarms[a], now)

(* No other enabled alarm is due at the instants a is due at. *)
Alone(a) ==
    \A b \in Enabled(store, alarms) \ {a} :
        \/ alarms[b].time # alarms[a].time
        \/ RingDays(alarms[b].period) \cap RingDays(alarms[a].period) = {}

(* An alarm that became due, was not dispatched yet and shares its instants *)
(* with no other one has a timer that is about to dispatch it.              *)
LoneDueAlarmIsDispatched ==
    pc = "loop" /\ ~overtaken => \A a \in due : Alone(a) => armed /\ left <= 0

Undisturbed == <>[][~(Gui \/ Rest \/ File \/ Clock)]_vars

(* An alarm of a period that repeats and that shares its instants with no   *)
(* other one. *)
Repeats(a) ==
    a \in Enabled(store, alarms) /\ alarms[a].period # "once" /\ Alone(a)

(* Once nobody changes the alarms any more, and no due instant goes by in   *)
(* the middle of a check, an enabled alarm that repeats and shares its      *)
(* instants with no other is dispatched again and again: every later        *)
(* trigger schedules the next one, over days, weekends and weeks.           *)
LoneAlarmKeepsRinging ==
    Undisturbed /\ <>[]~overtaken =>
        \A a \in Id : <>[]Repeats(a) => []<>(a \in rang)

(* Nothing will make the dispatcher look at the alarms again. *)
Asleep == pc = "loop" /\ ~armed /\ queued = 0

(* However often the wall clock was set and the file reloaded: once that is *)
(* over, the dispatcher knows the present clock and the present alarms, or  *)
(* it sleeps.  A reload does not wake it, whatever alarms it brings, in     *)
(* spite of configuration.md:26 ("reloaded automatically"); but with a      *)
(* timer that runs at most one alarm is dispatched at a wrong time, and the *)
(* check that follows finds the new alarms.                                 *)
TimerHeals == Undisturbed => <>[](Asleep \/ stale = {})

==============================================================================
