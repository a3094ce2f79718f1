------------------------ MODULE AlarmDispatcher_proofs ------------------------
(***************************************************************************)
(* Facts about get_next_instance() for days of any length: how far away    *)
(* the next instance of an alarm can be, that the distance shrinks by one  *)
(* instant with every instant that passes until the alarm is due, and that *)
(* it is the first due instant.  Then type correctness of AlarmDispatcher, *)
(* and its safety invariants for every number of alarms and every          *)
(* inaccuracy of the timers, whoever changes the alarms or the clock.      *)
(***************************************************************************)
EXTENDS AlarmDispatcher, TLAPS, WellFoundedInduction

(* The calendar: a week has seven days, and the wall clock stays in it. *)
LEMMA AddDaysType ==
    ASSUME NEW dow \in DayOfWeek, NEW n \in 0 .. Sunday
    PROVE  AddDays(dow, n) \in DayOfWeek
  BY DEF AddDays, DayOfWeek, Sunday

LEMMA SuccessorType ==
    ASSUME NEW w \in WallClock
    PROVE  Successor(w) \in WallClock
  <1>1. AddDays(w.dow, 1) \in DayOfWeek
    BY AddDaysType DEF WallClock, Sunday
  <1>2. w.time \in 0 .. SlotsPerDay - 1 /\ w.dow \in DayOfWeek
    BY DEF WallClock, TimeOfDay
  <1> QED
    BY <1>1, <1>2, SlotsAssumption DEF Successor, WallClock, TimeOfDay

(* An alarm rings within a week; today only when its time is not over. *)
LEMMA DaysUntilBounds ==
    ASSUME NEW alm \in AlarmRec, NEW w \in WallClock
    PROVE  /\ DaysUntil(alm, w) \in 0 .. 6
           /\ DaysUntil(alm, w) = 0 => alm.time >= w.time
  <1>1. w.dow \in 1 .. 7 /\ w.time \in Int /\ alm.time \in Int
    BY SlotsAssumption DEF WallClock, AlarmRec, DayOfWeek, TimeOfDay, Sunday
  <1>2. alm.period \in {"once", "daily", "weekend", "workdays"}
    BY DEF AlarmRec, Period
  <1>3. CASE alm.period \in {"daily", "once"}
    BY <1>1, <1>3 DEF DaysUntil, DailyDays, Passed
  <1>4. CASE alm.period = "weekend"
    BY <1>1, <1>4 DEF DaysUntil, WeekendDays, Passed, AddDays, Saturday, Sunday
  <1>5. CASE alm.period = "workdays"
    BY <1>1, <1>5 DEF DaysUntil, WorkdayDays, Passed, AddDays, Saturday, Sunday
  <1> QED
    BY <1>2, <1>3, <1>4, <1>5

(* The next instance is never in the past and less than a week away. *)
LEMMA RemainingBounds ==
    ASSUME NEW alm \in AlarmRec, NEW w \in WallClock
    PROVE  Remaining(alm, w) \in 0 .. 7 * SlotsPerDay
  <1> DEFINE d == DaysUntil(alm, w)
  <1>1. d \in 0 .. 6 /\ (d = 0 => alm.time >= w.time)
    BY DaysUntilBounds
  <1>2. /\ w.time \in 0 .. SlotsPerDay - 1
        /\ alm.time \in 0 .. SlotsPerDay - 1
        /\ SlotsPerDay \in Nat \ {0}
    BY SlotsAssumption DEF WallClock, AlarmRec, TimeOfDay
  <1>3. Remaining(alm, w) = d * SlotsPerDay + alm.time - w.time
    BY DEF Remaining
  <1> HIDE DEF d
  <1>4. d = 0 \/ d = 1 \/ d = 2 \/ d = 3 \/ d = 4 \/ d = 5 \/ d = 6
    BY <1>1
  <1> QED
    BY <1>1, <1>2, <1>3, <1>4

------------------------------------------------------------------------------
(* One instant later. *)

(* Within a day the number of days stays, at midnight it is one less,       *)
(* unless the alarm is due right now.                                       *)
LEMMA DaysUntilNext ==
    ASSUME NEW alm \in AlarmRec, NEW w \in WallClock
    PROVE  \/ w.time = alm.time /\ DaysUntil(alm, w) = 0
           \/ DaysUntil(alm, Successor(w)) =
                  DaysUntil(alm, w) - (IF w.time + 1 < SlotsPerDay THEN 0 ELSE 1)
  <1> DEFINE next == Successor(w)
  <1>1. /\ w.dow \in 1 .. 7
        /\ w.time \in 0 .. SlotsPerDay - 1
        /\ alm.time \in 0 .. SlotsPerDay - 1
        /\ SlotsPerDay \in Nat \ {0}
    BY SlotsAssumption DEF WallClock, AlarmRec, DayOfWeek, TimeOfDay, Sunday
  <1>2. alm.period \in {"once", "daily", "weekend", "workdays"}
    BY DEF AlarmRec, Period
  <1>3. IF w.time + 1 < SlotsPerDay
        THEN next.dow = w.dow /\ next.time = w.time + 1
        ELSE /\ next.dow = IF w.dow = 7 THEN 1 ELSE w.dow + 1
             /\ next.time = 0
    BY <1>1 DEF Successor, AddDays, Sunday
  <1> HIDE DEF next
  <1>4. CASE alm.period \in {"daily", "once"}
    <2>1. /\ DaysUntil(alm, w) = DailyDays(alm, w)
          /\ DaysUntil(alm, next) = DailyDays(alm, next)
      BY <1>4 DEF DaysUntil
    <2> QED
      BY <1>1, <1>3, <2>1 DEF DailyDays, Passed, next
  <1>5. CASE alm.period = "weekend"
    <2>1. /\ DaysUntil(alm, w) = WeekendDays(alm, w)
          /\ DaysUntil(alm, next) = WeekendDays(alm, next)
      BY <1>5 DEF DaysUntil
    <2> QED
      BY <1>1, <1>3, <2>1
      DEF WeekendDays, Passed, AddDays, Saturday, Sunday, next
  <1>6. CASE alm.period = "workdays"
    <2>1. /\ DaysUntil(alm, w) = WorkdayDays(alm, w)
          /\ DaysUntil(alm, next) = WorkdayDays(alm, next)
      BY <1>6 DEF DaysUntil
    <2> QED
      BY <1>1, <1>3, <2>1
      DEF WorkdayDays, Passed, AddDays, Saturday, Sunday, next
  <1> QED
    BY <1>2, <1>4, <1>5, <1>6

(* The distance to the next instance counts down to 0, instant by instant. *)
LEMMA RemainingCountsDown ==
    ASSUME NEW alm \in AlarmRec, NEW w \in WallClock, Remaining(alm, w) > 0
    PROVE  Remaining(alm, Successor(w)) = Remaining(alm, w) - 1
  <1> DEFINE next == Successor(w)
             d    == DaysUntil(alm, w)
             e    == DaysUntil(alm, next)
  <1>1. /\ w.time \in 0 .. SlotsPerDay - 1
        /\ alm.time \in 0 .. SlotsPerDay - 1
        /\ SlotsPerDay \in Nat \ {0}
    BY SlotsAssumption DEF WallClock, AlarmRec, TimeOfDay
  <1>2. d \in 0 .. 6 /\ e \in 0 .. 6
    BY DaysUntilBounds, SuccessorType
  <1>3. /\ Remaining(alm, w) = d * SlotsPerDay + alm.time - w.time
        /\ Remaining(alm, next) = e * SlotsPerDay + alm.time - next.time
    BY DEF Remaining
  <1>4. \/ w.time = alm.time /\ d = 0
        \/ e = d - (IF w.time + 1 < SlotsPerDay THEN 0 ELSE 1)
    BY DaysUntilNext
  <1>5. next.time = IF w.time + 1 < SlotsPerDay THEN w.time + 1 ELSE 0
    BY DEF Successor
  <1> HIDE DEF d, e, next
  <1>6. ~(w.time = alm.time /\ d = 0)
    BY <1>1, <1>3
  <1>7. CASE w.time + 1 < SlotsPerDay
    BY <1>1, <1>2, <1>3, <1>4, <1>5, <1>6, <1>7 DEF next
  <1>8. CASE ~(w.time + 1 < SlotsPerDay)
    <2>1. e = d - 1 /\ next.time = 0 /\ w.time = SlotsPerDay - 1
      BY <1>1, <1>2, <1>4, <1>5, <1>6, <1>8
    <2>2. e * SlotsPerDay = d * SlotsPerDay - SlotsPerDay
      BY <1>1, <1>2, <2>1
    <2> QED
      BY <1>1, <1>2, <1>3, <2>1, <2>2 DEF next
  <1> QED
    BY <1>7, <1>8

(* The distance is 0 exactly when the alarm is due: together with the       *)
(* countdown, the code's instance is the first due instant from now on.     *)
THEOREM RemainingZeroIsDue ==
    ASSUME NEW alm \in AlarmRec, NEW w \in WallClock
    PROVE  Remaining(alm, w) = 0 <=> DueAt(alm, w)
  <1> DEFINE d == DaysUntil(alm, w)
  <1>1. /\ w.dow \in 1 .. 7
        /\ w.time \in 0 .. SlotsPerDay - 1
        /\ alm.time \in 0 .. SlotsPerDay - 1
        /\ SlotsPerDay \in Nat \ {0}
    BY SlotsAssumption DEF WallClock, AlarmRec, DayOfWeek, TimeOfDay, Sunday
  <1>2. d \in 0 .. 6
    BY DaysUntilBounds
  <1>3. Remaining(alm, w) = d * SlotsPerDay + alm.time - w.time
    BY DEF Remaining
  <1>4. Remaining(alm, w) = 0 <=> alm.time = w.time /\ d = 0
    <2> HIDE DEF d
    <2>1. CASE d = 0
      BY <1>1, <1>3, <2>1
    <2>2. CASE d # 0
      <3>1. d = 1 \/ d = 2 \/ d = 3 \/ d = 4 \/ d = 5 \/ d = 6
        BY <1>2, <2>2
      <3>2. d * SlotsPerDay \in Int /\ d * SlotsPerDay >= SlotsPerDay
        BY <1>1, <3>1
      <3> QED
        BY <1>1, <1>3, <2>2, <3>2
    <2> QED
      BY <2>1, <2>2
  <1>5. ASSUME alm.time = w.time
        PROVE  d = 0 <=> w.dow \in RingDays(alm.period)
    <2>1. CASE alm.period \in {"daily", "once"}
      BY <1>1, <1>5, <2>1
      DEF DaysUntil, DailyDays, Passed, RingDays, DayOfWeek, Sunday
    <2>2. CASE alm.period = "weekend"
      BY <1>1, <1>5, <2>2
      DEF DaysUntil, WeekendDays, Passed, AddDays, RingDays, Saturday, Sunday
    <2>3. CASE alm.period = "workdays"
      BY <1>1, <1>5, <2>3
      DEF DaysUntil, WorkdayDays, Passed, AddDays, RingDays, Saturday, Sunday
    <2> QED
      BY <2>1, <2>2, <2>3 DEF AlarmRec, Period
  <1> QED
    BY <1>4, <1>5 DEF DueAt

------------------------------------------------------------------------------
(* The instants from now on.  Induction over numbers is stated with sets,   *)
(* and rests on the well-foundedness of < of the library.                   *)

LEMMA LessIsWellFounded ==
    IsWellFoundedOn({ss \in Nat \X Nat : ss[1] < ss[2]}, Nat)
  BY NatLessThanWellFounded DEF OpToRel

LEMMA SetInduction ==
    ASSUME NEW T \in SUBSET Nat, 0 \in T, \A n \in T : n + 1 \in T
    PROVE  T = Nat
  <1> DEFINE R == {ss \in Nat \X Nat : ss[1] < ss[2]}
             C == Nat \ T
  <1> SUFFICES ASSUME C # {} PROVE FALSE
    OBVIOUS
  <1>1. IsWellFoundedOn(R, Nat)
    BY LessIsWellFounded
  <1>2. C \subseteq Nat
    OBVIOUS
  <1> HIDE DEF R, C
  <1>3. PICK x \in C : \A y \in C : ~ (<<y, x>> \in R)
    BY <1>1, <1>2, WFMin
  <1>4. x \in Nat /\ x \notin T
    BY DEF C
  <1>5. x # 0
    BY <1>4
  <1>6. x - 1 \in Nat /\ x - 1 < x
    BY <1>4, <1>5
  <1>7. <<x - 1, x>> \in R
    BY <1>4, <1>6 DEF R
  <1>8. x - 1 \in T
    BY <1>3, <1>6, <1>7 DEF C
  <1>9. (x - 1) + 1 = x
    BY <1>4
  <1> QED
    BY <1>4, <1>8, <1>9

(* After(w) is the function its definition says. *)
LEMMA AfterIsDefined ==
    ASSUME NEW w
    PROVE  After(w) = [n \in 0 .. LongestWait |->
                          IF n = 0 THEN w ELSE Successor(After(w)[n - 1])]
  <1> DEFINE Is(f, N) == f = [n \in 0 .. N |-> IF n = 0 THEN w ELSE Successor(f[n - 1])]
             T == {N \in Nat : \E f : Is(f, N)}
  <1>1. 0 \in T
    <2> DEFINE f == [n \in 0 .. 0 |-> w]
    <2>1. Is(f, 0)
      OBVIOUS
    <2> QED
      BY <2>1
  <1>2. ASSUME NEW N \in T PROVE N + 1 \in T
    <2>1. PICK f : Is(f, N)
      OBVIOUS
    <2> DEFINE g == [n \in 0 .. N + 1 |-> IF n = N + 1 THEN Successor(f[N]) ELSE f[n]]
    <2>2. ASSUME NEW n \in 0 .. N + 1
          PROVE  g[n] = IF n = 0 THEN w ELSE Successor(g[n - 1])
      <3>1. CASE n = N + 1
        <4>1. n # 0 /\ n - 1 = N /\ N \in 0 .. N + 1 /\ N # N + 1
          BY <3>1
        <4> QED
          BY <3>1, <4>1
      <3>2. CASE n # N + 1
        <4>1. n \in 0 .. N
          BY <3>2
        <4>2. f[n] = IF n = 0 THEN w ELSE Successor(f[n - 1])
          BY <2>1, <4>1
        <4>3. n # 0 => n - 1 \in 0 .. N + 1 /\ n - 1 # N + 1
          BY <4>1
        <4> QED
          BY <3>2, <4>2, <4>3
      <3> QED
        BY <3>1, <3>2
    <2>3. Is(g, N + 1)
      <3>1. g = [n \in 0 .. N + 1 |-> g[n]]
        OBVIOUS
      <3> HIDE DEF g
      <3> QED
        BY <2>2, <3>1
    <2>4. \E f2 : Is(f2, N + 1)
      <3> HIDE DEF g, Is
      <3> QED
        BY <2>3
    <2>5. N + 1 \in Nat
      OBVIOUS
    <2> HIDE DEF Is
    <2> QED
      BY <2>4, <2>5
  <1> HIDE DEF T
  <1>3. LongestWait \in T
    <2>1. T \subseteq Nat
      BY DEF T
    <2>2. T = Nat
      BY <1>1, <1>2, <2>1, SetInduction
    <2> QED
      BY <2>2, SlotsAssumption DEF LongestWait
  <1>4. \E f : Is(f, LongestWait)
    BY <1>3 DEF T
  <1>5. After(w) = CHOOSE f : Is(f, LongestWait)
    BY DEF After
  <1> QED
    BY <1>4, <1>5

(* Up to the next instance the distance to it counts down along After.      *)
LEMMA AfterCountsDown ==
    ASSUME NEW alm \in AlarmRec, NEW w \in WallClock
    PROVE  \A n \in 0 .. Remaining(alm, w) :
              /\ After(w)[n] \in WallClock
              /\ Remaining(alm, After(w)[n]) = Remaining(alm, w) - n
  <1> DEFINE r == Remaining(alm, w)
             T == {n \in Nat : n <= r => /\ After(w)[n] \in WallClock
                                          /\ Remaining(alm, After(w)[n]) = r - n}
  <1>1. r \in 0 .. LongestWait /\ LongestWait \in Nat
    BY RemainingBounds, SlotsAssumption DEF LongestWait
  <1>2. \A n \in 0 .. LongestWait :
            After(w)[n] = IF n = 0 THEN w ELSE Successor(After(w)[n - 1])
    BY AfterIsDefined
  <1> HIDE DEF r
  <1>3. 0 \in T
    BY <1>1, <1>2 DEF r
  <1>4. ASSUME NEW n \in T PROVE n + 1 \in T
    <2> SUFFICES ASSUME n + 1 <= r
                 PROVE  /\ After(w)[n + 1] \in WallClock
                        /\ Remaining(alm, After(w)[n + 1]) = r - (n + 1)
      OBVIOUS
    <2>1. /\ n \in Nat /\ n + 1 \in 0 .. LongestWait /\ (n + 1) - 1 = n /\ n + 1 # 0
          /\ n <= r /\ r - n > 0
      BY <1>1
    <2>2. After(w)[n] \in WallClock /\ Remaining(alm, After(w)[n]) = r - n
      BY <2>1
    <2>3. After(w)[n + 1] = Successor(After(w)[n])
      BY <1>2, <2>1
    <2>4. Remaining(alm, Successor(After(w)[n])) = (r - n) - 1
      BY <2>1, <2>2, RemainingCountsDown
    <2> QED
      BY <1>1, <2>1, <2>2, <2>3, <2>4, SuccessorType
  <1>5. T = Nat
    <2> T \subseteq Nat
      OBVIOUS
    <2> HIDE DEF T
    <2> QED
      BY <1>3, <1>4, SetInduction
  <1> QED
    BY <1>1, <1>5 DEF r

(* get_next_instance() gives the first due instant of any alarm, from any   *)
(* instant on: neither an instant of its period is passed over, nor is a    *)
(* wrong one chosen.                                                        *)
THEOREM NextInstance ==
    ASSUME NEW alm \in AlarmRec, NEW w \in WallClock
    PROVE  FirstDue(alm, w)
  <1> DEFINE r == Remaining(alm, w)
  <1>1. r \in 0 .. LongestWait /\ LongestWait \in Nat
    BY RemainingBounds, SlotsAssumption DEF LongestWait
  <1>2. \A n \in 0 .. r : /\ After(w)[n] \in WallClock
                            /\ Remaining(alm, After(w)[n]) = r - n
    BY AfterCountsDown
  <1> HIDE DEF r
  <1>3. DueAt(alm, After(w)[r])
    BY <1>1, <1>2, RemainingZeroIsDue
  <1>4. ASSUME NEW k \in 0 .. r - 1 PROVE ~DueAt(alm, After(w)[k])
    <2>1. k \in 0 .. r /\ r - k # 0
      BY <1>1
    <2> QED
      BY <1>2, <2>1, RemainingZeroIsDue
  <1> QED
    BY <1>1, <1>3, <1>4 DEF FirstDue, r

------------------------------------------------------------------------------
LEMMA UserAlarmType == UserAlarm \subseteq AlarmRec
  BY DispatcherAssumption DEF UserAlarm, AlarmRec

LEMMA NoAlarmType == NoAlarm \in AlarmRec /\ NewAlarm \in AlarmRec
  BY DispatcherAssumption DEF NoAlarm, NewAlarm, AlarmRec, Period

(* check_alarms() begins: either no alarm is enabled, and the timer is off, *)
(* or the first of the enabled alarms is about to be timed.                 *)
LEMMA CheckAlarmsBegins ==
    ASSUME now \in WallClock, NEW st \in SUBSET Id, NEW al \in [Id -> AlarmRec],
           CheckAlarms(st, al)
    PROVE  /\ stale' = {} /\ overtaken' = FALSE /\ armed' = FALSE /\ left' = 0
           /\ upcoming' \in Id \cup {None} /\ target' \in AlarmRec
           /\ pc' \in {"loop", "sorting"}
           /\ pc' = "loop" => Enabled(st, al) = {}
           /\ pc' = "sorting" =>
                 /\ upcoming' \in Enabled(st, al)
                 /\ target' = al[upcoming'] /\ target'.enabled
                 /\ \A b \in Enabled(st, al) :
                       Remaining(target', now) <= Remaining(al[b], now)
  <1>1. CASE Enabled(st, al) = {}
    BY <1>1, NoAlarmType DEF CheckAlarms
  <1>2. CASE Enabled(st, al) # {}
    <2>1. PICK a \in Earliest(st, al) : upcoming' = a /\ target' = al[a]
      BY <1>2 DEF CheckAlarms
    <2>2. a \in Id /\ al[a] \in AlarmRec /\ al[a].enabled /\ a \in Enabled(st, al)
      BY DEF Earliest, Enabled
    <2>3. \A b \in Enabled(st, al) : Remaining(al[a], now) <= Remaining(al[b], now)
      BY DEF Earliest
    <2> QED
      BY <1>2, <2>1, <2>2, <2>3 DEF CheckAlarms
  <1> QED
    BY <1>1, <1>2

(* Whatever a sort that the clock overtakes puts first is enabled. *)
LEMMA SortedAnyhowType ==
    ASSUME TypeOK, UNCHANGED <<upcoming, target>> \/ SortedAnyhow
    PROVE  /\ upcoming' \in Id \cup {None} /\ target' \in AlarmRec
           /\ target.enabled => target'.enabled
  BY DEF SortedAnyhow, Enabled, TypeOK

------------------------------------------------------------------------------
(* Type correctness. *)

LEMMA LeftType ==
    /\ 0 \in -LateBy .. LongestWait
    /\ 0 .. LongestWait \subseteq -LateBy .. LongestWait
    /\ -LateBy .. LongestWait \subseteq Int
  BY DispatcherAssumption, SlotsAssumption DEF LongestWait

(* A handler of the GUI thread that ends with a check keeps the types. *)
LEMMA CheckType ==
    ASSUME TypeOK, NEW st \in SUBSET Id, NEW al \in [Id -> AlarmRec],
           CheckAlarms(st, al), now' = now, store' = st, alarms' = al,
           queued' \in 0 .. MaxQueued, due' \subseteq Id, rang' \subseteq Id
    PROVE  TypeOK'
  <1>1. now \in WallClock
    BY DEF TypeOK
  <1>2. /\ stale' = {} /\ overtaken' = FALSE /\ armed' = FALSE /\ left' = 0
        /\ upcoming' \in Id \cup {None} /\ target' \in AlarmRec
        /\ pc' \in {"loop", "sorting"}
    BY <1>1, CheckAlarmsBegins
  <1> QED
    BY <1>1, <1>2, LeftType DEF TypeOK

LEMMA GuiChangeType ==
    ASSUME TypeOK, NEW a \in Id, NEW st \in SUBSET Id, NEW al \in [Id -> AlarmRec],
           GuiChange(a, st, al)
    PROVE  TypeOK'
  <1>1. queued' \in 0 .. MaxQueued /\ due' \subseteq Id /\ rang' \subseteq Id
    BY DEF GuiChange, Touch, TypeOK
  <1> QED
    BY <1>1, CheckType DEF GuiChange

LEMMA RestChangeType ==
    ASSUME TypeOK, NEW a \in Id, NEW st \in SUBSET Id, NEW al \in [Id -> AlarmRec],
           RestChange(a, st, al)
    PROVE  TypeOK'
  <1>1. queued' \in 0 .. MaxQueued
    BY DispatcherAssumption DEF RestChange, TypeOK
  <1> QED
    BY <1>1 DEF RestChange, Touch, TypeOK

(* Every action of the GUI or of a REST thread is one change of this form.  *)
LEMMA GuiChanges ==
    ASSUME TypeOK, Gui
    PROVE  \E a \in Id, st \in SUBSET Id, al \in [Id -> AlarmRec] : GuiChange(a, st, al)
  <1>1. store \in SUBSET Id /\ alarms \in [Id -> AlarmRec]
    BY DEF TypeOK
  <1>2. PICK a \in Id :
            \/ CreateAlarm(a)
            \/ \E rec \in UserAlarm : EditAlarm(a, rec)
            \/ \E on \in BOOLEAN : SetEnabled(a, on)
            \/ DeleteAlarm(a)
    BY DEF Gui
  <1>3. store \cup {a} \in SUBSET Id /\ store \ {a} \in SUBSET Id
    BY <1>1
  <1>4. CASE CreateAlarm(a)
    <2>1. [alarms EXCEPT ![a] = NewAlarm] \in [Id -> AlarmRec]
      BY <1>1, NoAlarmType
    <2> QED
      BY <1>3, <1>4, <2>1 DEF CreateAlarm
  <1>5. ASSUME NEW rec \in UserAlarm, EditAlarm(a, rec)
        PROVE  \E st \in SUBSET Id, al \in [Id -> AlarmRec] : GuiChange(a, st, al)
    <2>1. [alarms EXCEPT ![a] = rec] \in [Id -> AlarmRec]
      BY <1>1, UserAlarmType
    <2> QED
      BY <1>1, <1>5, <2>1 DEF EditAlarm
  <1>6. ASSUME NEW on \in BOOLEAN, SetEnabled(a, on)
        PROVE  \E st \in SUBSET Id, al \in [Id -> AlarmRec] : GuiChange(a, st, al)
    <2>1. [alarms EXCEPT ![a].enabled = on] \in [Id -> AlarmRec]
      BY <1>1 DEF AlarmRec
    <2> QED
      BY <1>1, <1>6, <2>1 DEF SetEnabled
  <1>7. CASE DeleteAlarm(a)
    <2>1. [alarms EXCEPT ![a] = NoAlarm] \in [Id -> AlarmRec]
      BY <1>1, NoAlarmType
    <2> QED
      BY <1>3, <1>7, <2>1 DEF DeleteAlarm
  <1> QED
    BY <1>2, <1>4, <1>5, <1>6, <1>7

LEMMA RestChanges ==
    ASSUME TypeOK, Rest
    PROVE  \E a \in Id, st \in SUBSET Id, al \in [Id -> AlarmRec] : RestChange(a, st, al)
  <1>1. store \in SUBSET Id /\ alarms \in [Id -> AlarmRec]
    BY DEF TypeOK
  <1>2. PICK a \in Id : (\E rec \in UserAlarm : RestAdd(a, rec)) \/ RestDelete(a)
    BY DEF Rest
  <1>3. /\ store \cup {a} \in SUBSET Id /\ store \ {a} \in SUBSET Id
        /\ [alarms EXCEPT ![a] = NoAlarm] \in [Id -> AlarmRec]
        /\ \A rec \in UserAlarm : [alarms EXCEPT ![a] = rec] \in [Id -> AlarmRec]
    BY <1>1, UserAlarmType, NoAlarmType
  <1>4. ASSUME NEW rec \in UserAlarm, RestAdd(a, rec)
        PROVE  RestChange(a, store \cup {a}, [alarms EXCEPT ![a] = rec])
    BY <1>4 DEF RestAdd
  <1>5. ASSUME RestDelete(a)
        PROVE  RestChange(a, store \ {a}, [alarms EXCEPT ![a] = NoAlarm])
    BY <1>5 DEF RestDelete
  <1> QED
    BY <1>2, <1>3, <1>4, <1>5

LEMMA InitType == Init => TypeOK
  <1> SUFFICES ASSUME Init PROVE TypeOK
    OBVIOUS
  <1>1. alarms \in [Id -> AlarmRec] /\ store \in SUBSET Id /\ now \in WallClock
    BY UserAlarmType, NoAlarmType DEF Init
  <1>2. /\ upcoming \in Id \cup {None} /\ target \in AlarmRec
        /\ pc \in {"loop", "sorting"}
    <2>1. CASE Enabled(store, alarms) = {}
      BY <2>1, NoAlarmType DEF Init
    <2>2. CASE Enabled(store, alarms) # {}
      <3>1. PICK a \in Earliest(store, alarms) :
                pc = "sorting" /\ upcoming = a /\ target = alarms[a]
        BY <2>2 DEF Init
      <3> QED
        BY <1>1, <3>1 DEF Earliest, Enabled
    <2> QED
      BY <2>1, <2>2
  <1>3. queued \in 0 .. MaxQueued
    BY DispatcherAssumption DEF Init
  <1>4. armed = FALSE /\ left = 0 /\ stale = {} /\ overtaken = FALSE /\ due = {} /\ rang = {}
    BY DEF Init
  <1> QED
    BY <1>1, <1>2, <1>3, <1>4, LeftType DEF TypeOK

LEMMA NextType == TypeOK /\ [Next]_vars => TypeOK'
  <1> SUFFICES ASSUME TypeOK, [Next]_vars PROVE TypeOK'
    OBVIOUS
  <1>1. /\ now \in WallClock /\ store \in SUBSET Id /\ alarms \in [Id -> AlarmRec]
        /\ due \in SUBSET Id /\ rang \in SUBSET Id /\ target \in AlarmRec
        /\ left \in -LateBy .. LongestWait /\ LateBy \in Nat /\ MaxQueued \in Nat
    BY DispatcherAssumption DEF TypeOK
  <1>2. CASE Trigger
    <2>1. due' \subseteq Id /\ rang' \subseteq Id /\ queued' \in 0 .. MaxQueued
      BY <1>1, <1>2 DEF Trigger, TypeOK
    <2> QED
      BY <1>1, <1>2, <2>1, CheckType DEF Trigger
  <1>3. CASE DeliverQueued
    <2>1. due' \subseteq Id /\ rang' \subseteq Id /\ queued' \in 0 .. MaxQueued
      BY <1>1, <1>3 DEF DeliverQueued, TypeOK
    <2> QED
      BY <1>1, <1>3, <2>1, CheckType DEF DeliverQueued
  <1>4. CASE ReadInstance
    <2>1. left' \in -LateBy .. LongestWait
      BY <1>1, <1>4, RemainingBounds, LeftType DEF ReadInstance, LongestWait
    <2> QED
      BY <1>4, <2>1 DEF ReadInstance, TypeOK
  <1>5. CASE StartTimer
    BY <1>5 DEF StartTimer, TypeOK
  <1>6. CASE Tick
    <2>1. left' \in -LateBy .. LongestWait
      BY <1>1, <1>6, SlotsAssumption DEF Tick, LongestWait
    <2>2. now' \in WallClock
      BY <1>1, <1>6, SuccessorType DEF Tick
    <2>3. due' \in SUBSET Id
      BY <1>1, <1>6 DEF Tick, Enabled
    <2>4. upcoming' \in Id \cup {None} /\ target' \in AlarmRec
      BY <1>6, SortedAnyhowType DEF Tick
    <2>5. overtaken' \in BOOLEAN
      BY <1>6 DEF Tick, TypeOK
    <2> QED
      BY <1>6, <2>1, <2>2, <2>3, <2>4, <2>5 DEF Tick, TypeOK
  <1>7. CASE Gui
    BY <1>7, GuiChanges, GuiChangeType
  <1>8. CASE Rest
    BY <1>8, RestChanges, RestChangeType
  <1>9. CASE File
    <2>1. PICK st \in SUBSET Id, al \in [Id -> UserAlarm] : Reload(st, al)
      BY <1>9 DEF File
    <2>2. alarms' \in [Id -> AlarmRec]
      BY <2>1, UserAlarmType, NoAlarmType DEF Reload
    <2> QED
      BY <2>1, <2>2 DEF Reload, TypeOK
  <1>10. CASE Clock
    <2>1. PICK w \in WallClock : ClockSet(w)
      BY <1>10 DEF Clock
    <2>2. upcoming' \in Id \cup {None} /\ target' \in AlarmRec
      BY <2>1, SortedAnyhowType DEF ClockSet
    <2>3. left' \in -LateBy .. LongestWait
      BY <1>1, <2>1 DEF ClockSet
    <2> QED
      BY <2>1, <2>2, <2>3 DEF ClockSet, TypeOK
  <1>11. CASE UNCHANGED vars
    BY <1>11 DEF vars, TypeOK
  <1> QED
    BY <1>2, <1>3, <1>4, <1>5, <1>6, <1>7, <1>8, <1>9, <1>10, <1>11 DEF Next, Dispatcher

(* Every variable keeps its type; in particular the timer is never set for  *)
(* more than a week ahead and never more overdue than the event loop is     *)
(* late.                                                                    *)
THEOREM TypeCorrect == Spec => []TypeOK
  BY InitType, NextType, PTL DEF Spec

(* At every instant the code's next instance of every alarm is the first    *)
(* due one, also after the clock was set.                                   *)
THEOREM NextInstanceIsFirstDueHolds == Spec => []NextInstanceIsFirstDue
  <1>1. TypeOK => NextInstanceIsFirstDue
    BY NextInstance DEF TypeOK, NextInstanceIsFirstDue
  <1> QED
    BY <1>1, TypeCorrect, PTL

------------------------------------------------------------------------------
(* The two safety invariants.  Neither says enough of a check that is under *)
(* way: the old timer is gone, and unless something was missed, the alarm   *)
(* that is about to be timed is stored and the first one.                   *)

CheckUnderWay ==
    pc # "loop" =>
        /\ ~armed
        /\ pc = "sorting" => target.enabled
        /\ queued = 0 /\ stale = {} /\ ~overtaken =>
              /\ upcoming \in Enabled(store, alarms)
              /\ target = alarms[upcoming]
              /\ \A b \in Enabled(store, alarms) :
                    Remaining(target, now) <= Remaining(alarms[b], now)
              /\ pc = "reading" => left = Remaining(target, now)

Sound == TimerPointsAtDue /\ TimerCoversStore /\ CheckUnderWay
IInv  == TypeOK /\ Sound

(* The beginning of a check establishes all of it from scratch. *)
LEMMA CheckEstablishes ==
    ASSUME TypeOK, NEW st \in SUBSET Id, NEW al \in [Id -> AlarmRec],
           CheckAlarms(st, al), now' = now, store' = st, alarms' = al
    PROVE  Sound'
  <1>1. /\ armed' = FALSE /\ pc' \in {"loop", "sorting"} /\ left' = 0
        /\ pc' = "loop" => Enabled(st, al) = {}
        /\ pc' = "sorting" =>
              /\ upcoming' \in Enabled(st, al)
              /\ target' = al[upcoming'] /\ target'.enabled
              /\ \A b \in Enabled(st, al) :
                    Remaining(target', now) <= Remaining(al[b], now)
    BY CheckAlarmsBegins DEF TypeOK
  <1>2. TimerPointsAtDue'
    BY <1>1 DEF TimerPointsAtDue, Running
  <1>3. TimerCoversStore'
    BY <1>1 DEF TimerCoversStore
  <1>4. CheckUnderWay'
    BY <1>1 DEF CheckUnderWay
  <1> QED
    BY <1>2, <1>3, <1>4 DEF Sound

LEMMA InitEstablishes == Init => Sound
  <1> SUFFICES ASSUME Init PROVE Sound
    OBVIOUS
  <1>1. CASE Enabled(store, alarms) = {}
    BY <1>1 DEF Init, Sound, TimerPointsAtDue, TimerCoversStore, CheckUnderWay, Running
  <1>2. CASE Enabled(store, alarms) # {}
    <2>1. PICK a \in Earliest(store, alarms) :
              pc = "sorting" /\ upcoming = a /\ target = alarms[a] /\ armed = FALSE
      BY <1>2 DEF Init
    <2>2. /\ a \in Enabled(store, alarms) /\ alarms[a].enabled
          /\ \A b \in Enabled(store, alarms) :
                Remaining(alarms[a], now) <= Remaining(alarms[b], now)
      BY DEF Earliest, Enabled
    <2> QED
      BY <2>1, <2>2 DEF Sound, TimerPointsAtDue, TimerCoversStore, CheckUnderWay, Running
  <1> QED
    BY <1>1, <1>2

(* The distance is read, and the timer is started with it. *)
LEMMA ReadInstancePreserves ==
    ASSUME IInv, ReadInstance
    PROVE  Sound'
  <1>1. /\ pc = "sorting" /\ pc' = "reading" /\ left' = Remaining(target, now)
        /\ UNCHANGED <<now, store, alarms, upcoming, target, armed, queued, stale, overtaken>>
    BY DEF ReadInstance
  <1>2. /\ ~armed /\ target.enabled
        /\ queued = 0 /\ stale = {} /\ ~overtaken =>
              /\ upcoming \in Enabled(store, alarms)
              /\ target = alarms[upcoming]
              /\ \A b \in Enabled(store, alarms) :
                    Remaining(target, now) <= Remaining(alarms[b], now)
    BY <1>1 DEF IInv, Sound, CheckUnderWay
  <1> QED
    BY <1>1, <1>2 DEF Sound, TimerPointsAtDue, TimerCoversStore, CheckUnderWay

LEMMA StartTimerPreserves ==
    ASSUME IInv, StartTimer
    PROVE  Sound'
  <1>1. /\ pc = "reading" /\ pc' = "loop" /\ armed' = (left >= 0)
        /\ UNCHANGED <<now, store, alarms, upcoming, target, left, queued, stale, overtaken>>
    BY DEF StartTimer
  <1>2. TimerPointsAtDue'
    BY <1>1 DEF IInv, Sound, TimerPointsAtDue, Running
  <1>3. TimerCoversStore'
    <2> SUFFICES ASSUME queued = 0, stale = {}, ~overtaken
                 PROVE  /\ armed' <=> Enabled(store, alarms) # {}
                        /\ armed' => upcoming \in store /\ target = alarms[upcoming]
                        /\ \A b \in Enabled(store, alarms) : left <= Remaining(alarms[b], now)
      BY <1>1 DEF TimerCoversStore
    <2>1. /\ upcoming \in Enabled(store, alarms) /\ target = alarms[upcoming]
          /\ \A b \in Enabled(store, alarms) :
                Remaining(target, now) <= Remaining(alarms[b], now)
          /\ left = Remaining(target, now)
      BY <1>1 DEF IInv, Sound, CheckUnderWay
    <2>2. left \in 0 .. 7 * SlotsPerDay
      BY <2>1, RemainingBounds DEF IInv, TypeOK
    <2>3. left >= 0
      BY <2>2
    <2> QED
      BY <1>1, <2>1, <2>3 DEF Enabled
  <1>4. CheckUnderWay'
    BY <1>1 DEF CheckUnderWay
  <1> QED
    BY <1>2, <1>3, <1>4 DEF Sound

(* While an alarm is not due its distance counts down; when the clock goes  *)
(* on it does not become shorter than what was less than it.                *)
LEMMA NotDueCountsDown ==
    ASSUME NEW alm \in AlarmRec, NEW w \in WallClock, ~DueAt(alm, w)
    PROVE  Remaining(alm, Successor(w)) = Remaining(alm, w) - 1
  <1>1. Remaining(alm, w) # 0 /\ Remaining(alm, w) \in 0 .. 7 * SlotsPerDay
    BY RemainingZeroIsDue, RemainingBounds
  <1>2. Remaining(alm, w) > 0
    BY <1>1, SlotsAssumption
  <1> QED
    BY <1>2, RemainingCountsDown

LEMMA OneInstantLater ==
    ASSUME NEW alm \in AlarmRec, NEW w \in WallClock, NEW n \in Int,
           n <= Remaining(alm, w)
    PROVE  n - 1 <= Remaining(alm, Successor(w))
  <1>1. Remaining(alm, w) \in Nat /\ Remaining(alm, Successor(w)) \in Nat
    BY RemainingBounds, SuccessorType, SlotsAssumption
  <1>2. CASE Remaining(alm, w) = 0
    BY <1>1, <1>2
  <1>3. CASE Remaining(alm, w) # 0
    <2>1. Remaining(alm, Successor(w)) = Remaining(alm, w) - 1
      BY <1>1, <1>3, RemainingCountsDown
    <2> QED
      BY <1>1, <2>1
  <1> QED
    BY <1>2, <1>3

(* One instant passes: timer, delta and alarms count down together. *)
LEMMA TickPreserves ==
    ASSUME IInv, Tick
    PROVE  Sound'
  <1>1. /\ now \in WallClock /\ now' = Successor(now) /\ now' \in WallClock
        /\ target \in AlarmRec /\ left \in Int /\ armed \in BOOLEAN
        /\ alarms \in [Id -> AlarmRec] /\ store \subseteq Id
    BY SuccessorType, LeftType DEF IInv, TypeOK, Tick
  <1>2. /\ UNCHANGED <<store, alarms, pc, armed, queued, stale>>
        /\ left' = IF Running THEN left - 1 ELSE left
        /\ overtaken' = (overtaken \/ (pc # "loop" /\ DueNow))
        /\ UNCHANGED <<upcoming, target>> \/ (DueNow /\ SortedAnyhow)
    BY DEF Tick
  <1>3. pc # "sorting" => UNCHANGED <<upcoming, target>>
    BY <1>2 DEF SortedAnyhow
  <1>4. armed => pc = "loop"
    BY DEF IInv, Sound, CheckUnderWay
  <1>5. TimerPointsAtDue'
    <2> SUFFICES ASSUME "clock" \notin stale, Running, left' >= 0
                 PROVE  target'.enabled /\ Remaining(target', now') = left'
      BY <1>2 DEF TimerPointsAtDue, Running
    <2>1. pc # "sorting"
      BY <1>4 DEF Running
    <2>2. left' = left - 1 /\ left > 0 /\ target' = target
      BY <1>1, <1>2, <1>3, <2>1
    <2>3. target.enabled /\ Remaining(target, now) = left
      BY <1>1, <2>2 DEF IInv, Sound, TimerPointsAtDue
    <2>4. Remaining(target, now') = left - 1
      BY <1>1, <2>2, <2>3, RemainingCountsDown
    <2> QED
      BY <2>2, <2>3, <2>4
  <1>6. TimerCoversStore'
    <2> SUFFICES ASSUME pc = "loop", queued = 0, stale = {}, ~overtaken'
                 PROVE  /\ armed <=> Enabled(store, alarms) # {}
                        /\ armed => upcoming' \in store /\ target' = alarms[upcoming']
                        /\ \A b \in Enabled(store, alarms) :
                              left' <= Remaining(alarms[b], now')
      BY <1>2 DEF TimerCoversStore
    <2>1. /\ armed <=> Enabled(store, alarms) # {}
          /\ armed => upcoming \in store /\ target = alarms[upcoming]
          /\ \A b \in Enabled(store, alarms) : left <= Remaining(alarms[b], now)
      BY <1>2 DEF IInv, Sound, TimerCoversStore
    <2>2. upcoming' = upcoming /\ target' = target
      BY <1>3
    <2>3. ASSUME NEW b \in Enabled(store, alarms)
          PROVE  left' <= Remaining(alarms[b], now')
      <3>1. armed /\ left' = left - 1 /\ left <= Remaining(alarms[b], now)
        BY <1>2, <2>1, <2>3 DEF Running
      <3>2. alarms[b] \in AlarmRec
        BY <1>1, <2>3 DEF Enabled
      <3> QED
        BY <1>1, <3>1, <3>2, OneInstantLater
    <2> QED
      BY <2>1, <2>2, <2>3
  <1>7. CheckUnderWay'
    <2> SUFFICES ASSUME pc # "loop" PROVE CheckUnderWay'
      BY <1>2 DEF CheckUnderWay
    <2>1. ~armed /\ (pc = "sorting" => target.enabled)
      BY DEF IInv, Sound, CheckUnderWay
    <2>2. pc = "sorting" => target'.enabled
      BY <1>2, <2>1 DEF SortedAnyhow, Enabled
    <2>3. ASSUME queued = 0, stale = {}, ~overtaken'
          PROVE  /\ upcoming' \in Enabled(store, alarms)
                 /\ target' = alarms[upcoming']
                 /\ \A b \in Enabled(store, alarms) :
                       Remaining(target', now') <= Remaining(alarms[b], now')
                 /\ pc = "reading" => left' = Remaining(target', now')
      <3>1. ~overtaken /\ ~DueNow /\ upcoming' = upcoming /\ target' = target
        BY <1>2, <2>3
      <3>2. /\ upcoming \in Enabled(store, alarms) /\ target = alarms[upcoming]
            /\ \A b \in Enabled(store, alarms) :
                  Remaining(target, now) <= Remaining(alarms[b], now)
            /\ pc = "reading" => left = Remaining(target, now)
        BY <2>3, <3>1 DEF IInv, Sound, CheckUnderWay
      <3>3. ASSUME NEW b \in Enabled(store, alarms)
            PROVE  /\ Remaining(alarms[b], now') = Remaining(alarms[b], now) - 1
                   /\ Remaining(alarms[b], now) \in Int
        <4>1. alarms[b] \in AlarmRec /\ ~DueAt(alarms[b], now)
          BY <1>1, <3>1, <3>3 DEF Enabled, DueNow
        <4> QED
          BY <1>1, <4>1, NotDueCountsDown, RemainingBounds, SlotsAssumption
      <3>4. /\ Remaining(target, now') = Remaining(target, now) - 1
            /\ Remaining(target, now) \in Int
        BY <3>2, <3>3
      <3>5. \A b \in Enabled(store, alarms) :
                Remaining(target, now') <= Remaining(alarms[b], now')
        BY <3>2, <3>3, <3>4
      <3>6. pc = "reading" => left' = Remaining(target, now')
        BY <1>1, <1>2, <3>2, <3>4 DEF Running
      <3> QED
        BY <3>1, <3>2, <3>5, <3>6
    <2> QED
      BY <1>2, <2>1, <2>2, <2>3 DEF CheckUnderWay
  <1> QED
    BY <1>5, <1>6, <1>7 DEF Sound

LEMMA NextPreserves ==
    ASSUME IInv, [Next]_vars
    PROVE  Sound'
  <1>1. TypeOK /\ store \in SUBSET Id /\ alarms \in [Id -> AlarmRec]
    BY DEF IInv, TypeOK
  <1>2. CASE Trigger
    BY <1>1, <1>2, CheckEstablishes DEF Trigger
  <1>3. CASE DeliverQueued
    BY <1>1, <1>3, CheckEstablishes DEF DeliverQueued
  <1>4. CASE ReadInstance
    BY <1>4, ReadInstancePreserves
  <1>5. CASE StartTimer
    BY <1>5, StartTimerPreserves
  <1>6. CASE Tick
    BY <1>6, TickPreserves
  <1>7. CASE Gui
    <2>1. PICK a \in Id, st \in SUBSET Id, al \in [Id -> AlarmRec] : GuiChange(a, st, al)
      BY <1>1, <1>7, GuiChanges
    <2> QED
      BY <1>1, <2>1, CheckEstablishes DEF GuiChange
  <1>8. CASE Rest
    <2>1. PICK a \in Id, st \in SUBSET Id, al \in [Id -> AlarmRec] : RestChange(a, st, al)
      BY <1>1, <1>8, RestChanges
    <2>2. UNCHANGED <<now, target, pc, armed, left, stale>> /\ queued' = queued + 1
      BY <2>1 DEF RestChange
    <2>3. queued' # 0
      BY <1>1, <2>2 DEF TypeOK
    <2> QED
      BY <2>2, <2>3
      DEF IInv, Sound, TimerPointsAtDue, TimerCoversStore, CheckUnderWay, Running
  <1>9. CASE File
    <2>1. /\ UNCHANGED <<now, target, pc, armed, left>>
          /\ pc = "loop" /\ stale' = stale \cup {"file"}
      BY <1>9 DEF File, Reload
    <2> QED
      BY <2>1
      DEF IInv, Sound, TimerPointsAtDue, TimerCoversStore, CheckUnderWay, Running
  <1>10. CASE Clock
    <2>1. PICK w \in WallClock : ClockSet(w)
      BY <1>10 DEF Clock
    <2>2. /\ UNCHANGED <<pc, armed>> /\ stale' = stale \cup {"clock"}
          /\ UNCHANGED <<upcoming, target>> \/ SortedAnyhow
      BY <2>1 DEF ClockSet
    <2>3. target.enabled => target'.enabled
      BY <1>1, <2>2, SortedAnyhowType
    <2> QED
      BY <2>2, <2>3
      DEF IInv, Sound, TimerPointsAtDue, TimerCoversStore, CheckUnderWay
  <1>11. CASE UNCHANGED vars
    BY <1>11
    DEF vars, IInv, Sound, TimerPointsAtDue, TimerCoversStore, CheckUnderWay, Running
  <1> QED
    BY <1>2, <1>3, <1>4, <1>5, <1>6, <1>7, <1>8, <1>9, <1>10, <1>11 DEF Next, Dispatcher

LEMMA InvariantHolds == Spec => []IInv
  <1>1. Init => IInv
    BY InitType, InitEstablishes DEF IInv
  <1>2. IInv /\ [Next]_vars => IInv'
    BY NextType, NextPreserves DEF IInv
  <1> QED
    BY <1>1, <1>2, PTL DEF Spec

(* The timer points at an instant at which its alarm is due, whatever GUI,  *)
(* REST threads and file watcher do, and after a change of the wall clock   *)
(* again from the next check on.                                            *)
THEOREM TimerPointsAtDueHolds == Spec => []TimerPointsAtDue
  <1>1. IInv => TimerPointsAtDue
    BY DEF IInv, Sound
  <1> QED
    BY <1>1, InvariantHolds, PTL

(* Between two checks, unless one is queued, something happened behind its  *)
(* back or an instant went by in the middle of the last check, the          *)
(* dispatcher knows the store: its timer runs exactly when an alarm is      *)
(* enabled, and no enabled alarm is due before it fires.                    *)
THEOREM TimerCoversStoreHolds == Spec => []TimerCoversStore
  <1>1. IInv => TimerCoversStore
    BY DEF IInv, Sound
  <1> QED
    BY <1>1, InvariantHolds, PTL

(* The two together, without the arithmetic: under the same conditions the  *)
(* timer fires at an instant its alarm is due at, and until then no enabled *)
(* alarm of the store is due.                                               *)
NothingIsPassedOver ==
    pc = "loop" /\ queued = 0 /\ stale = {} /\ ~overtaken /\ armed /\ left >= 0 =>
        /\ DueAt(target, After(now)[left])
        /\ \A a \in Enabled(store, alarms), k \in 0 .. left - 1 :
              ~DueAt(alarms[a], After(now)[k])

THEOREM NothingIsPassedOverHolds == Spec => []NothingIsPassedOver
  <1>1. IInv => NothingIsPassedOver
    <2> SUFFICES ASSUME IInv, pc = "loop", queued = 0, stale = {}, ~overtaken,
                        armed, left >= 0
                 PROVE  /\ DueAt(target, After(now)[left])
                        /\ \A a \in Enabled(store, alarms), k \in 0 .. left - 1 :
                              ~DueAt(alarms[a], After(now)[k])
      BY DEF NothingIsPassedOver
    <2>1. /\ now \in WallClock /\ target \in AlarmRec /\ alarms \in [Id -> AlarmRec]
          /\ store \subseteq Id /\ left \in Int
      BY LeftType DEF IInv, TypeOK
    <2>2. Remaining(target, now) = left
      BY DEF IInv, Sound, TimerPointsAtDue, Running
    <2>3. DueAt(target, After(now)[left])
      BY <2>1, <2>2, NextInstance DEF FirstDue
    <2>4. ASSUME NEW a \in Enabled(store, alarms), NEW k \in 0 .. left - 1
          PROVE  ~DueAt(alarms[a], After(now)[k])
      <3>1. alarms[a] \in AlarmRec /\ left <= Remaining(alarms[a], now)
        BY <2>1 DEF Enabled, IInv, Sound, TimerCoversStore
      <3>2. Remaining(alarms[a], now) \in Int
        BY <2>1, <3>1, RemainingBounds, SlotsAssumption
      <3>3. k \in 0 .. Remaining(alarms[a], now) - 1
        BY <2>1, <3>1, <3>2
      <3> QED
        BY <2>1, <3>1, <3>3, NextInstance DEF FirstDue
    <2> QED
      BY <2>3, <2>4
  <1> QED
    BY <1>1, InvariantHolds, PTL

==============================================================================
