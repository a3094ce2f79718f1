------------------------- MODULE WeatherReport_proofs -------------------------
(***************************************************************************)
(* Proofs about WeatherReport, for any locations, any number of forecasts  *)
(* and any widgets.                                                        *)
(*                                                                         *)
(* QuietIsCurrent speaks of the moment when all replies have come; the     *)
(* invariant that carries it says what each of the two has brought when it *)
(* has come alone.                                                         *)
(***************************************************************************)
EXTENDS WeatherReport, TLAPS

(* A refresh that met nothing waits for one reply of each kind at most.     *)
OnlyAsked ==
    clean => \A k \in Kinds, l \in Locations :
                 /\ l # asked => waiting[k][l] = 0
                 /\ waiting[k][l] <= 1

WeatherCame ==
    clean /\ waiting["weather"][asked] = 0 => city = asked /\ weather[0] = asked

ForecastCame ==
    clean /\ waiting["forecast"][asked] = 0 =>
        \A i \in 1..(Count - 1) : weather[i] = asked /\ (i \in Widgets => shown[i] = asked)

BothCame ==
    clean /\ waiting["weather"][asked] = 0 /\ waiting["forecast"][asked] = 0 /\ ~overtaken =>
        (0 \in Widgets => shown[0] = asked)

Inv == TypeOK /\ OnlyAsked /\ WeatherCame /\ ForecastCame /\ BothCame

------------------------------------------------------------------------------
LEMMA InitInv == Init => Inv
<1> SUFFICES ASSUME Init PROVE Inv
    OBVIOUS
<1>1. \A k \in Kinds, l \in Locations : waiting[k][l] = IF l = cfg THEN 1 ELSE 0
    BY DEF Init
<1>2. 0 \in 0..MaxWaiting /\ 1 \in 0..MaxWaiting
    BY WeatherAssumption
<1>3. \A l \in Locations : (IF l = cfg THEN 1 ELSE 0) \in 0..MaxWaiting
    BY <1>2
<1>4. [l \in Locations |-> IF l = cfg THEN 1 ELSE 0] \in [Locations -> 0..MaxWaiting]
    BY <1>3
<1>5. waiting \in [Kinds -> [Locations -> 0..MaxWaiting]]
    BY <1>4 DEF Init
<1>6. TypeOK
    BY <1>5 DEF Init, TypeOK, Data
<1> QED BY <1>1, <1>6 DEF Init, Inv, TypeOK, OnlyAsked, WeatherCame, ForecastCame,
                          BothCame, Kinds

(* What the functions for downloads and replies return. *)
LEMMA DownloadType ==
    ASSUME TypeOK, NEW l \in Locations, \A k \in Kinds : waiting[k][l] < MaxWaiting
    PROVE  /\ Download(l) \in [Kinds -> [Locations -> 0..MaxWaiting]]
           /\ \A k \in Kinds, m \in Locations :
                  Download(l)[k][m] = IF m = l THEN waiting[k][m] + 1 ELSE waiting[k][m]
BY WeatherAssumption DEF TypeOK, Download

LEMMA ReceivedType ==
    ASSUME TypeOK, NEW k \in Kinds, NEW l \in Locations, waiting[k][l] > 0
    PROVE  /\ Received(k, l) \in [Kinds -> [Locations -> 0..MaxWaiting]]
           /\ \A j \in Kinds, m \in Locations :
                  Received(k, l)[j][m] = IF j = k /\ m = l THEN waiting[j][m] - 1
                                                           ELSE waiting[j][m]
BY WeatherAssumption DEF TypeOK, Received

------------------------------------------------------------------------------
LEMMA RefreshInv == Inv /\ Refresh => Inv'
<1> SUFFICES ASSUME Inv, Refresh PROVE Inv'
    OBVIOUS
<1>1. /\ waiting' \in [Kinds -> [Locations -> 0..MaxWaiting]]
      /\ \A k \in Kinds, m \in Locations :
             waiting'[k][m] = IF m = cfg THEN waiting[k][m] + 1 ELSE waiting[k][m]
    BY DownloadType DEF Inv, TypeOK, Refresh, Wanted
<1>2. clean' \in BOOLEAN
    BY DEF Refresh, Wanted, Idle
<1>3. TypeOK'
    BY <1>1, <1>2 DEF Inv, TypeOK, Refresh, Wanted
<1>4. asked' = cfg /\ cfg \in Locations
    BY DEF Refresh, Wanted, Inv, TypeOK
<1>5. clean' => \A k \in Kinds, m \in Locations : waiting'[k][m] = IF m = cfg THEN 1 ELSE 0
    <2>1. clean' => Idle
        BY DEF Refresh, Wanted
    <2>2. Idle => \A k \in Kinds, m \in Locations : waiting[k][m] = 0
        BY DEF Idle
    <2> QED BY <1>1, <2>1, <2>2
<1>6. OnlyAsked'
    BY <1>4, <1>5 DEF OnlyAsked
<1>7. clean' => waiting'["weather"][asked'] = 1 /\ waiting'["forecast"][asked'] = 1
    BY <1>4, <1>5 DEF Kinds
<1> QED BY <1>3, <1>6, <1>7 DEF Inv, WeatherCame, ForecastCame, BothCame

LEMMA WeatherReplyInv ==
    ASSUME Inv, NEW l \in Locations, NEW status \in BOOLEAN, NEW name \in BOOLEAN,
           WeatherReply(l, status, name)
    PROVE  Inv'
<1>1. /\ waiting' \in [Kinds -> [Locations -> 0..MaxWaiting]]
      /\ \A k \in Kinds, m \in Locations :
             waiting'[k][m] = IF k = "weather" /\ m = l THEN waiting[k][m] - 1
                                                        ELSE waiting[k][m]
    BY ReceivedType DEF Inv, WeatherReply, Kinds
<1>2. weather' \in [0..Count -> Data] /\ city' \in Data
    BY DEF Inv, TypeOK, WeatherReply, Update, Data
<1>3. clean' \in BOOLEAN /\ overtaken' \in BOOLEAN
    BY DEF Inv, TypeOK, WeatherReply
<1>4. TypeOK'
    BY <1>1, <1>2, <1>3 DEF Inv, TypeOK, WeatherReply
<1>5. asked' = asked /\ shown' = shown /\ asked \in Locations
    BY DEF Inv, TypeOK, WeatherReply
<1>6. waiting["weather"][l] > 0
    BY DEF WeatherReply
<1>7. SUFFICES ASSUME clean' PROVE (OnlyAsked /\ WeatherCame /\ ForecastCame /\ BothCame)'
    BY <1>4 DEF Inv, OnlyAsked, WeatherCame, ForecastCame, BothCame
<1>8. clean /\ status /\ name
    BY <1>7 DEF WeatherReply
<1>9. l = asked
    BY <1>6, <1>8 DEF Inv, OnlyAsked, Kinds
<1>10. OnlyAsked'
    BY <1>1, <1>5, <1>8, <1>9 DEF Inv, OnlyAsked, TypeOK
<1>11. weather' = [weather EXCEPT ![0] = l] /\ city' = l
    BY <1>8 DEF WeatherReply, Update
<1>12. 0 \in 0..Count /\ \A i \in 1..(Count - 1) : i \in 0..Count /\ i # 0
    BY WeatherAssumption
<1>13. weather'[0] = asked /\ \A i \in 1..(Count - 1) : weather'[i] = weather[i]
    BY <1>9, <1>11, <1>12 DEF Inv, TypeOK
<1>14. WeatherCame'
    BY <1>5, <1>9, <1>11, <1>13 DEF WeatherCame
<1>15. waiting'["forecast"][asked] = waiting["forecast"][asked]
    BY <1>1, <1>5 DEF Kinds
<1>16. ForecastCame'
    BY <1>5, <1>8, <1>13, <1>15 DEF Inv, ForecastCame
<1>17. ~overtaken' => waiting["forecast"][asked] # 0
    <2>1. ~overtaken' => \E m \in Locations : waiting["forecast"][m] # 0
        BY DEF WeatherReply
    <2> QED BY <2>1, <1>8 DEF Inv, OnlyAsked, Kinds
<1>18. BothCame'
    BY <1>5, <1>15, <1>17 DEF BothCame
<1> QED BY <1>10, <1>14, <1>16, <1>18

LEMMA ForecastReplyInv ==
    ASSUME Inv, NEW l \in Locations, NEW size \in 0..(Count + 2),
           NEW valid \in SUBSET Read(size), ForecastReply(l, size, valid)
    PROVE  Inv'
<1>1. /\ waiting' \in [Kinds -> [Locations -> 0..MaxWaiting]]
      /\ \A k \in Kinds, m \in Locations :
             waiting'[k][m] = IF k = "forecast" /\ m = l THEN waiting[k][m] - 1
                                                         ELSE waiting[k][m]
    BY ReceivedType DEF Inv, ForecastReply, Kinds
<1>2. weather' \in [0..Count -> Data]
    BY DEF Inv, TypeOK, ForecastReply, Update, Data
<1>3. shown' \in [Widgets -> Data]
    <2>1. Show(weather') \in [Widgets -> Data]
        BY <1>2, WeatherAssumption DEF Show
    <2> QED BY <2>1 DEF Inv, TypeOK, ForecastReply
<1>4. clean' \in BOOLEAN
    BY DEF Inv, TypeOK, ForecastReply
<1>5. TypeOK'
    BY <1>1, <1>2, <1>3, <1>4 DEF Inv, TypeOK, ForecastReply
<1>6. UNCHANGED <<asked, city, overtaken>> /\ asked \in Locations
    BY DEF Inv, TypeOK, ForecastReply
<1>7. SUFFICES ASSUME clean' PROVE (OnlyAsked /\ WeatherCame /\ ForecastCame /\ BothCame)'
    BY <1>5 DEF Inv, OnlyAsked, WeatherCame, ForecastCame, BothCame
<1>8. clean /\ size = Count /\ valid = Read(size)
    BY <1>7 DEF ForecastReply
<1>9. waiting["forecast"][l] > 0
    BY DEF ForecastReply
<1>10. l = asked
    BY <1>8, <1>9 DEF Inv, OnlyAsked, Kinds
<1>11. OnlyAsked'
    BY <1>1, <1>6, <1>8, <1>10 DEF Inv, OnlyAsked, TypeOK
<1>12. valid = 1..(Count - 1) /\ size # 0
    BY <1>8, WeatherAssumption DEF Read
<1>13. /\ weather' = [i \in 0..Count |-> IF i \in valid THEN l ELSE weather[i]]
       /\ shown' = [i \in Widgets |-> weather'[i]]
    BY <1>12 DEF ForecastReply, Update, Show
<1>14. 0 \in 0..Count /\ 0 \notin valid /\ \A i \in 1..(Count - 1) : i \in 0..Count
    BY <1>12, WeatherAssumption
<1>15. weather'[0] = weather[0] /\ \A i \in 1..(Count - 1) : weather'[i] = asked
    BY <1>10, <1>12, <1>13, <1>14
<1>16. waiting'["weather"][asked] = waiting["weather"][asked]
    BY <1>1, <1>6 DEF Kinds
<1>17. WeatherCame'
    BY <1>6, <1>8, <1>15, <1>16 DEF Inv, WeatherCame
<1>18. ForecastCame'
    BY <1>6, <1>13, <1>15 DEF ForecastCame
<1>19. BothCame'
    BY <1>6, <1>8, <1>13, <1>15, <1>16 DEF Inv, WeatherCame, BothCame
<1> QED BY <1>11, <1>17, <1>18, <1>19

------------------------------------------------------------------------------
LEMMA NextInv == Inv /\ [Next]_vars => Inv'
<1> SUFFICES ASSUME Inv, [Next]_vars PROVE Inv'
    OBVIOUS
<1>1. CASE Refresh
    BY <1>1, RefreshInv
<1>2. ASSUME NEW k \in Kinds, NEW l \in Locations, Reply(k, l) PROVE Inv'
    BY <1>2, WeatherReplyInv, ForecastReplyInv DEF Reply
<1>3. ASSUME NEW k \in Kinds, NEW l \in Locations, Fails(k, l) PROVE Inv'
    <2>1. waiting' \in [Kinds -> [Locations -> 0..MaxWaiting]]
        BY <1>3, ReceivedType DEF Inv, Fails
    <2> QED BY <1>3, <2>1 DEF Inv, TypeOK, OnlyAsked, WeatherCame, ForecastCame,
                              BothCame, Fails
<1>4. ASSUME NEW l \in Data, Reload(l) PROVE Inv'
    BY <1>4 DEF Inv, TypeOK, OnlyAsked, WeatherCame, ForecastCame, BothCame, Reload, Data
<1>5. CASE UNCHANGED vars
    BY <1>5 DEF vars, Inv, TypeOK, OnlyAsked, WeatherCame, ForecastCame, BothCame
<1> QED BY <1>1, <1>2, <1>3, <1>4, <1>5 DEF Next

LEMMA Invariance == Spec => []Inv
BY InitInv, NextInv, PTL DEF Spec

(* Types; no more downloads are counted than were started.                  *)
THEOREM TypeCorrect == Spec => []TypeOK
<1>1. Inv => TypeOK
    BY DEF Inv
<1> QED BY <1>1, Invariance, PTL

(* A refresh that met no other download and got whole replies leaves        *)
(* nothing of another location in Weather and its widgets, in whatever      *)
(* order its two replies came.                                              *)
THEOREM QuietIsCurrentHolds == Spec => []QuietIsCurrent
<1>1. Inv => QuietIsCurrent
    <2> SUFFICES ASSUME Inv, clean, Idle
                 PROVE  /\ city = asked
                        /\ \A i \in 0..(Count - 1) : weather[i] = asked
                        /\ \A i \in Widgets \ {Count} :
                               shown[i] = asked \/ (i = 0 /\ overtaken)
        BY DEF QuietIsCurrent
    <2>1. waiting["weather"][asked] = 0 /\ waiting["forecast"][asked] = 0
        BY DEF Inv, TypeOK, Idle, Kinds
    <2>2. city = asked /\ weather[0] = asked
        BY <2>1 DEF Inv, WeatherCame
    <2>3. \A i \in 1..(Count - 1) : weather[i] = asked /\ (i \in Widgets => shown[i] = asked)
        BY <2>1 DEF Inv, ForecastCame
    <2>4. \A i \in 0..(Count - 1) : i = 0 \/ i \in 1..(Count - 1)
        BY WeatherAssumption
    <2>5. \A i \in Widgets \ {Count} : i = 0 \/ i \in 1..(Count - 1)
        BY WeatherAssumption
    <2>6. 0 \in Widgets /\ ~overtaken => shown[0] = asked
        BY <2>1 DEF Inv, BothCame
    <2> QED BY <2>2, <2>3, <2>4, <2>5, <2>6 DEF Inv, TypeOK
<1> QED BY <1>1, Invariance, PTL

==============================================================================
