----------------------------- MODULE WeatherReport -----------------------------
(***************************************************************************)
(* Weather: two downloads per refresh, one for the current weather and one *)
(* for the forecasts, by two HttpClients.  A reply does not say which      *)
(* request it answers, downloads may overlap, overtake each other, fail or *)
(* bring half of what was asked for, and the widgets of ClockPage copy     *)
(* what they show when forecasts arrive.                                   *)
(*                                                                         *)
(* Data is represented by the location it is for.                          *)
(***************************************************************************)
EXTENDS Naturals

CONSTANTS
    Locations,      \* locationId
    Unknown,        \* a WeatherStatus that was never updated
    Count,          \* WEATHER_FORECAST_COUNT: forecasts asked for
    Widgets,        \* indices that ClockPage.qml shows: 0, 2 and 4
    MaxWaiting      \* bound: downloads of one kind for one location

ASSUME WeatherAssumption ==
    /\ Locations # {} /\ Unknown \notin Locations
    /\ Count \in Nat \ {0}
    /\ Widgets \subseteq 0..Count
    /\ MaxWaiting \in Nat \ {0}

VARIABLES
    cfg,            \* Configuration::weather_cfg: the location
    weather,        \* weather: index 0 is the current one, the others forecasts
    city,           \* city_name
    waiting,        \* pending_downloads of both clients, by location
    shown,          \* what the widgets show
    asked,          \* history: the location at the last refresh
    clean,          \* history: it met no other download, and all replies were whole
    overtaken       \* history: its forecasts came before its weather

vars == <<cfg, weather, city, waiting, shown, asked, clean, overtaken>>

Kinds == {"weather", "forecast"}
Data  == Locations \cup {Unknown}

TypeOK ==
    /\ cfg \in Locations
    /\ weather \in [0..Count -> Data]
    /\ city \in Data
    /\ waiting \in [Kinds -> [Locations -> 0..MaxWaiting]]
    /\ shown \in [Widgets -> Data]
    /\ asked \in Locations
    /\ clean \in BOOLEAN /\ overtaken \in BOOLEAN

Idle == \A k \in Kinds, l \in Locations : waiting[k][l] = 0

------------------------------------------------------------------------------
(* parse_forecast(): the loop over the list of a reply, of which it leaves  *)
(* out the first element.  A list of Count elements, as it is asked for,    *)
(* thus never fills the last place.                                         *)
Read(size) == 1..(IF size < Count + 1 THEN size - 1 ELSE Count)

(* Mutant: the current weather is never replaced. *)
FirstUpdate(old, new) == IF old = Unknown THEN new ELSE old

(* WeatherStatus::update() with data that passes validate_json(): all or    *)
(* nothing.                                                                 *)
Update(old, new) == new

(* update_forecast() of ClockPage.qml, connected to forecast_available. *)
Show(w) == [i \in Widgets |-> w[i]]

Received(k, l) == [waiting EXCEPT ![k][l] = @ - 1]

(* HttpClient::doDownload() for both requests; the URLs are made from the   *)
(* configuration of this moment.                                            *)
Download(l) == [k \in Kinds |-> [waiting[k] EXCEPT ![l] = @ + 1]]

------------------------------------------------------------------------------
(* Mutant: the location is the one of the last time. *)
LastTime == asked

(* create_weather_url(), create_forecast_url(): the location of the moment. *)
Wanted == cfg

(* refresh(), by the timer or by a long press on a widget. *)
Refresh ==
    /\ \A k \in Kinds : waiting[k][Wanted] < MaxWaiting
    /\ waiting' = Download(Wanted)
    /\ asked' = cfg
    /\ clean' = Idle
    /\ overtaken' = FALSE
    /\ UNCHANGED <<cfg, weather, city, shown>>

(* parse_weather(): the status and the name are taken independently of each *)
(* other; a reply that is no JSON has neither.                              *)
WeatherReply(l, status, name) ==
    /\ waiting["weather"][l] > 0
    /\ waiting' = Received("weather", l)
    /\ weather' = IF status THEN [weather EXCEPT ![0] = Update(@, l)] ELSE weather
    /\ city' = IF name THEN l ELSE city
    /\ clean' = (clean /\ status /\ name)
    /\ overtaken' = (overtaken \/ \A m \in Locations : waiting["forecast"][m] = 0)
    /\ UNCHANGED <<cfg, shown, asked>>

(* parse_forecast(): a list of some size, whose elements are taken one by   *)
(* one as far as they are valid.  An empty list, or no JSON, ends it early; *)
(* else forecast_available is signalled even if nothing was taken.          *)
ForecastReply(l, size, valid) ==
    /\ waiting["forecast"][l] > 0
    /\ waiting' = Received("forecast", l)
    /\ IF size = 0
       THEN UNCHANGED <<weather, shown>>
       ELSE /\ weather' = [i \in 0..Count |->
                              IF i \in valid THEN Update(weather[i], l)
                                              ELSE weather[i]]
            /\ shown' = Show(weather')
    /\ clean' = (clean /\ size = Count /\ valid = Read(size))
    /\ UNCHANGED <<cfg, city, asked, overtaken>>

(* downloadFinished() with an error. *)
Fails(k, l) ==
    /\ waiting[k][l] > 0
    /\ waiting' = Received(k, l)
    /\ clean' = FALSE
    /\ UNCHANGED <<cfg, weather, city, shown, asked, overtaken>>

(* read_weather(): from_json_object() throws when the location is empty,    *)
(* and the former one stays.  The object Weather is not told of a new one.  *)
Reload(l) ==
    /\ l \notin {cfg, Unknown}
    /\ cfg' = l
    /\ UNCHANGED <<weather, city, waiting, shown, asked, clean, overtaken>>

------------------------------------------------------------------------------
(* The constructor starts the first downloads. *)
Init ==
    /\ cfg \in Locations
    /\ weather = [i \in 0..Count |-> Unknown]
    /\ city = Unknown
    /\ waiting = [k \in Kinds |-> [l \in Locations |-> IF l = cfg THEN 1 ELSE 0]]
    /\ shown = [i \in Widgets |-> Unknown]
    /\ asked = cfg
    /\ clean = TRUE
    /\ overtaken = FALSE

WholeReply(k, l) ==
    \/ k = "weather" /\ WeatherReply(l, TRUE, TRUE)
    \/ k = "forecast" /\ ForecastReply(l, Count, Read(Count))

Reply(k, l) ==
    \/ /\ k = "weather"
       /\ \E status, name \in BOOLEAN : WeatherReply(l, status, name)
    \/ /\ k = "forecast"
       /\ \E size \in 0..(Count + 2) : \E valid \in SUBSET Read(size) :
              ForecastReply(l, size, valid)

Next ==
    \/ Refresh
    \/ \E k \in Kinds, l \in Locations : Reply(k, l) \/ Fails(k, l)
    \/ \E l \in Data : Reload(l)

Spec     == Init /\ [][Next]_vars
FairSpec == Spec /\ WF_vars(Refresh)

------------------------------------------------------------------------------
(***************************************************************************)
(* Properties.                                                             *)
(***************************************************************************)

(* When the last refresh was made while no other download was under way,    *)
(* and its replies have come and were whole, all that is known is for the   *)
(* location of that refresh: city, current weather, forecasts and what the  *)
(* widgets show - but for the widget of the current weather, which shows    *)
(* the former one if the forecasts were faster, and for the last forecast.  *)
QuietIsCurrent ==
    clean /\ Idle =>
        /\ city = asked
        /\ \A i \in 0..(Count - 1) : weather[i] = asked
        /\ \A i \in Widgets \ {Count} : shown[i] = asked \/ (i = 0 /\ overtaken)

(* If the location stays and all downloads are answered as they should be,  *)
(* then in the end everything is for that location, whatever was asked      *)
(* before and however replies overtake each other.                          *)
Undisturbed == <>[][Refresh \/ \E k \in Kinds, l \in Locations : WholeReply(k, l)]_vars
Answered    == \A k \in Kinds, l \in Locations : WF_vars(Reply(k, l))
Settles     ==
    Undisturbed /\ Answered =>
        <>[](/\ city = cfg
             /\ \A i \in 0..(Count - 1) : weather[i] = cfg
             /\ \A i \in Widgets \ {Count} : shown[i] = cfg)

==============================================================================
