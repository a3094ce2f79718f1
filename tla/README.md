# DigitalRooster: TLA+ models, model checks and proofs

DigitalRooster is the firmware of a radio alarm clock: a Qt program that rings
alarms at their time, plays internet radio and podcasts, goes to standby and
keeps its configuration in a JSON file that a text editor and a REST API may
change while it runs. This directory holds TLA+ modules of its core, TLC
configurations that check them on small instances, and TLAPS proofs of the
properties that matter most.

```
tlc -config WakeUp.cfg MCWakeUp.tla        # one of the runs below
tlapm WakeUp_proofs.tla                    # one of the *_proofs modules
```

`PROJECT.json` lists every run, the source lines each definition models, the
mutants that show each property can fail, the hazards of the code and the
results that are proved.

## 1. Inventory

Nearly everything lives on one thread, the GUI thread with Qt's event loop.
Signals between its objects are direct calls, so a slot runs inside the handler
that emits the signal, and slots run in the order of the `connect()` calls of
`qtgui/main.cpp`. What makes the program hard are the things beside that loop:
timers that fire early or late, two threads of the REST server that change the
configuration without a lock, a media backend that answers when it likes, other
programs that write the configuration file, and the wall clock.

| Component | State | Operations | Talks to |
|---|---|---|---|
| Alarm schedule (`alarm.cpp`) | time, period, enabled | `get_next_instance`, `operator<` | read by AlarmDispatcher |
| AlarmDispatcher | upcoming alarm, one single-shot timer | `check_alarms`, `trigger`, `dispatch` | hears `alarms_changed`; emits `alarm_triggered` |
| Configuration (stores) | vectors of alarms, stations, podcasts; scalar values | add, delete, change; signals `*_changed` | GUI models, REST threads, dispatcher |
| Configuration (persistence) | dirty flag, file watcher, 5 s timer | `timerEvent`, `store_current_config`, `fileChanged`, `refresh_configuration` | file system |
| AlarmMonitor | Idle / Armed / FallBackMode, grace timer | `alarm_triggered`, error handler, timeout, `stop` | drives the player |
| MediaPlayerProxy | current item, backend, volume, position | `play`, `pause`, `stop`, `set_media`, `set_playlist` | QMediaPlayer; SleepTimer hears its state |
| SleepTimer | Idle / Alarm / Playing, timer | `alarm_triggered`, `playback_state_changed`, `reset_timer`, timeout | PowerControl::standby |
| PowerControl | Active / Standby | `activate`, `standby`, `toggle_power_state` | player, monitor, brightness, QML |
| QML interface | which pop-up is open | buttons, dialogs, lists | all of the above |
| REST API | none | add, list, delete of alarms, stations, podcasts | Configuration, on two threads |
| PodcastSource, PodcastSerializer | episodes, cache file, delayed write | add, purge, set position, read and write cache | UpdateTask, HttpClient, RSS parser |
| BrightnessControl | two settings, power state, filter of three readings, connections to the sensor | `set_adaptive_mode`, `als_value_changed`, `set_*_brightness`, `update_backlight` | HardwareControl (sensor, PWM), PowerControl, Configuration |
| HardwareControl, VolumeButton | sensor files and their error flags; wheel on or off | sensor timer, `set_backlight`, reboot, rotary and button events | BrightnessControl, MediaPlayerProxy, PowerControl |
| WifiControl, WifiListModel | control connection, scan state, reply buffer, networks | `start_scan`, `ctrl_event`, `parse_event`, `read_scan_results`, `wps_connect` | wpa_supplicant, through `wpa_ctrl` |
| Weather | status now and forecasts, city, two download clients | `refresh`, `parse_weather`, `parse_forecast` | HTTP; ClockPage copies what it shows |
| NetworkInfo, logger, command line | last values | polling, formatting | labels and log file |

What is hard, and what makes each part correct:

- **Alarm scheduling.** The dispatcher knows only one alarm. Every change, from
  any thread, has to reach it; a late timer, a changed clock, a reloaded file or
  two alarms at one instant must not make it miss one. Correct: the timer ends
  at an instant the alarm is due at, no enabled alarm is due before, and an
  alarm goes on being dispatched over weekends and weeks.
- **Waking up.** Alarm, player, monitor, sleep timer and power button act on
  each other within one turn of the event loop, while errors and starts of the
  backend come at any time. Correct: sound never runs without a timer that will
  end it, standby is silent, the fallback really sounds.
- **Configuration.** Two copies, memory and file, each with several writers.
  Correct: nothing is lost for good, and when all is quiet both agree.
- **Podcasts.** A list of limited length that downloads, evictions and purges
  change, positions that the player changes all the time, and a cache file that
  is written a second later, while reloads and restarts read it. Correct: list
  and file agree whenever no write is due, every change is written, and the
  newest episodes are the ones kept.
- **Player.** The backend reports media, position and seeking in any order, and
  the proxy has to know whose position it is. Correct: a saved position is the
  one where that item was heard last, and playing goes on there.
- **Backlight.** A sensor that may be missing, fail, or be connected several
  times, a power state and a menu all write one PWM value. Correct: the display
  shows the setting of the power state, after manual means manual, and a steady
  light gives a steady display.
- **Wifi and weather.** Replies that come late, lost, in another order or in
  part. Correct: after a quiet exchange status and data are those of the last
  one, and old answers are forgotten in the end.
- **REST.** Two threads page, add and delete, without a lock. Correct: a page
  is the part of the list that was asked for.

`PROJECT.json` lists these as hazards, each with its source line and either the
properties that would catch it or the reason why none does.

## 2. Modules

```
AlarmSchedule <- AlarmDispatcher <- MCAlarmDispatcher      PlayerBackend, SleepTimer <- WakeUp <- MCWakeUp
                        ^                                    TimedSound <---(implements)---'  ^
              AlarmDispatcher_proofs                                                    WakeUp_proofs
EpisodeList <- PodcastCache <- MCPodcastCache              ConfigStore       RestServer <- MCRestServer
                    ^                                          ^                 ^
            PodcastCache_proofs                                Configuration_proofs
Playback <- MCPlayback      Backlight <- MCBacklight      WeatherReport <- MCWeatherReport
   ^                            ^                              ^
Playback_proofs             Backlight_proofs              WeatherReport_proofs
WifiScan <- MCWifiScan
   ^
WifiScan_proofs
```

### AlarmSchedule
The arithmetic of `Alarm::get_next_instance()` on a wall clock of a weekday and
one of `SlotsPerDay` instants. `DailyDays`, `WeekendDays` and `WorkdayDays` are
the branches of the switch; `Remaining` is the distance from now to the instance.
`DueAt` states what a period means, without arithmetic; `After` is the clock
that runs on, and `FirstDue` puts the three together: the distance leads to the
first instant at which the alarm is due.

### AlarmDispatcher
One action per way the alarms change, and one per step of the dispatcher:

| Action | Code |
|---|---|
| `Trigger` | `trigger()`, with `dispatch()` and the beginning of the `check_alarms()` it ends with |
| `CheckAlarms` | the beginning of every `check_alarms()`: a copy of the list is sorted, the first enabled alarm is taken |
| `SortedAnyhow` | the outcome of a sort during which the order changes |
| `ReadInstance` | `get_next_instance()` reads the clock; the slots of `upcoming_alarm_info_changed` run afterwards |
| `StartTimer` | the clock is read again for `delta`, and the timer is started with it |
| `CreateAlarm`, `EditAlarm`, `SetEnabled`, `DeleteAlarm` | the QML dialog and `AlarmListModel`; the signal is a direct call, so `CheckAlarms` is part of the action |
| `RestAdd`, `RestDelete` | the REST threads; the signal is queued (`queued`) |
| `DeliverQueued` | the event loop begins a queued `check_alarms()` |
| `Reload` | `refresh_configuration()`, which does not tell the dispatcher |
| `Tick`, `ClockSet` | time passes; the wall clock is set and `QTimer` does not follow. Both may happen inside of a check |

`upcoming` and `target` stand for the `shared_ptr` to the upcoming alarm: the
object may have left the store while the dispatcher still holds it. The sort of
`get_upcoming_alarm()` is not stable, so `Earliest` is a set and the choice is
nondeterministic.

A check reads the wall clock in every comparison of the sort
(`alarm.cpp:199`), in `get_next_instance()` for the timer and, after an `emit`,
for the delta (`alarmdispatcher.cpp:44`). Time passes in between, so a check is
three steps: `pc` is `"sorting"` before `get_next_instance()`, `"reading"`
before the timer is started, and `"loop"` in the event loop. The slots of the
GUI thread wait for `"loop"`; the REST threads do not. While `pc` is
`"reading"`, `left` is what `delta` would be now; if it is negative, `StartTimer`
starts nothing.

History variables: `stale` is who acted behind the dispatcher since the last
check began (`"file"`, `"clock"`), `overtaken` that the instant of an enabled
alarm went by while the last check was under way, `due` the alarms that became
due and were not dispatched, `rang` what was dispatched at this instant.

### PlayerBackend, SleepTimer, WakeUp
`PlayerBackend` says what `QMediaPlayer` may do, as far as the code relies on
it: a call of `play()` reports its state at once or later, or never. It is
external. `SleepTimer` has the slots of `sleeptimer.cpp` as functions from
state to state. `WakeUp` composes them with AlarmMonitor, PowerControl and the
user interface; each action is one turn of the event loop, all direct
connections included. The dispatcher is its environment: an alarm may trigger
at any time. `session` is a history variable: the alarm the user has not
interfered with.

### TimedSound
What `WakeUp` promises, with three Booleans: the device is awake, it sounds, a
fuse burns. The fuse is put out only by burning down, which ends the sound and
puts the device to sleep. `WakeUp!Promise` gives the refinement mapping: the
fuse is the sleep timer.

### ConfigStore
The content is a set of items (alarms, stations, podcasts and values alike).
`GuiChange` and `RestChange` mark the configuration dirty, whether the value is
another one or not. `Unmarked` are the items that change without a mark: the
switch of the adaptive light, which is stored (`configuration.cpp:377`) but set
by `enable_backlight_control()` alone (`QuietChange`). `FileAgrees` says that
file and memory agree in everything else.
A store is three steps, `StoreBegin` (snapshot, path removed from the watcher),
`Commit` (`QSaveFile` renames), `StoreEnd` (path added again, `dirty = !dirty`),
because REST threads and editors act between them; slots of the GUI thread do
not. Editors write in place, which leaves an inotify event, or replace the
file, after which `QFileSystemWatcher` has lost it; an invalid file is read as
an empty object; a removed file makes `fileChanged()` throw, which ends the
program. `Quit` is any end of the program: nothing is stored on exit.

### EpisodeList, PodcastCache
`EpisodeList` is `PodcastSource::add_episode()` as a function from list to list,
with what a proper list is and which episodes it has to keep. An episode is its
guid. `Stay` tells an episode that stayed from one that a feed pushed out and
brought back, which is a new object without a position.

`PodcastCache` is one source of the configuration file with its serializer, its
download client and the player:

| Action | Code |
|---|---|
| `Start`, `Reload` | `read_podcasts()`: the list comes from the cache file before the serializer hears of changes |
| `Stop` | any end of the program; nothing is written |
| `Refresh`, `Reply`, `ReplyFails` | `UpdateTask::start()`, `update_podcast()`, a failed download |
| `Icon` | `store_image()`; it changes only the path, so all it does is to make a write due |
| `Purge` | the "purge local" button: `purge()`, then `refresh()` |
| `Play`, `PlayerMoves` | `send_to_player()`; the backend reports a position |
| `Tick`, `Write` | `writeTimer` and `write()` |

`playing.owner` says whose object the player holds: an episode in the list, one
that left the list but still signals to its source, or one whose source died in
a reload. `Added` is the list after each episode of a feed; a feed (`Feeds`) may
name an episode more than once. Every feed begins with its title, which signals a change;
`add_episode()` alone signals none. All episodes are dated.

### Playback
The same MediaPlayerProxy as in WakeUp, under another question: whose position
is it? `item` is `current_item`, `tracks` is `position_updateable`, `back` the
backend with the media it really has, `told` the position it has signalled last.

| Action | Code |
|---|---|
| `Choose`, `Alarm` | `send_to_player()`, `alarm_triggered()`: `set_media()` with what the backend signals at once, then `play()` |
| `Loaded`, `Glitch` | `seekableChanged`, which switches the tracking on (and sets the saved position once more) or off |
| `ReportPosition` | `positionChanged`; it goes to `current_item`, whatever is heard |
| `Plays`, `Ends`, `Loops`, `PlayerError` | the backend by itself; the error starts the fallback if the monitor is armed |
| `Play`, `Pause`, `Seek`, `Standby` | buttons, `seek`, `PowerControl` |
| `Rotate`, `VolumeSlider`, `Wakes`, `Reload` | wheel, slider, button and file: the volume and its copy in the configuration |

`mark` is the position at which an item was heard last, as far as reported, and
`spoiled` the items whose position the code is known to lose, in one of three
ways: the fallback playlist replaces the item but not `current_item`, so its
positions are saved under the item's name; a load signals position 0 while the
last item is still tracked; and a `play()` after a `stop()` that left the media
seekable starts at 0, with nothing to restore the position.

### Backlight
`cfg` has both settings and the flag for the adaptive mode; `links` counts the
connections of the sensor to the slot (main() makes one whatever the file says,
each click another one, and switching off removes all). `readings` is the
filter, which adds up to 1.8 times the light. The rest are `Update` (what
`update_backlight()` writes) and one action per caller: `SensorReads`,
`SetAdaptiveMode`, `Slider`, `Active`, `PowerOff`, `Reload`. `SensorFails` is
for good, because nobody clears the error flags of the stream. `Log` is
`lin2log()`, a constant operator of which only the range is assumed; the run
gives it the values of the code. `behind` says why a change is not on the
display yet, `choice` what the user clicked last.

### WeatherReport
`Refresh` starts one download of each kind for the location that is configured
then, without cancelling older ones. `WeatherReply` and `ForecastReply` bring
any part of what was asked for, in any order, and `Fails` nothing; `Reload`
changes the location silently. A datum is represented by the location it is
for, a widget by what it copied at the last `forecast_available`.

### WifiScan
Client, wpa_supplicant and the datagrams between them. `pc` is what the GUI
thread does, which blocks in `wpa_ctrl_request()`: `attach`, `command` and
`results` are requests under way, `event` is the loop of `ctrl_event()`. `Event`
takes one datagram; `EventDropped`, `Reply` and `Timeout` are the ways of the
`select()` loop; `Leftovers` is what a shorter reply leaves in the buffer of a
longer one, which `parse_scanresult()` reads too. `ScanEvent`, `Answer` and
`Ends` are wpa_supplicant (external), `Emit` loses an event that finds no room.

### RestServer
A list of the configuration under the threads of the server (`job`), the GUI's
reload and an open page of the GUI (`rows`). A request to list is two steps,
because `respond_json_array()` reads the size and copies the range afterwards;
`GetBegin` and `GetEnd` are the look-up and the use of the object found.
`Range0`, `Within`, `Offset` and `Length` are `common.hpp`; `AsDocumented` and
`Demanded` are written from `REST/openapi.yml:150` and `:157` and
`documentation/rest.md` alone: an invalid offset is 0, an omitted or invalid
length asks for all remaining elements (`NoInt` stands for any invalid length
there: 0, negative, no number), and otherwise for at most that many. `asked`,
`page` and `beyond` of a job are histories: what was asked, what the documents
demand of the list at that moment, and whether the offset was beyond its end.
`PageIsSlice` holds the page that is served between what is demanded at the
first and at the second look at the list. `Race` is two threads in the
vector at once, of which one changes it: undefined, so the model ends there
(`broken`). `walk` is a client that asks page by page. `Kept` is `remove_if()`, item
by item. The names of its specification begin with `Rest` (`RestSpec`), so that it
stands beside ConfigStore in `Configuration_proofs`.

## 3. Runs

| Run | Question | Result |
|---|---|---|
| `dispatcher` | Is the timer always right for the store the dispatcher has seen, and does a lone alarm that repeats keep ringing? | holds, unless an instant goes by in the middle of a check |
| `dispatcher_heals` | Does the dispatcher know clock and alarms again after the clock was set or the file reloaded? | holds, unless it sleeps: a reload does not wake it |
| `dispatcher_editrace` | Is a due alarm that is alone at its instant dispatched? | violated: a change of another alarm before a late timeout skips it |
| `wakeup` | Is all sound timed, standby silent, the fallback audible, and does sound end? Does it implement `TimedSound`? | holds |
| `wakeup_notstarted` | Is a stream that does not start replaced by the fallback? | violated: the grace timer only disarms |
| `config_store` | Are file and memory equal at rest, and do they come to rest? | holds, but for three named gaps |
| `podcast_cache` | Do a podcast and its cache file agree when no write is due, is every change written, is a reload then invisible, and are the newest episodes kept? | holds |
| `playback` | Is a saved position that of its item, is playing resumed there, and does the configuration know the volume? | holds, but for three named ways to lose a position |
| `backlight` | Does the display show the setting, is manual mode free of the sensor, and does a steady light settle? | holds |
| `weather` | Are data, city and widgets of one location after a quiet refresh, and in the end after any other? | holds, but for the last forecast and the widget of the current weather |
| `wifi` | Do status and list follow wpa_supplicant in spite of timeouts and late replies, and does a network in reach appear? | holds while nothing is dropped |
| `rest` | Is a page the part of the list that the documents demand, and does a walk see every item once? | holds while nothing is removed, but for two named exceptions |

The violated properties state what a comment or a document of the repository
says; `PROJECT.json` quotes each under "findings".

### Limits of the code that the models show

Properties that hold do so with the exceptions written into them or into their
history variables; none of them is hidden in a bound.

- Alarms: of two alarms at one instant one is put off when the timer is late
  (`LoneAlarmKeepsRinging` and `LoneDueAlarmIsDispatched` speak of alarms that
  are alone). When the instant of an alarm goes by between `get_next_instance()`
  and the delta (`alarmdispatcher.cpp:44`), the delta is negative and
  `QTimer::start()` starts nothing: no alarm is dispatched until the next
  `alarms_changed`. An early timer, which fires just before its instant and is
  followed by such a check, leads there. `overtaken` names these histories in
  `TimerCoversStore`, `LoneAlarmKeepsRinging` and `LoneDueAlarmIsDispatched`.
  A reload of the file reaches no dispatcher, though
  `documentation/configuration.md:26` says that it is applied: one that runs a
  timer finds the new alarms when that ends, one that sleeps does not find them
  at all (`Asleep` in `TimerHeals`). A Once alarm is treated as a daily one and
  is never switched off, against `alarm.hpp:52`; `LoneAlarmKeepsRinging` claims
  nothing of it (`Repeats`). A second start of the player replaces
  the alarm's timeout by the sleep timeout, against `configuration.md:39`
  (`SoundHasTimer` holds with either).
- Configuration: `raced` (a REST thread's change during a store is taken for
  saved by `dirty = !dirty`) and `missed` (the file was changed between the
  commit and `addPath`) are the histories in which file and memory may differ
  at rest, and so may at any time the items of `Unmarked`: a click on the
  adaptive light is stored only if something else asks for a store before the
  program ends or the file is read again. An edit saved while a store is due is overwritten unread.
- Player: the three ways to lose a position named under Playback. The volume of
  an alarm or of the fallback becomes the configured one. A volume read from the
  file does not reach the player (`reread`).
- Backlight: a file that switches the adaptive mode on connects nothing, and one
  that switches it off keeps the connections; in adaptive
  mode a change waits for the next value of the sensor (`behind`), which never
  comes if the sensor breaks first. `enable_backlight_control()` does not mark
  the configuration dirty (`QuietChange` of ConfigStore).
- Weather: the first element of a forecast list is left out, so the last place
  is never filled (`Count` in the property). Only forecasts refresh the widgets,
  so that of the current weather may show the former one (`overtaken`).
- Wifi: lines of an older reply, one of them cut, are taken for networks, so
  `ListFollows` speaks of a prefix; a cut line with too few fields is read
  beyond its end (`CutLine`). A request without an answer blocks the GUI for ten
  seconds at least. Without wpa_supplicant at the start the scan button ends in
  an assertion.
- REST: no lock (`Race`), an object that is deleted while it is served, a row of
  the GUI that is gone (`Tap`). A length that is invalid gives one item at most
  and not "all remaining elements", as `openapi.yml:150` has it: of such a page
  `PageIsSlice` claims only that it has nothing beyond what was asked for. An
  offset beyond the end counts as the end, behind which another thread may add
  before the page is copied (`beyond`). Identifiers may be given twice.

### Bounds, and why they are enough

- `dispatcher`: two instants per day and both as alarm times cover an alarm
  before, at and after the present time of day; all seven weekdays are there,
  and two alarms make every order of dispatch, change and coincidence. Once is
  left out of `Periods`, because it takes the branch of Daily and no property of
  the dispatcher claims anything of it; `NextInstanceIsFirstDue` speaks of every
  period all the same. Timers may be one instant (half a day) early or late, far
  more than real ones, and a check may last as long. One queued signal: a second
  one repeats the same call.
- `dispatcher_heals`: one alarm, with clock and file as actors; the clock is set
  to any instant of the week, before, in and after a check.
- `wakeup`: timeouts of 1 to 4 with a grace period of 1 let the monitor time
  out before, with and after the sleep timer.
- `config_store`: the default item, another one, and a value that changes
  without a mark make eight contents; the file is any of them, invalid or
  missing. No counter is bounded.
- `podcast_cache`: three episodes for two places, the older two of one date, so
  that episodes are pushed out by newer ones and by one of their own date, and
  can come back within one feed. A feed is any sequence of up to `MaxFeed`
  episodes, repetitions included.
  `MaxReplies` bounds the downloads under way, two of which overlap;
  `MaxPosition` makes two positions; a write is due after one instant, so that
  changes fall before and after it.

- `playback`: two items that can seek, so that one is tracked when the other is
  loaded; three positions tell start, middle and end; two volumes reach both
  ends of the range.
- `backlight`: two settings; a light that is absent, or bright enough to push
  the filter beyond the end of the logarithm. Light, settings and all histories
  of three readings with one or two connections are covered.
- `weather`: two locations; three forecasts, so that a list ends before, at and
  after the last place; widgets of the current weather and of a forecast; two
  downloads of a kind and location overlap.
- `wifi`: two networks, of which a scan finds at most one, so that a table is
  replaced by an equal, another or an empty one; two datagrams each way, so that
  a late reply and an event are under way at once, in either order.
- `rest`: a list of at most two in pages of one takes three requests to walk
  through; two threads as in the code; every offset and length from -1 to one
  beyond the list, none, and no number. Identifiers and threads are symmetric
  (there is no liveness).

`CHECK_DEADLOCK` is off in `wifi` and `rest` only, where the process may end: by
the failed assertion, or by what is undefined.

### Fairness, and why the code justifies it

- The event loop serves its timers and queued calls, and time passes: weak
  fairness of `Trigger`, `DeliverQueued`, `Tick`, `MonitorTimeout`,
  `SleepElapsed`. No handler blocks, so a check goes on: `ReadInstance`,
  `StartTimer`.
- `Tick` and `Write` of PodcastCache are a timer of the event loop; nothing is
  assumed of the network, and the player may change the position for ever.
- `StoreBegin` is served by a periodic timer; `Commit` and `StoreEnd` are the
  rest of the same slot; `FileChanged` is an event of the loop.
- `SensorReads` (Backlight) and `Refresh` (WeatherReport) are periodic timers;
  `Client` of WifiScan is the GUI thread itself, which waits for a datagram by
  `select()` or a notifier. Its `Timeout` is not fair: it is needed only when
  nothing comes.
- `Loaded` (Playback) is weakly fair: a backend that goes on playing media that
  can seek finds that out. That is the one thing asked of Qt.
- Of the network only as a premise inside a property: `Settles` asks that
  downloads are answered (`Answered`), `NetworkAppears` that wpa_supplicant
  answers (`Served`, strong since the room in the socket comes and goes) and
  announces results again and again to a client with room for it.
- Nothing is assumed of users, editors, REST clients, the clock or the media
  backend. Liveness is stated for behaviours in which those come to rest
  (`Undisturbed`, `<>[][~(User \/ Alarms)]_vars`, `<>[][~Environment]_vars`, `<>[][SensorReads]_vars`,
  `<>[][~(User \/ Glitch)]_vars`).

## 4. Proofs

| Theorem | Says, for every value of the constants | Assumes |
|---|---|---|
| `AlarmDispatcher_proofs!RemainingZeroIsDue` | the code's distance is 0 exactly when the alarm is due; it counts down by one per instant otherwise (lemma `RemainingCountsDown`) | `SlotsAssumption` |
| `AlarmDispatcher_proofs!NextInstance` | `FirstDue` for every alarm and clock: the distance leads to the first due instant | |
| `AlarmDispatcher_proofs!NextInstanceIsFirstDueHolds` | `Spec => []NextInstanceIsFirstDue` | `DispatcherAssumption` |
| `AlarmDispatcher_proofs!TypeCorrect` | `Spec => []TypeOK` | |
| `AlarmDispatcher_proofs!TimerPointsAtDueHolds` | `Spec => []TimerPointsAtDue`: the timer, and the delta of a check under way, end when the alarm is due | |
| `AlarmDispatcher_proofs!TimerCoversStoreHolds` | `Spec => []TimerCoversStore`: the timer is for the earliest enabled alarm | |
| `AlarmDispatcher_proofs!NothingIsPassedOverHolds` | no enabled alarm is due at any instant before the timer ends | |
| `WakeUp_proofs!TypeCorrect` | `Spec => []TypeOK` | `WakeUpAssumption` |
| `WakeUp_proofs!MonitorCoherentHolds` | `Spec => []MonitorCoherent` | |
| `WakeUp_proofs!SoundHasTimerHolds` | `Spec => []SoundHasTimer` | |
| `WakeUp_proofs!FallbackKeepsSoundingHolds` | `Spec => []FallbackKeepsSounding` | |
| `WakeUp_proofs!StandbySilence` | `Spec => StandbyStaysSilent` | |
| `WakeUp_proofs!WakeUpImplementsTimedSound` | `Spec => Promise!Spec` | |
| `Configuration_proofs!TypeCorrect` | `Spec => []TypeOK` (of ConfigStore) | `ConfigAssumption` |
| `Configuration_proofs!SavedOrDirtyHolds` | `Spec => []SavedOrDirty` | |
| `Configuration_proofs!WalkSeesAllHolds` | `RestSpec => []WalkSeesAll` | `RestAssumption` |
| `Configuration_proofs!PageIsSliceHolds` | `RestSpec => PageIsSlice` | `RestAssumption` |
| `PodcastCache_proofs!AddEpisodeKeepsProper` | `AddEpisode` keeps a list newest first, free of repetitions and within the limit, and drops nothing newer than what it keeps | `EpisodeAssumption` |
| `PodcastCache_proofs!AddAllKeepsNewest` | so does a feed of any length, with any repetitions | |
| `PodcastCache_proofs!ReadBack` | a proper list read back from its file has the same episodes | |
| `PodcastCache_proofs!TypeCorrect` | `Spec => []TypeOK` | `CacheAssumption` |
| `PodcastCache_proofs!ListsAreProperHolds` | `Spec => []ListsAreProper` | |
| `PodcastCache_proofs!CacheFollowsHolds` | `Spec => []CacheFollows` | |
| `PodcastCache_proofs!DownloadKeepsNewestHolds` | `Spec => DownloadKeepsNewest` | |
| `PodcastCache_proofs!ReloadIsTransparentHolds` | `Spec => ReloadIsTransparent` | |
| `Playback_proofs!TypeCorrect` | `Spec => []TypeOK` | `PlaybackAssumption` |
| `Playback_proofs!ReportsHaveItemHolds` | `Spec => []ReportsHaveItem` | |
| `Playback_proofs!PositionIsKeptHolds` | `Spec => []PositionIsKept` | |
| `Playback_proofs!VolumeIsConfiguredHolds` | `Spec => []VolumeIsConfigured` | |
| `Playback_proofs!GoesOnWhereItWasHolds` | `Spec => GoesOnWhereItWas` | |
| `Backlight_proofs!TypeCorrect` | `Spec => []TypeOK`: the PWM stays in 3..253, the display is never black | `BacklightAssumption`, `LogAssumption` |
| `Backlight_proofs!ShownOrBehindHolds` | `Spec => []ShownOrBehind` | |
| `Backlight_proofs!ManualIsManualHolds` | `Spec => []ManualIsManual` | |
| `WeatherReport_proofs!TypeCorrect` | `Spec => []TypeOK` | `WeatherAssumption` |
| `WeatherReport_proofs!QuietIsCurrentHolds` | `Spec => []QuietIsCurrent` | |
| `WifiScan_proofs!TypeCorrect` | `Spec => []TypeOK` | `WifiAssumption` |
| `WifiScan_proofs!StatusFollowsHolds` | `Spec => []StatusFollows` | |
| `WifiScan_proofs!ListFollowsHolds` | `Spec => []ListFollows` | |

An assumption named once holds for the theorems of the same module below it.
Every safety invariant and every action property that a run checks is proved.

**Induction.** Three proofs are by induction over numbers: over the time that
passes, over the episodes of a feed, over the items of a list. The induction
theorems of the library take an operator as a parameter, which no installed
prover can instantiate; so induction is stated for sets (a set of numbers that
has 0 and the successor of each member has all numbers: `SetInduction`,
`NumbersByInduction`), from the library's theorem that `<` is well founded on
the numbers. In the same way it is shown that a recursive function is what its
definition says (`AfterIsDefined`, `AddedIsDefined`, `KeptIsDefined`), since
`CHOOSE` alone does not tell.

**The argument for the dispatcher.** `Remaining` is shown to count down with
the clock for every period, by cases on the weekday (`RemainingCountsDown`).
By induction over the time that passes it then leads to the first due instant
(`NextInstance`), whatever the length of the day. A timer set to it stays right
while time passes, and an alarm that is not the earliest cannot overtake the
earliest. Between the steps of a check `TimerCoversStore` says nothing;
`CheckUnderWay` says what a check knows meanwhile: that its alarm is the earliest
one of the store, if nothing was queued, reloaded, set or overtaken since it
began. The inductive invariant is `TypeOK`, `TimerPointsAtDue`,
`TimerCoversStore` and `CheckUnderWay` together: the second needs the type of
`target`, the third needs the second for the alarm the timer is set for, and the
fourth when the check ends. The histories the properties name (`stale`,
`overtaken`, a queued call) are in their premises; the theorems hold with clock
and file among the actors. Both speak of the code's distance; `NothingIsPassedOver` says with `NextInstance` what
that means for the user: at no instant before the timer ends is an alarm due.

**The argument for waking up.** `SoundHasTimer` alone is not inductive: in the
state Alarm the sleep timer is not restarted when the player starts, so the
invariant must say that the timer runs then (`AlarmHasTimer`); that the monitor
is armed only with the power on needs the controls to follow the power
(`ControlsFollowPower`). Refinement follows step by step: each action maps to
one action of `TimedSound` or to a stutter.

**The argument for the configuration.** `SavedOrDirty` says nothing inside a
store; `StoreInProgress` says what the steps of a store keep from one to the
next in spite of changes in between, of the marked items: a change without a mark
touches none of them (`QuietChangeIInv`).

**The argument for the lists under REST.** A page is demanded when the request
is taken up and copied later, from a list that may have grown. `ReadAsAsked`
says, by cases on the query, how the offset and length that the code reads lie to
those the documents mean; `DemandedIs` and `PageIs`, which items either selects.
`PagesHold` says that what was demanded at the first look still stands behind
the offset, unless something was removed. For the walk, `WalkersAsk` says that at most one page is asked for, that
it begins where the pages before it end, and that it is empty only at the end of
the list; `Footing`, that the list is no shorter than at first.

**The argument for the episodes.** In an ordered list the newer episodes are the
first ones, as many as there are (`PlaceIsBound`, by cardinalities), so
`lower_bound()` finds a place that splits the list; `InsertAtElements` and
`ShortenElements` say where each episode is afterwards, and order, distinctness
and `KeepsNewest` follow by cases on where two episodes stand relative to that
place. `KeepsNewest` composes (`KeepsNewestComposes`), so by induction it holds of
a whole feed. A list read back is full only if it was full before, so nothing is
dropped (`ReadBack`). `CacheFollows` then needs to know that only listed episodes
have a position (`PositionsOfList`), and that the player's hold on an episode is
"list" only while it is listed (`PlayingIsListed`), or a position might change
that no file has.

**The argument for the player.** A report goes to `current_item` when the
tracking is on, and the mark to the item that is heard; `Tracking` says when
these are the same: only media that can seek is tracked, and an item that can
seek and is heard is tracked unless it is known to be lost. With it every action
keeps `PositionIsKept`, and `GoesOnWhereItWas` follows, because only
`seekableChanged(true)` starts the tracking.

**The argument for the backlight.** The types of the filter's sums give the
range of the logarithm and that of the PWM. `ManualIsManual` needs that no
connection is left after switching off (`OffIsOff`), and `TypeOK` that there are
never three of them: a second one is made only by a click on an empty box, which
shows that the first is main()'s (`LinksChecked`).

**The argument for the weather.** `QuietIsCurrent` speaks of the moment when
all replies have come. The invariant says what is true when one has come and the
other has not (`WeatherCame`, `ForecastCame`, `BothCame`), and that a clean
refresh waits for one reply of each kind, of its own location (`OnlyAsked`).

**The argument for the wifi.** What is said of a quiet moment has to be said of
every moment before it. The channel keeps its order, so the last event in it is
the one announced last, unless that one found no room (`LastEventAnnounced`); a
channel without events means that the status is current already
(`StatusCurrent`); a table that no announcement of newer results follows is the
present one (`TablesCurrent`), and once read it begins the list (`ListCurrent`),
which is not said while one is awaited (`AwaitsTable`). `missed` and `sound` tell
the histories in which a datagram was dropped or a late reply taken for the
awaited one.

**Only model-checked:** all liveness (`LoneAlarmKeepsRinging`, `TimerHeals`,
`SoundEnds`, `Converges`, `ChangesReachTheFile`, `SteadyLightSettles`,
`TrackedInTheEnd`, `Settles`, `NetworkAppears`): fairness and `ENABLED` are
beyond the prover. The two properties that are violated are shown by TLC's
counterexamples.

## 5. Not modelled

- Data races inside a `std::vector` that REST threads and GUI share: RestServer
  says when one happens and ends there; elsewhere an operation is atomic.
- Whether a failing write of the file is noticed (it is not: `commit()`'s
  result is ignored); the file system is taken to work.
- Metadata, duration and mute of the player, names and dates of items, and the
  listened flag.
- Podcasts that the REST API adds: they get no serializer, and their downloads
  belong to a thread without an event loop, until the next start. The picture
  files of podcasts, the update interval, episodes without a date, and
  redirects of HttpClient.
- NetworkInfo, which copies one interface's data once per second for a label;
  the hardware stub, the device files and input events behind HardwareControl;
  `wpa_ctrl`'s transports other than the Unix socket, which the program does not
  use; logging, the command line, formatting, rows and roles of the Qt models,
  and layout.

## 6. Plan

Done: all modules above. What would add most next:

1. Composition of AlarmDispatcher with WakeUp, so that an alarm that is due is
   heard, and of AlarmDispatcher with ConfigStore's reload.
2. Proofs of what holds across components: that an alarm of a saved
   configuration is dispatched and sounds.
3. The picture files of PodcastSource beside the cache file.
