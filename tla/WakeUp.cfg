\* Alarms shorter and longer than the sleep timeouts, which change and are
\* shorter than, and as long as, the grace period of the monitor.
SPECIFICATION FairSpec
CONSTANTS
    FallbackTimeout = 1
    AlarmTimeouts = {2, 4}
    SleepTimeouts = {1, 3}
INVARIANTS
    TypeOK
    MonitorCoherent
    SoundHasTimer
    FallbackKeepsSounding
PROPERTIES
    StandbyStaysSilent
    KeepsPromise
    SoundEnds
