SPECIFICATION Spec
CONSTANTS
    FallbackTimeout = 1
    AlarmTimeouts = {2}
    SleepTimeouts = {3}
PROPERTIES
    FallbackIfNotStarted
