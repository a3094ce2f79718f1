\* Two locations; three forecasts, so that a list may end before, at and
\* after the last place; two downloads of a kind overlap for each location.
SPECIFICATION FairSpec
CONSTANTS
    Locations = {a, b}
    Unknown = Unknown
    Count = 3
    Widgets = {0, 2}
    MaxWaiting = 2
INVARIANTS
    QuietIsCurrent
PROPERTIES
    Settles
