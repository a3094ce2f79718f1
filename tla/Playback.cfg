\* An episode and another item that can seek, so that the tracking of one is
\* on when the other is loaded; two volumes.
SPECIFICATION FairSpec
CONSTANTS
    Items = {e1, e2}
    Seekable = {e1, e2}
    NoItem = NoItem
    Fallback = Fallback
    MaxPosition = 2
    MaxVolume = 1
    PresetVolumes = {1}
INVARIANTS
    TypeOK
    ReportsHaveItem
    PositionIsKept
    VolumeIsConfigured
PROPERTIES
    GoesOnWhereItWas
    TrackedInTheEnd
