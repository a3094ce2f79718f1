\* Two settings and a light that is absent or bright enough to reach the
\* limit of the display together with the higher setting.
SPECIFICATION FairSpec
CONSTANTS
    Settings = {10, 80}
    Light = {0, 20}
    MaxLight = 20
    Log <- LogTable
INVARIANTS
    TypeOK
    ShownOrBehind
    ManualIsManual
PROPERTIES
    SteadyLightSettles
