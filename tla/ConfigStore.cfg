\* The default item, another one, and a value that changes without a mark;
\* every content of the file.
SPECIFICATION FairSpec
CONSTANTS
    Item = {alarm, station, manualLight}
    Default = {alarm}
    Unmarked = {manualLight}
INVARIANTS
    TypeOK
    SavedOrDirty
PROPERTIES
    Converges
