\* A list of up to two items walked in pages of one, by two threads as in the
\* code; the process may end, so the system may stop.
SPECIFICATION RestSpec
CONSTANTS
    Ids = {s1, s2}
    Threads = {t1, t2}
    PageSize = 1
    Absent = Absent
    NoInt = NoInt
    Nobody = Nobody
    MaxItems = 2
SYMMETRY Symmetry
INVARIANTS
    WalkSeesAll
PROPERTIES
    PageIsSlice
CHECK_DEADLOCK FALSE
