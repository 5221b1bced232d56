SPECIFICATION FairSpec
CONSTANTS
    Keys = {k1, k2}
    Values = {v1, v2}
    Absent = Absent
    Savers = {s1, s2}
    NoSaver = NoSaver
    Processes = {p1, p2}
    MaxFaults = 1
INVARIANTS TypeOK AckedSavesStick
PROPERTIES SavesReturn ImplementsRecordStore
