SPECIFICATION Spec
CONSTANTS
    Keys = {k1, k2}
    Values = {v1, v2}
    Absent = Absent
    Savers = {s1, s2}
    NoSaver = NoSaver
    Processes = {p1}
    MaxFaults = 1
INVARIANT SavedIsStored
