SPECIFICATION FairSpec
CONSTANTS
    Callers = {c1}
    MaxFaults = 2
    MaxOdd = 2
    MaxSet = 1
INVARIANTS
    TypeOK ReturnedIsOver 
    HostRunsAreAcknowledged SchemaIsEnforced DoctorPredicts
PROPERTY CallsEnd
