SPECIFICATION FairSpec
CONSTANTS
    shell = shell
    remote = remote
    Callers = {c1, c2}
    NoCaller = NoCaller
    MaxFaults = 2
    Managers = {m1, m2}
    Core = Core
    NoOne = NoOne
    CoreTools = {shell}
    Offers <- OneServer
INVARIANTS
    TypeOK StartedTellsTruth OnlyInternal NoToolLeftBehind
    AnsweredToolsResolve ClosedForGood
PROPERTY CallsEnd
