SPECIFICATION FairSpec
CONSTANTS
    a1 = a1
    a2 = a2
    t1 = t1
    t2 = t2
    broken = broken
    inside = inside
    outside = outside
    missing = missing
    host = host
    foreign = foreign
    unreadable = unreadable
    plain = plain
    secret = secret
    large = large
    Agents = {a1, a2}
    NoAgent = NoAgent
    Tasks = {t1, t2}
    TaskOf <- AgentTask
    Requests = {inside, outside, broken, missing}
    NoRequest = NoRequest
    Registered = {inside, outside, broken}
    Network = {inside, outside, broken}
    Targets = {host, foreign, unreadable}
    NoTarget = NoTarget
    TargetOf <- AgentTargets
    Allowed = {host}
    Blocked = {foreign}
    Unparsable = {unreadable}
    Texts = {secret, large, plain}
    NoText = NoText
    Redact <- Redaction
    Large = {large}
    MissionCalls = 3
    TaskCalls = 2
    MaxFaults = 1
    MaxSteps <- AgentSteps
    MaxCalls <- AgentCalls
    MissionTokens = 1
    TaskTokens = 1
    MaxUsage = 1
    MaxExecutions = 2
INVARIANTS
    TypeOK ExecutionsAreEntitled ObservationsOnRecord AuditBalances
PROPERTIES ImplementsModelBudget ExecutionEnds
CHECK_DEADLOCK FALSE
