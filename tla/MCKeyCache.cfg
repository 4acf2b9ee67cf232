SPECIFICATION MCSpec
CONSTANTS
    Replicas = {r1, r2}
    Callers = {c1, c2}
    KeyTypes = {"ek", "pk"}
    TTL = 2
    LeaderTimeout = 1
    Lag = 1
    Window = 5
    Debounce = 1
    Lifetime = 6
    Expiries = {2}
    MaxDels = 1
    MaxTime = 7
    None = None
    team = team
    shell = shell
    env1 = env1
    env2 = env2
INVARIANTS TeamsCurrent 
PROPERTIES RevocationPropagates NeverAdmittedPastExpiry LiveKeyRefusedOnlyBriefly
CHECK_DEADLOCK FALSE
SYMMETRY Symmetry
CONSTRAINT Bounds
