SPECIFICATION FairSpec
CONSTANTS
    opened = opened
    again = again
    labeled = labeled
    stop = stop
    early = early
    control = control
    created = created
    halt = halt
    broken = broken
    g = g
    l = l
    w1 = w1
    w2 = w2
    None = None
    Deliveries = {opened, stop, broken}
    Items = {g}
    Github = {g}
    Authorized = {stop}
    Fragile = {opened, broken}
    Workers = {w1}
    HeadLimit = 1
    MaxFaults = 1
    Kind <- KindOf
    Item <- ItemOf
    Group <- GroupOf
    Occurred <- OccurredAt
PROPERTIES
    IntakeSettles
