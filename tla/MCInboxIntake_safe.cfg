SPECIFICATION Spec
CONSTANTS
    opened = opened
    again = again
    labeled = labeled
    stop = stop
    early = early
    control = control
    created = created
    halt = halt
    broken = broken
    g = g
    l = l
    w1 = w1
    w2 = w2
    None = None
    Deliveries = {opened, labeled, early, created, again, halt, control}
    Items = {g, l}
    Github = {g}
    Authorized = {early}
    Fragile = {labeled}
    Workers = {w1, w2}
    HeadLimit = 1
    MaxFaults = 1
    Kind <- KindOf
    Item <- ItemOf
    Group <- GroupOf
    Occurred <- OccurredAt
SYMMETRY Symmetry
CONSTRAINT OnAgenda
INVARIANTS
    TypeOK
    IntakeSafe
PROPERTIES
    ImplementsContract
