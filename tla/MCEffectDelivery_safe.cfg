SPECIFICATION Spec
CONSTANTS
    push = push
    integrate = integrate
    wait = wait
    w1 = w1
    w2 = w2
    l1 = l1
    l2 = l2
    l3 = l3
    l4 = l4
    l5 = l5
    l6 = l6
    NoLease = NoLease
    NoEffect = NoEffect
    Effects = {push, integrate}
    Mutations = {push, integrate}
    Prepared = {integrate}
    Rejectable = {integrate}
    Workers = {w1, w2}
    Leases = {l1, l2, l3, l4}
    RecoveryBatch = 1
    MaxCrashes = 0
SYMMETRY Symmetry
INVARIANTS
    TypeOK
    AtMostOneExecution
    DeliverySafe
PROPERTIES
    ImplementsContract
    FenceAndSettlementArePermanent
CHECK_DEADLOCK FALSE
