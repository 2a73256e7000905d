SPECIFICATION LiveSpec
CONSTANTS
    push = push
    integrate = integrate
    wait = wait
    NoLease = NoLease
    NoEffect = NoEffect
    Effects = {push, integrate, wait}
    Mutations = {push, integrate}
    Prepared = {integrate}
    Rejectable = {integrate}
    Workers = {w1}
    Leases = {l1, l2, l3}
    RecoveryBatch = 1
    MaxCrashes = 2
PROPERTIES
    DeliverySettles
CHECK_DEADLOCK FALSE
