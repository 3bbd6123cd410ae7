SPECIFICATION Spec
CONSTANTS
    Tick = 4
    MaxSeconds = 4
    DefaultTimeout = 3
    Ports = {0, 1, 4430, 65535, 65536}
    Timeouts = {0, 1, 3, 4, 5, 15, 16, 17}
INVARIANTS
    ConnectorInv
    EffectiveIsAsked
    ConnectorsAreOpenable
    NoOrphanSession
