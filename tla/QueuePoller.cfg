SPECIFICATION TimedPoller
CONSTANTS
    Clients = {c1, c2, c3}
    MaxInFlight = 1
    MaxQueueDepth = 1
    Cooldown = 2
    QueueDepths = {0, 1}
    UsPerSlot = 2
    MaxUs = 3
    MaxCount = 2
    MaxWait = 2
INVARIANTS TypeOK InFlightExact OvershootBounded ClosedExceptStragglers
PROPERTIES NoPhantomDepth ImplementsAdmission CooldownEnds
