SPECIFICATION FairPoller
CONSTANTS
    Clients = {c1}
    MaxInFlight = 1
    MaxQueueDepth = 1
    Cooldown = 1
    QueueDepths = {0, 1, 2}
    UsPerSlot = 2
    MaxUs = 4
    MaxCount = 3
    MaxWait = 2
PROPERTY ClosedBriefly
