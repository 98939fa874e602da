SPECIFICATION FairGateway
CONSTANTS
    Clients = {c1}
    Batches = {b1}
    Endpoints = {e1}
    none = none
    MaxInFlight = 1
    MaxQueueDepth = 2
    Cooldown = 1
    QueueDepths = {0, 2}
    UnhealthyAfterFailures = 1
    MaxRequests = 2
    MaxChunks = 2
INVARIANTS AnswersInOrder  ScrapeExplained
PROPERTY SlotComesBack
