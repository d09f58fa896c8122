CONSTANTS
    Workers = {w1, w2}
    Queues = {"q1", "q2"}
    Jobs = {j1}
    QueueOf <- MCQueueOf
    Deployments <- MCImage
    JobHandlers <- MCHandlers
    DefinitionLists <- MCDefinitionLists
    Attempts = 3
    MaxStalls = 1
    MaxDisturbances = 3
    NoWorker = NoWorker
SPECIFICATION Spec
INVARIANT HandlersLoaded
