SPECIFICATION QueueSpec
CONSTANTS
    MaxJobs = 2
    Resources = {r1}
    MaxResources = 1
    MaxSequence = 3
    MaxQueueGeneration = 2
    MaxTime = 2
INVARIANTS DmaHeld CompletedIsReal TokensUnique
PROPERTY ResultsAreFinal
