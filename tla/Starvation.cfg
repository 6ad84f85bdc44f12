\* One slot and three requests at a time: one that runs, one that waits, one
\* that arrives.
CONSTANTS
    NRequests = 3
    MaxTokensChoices = {3}
    StreamChoices = {FALSE}
    Impatient = {}
    Probabilities <- Sides
    MaxBatchSize = 1
    MaxTokensCap = 3
    Strategy = "probe_deprioritize"
    GateLoaded = TRUE
    Checkpoint = 2
    Threshold = 70
SPECIFICATION EndlessSpec
PROPERTY
    EveryRequestFinishes
