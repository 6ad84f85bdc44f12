\* Two slots and three requests at a time, one of an impatient client.
CONSTANTS
    NRequests = 3
    MaxTokensChoices = {3}
    StreamChoices = {FALSE}
    Impatient = {2}
    Probabilities <- Sides
    MaxBatchSize = 2
    MaxTokensCap = 3
    Strategy = "probe_deprioritize"
    GateLoaded = TRUE
    Checkpoint = 2
    Threshold = 70
SPECIFICATION EndlessSpec
PROPERTIES
    StarvesOnlyIfPreempted
    NormalsFinish
    AnsweredIfArrivalsEnd
