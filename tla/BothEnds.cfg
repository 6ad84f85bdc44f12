CONSTANTS
    NRequests = 3
    MaxTokensChoices = {2, 4}
    StreamChoices = {FALSE}
    Impatient = {}
    Probabilities <- Sides
    MaxBatchSize = 1
    MaxTokensCap = 4
    Strategy = "probe_terminate"
    GateLoaded = TRUE
    Checkpoint = 2
    Threshold = 70
SPECIFICATION Spec
INVARIANTS
    EndsAreSeparate
