CONSTANTS
    NRequests = 3
    MaxTokensChoices = {3}
    StreamChoices = {TRUE}
    Impatient = {}
    Probabilities <- Sides
    MaxBatchSize = 1
    MaxTokensCap = 4
    Strategy = "probe_deprioritize"
    GateLoaded = TRUE
    Checkpoint = 2
    Threshold = 70
SPECIFICATION Spec
INVARIANTS
    StreamIsText
