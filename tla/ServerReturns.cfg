\* Two requests over one slot: one of them may be preempted by the other.
CONSTANTS
    NRequests = 2
    MaxTokensChoices = {1, 3}
    StreamChoices = {TRUE, FALSE}
    Impatient = {2}
    Probabilities <- Sides
    MaxBatchSize = 1
    MaxTokensCap = 3
    Strategy = "probe_deprioritize"
    GateLoaded = TRUE
    Checkpoint = 2
    Threshold = 70
    Found <- Files
    ProbeLayer = 16
    HiddenDim = 8
    MayFail = TRUE
SPECIFICATION ServerSpec
PROPERTIES
    HandlersReturn
