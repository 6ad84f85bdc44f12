\* Streams and impatient clients, with verdicts on both sides of the threshold.
CONSTANTS
    NRequests = 3
    MaxTokensChoices = {0, 3, 5}
    StreamChoices = {TRUE, FALSE}
    Impatient = {1}
    Probabilities <- Verdicts
    MaxBatchSize = 2
    MaxTokensCap = 4
    Strategy = "probe_terminate"
    GateLoaded = TRUE
    Checkpoint = 3
    Threshold = 70
SPECIFICATION Spec
INVARIANTS
    CountersAgree
    VerdictInEffect
    CutAtCheckpoint
    StreamIsText
PROPERTIES
    ServedForGood
