\* Requests with and without a stream over two slots; the batcher may die, and
\* may have been given a probe that does not fit.
CONSTANTS
    NRequests = 3
    MaxTokensChoices = {2, 3}
    StreamChoices = {TRUE, FALSE}
    Impatient = {}
    Probabilities <- Sides
    MaxBatchSize = 2
    MaxTokensCap = 3
    Strategy = "probe_deprioritize"
    GateLoaded = TRUE
    Checkpoint = 2
    Threshold = 70
    Found <- Files
    ProbeLayer = 16
    HiddenDim = 8
    MayFail = TRUE
SPECIFICATION ServerSpec
INVARIANTS
    LossIsBounded
    CountersAgree
    DoneMeansWhole
    StreamClosedOnce
PROPERTIES
    FailureSparesTheBatch
