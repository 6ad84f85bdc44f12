\* Four requests over two slots: preempted requests meet again in the queue, and
\* a request of one token is completed by its prefill.
CONSTANTS
    NRequests = 4
    MaxTokensChoices = {1, 4}
    StreamChoices = {FALSE}
    Impatient = {}
    Probabilities <- Sides
    MaxBatchSize = 2
    MaxTokensCap = 4
    Strategy = "probe_deprioritize"
    GateLoaded = TRUE
    Checkpoint = 2
    Threshold = 70
SPECIFICATION Spec
INVARIANTS
    TypeOK
    NoRequestLost
    CountersAgree
    CacheMatchesBatch
    AdmissionDone
    FirstComeFirstAdmitted
    PreemptionBudget
    VerdictInEffect
PROPERTIES
    ImplementsLifecycle
    LossOnlyUnderContention
    UsesQueueLegally
    OthersKeepTheirPlaces
    DeprioritizedJoinsTheTail
