\* Three sequences with prompts of different lengths, batches of up to three,
\* four settings, two recordings.
CONSTANTS
    NSequences = 3
    PromptLengths = {1, 3}
    MaxNew = 5
    MaxBatchSize = 3
    Checkpoint = 3
    NLayers = 28
    HiddenDim = 8
    TextEnds = {1, 4, 5}
    Settings <- Asks
    Recorded <- Recordings
    Invocations <- Commands
SPECIFICATION WorkflowSpec
INVARIANTS
    CacheIsOwnHistory
    GeneratesAsIfAlone
    VerdictOnOwnToken
    ParityVerdict
    VettedProbeServes
    ResultsAreWhole
