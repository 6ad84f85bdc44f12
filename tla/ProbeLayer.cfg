\* Three sequences with prompts of different lengths, batches of up to three,
\* four settings, two recordings.
CONSTANTS
    NSequences = 3
    PromptLengths = {1, 3}
    MaxNew = 4
    MaxBatchSize = 3
    Checkpoint = 3
    NLayers = 28
    HiddenDim = 8
    TextEnds = {3, 4}
    Settings <- Asks
    Recorded <- Recordings
    Invocations <- Commands
SPECIFICATION WorkflowSpec
INVARIANTS
    ServedLayerIsFitted
