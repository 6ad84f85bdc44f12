CONSTANTS
    NSequences = 2
    PromptLengths = {1, 2}
    MaxNew = 4
    MaxBatchSize = 2
    Checkpoint = 3
SPECIFICATION Spec
INVARIANTS
    VerdictOnCheckpointToken
