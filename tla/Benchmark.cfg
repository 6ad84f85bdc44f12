\* Five problems over two slots, through the three strategies in turn.
CONSTANTS
    NRequests = 5
    MaxTokens = 5
    MaxBatchSize = 2
    Checkpoint = 2
    Threshold = 70
    Problems <- Samples
SPECIFICATION Spec
INVARIANTS
    BaselineIsCounterfactual
    FalseTerminationsAreReal
    ConvergenceAddsUp
    NoConvergentIsSlower
    MedianImproves
