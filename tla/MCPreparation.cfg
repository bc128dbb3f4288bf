SPECIFICATION Spec
CONSTANT Skills <- MCSkills
CONSTANT MaxWorkers = 2
CONSTANT MaxChains = 4
CONSTANT MaxDepth = 6
CONSTANT MaxSuffixes = 3
INVARIANT CandidatesInSourceOrder
INVARIANT LogLinesAreWhole
INVARIANT ChainsAreTaskPaths
INVARIANT UntruncatedIsComplete
PROPERTY EveryCandidateIsReported
CHECK_DEADLOCK FALSE
