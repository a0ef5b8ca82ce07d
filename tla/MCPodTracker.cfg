CONSTANT MaxReplicas <- MCMaxReplicas
SPECIFICATION FairSpec
INVARIANT TypeOK
INVARIANT RoundResult
PROPERTY MaxIndexMonotone
PROPERTY FirstUpdate
PROPERTY CancelStops
PROPERTY Refinement
