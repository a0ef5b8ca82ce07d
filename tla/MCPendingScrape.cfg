CONSTANTS
  Vertices <- MCVertices
  Kind <- MCKind
  PartitionCount <- MCPartitionCount
  OwnedBuffers <- MCOwnedBuffers
  Requests <- MCRequests
  Periods = {"1m", "5m"}
  NoLabel = ""
  Expositions <- MCExpositions
SPECIFICATION SpecKnown
INVARIANT MergeCorrect
