CONSTANTS
  b1 = b1
  b2 = b2
  v1 = v1
  v2 = v2
  Unknown = Unknown
  Unset = Unset
  AllBuffers <- MCAllBuffers
  Owner <- MCOwner
  VxLength <- MCVxLength
  VxUsagePct <- MCVxUsagePct
  PlLength = 0
  PlUsagePct = 80
  MaxCount = 3
SPECIFICATION Spec
INVARIANT ZeroLengthSurfaced
