\* Two requests in flight at once, each slot reused for the next request.
CONSTANTS
  r1 = r1
  r2 = r2
  Reqs <- MCReqs
SPECIFICATION Spec
INVARIANT SingleReply StatusPreserved
