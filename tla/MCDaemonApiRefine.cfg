\* One request slot, reused for request after request, in either gateway mode,
\* with and without an interceptor, and with the gateway's ClientConn closing
\* at any point: the steps of one request against the abstract promise.
CONSTANTS
  r1 = r1
  r2 = r2
  Reqs <- MCReq1
SPECIFICATION Spec
PROPERTY Refinement
