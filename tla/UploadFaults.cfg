CONSTANTS
  Workers = {w1, w2}
  a = a
  b = b
  Digests = {a, b}
  SizeOf <- MCSizeOf
  Previous <- MCPrevious
  MaxChunks <- TwoAndOne
  Framed = {"payload"}
  Batch = 2
  MayFail = TRUE
  MayCancel = FALSE
SPECIFICATION Spec
INVARIANT TypeOK IndexFollowsStream AppendsKnown ClosedComplete RootCause
PROPERTY SentOnce
SYMMETRY Symm
