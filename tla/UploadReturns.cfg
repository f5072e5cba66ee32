CONSTANTS
  Workers = {w1}
  a = a
  b = b
  Digests = {a}
  SizeOf <- MCSizeOf
  Previous <- MCPrevious
  MaxChunks <- ThreeAndOne
  Framed = {"payload"}
  Batch = 2
  MayFail = TRUE
  MayCancel = TRUE
SPECIFICATION FairSpec
PROPERTY Returns
