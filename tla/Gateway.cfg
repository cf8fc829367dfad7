SPECIFICATION MCSpec
CONSTANTS
  chat = chat
  stream = stream
  a = a
  b = b
  x = x
  m = m
  d = d
  Calls = {chat, stream}
  Streams = {stream}
  Names = {a, b, x}
  Streaming = {a}
  Nobody = nobody
  MaxRetries = 1
  MaxEvents = 1
  Registered = {a, b}
  Models = {m, d}
  None = none
  Failed = failed
  Panic = panic
  Routers <- MCRouters
  DefaultModel <- MCDefaultModel
  Fallbacks <- MCFallbacks
  Price <- MCPrice
  Speed <- MCSpeed
  Capable <- MCCapable
  Custom <- MCCustom
  Requests <- MCRequests
  Watched = {a}
  Tolerated = 0
  MaxRecords = 1
CHECK_DEADLOCK FALSE
INVARIANTS
  RoutesAreTried
  OneVoice
PROPERTIES
  GatewayLives
