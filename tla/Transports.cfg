SPECIFICATION Spec
SYMMETRY HandlerSymmetry
CONSTANTS
  h1 = h1
  h2 = h2
  x = x
  y = y
  z = z
  Handlers = {h1, h2}
  Endpoints = {x, y}
  UdpPorts = {u1}
  TcpPorts = {p1, p2}
  PerKey = 1
  MaxKeys = 1
  MaxGeneration = 2
  NoPort = none
  Callers = {h1, h2}
  Upstreams = {x, y, z}
  Host <- Hosted
  Context <- Contexts
  RetriesOnce = TRUE
  HandleLimit = 1
  HandleKeys = 1
  HostLimit = 1
  Resolvers = 2
  Patience = 4
  Share = 2
  MaxTtl = 1
  Cooldown = 1
  MaxClock = 4
  Clients = {h1, h2}
  Providers = {x, y}
  Anonymized = {x, y}
  MayAskDirect = {x}
  Certificates <- Rotation
  CacheLimit = 1
  RefreshTime = 1
  MaxSteady = 2
  MaxWall = 2
  NoCertificate = none
INVARIANTS ConnectionsOwned UpstreamMarked RefreshesEnd CertificateValid
PROPERTIES FallbackTried
