SPECIFICATION Spec
SYMMETRY WorkerSymmetry
CONSTANTS
  Ports = {1, 2}
  NoPort = 0
  MaxRules = 4
  w1 = w1
  w2 = w2
  Workers = {w1, w2}
  Packets = {"syn", "again", "reset", "malformed", "pass", "query", "other"}
  Kind <- PacketKinds
  Tuple <- PacketTuples
  Rule <- PacketRules
  Size <- PacketSizes
  BlockTcp = {2}
  QueueLimit = 1
  ByteLimit = 1
  MaxCaptured = 2
  Tuples = {"t1", "t2"}
  Connections = {"k1"}
  ExpectedLimit = 1
  Lifetime = 1
  HandlerThreads = 1
  HandlerQueue = 1
  MaxTime = 1
  Word = 16
  MaxHeaders = 2
  Captured <- DriverPackets
  DnsPort = 5
  ProxyPort = 8
  Payloads <- Answers
  KindOf <- RecordKinds
  Capacity = 1
  MaxRecords = 2
  FilterIds = {"f1"}
  Expressions <- Filters
  MaxEvents = 2
  MaxLives = 2
  MaxSeen = 3
  Producers = {"p1", "p2"}
  Callers = {"c1", "c2"}
  QueueSize = 3
  BatchSize = 2
  FileLines = 1
  Retained = 1
  MaxTasks = 4
  MaxFailures = 1
  AutomaticLimit = 1
  MaxLaunches = 2
  Hosts = {"x", "y"}
  ServerIds = {1, 2}
  RuleCandidates <- OfferedRules
  MaxRuleList = 3
  HostTexts <- NamesAsked
  RuleTexts <- ListsWritten
  Configs = {"default", "mine"}
  DefaultConfig = "default"
  Clients = {"a"}
INVARIANTS
  RedirectsSound PolicyNotBypassed RunningCaptures OrderlyEnd OneShot
  PacketsSound DisplayExact FileLogSound ExitComplete RulesUsable PatternsMatch FileWhole PipeServed
CHECK_DEADLOCK FALSE
