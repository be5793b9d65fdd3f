CONSTANTS
  None = None
  MaxRetries = 2
  Body <- TheBody
  BaseDelay = 4
  MaxDelay = 10
  Multiplier = 2
  Requests = {q1, q2}
  Configs <- Configurations
  Paths <- AllPaths
  MaxLoads = 2
  Keys = {k1, k2}
  Upstreams = {"u", "v"}
  UpstreamOf <- UpstreamOfKey
  Callers = {c1, c2}
  MaxBreakers = 4
  MaxLoaders = 4
  Operations = {"o1", "o2", "o3", "o4", "o5"}
  BaseName <- Base
  Excluded = {"o5"}
  Builders = {b1, b2}
  MaxLen = 4
  MaxBuilds = 4
  Numeral <- Binaries
  Methods = {"m1", "m2"}
  Connections = {x1, x2}
  Bodies <- Posted
  Registries = {r1, r2}
  Labels = {"x", "y"}
  Labelings <- AlikeOrApart
  RankOf <- Rank
  Scrapes = {"s"}
  Buckets = 2
SPECIFICATION Spec
INVARIANTS RetriesAreWhole RequestsMeetOneConfig ToolsAreKept BatchesAreAnswered MetricsAreTrue
PROPERTIES RegistriesAgree RequestsLeave
