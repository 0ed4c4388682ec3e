SPECIFICATION FairSpec
CONSTANTS
  p1 = p1
  p2 = p2
  m = m
  goods = goods
  services = services
  NoTable = NoTable
  Nil = Nil
  Nobody = Nobody
  Wiring = Wiring
  Servers = {p1, p2}
  Migrators = {m}
  Requests = {1, 2}
  Seed = {goods, services}
  MaxDeaths = 2
  MaxEdits = 1
  RunMigrations <- MCRunMigrations
  Edits <- MCEdits
INVARIANT TypeOK
INVARIANT ListeningIsReady
INVARIANT VersionTellsSchema
INVARIANT NamesMatchClassifier
PROPERTY EveryStartEnds
