SPECIFICATION FairPermits
CONSTANTS
  c1 = c1
  c2 = c2
  c3 = c3
  t1 = t1
  t2 = t2
  t3 = t3
  Nobody = Nobody
  Conns = {c1, c2, c3}
  Tasks = {t1, t2, t3}
  MaxConnections = 2
  MaxSessions = 1
  MaxCommands = 2
INVARIANTS ConnectionsCounted CommandsCounted
PROPERTIES PoisonIsFinal OverloadEnds SessionReleased
