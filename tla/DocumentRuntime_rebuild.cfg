SPECIFICATION Spec
CONSTANTS
  host = host
  watcher = watcher
  client = client
  d1 = d1
  d2 = d2
  Documents = {d1, d2}
  RetainedStages = 2
  RetainedGenerations = 2
  PumpSlice = 1
  Hosts = {host}
  Watchers = {watcher}
  Requests = {}
  Forced = {}
  MaxPumps = 2
  MaxRestarts = 1
  MaxCommits = 1
  MaxOf <- OnlyCycles
  MaxDisturbances = 3
  MaxEpochs = 3
  MaxGenerations = 3
PROPERTIES RebuildsAreForDamage
CHECK_DEADLOCK FALSE
