SPECIFICATION Spec
CONSTANTS
  host = host
  watcher = watcher
  client = client
  d1 = d1
  d2 = d2
  Documents = {d1, d2}
  RetainedStages = 2
  RetainedGenerations = 2
  PumpSlice = 1
  Hosts = {host}
  Watchers = {watcher}
  Requests = {client}
  Forced = {}
  MaxPumps = 2
  MaxRestarts = 1
  MaxCommits = 1
  MaxOf <- OneEach
  MaxDisturbances = 1
  MaxEpochs = 5
  MaxGenerations = 5
INVARIANTS TypeOK ServesWholeDocuments AnswersAreFresh
PROPERTIES NeverGoesBack CatchesUp
