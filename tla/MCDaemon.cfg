SPECIFICATION FairSpec
CONSTANTS
  Empty = empty
  Failed = failed
  opt = opt
  local = local
  conf = conf
  devConf = devConf
  here = here
  near = near
  word = word
  good = good
  mine = mine
  loose = loose
  blank = blank
  home = home
  away = away
  Dirs = {home, away}
  Opt = opt
  Local = local
  Overrides = {conf, devConf}
  Sockets = {here, near}
  Relative = {local, devConf, near, mine}
  Secrets = {word}
  SecretFiles <- MCSecretFiles
  Machines <- MCMachines
  Daemons = {d1, d2}
  Calls = {c1}
  AdminRequests = {a1}
  Nil = nil
  MaxChanges = 1
INVARIANTS
  TypeOK
  CallsKeepResources
  BundleOfOneGeneration
  ClientFindsDaemon
PROPERTIES
  SocketKept
  StopEnds
