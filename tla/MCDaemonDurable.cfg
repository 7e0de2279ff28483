SPECIFICATION Spec
SYMMETRY MCSymmetry
CONSTANTS
  Empty = empty
  Failed = failed
  opt = opt
  local = local
  conf = conf
  devConf = devConf
  here = here
  near = near
  word = word
  good = good
  mine = mine
  loose = loose
  blank = blank
  home = home
  away = away
  Dirs = {home, away}
  Opt = opt
  Local = local
  Overrides = {conf, devConf}
  Sockets = {here, near}
  Relative = {local, devConf, near, mine}
  Secrets = {word}
  SecretFiles <- MCSecretFiles
  Machines <- MCMachines
  Daemons = {d1}
  Calls = {}
  AdminRequests = {a1}
  Nil = nil
  MaxChanges = 1
INVARIANTS
  AcknowledgedIsDurable
