---------------------------- MODULE Config_proofs ----------------------------
(***************************************************************************)
(* Theorems of Config, for any machines, directories, sockets and flags.   *)
(***************************************************************************)
EXTENDS Config, TLAPS

\* What LoadConfig returns comes from the file at the resolved place, socket and all.
LEMMA LoadedIsThere ==
  ASSUME NEW override, NEW dir, NEW files \in Machines, LoadConfig(override, dir, files) # Failed
  PROVE  LET place == resolveConfigPath(override, dir, files)
             c == LoadConfig(override, dir, files)
         IN  /\ place \in DOMAIN files /\ c = Resolve(dir, files[place])
             /\ "socket" \in DOMAIN c /\ c.socket = files[place].socket
<1>. DEFINE place == resolveConfigPath(override, dir, files)
<1>1. /\ place \in DOMAIN files
      /\ LoadConfig(override, dir, files) = Resolve(dir, files[place])
  BY DEF LoadConfig
<1>2. "socket" \in DOMAIN files[place]
  BY <1>1, ConfigAssumption
<1>. HIDE DEF place
<1>3. /\ "socket" \in DOMAIN Resolve(dir, files[place])
      /\ Resolve(dir, files[place]).socket = files[place].socket
  BY <1>2 DEF Resolve
<1>. QED
  BY <1>1, <1>3 DEF place

\* A daemon binds the socket that a flag names or, without one, that of its file.
LEMMA BoundSocket ==
  ASSUME NEW override, NEW flag, NEW dir, NEW files \in Machines,
         runDaemonStart(override, flag, dir, files) # Failed
  PROVE  LET c == runDaemonStart(override, flag, dir, files)
             loaded == LoadConfig(override, dir, files)
         IN  /\ loaded # Failed /\ c.socket # Empty
             /\ c.socket = IF flag # Empty THEN flag ELSE loaded.socket
<1>. DEFINE loaded == LoadConfig(override, dir, files)
            c == runDaemonStart(override, flag, dir, files)
<1>1. loaded # Failed /\ Validate(WithFlag(loaded, flag)) /\ c = WithFlag(loaded, flag)
  BY DEF runDaemonStart
<1>2. "socket" \in DOMAIN loaded
  BY <1>1, LoadedIsThere
<1>. HIDE DEF loaded
<1>3. WithFlag(loaded, flag).socket = IF flag # Empty THEN flag ELSE loaded.socket
  BY <1>2 DEF WithFlag
<1>. QED
  BY <1>1, <1>3 DEF Validate, loaded

\* Two processes read the same secret from a file if they work in one directory or its
\* path is absolute.
LEMMA SameSecret ==
  ASSUME NEW home, NEW dir, NEW given, NEW path, dir = home \/ path \notin Relative
  PROVE  Materialised(dir, given, path) = Materialised(home, given, path)
BY DEF Materialised, readSecretFile, At

\* They load the same configuration if that holds of the file's path and of the paths of
\* the secret files it names.
LEMMA SameFileSameConfig ==
  ASSUME NEW override, NEW home, NEW dir, NEW files, NEW path, NEW file,
         path = ConfigPath(override, files),
         file = files[resolveConfigPath(override, home, files)],
         dir = home \/ {path, file.apiKeyFile, file.teamSecretFile} \cap Relative = {}
  PROVE  LoadConfig(override, dir, files) = LoadConfig(override, home, files)
<1>1. resolveConfigPath(override, dir, files) = resolveConfigPath(override, home, files)
  BY DEF resolveConfigPath, At
<1>2. /\ \A given : Materialised(dir, given, file.apiKeyFile) = Materialised(home, given, file.apiKeyFile)
      /\ \A given : Materialised(dir, given, file.teamSecretFile)
                      = Materialised(home, given, file.teamSecretFile)
  BY SameSecret
<1>3. Resolve(dir, file) = Resolve(home, file)
  BY <1>2 DEF Resolve
<1>. QED
  BY <1>1, <1>3 DEF LoadConfig

\* A command dials the socket that the daemon with the same flags binds, if it runs in the
\* daemon's directory or goes by absolute paths only.
THEOREM CommandsDialTheDaemon == SameFlagsSameSocket
<1>. SUFFICES ASSUME NEW override \in OrEmpty(Overrides), NEW flag \in OrEmpty(Sockets),
                     NEW files \in Machines, NEW home \in Dirs, NEW dir \in Dirs,
                     runDaemonStart(override, flag, home, files) # Failed,
                     dir = home \/ GoesBy(override, flag, home, files) \cap Relative = {}
              PROVE  At(dir, resolveAdminClient(override, flag, dir, files))
                       = At(home, runDaemonStart(override, flag, home, files).socket)
  BY DEF SameFlagsSameSocket
<1>. DEFINE bound == runDaemonStart(override, flag, home, files).socket
            loaded == LoadConfig(override, home, files)
<1>1. /\ loaded # Failed /\ bound # Empty
      /\ bound = IF flag # Empty THEN flag ELSE loaded.socket
  BY BoundSocket
<1>2. CASE flag # Empty
  <2>1. resolveAdminClient(override, flag, dir, files) = flag /\ bound = flag
    BY <1>1, <1>2 DEF resolveAdminClient
  <2>2. dir = home \/ flag \notin Relative
    BY <1>2 DEF GoesBy
  <2>. QED
    BY <2>1, <2>2 DEF At
<1>3. CASE flag = Empty
  <2>. PICK path, file : /\ path = ConfigPath(override, files)
                         /\ file = files[resolveConfigPath(override, home, files)]
    OBVIOUS
  <2>1. dir = home \/ {path, file.socket, file.apiKeyFile, file.teamSecretFile} \cap Relative = {}
    BY <1>3 DEF GoesBy
  <2>2. LoadConfig(override, dir, files) = loaded
    BY <2>1, SameFileSameConfig
  <2>3. bound = file.socket /\ bound = loaded.socket
    BY <1>1, <1>3, LoadedIsThere
  <2>4. resolveAdminClient(override, flag, dir, files) = bound
    BY <1>1, <1>3, <2>2, <2>3 DEF resolveAdminClient
  <2>5. dir = home \/ bound \notin Relative
    BY <2>1, <2>3
  <2>. QED
    BY <2>4, <2>5 DEF At
<1>. QED
  BY <1>2, <1>3

=============================================================================
