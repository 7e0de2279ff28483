-------------------------------- MODULE Config --------------------------------
(***************************************************************************)
(* vault/internal/server/config.go, and what the processes that read a     *)
(* configuration make of it: the daemon (commands/daemon.go, serve.go,     *)
(* ensure_vault.go) and the client (commands/adminclient.go).              *)
(*                                                                         *)
(* A setting whose value nobody here tells apart is reduced to whether it  *)
(* is there.  A file that cannot be read or decoded is one that is absent. *)
(*                                                                         *)
(* A process gives every path to the system as it is written, so a         *)
(* relative one names a place in the directory the process works in.       *)
(***************************************************************************)
EXTENDS Integers

CONSTANTS
  Empty,           \* an empty string
  Failed,          \* an error
  Dirs,            \* directories that processes work in
  Opt, Local,      \* the two ConfigLookupPaths
  Overrides,       \* paths that --config may name
  Sockets,         \* paths of admin sockets
  Relative,        \* those of all paths, of secret files too, that are relative
  Secrets,
  SecretFiles,     \* place -> mode, and content less its trailing newlines
  Machines         \* bound: what configuration files there may be, place -> file

\* The bits that 0640 grants; a file may have no other.
expectedSecretMode == {"ownerRead", "ownerWrite", "groupRead"}

Required == {"port", "keysPath", "embeddingDim", "rolesFile", "tokensFile"}
Settings == Required \cup {"cert", "key", "disableTLS", "endpoint", "indexName"}

\* What a path means to a process that works in dir.
At(dir, path) == IF path \in Relative THEN <<dir, path>> ELSE path

Places == {At(dir, path) : dir \in Dirs, path \in {Opt, Local} \cup Overrides}

OrEmpty(S) == S \cup {Empty}

ASSUME ConfigAssumption ==
  /\ Empty \notin Sockets \cup Secrets \cup Overrides \cup {Opt, Local}
  /\ Failed \notin OrEmpty(Sockets \cup Secrets)
  /\ Opt \notin Relative /\ Local \in Relative
  /\ \A place \in DOMAIN SecretFiles : SecretFiles[place].content \in OrEmpty(Secrets)
  /\ \A files \in Machines :
       /\ DOMAIN files \subseteq Places
       /\ \A place \in DOMAIN files :
            /\ DOMAIN files[place] = {"mode", "settings", "socket", "apiKey", "apiKeyFile",
                                      "teamSecret", "teamSecretFile"}
            /\ files[place].settings \subseteq Settings /\ files[place].socket \in OrEmpty(Sockets)
            /\ files[place].apiKey \in OrEmpty(Secrets)
            /\ files[place].teamSecret \in OrEmpty(Secrets)

checkSecretMode(mode) == mode \subseteq expectedSecretMode

\* A file that is absent passes the check of its mode, and fails to be read.
readSecretFile(dir, path) ==
  LET place == At(dir, path)
  IN  IF place \in DOMAIN SecretFiles /\ checkSecretMode(SecretFiles[place].mode)
      THEN SecretFiles[place].content ELSE Failed

\* A file wins over a secret in its place, also when it is blank.
Materialised(dir, given, path) == IF path = Empty THEN given ELSE readSecretFile(dir, path)

Resolve(dir, c) ==
  [c EXCEPT !.apiKey = Materialised(dir, @, c.apiKeyFile), !.apiKeyFile = Empty,
            !.teamSecret = Materialised(dir, @, c.teamSecretFile), !.teamSecretFile = Empty]

\* Where --config is given nothing else is looked at.
ConfigPath(override, files) ==
  CASE override # Empty                               -> override
    [] override = Empty /\ Opt \in DOMAIN files       -> Opt
    [] OTHER                                      -> Local

resolveConfigPath(override, dir, files) == At(dir, ConfigPath(override, files))

LoadConfig(override, dir, files) ==
  LET place == resolveConfigPath(override, dir, files)
      c == Resolve(dir, files[place])
  IN  IF place \in DOMAIN files /\ checkSecretMode(files[place].mode)
         /\ Failed \notin {c.apiKey, c.teamSecret}
      THEN c ELSE Failed

Validate(c) ==
  /\ c.socket # Empty
  /\ Required \subseteq c.settings
  /\ "disableTLS" \in c.settings \/ {"cert", "key"} \subseteq c.settings

\* Mutant: the flag fills a gap only.
WithFlagIfEmpty(c, flag) == IF c.socket = Empty THEN [c EXCEPT !.socket = flag] ELSE c

\* --admin-socket wins over the file.
WithFlag(c, flag) == IF flag # Empty THEN [c EXCEPT !.socket = flag] ELSE c

\* What a daemon goes on with.  A team secret is not asked for.
runDaemonStart(override, flag, dir, files) ==
  LET c == LoadConfig(override, dir, files)
  IN  IF c # Failed /\ Validate(WithFlag(c, flag)) THEN WithFlag(c, flag) ELSE Failed

\* The path a command dials.  With --admin-socket it reads no file.
resolveAdminClient(override, flag, dir, files) ==
  LET c == LoadConfig(override, dir, files)
  IN  CASE flag # Empty                -> flag
        [] flag = Empty /\ c = Failed  -> Failed
        [] flag = Empty /\ c # Failed  -> IF c.socket = Empty THEN Failed ELSE c.socket

\* Whether EnsureVault goes to the cloud.
Connects(c) == {"endpoint", "indexName"} \subseteq c.settings /\ c.apiKey # Empty

\* The configurations a daemon may run with.
Accepted ==
  {runDaemonStart(override, flag, dir, files) :
     override \in OrEmpty(Overrides), flag \in OrEmpty(Sockets), dir \in Dirs,
     files \in Machines} \ {Failed}
-----------------------------------------------------------------------------
(* What the lookup is for, over all the machines, directories and flags.   *)

\* The paths by which a command finds the socket: the flag, or the configuration file
\* with the socket and the secret files it names.
GoesBy(override, flag, dir, files) ==
  LET file == files[resolveConfigPath(override, dir, files)]
  IN  IF flag # Empty THEN {flag}
      ELSE {ConfigPath(override, files), file.socket, file.apiKeyFile, file.teamSecretFile}

\* A command with the flags of a daemon dials the socket which that daemon binds, if it
\* runs in the daemon's directory or if no path that it goes by is relative.
SameFlagsSameSocket ==
  \A override \in OrEmpty(Overrides), flag \in OrEmpty(Sockets), files \in Machines,
     home, dir \in Dirs :
    LET c == runDaemonStart(override, flag, home, files)
    IN  /\ c # Failed
        /\ dir = home \/ GoesBy(override, flag, home, files) \cap Relative = {}
        => At(dir, resolveAdminClient(override, flag, dir, files)) = At(home, c.socket)
=============================================================================
