------------------------------ MODULE MCDaemon ------------------------------
(* Small instances of Daemon.                                               *)
EXTENDS Daemon, TLC

CONSTANTS opt, local, conf, devConf, here, near, word, good, mine, loose, blank, home, away

\* Daemons, calls and admin requests are alike; for safety only.
MCSymmetry ==
  Permutations(Daemons) \cup Permutations(Calls) \cup Permutations(AdminRequests)

\* mine is a relative path, and there is such a file in home only.
MCSecretFiles ==
  good :> [mode |-> {"ownerRead"}, content |-> word]
  @@ <<home, mine>> :> [mode |-> {"ownerRead"}, content |-> word]
  @@ loose :> [mode |-> {"ownerRead", "othersRead"}, content |-> word]
  @@ blank :> [mode |-> {"ownerRead"}, content |-> Empty]

\* Settings that Validate asks for are missing; each combination of the two secrets.
MCConfigFiles ==
  [mode : {{"ownerRead", "groupRead"}, {"ownerRead", "othersRead"}},
   settings : {Settings, Settings \ {"port"}, Settings \ {"disableTLS", "key"}},
   socket : {Empty, here, near},
   apiKey : {Empty, word}, apiKeyFile : {Empty, good, mine, blank},
   teamSecret : {Empty}, teamSecretFile : {Empty, loose}]

\* What may lie in another place.
MCStray ==
  [mode |-> {"ownerRead"}, settings |-> Settings, socket |-> near,
   apiKey |-> word, apiKeyFile |-> Empty, teamSecret |-> word, teamSecretFile |-> Empty]

\* One file of any kind, and a stray one somewhere else, or none.
MCMachines ==
  UNION {{[p \in {q, s} |-> IF p = q THEN f ELSE MCStray] : f \in MCConfigFiles} :
           q \in Places, s \in Places}
=============================================================================
