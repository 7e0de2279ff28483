---------------------------- MODULE MCPersistence ----------------------------
(* Small instances of Persistence.                                          *)
EXTENDS Persistence, TLC

\* Admin requests are alike, and so are timer objects; for safety only.
MCSymmetry == Permutations(Admins) \cup Permutations(Timers)
=============================================================================
