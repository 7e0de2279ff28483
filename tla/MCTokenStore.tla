---------------------------- MODULE MCTokenStore ----------------------------
(* Small instances of TokenStore: two users, one default role, one custom   *)
(* role, and files with and without each of them.                           *)
EXTENDS TokenStore, TLC

CONSTANTS admin, ops, slow, fast

\* Admin requests are alike.
MCSymmetry == Permutations(Admins)

MCDefaultRoles == admin :> fast

MCEntry(u, s, r, issued, expires) ==
  [user |-> u, token |-> s, role |-> r, issued |-> issued, expires |-> expires]

\* No file; a custom role without rate_limit; a default role that does not parse.
MCRolesFiles == {Nil, ops :> Nil, admin :> Malformed}

\* No file; one token that is expired tomorrow; one whose role may be undefined.
MCTokensFiles == {Nil, {MCEntry(1, 1, admin, 0, 1)},
                  {MCEntry(1, 1, ops, 0, Nil), MCEntry(2, 2, admin, 1, Nil)}}
=============================================================================
