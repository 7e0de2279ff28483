----------------------------- MODULE MCVaultRPC -----------------------------
(* Small instances of VaultRPC.                                             *)
EXTENDS VaultRPC, TLC

CONSTANTS s1, s2, alice

\* Handlers are alike; for safety only.
MCSymmetry == Permutations(Requests)

\* Two strings: one is alice's, the other is hers after a rotation.
MCOwner == s1 :> alice @@ s2 :> alice

MCLoaded == [scope : {{Scores}}, topK : {1}, rate : {1, Malformed}]

\* All fields at once; the rate alone.
MCOffers == {[scope |-> {Manifest, Metadata}, topK |-> 2, rate |-> 1],
             [scope |-> Nil, topK |-> Nil, rate |-> 2]}
=============================================================================
