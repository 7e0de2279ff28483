------------------------------ MODULE MCAdminApi ------------------------------
(* A small instance of AdminApi: bob, the name "bob#2" that a URL cuts to    *)
(* bob, the default role and one more.                                       *)
EXTENDS AdminApi, FiniteSets, TLC

CONSTANTS member, ops, slow, fast, wrong

\* Commands are alike, and so are writers.
MCSymmetry == Permutations(Commands) \cup Permutations(Writers)

MCUsers == {1, 2}
MCCutTo == 1 :> 1 @@ 2 :> 1 @@ member :> member @@ ops :> ops
MCFirstRole == 1 :> ops @@ 2 :> member
MCFull == {"all"}

\* The requests that may do something to each other.
MCMeeting ==
  {RevokeRequest(1), RotateRequest(1), RotateAllRequest, IssueRequest(1, ops)}
  \cup {CreateRequest(ops, {"all"}, 0, slow), DeleteRequest(ops)}
  \cup {UpdateRequest(ops, {}, Nil, Nil), UpdateRequest(ops, Nil, Nil, slow)}

\* With a name that a URL cuts, and updates that are refused.
MCRequests ==
  MCMeeting \cup {RevokeRequest(2), RotateRequest(2)}
  \cup {UpdateRequest(ops, Nil, Nil, wrong), UpdateRequest(ops, Nil, Nil, Nil)}

\* Those that are done in one visit to the store, of roles one of each kind.
MCSimple == MCMeeting \ {RotateAllRequest, UpdateRequest(ops, {}, Nil, Nil)}

MCSent == {c \in Commands : cmd[c].pc # "unsent"}
MCAsked(S) == \A c \in MCSent : cmd[c].req \in S

\* The daemon has not stopped and has not begun to write.
MCUnwritten == stops = 0 /\ saved = {} /\ \A w \in Writers : writer[w] = Idle

\* One stop at most, one write at a time, none of the roles failed.
MCInOrder == stops <= 1 /\ orderly

\* bound: two commands meet any two stops and any writes; where there are more, they meet
\* each other, or one stop and writes in order if their requests are simple.
MCBound ==
  Cardinality(MCSent) > 2 =>
    \/ MCUnwritten /\ MCAsked(MCMeeting)
    \/ MCInOrder /\ MCAsked(MCSimple)
=============================================================================
