---------------------------- MODULE AdminApi_proofs ----------------------------
(***************************************************************************)
(* Theorems of AdminApi, for any commands, requests, users and roles, and  *)
(* any number of stops.                                                    *)
(***************************************************************************)
EXTENDS AdminApi, TLAPS

-----------------------------------------------------------------------------
(* Tables and the strings in them.                                         *)

\* The table after a user was given a string, has lost it, has another one.
Issued(t, u, c, r) == With(t, u, [by |-> c, role |-> r])
Removed(t, u) == Restrict(t, DOMAIN t \ {u})
Replaced(t, u, c) == [t EXCEPT ![u].by = c]

\* A string is a pair, found in a table under its user.
LEMMA StringsOf ==
  ASSUME NEW t
  PROVE  /\ \A s \in Strings(t) : s[1] \in DOMAIN t /\ s[2] = t[s[1]].by /\ s = <<s[1], s[2]>>
         /\ \A u \in DOMAIN t : <<u, t[u].by>> \in Strings(t)
BY DEF Strings

\* The strings of a table of tokens are typed.
LEMMA StringsTyped == ASSUME NEW t, IsTokens(t) PROVE Strings(t) \subseteq Strung
BY DEF IsTokens, Strings, Strung, Token

\* The empty table is a table.
LEMMA EmptyTable == IsTokens(<<>>) /\ IsRoles(<<>>) /\ Strings(<<>>) = {}
BY DEF IsTokens, IsRoles, Strings

\* Issuing adds one string.
LEMMA StringsAdded ==
  ASSUME NEW t, IsTokens(t), NEW u \in Users, u \notin DOMAIN t,
         NEW c \in Commands, NEW r \in RoleNames, NEW new,
         new = Issued(t, u, c, r)
  PROVE  /\ IsTokens(new) /\ \A v : v \in DOMAIN new <=> v \in DOMAIN t \/ v = u
         /\ new[u].role = r /\ \A v \in DOMAIN t : new[v] = t[v]
         /\ \A s : s \in Strings(new) <=> s \in Strings(t) \/ s = <<u, c>>
<1>1. DOMAIN new = DOMAIN t \cup {u}
  BY DEF Issued, With
<1>2. \A v \in DOMAIN t : new[v] = t[v]
  BY DEF Issued, With
<1>3. new[u] = [by |-> c, role |-> r]
  BY DEF Issued, With
<1>4. [by |-> c, role |-> r] \in Token
  BY DEF Token, Drawers
<1>5. new \in [DOMAIN new -> Token]
  <2>1. \A v \in DOMAIN new : new[v] \in Token
    BY <1>1, <1>2, <1>3, <1>4 DEF IsTokens
  <2>. QED
    BY <2>1, <1>1 DEF Issued, With
<1>6. \A s : s \in Strings(new) <=> s \in Strings(t) \/ s = <<u, c>>
  BY <1>1, <1>2, <1>3 DEF Strings
<1>. QED
  BY <1>1, <1>2, <1>3, <1>5, <1>6 DEF IsTokens

\* Revoking removes the strings of one user.
LEMMA StringsRemoved ==
  ASSUME NEW t, IsTokens(t), NEW u, NEW new, new = Removed(t, u)
  PROVE  /\ IsTokens(new) /\ \A v : v \in DOMAIN new <=> v \in DOMAIN t /\ v # u
         /\ \A v \in DOMAIN new : new[v] = t[v]
         /\ \A s : s \in Strings(new) <=> s \in Strings(t) /\ s[1] # u
<1>1. /\ \A v : v \in DOMAIN new <=> v \in DOMAIN t /\ v # u
      /\ \A v \in DOMAIN new : new[v] = t[v]
  BY DEF Removed, Restrict
<1>2. new \in [DOMAIN new -> Token]
  BY DEF Removed, Restrict, IsTokens
<1>3. \A s : s \in Strings(new) <=> s \in Strings(t) /\ s[1] # u
  BY <1>1 DEF Strings
<1>. QED
  BY <1>1, <1>2, <1>3 DEF IsTokens

\* Rotating replaces the string of one user.
LEMMA StringsRotated ==
  ASSUME NEW t, IsTokens(t), NEW u \in DOMAIN t, NEW c \in Commands, NEW new,
         new = Replaced(t, u, c)
  PROVE  /\ IsTokens(new) /\ DOMAIN new = DOMAIN t
         /\ \A v \in DOMAIN t : new[v].role = t[v].role
         /\ \A s : s \in Strings(new) <=> (s \in Strings(t) /\ s[1] # u) \/ s = <<u, c>>
<1>1. t \in [DOMAIN t -> Token]
  BY DEF IsTokens
<1>2. DOMAIN new = DOMAIN t
  BY <1>1 DEF Replaced
<1>3. new[u].by = c /\ new[u].role = t[u].role /\ new[u] \in Token
  BY <1>1 DEF Token, Drawers, Replaced
<1>4. \A v \in DOMAIN t \ {u} : new[v] = t[v]
  BY <1>1 DEF Replaced
<1>5. new \in [DOMAIN new -> Token]
  BY <1>1, <1>2, <1>3, <1>4 DEF Replaced
<1>6. \A s : s \in Strings(new) <=> (s \in Strings(t) /\ s[1] # u) \/ s = <<u, c>>
  BY <1>2, <1>3, <1>4 DEF Strings
<1>. QED
  BY <1>2, <1>3, <1>4, <1>5, <1>6 DEF IsTokens

-----------------------------------------------------------------------------
(* What a step of a handler does.                                          *)

Sent(c) == cmd[c].pc # "unsent"

\* A handler that may still do something.
Busy(c) == handler[c].pc \in {"accepted", "rotating"}

\* The handler of c goes on as h, after it has drawn the strings D.
Works(c, h, D) ==
  /\ Busy(c) /\ h \in HandlerState /\ D \subseteq Users \X {c}
  /\ handler' = [handler EXCEPT ![c] = h]
  /\ \/ h.pc = "rotating" /\ cmd[c].req.verb = "rotateAll"
     \/ h.pc = "answering" /\ cmd[c].pc = "waiting"
     \/ h = NoHandler /\ cmd[c].pc # "waiting"
  /\ \/ performed' = performed
     \/ performed' = performed \cup {c} /\ h.pc # "rotating"
  /\ UNCHANGED <<up, writer, files, cmd, stops, saved, orderly>>

\* It draws what was not drawn before, and does not draw it again.
DrawsOnce(c, h, D) ==
  /\ \A s \in D : handler[c].pc = "accepted" \/ s[1] \in handler[c].todo
  /\ h.pc = "rotating" => \A s \in D : s[1] \notin h.todo
  /\ h.pc = "rotating" /\ handler[c].pc = "rotating" => h.todo \subseteq handler[c].todo
  /\ h.pc = "rotating" /\ handler[c].pc = "accepted" => D = {}

\* What it draws is valid, and told of by a success; what it removes it was to remove.
PutsInForce(c, h, D) ==
  /\ D \subseteq Valid' /\ Valid' \subseteq Valid \cup D
  /\ h.drawn \subseteq handler[c].drawn \cup D
  /\ h.pc = "rotating" \/ (h.pc = "answering" /\ h.status = "ok")
       => handler[c].drawn \cup D \subseteq h.drawn
  /\ \A s \in Valid \ Valid' :
       Concerns(cmd[c].req, s[1]) /\ (s[2] # c \/ handler[c].pc = "accepted")

\* When it is done, the strings it was to remove have gone.
RemovesOld(c, h, D) ==
  /\ performed' # performed =>
       \A s \in Valid' \ D :
         Concerns(cmd[c].req, s[1]) => handler[c].pc = "rotating" /\ handler[c].todo = {}
  /\ h.pc = "rotating" =>
       \A s \in Valid' \ D :
         s[1] \in h.todo \/ (handler[c].pc = "rotating" /\ s[1] \notin handler[c].todo)

\* All of it, for the lemmas about the actions.
Work(c) ==
  \E h \in HandlerState, D \in SUBSET (Users \X {c}) :
    Works(c, h, D) /\ DrawsOnce(c, h, D) /\ PutsInForce(c, h, D) /\ RemovesOld(c, h, D)

\* The strings of a handler's own command are strings.
LEMMA OwnStrings ==
  ASSUME NEW c \in Commands
  PROVE  Users \X {c} \subseteq Strung /\ NoHandler \in HandlerState
BY DEF Strung, Drawers, NoHandler, HandlerState

\* An answer is delivered or, when nobody waits, goes nowhere.
LEMMA AnswerState ==
  ASSUME TypeOK, NEW c \in Commands, NEW status \in Outcomes, NEW drawn \in SUBSET Strung,
         Answer(c, status, drawn)
  PROVE  \E h \in HandlerState :
           /\ handler' = [handler EXCEPT ![c] = h]
           /\ \/ h.pc = "answering" /\ cmd[c].pc = "waiting" /\ h.drawn = drawn
                 /\ h.status = status
              \/ h = NoHandler /\ cmd[c].pc # "waiting" /\ h.drawn = {}
           /\ h.pc \notin {"rotating", "accepted"}
<1>. DEFINE h == IF cmd[c].pc = "waiting"
                 THEN [NoHandler EXCEPT !.pc = "answering", !.drawn = drawn, !.status = status]
                 ELSE NoHandler
<1>1. NoHandler \in HandlerState /\ NoHandler.pc = "none" /\ NoHandler.drawn = {}
  BY DEF NoHandler, HandlerState
<1>2. h \in HandlerState
  BY <1>1 DEF HandlerState
<1>3. cmd[c].pc = "waiting" => h.pc = "answering" /\ h.drawn = drawn /\ h.status = status
  BY <1>1 DEF HandlerState
<1>4. handler' = [handler EXCEPT ![c] = h]
  BY DEF Answer
<1>5. cmd[c].pc # "waiting" => h = NoHandler
  OBVIOUS
<1>. HIDE DEF h
<1>. QED
  BY <1>1, <1>2, <1>3, <1>4, <1>5

\* A refusal draws nothing and removes nothing.
LEMMA RefusalWorks ==
  ASSUME TypeOK, NEW c \in Commands, Busy(c), NEW status \in {"refused", "failed"},
         Refuse(c, status)
  PROVE  Work(c)
<1>1. status \in Outcomes /\ {} \in SUBSET Strung /\ Answer(c, status, {})
      /\ UNCHANGED <<tables, pending, performed>>
  BY DEF Outcomes, Refuse
<1>2. PICK h \in HandlerState :
           /\ handler' = [handler EXCEPT ![c] = h]
           /\ \/ h.pc = "answering" /\ cmd[c].pc = "waiting" /\ h.drawn = {}
                 /\ h.status = status
              \/ h = NoHandler /\ cmd[c].pc # "waiting" /\ h.drawn = {}
           /\ h.pc \notin {"rotating", "accepted"}
  BY <1>1, AnswerState
<1>3. UNCHANGED <<up, writer, files, cmd, stops, saved, orderly>>
  BY <1>1 DEF Answer
<1>4. Works(c, h, {})
  BY <1>1, <1>2, <1>3 DEF Works
<1>5. Valid' = Valid
  BY <1>1 DEF Valid, tables, Strings
<1>6. h.status # "ok" \/ h.pc # "answering"
  BY <1>2 DEF NoHandler
<1>7. DrawsOnce(c, h, {}) /\ PutsInForce(c, h, {}) /\ RemovesOld(c, h, {})
  BY <1>1, <1>2, <1>5, <1>6 DEF DrawsOnce, PutsInForce, RemovesOld
<1>. QED
  BY <1>4, <1>7 DEF Work

\* A success that ends the handler, after it has drawn the strings D: what there is
\* left to show of each action.
LEMMA SuccessWorks ==
  ASSUME TypeOK, NEW c \in Commands, Busy(c), NEW status \in {"ok", "notFound"},
         NEW D \in SUBSET (Users \X {c}), NEW drawn, drawn = handler[c].drawn \cup D,
         Answer(c, status, drawn),
         performed' = performed \cup {c},
         \A s \in D : handler[c].pc = "accepted" \/ s[1] \in handler[c].todo,
         D \subseteq Valid', Valid' \subseteq Valid \cup D,
         \A s \in Valid \ Valid' : Concerns(cmd[c].req, s[1]) /\ handler[c].pc = "accepted",
         \A s \in Valid' \ D :
           Concerns(cmd[c].req, s[1]) => handler[c].pc = "rotating" /\ handler[c].todo = {}
  PROVE  Work(c)
<1>1. status \in Outcomes
  BY DEF Outcomes
<1>2. handler[c].drawn \subseteq Strung
  BY DEF TypeOK, HandlerState
<1>3. drawn \in SUBSET Strung
  BY <1>2, OwnStrings
<1>4. PICK h \in HandlerState :
           /\ handler' = [handler EXCEPT ![c] = h]
           /\ \/ h.pc = "answering" /\ cmd[c].pc = "waiting" /\ h.drawn = drawn
                 /\ h.status = status
              \/ h = NoHandler /\ cmd[c].pc # "waiting" /\ h.drawn = {}
           /\ h.pc \notin {"rotating", "accepted"}
  BY <1>1, <1>3, AnswerState
<1>5. UNCHANGED <<up, writer, files, cmd, stops, saved, orderly>>
  BY DEF Answer
<1>6. Works(c, h, D)
  BY <1>4, <1>5 DEF Works
<1>7. DrawsOnce(c, h, D) /\ RemovesOld(c, h, D)
  BY <1>4 DEF DrawsOnce, RemovesOld
<1>8. h.drawn \subseteq handler[c].drawn \cup D
  BY <1>4
<1>9. h.pc = "answering" => h.drawn = drawn
  BY <1>4 DEF NoHandler
<1>10. PutsInForce(c, h, D)
  BY <1>4, <1>8, <1>9 DEF PutsInForce
<1>. QED
  BY <1>6, <1>7, <1>10 DEF Work

\* How far a command and its handler are, together.
Stage(c) ==
  /\ cmd[c].pc = "unsent" => cmd[c] = Unsent
  /\ Sent(c) => cmd[c].req \in Requests
  /\ cmd[c].pc = "waiting" =>
       cmd[c].outcome = Nil /\ cmd[c].shown = {} /\ handler[c].pc # "none"
  /\ handler[c].pc # "none" =>
       up /\ Sent(c) /\ cmd[c].outcome \in {Nil, "failed"} /\ cmd[c].shown = {}
  /\ handler[c].pc \in {"none", "accepted"} => handler[c].drawn = {}
  /\ handler[c].pc = "rotating" => cmd[c].req.verb = "rotateAll"
  /\ handler[c].pc = "answering" => cmd[c].pc = "waiting"
  /\ c \in performed => Sent(c) /\ ~Busy(c)

\* A handler that has been accepted has a request of a command, and drawn nothing.
LEMMA AcceptedHas ==
  ASSUME TypeOK, NEW c \in Commands, Stage(c), NEW verb, Accepted(c, verb)
  PROVE  /\ Busy(c) /\ handler[c].pc = "accepted" /\ handler[c].drawn = {}
         /\ cmd[c].req \in Requests /\ cmd[c].req.verb = verb
BY DEF Stage, Accepted, Busy

\* POST /tokens.
LEMMA AddTokenWorks ==
  ASSUME TypeOK, NEW c \in Commands, Stage(c), AddToken(c)
  PROVE  Work(c)
<1>. DEFINE q == cmd[c].req
<1>1. Accepted(c, "issue")
  BY DEF AddToken
<1>2. Busy(c) /\ handler[c].pc = "accepted" /\ handler[c].drawn = {} /\ q \in Requests
      /\ q.verb = "issue"
  BY <1>1, AcceptedHas
<1>3. q.name \in Users /\ q.role \in RoleNames
  BY <1>2, RequestsAssumption
<1>4. CASE Refuse(c, "refused")
  BY <1>2, <1>4, RefusalWorks
<1>5. CASE /\ q.name \notin DOMAIN tokens
           /\ tokens' = With(tokens, q.name, [by |-> c, role |-> q.role])
           /\ Succeed(c, {<<q.name, c>>})
  <2>. DEFINE D == {<<q.name, c>>}
  <2>1. Valid' = Valid \cup D
    <3>1. IsTokens(tokens) /\ Valid' = Strings(tokens') /\ Valid = Strings(tokens)
      BY DEF TypeOK, Valid, Strings
    <3>2. tokens' = Issued(tokens, q.name, c, q.role)
      BY <1>5 DEF Issued
    <3>3. \A s : s \in Strings(tokens') <=> s \in Strings(tokens) \/ s = <<q.name, c>>
      <4>. HIDE DEF q
      <4>. QED
        BY <1>3, <1>5, <3>1, <3>2, StringsAdded
    <3>. QED
      BY <3>1, <3>3
  <2>2. \A s : ~Concerns(q, s[1])
    BY <1>2 DEF Concerns
  <2>3. D \in SUBSET (Users \X {c})
    BY <1>3
  <2>4. Answer(c, "ok", D) /\ performed' = performed \cup {c}
    BY <1>5 DEF Succeed
  <2>5. D = handler[c].drawn \cup D
    BY <1>2
  <2>. HIDE DEF D
  <2>. QED
    BY <1>2, <2>1, <2>2, <2>3, <2>4, <2>5, SuccessWorks
<1>. QED
  BY <1>4, <1>5 DEF AddToken

\* DELETE /tokens/{user}.
LEMMA RevokeTokenWorks ==
  ASSUME TypeOK, NEW c \in Commands, Stage(c), RevokeToken(c)
  PROVE  Work(c)
<1>. DEFINE q == cmd[c].req
            user == Target(q)
<1>1. Accepted(c, "revoke")
  BY DEF RevokeToken
<1>2. Busy(c) /\ handler[c].pc = "accepted" /\ handler[c].drawn = {} /\ q \in Requests
      /\ q.verb = "revoke"
  BY <1>1, AcceptedHas
<1>3. \A u : Concerns(q, u) <=> u = user
  BY <1>2 DEF Concerns
<1>4. IsTokens(tokens) /\ Valid' = Strings(tokens') /\ Valid = Strings(tokens)
  BY DEF TypeOK, Valid, Strings
<1>5. \A s \in Valid : s[1] \in DOMAIN tokens
  BY <1>4, StringsOf
<1>6. {} \in SUBSET (Users \X {c}) /\ {} = handler[c].drawn \cup {}
  BY <1>2
<1>7. \A s \in Valid' : s[1] # user
  <2>1. CASE user \notin DOMAIN tokens /\ UNCHANGED tables
    BY <1>4, <1>5, <2>1 DEF tables
  <2>2. CASE tokens' = Removed(tokens, user)
    <3>. HIDE DEF user
    <3>. QED
      BY <1>4, <2>2, StringsRemoved
  <2>. QED
    BY <2>1, <2>2 DEF RevokeToken, Removed
<1>8. Valid' \subseteq Valid /\ \A s \in Valid \ Valid' : s[1] = user
  <2>1. CASE UNCHANGED tables
    BY <1>4, <2>1 DEF tables
  <2>2. CASE tokens' = Removed(tokens, user)
    <3>. HIDE DEF user
    <3>. QED
      BY <1>4, <2>2, StringsRemoved
  <2>. QED
    BY <2>1, <2>2 DEF RevokeToken, Removed
<1>9. PICK status \in {"ok", "notFound"} :
        Answer(c, status, {}) /\ performed' = performed \cup {c}
  BY DEF RevokeToken, Succeed
<1>. HIDE DEF user
<1>. QED
  BY <1>2, <1>3, <1>6, <1>7, <1>8, <1>9, SuccessWorks

\* POST /tokens/{user}/rotate.
LEMMA RotateTokenWorks ==
  ASSUME TypeOK, NEW c \in Commands, Stage(c), RotateToken(c)
  PROVE  Work(c)
<1>. DEFINE q == cmd[c].req
            user == Target(q)
            D == {<<user, c>>}
<1>1. Accepted(c, "rotate")
  BY DEF RotateToken
<1>2. Busy(c) /\ handler[c].pc = "accepted" /\ handler[c].drawn = {} /\ q \in Requests
      /\ q.verb = "rotate"
  BY <1>1, AcceptedHas
<1>3. CASE Refuse(c, "refused")
  BY <1>2, <1>3, RefusalWorks
<1>4. CASE user \in DOMAIN tokens /\ tokens' = Rotated(user, c) /\ Succeed(c, D)
  <2>1. \A u : Concerns(q, u) <=> u = user
    BY <1>2 DEF Concerns
  <2>2. IsTokens(tokens) /\ Valid' = Strings(tokens') /\ Valid = Strings(tokens)
    BY DEF TypeOK, Valid, Strings
  <2>3. \A s : s \in Valid' <=> (s \in Valid /\ s[1] # user) \/ s = <<user, c>>
    <3>1. tokens' = Replaced(tokens, user, c)
      BY <1>4 DEF Rotated, Replaced
    <3>. QED
      BY <1>4, <2>2, <3>1, StringsRotated
  <2>4. D \in SUBSET (Users \X {c})
    BY <1>4, <2>2 DEF IsTokens
  <2>5. Answer(c, "ok", D) /\ performed' = performed \cup {c}
    BY <1>4 DEF Succeed
  <2>6. D = handler[c].drawn \cup D
    BY <1>2
  <2>7. D \subseteq Valid' /\ Valid' \subseteq Valid \cup D
    BY <2>3
  <2>8. \A s \in Valid \ Valid' : s[1] = user
    BY <2>3
  <2>9. \A s \in Valid' \ D : s[1] # user
    BY <2>3
  <2>. HIDE DEF D, user
  <2>. QED
    BY <1>2, <2>1, <2>4, <2>5, <2>6, <2>7, <2>8, <2>9, SuccessWorks
<1>. QED
  BY <1>3, <1>4 DEF RotateToken

\* The first step of POST /tokens/_rotate_all.
LEMMA RotateAllBeginWorks ==
  ASSUME TypeOK, NEW c \in Commands, Stage(c), RotateAllBegin(c)
  PROVE  Work(c)
<1>. DEFINE h == [handler[c] EXCEPT !.pc = "rotating", !.todo = DOMAIN tokens]
<1>1. handler[c].pc = "accepted" /\ cmd[c].req.verb = "rotateAll" /\ handler[c].drawn = {}
  BY AcceptedHas DEF RotateAllBegin
<1>2. handler[c] \in HandlerState /\ IsTokens(tokens)
  BY DEF TypeOK
<1>3. DOMAIN tokens \subseteq Users
  BY <1>2 DEF IsTokens
<1>4. h \in HandlerState /\ h.pc = "rotating" /\ h.todo = DOMAIN tokens
      /\ h.drawn = handler[c].drawn
  BY <1>2, <1>3 DEF HandlerState
<1>5. handler' = [handler EXCEPT ![c] = h]
  BY DEF RotateAllBegin
<1>6. UNCHANGED <<up, tables, writer, files, cmd, stops, performed, saved, orderly>>
  BY DEF RotateAllBegin, persist, history
<1>7. Valid' = Valid /\ \A s \in Valid : s[1] \in DOMAIN tokens
  BY <1>6, StringsOf DEF tables, Valid, Strings
<1>. HIDE DEF h
<1>8. Works(c, h, {})
  BY <1>1, <1>4, <1>5, <1>6 DEF Works, Busy
<1>9. DrawsOnce(c, h, {}) /\ PutsInForce(c, h, {}) /\ RemovesOld(c, h, {})
  BY <1>1, <1>4, <1>6, <1>7 DEF DrawsOnce, PutsInForce, RemovesOld
<1>. QED
  BY <1>4, <1>8, <1>9 DEF Work

\* A step of it for one user.
LEMMA RotateAllStepWorks ==
  ASSUME TypeOK, NEW c \in Commands, Stage(c), NEW u \in Users, RotateAllStep(c, u)
  PROVE  Work(c)
<1>. DEFINE D == {<<u, c>>}
            h == WithDrawn(handler[c], u, c)
<1>1. handler[c].pc = "rotating" /\ u \in handler[c].todo /\ cmd[c].req.verb = "rotateAll"
  BY DEF Stage, RotateAllStep, Following
<1>2. handler[c] \in HandlerState /\ IsTokens(tokens) /\ u \in DOMAIN tokens
  BY DEF TypeOK, RotateAllStep
<1>3. D \in SUBSET (Users \X {c})
  OBVIOUS
<1>4. D \subseteq Strung
  BY <1>3, OwnStrings
<1>5. h \in HandlerState /\ h.pc = "rotating" /\ h.todo = handler[c].todo \ {u}
      /\ h.drawn = handler[c].drawn \cup D
  BY <1>1, <1>2, <1>4 DEF HandlerState, WithDrawn
<1>6. handler' = [handler EXCEPT ![c] = h]
  BY DEF RotateAllStep
<1>7. UNCHANGED <<up, writer, files, cmd, stops, performed, saved, orderly>>
  BY DEF RotateAllStep, history
<1>8. \A s : s \in Valid' <=> (s \in Valid /\ s[1] # u) \/ s = <<u, c>>
  <2>1. tokens' = Replaced(tokens, u, c)
    BY DEF RotateAllStep, Rotated, Replaced
  <2>2. Valid' = Strings(tokens') /\ Valid = Strings(tokens)
    BY DEF Valid, Strings
  <2>. QED
    BY <1>2, <2>1, <2>2, StringsRotated
<1>9. \A s \in D : s = <<u, c>> /\ s[1] = u
  OBVIOUS
<1>10. \A s \in Valid : s = <<s[1], s[2]>>
  BY StringsOf DEF Valid
<1>11. \A v : Concerns(cmd[c].req, v)
  BY <1>1 DEF Concerns
<1>12. <<u, c>> \in D
  OBVIOUS
<1>. HIDE DEF h, D
<1>13. Works(c, h, D)
  BY <1>1, <1>3, <1>5, <1>6, <1>7 DEF Works, Busy
<1>14. DrawsOnce(c, h, D)
  BY <1>1, <1>5, <1>9 DEF DrawsOnce
<1>15. PutsInForce(c, h, D)
  <2>1. D \subseteq Valid' /\ Valid' \subseteq Valid \cup D
    BY <1>8, <1>9, <1>12
  <2>2. \A s \in Valid \ Valid' : s[1] = u /\ s # <<u, c>>
    BY <1>8
  <2>3. \A s \in Valid \ Valid' : s[2] # c
    BY <1>10, <2>2
  <2>. QED
    BY <1>5, <1>11, <2>1, <2>3 DEF PutsInForce
<1>16. RemovesOld(c, h, D)
  <2>1. \A s \in Valid' \ D : s[1] # u
    BY <1>8, <1>12
  <2>. QED
    BY <1>1, <1>5, <1>7, <2>1 DEF RemovesOld
<1>. QED
  BY <1>3, <1>5, <1>13, <1>14, <1>15, <1>16 DEF Work

\* Its last step.
LEMMA RotateAllEndWorks ==
  ASSUME TypeOK, NEW c \in Commands, Stage(c), RotateAllEnd(c)
  PROVE  Work(c)
<1>1. handler[c].pc = "rotating" /\ handler[c].todo = {} /\ Busy(c)
  BY DEF RotateAllEnd, Busy
<1>2. Answer(c, "ok", handler[c].drawn) /\ performed' = performed \cup {c}
      /\ UNCHANGED tables
  BY DEF RotateAllEnd
<1>3. Valid' = Valid
  BY <1>2 DEF Valid, tables, Strings
<1>4. {} \in SUBSET (Users \X {c}) /\ handler[c].drawn = handler[c].drawn \cup {}
  OBVIOUS
<1>. QED
  BY <1>1, <1>2, <1>3, <1>4, SuccessWorks

\* The changes of a role leave the strings alone.
LEMMA RoleWorks ==
  ASSUME TypeOK, NEW c \in Commands, Stage(c), AddRole(c) \/ UpdateRole(c) \/ DeleteRole(c)
  PROVE  Work(c)
<1>1. PICK verb \in RoleVerbs : Accepted(c, verb)
  BY DEF AddRole, UpdateRole, DeleteRole, RoleVerbs
<1>2. Busy(c) /\ handler[c].pc = "accepted" /\ handler[c].drawn = {}
      /\ cmd[c].req.verb \in RoleVerbs
  BY <1>1, AcceptedHas
<1>3. CASE Refuse(c, "refused")
  BY <1>2, <1>3, RefusalWorks
<1>4. CASE Succeed(c, {}) /\ UNCHANGED tokens
  <2>1. Valid' = Valid
    BY <1>4 DEF Valid, Strings
  <2>2. \A u : ~Concerns(cmd[c].req, u)
    BY <1>2 DEF Concerns, RoleVerbs
  <2>3. Answer(c, "ok", {}) /\ performed' = performed \cup {c}
    BY <1>4 DEF Succeed
  <2>4. {} \in SUBSET (Users \X {c}) /\ {} = handler[c].drawn \cup {}
    BY <1>2
  <2>. QED
    BY <1>2, <2>1, <2>2, <2>3, <2>4, SuccessWorks
<1>. QED
  BY <1>3, <1>4 DEF AddRole, UpdateRole, DeleteRole

\* Every step of a handler does what Work says.
LEMMA HandleWorks ==
  ASSUME TypeOK, NEW c \in Commands, Stage(c), Handle(c)
  PROVE  Work(c)
<1>1. CASE NoRoute(c)
  BY <1>1, RefusalWorks DEF NoRoute, Busy
<1>2. ASSUME NEW u \in Users, RotateAllFail(c, u) PROVE Work(c)
  BY <1>2, RefusalWorks DEF RotateAllFail, Following, Busy
<1>. QED
  BY <1>1, <1>2, AddTokenWorks, RevokeTokenWorks, RotateTokenWorks, RotateAllBeginWorks,
     RotateAllStepWorks, RotateAllEndWorks, RoleWorks DEF Handle, RotateAll

-----------------------------------------------------------------------------
(* The tables stay typed, and commands and handlers in step.               *)

\* What a daemon that does not run has lost, and one that runs cannot lose.
Running ==
  /\ ~up => /\ tokens = <<>> /\ roles = <<>> /\ ~pending
            /\ \A w \in Writers : writer[w] = Idle
            /\ stops > 0 \/ saved = {}
  /\ up => DefaultNames \subseteq DOMAIN roles
  /\ saved \subseteq performed
  /\ \A w \in Writers : writer[w].performed \subseteq performed

Base == TypeOK /\ Running /\ \A c \in Commands : Stage(c)

\* The roles after one was set; UpdateRole's form.
Changed(t, n, r) == [t EXCEPT ![n] = r]

\* A role that is added or changed is in the table.
LEMMA RoleSet ==
  ASSUME NEW t, IsRoles(t), NEW n \in RoleNames, NEW r \in Role, NEW new,
         new = With(t, n, r) \/ (n \in DOMAIN t /\ new = Changed(t, n, r))
  PROVE  /\ IsRoles(new) /\ \A m : m \in DOMAIN new <=> m \in DOMAIN t \/ m = n
         /\ new[n] = r /\ \A m \in DOMAIN t : m # n => new[m] = t[m]
<1>1. t \in [DOMAIN t -> Role]
  BY DEF IsRoles
<1>2. CASE new = With(t, n, r)
  <2>1. DOMAIN new = DOMAIN t \cup {n} /\ new \in [DOMAIN new -> Role]
    BY <1>1, <1>2 DEF With
  <2>2. new[n] = r /\ \A m \in DOMAIN t : m # n => new[m] = t[m]
    BY <1>2 DEF With
  <2>. QED
    BY <2>1, <2>2 DEF IsRoles
<1>3. CASE n \in DOMAIN t /\ new = Changed(t, n, r)
  <2>1. DOMAIN new = DOMAIN t /\ new \in [DOMAIN new -> Role]
    BY <1>1, <1>3 DEF Changed
  <2>2. new[n] = r /\ \A m \in DOMAIN t : m # n => new[m] = t[m]
    BY <1>1, <1>3 DEF Changed
  <2>. QED
    BY <1>3, <2>1, <2>2 DEF IsRoles
<1>. QED
  BY <1>2, <1>3

\* A role that is deleted is not.
LEMMA RoleRemoved ==
  ASSUME NEW t, IsRoles(t), NEW n, NEW new, new = Removed(t, n)
  PROVE  /\ IsRoles(new) /\ \A m : m \in DOMAIN new <=> m \in DOMAIN t /\ m # n
         /\ \A m \in DOMAIN new : new[m] = t[m]
BY DEF Removed, Restrict, IsRoles

\* A default role is a role.
LEMMA DefaultRoleTyped == DefaultRole \in Role
BY ConstantsAssumption DEF DefaultRole, Role

\* Loading keeps a role a role.
LEMMA LoadedRoleTyped == ASSUME NEW r \in Role PROVE LoadedRole(r) \in Role
BY DEF LoadedRole, Role

\* What a start reads is typed, and has the default roles.
LEMMA LoadedTyped ==
  ASSUME TypeOK
  PROVE  /\ IsRoles(LoadedRoles) /\ IsTokens(LoadedTokens)
         /\ DefaultNames \subseteq DOMAIN LoadedRoles
<1>1. DefaultNames \subseteq RoleNames
  BY ConstantsAssumption
<1>4. IsTokens(LoadedTokens)
  BY EmptyTable DEF LoadedTokens, TypeOK
<1>2. CASE rolesFile = Nil
  BY <1>1, <1>2, <1>4, DefaultRoleTyped DEF LoadedRoles, DefaultRoles, IsRoles
<1>3. CASE rolesFile # Nil
  <2>1. rolesFile \in [DOMAIN rolesFile -> Role] /\ DOMAIN rolesFile \subseteq RoleNames
    BY <1>3 DEF TypeOK, IsRoles
  <2>2. \A n \in DOMAIN rolesFile : LoadedRole(rolesFile[n]) \in Role
    BY <2>1, LoadedRoleTyped
  <2>. QED
    BY <1>1, <1>3, <1>4, <2>1, <2>2, DefaultRoleTyped DEF LoadedRoles, IsRoles
<1>. QED
  BY <1>2, <1>3

\* The role that a create or an update makes.
LEMMA MadeRole ==
  ASSUME NEW q \in Requests, NEW r \in Role
  PROVE  /\ q.verb = "create" /\ q.rate \in Rates =>
              [scope |-> q.scope, topK |-> q.topK, rate |-> q.rate] \in Role
         /\ q.verb = "update" /\ q.rate \in Rates \cup {Nil} => Updated(r, q) \in Role
BY RequestsAssumption DEF Role, Updated, Or

\* A handler leaves typed tables, with the default roles in them.
LEMMA HandleTables ==
  ASSUME TypeOK, NEW c \in Commands, Stage(c), Handle(c)
  PROVE  /\ IsTokens(tokens') /\ IsRoles(roles') /\ pending' \in BOOLEAN
         /\ DefaultNames \subseteq DOMAIN roles => DefaultNames \subseteq DOMAIN roles'
<1>. DEFINE q == cmd[c].req
<1>1. IsTokens(tokens) /\ IsRoles(roles) /\ pending \in BOOLEAN
  BY DEF TypeOK
<1>2. ASSUME UNCHANGED tables, pending' \in {pending, TRUE}
      PROVE  /\ IsTokens(tokens') /\ IsRoles(roles') /\ pending' \in BOOLEAN
             /\ DefaultNames \subseteq DOMAIN roles => DefaultNames \subseteq DOMAIN roles'
  BY <1>1, <1>2 DEF tables, IsTokens, IsRoles
<1>3. ASSUME NEW status, Refuse(c, status) PROVE UNCHANGED tables /\ pending' = pending
  BY <1>3 DEF Refuse
<1>4. ASSUME NEW drawn, Succeed(c, drawn) PROVE pending' = TRUE
  BY <1>4 DEF Succeed
<1>5. ASSUME NEW verb, Accepted(c, verb) PROVE q \in Requests /\ q.verb = verb
  BY <1>5, AcceptedHas
<1>6. CASE AddToken(c)
  <2>1. q \in Requests /\ q.verb = "issue"
    BY <1>5, <1>6 DEF AddToken
  <2>2. q.name \in Users /\ q.role \in RoleNames
    BY <2>1, RequestsAssumption
  <2>3. CASE Refuse(c, "refused")
    BY <1>2, <1>3, <2>3
  <2>4. CASE /\ q.name \notin DOMAIN tokens /\ Succeed(c, {<<q.name, c>>}) /\ UNCHANGED roles
             /\ tokens' = Issued(tokens, q.name, c, q.role)
    <3>1. IsTokens(tokens')
      <4>. HIDE DEF q
      <4>. QED
        BY <1>1, <2>2, <2>4, StringsAdded
    <3>. QED
      BY <1>1, <1>4, <2>4, <3>1 DEF IsRoles
  <2>. QED
    BY <1>6, <2>3, <2>4 DEF AddToken, Issued
<1>7. CASE RevokeToken(c)
  <2>1. CASE UNCHANGED <<tables, pending>>
    BY <1>2, <2>1
  <2>2. CASE /\ tokens' = Removed(tokens, Target(q)) /\ Succeed(c, {}) /\ UNCHANGED roles
    <3>1. IsTokens(tokens')
      BY <1>1, <2>2, StringsRemoved
    <3>. QED
      BY <1>1, <1>4, <2>2, <3>1 DEF IsRoles
  <2>. QED
    BY <1>7, <2>1, <2>2 DEF RevokeToken, Removed
<1>8. CASE RotateToken(c)
  <2>1. CASE Refuse(c, "refused")
    BY <1>2, <1>3, <2>1
  <2>2. CASE /\ Target(q) \in DOMAIN tokens /\ tokens' = Replaced(tokens, Target(q), c)
             /\ Succeed(c, {<<Target(q), c>>}) /\ UNCHANGED roles
    <3>1. IsTokens(tokens')
      BY <1>1, <2>2, StringsRotated
    <3>. QED
      BY <1>1, <1>4, <2>2, <3>1 DEF IsRoles
  <2>. QED
    BY <1>8, <2>1, <2>2 DEF RotateToken, Rotated, Replaced
<1>9. ASSUME NEW u \in Users, RotateAllStep(c, u)
      PROVE  /\ IsTokens(tokens') /\ IsRoles(roles') /\ pending' \in BOOLEAN
             /\ DefaultNames \subseteq DOMAIN roles => DefaultNames \subseteq DOMAIN roles'
  <2>1. /\ u \in DOMAIN tokens /\ tokens' = Replaced(tokens, u, c)
        /\ pending' = TRUE /\ UNCHANGED roles
    BY <1>9 DEF RotateAllStep, Rotated, Replaced
  <2>2. IsTokens(tokens')
    BY <1>1, <2>1, StringsRotated
  <2>. QED
    BY <1>1, <2>1, <2>2 DEF IsRoles
<1>10. CASE AddRole(c)
  <2>. DEFINE r == [scope |-> q.scope, topK |-> q.topK, rate |-> q.rate]
  <2>1. q \in Requests /\ q.verb = "create"
    BY <1>5, <1>10 DEF AddRole
  <2>2. CASE Refuse(c, "refused")
    BY <1>2, <1>3, <2>2
  <2>3. CASE /\ q.rate \in Rates /\ roles' = With(roles, q.name, r)
             /\ Succeed(c, {}) /\ UNCHANGED tokens
    <3>1. q.name \in RoleNames
      BY <2>1, RequestsAssumption DEF RoleVerbs
    <3>2. r \in Role
      BY <2>1, <2>3, MadeRole, DefaultRoleTyped
    <3>3. IsRoles(roles') /\ DOMAIN roles \subseteq DOMAIN roles'
      <4>. HIDE DEF r, q
      <4>. QED
        BY <1>1, <2>3, <3>1, <3>2, RoleSet
    <3>. QED
      BY <1>1, <1>4, <2>3, <3>3 DEF IsTokens
  <2>. QED
    BY <1>10, <2>2, <2>3 DEF AddRole
<1>11. CASE UpdateRole(c)
  <2>. DEFINE name == Target(q)
              r == Updated(roles[name], q)
  <2>1. q \in Requests /\ q.verb = "update"
    BY <1>5, <1>11 DEF UpdateRole
  <2>2. CASE Refuse(c, "refused")
    BY <1>2, <1>3, <2>2
  <2>3. CASE /\ q.rate \in Rates \cup {Nil} /\ name \in DOMAIN roles
             /\ roles' = Changed(roles, name, r)
             /\ Succeed(c, {}) /\ UNCHANGED tokens
    <3>1. roles[name] \in Role /\ name \in RoleNames
      BY <1>1, <2>3 DEF IsRoles
    <3>2. r \in Role
      BY <2>1, <2>3, <3>1, MadeRole
    <3>3. IsRoles(roles') /\ DOMAIN roles \subseteq DOMAIN roles'
      <4>. HIDE DEF r, name
      <4>. QED
        BY <1>1, <2>3, <3>1, <3>2, RoleSet
    <3>. QED
      BY <1>1, <1>4, <2>3, <3>3 DEF IsTokens
  <2>. QED
    BY <1>11, <2>2, <2>3 DEF UpdateRole, Changed
<1>12. CASE DeleteRole(c)
  <2>. DEFINE name == Target(q)
  <2>1. CASE Refuse(c, "refused")
    BY <1>2, <1>3, <2>1
  <2>2. CASE /\ name \notin DefaultNames /\ roles' = Removed(roles, name)
             /\ Succeed(c, {}) /\ UNCHANGED tokens
    <3>1. IsRoles(roles') /\ \A m \in DOMAIN roles : m # name => m \in DOMAIN roles'
      <4>. HIDE DEF name
      <4>. QED
        BY <1>1, <2>2, RoleRemoved
    <3>. QED
      BY <1>1, <1>4, <2>2, <3>1 DEF IsTokens
  <2>. QED
    BY <1>12, <2>1, <2>2 DEF DeleteRole, Removed
<1>13. CASE NoRoute(c)
  BY <1>2, <1>3, <1>13 DEF NoRoute
<1>14. CASE RotateAllBegin(c) \/ RotateAllEnd(c)
  BY <1>2, <1>14 DEF RotateAllBegin, RotateAllEnd, persist
<1>15. ASSUME NEW u \in Users, RotateAllFail(c, u)
       PROVE  UNCHANGED <<tables, pending>>
  BY <1>3, <1>15 DEF RotateAllFail
<1>. QED
  BY <1>2, <1>6, <1>7, <1>8, <1>9, <1>10, <1>11, <1>12, <1>13, <1>14, <1>15
     DEF Handle, RotateAll

\* A writer that has nothing to write.
LEMMA IdleTyped == IsCopy(Idle) /\ Idle.tokens = <<>> /\ Idle.roles = <<>> /\ Idle.performed = {}
BY EmptyTable DEF Idle, IsCopy

\* What the steps of a writer do to the copies.
LEMMA CopyTaken ==
  ASSUME TypeOK, NEW w \in Writers, TakeCopy(w)
  PROVE  /\ writer' = [v \in Writers |-> writer'[v]]
         /\ \A v \in Writers : v # w => writer'[v] = writer[v]
         /\ writer'[w].next = "roles" /\ writer'[w].tokens = tokens
         /\ writer'[w].roles = roles /\ writer'[w].performed = performed
         /\ IsCopy(writer'[w])
<1>. DEFINE k == [next |-> "roles", roles |-> roles, tokens |-> tokens,
                  performed |-> performed]
<1>1. writer' = [writer EXCEPT ![w] = k] /\ DOMAIN writer = Writers
  BY DEF TakeCopy, TypeOK
<1>2. IsCopy(k)
  BY DEF TypeOK, IsCopy
<1>3. k.next = "roles" /\ k.tokens = tokens /\ k.roles = roles /\ k.performed = performed
  OBVIOUS
<1>. HIDE DEF k
<1>. QED
  BY <1>1, <1>2, <1>3

LEMMA CopyMovesOn ==
  ASSUME TypeOK, NEW w \in Writers, WriteRoles(w)
  PROVE  /\ writer' = [v \in Writers |-> writer'[v]]
         /\ \A v \in Writers : v # w => writer'[v] = writer[v]
         /\ writer[w].next = "roles"
         /\ writer'[w].next = "tokens" /\ writer'[w].tokens = writer[w].tokens
         /\ writer'[w].roles = writer[w].roles
         /\ writer'[w].performed = writer[w].performed
         /\ IsCopy(writer'[w])
<1>. DEFINE k == [writer[w] EXCEPT !.next = "tokens"]
<1>1. writer' = [writer EXCEPT ![w] = k] /\ DOMAIN writer = Writers /\ writer[w].next = "roles"
  BY DEF WriteRoles, TypeOK
<1>2. IsCopy(writer[w])
  BY DEF TypeOK
<1>3. /\ IsCopy(k) /\ k.next = "tokens" /\ k.tokens = writer[w].tokens
      /\ k.roles = writer[w].roles /\ k.performed = writer[w].performed
  BY <1>2 DEF IsCopy
<1>. HIDE DEF k
<1>. QED
  BY <1>1, <1>3

LEMMA CopyIsDone ==
  ASSUME TypeOK, NEW w \in Writers, WriteTokens(w)
  PROVE  /\ writer' = [v \in Writers |-> writer'[v]]
         /\ \A v \in Writers : v # w => writer'[v] = writer[v]
         /\ writer[w].next = "tokens" /\ writer'[w] = Idle
BY DEF WriteTokens, TypeOK

\* The commands that are taken from a set for the file that was written.
LEMMA OfSubset ==
  ASSUME NEW P, NEW verbs
  PROVE  Of(P, verbs) \subseteq P /\ \A c \in Of(P, verbs) : cmd[c].req.verb \in verbs
BY DEF Of

\* Initially.
LEMMA InitBase == Init => Base
<1>. SUFFICES ASSUME Init PROVE Base
  OBVIOUS
<1>1. Unsent \in CommandState /\ NoHandler \in HandlerState
  BY DEF Unsent, CommandState, NoHandler, HandlerState
<1>2. IsRoles(roles) /\ IsTokens(tokens)
  BY EmptyTable DEF Init
<1>3. rolesFile # Nil => IsRoles(rolesFile)
  <2>. SUFFICES ASSUME rolesFile = [n \in RoleNames |-> DefaultRole] PROVE IsRoles(rolesFile)
    BY DEF Init
  <2>. QED
    BY DefaultRoleTyped DEF IsRoles
<1>4. tokensFile # Nil => IsTokens(tokensFile)
  <2>. SUFFICES ASSUME tokensFile = [u \in Users |-> [by |-> Nil, role |-> FirstRole[u]]]
                PROVE  IsTokens(tokensFile)
    BY DEF Init
  <2>1. \A u \in Users : [by |-> Nil, role |-> FirstRole[u]] \in Token
    BY ConstantsAssumption DEF Token, Drawers
  <2>. QED
    BY <2>1 DEF IsTokens
<1>5. stops \in 0..MaxStops
  BY ConstantsAssumption DEF Init
<1>6. writer = [w \in Writers |-> writer[w]] /\ \A w \in Writers : IsCopy(writer[w])
  BY IdleTyped DEF Init
<1>7. TypeOK
  BY <1>1, <1>2, <1>3, <1>4, <1>5, <1>6 DEF Init, TypeOK
<1>8. Running
  BY IdleTyped DEF Init, Running
<1>9. \A c \in Commands : Stage(c)
  BY DEF Init, Stage, Unsent, NoHandler, Sent, Busy
<1>. QED
  BY <1>7, <1>8, <1>9 DEF Base

\* The writes change the tables nowhere but in the files.
LEMMA WriteChanges ==
  ASSUME TypeOK, Running, NEW w \in Writers, TakeCopy(w) \/ WriteRoles(w) \/ WriteTokens(w)
  PROVE  /\ UNCHANGED <<up, roles, tokens, cmd, handler, stops, performed>> /\ up
         /\ pending' \in BOOLEAN
<1>1. writer[w].next # "none" \/ pending
  BY DEF TakeCopy, WriteRoles, WriteTokens
<1>2. up
  BY <1>1 DEF Running, Idle
<1>. QED
  BY <1>2 DEF TakeCopy, WriteRoles, WriteTokens, tables, TypeOK

\* A start.
LEMMA StartBase == ASSUME Base, Start PROVE Base'
<1>1. TypeOK /\ Running
  BY DEF Base
<1>2. UNCHANGED <<writer, rolesFile, tokensFile, cmd, handler, stops, saved, orderly>>
      /\ ~up /\ up' = TRUE /\ roles' = LoadedRoles /\ tokens' = LoadedTokens
      /\ performed' = saved /\ pending' \in BOOLEAN
  BY DEF Start, files
<1>3. IsRoles(roles') /\ IsTokens(tokens') /\ DefaultNames \subseteq DOMAIN roles'
  BY <1>1, <1>2, LoadedTyped DEF IsRoles, IsTokens
<1>4. TypeOK'
  BY <1>1, <1>2, <1>3 DEF TypeOK, IsRoles, IsTokens, IsCopy
<1>5. \A w \in Writers : writer'[w].performed = {}
  BY <1>1, <1>2, IdleTyped DEF Running
<1>6. Running'
  BY <1>1, <1>2, <1>3, <1>5 DEF Running
<1>7. ASSUME NEW c \in Commands PROVE Stage(c)'
  <2>1. Stage(c)
    BY DEF Base
  <2>. QED
    BY <1>1, <1>2, <2>1 DEF Stage, Sent, Busy, Running
<1>. QED
  BY <1>4, <1>6, <1>7 DEF Base

\* A step of a writer leaves commands that are in the copies and in the files.
LEMMA WriteSaves ==
  ASSUME TypeOK, Running, NEW w \in Writers, TakeCopy(w) \/ WriteRoles(w) \/ WriteTokens(w)
  PROVE  /\ saved' \subseteq performed /\ orderly' \in BOOLEAN
         /\ rolesFile' = rolesFile \/ rolesFile' = writer[w].roles
         /\ tokensFile' = tokensFile \/ tokensFile' = writer[w].tokens
<1>1. saved \subseteq performed /\ writer[w].performed \subseteq performed
  BY DEF Running
<1>2. CASE TakeCopy(w)
  BY <1>1, <1>2 DEF TakeCopy, files, TypeOK
<1>3. CASE WriteRoles(w)
  <2>1. saved' = saved \/ saved' = Of(saved, TokenVerbs) \cup Of(writer[w].performed, RoleVerbs)
    BY <1>3 DEF WriteRoles
  <2>2. saved' \subseteq performed
    BY <1>1, <2>1, OfSubset
  <2>. QED
    BY <1>3, <2>2 DEF WriteRoles, TypeOK
<1>4. CASE WriteTokens(w)
  <2>1. saved' = saved \/ saved' = Of(saved, RoleVerbs) \cup Of(writer[w].performed, TokenVerbs)
    BY <1>4 DEF WriteTokens
  <2>2. saved' \subseteq performed
    BY <1>1, <2>1, OfSubset
  <2>. QED
    BY <1>4, <2>2 DEF WriteTokens, TypeOK
<1>. QED
  BY <1>2, <1>3, <1>4

\* A step of a writer.
LEMMA WriteBase ==
  ASSUME Base, NEW w \in Writers, TakeCopy(w) \/ WriteRoles(w) \/ WriteTokens(w)
  PROVE  Base'
<1>1. TypeOK /\ Running
  BY DEF Base
<1>2. UNCHANGED <<up, roles, tokens, cmd, handler, stops, performed>> /\ up /\ pending' \in BOOLEAN
  BY <1>1, WriteChanges
<1>3. /\ saved' \subseteq performed /\ orderly' \in BOOLEAN
      /\ rolesFile' = rolesFile \/ rolesFile' = writer[w].roles
      /\ tokensFile' = tokensFile \/ tokensFile' = writer[w].tokens
  BY <1>1, WriteSaves
<1>4. /\ writer' = [v \in Writers |-> writer'[v]]
      /\ \A v \in Writers : v # w => writer'[v] = writer[v]
      /\ IsCopy(writer'[w]) /\ writer'[w].performed \subseteq performed
  <2>1. writer[w].performed \subseteq performed
    BY <1>1 DEF Running
  <2>. QED
    BY <1>1, <2>1, CopyTaken, CopyMovesOn, CopyIsDone, IdleTyped
<1>5. IsCopy(writer[w]) /\ \A v \in Writers : IsCopy(writer'[v])
  BY <1>1, <1>4 DEF TypeOK
<1>6. (rolesFile' # Nil => IsRoles(rolesFile')) /\ (tokensFile' # Nil => IsTokens(tokensFile'))
  BY <1>1, <1>3, <1>5 DEF TypeOK, IsCopy
<1>7. saved' \subseteq Commands
  BY <1>1, <1>3 DEF TypeOK
<1>8. TypeOK'
  BY <1>1, <1>2, <1>3, <1>4, <1>5, <1>6, <1>7 DEF TypeOK, IsRoles, IsTokens, IsCopy
<1>9. \A v \in Writers : writer'[v].performed \subseteq performed
  BY <1>1, <1>4 DEF Running
<1>10. Running'
  BY <1>1, <1>2, <1>3, <1>9 DEF Running
<1>11. ASSUME NEW c \in Commands PROVE Stage(c)'
  <2>1. Stage(c)
    BY DEF Base
  <2>. QED
    BY <1>2, <2>1 DEF Stage, Sent, Busy
<1>. QED
  BY <1>8, <1>10, <1>11 DEF Base

\* What a command is after an error of the transport, or one the handler answered.
LEMMA EndedTyped ==
  ASSUME TypeOK, NEW c \in Commands, NEW outcome \in Outcomes
  PROVE  LET r == EndedInError(c, outcome)
         IN  /\ r \in CommandState /\ r.pc = "ended" /\ r.outcome = outcome
             /\ r.before = {} /\ r.shown = cmd[c].shown /\ r.req = cmd[c].req
BY DEF TypeOK, CommandState, EndedInError

\* A stop.
LEMMA StopBase == ASSUME Base, Stop PROVE Base'
<1>1. TypeOK /\ Running
  BY DEF Base
<1>2. /\ UNCHANGED <<rolesFile, tokensFile, performed, saved, orderly>>
      /\ stops < MaxStops /\ stops' = stops + 1 /\ up' = FALSE
      /\ roles' = <<>> /\ tokens' = <<>> /\ pending' = FALSE
      /\ writer' = [w \in Writers |-> Idle]
      /\ handler' = [c \in Commands |-> NoHandler]
  BY DEF Stop, files, history
<1>3. ASSUME NEW c \in Commands
      PROVE  /\ cmd'[c] \in CommandState
             /\ cmd[c].pc # "waiting" => cmd'[c] = cmd[c]
             /\ cmd[c].pc = "waiting" =>
                  /\ cmd'[c].pc = "ended" /\ cmd'[c].outcome = "failed"
                  /\ cmd'[c].req = cmd[c].req /\ cmd'[c].shown = cmd[c].shown
  <2>1. cmd'[c] = IF cmd[c].pc = "waiting" THEN EndedInError(c, "failed") ELSE cmd[c]
    BY DEF Stop
  <2>2. "failed" \in Outcomes
    BY DEF Outcomes
  <2>3. cmd[c] \in CommandState
    BY <1>1 DEF TypeOK
  <2>. QED
    BY <1>1, <2>1, <2>2, <2>3, EndedTyped
<1>4. cmd' \in [Commands -> CommandState]
  BY <1>3 DEF Stop
<1>5. NoHandler \in HandlerState /\ NoHandler.pc = "none" /\ NoHandler.drawn = {}
  BY DEF NoHandler, HandlerState
<1>6. handler' \in [Commands -> HandlerState]
  BY <1>2, <1>5
<1>7. stops' \in 0..MaxStops /\ stops' > 0
  BY <1>1, <1>2, ConstantsAssumption DEF TypeOK
<1>8. TypeOK'
  BY <1>1, <1>2, <1>4, <1>6, <1>7, EmptyTable, IdleTyped DEF TypeOK, IsRoles, IsTokens, IsCopy
<1>9. Running'
  BY <1>1, <1>2, <1>7, IdleTyped DEF Running
<1>10. ASSUME NEW c \in Commands PROVE Stage(c)'
  <2>1. Stage(c)
    BY DEF Base
  <2>2. handler'[c].pc = "none" /\ handler'[c].drawn = {}
    BY <1>2, <1>5
  <2>. QED
    BY <1>2, <1>3, <2>1, <2>2 DEF Stage, Sent, Busy
<1>. QED
  BY <1>8, <1>9, <1>10 DEF Base

\* A client's step changes its own command, and its handler at most.
LEMMA ClientBase ==
  ASSUME Base, NEW c \in Commands, NEW r \in CommandState, NEW h \in HandlerState,
         cmd' = [cmd EXCEPT ![c] = r], handler' = [handler EXCEPT ![c] = h],
         UNCHANGED <<up, tables, persist, files, stops, history>>,
         Stage(c)'
  PROVE  Base'
<1>1. UNCHANGED <<up, roles, tokens, pending, writer, rolesFile, tokensFile, stops, performed,
                  saved, orderly>>
  BY DEF tables, persist, files, history
<1>2. TypeOK'
  BY <1>1 DEF Base, TypeOK, IsRoles, IsTokens, IsCopy
<1>3. Running'
  BY <1>1 DEF Base, Running
<1>4. ASSUME NEW d \in Commands PROVE Stage(d)'
  <2>1. CASE d = c
    BY <2>1
  <2>2. CASE d # c
    <3>1. cmd'[d] = cmd[d] /\ handler'[d] = handler[d]
      BY <2>2 DEF Base, TypeOK
    <3>. QED
      BY <1>1, <3>1 DEF Base, Stage, Sent, Busy
  <2>. QED
    BY <2>1, <2>2
<1>. QED
  BY <1>2, <1>3, <1>4 DEF Base

\* A request is sent, or refused on the spot.
LEMMA SendBase ==
  ASSUME Base, NEW c \in Commands, NEW q \in Requests, Send(c, q)
  PROVE  Base'
<1>1. TypeOK /\ Stage(c)
  BY DEF Base
<1>2. /\ cmd[c] \in CommandState /\ cmd[c].pc = "unsent" /\ cmd[c] = Unsent
      /\ handler[c] \in HandlerState /\ handler[c].pc = "none" /\ handler[c].drawn = {}
      /\ c \notin performed
      /\ cmd \in [Commands -> CommandState] /\ handler \in [Commands -> HandlerState]
  BY <1>1 DEF Send, Stage, Sent, TypeOK
<1>3. UNCHANGED <<up, tables, persist, files, stops, history>>
  BY DEF Send
<1>4. CASE ~RefusedLocally(q) /\ up
  <2>. DEFINE old == {s \in Valid : Concerns(q, s[1])}
              r == [cmd[c] EXCEPT !.pc = "waiting", !.req = q, !.before = old]
              h == [handler[c] EXCEPT !.pc = "accepted"]
  <2>1. old \subseteq Strung
    BY <1>1, StringsTyped DEF TypeOK, Valid
  <2>2. cmd' = [cmd EXCEPT ![c] = r] /\ handler' = [handler EXCEPT ![c] = h]
    BY <1>4 DEF Send
  <2>. HIDE DEF old
  <2>3. r \in CommandState /\ r.pc = "waiting" /\ r.req = q /\ r.outcome = cmd[c].outcome
        /\ r.shown = cmd[c].shown
    BY <1>2, <2>1 DEF CommandState
  <2>4. h \in HandlerState /\ h.pc = "accepted" /\ h.drawn = {}
    BY <1>2 DEF HandlerState
  <2>. HIDE DEF r, h
  <2>5. cmd'[c] = r /\ handler'[c] = h /\ up' /\ performed' = performed
    BY <1>2, <1>3, <1>4, <2>2 DEF history
  <2>6. cmd[c].outcome = Nil /\ cmd[c].shown = {}
    BY <1>2 DEF Unsent
  <2>7. Stage(c)'
    BY <1>2, <2>3, <2>4, <2>5, <2>6 DEF Stage, Sent, Busy
  <2>. QED
    BY <1>3, <2>2, <2>3, <2>4, <2>7, ClientBase
<1>5. CASE RefusedLocally(q) \/ ~up
  <2>. DEFINE outcome == IF RefusedLocally(q) THEN "refused" ELSE "failed"
              r == [cmd[c] EXCEPT !.pc = "ended", !.req = q, !.outcome = outcome]
  <2>1. cmd' = [cmd EXCEPT ![c] = r] /\ handler' = handler
    BY <1>5 DEF Send
  <2>2. outcome \in Outcomes
    BY DEF Outcomes
  <2>. HIDE DEF outcome
  <2>3. r \in CommandState /\ r.pc = "ended" /\ r.req = q /\ r.shown = cmd[c].shown
    BY <1>2, <2>2 DEF CommandState
  <2>. HIDE DEF r
  <2>4. cmd'[c] = r /\ performed' = performed
    BY <1>2, <1>3, <2>1 DEF history
  <2>5. handler' = [handler EXCEPT ![c] = handler[c]] /\ handler'[c] = handler[c]
    BY <1>2, <2>1
  <2>6. Stage(c)'
    BY <1>2, <2>3, <2>4, <2>5 DEF Stage, Sent, Busy
  <2>. QED
    BY <1>2, <1>3, <2>1, <2>3, <2>5, <2>6, ClientBase
<1>. QED
  BY <1>4, <1>5 DEF Send

\* An answer arrives: the command after it.
LEMMA DeliveredState ==
  ASSUME TypeOK, NEW c \in Commands, Stage(c), Deliver(c)
  PROVE  \E r \in CommandState :
           /\ cmd' = [cmd EXCEPT ![c] = r] /\ r.pc = "ended" /\ r.req = cmd[c].req
           /\ r.before \subseteq cmd[c].before
           /\ \/ /\ handler[c].status \in {"ok", "notFound"}
                 /\ r.outcome = handler[c].status /\ r.shown = handler[c].drawn
              \/ r.outcome \notin {"ok", "notFound"} /\ r.shown = {}
<1>1. cmd[c] \in CommandState /\ handler[c] \in HandlerState /\ cmd[c].shown = {}
  BY DEF TypeOK, Stage, Deliver
<1>2. CASE handler[c].status \in {"ok", "notFound"}
  <2>. DEFINE r == [cmd[c] EXCEPT !.pc = "ended", !.outcome = handler[c].status,
                                  !.shown = handler[c].drawn]
  <2>1. cmd' = [cmd EXCEPT ![c] = r]
    BY <1>2 DEF Deliver
  <2>2. /\ r \in CommandState /\ r.pc = "ended" /\ r.req = cmd[c].req
        /\ r.before = cmd[c].before /\ r.outcome = handler[c].status
        /\ r.shown = handler[c].drawn
    BY <1>1 DEF CommandState, HandlerState
  <2>. HIDE DEF r
  <2>. QED
    BY <1>2, <2>1, <2>2
<1>3. CASE handler[c].status \notin {"ok", "notFound"}
  <2>. DEFINE r == EndedInError(c, handler[c].status)
  <2>1. cmd' = [cmd EXCEPT ![c] = r]
    BY <1>3 DEF Deliver
  <2>2. /\ r \in CommandState /\ r.pc = "ended" /\ r.req = cmd[c].req
        /\ r.before = {} /\ r.outcome = handler[c].status /\ r.shown = cmd[c].shown
    BY <1>1 DEF CommandState, HandlerState, EndedInError
  <2>. HIDE DEF r
  <2>. QED
    BY <1>1, <1>3, <2>1, <2>2
<1>. QED
  BY <1>2, <1>3

\* The other steps of a client.
LEMMA HearBase ==
  ASSUME Base, NEW c \in Commands, Deliver(c) \/ GiveUp(c)
  PROVE  Base'
<1>1. TypeOK /\ Stage(c)
  BY DEF Base
<1>2. /\ cmd \in [Commands -> CommandState] /\ handler \in [Commands -> HandlerState]
      /\ handler[c] \in HandlerState
  BY <1>1 DEF TypeOK
<1>3. UNCHANGED <<up, tables, persist, files, stops, history>>
  BY DEF Deliver, GiveUp
<1>4. NoHandler \in HandlerState /\ NoHandler.pc = "none" /\ NoHandler.drawn = {}
  BY DEF NoHandler, HandlerState
<1>5. CASE Deliver(c)
  <2>1. PICK r \in CommandState :
          cmd' = [cmd EXCEPT ![c] = r] /\ r.pc = "ended" /\ r.req = cmd[c].req
    BY <1>1, <1>5, DeliveredState
  <2>2. handler' = [handler EXCEPT ![c] = NoHandler] /\ Sent(c)
    BY <1>1, <1>5 DEF Deliver, Stage
  <2>3. cmd'[c] = r /\ handler'[c] = NoHandler
    BY <1>2, <2>1, <2>2
  <2>4. Stage(c)'
    BY <1>1, <1>4, <2>1, <2>2, <2>3 DEF Stage, Sent, Busy
  <2>. QED
    BY <1>3, <1>4, <2>1, <2>2, <2>4, ClientBase
<1>6. CASE GiveUp(c)
  <2>. DEFINE r == EndedInError(c, "failed")
              h == Unheard(c)
  <2>1. cmd' = [cmd EXCEPT ![c] = r] /\ handler' = [handler EXCEPT ![c] = h]
        /\ cmd[c].pc = "waiting"
    BY <1>6 DEF GiveUp
  <2>2. /\ r \in CommandState /\ r.pc = "ended" /\ r.outcome = "failed"
        /\ r.shown = cmd[c].shown /\ r.req = cmd[c].req
    BY <1>1, EndedTyped DEF Outcomes
  <2>3. h \in HandlerState /\ \/ h = handler[c] /\ h.pc # "answering"
                              \/ h.pc = "none" /\ h.drawn = {}
    BY <1>2, <1>4 DEF Unheard
  <2>. HIDE DEF r, h
  <2>4. cmd'[c] = r /\ handler'[c] = h /\ up' = up /\ performed' = performed
    BY <1>2, <1>3, <2>1 DEF history
  <2>5. Stage(c)'
    BY <1>1, <2>1, <2>2, <2>3, <2>4 DEF Stage, Sent, Busy
  <2>. QED
    BY <1>3, <2>1, <2>2, <2>3, <2>5, ClientBase
<1>. QED
  BY <1>5, <1>6

\* A step of a handler.
LEMMA HandleBase == ASSUME Base, NEW c \in Commands, Handle(c) PROVE Base'
<1>1. TypeOK /\ Running /\ Stage(c)
  BY DEF Base
<1>2. PICK h \in HandlerState, D \in SUBSET (Users \X {c}) :
        Works(c, h, D) /\ PutsInForce(c, h, D)
  BY <1>1, HandleWorks DEF Work
<1>3. /\ Busy(c) /\ handler' = [handler EXCEPT ![c] = h]
      /\ UNCHANGED <<up, writer, rolesFile, tokensFile, cmd, stops, saved, orderly>>
      /\ \/ performed' = performed
         \/ performed' = performed \cup {c} /\ h.pc # "rotating"
  BY <1>2 DEF Works, files
<1>4. \/ h.pc = "rotating" /\ cmd[c].req.verb = "rotateAll"
      \/ h.pc = "answering" /\ cmd[c].pc = "waiting"
      \/ h.pc = "none" /\ h.drawn = {} /\ cmd[c].pc # "waiting"
  BY <1>2 DEF Works, NoHandler
<1>5. IsTokens(tokens') /\ IsRoles(roles') /\ pending' \in BOOLEAN
      /\ (DefaultNames \subseteq DOMAIN roles => DefaultNames \subseteq DOMAIN roles')
  BY <1>1, HandleTables
<1>6. handler[c].pc # "none" /\ up
  BY <1>1, <1>3 DEF Busy, Stage
<1>7. TypeOK'
  BY <1>1, <1>3, <1>5 DEF TypeOK, IsRoles, IsTokens, IsCopy
<1>8. Running'
  BY <1>1, <1>3, <1>5, <1>6 DEF Running
<1>9. handler'[c] = h /\ \A d \in Commands : d # c => handler'[d] = handler[d]
  BY <1>1, <1>3 DEF TypeOK
<1>10. ASSUME NEW d \in Commands PROVE Stage(d)'
  <2>1. Stage(d)
    BY DEF Base
  <2>2. CASE d = c
    BY <1>1, <1>3, <1>4, <1>6, <1>9, <2>2 DEF Stage, Sent, Busy
  <2>3. CASE d # c
    BY <1>3, <1>9, <2>1, <2>3 DEF Stage, Sent, Busy
  <2>. QED
    BY <2>2, <2>3
<1>. QED
  BY <1>7, <1>8, <1>10 DEF Base

\* Every step.
LEMMA NextBase == Base /\ [Next]_vars => Base'
<1>. SUFFICES ASSUME Base, [Next]_vars PROVE Base'
  OBVIOUS
<1>1. CASE UNCHANGED vars
  BY <1>1 DEF vars, tables, persist, files, history, Base, TypeOK, Running, Stage, Sent, Busy,
              IsRoles, IsTokens, IsCopy
<1>. QED
  BY <1>1, StartBase, WriteBase, StopBase, SendBase, HearBase, HandleBase DEF Next

\* The base invariant holds throughout.
LEMMA Based == Spec => []Base
BY InitBase, NextBase, PTL DEF Spec

\* The tables, the files, the commands and their handlers stay typed: whatever the
\* commands ask for, and whenever the daemon stops.
THEOREM Typing == Spec => []TypeOK
<1>1. Base => TypeOK
  BY DEF Base
<1>. QED
  BY <1>1, Based, PTL

-----------------------------------------------------------------------------
(* A string is drawn once, and its command knows of it.                    *)

\* A string that its command has drawn and will not draw again; while the command
\* may still succeed, it is among those that will be shown.
Known(s) ==
  s[2] # Nil =>
    /\ s[2] \in Commands /\ Sent(s[2])
    /\ handler[s[2]].pc # "accepted"
    /\ handler[s[2]].pc = "rotating" => s[1] \notin handler[s[2]].todo
    /\ handler[s[2]].pc = "rotating"
         \/ (handler[s[2]].pc = "answering" /\ handler[s[2]].status = "ok")
       => s \in handler[s[2]].drawn
    /\ cmd[s[2]].outcome = "ok" => s \in cmd[s[2]].shown

\* Strings that are valid, that may become valid again, or that a command is to see gone.
Seen(s) ==
  \/ s \in Valid
  \/ s \in Strings(LoadedTokens)
  \/ \E w \in Writers : s \in Strings(writer[w].tokens)
  \/ \E c \in Commands : s \in cmd[c].before

AllKnown == \A s : Seen(s) => Known(s)

\* The facts about a handler's step that what follows keeps needing.
LEMMA WorkFacts ==
  ASSUME Base, NEW c \in Commands, Handle(c)
  PROVE  \E h \in HandlerState, D \in SUBSET (Users \X {c}) :
           /\ Works(c, h, D) /\ DrawsOnce(c, h, D) /\ PutsInForce(c, h, D)
           /\ RemovesOld(c, h, D)
           /\ up /\ Sent(c) /\ c \notin performed
           /\ cmd[c].outcome \notin {"ok", "notFound"} /\ cmd[c].shown = {}
           /\ handler'[c] = h /\ \A d \in Commands : d # c => handler'[d] = handler[d]
           /\ h.pc \in {"none", "rotating", "answering"}
<1>1. TypeOK /\ Stage(c)
  BY DEF Base
<1>2. PICK h \in HandlerState, D \in SUBSET (Users \X {c}) :
        Works(c, h, D) /\ DrawsOnce(c, h, D) /\ PutsInForce(c, h, D) /\ RemovesOld(c, h, D)
  BY <1>1, HandleWorks DEF Work
<1>3. handler[c].pc \in {"accepted", "rotating"} /\ handler' = [handler EXCEPT ![c] = h]
      /\ h.pc \in {"none", "rotating", "answering"}
  BY <1>2 DEF Works, Busy, NoHandler
<1>4. Nil \notin {"ok", "notFound"}
  BY ConstantsAssumption DEF Outcomes
<1>5. up /\ Sent(c) /\ c \notin performed /\ cmd[c].outcome \notin {"ok", "notFound"}
      /\ cmd[c].shown = {}
  BY <1>1, <1>3, <1>4 DEF Stage, Busy
<1>6. handler'[c] = h /\ \A d \in Commands : d # c => handler'[d] = handler[d]
  BY <1>1, <1>3 DEF TypeOK
<1>. QED
  BY <1>2, <1>3, <1>5, <1>6

\* A stop ends what waits, and all handlers.
LEMMA StopFacts ==
  ASSUME Base, Stop, NEW c \in Commands
  PROVE  /\ handler'[c].pc = "none" /\ handler'[c].drawn = {}
         /\ Sent(c) => Sent(c)'
         /\ cmd'[c].req = cmd[c].req /\ cmd'[c].shown = cmd[c].shown
         /\ cmd'[c].before \subseteq cmd[c].before
         /\ \/ cmd'[c].outcome = cmd[c].outcome
            \/ cmd'[c].outcome = "failed"
<1>1. handler'[c] = NoHandler
  BY DEF Stop
<1>2. cmd'[c] = IF cmd[c].pc = "waiting" THEN EndedInError(c, "failed") ELSE cmd[c]
  BY DEF Stop
<1>3. "failed" \in Outcomes /\ TypeOK
  BY DEF Outcomes, Base
<1>. QED
  BY <1>1, <1>2, <1>3, EndedTyped DEF NoHandler, Sent

\* A client's step leaves other commands alone.
LEMMA ClientFacts ==
  ASSUME Base, NEW c \in Commands, NEW q \in Requests,
         Send(c, q) \/ Deliver(c) \/ GiveUp(c)
  PROVE  /\ UNCHANGED <<up, roles, tokens, pending, writer, rolesFile, tokensFile, stops,
                        performed, saved, orderly>>
         /\ \A d \in Commands : d # c => cmd'[d] = cmd[d] /\ handler'[d] = handler[d]
BY DEF Base, TypeOK, Send, Deliver, GiveUp, tables, persist, files, history

\* A request that is sent looks at what is valid.
LEMMA SendFacts ==
  ASSUME Base, NEW c \in Commands, NEW q \in Requests, Send(c, q)
  PROVE  /\ ~Sent(c) /\ c \notin performed /\ cmd[c].shown = {} /\ handler[c].drawn = {}
         /\ Sent(c)' /\ cmd'[c].req = q /\ cmd'[c].shown = {}
         /\ handler'[c].drawn = {} /\ handler'[c].pc # "rotating"
         /\ \A s \in cmd'[c].before : s \in Valid /\ Concerns(q, s[1])
<1>1. TypeOK /\ Stage(c) /\ cmd[c].pc = "unsent"
  BY DEF Base, Send
<1>2. cmd[c] \in CommandState /\ handler[c] \in HandlerState /\ cmd[c] = Unsent
      /\ handler[c].pc = "none" /\ handler[c].drawn = {} /\ ~Sent(c) /\ c \notin performed
      /\ cmd \in [Commands -> CommandState] /\ handler \in [Commands -> HandlerState]
  BY <1>1 DEF TypeOK, Stage, Sent
<1>3. cmd[c].shown = {} /\ cmd[c].before = {}
  BY <1>2 DEF Unsent
<1>4. CASE ~RefusedLocally(q) /\ up
  <2>. DEFINE old == {s \in Valid : Concerns(q, s[1])}
  <2>1. /\ cmd' = [cmd EXCEPT ![c] = [cmd[c] EXCEPT !.pc = "waiting", !.req = q,
                                                   !.before = old]]
        /\ handler' = [handler EXCEPT ![c] = [handler[c] EXCEPT !.pc = "accepted"]]
    BY <1>4 DEF Send
  <2>2. \A s \in old : s \in Valid /\ Concerns(q, s[1])
    OBVIOUS
  <2>. HIDE DEF old
  <2>3. cmd'[c].pc = "waiting" /\ cmd'[c].req = q /\ cmd'[c].before = old
        /\ cmd'[c].shown = cmd[c].shown
    BY <1>2, <2>1 DEF CommandState
  <2>4. handler'[c].drawn = {} /\ handler'[c].pc = "accepted"
    BY <1>2, <2>1 DEF HandlerState
  <2>. QED
    BY <1>2, <1>3, <2>2, <2>3, <2>4 DEF Sent
<1>5. CASE RefusedLocally(q) \/ ~up
  <2>. DEFINE outcome == IF RefusedLocally(q) THEN "refused" ELSE "failed"
  <2>1. /\ cmd' = [cmd EXCEPT ![c] = [cmd[c] EXCEPT !.pc = "ended", !.req = q,
                                                   !.outcome = outcome]]
        /\ handler' = handler
    BY <1>5 DEF Send
  <2>. HIDE DEF outcome
  <2>2. cmd'[c].pc = "ended" /\ cmd'[c].req = q /\ cmd'[c].before = cmd[c].before
        /\ cmd'[c].shown = cmd[c].shown
    BY <1>2, <2>1 DEF CommandState
  <2>. QED
    BY <1>2, <1>3, <2>1, <2>2 DEF Sent
<1>. QED
  BY <1>4, <1>5 DEF Send

\* An answer that arrives, and a client that gives up.
LEMMA HearFacts ==
  ASSUME Base, NEW c \in Commands, Deliver(c) \/ GiveUp(c)
  PROVE  /\ Sent(c) /\ Sent(c)' /\ cmd'[c].req = cmd[c].req
         /\ cmd'[c].before \subseteq cmd[c].before
         /\ cmd'[c].shown \subseteq handler[c].drawn
         /\ handler'[c].drawn \subseteq handler[c].drawn
         /\ handler'[c].pc = "none" \/ (handler'[c] = handler[c] /\ handler[c].pc # "answering")
         /\ cmd'[c].outcome \in {"ok", "notFound"} =>
              /\ handler[c].pc = "answering" /\ cmd'[c].outcome = handler[c].status
              /\ cmd'[c].shown = handler[c].drawn
<1>1. TypeOK /\ Stage(c)
  BY DEF Base
<1>2. cmd \in [Commands -> CommandState] /\ handler \in [Commands -> HandlerState]
      /\ NoHandler.pc = "none" /\ NoHandler.drawn = {}
  BY <1>1 DEF TypeOK, NoHandler
<1>3. CASE Deliver(c)
  <2>1. PICK r \in CommandState :
           /\ cmd' = [cmd EXCEPT ![c] = r] /\ r.pc = "ended" /\ r.req = cmd[c].req
           /\ r.before \subseteq cmd[c].before
           /\ \/ /\ handler[c].status \in {"ok", "notFound"}
                 /\ r.outcome = handler[c].status /\ r.shown = handler[c].drawn
              \/ r.outcome \notin {"ok", "notFound"} /\ r.shown = {}
    BY <1>1, <1>3, DeliveredState
  <2>2. cmd'[c] = r /\ handler'[c] = NoHandler /\ handler[c].pc = "answering"
    BY <1>2, <1>3, <2>1 DEF Deliver
  <2>. QED
    BY <1>1, <1>2, <2>1, <2>2 DEF Stage, Sent
<1>4. CASE GiveUp(c)
  <2>1. cmd'[c] = EndedInError(c, "failed") /\ handler'[c] = Unheard(c)
        /\ cmd[c].pc = "waiting"
    BY <1>2, <1>4 DEF GiveUp
  <2>2. /\ cmd'[c].pc = "ended" /\ cmd'[c].outcome = "failed" /\ cmd'[c].before = {}
        /\ cmd'[c].shown = cmd[c].shown /\ cmd'[c].req = cmd[c].req
    BY <1>1, <2>1, EndedTyped DEF Outcomes
  <2>3. handler'[c] = NoHandler \/ (handler'[c] = handler[c] /\ handler[c].pc # "answering")
    BY <2>1 DEF Unheard
  <2>. QED
    BY <1>1, <1>2, <2>1, <2>2, <2>3 DEF Stage, Sent
<1>. QED
  BY <1>3, <1>4

\* What a command has asked for it asks for ever.
LEMMA SentStays ==
  ASSUME Base, [Next]_vars, NEW d \in Commands, Sent(d)
  PROVE  Sent(d)' /\ cmd'[d].req = cmd[d].req
<1>1. CASE UNCHANGED vars
  BY <1>1 DEF vars, Sent
<1>2. CASE Start \/ \E w \in Writers : TakeCopy(w) \/ WriteRoles(w) \/ WriteTokens(w)
  BY <1>2 DEF Start, TakeCopy, WriteRoles, WriteTokens, Sent
<1>3. CASE Stop
  BY <1>3, StopFacts
<1>4. ASSUME NEW c \in Commands, NEW q \in Requests, Send(c, q) \/ Deliver(c) \/ GiveUp(c)
      PROVE  Sent(d)' /\ cmd'[d].req = cmd[d].req
  <2>1. CASE c # d
    BY <1>4, <2>1, ClientFacts DEF Sent
  <2>2. CASE c = d
    BY <1>4, <2>2, SendFacts, HearFacts
  <2>. QED
    BY <2>1, <2>2
<1>5. ASSUME NEW c \in Commands, Deliver(c) \/ GiveUp(c)
      PROVE  Sent(d)' /\ cmd'[d].req = cmd[d].req
  <2>1. cmd[d].req \in Requests
    BY DEF Base, Stage
  <2>. QED
    BY <1>4, <1>5, <2>1
<1>6. ASSUME NEW c \in Commands, Handle(c)
      PROVE  Sent(d)' /\ cmd'[d].req = cmd[d].req
  BY <1>6, WorkFacts DEF Works, Sent
<1>. QED
  BY <1>1, <1>2, <1>3, <1>4, <1>5, <1>6 DEF Next

\* A handler that takes a step is not that of a command that drew all it will.
LEMMA NewStrings ==
  ASSUME NEW c, NEW h, NEW D \in SUBSET (Users \X {c}), NEW s \in D, c # Nil,
         Works(c, h, D), DrawsOnce(c, h, D), Known(s)
  PROVE  FALSE
<1>1. s[2] = c
  OBVIOUS
<1>. QED
  BY <1>1 DEF Works, Busy, DrawsOnce, Known

\* No command is Nil.
LEMMA NilIsNoCommand == \A c \in Commands : c # Nil
BY ConstantsAssumption

\* A string that is known stays known; a handler knows what it draws.
LEMMA HandleKnows ==
  ASSUME Base, NEW c \in Commands, NEW h \in HandlerState, NEW D \in SUBSET (Users \X {c}),
         Works(c, h, D), DrawsOnce(c, h, D), PutsInForce(c, h, D), Sent(c),
         cmd[c].outcome \notin {"ok", "notFound"}, handler'[c] = h,
         \A d \in Commands : d # c => handler'[d] = handler[d],
         NEW s, Known(s) \/ s \in D
  PROVE  Known(s)'
<1>1. cmd' = cmd /\ h.pc \in {"none", "rotating", "answering"} /\ Busy(c)
  BY DEF Works, NoHandler
<1>2. CASE s[2] = c
  <2>1. s \in D \/ (handler[c].pc = "rotating" /\ s[1] \notin handler[c].todo
                    /\ s \in handler[c].drawn)
    BY <1>1, <1>2, NilIsNoCommand DEF Known, Busy
  <2>2. h.pc = "rotating" => s[1] \notin h.todo
    BY <2>1 DEF DrawsOnce
  <2>3. h.pc = "rotating" \/ (h.pc = "answering" /\ h.status = "ok") => s \in h.drawn
    BY <2>1 DEF PutsInForce
  <2>. QED
    BY <1>1, <1>2, <2>2, <2>3 DEF Known, Sent
<1>3. CASE s[2] # c
  <2>1. Known(s)
    BY <1>3
  <2>. QED
    BY <1>1, <1>3, <2>1 DEF Known, Sent
<1>. QED
  BY <1>2, <1>3

\* A table is not Nil.
LEMMA TableIsSome ==
  /\ \A t : IsTokens(t) => t # Nil
  /\ \A t : IsRoles(t) => t # Nil
BY ConstantsAssumption DEF IsTokens, IsRoles

\* A writer brings no string that was not in the table, in a copy or in the file.
LEMMA WriterStrings ==
  ASSUME TypeOK, Running, NEW w \in Writers, TakeCopy(w) \/ WriteRoles(w) \/ WriteTokens(w)
  PROVE  /\ \A v \in Writers : \/ writer'[v].tokens = writer[v].tokens
                             \/ writer'[v].tokens = tokens
                             \/ writer'[v].tokens = <<>>
         /\ LoadedTokens' = LoadedTokens \/ LoadedTokens' = writer[w].tokens
         /\ Strings(LoadedTokens)' = Strings(LoadedTokens')
         /\ \A s : \A v \in Writers : s \in Strings(writer'[v].tokens) =>
              s \in Valid \/ s \in Strings(writer[v].tokens)
         /\ \A s : s \in Strings(LoadedTokens)' =>
              s \in Strings(LoadedTokens) \/ s \in Strings(writer[w].tokens)
<1>1. \A v \in Writers : \/ writer'[v].tokens = writer[v].tokens
                        \/ writer'[v].tokens = tokens
                        \/ writer'[v].tokens = <<>>
  BY CopyTaken, CopyMovesOn, CopyIsDone, IdleTyped
<1>2. tokensFile' = tokensFile \/ tokensFile' = writer[w].tokens
  BY WriteSaves
<1>3. writer[w].tokens # Nil
  BY TableIsSome DEF TypeOK, IsCopy
<1>4. LoadedTokens' = LoadedTokens \/ LoadedTokens' = writer[w].tokens
  BY <1>2, <1>3 DEF LoadedTokens
<1>5. Strings(LoadedTokens)' = Strings(LoadedTokens')
  BY DEF Strings
<1>. QED
  BY <1>1, <1>4, <1>5, EmptyTable DEF Valid

\* What is seen next was seen, or has just been drawn.
LEMMA KnownStays ==
  ASSUME Base, AllKnown, [Next]_vars, NEW s, Seen(s)'
  PROVE  Known(s)'
<1>1. CASE UNCHANGED vars
  <2>1. Seen(s)' <=> Seen(s)
    BY <1>1 DEF vars, tables, persist, files, Seen, Valid, LoadedTokens, Strings
  <2>. QED
    BY <1>1, <2>1 DEF AllKnown, vars, Known, Sent
<1>2. CASE Start
  <2>1. cmd' = cmd /\ handler' = handler
    BY <1>2 DEF Start
  <2>2. Seen(s)
    BY <1>2, <2>1 DEF Start, files, Seen, Valid, LoadedTokens, Strings
  <2>. QED
    BY <2>1, <2>2 DEF AllKnown, Known, Sent
<1>3. ASSUME NEW w \in Writers, TakeCopy(w) \/ WriteRoles(w) \/ WriteTokens(w)
      PROVE  Known(s)'
  <2>1. TypeOK /\ Running
    BY DEF Base
  <2>2. cmd' = cmd /\ handler' = handler /\ tokens' = tokens
    BY <1>3, <2>1, WriteChanges
  <2>3. Seen(s)
    BY <1>3, <2>1, <2>2, WriterStrings DEF Seen, Valid, Strings
  <2>. QED
    BY <2>2, <2>3 DEF AllKnown, Known, Sent
<1>4. CASE Stop
  <2>1. tokens' = <<>> /\ UNCHANGED tokensFile /\ \A w \in Writers : writer'[w] = Idle
    BY <1>4 DEF Stop, files
  <2>2. Seen(s)
    BY <1>4, <2>1, EmptyTable, IdleTyped, StopFacts DEF Seen, Valid, LoadedTokens, Strings
  <2>. QED
    BY <1>4, <2>2, StopFacts DEF AllKnown, Known
<1>5. ASSUME NEW c \in Commands, NEW q \in Requests, Send(c, q) PROVE Known(s)'
  <2>1. UNCHANGED <<tokens, writer, tokensFile>>
        /\ \A d \in Commands : d # c => cmd'[d] = cmd[d] /\ handler'[d] = handler[d]
    BY <1>5, ClientFacts
  <2>2. \A t \in cmd'[c].before : t \in Valid
    BY <1>5, SendFacts
  <2>3. Seen(s)
    BY <2>1, <2>2 DEF Seen, Valid, LoadedTokens, Strings
  <2>4. s[2] # Nil => s[2] # c
    BY <1>5, <2>3, SendFacts DEF AllKnown, Known
  <2>. QED
    BY <2>1, <2>3, <2>4 DEF AllKnown, Known, Sent
<1>6. ASSUME NEW c \in Commands, NEW q \in Requests, Deliver(c) \/ GiveUp(c) PROVE Known(s)'
  <2>1. UNCHANGED <<tokens, writer, tokensFile>>
        /\ \A d \in Commands : d # c => cmd'[d] = cmd[d] /\ handler'[d] = handler[d]
    BY <1>6, ClientFacts
  <2>2. Seen(s)
    BY <1>6, <2>1, HearFacts DEF Seen, Valid, LoadedTokens, Strings
  <2>3. Known(s)
    BY <2>2 DEF AllKnown
  <2>4. CASE s[2] = c
    <3>1. cmd'[c].outcome = "ok" => s \in cmd'[c].shown
      BY <1>6, <2>3, <2>4, HearFacts, NilIsNoCommand DEF Known
    <3>. QED
      BY <1>6, <2>3, <2>4, <3>1, HearFacts DEF Known
  <2>5. CASE s[2] # c
    BY <2>1, <2>3, <2>5 DEF Known, Sent
  <2>. QED
    BY <2>4, <2>5
<1>7. ASSUME NEW c \in Commands, Handle(c) PROVE Known(s)'
  <2>1. PICK h \in HandlerState, D \in SUBSET (Users \X {c}) :
           /\ Works(c, h, D) /\ DrawsOnce(c, h, D) /\ PutsInForce(c, h, D)
           /\ Sent(c) /\ cmd[c].outcome \notin {"ok", "notFound"}
           /\ handler'[c] = h /\ \A d \in Commands : d # c => handler'[d] = handler[d]
    BY <1>7, WorkFacts
  <2>2. Seen(s) \/ s \in D
    BY <2>1 DEF Works, PutsInForce, files, Seen, LoadedTokens, Strings
  <2>3. Known(s) \/ s \in D
    BY <2>2 DEF AllKnown
  <2>. QED
    BY <2>1, <2>3, HandleKnows
<1>8. ASSUME NEW c \in Commands, Deliver(c) \/ GiveUp(c) PROVE Known(s)'
  <2>1. Sent(c) /\ cmd[c].req \in Requests
    BY <1>8, HearFacts DEF Base, Stage
  <2>. QED
    BY <1>6, <1>8, <2>1
<1>. QED
  BY <1>1, <1>2, <1>3, <1>5, <1>7, <1>8, <1>4 DEF Next

\* The strings of the first files were drawn by no command.
LEMMA InitKnown == Init => AllKnown
<1>. SUFFICES ASSUME Init, NEW s, Seen(s) PROVE s[2] = Nil
  BY DEF AllKnown, Known
<1>1. /\ s \notin Valid /\ \A c \in Commands : s \notin cmd[c].before
      /\ \A w \in Writers : s \notin Strings(writer[w].tokens)
  BY EmptyTable, IdleTyped DEF Init, Valid, Unsent
<1>2. s \in Strings(LoadedTokens)
  BY <1>1 DEF Seen
<1>3. CASE tokensFile = Nil
  BY <1>2, <1>3, EmptyTable DEF LoadedTokens
<1>4. CASE tokensFile = [u \in Users |-> [by |-> Nil, role |-> FirstRole[u]]]
  <2>1. LoadedTokens = tokensFile \/ LoadedTokens = <<>>
    BY DEF LoadedTokens
  <2>. QED
    BY <1>2, <1>4, <2>1, EmptyTable DEF Strings
<1>. QED
  BY <1>3, <1>4 DEF Init

\* No string is ever seen that is not known.
LEMMA AllKnownAlways == Spec => []AllKnown
<1>1. Base /\ AllKnown /\ [Next]_vars => AllKnown'
  <2>. SUFFICES ASSUME Base, AllKnown, [Next]_vars PROVE \A s : Seen(s)' => Known(s)'
    BY DEF AllKnown
  <2>. QED
    BY KnownStays
<1>. QED
  BY <1>1, InitKnown, Based, PTL DEF Spec

\* A string that no operator was shown belongs to a command that is under way or that
\* ended in an error: a success shows every string it put in force, after whatever
\* restart or rotation.
THEOREM SuccessShowsAll == Spec => []UnshownIsKnown
<1>1. AllKnown => UnshownIsKnown
  BY DEF AllKnown, Known, Seen, UnshownIsKnown
<1>. QED
  BY <1>1, AllKnownAlways, PTL

-----------------------------------------------------------------------------
(* What was told lasts, in the tables, in the copies and in the files.     *)

Asked(c, u) == \E d \in Others(c) : Concerns(cmd[d].req, u)

\* The strings a command has drawn are in the table, unless another command was
\* asked to take them away.
Stays(c, t) ==
  \A s \in cmd[c].shown \cup handler[c].drawn :
    s[2] = c /\ (s \in Strings(t) \/ Asked(c, s[1]))

\* The commands in P that change tokens have had their effect on t, and it lasts.
Lasting(P, t) ==
  \A c \in P : cmd[c].req.verb \in TokenVerbs =>
    cmd[c].before \cap Strings(t) = {} /\ Stays(c, t)

\* The memory, the copies and the file each with the commands that are in it; and the
\* handlers that are half through all tokens.
AllLasting ==
  /\ up => Lasting(performed, tokens)
  /\ \A w \in Writers : Lasting(writer[w].performed, writer[w].tokens)
  /\ Lasting(saved, LoadedTokens)
  /\ \A c \in Commands : \A s \in cmd[c].before : Concerns(cmd[c].req, s[1])
  /\ \A c \in Commands : handler[c].pc = "rotating" =>
       Stays(c, tokens) /\ \A s \in cmd[c].before \cap Valid : s[1] \in handler[c].todo

\* What was asked stays asked.
LEMMA AskedStays ==
  ASSUME Base, [Next]_vars, NEW c \in Commands, NEW u, Asked(c, u)
  PROVE  Asked(c, u)'
<1>1. PICK d \in Commands \ {c} : Sent(d) /\ Concerns(cmd[d].req, u)
  BY DEF Asked, Others, Sent
<1>2. Sent(d)' /\ cmd'[d].req = cmd[d].req
  BY <1>1, SentStays
<1>3. Concerns(cmd'[d].req, u)
  BY <1>1, <1>2
<1>. QED
  BY <1>1, <1>2, <1>3 DEF Asked, Others, Sent, Concerns, Target

\* Commands whose effect is somewhere have been sent, and draw no more.
LEMMA DoneFacts ==
  ASSUME Base
  PROVE  /\ \A c \in performed : c \in Commands /\ Sent(c) /\ ~Busy(c)
         /\ saved \subseteq performed
         /\ \A w \in Writers : writer[w].performed \subseteq performed
BY DEF Base, TypeOK, Running, Stage

\* What Lasting says after a step, of a set and a table: what a command of the set
\* asked for is what it asks for after the step.
NextLasting(P, t) ==
  \A c \in P : cmd[c].req.verb \in TokenVerbs =>
    /\ cmd'[c].before \cap Strings(t) = {}
    /\ \A s \in cmd'[c].shown \cup handler'[c].drawn :
         s[2] = c /\ (s \in Strings(t) \/ Asked(c, s[1])')

\* A table that is left alone, when commands forget but draw nothing.
LEMMA QuietLasting ==
  ASSUME Base, [Next]_vars, AllLasting,
         \A c \in Commands :
           Sent(c) => /\ cmd'[c].before \subseteq cmd[c].before
                      /\ cmd'[c].shown \cup handler'[c].drawn
                           \subseteq cmd[c].shown \cup handler[c].drawn
  PROVE  /\ up => NextLasting(performed, tokens)
         /\ \A w \in Writers : NextLasting(writer[w].performed, writer[w].tokens)
         /\ NextLasting(saved, LoadedTokens)
<1>1. \A c \in Commands : \A u : Asked(c, u) => Asked(c, u)'
  BY AskedStays
<1>2. ASSUME NEW P, P \subseteq performed, NEW t, Lasting(P, t) PROVE NextLasting(P, t)
  <2>1. \A c \in P : c \in Commands /\ Sent(c)
    BY <1>2, DoneFacts
  <2>. QED
    BY <1>1, <1>2, <2>1 DEF Lasting, Stays, NextLasting
<1>3. up => NextLasting(performed, tokens)
  BY <1>2 DEF AllLasting
<1>4. \A w \in Writers : NextLasting(writer[w].performed, writer[w].tokens)
  BY <1>2, DoneFacts DEF AllLasting
<1>5. NextLasting(saved, LoadedTokens)
  BY <1>2, DoneFacts DEF AllLasting
<1>. QED
  BY <1>3, <1>4, <1>5

\* The last two parts of AllLasting after a step.
NextConcerns(c) == \A s \in cmd'[c].before : Concerns(cmd'[c].req, s[1])
NextHalf(c, t) ==
  handler'[c].pc = "rotating" =>
    /\ \A s \in cmd'[c].shown \cup handler'[c].drawn :
         s[2] = c /\ (s \in Strings(t) \/ Asked(c, s[1])')
    /\ \A s \in cmd'[c].before : s \in Strings(t) => s[1] \in handler'[c].todo

\* AllLasting after a step, by its parts.
LEMMA LastingNext ==
  ASSUME Base, [Next]_vars,
         performed' \subseteq {c \in Commands : Sent(c)}, saved' \subseteq performed',
         \A w \in Writers : writer'[w].performed \subseteq performed',
         up' => NextLasting(performed', tokens'),
         \A w \in Writers : NextLasting(writer'[w].performed, writer'[w].tokens),
         NextLasting(saved', LoadedTokens'),
         \A c \in Commands : NextConcerns(c) /\ NextHalf(c, tokens')
  PROVE  AllLasting'
<1>1. ASSUME NEW P, P \subseteq performed', NEW t, NextLasting(P, t),
             NEW c \in P, cmd'[c].req.verb \in TokenVerbs
      PROVE  /\ cmd'[c].before \cap Strings(t) = {}
             /\ \A s \in cmd'[c].shown \cup handler'[c].drawn :
                  s[2] = c /\ (s \in Strings(t) \/ Asked(c, s[1])')
  <2>1. cmd'[c].req = cmd[c].req
    BY <1>1, SentStays
  <2>. QED
    BY <1>1, <2>1 DEF NextLasting
<1>2. (up => Lasting(performed, tokens))'
  BY <1>1 DEF Lasting, Stays, Strings
<1>3. ASSUME NEW w \in Writers PROVE Lasting(writer[w].performed, writer[w].tokens)'
  <2>. DEFINE P == writer'[w].performed
              t == writer'[w].tokens
  <2>1. P \subseteq performed' /\ NextLasting(P, t)
    OBVIOUS
  <2>. HIDE DEF P, t
  <2>2. \A c \in P : cmd'[c].req.verb \in TokenVerbs =>
          /\ cmd'[c].before \cap Strings(t) = {}
          /\ \A s \in cmd'[c].shown \cup handler'[c].drawn :
               s[2] = c /\ (s \in Strings(t) \/ Asked(c, s[1])')
    BY <1>1, <2>1
  <2>. QED
    BY <2>2 DEF P, t, Lasting, Stays, Strings
<1>4. Lasting(saved, LoadedTokens)'
  BY <1>1 DEF Lasting, Stays, Strings
<1>5. (\A c \in Commands : \A s \in cmd[c].before : Concerns(cmd[c].req, s[1]))'
  BY DEF NextConcerns, Concerns, Target
<1>6. (\A c \in Commands : handler[c].pc = "rotating" =>
         Stays(c, tokens) /\ \A s \in cmd[c].before \cap Valid : s[1] \in handler[c].todo)'
  BY DEF NextHalf, Stays, Strings, Valid
<1>. QED
  BY <1>2, <1>3, <1>4, <1>5, <1>6 DEF AllLasting

\* A step of the daemon that draws nothing leaves the last two parts as they are.
LEMMA DaemonHalf ==
  ASSUME Base, [Next]_vars, AllLasting,
         \A c \in Commands :
           /\ cmd'[c].req = cmd[c].req /\ cmd'[c].before \subseteq cmd[c].before
           /\ handler'[c].pc = "rotating" => cmd'[c] = cmd[c] /\ handler'[c] = handler[c]
  PROVE  \A c \in Commands : NextConcerns(c) /\ NextHalf(c, tokens)
<1>1. \A c \in Commands : NextConcerns(c)
  BY DEF AllLasting, NextConcerns
<1>2. ASSUME NEW c \in Commands, handler'[c].pc = "rotating" PROVE NextHalf(c, tokens)
  <2>1. Stays(c, tokens) /\ \A s \in cmd[c].before \cap Valid : s[1] \in handler[c].todo
    BY <1>2 DEF AllLasting
  <2>2. \A u : Asked(c, u) => Asked(c, u)'
    BY AskedStays
  <2>. QED
    BY <1>2, <2>1, <2>2 DEF NextHalf, Stays, Valid
<1>. QED
  BY <1>1, <1>2 DEF NextHalf

\* A start and a stop, after which no handler is half through.
LEMMA RestartLasting ==
  ASSUME Base, [Next]_vars, AllLasting, Start \/ Stop
  PROVE  AllLasting'
<1>1. TypeOK /\ Running /\ \A c \in Commands : Stage(c)
  BY DEF Base
<1>2. \A c \in Commands :
        /\ cmd'[c].req = cmd[c].req /\ cmd'[c].before \subseteq cmd[c].before
        /\ cmd'[c].shown = cmd[c].shown /\ handler'[c].drawn \subseteq handler[c].drawn
        /\ handler'[c].pc # "rotating"
  BY <1>1, StopFacts DEF Start, Stage
<1>3. NextLasting(saved, LoadedTokens)
  BY <1>2, QuietLasting
<1>4. \A c \in Commands : NextConcerns(c) /\ NextHalf(c, tokens')
  BY <1>2, DaemonHalf DEF NextHalf
<1>5. saved' = saved /\ LoadedTokens' = LoadedTokens /\ \A w \in Writers : writer'[w] = Idle
  BY <1>1 DEF Start, Stop, files, history, LoadedTokens, Running
<1>6. \A w \in Writers : /\ writer'[w].performed \subseteq performed'
                         /\ NextLasting(writer'[w].performed, writer'[w].tokens)
  BY <1>5, IdleTyped DEF NextLasting
<1>7. \/ up' /\ performed' = saved /\ tokens' = LoadedTokens
      \/ ~up' /\ performed' = performed
  BY DEF Start, Stop, history
<1>8. saved \subseteq performed /\ performed \subseteq {c \in Commands : Sent(c)}
  BY DoneFacts
<1>. QED
  BY <1>3, <1>4, <1>5, <1>6, <1>7, <1>8, LastingNext

\* A writer moves tables about with the commands that are in them.
LEMMA WriteLasting ==
  ASSUME Base, [Next]_vars, AllLasting, NEW w \in Writers,
         TakeCopy(w) \/ WriteRoles(w) \/ WriteTokens(w)
  PROVE  AllLasting'
<1>1. TypeOK /\ Running
  BY DEF Base
<1>2. UNCHANGED <<up, tokens, cmd, handler, performed>> /\ up
  BY <1>1, WriteChanges
<1>3. /\ NextLasting(performed, tokens)
      /\ \A v \in Writers : NextLasting(writer[v].performed, writer[v].tokens)
      /\ NextLasting(saved, LoadedTokens)
  BY <1>2, QuietLasting
<1>4. \A c \in Commands : NextConcerns(c) /\ NextHalf(c, tokens')
  BY <1>2, DaemonHalf
<1>5. \A v \in Writers : /\ writer'[v].performed \subseteq performed'
                         /\ NextLasting(writer'[v].performed, writer'[v].tokens)
  <2>. SUFFICES ASSUME NEW v \in Writers
                PROVE  /\ writer'[v].performed \subseteq performed'
                       /\ NextLasting(writer'[v].performed, writer'[v].tokens)
    OBVIOUS
  <2>1. \/ writer'[v].performed = writer[v].performed /\ writer'[v].tokens = writer[v].tokens
        \/ writer'[v].performed = performed /\ writer'[v].tokens = tokens
        \/ writer'[v].performed = {}
    BY <1>1, CopyTaken, CopyMovesOn, CopyIsDone, IdleTyped
  <2>2. writer[v].performed \subseteq performed
    BY DoneFacts
  <2>3. writer'[v].performed = {} => NextLasting(writer'[v].performed, writer'[v].tokens)
    BY DEF NextLasting
  <2>. QED
    BY <1>2, <1>3, <2>1, <2>2, <2>3
<1>6. saved' \subseteq performed
  BY <1>1, WriteSaves
<1>7. NextLasting(saved', LoadedTokens')
  <2>1. CASE TakeCopy(w)
    BY <1>3, <2>1 DEF TakeCopy, files, LoadedTokens
  <2>2. CASE WriteRoles(w)
    <3>1. LoadedTokens' = LoadedTokens
      BY <2>2 DEF WriteRoles, LoadedTokens
    <3>2. \A c \in saved' : c \in saved \/ cmd[c].req.verb \in RoleVerbs
      BY <2>2, OfSubset DEF WriteRoles
    <3>3. \A c \in saved' : cmd[c].req.verb \in TokenVerbs => c \in saved
      BY <3>2 DEF TokenVerbs, RoleVerbs
    <3>. QED
      BY <1>3, <3>1, <3>3 DEF NextLasting
  <2>3. CASE WriteTokens(w) /\ UNCHANGED <<tokensFile, saved>>
    BY <1>3, <2>3 DEF LoadedTokens
  <2>4. CASE /\ WriteTokens(w) /\ tokensFile' = writer[w].tokens
             /\ saved' = Of(saved, RoleVerbs) \cup Of(writer[w].performed, TokenVerbs)
    <3>1. LoadedTokens' = writer[w].tokens
      BY <1>1, <2>4, TableIsSome DEF LoadedTokens, TypeOK, IsCopy
    <3>2. \A c \in saved' : c \in writer[w].performed \/ cmd[c].req.verb \in RoleVerbs
      BY <2>4, OfSubset
    <3>3. \A c \in saved' : cmd[c].req.verb \in TokenVerbs => c \in writer[w].performed
      BY <3>2 DEF TokenVerbs, RoleVerbs
    <3>. QED
      BY <1>3, <3>1, <3>3 DEF NextLasting
  <2>. QED
    BY <2>1, <2>2, <2>3, <2>4 DEF WriteTokens
<1>8. performed \subseteq {c \in Commands : Sent(c)}
  BY DoneFacts
<1>. QED
  BY <1>2, <1>3, <1>4, <1>5, <1>6, <1>7, <1>8, LastingNext

\* What a client does changes no table.
LEMMA ClientLasting ==
  ASSUME Base, [Next]_vars, AllLasting, NEW c \in Commands, NEW q \in Requests,
         Send(c, q) \/ Deliver(c) \/ GiveUp(c)
  PROVE  AllLasting'
<1>1. /\ UNCHANGED <<up, tokens, writer, tokensFile, performed, saved>>
      /\ \A d \in Commands : d # c => cmd'[d] = cmd[d] /\ handler'[d] = handler[d]
  BY ClientFacts
<1>2. ASSUME Sent(c)
      PROVE  /\ cmd'[c].before \subseteq cmd[c].before /\ cmd'[c].req = cmd[c].req
             /\ cmd'[c].shown \cup handler'[c].drawn \subseteq cmd[c].shown \cup handler[c].drawn
             /\ handler'[c].pc = "rotating" => handler'[c] = handler[c]
  BY <1>2, SendFacts, HearFacts
<1>3. \A d \in Commands : Sent(d) =>
        /\ cmd'[d].before \subseteq cmd[d].before
        /\ cmd'[d].shown \cup handler'[d].drawn \subseteq cmd[d].shown \cup handler[d].drawn
  BY <1>1, <1>2
<1>4. /\ up => NextLasting(performed, tokens)
      /\ \A w \in Writers : NextLasting(writer[w].performed, writer[w].tokens)
      /\ NextLasting(saved, LoadedTokens)
  BY <1>3, QuietLasting
<1>5. LoadedTokens' = LoadedTokens
  BY <1>1 DEF LoadedTokens
<1>6. ASSUME NEW d \in Commands PROVE NextConcerns(d)
  <2>1. CASE d = c /\ ~Sent(c)
    BY <1>2, <2>1, SendFacts, HearFacts DEF NextConcerns
  <2>2. CASE d = c /\ Sent(c)
    BY <1>2, <2>2 DEF NextConcerns, AllLasting
  <2>3. CASE d # c
    BY <1>1, <2>3 DEF NextConcerns, AllLasting
  <2>. QED
    BY <2>1, <2>2, <2>3
<1>7. ASSUME NEW d \in Commands, handler'[d].pc = "rotating" PROVE NextHalf(d, tokens)
  <2>1. /\ handler'[d] = handler[d] /\ cmd'[d].before \subseteq cmd[d].before
        /\ cmd'[d].shown \cup handler'[d].drawn \subseteq cmd[d].shown \cup handler[d].drawn
    BY <1>1, <1>2, <1>7, SendFacts, HearFacts
  <2>2. \A u : Asked(d, u) => Asked(d, u)'
    BY AskedStays
  <2>3. /\ Stays(d, tokens) /\ \A s \in cmd[d].before \cap Valid : s[1] \in handler[d].todo
    BY <1>7, <2>1 DEF AllLasting
  <2>. QED
    BY <2>1, <2>2, <2>3 DEF NextHalf, Stays, Valid
<1>8. \A d \in Commands : NextHalf(d, tokens)
  BY <1>7 DEF NextHalf
<1>. QED
  BY <1>1, <1>4, <1>5, <1>6, <1>8, DoneFacts, LastingNext

\* What a handler draws nobody has seen before.
LEMMA DrawnIsNew ==
  ASSUME AllKnown, NEW c \in Commands, NEW h, NEW D \in SUBSET (Users \X {c}),
         Works(c, h, D), DrawsOnce(c, h, D)
  PROVE  \A s \in D : ~Seen(s)
<1>. SUFFICES ASSUME NEW s \in D, Seen(s) PROVE FALSE
  OBVIOUS
<1>1. Known(s)
  BY DEF AllKnown
<1>. QED
  BY <1>1, NilIsNoCommand, NewStrings

\* A handler takes away what its command was asked to take away, and no string that it
\* drew itself.
LEMMA HandleLasting ==
  ASSUME Base, [Next]_vars, AllLasting, AllKnown, NEW c \in Commands, Handle(c)
  PROVE  AllLasting'
<1>1. PICK h \in HandlerState, D \in SUBSET (Users \X {c}) :
        /\ Works(c, h, D) /\ DrawsOnce(c, h, D) /\ PutsInForce(c, h, D) /\ RemovesOld(c, h, D)
        /\ up /\ Sent(c) /\ c \notin performed /\ cmd[c].shown = {}
        /\ handler'[c] = h /\ \A d \in Commands : d # c => handler'[d] = handler[d]
  BY WorkFacts
<1>2. /\ UNCHANGED <<up, writer, tokensFile, cmd, saved>> /\ Busy(c)
      /\ performed' = performed \/ (performed' = performed \cup {c} /\ h.pc # "rotating")
  BY <1>1 DEF Works, files
<1>3. LoadedTokens' = LoadedTokens /\ Valid = Strings(tokens) /\ Valid' = Strings(tokens')
  BY <1>2 DEF LoadedTokens, Valid, Strings
<1>4. \A s \in D : ~Seen(s)
  BY <1>1, DrawnIsNew
<1>5. \A d \in Commands : \A u : Asked(d, u) => Asked(d, u)'
  BY AskedStays
<1>6. ASSUME NEW s \in Valid \ Valid', NEW d \in Commands, d # c PROVE Asked(d, s[1])'
  <2>1. c \in Others(d) /\ Concerns(cmd[c].req, s[1])
    BY <1>1, <1>6 DEF PutsInForce, Others, Sent
  <2>2. Asked(d, s[1])
    BY <2>1 DEF Asked
  <2>. QED
    BY <1>5, <2>2
<1>7. \A d \in Commands : \A s \in cmd[d].before : s \in Valid' => s \in Valid /\ s \notin D
  BY <1>1, <1>4 DEF PutsInForce, Seen
<1>8. ASSUME NEW d \in Commands, d # c, Stays(d, tokens)
      PROVE  \A s \in cmd'[d].shown \cup handler'[d].drawn :
               s[2] = d /\ (s \in Valid' \/ Asked(d, s[1])')
  <2>1. cmd'[d].shown \cup handler'[d].drawn = cmd[d].shown \cup handler[d].drawn
    BY <1>1, <1>2, <1>8
  <2>. QED
    BY <1>3, <1>5, <1>6, <1>8, <2>1 DEF Stays
<1>9. \A s \in cmd'[c].shown \cup handler'[c].drawn :
        s[2] = c /\ (s \in Valid' \/ Asked(c, s[1])')
  <2>. SUFFICES ASSUME NEW s \in handler[c].drawn \cup D
                PROVE  s[2] = c /\ (s \in Valid' \/ Asked(c, s[1])')
    BY <1>1, <1>2 DEF PutsInForce
  <2>1. CASE s \in D
    BY <1>1, <2>1 DEF PutsInForce
  <2>2. CASE s \in handler[c].drawn
    <3>1. handler[c].pc = "rotating"
      BY <1>2, <2>2 DEF Base, Stage, Busy
    <3>2. Stays(c, tokens)
      BY <3>1 DEF AllLasting
    <3>3. s[2] = c /\ (s \in Valid \/ Asked(c, s[1]))
      BY <1>3, <2>2, <3>2 DEF Stays
    <3>. QED
      BY <1>1, <1>5, <3>1, <3>3 DEF PutsInForce
  <2>. QED
    BY <2>1, <2>2
<1>10. NextLasting(performed', tokens')
  <2>. SUFFICES ASSUME NEW d \in performed', cmd[d].req.verb \in TokenVerbs
                PROVE  /\ cmd'[d].before \cap Valid' = {}
                       /\ \A s \in cmd'[d].shown \cup handler'[d].drawn :
                            s[2] = d /\ (s \in Valid' \/ Asked(d, s[1])')
    BY <1>3 DEF NextLasting
  <2>1. CASE d \in performed
    <3>1. d \in Commands /\ d # c /\ cmd[d].before \cap Valid = {} /\ Stays(d, tokens)
      BY <1>1, <1>3, <2>1, DoneFacts DEF AllLasting, Lasting
    <3>. QED
      BY <1>2, <1>7, <1>8, <3>1
  <2>2. CASE d \notin performed
    <3>1. d = c /\ performed' # performed
      BY <1>1, <1>2, <2>2
    <3>2. ASSUME NEW s \in cmd[c].before, s \in Valid' PROVE FALSE
      <4>1. s \in Valid /\ s \notin D /\ Concerns(cmd[c].req, s[1])
        BY <1>7, <3>2 DEF AllLasting
      <4>2. handler[c].pc = "rotating" /\ handler[c].todo = {}
        BY <1>1, <3>1, <3>2, <4>1 DEF RemovesOld
      <4>. QED
        BY <3>2, <4>1, <4>2 DEF AllLasting
    <3>. QED
      BY <1>2, <1>9, <3>1, <3>2
  <2>. QED
    BY <2>1, <2>2
<1>11. ASSUME NEW P, P \subseteq performed, NEW t, Lasting(P, t) PROVE NextLasting(P, t)
  <2>. SUFFICES ASSUME NEW d \in P, cmd[d].req.verb \in TokenVerbs
                PROVE  /\ cmd'[d].before \cap Strings(t) = {}
                       /\ \A s \in cmd'[d].shown \cup handler'[d].drawn :
                            s[2] = d /\ (s \in Strings(t) \/ Asked(d, s[1])')
    BY DEF NextLasting
  <2>1. d \in Commands /\ cmd'[d] = cmd[d] /\ handler'[d] = handler[d]
    BY <1>1, <1>2, <1>11, DoneFacts
  <2>. QED
    BY <1>5, <1>11, <2>1 DEF Lasting, Stays
<1>12. \A w \in Writers : NextLasting(writer'[w].performed, writer'[w].tokens)
  BY <1>2, <1>11, DoneFacts DEF AllLasting
<1>13. NextLasting(saved', LoadedTokens')
  BY <1>2, <1>3, <1>11, DoneFacts DEF AllLasting
<1>14. \A d \in Commands : NextConcerns(d)
  BY <1>2 DEF AllLasting, NextConcerns
<1>15. ASSUME NEW d \in Commands, handler'[d].pc = "rotating" PROVE NextHalf(d, tokens')
  <2>1. CASE d # c
    <3>1. handler[d].pc = "rotating" /\ handler'[d] = handler[d]
      BY <1>1, <1>15, <2>1
    <3>2. Stays(d, tokens) /\ \A s \in cmd[d].before \cap Valid : s[1] \in handler[d].todo
      BY <3>1 DEF AllLasting
    <3>3. \A s \in cmd'[d].before : s \in Strings(tokens') => s[1] \in handler'[d].todo
      BY <1>2, <1>3, <1>7, <3>1, <3>2
    <3>. QED
      BY <1>3, <1>8, <2>1, <3>2, <3>3 DEF NextHalf
  <2>2. CASE d = c
    <3>1. ASSUME NEW s \in cmd'[c].before, s \in Valid' PROVE s[1] \in handler'[c].todo
      <4>1. s \in Valid /\ s \notin D
        BY <1>2, <1>7, <3>1
      <4>2. s[1] \in h.todo \/ (handler[c].pc = "rotating" /\ s[1] \notin handler[c].todo)
        BY <1>1, <1>15, <2>2, <3>1, <4>1 DEF RemovesOld
      <4>. QED
        BY <1>1, <1>2, <3>1, <4>1, <4>2 DEF AllLasting
    <3>. QED
      BY <1>3, <1>9, <2>2, <3>1 DEF NextHalf
  <2>. QED
    BY <2>1, <2>2
<1>16. \A d \in Commands : NextHalf(d, tokens')
  BY <1>15 DEF NextHalf
<1>17. /\ performed' \subseteq {d \in Commands : Sent(d)} /\ saved' \subseteq performed'
       /\ \A w \in Writers : writer'[w].performed \subseteq performed'
  BY <1>1, <1>2, DoneFacts
<1>. QED
  BY <1>10, <1>12, <1>13, <1>14, <1>16, <1>17, LastingNext

\* What was told lasts, throughout.
LEMMA AllLastingAlways == Spec => []AllLasting
<1>1. Init => AllLasting
  <2>1. ASSUME Init, NEW c \in Commands
        PROVE  cmd[c].before = {} /\ handler[c].pc # "rotating"
    BY <2>1 DEF Init, Unsent, NoHandler
  <2>2. Init => ~up /\ saved = {} /\ \A w \in Writers : writer[w].performed = {}
    BY IdleTyped DEF Init
  <2>. QED
    BY <2>1, <2>2 DEF AllLasting, Lasting
<1>2. Base /\ AllKnown /\ AllLasting /\ [Next]_vars => AllLasting'
  <2>. SUFFICES ASSUME Base, AllKnown, AllLasting, [Next]_vars PROVE AllLasting'
    OBVIOUS
  <2>1. CASE UNCHANGED vars
    <3>1. UNCHANGED <<up, tokens, writer, tokensFile, cmd, handler, performed, saved>>
          /\ LoadedTokens' = LoadedTokens
      BY <2>1 DEF vars, tables, persist, files, history, LoadedTokens
    <3>2. /\ up => NextLasting(performed, tokens)
          /\ \A w \in Writers : NextLasting(writer[w].performed, writer[w].tokens)
          /\ NextLasting(saved, LoadedTokens)
      BY <3>1, QuietLasting
    <3>3. ASSUME NEW c \in Commands PROVE NextConcerns(c) /\ NextHalf(c, tokens)
      <4>1. \A u : Asked(c, u) => Asked(c, u)'
        BY AskedStays
      <4>. QED
        BY <3>1, <4>1 DEF AllLasting, NextConcerns, NextHalf, Stays, Valid
    <3>. QED
      BY <3>1, <3>2, <3>3, DoneFacts, LastingNext
  <2>2. ASSUME NEW c \in Commands, Deliver(c) \/ GiveUp(c) PROVE AllLasting'
    <3>1. Sent(c) /\ cmd[c].req \in Requests
      BY <2>2, HearFacts DEF Base, Stage
    <3>. QED
      BY <2>2, <3>1, ClientLasting
  <2>. QED
    BY <2>1, <2>2, RestartLasting, WriteLasting, ClientLasting, HandleLasting DEF Next
<1>. QED
  BY <1>1, <1>2, Based, AllKnownAlways, PTL DEF Spec

\* Once an operator has read that a token was revoked or rotated, or that the user had
\* none, no string that user had when the command was sent is valid again: not through
\* another command in flight, a late handler or a half-done rotate-all.  Nor through a
\* restart, of a command whose effect was in the files; one that a stop has lost is not
\* spoken of any more.
THEOREM OldStringsStayGone == Spec => []OldStringsGone
<1>1. Base /\ AllLasting => OldStringsGone
  <2>. SUFFICES ASSUME Base, AllLasting, NEW c \in Told PROVE cmd[c].before \cap Valid = {}
    BY DEF OldStringsGone
  <2>1. c \in performed
    BY DEF Told
  <2>2. CASE up
    <3>1. CASE cmd[c].req.verb \in TokenVerbs
      BY <2>1, <2>2, <3>1 DEF AllLasting, Lasting, Valid
    <3>2. CASE cmd[c].req.verb \notin TokenVerbs
      BY <2>1, <3>2, DoneFacts DEF AllLasting, Concerns, TokenVerbs
    <3>. QED
      BY <3>1, <3>2
  <2>3. CASE ~up
    BY <2>3, EmptyTable DEF Base, Running, Valid
  <2>. QED
    BY <2>2, <2>3
<1>. QED
  BY <1>1, Based, AllLastingAlways, PTL

-----------------------------------------------------------------------------
(* What a role was given lasts, as long as nobody changes it.              *)

\* What a handler does to the roles: it changes what its command asked for, adds the
\* role its command creates and, when it succeeds, leaves what was asked for.
RoleWork(c) ==
  LET q == cmd[c].req
  IN  /\ \A n \in DOMAIN roles : \A f \in Fields :
           (n \in DOMAIN roles' /\ roles'[n][f] = roles[n][f]) \/ Changes(c, n, f)
      /\ \A n \in DOMAIN roles' : n \in DOMAIN roles \/ (q.verb = "create" /\ q.name = n)
      /\ performed' # performed =>
           /\ q.verb \in {"create", "update"} =>
                /\ Target(q) \in DOMAIN roles'
                /\ \A f \in Fields : q[f] = Nil \/ roles'[Target(q)][f] = q[f]
           /\ q.verb = "delete" => Target(q) \notin DOMAIN roles' /\ Target(q) \notin DefaultNames

\* POST /roles.
LEMMA AddRoleRoles ==
  ASSUME TypeOK, NEW c \in Commands, Stage(c), AddRole(c)
  PROVE  RoleWork(c)
<1>. DEFINE q == cmd[c].req
            r == [scope |-> q.scope, topK |-> q.topK, rate |-> q.rate]
<1>1. q \in Requests /\ q.verb = "create"
  BY AcceptedHas DEF AddRole
<1>2. q.name \in RoleNames /\ Target(q) = q.name
  BY <1>1, RequestsAssumption DEF RoleVerbs, Target
<1>3. CASE Refuse(c, "refused")
  BY <1>3 DEF Refuse, tables, RoleWork
<1>4. CASE /\ q.rate \in Rates /\ q.name \notin DOMAIN roles
           /\ roles' = With(roles, q.name, r) /\ Succeed(c, {}) /\ UNCHANGED tokens
  <2>1. r \in Role
    BY <1>1, <1>4, MadeRole, DefaultRoleTyped
  <2>2. \A f \in Fields : r[f] = q[f]
    BY DEF Fields
  <2>3. /\ \A m : m \in DOMAIN roles' <=> m \in DOMAIN roles \/ m = q.name
        /\ roles'[q.name] = r /\ \A m \in DOMAIN roles : m # q.name => roles'[m] = roles[m]
    <3>1. IsRoles(roles)
      BY DEF TypeOK
    <3>. HIDE DEF r, q
    <3>. QED
      BY <1>2, <1>4, <2>1, <3>1, RoleSet
  <2>. HIDE DEF r
  <2>. QED
    BY <1>1, <1>2, <1>4, <2>2, <2>3 DEF RoleWork
<1>. QED
  BY <1>3, <1>4 DEF AddRole

\* PUT /roles/{name}.
LEMMA UpdateRoleRoles ==
  ASSUME TypeOK, NEW c \in Commands, Stage(c), UpdateRole(c)
  PROVE  RoleWork(c)
<1>. DEFINE q == cmd[c].req
            name == Target(q)
            r == Updated(roles[name], q)
<1>1. q \in Requests /\ q.verb = "update"
  BY AcceptedHas DEF UpdateRole
<1>3. CASE Refuse(c, "refused")
  BY <1>3 DEF Refuse, tables, RoleWork
<1>4. CASE /\ q.rate \in Rates \cup {Nil} /\ name \in DOMAIN roles
           /\ roles' = Changed(roles, name, r) /\ Succeed(c, {}) /\ UNCHANGED tokens
  <2>1. IsRoles(roles) /\ roles[name] \in Role /\ name \in RoleNames
    BY <1>4 DEF TypeOK, IsRoles
  <2>2. r \in Role
    BY <1>1, <1>4, <2>1, MadeRole
  <2>3. \A f \in Fields : IF q[f] = Nil THEN r[f] = roles[name][f] ELSE r[f] = q[f]
    BY DEF Fields, Updated, Or
  <2>4. /\ \A m : m \in DOMAIN roles' <=> m \in DOMAIN roles
        /\ roles'[name] = r /\ \A m \in DOMAIN roles : m # name => roles'[m] = roles[m]
    <3>. HIDE DEF r, name
    <3>. QED
      BY <1>4, <2>1, <2>2, RoleSet
  <2>5. \A f \in Fields : q[f] # Nil => Changes(c, name, f)
    BY <1>1 DEF Changes
  <2>. HIDE DEF r
  <2>. QED
    BY <1>1, <1>4, <2>3, <2>4, <2>5 DEF RoleWork
<1>. QED
  BY <1>3, <1>4 DEF UpdateRole, Changed

\* DELETE /roles/{name}.
LEMMA DeleteRoleRoles ==
  ASSUME TypeOK, NEW c \in Commands, Stage(c), DeleteRole(c)
  PROVE  RoleWork(c)
<1>. DEFINE q == cmd[c].req
            name == Target(q)
<1>1. q \in Requests /\ q.verb = "delete"
  BY AcceptedHas DEF DeleteRole
<1>3. CASE Refuse(c, "refused")
  BY <1>3 DEF Refuse, tables, RoleWork
<1>4. CASE /\ name \notin DefaultNames
           /\ roles' = Removed(roles, name) /\ Succeed(c, {}) /\ UNCHANGED tokens
  <2>1. IsRoles(roles)
    BY DEF TypeOK
  <2>2. /\ \A m : m \in DOMAIN roles' <=> m \in DOMAIN roles /\ m # name
        /\ \A m \in DOMAIN roles' : roles'[m] = roles[m]
    <3>. HIDE DEF name
    <3>. QED
      BY <1>4, <2>1, RoleRemoved
  <2>3. \A f \in Fields : Changes(c, name, f)
    BY <1>1 DEF Changes
  <2>. QED
    BY <1>1, <1>4, <2>2, <2>3 DEF RoleWork
<1>. QED
  BY <1>3, <1>4 DEF DeleteRole, Removed

\* The other routes leave the roles alone.
LEMMA HandleRoles ==
  ASSUME TypeOK, NEW c \in Commands, Stage(c), Handle(c)
  PROVE  RoleWork(c)
<1>. DEFINE q == cmd[c].req
<1>1. ASSUME roles' = roles, performed' = performed \/ q.verb \notin RoleVerbs
      PROVE  RoleWork(c)
  BY <1>1 DEF RoleWork, RoleVerbs
<1>2. ASSUME NEW status, Refuse(c, status) PROVE RoleWork(c)
  BY <1>1, <1>2 DEF Refuse, tables
<1>3. CASE AddToken(c) \/ RevokeToken(c) \/ RotateToken(c)
  <2>1. q.verb \in {"issue", "revoke", "rotate"} /\ roles' = roles
    BY <1>3 DEF AddToken, RevokeToken, RotateToken, Accepted, Refuse, tables
  <2>. QED
    BY <1>1, <2>1 DEF RoleVerbs
<1>4. ASSUME NEW u \in Users, RotateAllStep(c, u) \/ RotateAllFail(c, u)
      PROVE  RoleWork(c)
  <2>1. q.verb = "rotateAll" /\ roles' = roles
    BY <1>4 DEF RotateAllStep, RotateAllFail, Following, Refuse, tables, Stage
  <2>. QED
    BY <1>1, <2>1 DEF RoleVerbs
<1>5. CASE RotateAllBegin(c) \/ RotateAllEnd(c)
  <2>1. q.verb = "rotateAll" /\ roles' = roles
    BY <1>5 DEF RotateAllBegin, RotateAllEnd, Accepted, tables, Stage
  <2>. QED
    BY <1>1, <2>1 DEF RoleVerbs
<1>6. CASE NoRoute(c)
  BY <1>2, <1>6 DEF NoRoute
<1>. QED
  BY <1>3, <1>4, <1>5, <1>6, AddRoleRoles, UpdateRoleRoles, DeleteRoleRoles
     DEF Handle, RotateAll

\* Another command may have changed a field of the role, or created the role.
Altered(c, name, f) == \E d \in Others(c) : Changes(d, name, f)
Recreated(c, name) == \E d \in Others(c) : cmd[d].req.verb = "create" /\ cmd[d].req.name = name

\* The role files hold these roles.
RolesOnDisk == IF rolesFile = Nil THEN DefaultRoles ELSE rolesFile

\* What is read of a field that was given a value, after some stops.
Reads(v, f, given, n) == v = given \/ (f = "topK" /\ given = 0 /\ v = 5 /\ n > 0)

\* What RoleHolds says of the roles R, and that no default role was deleted.
RoleStays(c, R) ==
  LET q == cmd[c].req
  IN  /\ q.verb \in {"create", "update"} =>
           \A f \in Fields :
             \/ q[f] = Nil
             \/ q.name \in DOMAIN R /\ Reads(R[q.name][f], f, q[f], stops)
             \/ Altered(c, q.name, f)
      /\ q.verb = "delete" =>
           q.name \notin DefaultNames /\ (q.name \notin DOMAIN R \/ Recreated(c, q.name))

Held(P, R) == \A c \in P : Plain(cmd[c].req) => RoleStays(c, R)

\* In memory, in the copies and on disk.
RolesHeld ==
  /\ up => Held(performed, roles)
  /\ \A w \in Writers : Held(writer[w].performed, writer[w].roles)
  /\ Held(saved, RolesOnDisk)

\* Held after a step, of a set of commands and of roles.
NextHeld(P, R) ==
  \A c \in P : \A q :
    q = cmd'[c].req /\ Plain(q) =>
      /\ q.verb \in {"create", "update"} =>
           \A f \in Fields :
             \/ q[f] = Nil
             \/ q.name \in DOMAIN R /\ Reads(R[q.name][f], f, q[f], stops')
             \/ Altered(c, q.name, f)'
      /\ q.verb = "delete" =>
           q.name \notin DefaultNames /\ (q.name \notin DOMAIN R \/ Recreated(c, q.name)')

\* RolesHeld after a step, by its parts.
LEMMA HeldNext ==
  ASSUME up' => NextHeld(performed', roles'),
         \A w \in Writers : NextHeld(writer'[w].performed, writer'[w].roles),
         NextHeld(saved', RolesOnDisk')
  PROVE  RolesHeld'
BY DEF NextHeld, RolesHeld, Held, RoleStays, Reads, Plain, Target

\* What was changed or created stays so.
LEMMA AlteredStays ==
  ASSUME Base, [Next]_vars, NEW c \in Commands, NEW n
  PROVE  /\ \A f : Altered(c, n, f) => Altered(c, n, f)'
         /\ Recreated(c, n) => Recreated(c, n)'
<1>1. ASSUME NEW d \in Others(c) PROVE d \in Others(c)' /\ cmd'[d].req = cmd[d].req
  BY <1>1, SentStays DEF Others, Sent
<1>2. ASSUME NEW f, NEW d \in Others(c), Changes(d, n, f) PROVE Changes(d, n, f)'
  BY <1>1, <1>2 DEF Changes, Target
<1>. QED
  BY <1>1, <1>2 DEF Altered, Recreated

\* Stops are never undone.
LEMMA StopsStay == ASSUME Base, [Next]_vars, stops > 0 PROVE stops' > 0
<1>1. stops \in Int
  BY DEF Base, TypeOK
<1>2. ASSUME NEW c \in Commands, Handle(c) PROVE stops' = stops
  BY <1>2, WorkFacts DEF Works
<1>3. stops' = stops \/ stops' = stops + 1
  BY <1>2 DEF Next, vars, Start, TakeCopy, WriteRoles, WriteTokens, Stop, Send, Deliver, GiveUp
<1>. QED
  BY <1>1, <1>3

\* Roles that are left alone, or lose a field only to another command or to the load of a
\* top_k of 0, hold what they held.
LEMMA HeldStays ==
  ASSUME Base, [Next]_vars, NEW P, P \subseteq performed, NEW R, Held(P, R), NEW S,
         \A c \in P : \A n \in DOMAIN R : \A f \in Fields :
           \/ n \in DOMAIN S /\ Reads(S[n][f], f, R[n][f], stops)
           \/ Altered(c, n, f),
         \A c \in P : \A n \in DOMAIN S :
           n \in DOMAIN R \/ n \in DefaultNames \/ Recreated(c, n)
  PROVE  NextHeld(P, S)
<1>. SUFFICES ASSUME NEW c \in P, NEW q, q = cmd'[c].req, Plain(q)
     PROVE  /\ q.verb \in {"create", "update"} =>
                 \A f \in Fields :
                   \/ q[f] = Nil
                   \/ q.name \in DOMAIN S /\ Reads(S[q.name][f], f, q[f], stops')
                   \/ Altered(c, q.name, f)'
            /\ q.verb = "delete" =>
                 /\ q.name \notin DefaultNames
                 /\ q.name \notin DOMAIN S \/ Recreated(c, q.name)'
  BY DEF NextHeld
<1>1. c \in Commands /\ Sent(c) /\ q = cmd[c].req
  BY DoneFacts, SentStays
<1>2. RoleStays(c, R)
  BY <1>1 DEF Held
<1>3. /\ \A f : Altered(c, q.name, f) => Altered(c, q.name, f)'
      /\ Recreated(c, q.name) => Recreated(c, q.name)'
      /\ stops > 0 => stops' > 0
  BY <1>1, AlteredStays, StopsStay
<1>4. ASSUME q.verb \in {"create", "update"}, NEW f \in Fields
      PROVE  \/ q[f] = Nil
             \/ q.name \in DOMAIN S /\ Reads(S[q.name][f], f, q[f], stops')
             \/ Altered(c, q.name, f)'
  <2>1. \/ q[f] = Nil
        \/ q.name \in DOMAIN R /\ Reads(R[q.name][f], f, q[f], stops)
        \/ Altered(c, q.name, f)
    BY <1>1, <1>2, <1>4 DEF RoleStays
  <2>2. CASE q.name \in DOMAIN R /\ Reads(R[q.name][f], f, q[f], stops)
    <3>1. \/ q.name \in DOMAIN S /\ Reads(S[q.name][f], f, R[q.name][f], stops)
          \/ Altered(c, q.name, f)
      BY <2>2
    <3>. QED
      BY <1>3, <2>2, <3>1 DEF Reads
  <2>. QED
    BY <1>3, <2>1, <2>2
<1>5. ASSUME q.verb = "delete"
      PROVE  /\ q.name \notin DefaultNames
             /\ q.name \notin DOMAIN S \/ Recreated(c, q.name)'
  <2>1. q.name \notin DefaultNames /\ (q.name \notin DOMAIN R \/ Recreated(c, q.name))
    BY <1>1, <1>2, <1>5 DEF RoleStays
  <2>. QED
    BY <1>3, <2>1
<1>. QED
  BY <1>4, <1>5

\* What a start reads differs from the files in a top_k of 0 and the default roles.
LEMMA LoadedFields ==
  ASSUME Base
  PROVE  /\ \A n \in DOMAIN RolesOnDisk : \A f \in Fields :
              /\ n \in DOMAIN LoadedRoles
              /\ Reads(LoadedRoles[n][f], f, RolesOnDisk[n][f], 1)
         /\ \A n \in DOMAIN LoadedRoles : n \in DOMAIN RolesOnDisk \/ n \in DefaultNames
<1>1. CASE rolesFile = Nil
  BY <1>1 DEF LoadedRoles, RolesOnDisk, DefaultRoles, Reads
<1>2. CASE rolesFile # Nil
  <2>1. \A n \in DOMAIN rolesFile : rolesFile[n] \in Role
    BY <1>2 DEF Base, TypeOK, IsRoles
  <2>2. ASSUME NEW r \in Role, NEW f \in Fields
        PROVE  Reads(LoadedRole(r)[f], f, r[f], 1)
    BY <2>2 DEF LoadedRole, Role, Fields, Reads
  <2>3. RolesOnDisk = rolesFile /\ DOMAIN LoadedRoles = DOMAIN rolesFile \cup DefaultNames
        /\ \A n \in DOMAIN rolesFile : LoadedRoles[n] = LoadedRole(rolesFile[n])
    BY <1>2 DEF LoadedRoles, RolesOnDisk
  <2>. QED
    BY <2>1, <2>2, <2>3
<1>. QED
  BY <1>1, <1>2

\* Roles that are left alone.
LEMMA HeldQuiet ==
  ASSUME Base, [Next]_vars, NEW P, P \subseteq performed, NEW R, Held(P, R)
  PROVE  NextHeld(P, R)
<1>1. \A c \in P : \A n \in DOMAIN R : \A f \in Fields :
        \/ n \in DOMAIN R /\ Reads(R[n][f], f, R[n][f], stops)
        \/ Altered(c, n, f)
  BY DEF Reads
<1>2. \A c \in P : \A n \in DOMAIN R : n \in DOMAIN R \/ n \in DefaultNames \/ Recreated(c, n)
  OBVIOUS
<1>. QED
  BY <1>1, <1>2, HeldStays

\* All of it, when nothing is changed.
LEMMA QuietHeld ==
  ASSUME Base, [Next]_vars, RolesHeld
  PROVE  /\ up => NextHeld(performed, roles)
         /\ \A w \in Writers : NextHeld(writer[w].performed, writer[w].roles)
         /\ NextHeld(saved, RolesOnDisk)
<1>1. saved \subseteq performed /\ \A w \in Writers : writer[w].performed \subseteq performed
  BY DoneFacts
<1>. QED
  BY <1>1, HeldQuiet DEF RolesHeld

\* A start and a stop.
LEMMA RestartHeld ==
  ASSUME Base, [Next]_vars, RolesHeld, Start \/ Stop
  PROVE  RolesHeld'
<1>1. Running /\ NextHeld(saved, RolesOnDisk)
  BY QuietHeld DEF Base
<1>2. /\ saved' = saved /\ rolesFile' = rolesFile /\ RolesOnDisk' = RolesOnDisk
      /\ \A w \in Writers : writer'[w] = Idle
  BY <1>1 DEF Start, Stop, files, history, Running, RolesOnDisk
<1>3. \A w \in Writers : NextHeld(writer'[w].performed, writer'[w].roles)
  BY <1>2, IdleTyped DEF NextHeld
<1>4. CASE Start
  <2>1. performed' = saved /\ roles' = LoadedRoles
    BY <1>4 DEF Start
  <2>2. \A c \in saved : stops > 0
    BY <1>1, <1>4 DEF Start, Running
  <2>3. \A c \in saved : \A n \in DOMAIN RolesOnDisk : \A f \in Fields :
          n \in DOMAIN LoadedRoles /\ Reads(LoadedRoles[n][f], f, RolesOnDisk[n][f], stops)
    BY <2>2, LoadedFields DEF Reads
  <2>4. saved \subseteq performed /\ Held(saved, RolesOnDisk)
    BY DoneFacts DEF RolesHeld
  <2>5. NextHeld(saved, LoadedRoles)
    BY <2>3, <2>4, LoadedFields, HeldStays
  <2>. QED
    BY <1>1, <1>2, <1>3, <2>1, <2>5, HeldNext
<1>5. CASE Stop
  <2>1. ~up'
    BY <1>5 DEF Stop
  <2>. QED
    BY <1>1, <1>2, <1>3, <2>1, HeldNext
<1>. QED
  BY <1>4, <1>5

\* A writer's step: the file of the roles gets the roles of the copy, with the commands
\* that are in them.
LEMMA WriteHeld ==
  ASSUME Base, [Next]_vars, RolesHeld, NEW w \in Writers,
         TakeCopy(w) \/ WriteRoles(w) \/ WriteTokens(w)
  PROVE  RolesHeld'
<1>1. TypeOK /\ Running
  BY DEF Base
<1>2. UNCHANGED <<up, roles, cmd, performed>> /\ up
  BY <1>1, WriteChanges
<1>3. /\ NextHeld(performed, roles)
      /\ \A v \in Writers : NextHeld(writer[v].performed, writer[v].roles)
      /\ NextHeld(saved, RolesOnDisk)
  BY <1>2, QuietHeld
<1>4. ASSUME NEW v \in Writers PROVE NextHeld(writer'[v].performed, writer'[v].roles)
  <2>1. \/ writer'[v].performed = writer[v].performed /\ writer'[v].roles = writer[v].roles
        \/ writer'[v].performed = performed /\ writer'[v].roles = roles
        \/ writer'[v].performed = {}
    BY <1>1, CopyTaken, CopyMovesOn, CopyIsDone, IdleTyped
  <2>2. writer'[v].performed = {} => NextHeld(writer'[v].performed, writer'[v].roles)
    BY DEF NextHeld
  <2>. QED
    BY <1>3, <2>1, <2>2
<1>5. NextHeld(saved', RolesOnDisk')
  <2>1. ASSUME NEW P, NEW R, NextHeld(P, R),
               \A c \in saved' : c \in P \/ cmd[c].req.verb \in TokenVerbs
        PROVE  NextHeld(saved', R)
    <3>1. \A c \in saved' : \A q :
            q = cmd'[c].req /\ q.verb \in {"create", "update", "delete"} => c \in P
      BY <1>2, <2>1 DEF TokenVerbs
    <3>. QED
      BY <2>1, <3>1 DEF NextHeld
  <2>2. CASE TakeCopy(w)
    BY <1>3, <2>2 DEF TakeCopy, files, RolesOnDisk
  <2>3. CASE WriteRoles(w) /\ UNCHANGED <<rolesFile, saved>>
    BY <1>3, <2>3 DEF RolesOnDisk
  <2>4. CASE /\ WriteRoles(w) /\ rolesFile' = writer[w].roles
             /\ saved' = Of(saved, TokenVerbs) \cup Of(writer[w].performed, RoleVerbs)
    <3>1. RolesOnDisk' = writer[w].roles
      BY <1>1, <2>4, TableIsSome DEF RolesOnDisk, TypeOK, IsCopy
    <3>2. \A c \in saved' : c \in writer[w].performed \/ cmd[c].req.verb \in TokenVerbs
      BY <2>4, OfSubset
    <3>. QED
      BY <1>3, <2>1, <3>1, <3>2
  <2>5. CASE WriteTokens(w)
    <3>1. RolesOnDisk' = RolesOnDisk
      BY <2>5 DEF WriteTokens, RolesOnDisk
    <3>2. \A c \in saved' : c \in saved \/ cmd[c].req.verb \in TokenVerbs
      BY <2>5, OfSubset DEF WriteTokens
    <3>. QED
      BY <1>3, <2>1, <3>1, <3>2
  <2>. QED
    BY <2>2, <2>3, <2>4, <2>5 DEF WriteRoles
<1>. QED
  BY <1>2, <1>3, <1>4, <1>5, HeldNext

\* A client's step, and none.
LEMMA ClientHeld ==
  ASSUME Base, [Next]_vars, RolesHeld,
         UNCHANGED <<up, roles, writer, rolesFile, performed, saved>>
  PROVE  RolesHeld'
BY QuietHeld, HeldNext DEF RolesOnDisk

\* A handler's step: its own command has what it asked for, the others what they had.
LEMMA HandleHeld ==
  ASSUME Base, [Next]_vars, RolesHeld, NEW c \in Commands, Handle(c)
  PROVE  RolesHeld'
<1>1. RoleWork(c) /\ up /\ Sent(c) /\ c \notin performed
      /\ UNCHANGED <<up, writer, rolesFile, cmd, saved>>
      /\ (performed' = performed \/ performed' = performed \cup {c})
  BY HandleRoles, WorkFacts DEF Base, Works, files
<1>2. \A w \in Writers : NextHeld(writer[w].performed, writer[w].roles)
  BY QuietHeld
<1>3. NextHeld(saved, RolesOnDisk)
  BY QuietHeld
<1>4. NextHeld(performed, roles)
  BY <1>1, QuietHeld
<1>5. \A d \in performed : c \in Others(d)
  BY <1>1, DoneFacts DEF Others, Sent
<1>6. \A d \in performed : \A n \in DOMAIN roles : \A f \in Fields :
        \/ n \in DOMAIN roles' /\ Reads(roles'[n][f], f, roles[n][f], stops)
        \/ Altered(d, n, f)
  BY <1>1, <1>5 DEF RoleWork, Altered, Reads
<1>7. \A d \in performed : \A n \in DOMAIN roles' : n \in DOMAIN roles \/ Recreated(d, n)
  BY <1>1, <1>5 DEF RoleWork, Recreated
<1>8. NextHeld(performed, roles')
  BY <1>1, <1>6, <1>7, HeldStays DEF RolesHeld
<1>9. NextHeld(performed', roles')
  <2>1. CASE performed' = performed
    BY <1>8, <2>1
  <2>2. CASE performed' # performed
    <3>1. ASSUME NEW q, q = cmd'[c].req, Plain(q)
          PROVE  /\ q.verb \in {"create", "update"} =>
                      \A f \in Fields :
                        q[f] = Nil \/ (q.name \in DOMAIN roles' /\ roles'[q.name][f] = q[f])
                 /\ q.verb = "delete" => q.name \notin DefaultNames /\ q.name \notin DOMAIN roles'
      BY <1>1, <2>2, <3>1 DEF RoleWork, Plain
    <3>2. NextHeld({c}, roles')
      BY <3>1 DEF NextHeld, Reads
    <3>. QED
      BY <1>1, <1>8, <2>2, <3>2 DEF NextHeld
  <2>. QED
    BY <2>1, <2>2
<1>. QED
  BY <1>1, <1>2, <1>3, <1>9, HeldNext DEF RolesOnDisk

\* The roles hold what they were given, throughout.
LEMMA RolesHeldAlways == Spec => []RolesHeld
<1>1. Init => RolesHeld
  BY IdleTyped DEF Init, RolesHeld, Held
<1>2. Base /\ RolesHeld /\ [Next]_vars => RolesHeld'
  <2>. SUFFICES ASSUME Base, RolesHeld, [Next]_vars PROVE RolesHeld'
    OBVIOUS
  <2>1. ASSUME UNCHANGED vars \/ \E c \in Commands :
                 (\E q \in Requests : Send(c, q)) \/ Deliver(c) \/ GiveUp(c)
        PROVE  UNCHANGED <<up, roles, writer, rolesFile, performed, saved>>
    BY <2>1 DEF vars, Send, Deliver, GiveUp, tables, persist, files, history
  <2>. QED
    BY <2>1, RestartHeld, WriteHeld, ClientHeld, HandleHeld DEF Next
<1>. QED
  BY <1>1, <1>2, Based, PTL DEF Spec

\* What an operator was told holds until another command undoes it: a string that was
\* shown stays valid, a role has the fields it was given, and two updates of different
\* fields of one role both last.  Over a restart, of what had reached the files, all but
\* a top_k of 0, which is 5 afterwards.
THEOREM ToldLasts == Spec => []ToldHolds
<1>1. Base /\ AllLasting /\ RolesHeld => ToldHolds
  <2>. SUFFICES ASSUME Base, AllLasting, RolesHeld, up, NEW c \in Told
                PROVE  StringsHold(c) /\ RoleHolds(c)
    BY DEF ToldHolds
  <2>1. c \in performed /\ Plain(cmd[c].req)
    BY DEF Told
  <2>2. /\ cmd[c].req.verb \in TokenVerbs => Stays(c, tokens)
        /\ RoleStays(c, roles)
    BY <2>1 DEF AllLasting, Lasting, RolesHeld, Held
  <2>3. StringsHold(c)
    BY <2>2 DEF Stays, Asked, StringsHold, Valid
  <2>4. RoleHolds(c)
    BY <2>2 DEF RoleStays, RoleHolds, FieldHolds, Reads, ReadBack, Altered, Recreated
  <2>. QED
    BY <2>3, <2>4
<1>. QED
  BY <1>1, Based, AllLastingAlways, RolesHeldAlways, PTL

-----------------------------------------------------------------------------
(* A token whose role is missing was to be revoked.                        *)

\* What a handler does to the tokens: it drops the user it was asked to revoke, and
\* leaves no token without a role that had one.
TokenWork(c) ==
  /\ \A u \in DOMAIN tokens :
       \/ u \in DOMAIN tokens' /\ tokens'[u].role = tokens[u].role
       \/ cmd[c].req.verb = "revoke" /\ Target(cmd[c].req) = u
  /\ \A u \in DOMAIN tokens' :
       \/ tokens'[u].role \in DOMAIN roles'
       \/ /\ u \in DOMAIN tokens /\ tokens[u].role = tokens'[u].role
          /\ tokens[u].role \notin DOMAIN roles

\* The routes, one by one.
LEMMA HandleTokens ==
  ASSUME TypeOK, NEW c \in Commands, Stage(c), Handle(c)
  PROVE  TokenWork(c)
<1>. DEFINE q == cmd[c].req
            user == Target(q)
<1>1. IsTokens(tokens) /\ IsRoles(roles)
  BY DEF TypeOK
<1>2. ASSUME NEW verb, Accepted(c, verb) PROVE q \in Requests /\ q.verb = verb
  BY <1>2, AcceptedHas
<1>3. ASSUME tokens' = tokens, DOMAIN roles \subseteq DOMAIN roles' PROVE TokenWork(c)
  BY <1>3 DEF TokenWork
<1>4. ASSUME NEW status, Refuse(c, status) PROVE TokenWork(c)
  BY <1>3, <1>4 DEF Refuse, tables
<1>5. CASE AddToken(c)
  <2>1. q.name \in Users /\ q.role \in RoleNames
    BY <1>2, <1>5, RequestsAssumption DEF AddToken
  <2>2. CASE /\ q.role \in DOMAIN roles /\ q.name \notin DOMAIN tokens /\ roles' = roles
             /\ tokens' = Issued(tokens, q.name, c, q.role)
    <3>1. /\ \A v : v \in DOMAIN tokens' <=> v \in DOMAIN tokens \/ v = q.name
          /\ tokens'[q.name].role = q.role /\ \A v \in DOMAIN tokens : tokens'[v] = tokens[v]
      <4>. HIDE DEF q
      <4>. QED
        BY <1>1, <2>1, <2>2, StringsAdded
    <3>. QED
      BY <2>2, <3>1 DEF TokenWork
  <2>. QED
    BY <1>4, <1>5, <2>2 DEF AddToken, Issued
<1>6. CASE RevokeToken(c)
  <2>1. q.verb = "revoke"
    BY <1>2, <1>6 DEF RevokeToken
  <2>2. CASE tokens' = Removed(tokens, user) /\ roles' = roles
    <3>1. /\ \A v : v \in DOMAIN tokens' <=> v \in DOMAIN tokens /\ v # user
          /\ \A v \in DOMAIN tokens' : tokens'[v] = tokens[v]
      BY <1>1, <2>2, StringsRemoved
    <3>. QED
      BY <2>1, <2>2, <3>1 DEF TokenWork
  <2>. QED
    BY <1>3, <1>6, <2>2 DEF RevokeToken, Removed, tables
<1>7. ASSUME NEW u \in DOMAIN tokens, tokens' = Replaced(tokens, u, c), roles' = roles
      PROVE  TokenWork(c)
  <2>1. DOMAIN tokens' = DOMAIN tokens
        /\ \A v \in DOMAIN tokens : tokens'[v].role = tokens[v].role
    BY <1>1, <1>7, StringsRotated
  <2>. QED
    BY <1>7, <2>1 DEF TokenWork
<1>8. CASE RotateToken(c)
  BY <1>4, <1>7, <1>8 DEF RotateToken, Rotated, Replaced
<1>9. CASE RotateAll(c)
  BY <1>3, <1>4, <1>7, <1>9 DEF RotateAll, RotateAllBegin, RotateAllEnd, RotateAllStep,
                               RotateAllFail, Rotated, Replaced, tables
<1>10. CASE AddRole(c)
  BY <1>3, <1>4, <1>10 DEF AddRole, With
<1>11. CASE UpdateRole(c)
  BY <1>3, <1>4, <1>11 DEF UpdateRole
<1>12. CASE DeleteRole(c)
  <2>1. CASE /\ \A u \in DOMAIN tokens : tokens[u].role # user
             /\ roles' = Removed(roles, user) /\ tokens' = tokens
    <3>1. \A m : m \in DOMAIN roles' <=> m \in DOMAIN roles /\ m # user
      <4>. HIDE DEF user
      <4>. QED
        BY <1>1, <2>1, RoleRemoved
    <3>. QED
      BY <2>1, <3>1 DEF TokenWork
  <2>. QED
    BY <1>4, <1>12, <2>1 DEF DeleteRole, Removed
<1>13. CASE NoRoute(c)
  BY <1>4, <1>13 DEF NoRoute
<1>. QED
  BY <1>5, <1>6, <1>8, <1>9, <1>10, <1>11, <1>12, <1>13 DEF Handle

\* An operator has asked for the token of u to be revoked.
Revoked(u) == \E c \in Commands : /\ cmd[c].pc # "unsent" /\ cmd[c].req.verb = "revoke"
                                  /\ Target(cmd[c].req) = u

\* Every token of t has its role among R, and is still there, or was to be revoked.
Covered(t, R) == \A u \in DOMAIN t : t[u].role \in DOMAIN R \/ Revoked(u)
Kept(t) ==
  \A u \in DOMAIN t : (u \in DOMAIN tokens /\ tokens[u].role = t[u].role) \/ Revoked(u)

\* As long as no write of the roles failed and no two writers overlapped, nothing that
\* is in the files or on its way there leaves the tables unless it was revoked: so roles
\* that are written cover the tokens on disk, which are older.
Orphans ==
  orderly =>
    /\ \A v, w \in Writers : writer[v].next # "none" /\ writer[w].next # "none" => v = w
    /\ Covered(tokens, roles)
    /\ Covered(LoadedTokens, RolesOnDisk)
    /\ up => Kept(LoadedTokens)
    /\ \A w \in Writers :
         /\ Kept(writer[w].tokens) /\ Covered(writer[w].tokens, writer[w].roles)
         /\ writer[w].next = "roles" => Covered(LoadedTokens, writer[w].roles)
         /\ writer[w].next = "tokens" => Covered(writer[w].tokens, RolesOnDisk)

\* Who was to be revoked remains so.
LEMMA RevokedStays ==
  ASSUME Base, [Next]_vars, NEW u, Revoked(u)
  PROVE  Revoked(u)'
<1>1. PICK c \in Commands : Sent(c) /\ cmd[c].req.verb = "revoke" /\ Target(cmd[c].req) = u
  BY DEF Revoked, Sent
<1>2. Sent(c)' /\ cmd'[c].req = cmd[c].req
  BY <1>1, SentStays
<1>. QED
  BY <1>1, <1>2 DEF Revoked, Sent, Target

\* Covered and Kept after a step, of tables.
NextCovered(t, R) == \A u \in DOMAIN t : t[u].role \in DOMAIN R \/ Revoked(u)'
NextKept(t, s) ==
  \A u \in DOMAIN t : (u \in DOMAIN s /\ s[u].role = t[u].role) \/ Revoked(u)'

\* What Orphans says of a copy after a step.
NextCopy(k, s, t, R) ==
  /\ NextKept(k.tokens, s) /\ NextCovered(k.tokens, k.roles)
  /\ k.next = "roles" => NextCovered(t, k.roles)
  /\ k.next = "tokens" => NextCovered(k.tokens, R)

\* Orphans after a step, by its parts.
LEMMA OrphansNext ==
  ASSUME orderly' =>
           \A v, w \in Writers : writer'[v].next # "none" /\ writer'[w].next # "none" => v = w,
         orderly' => NextCovered(tokens', roles'),
         orderly' => NextCovered(LoadedTokens', RolesOnDisk'),
         orderly' /\ up' => NextKept(LoadedTokens', tokens'),
         orderly' => \A w \in Writers : NextCopy(writer'[w], tokens', LoadedTokens', RolesOnDisk')
  PROVE  Orphans'
<1>. SUFFICES ASSUME orderly'
     PROVE  /\ \A v, w \in Writers : writer'[v].next # "none" /\ writer'[w].next # "none" => v = w
            /\ Covered(tokens, roles)'
            /\ Covered(LoadedTokens, RolesOnDisk)'
            /\ up' => Kept(LoadedTokens)'
            /\ \A w \in Writers :
                 /\ Kept(writer[w].tokens)' /\ Covered(writer[w].tokens, writer[w].roles)'
                 /\ writer'[w].next = "roles" => Covered(LoadedTokens, writer[w].roles)'
                 /\ writer'[w].next = "tokens" => Covered(writer[w].tokens, RolesOnDisk)'
  BY DEF Orphans
<1>1. Covered(tokens, roles)' /\ Covered(LoadedTokens, RolesOnDisk)' /\ (up' => Kept(LoadedTokens)')
  BY DEF NextCovered, NextKept, Covered, Kept
<1>2. ASSUME NEW w \in Writers
      PROVE  /\ Kept(writer[w].tokens)' /\ Covered(writer[w].tokens, writer[w].roles)'
             /\ writer'[w].next = "roles" => Covered(LoadedTokens, writer[w].roles)'
             /\ writer'[w].next = "tokens" => Covered(writer[w].tokens, RolesOnDisk)'
  <2>1. NextCopy(writer'[w], tokens', LoadedTokens', RolesOnDisk')
    OBVIOUS
  <2>. QED
    BY <2>1 DEF NextCopy, NextCovered, NextKept, Covered, Kept
<1>. QED
  BY <1>1, <1>2

\* The tokens of a writer that has nothing to write.
LEMMA IdleCopy ==
  ASSUME NEW s, NEW t, NEW R
  PROVE  NextCopy(Idle, s, t, R)
<1>1. Idle.tokens = <<>> /\ Idle.next = "none"
  BY DEF Idle
<1>2. \A Q : NextKept(<<>>, s) /\ NextCovered(<<>>, Q)
  BY DEF NextKept, NextCovered
<1>. QED
  BY <1>1, <1>2 DEF NextCopy

\* The tables that are left alone.
LEMMA QuietOrphans ==
  ASSUME Base, [Next]_vars, Orphans, orderly
  PROVE  /\ \A t, R : Covered(t, R) => NextCovered(t, R)
         /\ \A t : Kept(t) => NextKept(t, tokens)
         /\ NextCovered(tokens, roles) /\ NextCovered(LoadedTokens, RolesOnDisk)
         /\ up => NextKept(LoadedTokens, tokens)
         /\ \A w \in Writers : NextCopy(writer[w], tokens, LoadedTokens, RolesOnDisk)
<1>1. \A u : Revoked(u) => Revoked(u)'
  BY RevokedStays
<1>2. \A t, R : Covered(t, R) => NextCovered(t, R)
  BY <1>1 DEF Covered, NextCovered
<1>3. \A t : Kept(t) => NextKept(t, tokens)
  BY <1>1 DEF Kept, NextKept
<1>4. \A w \in Writers : NextCopy(writer[w], tokens, LoadedTokens, RolesOnDisk)
  BY <1>2, <1>3 DEF NextCopy, Orphans
<1>. QED
  BY <1>2, <1>3, <1>4 DEF Orphans

\* A start and a stop.
LEMMA RestartOrphans ==
  ASSUME Base, [Next]_vars, Orphans, Start \/ Stop
  PROVE  Orphans'
<1>1. Running
  BY DEF Base
<1>2. /\ orderly' = orderly /\ LoadedTokens' = LoadedTokens /\ RolesOnDisk' = RolesOnDisk
      /\ \A w \in Writers : writer'[w] = Idle
  BY <1>1 DEF Start, Stop, files, history, Running, LoadedTokens, RolesOnDisk
<1>3. \/ tokens' = LoadedTokens /\ roles' = LoadedRoles
      \/ tokens' = <<>> /\ ~up'
  BY DEF Start, Stop
<1>4. DOMAIN RolesOnDisk \subseteq DOMAIN LoadedRoles
  BY DEF RolesOnDisk, LoadedRoles
<1>5. \A w \in Writers : NextCopy(writer'[w], tokens', LoadedTokens', RolesOnDisk')
  BY <1>2, IdleCopy
<1>6. \A v, w \in Writers : ~(writer'[v].next # "none" /\ writer'[w].next # "none")
  BY <1>2 DEF Idle
<1>7. ASSUME orderly
      PROVE  /\ NextCovered(tokens', roles') /\ NextCovered(LoadedTokens, RolesOnDisk)
             /\ up' => NextKept(LoadedTokens, tokens')
  <2>1. NextCovered(LoadedTokens, RolesOnDisk)
    BY <1>7, QuietOrphans
  <2>2. NextCovered(LoadedTokens, LoadedRoles)
    BY <1>4, <2>1 DEF NextCovered
  <2>3. NextKept(LoadedTokens, LoadedTokens) /\ \A R : NextCovered(<<>>, R)
    BY DEF NextKept, NextCovered
  <2>. QED
    BY <1>3, <2>1, <2>2, <2>3
<1>. QED
  BY <1>2, <1>5, <1>6, <1>7, OrphansNext

\* A copy is taken: of a table that its roles cover, and the file's tokens too.
LEMMA TakeOrphans ==
  ASSUME Base, [Next]_vars, Orphans, NEW w \in Writers, TakeCopy(w)
  PROVE  Orphans'
<1>1. TypeOK /\ Running
  BY DEF Base
<1>2. UNCHANGED <<up, roles, tokens>> /\ up
  BY <1>1, WriteChanges
<1>3. LoadedTokens' = LoadedTokens /\ RolesOnDisk' = RolesOnDisk
  BY DEF TakeCopy, files, LoadedTokens, RolesOnDisk
<1>4. orderly' => orderly /\ \A v \in Writers : writer[v].next = "none"
  BY DEF TakeCopy
<1>5. ASSUME orderly' PROVE NextCopy(writer'[w], tokens, LoadedTokens, RolesOnDisk)
  <2>1. NextCovered(tokens, roles) /\ NextKept(LoadedTokens, tokens)
    BY <1>2, <1>4, <1>5, QuietOrphans
  <2>2. NextKept(tokens, tokens)
    BY DEF NextKept
  <2>3. NextCovered(LoadedTokens, roles)
    BY <2>1 DEF NextCovered, NextKept
  <2>. QED
    BY <1>1, <2>1, <2>2, <2>3, CopyTaken DEF NextCopy
<1>6. ASSUME orderly', NEW v \in Writers
      PROVE  NextCopy(writer'[v], tokens, LoadedTokens, RolesOnDisk)
  <2>1. CASE v = w
    BY <1>5, <1>6, <2>1
  <2>2. CASE v # w
    BY <1>1, <1>4, <1>6, <2>2, CopyTaken, QuietOrphans
  <2>. QED
    BY <2>1, <2>2
<1>7. orderly' =>
        \A v, x \in Writers : writer'[v].next # "none" /\ writer'[x].next # "none" => v = x
  BY <1>1, <1>4, CopyTaken
<1>. QED
  BY <1>2, <1>3, <1>4, <1>6, <1>7, QuietOrphans, OrphansNext

\* The roles are written: nobody else is writing.
LEMMA RolesOrphans ==
  ASSUME Base, [Next]_vars, Orphans, NEW w \in Writers, WriteRoles(w)
  PROVE  Orphans'
<1>1. TypeOK /\ Running
  BY DEF Base
<1>2. UNCHANGED <<up, roles, tokens>> /\ LoadedTokens' = LoadedTokens
  BY <1>1, WriteChanges DEF WriteRoles, LoadedTokens
<1>3. orderly' => orderly /\ rolesFile' = writer[w].roles
  BY DEF WriteRoles
<1>4. orderly' => RolesOnDisk' = writer[w].roles
  BY <1>1, <1>3, TableIsSome DEF RolesOnDisk, TypeOK, IsCopy
<1>5. /\ writer[w].next = "roles" /\ writer'[w].next = "tokens"
      /\ writer'[w].tokens = writer[w].tokens /\ writer'[w].roles = writer[w].roles
      /\ \A v \in Writers : v # w => writer'[v] = writer[v]
  BY <1>1, CopyMovesOn
<1>6. orderly' => \A v \in Writers : v # w => writer'[v].next = "none"
  BY <1>3, <1>5 DEF Orphans
<1>7. ASSUME orderly', NEW v \in Writers
      PROVE  NextCopy(writer'[v], tokens', LoadedTokens', RolesOnDisk')
  <2>1. NextCopy(writer[v], tokens, LoadedTokens, RolesOnDisk)
    BY <1>3, <1>7, QuietOrphans
  <2>2. CASE v = w
    BY <1>2, <1>4, <1>5, <1>7, <2>1, <2>2 DEF NextCopy
  <2>3. CASE v # w
    BY <1>2, <1>5, <1>6, <1>7, <2>1, <2>3 DEF NextCopy
  <2>. QED
    BY <2>2, <2>3
<1>8. orderly' => NextCovered(LoadedTokens, writer[w].roles)
  BY <1>3, <1>5, QuietOrphans DEF NextCopy
<1>9. orderly' =>
        \A v, x \in Writers : writer'[v].next # "none" /\ writer'[x].next # "none" => v = x
  BY <1>6
<1>. QED
  BY <1>2, <1>3, <1>4, <1>7, <1>8, <1>9, QuietOrphans, OrphansNext

\* The tokens are written, or not.
LEMMA TokensOrphans ==
  ASSUME Base, [Next]_vars, Orphans, NEW w \in Writers, WriteTokens(w)
  PROVE  Orphans'
<1>1. TypeOK /\ Running
  BY DEF Base
<1>2. UNCHANGED <<up, roles, tokens>> /\ orderly' = orderly /\ RolesOnDisk' = RolesOnDisk
  BY <1>1, WriteChanges DEF WriteTokens, RolesOnDisk
<1>3. LoadedTokens' = LoadedTokens \/ LoadedTokens' = writer[w].tokens
  BY <1>1, WriterStrings
<1>4. /\ writer[w].next = "tokens" /\ writer'[w] = Idle
      /\ \A v \in Writers : v # w => writer'[v] = writer[v]
  BY <1>1, CopyIsDone
<1>5. orderly => \A v \in Writers : v # w => writer'[v].next = "none"
  BY <1>4 DEF Orphans
<1>6. ASSUME orderly, NEW v \in Writers
      PROVE  NextCopy(writer'[v], tokens', LoadedTokens', RolesOnDisk')
  <2>1. NextCopy(writer[v], tokens, LoadedTokens, RolesOnDisk)
    BY <1>6, QuietOrphans
  <2>2. CASE v = w
    BY <1>4, <2>2, IdleCopy
  <2>3. CASE v # w
    BY <1>2, <1>4, <1>5, <1>6, <2>1, <2>3 DEF NextCopy
  <2>. QED
    BY <2>2, <2>3
<1>7. orderly => /\ NextCovered(LoadedTokens', RolesOnDisk)
                 /\ up => NextKept(LoadedTokens', tokens)
  BY <1>3, <1>4, QuietOrphans DEF NextCopy
<1>8. orderly =>
        \A v, x \in Writers : writer'[v].next # "none" /\ writer'[x].next # "none" => v = x
  BY <1>4, <1>5 DEF Idle
<1>. QED
  BY <1>2, <1>6, <1>7, <1>8, QuietOrphans, OrphansNext

\* A handler takes a token away only for a revocation, and a role only when no token
\* has it.
LEMMA HandleOrphans ==
  ASSUME Base, [Next]_vars, Orphans, NEW c \in Commands, Handle(c)
  PROVE  Orphans'
<1>1. TokenWork(c) /\ up /\ Sent(c)
      /\ UNCHANGED <<up, writer, rolesFile, tokensFile, cmd, orderly>>
  BY HandleTokens, WorkFacts DEF Base, Works, files
<1>2. LoadedTokens' = LoadedTokens /\ RolesOnDisk' = RolesOnDisk
  BY <1>1 DEF LoadedTokens, RolesOnDisk
<1>3. \A u \in DOMAIN tokens :
        (u \in DOMAIN tokens' /\ tokens'[u].role = tokens[u].role) \/ Revoked(u)
  BY <1>1 DEF TokenWork, Revoked, Sent
<1>4. \A u : Revoked(u) => Revoked(u)'
  BY RevokedStays
<1>5. orderly => NextCovered(tokens', roles')
  BY <1>1, <1>4 DEF TokenWork, NextCovered, Orphans, Covered
<1>6. ASSUME NEW t, Kept(t) PROVE NextKept(t, tokens')
  BY <1>3, <1>4, <1>6 DEF Kept, NextKept
<1>7. orderly => NextKept(LoadedTokens, tokens')
  BY <1>1, <1>6 DEF Orphans
<1>8. ASSUME orderly, NEW w \in Writers
      PROVE  NextCopy(writer[w], tokens', LoadedTokens, RolesOnDisk)
  <2>1. NextCopy(writer[w], tokens, LoadedTokens, RolesOnDisk)
    BY <1>8, QuietOrphans
  <2>2. NextKept(writer[w].tokens, tokens')
    BY <1>6, <1>8 DEF Orphans
  <2>. QED
    BY <2>1, <2>2 DEF NextCopy
<1>9. orderly =>
        \A v, w \in Writers : writer[v].next # "none" /\ writer[w].next # "none" => v = w
  BY DEF Orphans
<1>. QED
  BY <1>1, <1>2, <1>5, <1>7, <1>8, <1>9, QuietOrphans, OrphansNext

\* Every step keeps the tokens that are in the files, or on their way, covered.
LEMMA NextOrphans ==
  ASSUME Base, [Next]_vars, Orphans
  PROVE  Orphans'
<1>1. ASSUME UNCHANGED vars \/ \E c \in Commands :
               (\E q \in Requests : Send(c, q)) \/ Deliver(c) \/ GiveUp(c)
      PROVE  UNCHANGED <<up, tokens, roles, writer, rolesFile, tokensFile, orderly>>
  BY <1>1 DEF vars, Send, Deliver, GiveUp, tables, persist, files, history
<1>2. CASE UNCHANGED <<up, tokens, roles, writer, rolesFile, tokensFile, orderly>>
  <2>1. LoadedTokens' = LoadedTokens /\ RolesOnDisk' = RolesOnDisk
    BY <1>2 DEF LoadedTokens, RolesOnDisk
  <2>2. orderly =>
          \A v, w \in Writers : writer[v].next # "none" /\ writer[w].next # "none" => v = w
    BY DEF Orphans
  <2>. QED
    BY <1>2, <2>1, <2>2, QuietOrphans, OrphansNext
<1>. QED
  BY <1>1, <1>2, RestartOrphans, TakeOrphans, RolesOrphans, TokensOrphans, HandleOrphans
     DEF Next

\* A daemon that dies between the two writes may leave a token on disk whose role the
\* roles file no longer has; as long as no write of the roles has failed and no two
\* writers overlapped, an operator had asked for every such token to be revoked.
THEOREM OrphansOnlyRevoked == Spec => []OrphansWereRevoked
<1>1. Init => Orphans
  <2>1. ASSUME Init PROVE Covered(LoadedTokens, RolesOnDisk)
    <3>1. CASE tokensFile = Nil
      BY <3>1 DEF LoadedTokens, Covered
    <3>2. CASE /\ tokensFile = [u \in Users |-> [by |-> Nil, role |-> FirstRole[u]]]
               /\ rolesFile = [n \in RoleNames |-> DefaultRole]
      <4>1. DefaultRole \in Role
        BY DefaultRoleTyped
      <4>2. IsRoles(rolesFile)
        BY <3>2, <4>1 DEF IsRoles
      <4>3. RolesOnDisk = rolesFile
        BY <4>2, TableIsSome DEF RolesOnDisk
      <4>4. LoadedTokens = tokensFile \/ LoadedTokens = <<>>
        BY DEF LoadedTokens
      <4>5. \A u \in Users : FirstRole[u] \in RoleNames
        BY ConstantsAssumption
      <4>. QED
        BY <3>2, <4>3, <4>4, <4>5 DEF Covered
    <3>. QED
      BY <2>1, <3>1, <3>2 DEF Init
  <2>2. Init => ~up /\ tokens = <<>> /\ \A w \in Writers : writer[w] = Idle
    BY DEF Init
  <2>3. Idle.next = "none" /\ Idle.tokens = <<>>
    BY DEF Idle
  <2>. QED
    BY <2>1, <2>2, <2>3 DEF Orphans, Covered, Kept
<1>2. Orphans => OrphansWereRevoked
  BY DEF Orphans, Covered, Revoked, OrphansWereRevoked
<1>3. Base /\ Orphans /\ [Next]_vars => Orphans'
  BY NextOrphans
<1>. QED
  BY <1>1, <1>2, <1>3, Based, PTL DEF Spec

=============================================================================
