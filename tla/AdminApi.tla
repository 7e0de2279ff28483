------------------------------- MODULE AdminApi -------------------------------
(***************************************************************************)
(* The operator's commands (vault/internal/commands/token.go, role.go) and *)
(* the admin routes that serve them (vault/internal/server/admin.go), with *)
(* the daemon that may stop and start again in between.                    *)
(*                                                                         *)
(* A command is a process that sends one request and ends with its answer, *)
(* with an error of the transport, or after a time limit; a retry is       *)
(* another command.  Its handler is a goroutine of the daemon that works   *)
(* on when nobody waits any more.  An operation of the store is one        *)
(* action; rotate-all is one action per user.  The names and strings a     *)
(* request carries are abstract, the fields it leaves out are Nil.         *)
(*                                                                         *)
(* Some time after a change a doPersist copies both tables and writes the  *)
(* roles file, then the tokens file.  Several may be under way and any     *)
(* write may fail; the timers that call them are module Persistence.       *)
(***************************************************************************)
EXTENDS Integers, Functions

CONSTANTS
  Commands,      \* processes of the command line client
  Requests,      \* what they may ask for
  Users,         \* integers, for sort.Strings orders them
  RoleNames,
  DefaultNames,  \* the roles that DefaultRoles defines
  FirstRole,     \* user -> role, in the first tokens file
  CutTo,         \* the name that is left of a name in a URL; Nil: no name
  Methods,       \* the words a scope may hold, of which nothing is checked
  Full,          \* the scope of a default role
  Rates,         \* rate limits that rateLimitRE matches
  DefaultRate,
  Writers,       \* doPersist calls
  Nil,           \* no file; an absent field; an empty string
  MaxStops       \* bound: crashes and exits in one run

Names == Users \cup RoleNames
TokenVerbs == {"issue", "revoke", "rotate", "rotateAll"}
RoleVerbs == {"create", "update", "delete"}
Fields == {"scope", "topK", "rate"}
Outcomes == {"ok", "notFound", "refused", "failed"}

\* A command that has drawn a string, or Nil for the first file.
Drawers == Commands \cup {Nil}

\* No bound is put on a top_k.
Role == [scope : SUBSET Methods, topK : Int, rate : Rates]
Token == [by : Drawers, role : RoleNames]
IsRoles(t) == DOMAIN t \subseteq RoleNames /\ t \in [DOMAIN t -> Role]
IsTokens(t) == DOMAIN t \subseteq Users /\ t \in [DOMAIN t -> Token]

ASSUME ConstantsAssumption ==
  /\ Users \subseteq Int
  /\ DefaultNames \subseteq RoleNames
  /\ FirstRole \in [Users -> RoleNames]
  /\ CutTo \in [Names -> Names \cup {Nil}]
  /\ Full \subseteq Methods /\ DefaultRate \in Rates
  /\ MaxStops \in Nat
  /\ Nil \notin Rates \cup Names \cup Commands /\ Nil \notin Outcomes
  /\ \A D \in SUBSET RoleNames : Nil \notin [D -> Role]
  /\ \A D \in SUBSET Users : Nil \notin [D -> Token]

ASSUME RequestsAssumption ==
  \A q \in Requests :
    /\ q.verb \in TokenVerbs \cup RoleVerbs
    /\ q.verb \in {"issue", "revoke", "rotate"} => q.name \in Users
    /\ q.verb = "issue" => q.role \in RoleNames
    /\ q.verb \in RoleVerbs => q.name \in RoleNames
    /\ q.verb = "create" => q.scope \in SUBSET Methods /\ q.topK \in Int
    /\ q.verb = "update" =>
         /\ q.scope \in (SUBSET Methods) \cup {Nil} /\ q.topK \in Int \cup {Nil}

VARIABLES
  up,            \* whether the daemon runs
  roles,         \* role name -> role, while it runs
  tokens,        \* user -> token: the command that drew its string, and its role
  pending,       \* a persist is scheduled
  writer,        \* doPersist -> its copy of the tables, and the file it writes next
  rolesFile, tokensFile,
  cmd,           \* command -> how far it is, what it asked for, what it was told
  handler,       \* command -> the handler of its request
  stops,
  performed,     \* history: commands whose effect is in the tables, or was undone
  saved,         \* history: those of them whose effect is in the file of their table
  orderly        \* history: no copy was taken during another's writes, and no write
                 \* of the roles failed

tables == <<roles, tokens>>
persist == <<pending, writer>>
files == <<rolesFile, tokensFile>>
history == <<performed, saved, orderly>>
vars == <<up, tables, persist, files, cmd, handler, stops, history>>

\* The table with one more entry.
With(table, key, entry) ==
  [k \in DOMAIN table \cup {key} |-> IF k = key THEN entry ELSE table[k]]

\* A string is named by its user and the command that drew it, for 16 random
\* bytes never repeat; Nil drew those of the first files.
Strings(holders) == {<<u, holders[u].by>> : u \in DOMAIN holders}
Valid == Strings(tokens)

\* What a command that ends in an error had seen before is of no account.
EndedInError(c, outcome) ==
  [cmd[c] EXCEPT !.pc = "ended", !.outcome = outcome, !.before = {}]

Unsent == [pc |-> "unsent", req |-> Nil, before |-> {}, outcome |-> Nil, shown |-> {}]
NoHandler == [pc |-> "none", todo |-> {}, drawn |-> {}, status |-> Nil]
Idle == [next |-> "none", roles |-> <<>>, tokens |-> <<>>, performed |-> {}]
-----------------------------------------------------------------------------
(* The daemon and its files.                                               *)

\* What tells the default roles apart is of no account here.
DefaultRole == [scope |-> Full, topK |-> 10, rate |-> DefaultRate]
DefaultRoles == [n \in DefaultNames |-> DefaultRole]

\* A top_k of 0 loads as 5.  A file that persist wrote omits no rate limit.
LoadedRole(r) == IF r.topK = 0 THEN [r EXCEPT !.topK = 5] ELSE r

LoadedRoles ==
  IF rolesFile = Nil THEN DefaultRoles
  ELSE [n \in DOMAIN rolesFile \cup DefaultNames |->
          IF n \in DOMAIN rolesFile THEN LoadedRole(rolesFile[n]) ELSE DefaultRole]

LoadedTokens == IF tokensFile = Nil THEN <<>> ELSE tokensFile

Start ==
  /\ ~up
  /\ up' = TRUE
  /\ roles' = LoadedRoles
  /\ tokens' = LoadedTokens
  /\ pending' = (rolesFile = Nil \/ tokensFile = Nil)
  /\ performed' = saved
  /\ UNCHANGED <<writer, files, cmd, handler, stops, saved, orderly>>

\* The commands of P with one of the verbs: token verbs change the tokens, role
\* verbs the roles.
Of(P, verbs) == {c \in P : cmd[c].req.verb \in verbs}

\* The timer of schedulePersist has run out: both tables are copied under the lock.
TakeCopy(w) ==
  /\ pending /\ writer[w].next = "none"
  /\ pending' = FALSE
  /\ writer' = [writer EXCEPT ![w] =
       [next |-> "roles", roles |-> roles, tokens |-> tokens, performed |-> performed]]
  /\ orderly' = (orderly /\ \A v \in Writers : writer[v].next = "none")
  /\ UNCHANGED <<up, tables, files, cmd, handler, stops, performed, saved>>

\* The rename, or an error that is printed and no more.
WriteRoles(w) ==
  /\ writer[w].next = "roles"
  /\ writer' = [writer EXCEPT ![w].next = "tokens"]
  /\ \/ /\ rolesFile' = writer[w].roles
        /\ saved' = Of(saved, TokenVerbs) \cup Of(writer[w].performed, RoleVerbs)
        /\ UNCHANGED orderly
     \/ /\ orderly' = FALSE
        /\ UNCHANGED <<rolesFile, saved>>
  /\ UNCHANGED <<up, tables, pending, tokensFile, cmd, handler, stops, performed>>

\* Mutant: the tokens are taken from the table when they are written.
WriteTokensLate(w) ==
  /\ writer[w].next = "tokens"
  /\ writer' = [writer EXCEPT ![w] = Idle]
  /\ tokensFile' = tokens
  /\ saved' = Of(saved, RoleVerbs) \cup Of(performed, TokenVerbs)
  /\ UNCHANGED <<up, tables, pending, rolesFile, cmd, handler, stops, performed, orderly>>

WriteTokens(w) ==
  /\ writer[w].next = "tokens"
  /\ writer' = [writer EXCEPT ![w] = Idle]
  /\ \/ /\ tokensFile' = writer[w].tokens
        /\ saved' = Of(saved, RoleVerbs) \cup Of(writer[w].performed, TokenVerbs)
     \/ UNCHANGED <<tokensFile, saved>>
  /\ UNCHANGED <<up, tables, pending, rolesFile, cmd, handler, stops, performed, orderly>>

\* A crash, or an exit: Shutdown drops the pending persist.  The connections
\* break.
Stop ==
  /\ up /\ stops < MaxStops
  /\ stops' = stops + 1
  /\ up' = FALSE
  /\ roles' = <<>> /\ tokens' = <<>> /\ pending' = FALSE
  /\ writer' = [w \in Writers |-> Idle]
  /\ handler' = [c \in Commands |-> NoHandler]
  /\ cmd' = [c \in Commands |->
               IF cmd[c].pc = "waiting" THEN EndedInError(c, "failed") ELSE cmd[c]]
  /\ UNCHANGED <<files, history>>

\* A fresh install, or files with custom roles and a token for every user.
Init ==
  /\ up = FALSE
  /\ roles = <<>> /\ tokens = <<>> /\ pending = FALSE
  /\ writer = [w \in Writers |-> Idle]
  /\ \/ rolesFile = Nil /\ tokensFile = Nil
     \/ /\ rolesFile = [n \in RoleNames |-> DefaultRole]
        /\ tokensFile = [u \in Users |-> [by |-> Nil, role |-> FirstRole[u]]]
  /\ cmd = [c \in Commands |-> Unsent]
  /\ handler = [c \in Commands |-> NoHandler]
  /\ stops = 0
  /\ performed = {} /\ saved = {} /\ orderly = TRUE
-----------------------------------------------------------------------------
(* The client.                                                             *)

\* A name in a body arrives as it is.  In a path ("/tokens/"+user) it is not
\* escaped: what follows a '#' or a '?' is cut off, and a '/' makes another path.
Target(q) == IF q.verb \in {"issue", "create"} THEN q.name ELSE CutTo[q.name]

\* The rest of POST /tokens/{user}/rotate is cut off with the name.
Routed(q) ==
  CASE q.verb = "rotateAll" -> TRUE
    [] q.verb = "rotate"    -> Target(q) = q.name
    [] OTHER                -> Target(q) # Nil

\* "No fields to update."
RefusedLocally(q) == q.verb = "update" /\ \A f \in Fields : q[f] = Nil

\* The users whose strings a request is to replace or to remove.
Concerns(q, u) ==
  \/ q.verb \in {"revoke", "rotate"} /\ Target(q) = u
  \/ q.verb = "rotateAll"

\* The requests of the commands.  A role that is updated keeps what the flags leave
\* out.  Rotate takes either --user or --all.
IssueRequest(user, role) == [verb |-> "issue", name |-> user, role |-> role]
RevokeRequest(user) == [verb |-> "revoke", name |-> user]
RotateRequest(user) == [verb |-> "rotate", name |-> user]
RotateAllRequest == [verb |-> "rotateAll", name |-> Nil]
CreateRequest(name, scope, topK, rate) ==
  [verb |-> "create", name |-> name, scope |-> scope, topK |-> topK, rate |-> rate]
UpdateRequest(name, scope, topK, rate) ==
  [CreateRequest(name, scope, topK, rate) EXCEPT !.verb = "update"]
DeleteRequest(name) == [verb |-> "delete", name |-> name]

Send(c, q) ==
  /\ cmd[c].pc = "unsent"
  /\ \/ /\ RefusedLocally(q) \/ ~up
        /\ cmd' = [cmd EXCEPT ![c] = [@ EXCEPT !.pc = "ended", !.req = q,
                     !.outcome = IF RefusedLocally(q) THEN "refused" ELSE "failed"]]
        /\ UNCHANGED handler
     \/ /\ ~RefusedLocally(q) /\ up
        /\ cmd' = [cmd EXCEPT ![c] = [@ EXCEPT !.pc = "waiting", !.req = q,
                     !.before = {s \in Valid : Concerns(q, s[1])}]]
        /\ handler' = [handler EXCEPT ![c] = [@ EXCEPT !.pc = "accepted"]]
  /\ UNCHANGED <<up, tables, persist, files, stops, history>>

Deliver(c) ==
  /\ handler[c].pc = "answering"
  /\ cmd' = [cmd EXCEPT ![c] =
       IF handler[c].status \in {"ok", "notFound"}
       THEN [@ EXCEPT !.pc = "ended", !.outcome = handler[c].status, !.shown = handler[c].drawn]
       ELSE EndedInError(c, handler[c].status)]
  /\ handler' = [handler EXCEPT ![c] = NoHandler]
  /\ UNCHANGED <<up, tables, persist, files, stops, history>>

\* What is left of a handler when its client hangs up.
Unheard(c) == IF handler[c].pc = "answering" THEN NoHandler ELSE handler[c]

\* Mutant: a command that runs out of time reports success.
GiveUpContent(c) ==
  /\ cmd[c].pc = "waiting"
  /\ cmd' = [cmd EXCEPT ![c].pc = "ended", ![c].outcome = "ok"]
  /\ handler' = [handler EXCEPT ![c] = Unheard(c)]
  /\ performed' = performed \cup {c}
  /\ UNCHANGED <<up, tables, persist, files, stops, saved, orderly>>

\* After 30 seconds the client reports an error; the handler is not told.
GiveUp(c) ==
  /\ cmd[c].pc = "waiting"
  /\ cmd' = [cmd EXCEPT ![c] = EndedInError(c, "failed")]
  /\ handler' = [handler EXCEPT ![c] = Unheard(c)]
  /\ UNCHANGED <<up, tables, persist, files, stops, history>>
-----------------------------------------------------------------------------
(* The handlers.                                                           *)

Accepted(c, verb) ==
  /\ handler[c].pc = "accepted"
  /\ cmd[c].req.verb = verb
  /\ Routed(cmd[c].req)

\* An answer that nobody waits for goes nowhere.
Answer(c, status, drawn) ==
  /\ handler' = [handler EXCEPT ![c] =
       IF cmd[c].pc = "waiting"
       THEN [NoHandler EXCEPT !.pc = "answering", !.drawn = drawn, !.status = status]
       ELSE NoHandler]
  /\ UNCHANGED <<up, writer, files, cmd, stops, saved, orderly>>

Refuse(c, status) ==
  /\ Answer(c, status, {})
  /\ UNCHANGED <<tables, pending, performed>>

\* The operation has changed a table and called schedulePersist.
Succeed(c, drawn) ==
  /\ Answer(c, "ok", drawn)
  /\ pending' = TRUE
  /\ performed' = performed \cup {c}

NoRoute(c) ==
  /\ handler[c].pc = "accepted"
  /\ ~Routed(cmd[c].req)
  /\ Refuse(c, "refused")

AddToken(c) ==
  LET q == cmd[c].req
  IN  /\ Accepted(c, "issue")
      /\ \/ /\ q.role \notin DOMAIN roles \/ q.name \in DOMAIN tokens
            /\ Refuse(c, "refused")
         \/ /\ q.role \in DOMAIN roles /\ q.name \notin DOMAIN tokens
            /\ tokens' = With(tokens, q.name, [by |-> c, role |-> q.role])
            /\ Succeed(c, {<<q.name, c>>})
            /\ UNCHANGED roles

\* A user without a token is told so, which is as good as revoked.
RevokeToken(c) ==
  LET user == Target(cmd[c].req)
  IN  /\ Accepted(c, "revoke")
      /\ \/ /\ user \notin DOMAIN tokens
            /\ Answer(c, "notFound", {})
            /\ performed' = performed \cup {c}
            /\ UNCHANGED <<tables, pending>>
         \/ /\ user \in DOMAIN tokens
            /\ tokens' = Restrict(tokens, DOMAIN tokens \ {user})
            /\ Succeed(c, {})
            /\ UNCHANGED roles

Rotated(user, c) == [tokens EXCEPT ![user].by = c]

RotateToken(c) ==
  LET user == Target(cmd[c].req)
  IN  /\ Accepted(c, "rotate")
      /\ \/ user \notin DOMAIN tokens /\ Refuse(c, "refused")
         \/ /\ user \in DOMAIN tokens
            /\ tokens' = Rotated(user, c)
            /\ Succeed(c, {<<user, c>>})
            /\ UNCHANGED roles

RotateAllBegin(c) ==
  /\ Accepted(c, "rotateAll")
  /\ handler' = [handler EXCEPT ![c] = [@ EXCEPT !.pc = "rotating", !.todo = DOMAIN tokens]]
  /\ UNCHANGED <<up, tables, persist, files, cmd, stops, history>>

\* The users are taken in order.
Following(c, u) ==
  /\ handler[c].pc = "rotating"
  /\ u \in handler[c].todo
  /\ \A v \in handler[c].todo : u <= v

\* Mutant: the handler keeps the last token only.
RotateAllStepLast(c, u) ==
  /\ Following(c, u)
  /\ u \in DOMAIN tokens
  /\ tokens' = Rotated(u, c)
  /\ pending' = TRUE
  /\ handler' = [handler EXCEPT ![c] = [@ EXCEPT !.todo = @ \ {u}, !.drawn = {<<u, c>>}]]
  /\ UNCHANGED <<up, roles, writer, files, cmd, stops, history>>

\* One more user has a new string, to be shown in the end.
WithDrawn(h, u, c) == [h EXCEPT !.todo = @ \ {u}, !.drawn = @ \cup {<<u, c>>}]

RotateAllStep(c, u) ==
  /\ Following(c, u)
  /\ u \in DOMAIN tokens
  /\ tokens' = Rotated(u, c)
  /\ pending' = TRUE
  /\ handler' = [handler EXCEPT ![c] = WithDrawn(@, u, c)]
  /\ UNCHANGED <<up, roles, writer, files, cmd, stops, history>>

\* A user revoked meanwhile: 500, without the tokens rotated so far.
RotateAllFail(c, u) ==
  /\ Following(c, u)
  /\ u \notin DOMAIN tokens
  /\ Refuse(c, "failed")

RotateAllEnd(c) ==
  /\ handler[c].pc = "rotating" /\ handler[c].todo = {}
  /\ Answer(c, "ok", handler[c].drawn)
  /\ performed' = performed \cup {c}
  /\ UNCHANGED <<tables, pending>>

\* The command always sends a top_k; an empty scope or rate limit is missing.
AddRole(c) ==
  LET q == cmd[c].req
      fine == q.scope # {} /\ q.rate \in Rates /\ q.name \notin DOMAIN roles
  IN  /\ Accepted(c, "create")
      /\ \/ ~fine /\ Refuse(c, "refused")
         \/ /\ fine
            /\ roles' = With(roles, q.name, [scope |-> q.scope, topK |-> q.topK, rate |-> q.rate])
            /\ Succeed(c, {})
            /\ UNCHANGED tokens

Or(given, present) == IF given = Nil THEN present ELSE given

\* Mutant: what the request leaves out takes its default value.
UpdatedWhole(role, q) ==
  [scope |-> Or(q.scope, Full), topK |-> Or(q.topK, 5), rate |-> Or(q.rate, DefaultRate)]

Updated(role, q) ==
  [scope |-> Or(q.scope, role.scope), topK |-> Or(q.topK, role.topK),
   rate |-> Or(q.rate, role.rate)]

\* Mutant: the new rate limit is not checked.
UpdateRoleUnchecked(c) ==
  LET q == cmd[c].req
      name == Target(q)
  IN  /\ Accepted(c, "update")
      /\ \/ name \notin DOMAIN roles /\ Refuse(c, "refused")
         \/ /\ name \in DOMAIN roles
            /\ roles' = [roles EXCEPT ![name] = Updated(@, q)]
            /\ Succeed(c, {})
            /\ UNCHANGED tokens

\* An update may empty the scope.
UpdateRole(c) ==
  LET q == cmd[c].req
      name == Target(q)
      fine == q.rate \in Rates \cup {Nil} /\ name \in DOMAIN roles
  IN  /\ Accepted(c, "update")
      /\ \/ ~fine /\ Refuse(c, "refused")
         \/ /\ fine
            /\ roles' = [roles EXCEPT ![name] = Updated(@, q)]
            /\ Succeed(c, {})
            /\ UNCHANGED tokens

DeleteRole(c) ==
  LET name == Target(cmd[c].req)
      fine == /\ name \in DOMAIN roles \ DefaultNames
              /\ \A u \in DOMAIN tokens : tokens[u].role # name
  IN  /\ Accepted(c, "delete")
      /\ \/ ~fine /\ Refuse(c, "refused")
         \/ /\ fine
            /\ roles' = Restrict(roles, DOMAIN roles \ {name})
            /\ Succeed(c, {})
            /\ UNCHANGED tokens

RotateAll(c) ==
  \/ RotateAllBegin(c) \/ RotateAllEnd(c)
  \/ \E u \in Users : RotateAllStep(c, u) \/ RotateAllFail(c, u)

Handle(c) ==
  \/ NoRoute(c) \/ AddToken(c) \/ RevokeToken(c) \/ RotateToken(c) \/ RotateAll(c)
  \/ AddRole(c) \/ UpdateRole(c) \/ DeleteRole(c)

Next ==
  \/ Start \/ Stop
  \/ \E w \in Writers : TakeCopy(w) \/ WriteRoles(w) \/ WriteTokens(w)
  \/ \E c \in Commands :
       \/ \E q \in Requests : Send(c, q)
       \/ Deliver(c) \/ GiveUp(c) \/ Handle(c)

Spec == Init /\ [][Next]_vars
-----------------------------------------------------------------------------
(* Properties.                                                             *)

Strung == Users \X Drawers

CommandState ==
  [pc : {"unsent", "waiting", "ended"}, req : Requests \cup {Nil}, before : SUBSET Strung,
   outcome : Outcomes \cup {Nil}, shown : SUBSET Strung]
HandlerState ==
  [pc : {"none", "accepted", "rotating", "answering"}, todo : SUBSET Users,
   drawn : SUBSET Strung, status : Outcomes \cup {Nil}]

IsCopy(k) ==
  /\ k \in [next : {"none", "roles", "tokens"}, roles : {k.roles}, tokens : {k.tokens},
            performed : SUBSET Commands]
  /\ IsRoles(k.roles) /\ IsTokens(k.tokens)

TypeOK ==
  /\ up \in BOOLEAN /\ pending \in BOOLEAN /\ stops \in 0..MaxStops
  /\ IsRoles(roles) /\ (rolesFile # Nil => IsRoles(rolesFile))
  /\ IsTokens(tokens) /\ (tokensFile # Nil => IsTokens(tokensFile))
  /\ writer = [w \in Writers |-> writer[w]] /\ \A w \in Writers : IsCopy(writer[w])
  /\ cmd \in [Commands -> CommandState] /\ handler \in [Commands -> HandlerState]
  /\ performed \subseteq Commands /\ saved \subseteq Commands /\ orderly \in BOOLEAN

\* Names that reach the daemon as the operator wrote them.
Plain(q) == q.verb = "rotateAll" \/ Target(q) = q.name

\* Commands whose success the operator read, unless a restart has lost what they
\* did: the daemon has run since, or their change had reached the files.
Told == {c \in performed : cmd[c].outcome \in {"ok", "notFound"} /\ Plain(cmd[c].req)}

Others(c) == {d \in Commands \ {c} : cmd[d].pc # "unsent"}

\* Once an operator has read that a token was revoked or rotated (or that the user
\* had none), no string that user had when the command was sent is valid again: not
\* through another command in flight or a late handler, nor through a restart, of a
\* command whose effect was in the files.
OldStringsGone == \A c \in Told : cmd[c].before \cap Valid = {}

\* A string that nobody was shown belongs to a command that is under way or that
\* ended with an error: a success shows every string it put in force.
UnshownIsKnown ==
  \A s \in Valid :
    s[2] # Nil /\ cmd[s[2]].outcome = "ok" => s \in cmd[s[2]].shown

\* Whether d may change field f of the role.
Changes(d, name, f) ==
  LET q == cmd[d].req
  IN  /\ q.verb \in {"update", "delete"} /\ Target(q) = name
      /\ q.verb = "update" => q[f] # Nil

StringsHold(c) ==
  cmd[c].req.verb \in TokenVerbs =>
    \A s \in cmd[c].shown :
      s \in Valid \/ \E d \in Others(c) : Concerns(cmd[d].req, s[1])

\* What was given, when it is read after a restart: a top_k of 0 comes back as 5,
\* and nothing else is altered.
ReadBack(f, given) == IF f = "topK" /\ given = 0 /\ stops > 0 THEN {0, 5} ELSE {given}

FieldHolds(c, f) ==
  LET q == cmd[c].req
  IN  \/ q[f] = Nil
      \/ q.name \in DOMAIN roles /\ roles[q.name][f] \in ReadBack(f, q[f])
      \/ \E d \in Others(c) : Changes(d, q.name, f)

RoleHolds(c) ==
  LET q == cmd[c].req
  IN  /\ q.verb \in {"create", "update"} => \A f \in Fields : FieldHolds(c, f)
      /\ q.verb = "delete" =>
           \/ q.name \notin DOMAIN roles
           \/ \E d \in Others(c) : cmd[d].req.verb = "create" /\ cmd[d].req.name = q.name

\* What an operator was told holds until another command undoes it: a shown string
\* stays valid, a role has the fields it was given, and two updates of different
\* fields of one role both last.
ToldHolds == up => \A c \in Told : StringsHold(c) /\ RoleHolds(c)

\* A daemon that dies between the two writes may leave a token on disk whose role
\* the roles file no longer has (token list shows it as "?").  Such a token is one
\* that an operator had asked to revoke: its role could not be deleted before.
OrphansWereRevoked ==
  orderly =>
    \A u \in DOMAIN tokens :
      \/ tokens[u].role \in DOMAIN roles
      \/ \E c \in Commands : /\ cmd[c].pc # "unsent" /\ cmd[c].req.verb = "revoke"
                             /\ Target(cmd[c].req) = u
=============================================================================
