------------------------------ MODULE TokenStore ------------------------------
(***************************************************************************)
(* The in-memory half of vault/internal/tokens/store.go: the four maps     *)
(* that Store.mu guards, and every operation on them.                      *)
(*                                                                         *)
(* An operation that holds mu throughout is one action.  RotateAllTokens   *)
(* holds it once to list the users and once more for each of them, so it   *)
(* is a process of its own (one per admin request) with one action per     *)
(* critical section.  A call that fails its checks changes nothing and     *)
(* is not an action; neither are the read-only ListTokens and ListRoles.   *)
(*                                                                         *)
(* A role is reduced to its rate limit, the only field the other maps      *)
(* depend on, and a limiter to the rate it was built for (its window is    *)
(* module RateLimiter).  Token strings are numbered in the order in which  *)
(* newTokenString draws them: 16 random bytes never repeat.  A date is a   *)
(* day number; written with more than four digits of a year it no longer   *)
(* parses.  What schedulePersist does after each unlock is module          *)
(* Persistence.                                                            *)
(***************************************************************************)
EXTENDS Integers, FiniteSets, Functions

CONSTANTS
  Users,          \* user names; integers, for sort.Strings orders them
  RoleNames,      \* role names, the two default ones included
  DefaultRoles,   \* function from the default names to their rate limits
  Rates,          \* rate limits that rateLimitRE matches
  Malformed,      \* a rate limit it does not match, out of a hand-written file
  FallbackRate,   \* what the loader puts for an omitted rate_limit, "30/60s"
  Periods,        \* the expires_days an operator asks for
  MaxPeriod,      \* the days in the longest time.Duration, 106751
  FirstDate,      \* the dates that time.Parse reads: from the year 0
  LastDate,       \* to the year 9999
  Nil,            \* a nil pointer, an absent field, an empty string
  RolesFiles,     \* what the roles file may hold at startup; Nil: no file
  TokensFiles,    \* what the tokens file may hold at startup; Nil: no file
  Loaded,         \* token strings numbered up to here come from the files
  Admins,         \* admin requests that may run RotateAllTokens
  MaxTokens,      \* bound: token strings drawn in one run
  MaxDay          \* bound: the last calendar day of a run

DefaultNames == DOMAIN DefaultRoles
Days == Int
TokenStrings == Nat

\* The demo token's string is a constant, drawn by nobody.
DemoToken == 0

Token == [user : Users, token : TokenStrings, role : RoleNames,
          issued : Days \cup {Nil}, expires : Days \cup {Nil}]

\* Files that persist wrote: entries differ in user and in token string.
WellFormed(file) ==
  \A s, t \in file : s.user = t.user \/ s.token = t.token => s = t

ASSUME ConstantsAssumption ==
  /\ Users \subseteq Int
  /\ DefaultNames \subseteq RoleNames
  /\ DefaultRoles \in [DefaultNames -> Rates]
  /\ FallbackRate \in Rates
  /\ Malformed \notin Rates
  /\ Periods \subseteq Int
  /\ MaxPeriod \in Nat
  /\ FirstDate \in Int /\ FirstDate <= 1 /\ 1 <= LastDate
  /\ LastDate \in Int /\ MaxDay <= LastDate
  /\ Nil \notin Int
  /\ Nil \notin Rates
  /\ Nil # Malformed
  /\ Loaded \in Nat
  /\ MaxTokens \in Nat
  /\ MaxDay \in Nat

ASSUME FilesAssumption ==
  /\ \A f \in RolesFiles :
       \/ f = Nil
       \/ /\ DOMAIN f \subseteq RoleNames
          /\ f \in [DOMAIN f -> Rates \cup {Malformed, Nil}]
  /\ \A f \in TokensFiles :
       \/ f = Nil
       \/ f \subseteq Token /\ WellFormed(f) /\ \A t \in f : t.token <= Loaded

VARIABLES
  tokens,         \* token string -> token
  tokensByUser,   \* user -> token
  roles,          \* role name -> rate limit
  rateLimiters,   \* user -> rate limit its limiter was built for
  today,          \* the calendar day now() falls on
  lastToken,      \* the number of the last string drawn
  rotateAll,      \* admin -> where its RotateAllTokens stands
  handed,         \* history: the strings an operator has been shown
  dangling        \* history: roles that loaded tokens name and no file defines

tables == <<tokens, tokensByUser, roles, rateLimiters>>
history == <<handed, dangling>>
vars == <<tables, today, lastToken, rotateAll, history>>

\* Go's m[k] = v and delete(m, k).
Put(m, k, v) == [x \in DOMAIN m \cup {k} |-> IF x = k THEN v ELSE m[x]]
Delete(m, S) == Restrict(m, DOMAIN m \ S)

Idle == [pc |-> "idle", todo |-> {}, result |-> {}, before |-> {}]
-----------------------------------------------------------------------------
(* LoadFromFiles: defaults fill what the roles file leaves out.            *)

\* Mutant: an omitted rate_limit is left empty.
RateAsWritten(file, r) == file[r]

RateOf(file, r) == IF file[r] = Nil THEN FallbackRate ELSE file[r]

LoadedRoles(file) ==
  LET named == IF file = Nil THEN {} ELSE DOMAIN file
  IN  [r \in named \cup DefaultNames |->
         IF r \in named THEN RateOf(file, r) ELSE DefaultRoles[r]]

LoadTokens(entries) ==
  /\ tokens = [s \in {t.token : t \in entries} |->
                 CHOOSE t \in entries : t.token = s]
  /\ tokensByUser = [u \in {t.user : t \in entries} |->
                       CHOOSE t \in entries : t.user = u]

LoadFromFiles ==
  \E rf \in RolesFiles, tf \in TokensFiles :
    /\ roles = LoadedRoles(rf)
    /\ LoadTokens(IF tf = Nil THEN {} ELSE tf)

\* The seed for development: the default roles and one token for "demo".
LoadDefaultsWithDemoToken(demo, admin) ==
  /\ roles = DefaultRoles
  /\ LoadTokens({[user |-> demo, token |-> DemoToken, role |-> admin,
                  issued |-> today, expires |-> Nil]})

Init ==
  /\ today = 1
  /\ \/ LoadFromFiles
     \/ \E demo \in Users, admin \in DefaultNames :
          LoadDefaultsWithDemoToken(demo, admin)
  /\ rateLimiters = [u \in {} |-> Nil]
  /\ lastToken = Loaded
  /\ rotateAll = [a \in Admins |-> Idle]
  /\ handed = DOMAIN tokens
  /\ dangling = {tokens[s].role : s \in DOMAIN tokens} \ DOMAIN roles
-----------------------------------------------------------------------------
(* The operations.                                                         *)

ExpiryDate(period) == IF period = Nil THEN Nil ELSE today + period

NewToken(u, r, period) ==
  [user |-> u, token |-> lastToken + 1, role |-> r,
   issued |-> today, expires |-> ExpiryDate(period)]

Parses(date) == date # Nil /\ FirstDate <= date /\ date <= LastDate

\* Mutant: a rotated token gets what is left of the old one's validity.
PeriodLeft(tok) == IF tok.expires = Nil THEN Nil ELSE tok.expires - today

\* time.Time.Sub saturates.
Sub(date, earlier) ==
  CASE date - earlier > MaxPeriod  -> MaxPeriod
    [] date - earlier < -MaxPeriod -> -MaxPeriod
    [] OTHER                       -> date - earlier

\* The validity a token was issued with; a date that does not parse makes it
\* unlimited.
Period(tok) ==
  IF Parses(tok.expires) /\ Parses(tok.issued) THEN Sub(tok.expires, tok.issued) ELSE Nil

\* Mutant: the string that is replaced stays in tokens.
InstallBeside(u, tok, replaced) ==
  /\ lastToken < MaxTokens
  /\ lastToken' = lastToken + 1
  /\ tokens' = Put(tokens, tok.token, tok)
  /\ tokensByUser' = Put(tokensByUser, u, tok)

\* Draw a string for user u and enter the token under both keys, leaving out
\* the string (none or one) it replaces.
Install(u, tok, replaced) ==
  /\ lastToken < MaxTokens
  /\ lastToken' = lastToken + 1
  /\ tokens' = Put(Delete(tokens, replaced), tok.token, tok)
  /\ tokensByUser' = Put(tokensByUser, u, tok)

AddToken(u, r, period) ==
  /\ r \in DOMAIN roles
  /\ u \notin DOMAIN tokensByUser
  /\ Install(u, NewToken(u, r, period), {})
  /\ handed' = handed \cup {lastToken + 1}
  /\ UNCHANGED <<roles, rateLimiters, today, rotateAll, dangling>>

RevokeToken(u) ==
  /\ u \in DOMAIN tokensByUser
  /\ tokens' = Delete(tokens, {tokensByUser[u].token})
  /\ tokensByUser' = Delete(tokensByUser, {u})
  /\ rateLimiters' = Delete(rateLimiters, {u})
  /\ UNCHANGED <<roles, today, lastToken, rotateAll, history>>

Rotate(u) ==
  LET old == tokensByUser[u]
  IN  /\ u \in DOMAIN tokensByUser
      /\ Install(u, NewToken(u, old.role, Period(old)), {old.token})
      /\ rateLimiters' = Delete(rateLimiters, {u})
      /\ UNCHANGED <<roles, today, dangling>>

RotateToken(u) ==
  /\ Rotate(u)
  /\ handed' = handed \cup {lastToken + 1}
  /\ UNCHANGED rotateAll

AddRole(r, rate) ==
  /\ rate \in Rates
  /\ r \notin DOMAIN roles
  /\ roles' = Put(roles, r, rate)
  /\ UNCHANGED <<tokens, tokensByUser, rateLimiters,
                 today, lastToken, rotateAll, history>>

\* Mutant: limiters built for the old rate survive.
UpdateRoleOnly(r, rate) ==
  /\ rate \in Rates
  /\ r \in DOMAIN roles
  /\ roles' = Put(roles, r, rate)
  /\ UNCHANGED <<tokens, tokensByUser, rateLimiters,
                 today, lastToken, rotateAll, history>>

\* An update without rate_limit (rate = Nil) leaves everything here alone.
UpdateRole(r, rate) ==
  /\ rate \in Rates
  /\ r \in DOMAIN roles
  /\ roles' = Put(roles, r, rate)
  /\ rateLimiters' = Delete(rateLimiters,
                            {u \in DOMAIN tokensByUser : tokensByUser[u].role = r})
  /\ UNCHANGED <<tokens, tokensByUser, today, lastToken, rotateAll, history>>

\* Mutant: a role in use is deleted.
DeleteRoleInUse(r) ==
  /\ r \in DOMAIN roles \ DefaultNames
  /\ roles' = Delete(roles, {r})
  /\ UNCHANGED <<tokens, tokensByUser, rateLimiters,
                 today, lastToken, rotateAll, history>>

DeleteRole(r) ==
  /\ r \in DOMAIN roles \ DefaultNames
  /\ \A u \in DOMAIN tokensByUser : tokensByUser[u].role # r
  /\ roles' = Delete(roles, {r})
  /\ UNCHANGED <<tokens, tokensByUser, rateLimiters,
                 today, lastToken, rotateAll, history>>

IsExpired(tok) == Parses(tok.expires) /\ tok.expires < today

\* The lookup of Validate, under mu: the first accepted request of a user
\* builds the limiter that later ones share.
GetOrCreateLimiter(s) ==
  LET tok == tokens[s]
  IN  /\ s \in DOMAIN tokens
      /\ ~IsExpired(tok)
      /\ tok.role \in DOMAIN roles
      /\ tok.user \notin DOMAIN rateLimiters
      /\ roles[tok.role] \in Rates
      /\ rateLimiters' = Put(rateLimiters, tok.user, roles[tok.role])
      /\ UNCHANGED <<tokens, tokensByUser, roles,
                     today, lastToken, rotateAll, history>>

NextDay ==
  /\ today < MaxDay
  /\ today' = today + 1
  /\ UNCHANGED <<tables, lastToken, rotateAll, history>>
-----------------------------------------------------------------------------
(* RotateAllTokens and the admin handler that answers with its result.     *)

RotateAllBegin(a) ==
  /\ rotateAll[a].pc = "idle"
  /\ rotateAll' = [rotateAll EXCEPT
       ![a] = [pc |-> "rotating", todo |-> DOMAIN tokensByUser,
               result |-> {}, before |-> DOMAIN tokens]]
  /\ UNCHANGED <<tables, today, lastToken, history>>

\* The users are taken in order.
Following(a, u) ==
  /\ rotateAll[a].pc = "rotating"
  /\ u \in rotateAll[a].todo
  /\ \A v \in rotateAll[a].todo : u <= v

\* Mutant: the loop ends after its first user.
RotateAllFirst(a, u) ==
  /\ Following(a, u)
  /\ Rotate(u)
  /\ rotateAll' = [rotateAll EXCEPT ![a].todo = {},
                                    ![a].result = @ \cup {lastToken + 1}]
  /\ UNCHANGED handed

RotateAllStep(a, u) ==
  /\ Following(a, u)
  /\ Rotate(u)
  /\ rotateAll' = [rotateAll EXCEPT ![a].todo = @ \ {u},
                                    ![a].result = @ \cup {lastToken + 1}]
  /\ UNCHANGED handed

\* A user revoked meanwhile ends the loop; the handler answers 500 and drops
\* the tokens it already has.
RotateAllFail(a, u) ==
  /\ Following(a, u)
  /\ u \notin DOMAIN tokensByUser
  /\ rotateAll' = [rotateAll EXCEPT ![a] = Idle]
  /\ UNCHANGED <<tables, today, lastToken, history>>

RotateAllReturn(a) ==
  /\ rotateAll[a].pc = "rotating"
  /\ rotateAll[a].todo = {}
  /\ rotateAll' = [rotateAll EXCEPT ![a] = Idle]
  /\ handed' = handed \cup rotateAll[a].result
  /\ UNCHANGED <<tables, today, lastToken, dangling>>

Next ==
  \/ \E u \in Users, r \in RoleNames, p \in Periods \cup {Nil} : AddToken(u, r, p)
  \/ \E u \in Users : RevokeToken(u) \/ RotateToken(u)
  \/ \E r \in RoleNames, rate \in Rates \cup {Malformed, Nil} :
       AddRole(r, rate) \/ UpdateRole(r, rate)
  \/ \E r \in RoleNames : DeleteRole(r)
  \/ \E s \in DOMAIN tokens : GetOrCreateLimiter(s)
  \/ NextDay
  \/ \E a \in Admins :
       \/ RotateAllBegin(a)
       \/ \E u \in Users : RotateAllStep(a, u) \/ RotateAllFail(a, u)
       \/ RotateAllReturn(a)

Spec == Init /\ [][Next]_vars
-----------------------------------------------------------------------------
(* Properties.                                                             *)

\* The types of the maps, whose keys and values are those the code puts in.
TypeOK ==
  /\ tokens \in [DOMAIN tokens -> Token]
  /\ DOMAIN tokens \subseteq TokenStrings
  /\ tokensByUser \in [DOMAIN tokensByUser -> Token]
  /\ DOMAIN tokensByUser \subseteq Users
  /\ roles \in [DOMAIN roles -> Rates \cup {Malformed}]
  /\ DOMAIN roles \subseteq RoleNames
  /\ DefaultNames \subseteq DOMAIN roles
  /\ rateLimiters \in [DOMAIN rateLimiters -> Rates]
  /\ DOMAIN rateLimiters \subseteq Users
  /\ today \in Days
  /\ lastToken \in Nat
  /\ rotateAll \in [Admins -> [pc : {"idle", "rotating"}, todo : SUBSET Users,
                               result : SUBSET Nat, before : SUBSET TokenStrings]]
  /\ handed \subseteq TokenStrings
  /\ dangling \subseteq RoleNames

\* The two indexes describe one set of tokens: what Validate finds by string is
\* what revoke and rotate find by user, so no string outlives its user's
\* revocation and no user has two.
IndexAgreement ==
  /\ \A s \in DOMAIN tokens :
       LET tok == tokens[s]
       IN  tok.token = s /\ tok.user \in DOMAIN tokensByUser
           /\ tokensByUser[tok.user] = tok
  /\ \A u \in DOMAIN tokensByUser :
       LET tok == tokensByUser[u]
       IN  tok.user = u /\ tok.token \in DOMAIN tokens
           /\ tokens[tok.token] = tok

\* A limiter in the map belongs to a user with a token and has the rate that
\* the user's role has now, whatever updates, rotations and re-issues with
\* another role came since it was built: UpdateRole finds every limiter it must
\* drop although limiters are keyed by user and not by role.
LimiterFollowsRole ==
  \A u \in DOMAIN rateLimiters :
    /\ u \in DOMAIN tokensByUser
    /\ tokensByUser[u].role \in DOMAIN roles
    /\ rateLimiters[u] = roles[tokensByUser[u].role]

\* Issuing a token for a role and deleting the role exclude each other, and
\* rotation copies no role name that is gone: a token names a role that exists,
\* or one that the files did not define when the daemon started.
RoleReferenced ==
  \A s \in DOMAIN tokens : tokens[s].role \in DOMAIN roles \cup dangling

\* While RotateAllTokens runs, a string that was valid when it listed the users
\* is still valid only for a user it has yet to reach, whatever else is issued,
\* revoked or rotated between two of its critical sections; so none of those
\* strings is valid when it returns with success.
RotateAllReplaces ==
  \A a \in Admins : \A s \in rotateAll[a].before \cap DOMAIN tokens :
    tokens[s].user \in rotateAll[a].todo

\* A token that replaces another in one step, by rotation, keeps the role and
\* the length of the validity period of the one it replaces
\* (TestRotatePreservesExpiry), through any number of rotations and days.  A period
\* of more than 292 years is cut, but to no less than that; one that ends after the
\* year 9999, or has no end, becomes or stays unlimited.
SameTerms(old, new) ==
  LET had == old.expires - old.issued
      has == new.expires - new.issued
  IN  /\ new.role = old.role
      /\ ~Parses(old.expires) => new.expires = Nil
      /\ Parses(old.expires) => /\ new.expires # Nil
                                /\ -MaxPeriod <= had /\ had <= MaxPeriod => has = had
                                /\ had > MaxPeriod => MaxPeriod <= has /\ has < had

RotationKeepsTerms ==
  [][\A u \in DOMAIN tokensByUser \cap DOMAIN tokensByUser' :
       tokensByUser'[u].token # tokensByUser[u].token =>
         SameTerms(tokensByUser[u], tokensByUser'[u])]_vars

\* Rotating everything is "Atomic revoke + reissue" (ARCHITECTURE.md:196): when
\* no rotation is under way, every valid string has been shown to an operator.
\* The handler of _rotate_all drops the strings already drawn when a user is
\* revoked before the loop reaches it.
ValidTokensHanded ==
  (\A a \in Admins : rotateAll[a].pc = "idle") => DOMAIN tokens \subseteq handed
=============================================================================
