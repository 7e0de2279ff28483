-------------------------- MODULE TokenStore_proofs --------------------------
(***************************************************************************)
(* For every set of users, roles, rates, files and admin requests: the     *)
(* types of TokenStore, the agreement of its indexes, and the invariants   *)
(* that relate limiters, roles and rotations to them.                      *)
(***************************************************************************)
EXTENDS TokenStore, TLAPS

\* Strings are numbered in the order they are drawn, so the next is new.
Fresh ==
  /\ \A s \in DOMAIN tokens : s <= lastToken
  /\ \A a \in Admins : \A s \in rotateAll[a].before : s <= lastToken

IInv ==
  /\ TypeOK
  /\ Fresh
  /\ IndexAgreement
  /\ LimiterFollowsRole
  /\ RoleReferenced
  /\ RotateAllReplaces
-----------------------------------------------------------------------------
(* Lemmas about the maps.                                                  *)

\* m[k] = v: the domain gains k and no other key changes.
LEMMA PutFacts ==
  ASSUME NEW m, NEW k, NEW v
  PROVE  /\ DOMAIN Put(m, k, v) = DOMAIN m \cup {k}
         /\ Put(m, k, v)[k] = v
         /\ \A x \in DOMAIN m : x # k => Put(m, k, v)[x] = m[x]
BY DEF Put

\* delete(m, k): the domain loses the keys and no other changes.
LEMMA DeleteFacts ==
  ASSUME NEW m, NEW S
  PROVE  /\ DOMAIN Delete(m, S) = DOMAIN m \ S
         /\ \A x \in DOMAIN m \ S : Delete(m, S)[x] = m[x]
BY DEF Delete, Restrict

\* A map keeps the type of its values.
LEMMA PutType ==
  ASSUME NEW T, NEW m, m \in [DOMAIN m -> T], NEW k, NEW v \in T
  PROVE  Put(m, k, v) \in [DOMAIN Put(m, k, v) -> T]
BY DEF Put

LEMMA DeleteType ==
  ASSUME NEW T, NEW m, m \in [DOMAIN m -> T], NEW S
  PROVE  Delete(m, S) \in [DOMAIN Delete(m, S) -> T]
BY DEF Delete, Restrict
-----------------------------------------------------------------------------
(* The initial states.                                                     *)

\* Well-formed entries give two maps of the right types that agree.
LEMMA LoadTokensFacts ==
  ASSUME NEW E, E \subseteq Token, WellFormed(E),
         LoadTokens(E)
  PROVE  /\ tokens \in [DOMAIN tokens -> Token]
         /\ DOMAIN tokens \subseteq TokenStrings
         /\ tokensByUser \in [DOMAIN tokensByUser -> Token]
         /\ DOMAIN tokensByUser \subseteq Users
         /\ IndexAgreement
         /\ \A s \in DOMAIN tokens : tokens[s] \in E
<1>1. \A s \in DOMAIN tokens : tokens[s] \in E /\ tokens[s].token = s
  BY DEF LoadTokens
<1>2. \A u \in DOMAIN tokensByUser : tokensByUser[u] \in E /\ tokensByUser[u].user = u
  BY DEF LoadTokens
<1>3. \A t \in E : t.token \in DOMAIN tokens /\ t.user \in DOMAIN tokensByUser
  BY DEF LoadTokens
<1>4. \A t \in E : t.token \in TokenStrings /\ t.user \in Users
  BY DEF Token
<1>5. DOMAIN tokens \subseteq TokenStrings /\ DOMAIN tokensByUser \subseteq Users
  BY <1>4 DEF LoadTokens
<1>6. IndexAgreement
  <2>1. ASSUME NEW s \in DOMAIN tokens
        PROVE  tokensByUser[tokens[s].user] = tokens[s]
    BY <1>1, <1>2, <1>3 DEF WellFormed
  <2>2. ASSUME NEW u \in DOMAIN tokensByUser
        PROVE  tokens[tokensByUser[u].token] = tokensByUser[u]
    BY <1>1, <1>2, <1>3 DEF WellFormed
  <2>. QED
    BY <2>1, <2>2, <1>1, <1>2, <1>3 DEF IndexAgreement
<1>7. /\ tokens \in [DOMAIN tokens -> Token]
      /\ tokensByUser \in [DOMAIN tokensByUser -> Token]
  BY <1>1, <1>2 DEF LoadTokens
<1>. QED
  BY <1>1, <1>5, <1>6, <1>7

\* The roles in memory include the default ones, whatever the file holds.
LEMMA LoadedRolesFacts ==
  ASSUME NEW rf \in RolesFiles
  PROVE  /\ LoadedRoles(rf) \in [DOMAIN LoadedRoles(rf) -> Rates \cup {Malformed}]
         /\ DOMAIN LoadedRoles(rf) \subseteq RoleNames
         /\ DefaultNames \subseteq DOMAIN LoadedRoles(rf)
<1>1. CASE rf = Nil
  BY <1>1, ConstantsAssumption DEF LoadedRoles, RateOf
<1>2. CASE rf # Nil
  <2>1. /\ DOMAIN rf \subseteq RoleNames
        /\ \A r \in DOMAIN rf : rf[r] \in Rates \cup {Malformed, Nil}
    BY <1>2, FilesAssumption
  <2>. QED
    BY <1>2, <2>1, ConstantsAssumption DEF LoadedRoles, RateOf
<1>. QED
  BY <1>1, <1>2

LEMMA InitIInv == Init => IInv
<1>. SUFFICES ASSUME Init PROVE IInv
  OBVIOUS
<1>1. /\ roles \in [DOMAIN roles -> Rates \cup {Malformed}]
      /\ DOMAIN roles \subseteq RoleNames
      /\ DefaultNames \subseteq DOMAIN roles
  BY LoadedRolesFacts, ConstantsAssumption
     DEF Init, LoadFromFiles, LoadDefaultsWithDemoToken, DefaultNames
<1>2. PICK E : /\ E \subseteq Token /\ WellFormed(E) /\ LoadTokens(E)
               /\ \A t \in E : t.token <= Loaded
  <2>1. CASE LoadFromFiles
    <3>1. PICK tf \in TokensFiles : LoadTokens(IF tf = Nil THEN {} ELSE tf)
      BY <2>1 DEF LoadFromFiles
    <3>2. CASE tf = Nil
      BY <3>1, <3>2 DEF WellFormed
    <3>3. CASE tf # Nil
      BY <3>1, <3>3, FilesAssumption
    <3>. QED
      BY <3>2, <3>3
  <2>2. ASSUME NEW demo \in Users, NEW admin \in DefaultNames,
               LoadDefaultsWithDemoToken(demo, admin)
        PROVE  \E E : /\ E \subseteq Token /\ WellFormed(E) /\ LoadTokens(E)
                      /\ \A t \in E : t.token <= Loaded
    <3>. DEFINE entry == [user |-> demo, token |-> DemoToken, role |-> admin,
                          issued |-> today, expires |-> Nil]
    <3>1. entry \in Token
      BY ConstantsAssumption DEF Token, DemoToken, TokenStrings, Days, Init
    <3>2. \A t \in {entry} : t.token <= Loaded
      BY ConstantsAssumption DEF DemoToken
    <3>. QED
      BY <2>2, <3>1, <3>2 DEF LoadDefaultsWithDemoToken, WellFormed
  <2>. QED
    BY <2>1, <2>2 DEF Init
<1>3. /\ tokens \in [DOMAIN tokens -> Token]
      /\ DOMAIN tokens \subseteq TokenStrings
      /\ tokensByUser \in [DOMAIN tokensByUser -> Token]
      /\ DOMAIN tokensByUser \subseteq Users
      /\ IndexAgreement
      /\ \A s \in DOMAIN tokens : tokens[s] \in E
  BY <1>2, LoadTokensFacts
<1>4. TypeOK
  <2>1. rateLimiters \in [DOMAIN rateLimiters -> Rates] /\ DOMAIN rateLimiters \subseteq Users
    BY DEF Init
  <2>2. rotateAll \in [Admins -> [pc : {"idle", "rotating"}, todo : SUBSET Users,
                                  result : SUBSET Nat, before : SUBSET TokenStrings]]
    BY DEF Init, Idle
  <2>3. dangling \subseteq RoleNames
    BY <1>3 DEF Init, Token
  <2>. QED
    BY <1>1, <1>3, <2>1, <2>2, <2>3, ConstantsAssumption DEF Init, TypeOK, Days
<1>5. Fresh
  BY <1>2, <1>3, ConstantsAssumption DEF Fresh, Init, Idle, IndexAgreement
<1>6. LimiterFollowsRole /\ RotateAllReplaces
  BY DEF Init, Idle, LimiterFollowsRole, RotateAllReplaces
<1>7. RoleReferenced
  BY DEF Init, RoleReferenced
<1>. QED
  BY <1>3, <1>4, <1>5, <1>6, <1>7 DEF IInv
-----------------------------------------------------------------------------
(* Entering a token, for AddToken and for rotation.                        *)

\* What Install does to the two maps.
Installed(u, tok, R) ==
  /\ lastToken' = lastToken + 1
  /\ DOMAIN tokens' = (DOMAIN tokens \ R) \cup {lastToken + 1}
  /\ tokens'[lastToken + 1] = tok
  /\ \A s \in DOMAIN tokens \ R : s # lastToken + 1 /\ tokens'[s] = tokens[s]
  /\ \A s \in DOMAIN tokens \ R : tokens[s].user # u
  /\ DOMAIN tokensByUser' = DOMAIN tokensByUser \cup {u}
  /\ tokensByUser'[u] = tok
  /\ \A v \in DOMAIN tokensByUser : v # u => tokensByUser'[v] = tokensByUser[v]
  /\ tokens' \in [DOMAIN tokens' -> Token]
  /\ tokensByUser' \in [DOMAIN tokensByUser' -> Token]
  /\ DOMAIN tokens' \subseteq TokenStrings
  /\ DOMAIN tokensByUser' \subseteq Users
  /\ IndexAgreement'

\* It does so when the string it replaces (if any) is the one user u has.
LEMMA InstallFacts ==
  ASSUME IInv, NEW u \in Users, NEW tok \in Token, NEW R,
         tok.user = u, tok.token = lastToken + 1,
         Install(u, tok, R),
         IF u \in DOMAIN tokensByUser THEN R = {tokensByUser[u].token} ELSE R = {}
  PROVE  Installed(u, tok, R)
<1>. DEFINE left == Delete(tokens, R)
<1>1. /\ lastToken \in Nat /\ lastToken' = lastToken + 1
      /\ tokens' = Put(left, lastToken + 1, tok)
      /\ tokensByUser' = Put(tokensByUser, u, tok)
  BY DEF Install, IInv, TypeOK
<1>2. /\ DOMAIN left = DOMAIN tokens \ R
      /\ \A s \in DOMAIN tokens \ R : left[s] = tokens[s]
  BY DeleteFacts
<1>3. /\ DOMAIN tokens' = DOMAIN left \cup {lastToken + 1}
      /\ tokens'[lastToken + 1] = tok
      /\ \A s \in DOMAIN left : s # lastToken + 1 => tokens'[s] = left[s]
  <2>. HIDE DEF left
  <2>. QED
    BY <1>1 DEF Put
<1>4. /\ DOMAIN tokensByUser' = DOMAIN tokensByUser \cup {u}
      /\ tokensByUser'[u] = tok
      /\ \A v \in DOMAIN tokensByUser : v # u => tokensByUser'[v] = tokensByUser[v]
  BY <1>1 DEF Put
<1>5. \A s \in DOMAIN tokens : s # lastToken + 1
  BY <1>1 DEF IInv, Fresh, TypeOK, TokenStrings
<1>6. \A s \in DOMAIN tokens \ R : tokens[s].user # u
  BY DEF IInv, IndexAgreement
<1>7. \A s \in DOMAIN tokens \ R : s # lastToken + 1 /\ tokens'[s] = tokens[s]
  BY <1>2, <1>3, <1>5
<1>8. /\ tokens' \in [DOMAIN tokens' -> Token]
      /\ tokensByUser' \in [DOMAIN tokensByUser' -> Token]
  <2>1. tokens \in [DOMAIN tokens -> Token] /\ tokensByUser \in [DOMAIN tokensByUser -> Token]
    BY DEF IInv, TypeOK
  <2>. QED
    BY <2>1, <1>1, PutType, DeleteType
<1>9. DOMAIN tokens' \subseteq TokenStrings /\ DOMAIN tokensByUser' \subseteq Users
  BY <1>1, <1>2, <1>3, <1>4 DEF IInv, TypeOK, TokenStrings
<1>10. ASSUME NEW s \in DOMAIN tokens'
       PROVE  /\ tokens'[s].token = s /\ tokens'[s].user \in DOMAIN tokensByUser'
              /\ tokensByUser'[tokens'[s].user] = tokens'[s]
  <2>1. CASE s = lastToken + 1
    BY <2>1, <1>3, <1>4
  <2>2. CASE s # lastToken + 1
    <3>1. s \in DOMAIN tokens \ R
      BY <2>2, <1>2, <1>3
    <3>. QED
      BY <3>1, <1>4, <1>6, <1>7 DEF IInv, IndexAgreement
  <2>. QED
    BY <2>1, <2>2
<1>11. ASSUME NEW v \in DOMAIN tokensByUser'
       PROVE  /\ tokensByUser'[v].user = v /\ tokensByUser'[v].token \in DOMAIN tokens'
              /\ tokens'[tokensByUser'[v].token] = tokensByUser'[v]
  <2>1. CASE v = u
    BY <2>1, <1>3, <1>4
  <2>2. CASE v # u
    <3>1. /\ v \in DOMAIN tokensByUser /\ tokensByUser'[v] = tokensByUser[v]
          /\ tokensByUser[v].user = v /\ tokensByUser[v].token \in DOMAIN tokens
      BY <2>2, <1>4 DEF IInv, IndexAgreement
    <3>2. tokensByUser[v].token \notin R
      BY <2>2, <3>1 DEF IInv, IndexAgreement
    <3>. QED
      BY <3>1, <3>2, <1>2, <1>3, <1>5 DEF IInv, IndexAgreement
  <2>. QED
    BY <2>1, <2>2
<1>12. IndexAgreement'
  BY <1>10, <1>11 DEF IndexAgreement
<1>. QED
  BY <1>1, <1>2, <1>3, <1>4, <1>6, <1>7, <1>8, <1>9, <1>12 DEF Installed

\* The token that AddToken and rotation draw.
LEMMA NewTokenFacts ==
  ASSUME IInv, NEW u \in Users, NEW r \in RoleNames, NEW p \in Int \cup {Nil}
  PROVE  /\ NewToken(u, r, p) \in Token
         /\ NewToken(u, r, p).user = u
         /\ NewToken(u, r, p).token = lastToken + 1
         /\ NewToken(u, r, p).role = r
BY ConstantsAssumption
   DEF IInv, TypeOK, NewToken, ExpiryDate, Token, TokenStrings, Days

LEMMA PeriodType ==
  ASSUME NEW tok \in Token
  PROVE  Period(tok) \in Int \cup {Nil}
<1>1. CASE Parses(tok.expires) /\ Parses(tok.issued)
  <2>1. tok.expires \in Int /\ tok.issued \in Int
    BY <1>1 DEF Token, Days, Parses
  <2>. QED
    BY <1>1, <2>1, ConstantsAssumption DEF Period, Sub
<1>2. CASE ~(Parses(tok.expires) /\ Parses(tok.issued))
  BY <1>2 DEF Period
<1>. QED
  BY <1>1, <1>2
-----------------------------------------------------------------------------
(* The actions.                                                            *)

LEMMA AddTokenIInv ==
  ASSUME IInv, NEW u \in Users, NEW r \in RoleNames, NEW p \in Periods \cup {Nil},
         AddToken(u, r, p)
  PROVE  IInv'
<1>0. PICK tok : tok = NewToken(u, r, p)
  OBVIOUS
<1>1. /\ r \in DOMAIN roles /\ u \notin DOMAIN tokensByUser
      /\ Install(u, tok, {})
      /\ handed' = handed \cup {lastToken + 1}
      /\ UNCHANGED <<roles, rateLimiters, today, rotateAll, dangling>>
  BY <1>0 DEF AddToken, Install
<1>2. tok \in Token /\ tok.user = u /\ tok.token = lastToken + 1 /\ tok.role = r
  <2>1. p \in Int \cup {Nil}
    BY ConstantsAssumption
  <2>. QED
    BY <2>1, <1>0, NewTokenFacts
<1>3. /\ lastToken' = lastToken + 1
      /\ DOMAIN tokens' = (DOMAIN tokens \ {}) \cup {lastToken + 1}
      /\ tokens'[lastToken + 1] = tok
      /\ \A s \in DOMAIN tokens \ {} : s # lastToken + 1 /\ tokens'[s] = tokens[s]
      /\ DOMAIN tokensByUser' = DOMAIN tokensByUser \cup {u}
      /\ \A v \in DOMAIN tokensByUser : v # u => tokensByUser'[v] = tokensByUser[v]
      /\ tokens' \in [DOMAIN tokens' -> Token]
      /\ tokensByUser' \in [DOMAIN tokensByUser' -> Token]
      /\ DOMAIN tokens' \subseteq TokenStrings
      /\ DOMAIN tokensByUser' \subseteq Users
      /\ IndexAgreement'
  <2>1. IF u \in DOMAIN tokensByUser THEN {} = {tokensByUser[u].token} ELSE {} = {}
    BY <1>1
  <2>2. Installed(u, tok, {})
    BY <1>1, <1>2, <2>1, InstallFacts
  <2>. QED
    BY <2>2 DEF Installed
<1>4. TypeOK'
  BY <1>1, <1>3 DEF IInv, TypeOK, TokenStrings
<1>5. Fresh'
  BY <1>1, <1>3 DEF IInv, TypeOK, TokenStrings, Fresh
<1>6. LimiterFollowsRole'
  BY <1>1, <1>3 DEF IInv, LimiterFollowsRole
<1>7. RoleReferenced'
  BY <1>1, <1>2, <1>3 DEF IInv, RoleReferenced
<1>8. RotateAllReplaces'
  <2>1. ASSUME NEW a \in Admins, NEW s \in rotateAll[a].before \cap DOMAIN tokens'
        PROVE  tokens'[s].user \in rotateAll[a].todo
    <3>1. s # lastToken + 1
      BY DEF IInv, Fresh, TypeOK, TokenStrings
    <3>. QED
      BY <3>1, <1>3 DEF IInv, RotateAllReplaces
  <2>. QED
    BY <2>1, <1>1 DEF RotateAllReplaces
<1>. QED
  BY <1>3, <1>4, <1>5, <1>6, <1>7, <1>8 DEF IInv

LEMMA RevokeTokenIInv ==
  ASSUME IInv, NEW u \in Users, RevokeToken(u)
  PROVE  IInv'
<1>. DEFINE old == tokensByUser[u].token
<1>1. /\ u \in DOMAIN tokensByUser
      /\ UNCHANGED <<roles, today, lastToken, rotateAll, history>>
      /\ DOMAIN tokens' = DOMAIN tokens \ {old}
      /\ \A s \in DOMAIN tokens \ {old} : tokens'[s] = tokens[s]
      /\ DOMAIN tokensByUser' = DOMAIN tokensByUser \ {u}
      /\ \A v \in DOMAIN tokensByUser \ {u} : tokensByUser'[v] = tokensByUser[v]
      /\ DOMAIN rateLimiters' = DOMAIN rateLimiters \ {u}
      /\ \A v \in DOMAIN rateLimiters \ {u} : rateLimiters'[v] = rateLimiters[v]
  BY DEF RevokeToken, Delete, Restrict
<1>2. TypeOK'
  <2>1. /\ tokens' \in [DOMAIN tokens' -> Token]
        /\ tokensByUser' \in [DOMAIN tokensByUser' -> Token]
        /\ rateLimiters' \in [DOMAIN rateLimiters' -> Rates]
    BY DeleteType DEF RevokeToken, IInv, TypeOK
  <2>. QED
    BY <1>1, <2>1 DEF IInv, TypeOK, history
<1>3. Fresh'
  BY <1>1 DEF IInv, Fresh
<1>4. IndexAgreement'
  BY <1>1 DEF IInv, IndexAgreement
<1>5. LimiterFollowsRole'
  BY <1>1 DEF IInv, LimiterFollowsRole
<1>6. RoleReferenced'
  BY <1>1 DEF IInv, RoleReferenced, history
<1>7. RotateAllReplaces'
  BY <1>1 DEF IInv, RotateAllReplaces
<1>. QED
  BY <1>2, <1>3, <1>4, <1>5, <1>6, <1>7 DEF IInv

\* What a rotation of u does, apart from handing over the string.
LEMMA RotateFacts ==
  ASSUME IInv, NEW u \in Users, Rotate(u)
  PROVE  /\ lastToken' = lastToken + 1
         /\ lastToken + 1 \in Nat
         /\ IndexAgreement' /\ LimiterFollowsRole' /\ RoleReferenced'
         /\ rotateAll' \in [Admins -> [pc : {"idle", "rotating"}, todo : SUBSET Users,
                                       result : SUBSET Nat, before : SUBSET TokenStrings]]
              /\ handed' \subseteq TokenStrings => TypeOK'
         /\ \A s \in DOMAIN tokens' : s <= lastToken'
         /\ \A s \in DOMAIN tokens' \ {lastToken + 1} :
              s \in DOMAIN tokens /\ tokens'[s] = tokens[s] /\ tokens[s].user # u
<1>0. PICK old, tok : old = tokensByUser[u] /\ tok = NewToken(u, old.role, Period(old))
  OBVIOUS
<1>1. /\ u \in DOMAIN tokensByUser
      /\ Install(u, tok, {old.token})
      /\ DOMAIN rateLimiters' = DOMAIN rateLimiters \ {u}
      /\ \A v \in DOMAIN rateLimiters \ {u} : rateLimiters'[v] = rateLimiters[v]
      /\ UNCHANGED <<roles, today, dangling>>
  BY <1>0 DEF Rotate, Install, Delete, Restrict
<1>2. old \in Token
  BY <1>0, <1>1 DEF IInv, TypeOK
<1>3. tok \in Token /\ tok.user = u /\ tok.token = lastToken + 1 /\ tok.role = old.role
  <2>1. old.role \in RoleNames
    BY <1>2 DEF Token
  <2>2. Period(old) \in Int \cup {Nil}
    BY <1>2, PeriodType
  <2>3. /\ NewToken(u, old.role, Period(old)) \in Token
        /\ NewToken(u, old.role, Period(old)).user = u
        /\ NewToken(u, old.role, Period(old)).token = lastToken + 1
        /\ NewToken(u, old.role, Period(old)).role = old.role
    BY <2>1, <2>2, NewTokenFacts
  <2>. QED
    BY <1>0, <2>3
<1>4. old.role \in DOMAIN roles \cup dangling
  BY <1>0, <1>1 DEF IInv, IndexAgreement, RoleReferenced
<1>5. /\ lastToken' = lastToken + 1
      /\ DOMAIN tokens' = (DOMAIN tokens \ {old.token}) \cup {lastToken + 1}
      /\ tokens'[lastToken + 1] = tok
      /\ \A s \in DOMAIN tokens \ {old.token} :
           s # lastToken + 1 /\ tokens'[s] = tokens[s]
      /\ \A s \in DOMAIN tokens \ {old.token} : tokens[s].user # u
      /\ DOMAIN tokensByUser' = DOMAIN tokensByUser \cup {u}
      /\ \A v \in DOMAIN tokensByUser : v # u => tokensByUser'[v] = tokensByUser[v]
      /\ tokens' \in [DOMAIN tokens' -> Token]
      /\ tokensByUser' \in [DOMAIN tokensByUser' -> Token]
      /\ DOMAIN tokens' \subseteq TokenStrings
      /\ DOMAIN tokensByUser' \subseteq Users
      /\ IndexAgreement'
  <2>1. IF u \in DOMAIN tokensByUser
        THEN {old.token} = {tokensByUser[u].token} ELSE {old.token} = {}
    BY <1>0, <1>1
  <2>2. Installed(u, tok, {old.token})
    BY <1>1, <1>3, <2>1, InstallFacts
  <2>. QED
    BY <2>2 DEF Installed
<1>6. rateLimiters' \in [DOMAIN rateLimiters' -> Rates]
  BY DeleteType DEF Rotate, IInv, TypeOK
<1>7. LimiterFollowsRole'
  BY <1>1, <1>5 DEF IInv, LimiterFollowsRole
<1>8. RoleReferenced'
  BY <1>1, <1>3, <1>4, <1>5 DEF IInv, RoleReferenced
<1>9. \A s \in DOMAIN tokens' : s <= lastToken'
  BY <1>5 DEF IInv, TypeOK, TokenStrings, Fresh
<1>10. lastToken + 1 \in Nat
  BY DEF IInv, TypeOK
<1>11. rotateAll' \in [Admins -> [pc : {"idle", "rotating"}, todo : SUBSET Users,
                                  result : SUBSET Nat, before : SUBSET TokenStrings]]
         /\ handed' \subseteq TokenStrings => TypeOK'
  BY <1>1, <1>5, <1>6, <1>10 DEF IInv, TypeOK
<1>. QED
  BY <1>5, <1>7, <1>8, <1>9, <1>10, <1>11

LEMMA RotateTokenIInv ==
  ASSUME IInv, NEW u \in Users, RotateToken(u)
  PROVE  IInv'
<1>1. Rotate(u) /\ handed' = handed \cup {lastToken + 1} /\ rotateAll' = rotateAll
  BY DEF RotateToken
<1>2. TypeOK'
  BY <1>1, RotateFacts DEF IInv, TypeOK, TokenStrings
<1>3. Fresh'
  BY <1>1, RotateFacts DEF IInv, TypeOK, TokenStrings, Fresh
<1>4. RotateAllReplaces'
  <2>1. ASSUME NEW a \in Admins, NEW s \in rotateAll[a].before \cap DOMAIN tokens'
        PROVE  tokens'[s].user \in rotateAll[a].todo
    <3>1. s # lastToken + 1
      BY DEF IInv, Fresh, TypeOK, TokenStrings
    <3>. QED
      BY <3>1, <1>1, RotateFacts DEF IInv, RotateAllReplaces
  <2>. QED
    BY <2>1, <1>1 DEF RotateAllReplaces
<1>. QED
  BY <1>1, <1>2, <1>3, <1>4, RotateFacts DEF IInv

LEMMA AddRoleIInv ==
  ASSUME IInv, NEW r \in RoleNames, NEW rate, AddRole(r, rate)
  PROVE  IInv'
<1>1. /\ rate \in Rates /\ r \notin DOMAIN roles
      /\ DOMAIN roles' = DOMAIN roles \cup {r}
      /\ \A x \in DOMAIN roles : roles'[x] = roles[x]
      /\ UNCHANGED <<tokens, tokensByUser, rateLimiters,
                     today, lastToken, rotateAll, history>>
  BY DEF AddRole, Put
<1>2. roles' \in [DOMAIN roles' -> Rates \cup {Malformed}]
  BY PutType DEF AddRole, IInv, TypeOK
<1>3. TypeOK'
  BY <1>1, <1>2 DEF IInv, TypeOK, history
<1>4. LimiterFollowsRole' /\ RoleReferenced'
  BY <1>1 DEF IInv, LimiterFollowsRole, RoleReferenced, history
<1>. QED
  BY <1>1, <1>3, <1>4 DEF IInv, Fresh, IndexAgreement, RotateAllReplaces

\* The limiters that survive are those of users with another role.
LEMMA UpdateRoleIInv ==
  ASSUME IInv, NEW r \in RoleNames, NEW rate, UpdateRole(r, rate)
  PROVE  IInv'
<1>. DEFINE holders == {u \in DOMAIN tokensByUser : tokensByUser[u].role = r}
<1>1. /\ rate \in Rates /\ r \in DOMAIN roles
      /\ DOMAIN roles' = DOMAIN roles
      /\ \A x \in DOMAIN roles : x # r => roles'[x] = roles[x]
      /\ DOMAIN rateLimiters' = DOMAIN rateLimiters \ holders
      /\ \A u \in DOMAIN rateLimiters \ holders : rateLimiters'[u] = rateLimiters[u]
      /\ UNCHANGED <<tokens, tokensByUser, today, lastToken, rotateAll, history>>
  BY DEF UpdateRole, Put, Delete, Restrict
<1>2. /\ roles' \in [DOMAIN roles' -> Rates \cup {Malformed}]
      /\ rateLimiters' \in [DOMAIN rateLimiters' -> Rates]
  BY PutType, DeleteType DEF UpdateRole, IInv, TypeOK
<1>3. TypeOK'
  BY <1>1, <1>2 DEF IInv, TypeOK, history
<1>4. LimiterFollowsRole'
  BY <1>1 DEF IInv, LimiterFollowsRole
<1>5. RoleReferenced'
  BY <1>1 DEF IInv, RoleReferenced, history
<1>. QED
  BY <1>1, <1>3, <1>4, <1>5 DEF IInv, Fresh, IndexAgreement, RotateAllReplaces

\* No token names the role that goes.
LEMMA DeleteRoleIInv ==
  ASSUME IInv, NEW r \in RoleNames, DeleteRole(r)
  PROVE  IInv'
<1>1. /\ r \in DOMAIN roles \ DefaultNames
      /\ \A u \in DOMAIN tokensByUser : tokensByUser[u].role # r
      /\ DOMAIN roles' = DOMAIN roles \ {r}
      /\ \A x \in DOMAIN roles \ {r} : roles'[x] = roles[x]
      /\ UNCHANGED <<tokens, tokensByUser, rateLimiters,
                     today, lastToken, rotateAll, history>>
  BY DEF DeleteRole, Delete, Restrict
<1>2. roles' \in [DOMAIN roles' -> Rates \cup {Malformed}]
  BY DeleteType DEF DeleteRole, IInv, TypeOK
<1>3. TypeOK'
  BY <1>1, <1>2 DEF IInv, TypeOK, history
<1>4. LimiterFollowsRole'
  BY <1>1 DEF IInv, LimiterFollowsRole
<1>5. RoleReferenced'
  BY <1>1 DEF IInv, IndexAgreement, RoleReferenced, history
<1>. QED
  BY <1>1, <1>3, <1>4, <1>5 DEF IInv, Fresh, IndexAgreement, RotateAllReplaces

LEMMA GetOrCreateLimiterIInv ==
  ASSUME IInv, NEW s \in DOMAIN tokens, GetOrCreateLimiter(s)
  PROVE  IInv'
<1>. DEFINE u == tokens[s].user
<1>1. /\ tokens[s].role \in DOMAIN roles
      /\ roles[tokens[s].role] \in Rates
      /\ DOMAIN rateLimiters' = DOMAIN rateLimiters \cup {u}
      /\ rateLimiters'[u] = roles[tokens[s].role]
      /\ \A v \in DOMAIN rateLimiters : v # u => rateLimiters'[v] = rateLimiters[v]
      /\ UNCHANGED <<tokens, tokensByUser, roles, today, lastToken, rotateAll, history>>
  BY DEF GetOrCreateLimiter, Put
<1>2. u \in DOMAIN tokensByUser /\ tokensByUser[u] = tokens[s] /\ u \in Users
  BY DEF IInv, IndexAgreement, TypeOK
<1>3. rateLimiters' \in [DOMAIN rateLimiters' -> Rates]
  BY <1>1, PutType DEF GetOrCreateLimiter, IInv, TypeOK
<1>4. TypeOK'
  BY <1>1, <1>2, <1>3 DEF IInv, TypeOK, history
<1>5. LimiterFollowsRole'
  BY <1>1, <1>2 DEF IInv, LimiterFollowsRole
<1>. QED
  BY <1>1, <1>4, <1>5 DEF IInv, Fresh, IndexAgreement, RoleReferenced,
                          RotateAllReplaces, history

LEMMA NextDayIInv ==
  ASSUME IInv, NextDay
  PROVE  IInv'
BY DEF IInv, NextDay, tables, history, TypeOK, Days, Fresh, IndexAgreement,
       LimiterFollowsRole, RoleReferenced, RotateAllReplaces

\* The rotation of everything: what is still valid belongs to users to come.
LEMMA RotateAllIInv ==
  ASSUME IInv, NEW a \in Admins,
         \/ RotateAllBegin(a) \/ RotateAllReturn(a)
         \/ \E u \in Users : RotateAllFail(a, u)
  PROVE  IInv'
<1>. DEFINE State == [pc : {"idle", "rotating"}, todo : SUBSET Users,
                      result : SUBSET Nat, before : SUBSET TokenStrings]
            begun == [pc |-> "rotating", todo |-> DOMAIN tokensByUser,
                      result |-> {}, before |-> DOMAIN tokens]
<1>1. /\ UNCHANGED <<tokens, tokensByUser, roles, rateLimiters, today, lastToken, dangling>>
      /\ \/ rotateAll' = [rotateAll EXCEPT ![a] = begun]
         \/ rotateAll' = [rotateAll EXCEPT ![a] = Idle]
      /\ handed' = handed \/ handed' = handed \cup rotateAll[a].result
  BY DEF RotateAllBegin, RotateAllFail, RotateAllReturn, tables, history
<1>2. Idle \in State /\ begun \in State
  BY DEF Idle, IInv, TypeOK
<1>3. rotateAll \in [Admins -> State]
  BY DEF IInv, TypeOK
<1>4. rotateAll' \in [Admins -> State]
  BY <1>1, <1>2, <1>3
<1>5. handed' \subseteq TokenStrings
  BY <1>1, <1>3 DEF IInv, TypeOK, TokenStrings
<1>6. TypeOK'
  BY <1>1, <1>4, <1>5 DEF IInv, TypeOK
<1>7. \A b \in Admins : \/ rotateAll'[b] = rotateAll[b]
                        \/ rotateAll'[b] = begun \/ rotateAll'[b] = Idle
  BY <1>1, <1>3
<1>8. Fresh'
  BY <1>1, <1>7 DEF IInv, Fresh, Idle
<1>9. RotateAllReplaces'
  BY <1>1, <1>7 DEF IInv, RotateAllReplaces, IndexAgreement, Idle
<1>. QED
  BY <1>1, <1>6, <1>8, <1>9
     DEF IInv, IndexAgreement, LimiterFollowsRole, RoleReferenced

LEMMA RotateAllStepIInv ==
  ASSUME IInv, NEW a \in Admins, NEW u \in Users, RotateAllStep(a, u)
  PROVE  IInv'
<1>. DEFINE State == [pc : {"idle", "rotating"}, todo : SUBSET Users,
                      result : SUBSET Nat, before : SUBSET TokenStrings]
<1>1. /\ Rotate(u)
      /\ rotateAll' = [rotateAll EXCEPT ![a].todo = @ \ {u},
                                        ![a].result = @ \cup {lastToken + 1}]
      /\ handed' = handed
  BY DEF RotateAllStep
<1>2. rotateAll \in [Admins -> State] /\ lastToken + 1 \in Nat
  BY DEF IInv, TypeOK
<1>3. rotateAll' \in [Admins -> State]
  BY <1>1, <1>2
<1>4. \A b \in Admins : /\ rotateAll'[b].before = rotateAll[b].before
                        /\ rotateAll[b].todo \ {u} \subseteq rotateAll'[b].todo
  BY <1>1, <1>2
<1>5. TypeOK'
  BY <1>1, <1>3, RotateFacts DEF IInv, TypeOK
<1>6. Fresh'
  BY <1>1, <1>4, RotateFacts DEF IInv, TypeOK, TokenStrings, Fresh
<1>7. RotateAllReplaces'
  <2>1. ASSUME NEW b \in Admins, NEW s \in rotateAll'[b].before \cap DOMAIN tokens'
        PROVE  tokens'[s].user \in rotateAll'[b].todo
    <3>1. s \in rotateAll[b].before /\ s # lastToken + 1
      BY <1>4 DEF IInv, Fresh, TypeOK, TokenStrings
    <3>2. s \in DOMAIN tokens /\ tokens'[s] = tokens[s] /\ tokens[s].user # u
      BY <3>1, <1>1, RotateFacts
    <3>. QED
      BY <3>1, <3>2, <1>4 DEF IInv, RotateAllReplaces
  <2>. QED
    BY <2>1 DEF RotateAllReplaces
<1>. QED
  BY <1>1, <1>5, <1>6, <1>7, RotateFacts DEF IInv

LEMMA NextIInv == IInv /\ [Next]_vars => IInv'
<1>. SUFFICES ASSUME IInv, [Next]_vars PROVE IInv'
  OBVIOUS
<1>1. CASE UNCHANGED vars
  BY <1>1 DEF vars, tables, history, IInv, TypeOK, Fresh, IndexAgreement,
              LimiterFollowsRole, RoleReferenced, RotateAllReplaces
<1>2. CASE Next
  <2>1. ASSUME NEW u \in Users, NEW r \in RoleNames, NEW p \in Periods \cup {Nil},
               AddToken(u, r, p)
        PROVE  IInv'
    BY <2>1, AddTokenIInv
  <2>2. ASSUME NEW u \in Users, RevokeToken(u) \/ RotateToken(u) PROVE IInv'
    BY <2>2, RevokeTokenIInv, RotateTokenIInv
  <2>3. ASSUME NEW r \in RoleNames, NEW rate \in Rates \cup {Malformed, Nil},
               AddRole(r, rate) \/ UpdateRole(r, rate)
        PROVE  IInv'
    BY <2>3, AddRoleIInv, UpdateRoleIInv
  <2>4. ASSUME NEW r \in RoleNames, DeleteRole(r) PROVE IInv'
    BY <2>4, DeleteRoleIInv
  <2>5. ASSUME NEW s \in DOMAIN tokens, GetOrCreateLimiter(s) PROVE IInv'
    BY <2>5, GetOrCreateLimiterIInv
  <2>6. ASSUME NextDay PROVE IInv'
    BY <2>6, NextDayIInv
  <2>7. ASSUME NEW a \in Admins,
               \/ RotateAllBegin(a) \/ RotateAllReturn(a)
               \/ \E u \in Users : RotateAllStep(a, u) \/ RotateAllFail(a, u)
        PROVE  IInv'
    BY <2>7, RotateAllIInv, RotateAllStepIInv
  <2>. QED
    BY <1>2, <2>1, <2>2, <2>3, <2>4, <2>5, <2>6, <2>7 DEF Next
<1>. QED
  BY <1>1, <1>2
-----------------------------------------------------------------------------
(* The theorems.                                                           *)

\* IInv is an invariant of the store.
THEOREM Invariance == Spec => []IInv
BY InitIInv, NextIInv, PTL DEF Spec

\* Every map keeps its type, whatever the files hold and the operators do.
THEOREM TypeCorrect == Spec => []TypeOK
<1>1. IInv => TypeOK
  BY DEF IInv
<1>. QED
  BY <1>1, Invariance, PTL

\* The two indexes always describe one set of tokens.
THEOREM IndexesAgree == Spec => []IndexAgreement
<1>1. IInv => IndexAgreement
  BY DEF IInv
<1>. QED
  BY <1>1, Invariance, PTL

\* A limiter always has its user's current rate.
THEOREM LimitersFollowRoles == Spec => []LimiterFollowsRole
<1>1. IInv => LimiterFollowsRole
  BY DEF IInv
<1>. QED
  BY <1>1, Invariance, PTL

\* No operation leaves a token naming a role that it removed.
THEOREM RolesAreReferenced == Spec => []RoleReferenced
<1>1. IInv => RoleReferenced
  BY DEF IInv
<1>. QED
  BY <1>1, Invariance, PTL

\* A RotateAllTokens that returns with success has replaced every string that was
\* valid when it began.
THEOREM RotateAllIsComplete == Spec => []RotateAllReplaces
<1>1. IInv => RotateAllReplaces
  BY DEF IInv
<1>. QED
  BY <1>1, Invariance, PTL
-----------------------------------------------------------------------------
(* Rotation keeps the terms, if every file dates the tokens that expire.   *)

DatedFiles ==
  \A f \in TokensFiles : f # Nil => \A t \in f : Parses(t.expires) => Parses(t.issued)

Dated ==
  /\ Parses(today)
  /\ \A u \in DOMAIN tokensByUser :
       Parses(tokensByUser[u].expires) => Parses(tokensByUser[u].issued)

LEMMA InitDated ==
  ASSUME DatedFiles, Init
  PROVE  Dated
<1>0. Parses(today)
  BY ConstantsAssumption DEF Init, Parses
<1>1. CASE LoadFromFiles
  <2>1. PICK tf \in TokensFiles : LoadTokens(IF tf = Nil THEN {} ELSE tf)
    BY <1>1 DEF LoadFromFiles
  <2>2. CASE tf = Nil
    BY <1>0, <2>1, <2>2 DEF LoadTokens, Dated
  <2>3. CASE tf # Nil
    <3>1. \A u \in DOMAIN tokensByUser : tokensByUser[u] \in tf
      BY <2>1, <2>3 DEF LoadTokens
    <3>. QED
      BY <1>0, <3>1, <2>3 DEF DatedFiles, Dated
  <2>. QED
    BY <2>2, <2>3
<1>2. ASSUME NEW demo \in Users, NEW admin \in DefaultNames,
             LoadDefaultsWithDemoToken(demo, admin)
      PROVE  Dated
  <2>1. \A u \in DOMAIN tokensByUser : tokensByUser[u].expires = Nil
    BY <1>2 DEF LoadDefaultsWithDemoToken, LoadTokens
  <2>. QED
    BY <1>0, <2>1 DEF Dated, Parses
<1>. QED
  BY <1>1, <1>2 DEF Init

\* The token that rotation draws for u has the terms of the one it replaces.
LEMMA RotateTerms ==
  ASSUME IInv, Dated, NEW u \in Users, Rotate(u)
  PROVE  /\ u \in DOMAIN tokensByUser
         /\ DOMAIN tokensByUser' = DOMAIN tokensByUser
         /\ \A v \in DOMAIN tokensByUser : v # u => tokensByUser'[v] = tokensByUser[v]
         /\ SameTerms(tokensByUser[u], tokensByUser'[u])
         /\ Parses(tokensByUser'[u].issued)
         /\ today' = today
<1>1. PICK old : old = tokensByUser[u]
  OBVIOUS
<1>2. /\ u \in DOMAIN tokensByUser
      /\ tokensByUser' = Put(tokensByUser, u, NewToken(u, old.role, Period(old)))
      /\ today' = today
  BY <1>1 DEF Rotate, Install
<1>3. old \in Token /\ (Parses(old.expires) => Parses(old.issued))
  BY <1>1, <1>2 DEF IInv, TypeOK, Dated
<1>4. today \in Int /\ Nil \notin Int /\ Parses(today)
  BY ConstantsAssumption DEF IInv, TypeOK, Days, Dated
<1>5. /\ DOMAIN tokensByUser' = DOMAIN tokensByUser
      /\ tokensByUser'[u] = NewToken(u, old.role, Period(old))
      /\ \A v \in DOMAIN tokensByUser : v # u => tokensByUser'[v] = tokensByUser[v]
  BY <1>2 DEF Put
<1>6. tokensByUser'[u].issued = today /\ tokensByUser'[u].role = old.role
  BY <1>5 DEF NewToken
<1>7. CASE ~Parses(old.expires)
  <2>1. tokensByUser'[u].expires = Nil
    BY <1>5, <1>7 DEF NewToken, Period, ExpiryDate
  <2>. QED
    BY <1>1, <1>2, <1>4, <1>5, <1>6, <1>7, <2>1 DEF SameTerms
<1>8. CASE Parses(old.expires)
  <2>1. old.expires \in Int /\ old.issued \in Int
    BY <1>3, <1>8 DEF Token, Days, Parses
  <2>2. /\ Period(old) = Sub(old.expires, old.issued)
        /\ Period(old) \in Int
    BY <1>3, <1>8, <2>1, ConstantsAssumption DEF Period, Sub
  <2>3. tokensByUser'[u].expires = today + Period(old)
    BY <1>4, <1>5, <2>2 DEF NewToken, ExpiryDate
  <2>4. SameTerms(old, tokensByUser'[u])
    BY <1>4, <1>6, <1>8, <2>1, <2>2, <2>3, ConstantsAssumption DEF SameTerms, Sub
  <2>. QED
    BY <1>1, <1>2, <1>4, <1>5, <1>6, <2>4
<1>. QED
  BY <1>7, <1>8

LEMMA NextDated ==
  ASSUME IInv, Dated, [Next]_vars
  PROVE  /\ Dated'
         /\ \A u \in DOMAIN tokensByUser \cap DOMAIN tokensByUser' :
              tokensByUser'[u].token # tokensByUser[u].token =>
                SameTerms(tokensByUser[u], tokensByUser'[u])
<1>1. ASSUME NEW u \in Users, Rotate(u)
      PROVE  /\ Dated'
             /\ \A v \in DOMAIN tokensByUser : tokensByUser'[v] # tokensByUser[v] =>
                  SameTerms(tokensByUser[v], tokensByUser'[v])
  BY <1>1, RotateTerms DEF Dated
<1>2. ASSUME NEW u \in Users, NEW r \in RoleNames, NEW p \in Periods \cup {Nil},
             AddToken(u, r, p)
      PROVE  /\ Dated'
             /\ \A v \in DOMAIN tokensByUser : tokensByUser'[v] = tokensByUser[v]
  <2>1. /\ u \notin DOMAIN tokensByUser
        /\ DOMAIN tokensByUser' = DOMAIN tokensByUser \cup {u}
        /\ tokensByUser'[u].issued = today /\ today' = today
        /\ \A v \in DOMAIN tokensByUser : tokensByUser'[v] = tokensByUser[v]
    BY <1>2 DEF AddToken, Install, Put, NewToken
  <2>. QED
    BY <2>1 DEF Dated, Parses
<1>3. ASSUME NEW u \in Users, RevokeToken(u)
      PROVE  /\ DOMAIN tokensByUser' \subseteq DOMAIN tokensByUser
             /\ \A v \in DOMAIN tokensByUser' : tokensByUser'[v] = tokensByUser[v]
             /\ today' = today
  BY <1>3 DEF RevokeToken, Delete, Restrict
<1>4. \/ \E u \in Users : Rotate(u)
      \/ \E u \in Users, r \in RoleNames, p \in Periods \cup {Nil} : AddToken(u, r, p)
      \/ \E u \in Users : RevokeToken(u)
      \/ tokensByUser' = tokensByUser /\ today' = today
      \/ NextDay
  BY DEF Next, vars, tables, RotateToken, AddRole, UpdateRole, DeleteRole,
         GetOrCreateLimiter, NextDay, RotateAllBegin, RotateAllStep, RotateAllFail,
         RotateAllReturn
<1>5. ASSUME NextDay
      PROVE  Dated' /\ tokensByUser' = tokensByUser
  <2>1. today \in Int /\ today' = today + 1 /\ today < MaxDay /\ today >= FirstDate
    BY <1>5 DEF NextDay, IInv, TypeOK, Days, Dated, Parses
  <2>2. Parses(today')
    BY <2>1, ConstantsAssumption DEF Parses
  <2>. QED
    BY <1>5, <2>2 DEF NextDay, tables, Dated, Parses
<1>. QED
  BY <1>1, <1>2, <1>3, <1>4, <1>5 DEF Dated, Parses

\* Whatever is rotated, revoked and re-issued, a rotated token keeps its role and
\* the length of its validity, as far as dates and durations can express it, provided
\* no file has a token that expires but does not say when it was issued.
THEOREM RotationIsFaithful ==
  ASSUME DatedFiles
  PROVE  Spec => RotationKeepsTerms
<1>1. Init => IInv /\ Dated
  BY InitIInv, InitDated
<1>2. IInv /\ Dated /\ [Next]_vars => (IInv /\ Dated)'
  BY NextIInv, NextDated
<1>3. IInv /\ Dated /\ [Next]_vars =>
        [\A u \in DOMAIN tokensByUser \cap DOMAIN tokensByUser' :
           tokensByUser'[u].token # tokensByUser[u].token =>
             SameTerms(tokensByUser[u], tokensByUser'[u])]_vars
  BY NextDated
<1>. QED
  BY <1>1, <1>2, <1>3, PTL DEF Spec, RotationKeepsTerms
=============================================================================
