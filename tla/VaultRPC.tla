------------------------------- MODULE VaultRPC -------------------------------
(***************************************************************************)
(* The request path: the interceptor (server/interceptors.go), the three   *)
(* handlers of server/grpc.go and Validate of tokens/store.go, with the    *)
(* operator's changes that interleave with them.                           *)
(*                                                                         *)
(* A handler takes Store.mu twice (GetUsername, then Validate), then the   *)
(* limiter's mutex, and reads the role it was given through the pointer    *)
(* without any lock, while UpdateRole writes that object field by field    *)
(* under mu.  So UpdateRole is a process too, and its state tells who      *)
(* holds mu.                                                               *)
(*                                                                         *)
(* All tokens name one default role, which no operator can delete.  A     *)
(* limiter is an object with a number; it counts the requests it admitted, *)
(* and a run lies within one window.                                       *)
(* Keys and bundles are reduced to whether the work on them succeeds; what *)
(* the handlers make of decrypted data is module Retrieval.                *)
(***************************************************************************)
EXTENDS Integers, Retrieval

CONSTANTS
  Requests,       \* handler goroutines
  Strings,        \* token strings that clients send
  Users,
  Owner,          \* string -> the user it is or would be issued to
  Initial,        \* the strings that are valid at the start, one for each user at most
  Expired,        \* the strings whose expiry date has passed
  Scores,         \* DecryptScores, the method with a top_k
  Manifest,       \* GetAgentManifest
  Metadata,       \* DecryptMetadata
  TopKs,          \* the top_k of a request, and of a role
  Rates,          \* the limits of a role
  Malformed,      \* a rate limit, out of a hand-written file, that does not parse
  Loaded,         \* the terms the role may be loaded with
  Offers,         \* what operators change them to; Nil leaves a field alone
  Unknown,        \* the user named in the log when GetUsername finds none
  Nil,
  MaxCalls,       \* bound: calls in one run
  MaxUpdates      \* bound: UpdateRole calls in one run

Methods == {Manifest, Scores, Metadata}

\* The scope of a role lists the methods it permits.
Terms == [scope : SUBSET Methods, topK : TopKs, rate : Rates \cup {Malformed}]

ASSUME ConstantsAssumption ==
  /\ Owner \in [Strings -> Users]
  /\ Initial \subseteq Strings
  /\ \A s, t \in Initial : Owner[s] = Owner[t] => s = t
  /\ Expired \subseteq Strings
  /\ TopKs \subseteq Nat /\ Rates \subseteq Nat
  /\ Loaded \subseteq Terms /\ Loaded # {}
  /\ Offers \subseteq [scope : {Nil} \cup SUBSET Methods, topK : TopKs \cup {Nil},
                       rate : Rates \cup {Nil}]
  /\ Unknown \notin Users
  /\ (\A scope \in SUBSET Methods : scope # Nil) /\ {Nil, Malformed} \cap Nat = {} /\ Nil # Malformed
  /\ MaxCalls \in Nat /\ MaxUpdates \in Nat

VARIABLES
  valid,          \* the keys of Store.tokens
  issued,         \* strings that have been drawn: none is drawn twice
  role,           \* the role object
  update,         \* the UpdateRole that holds mu, if any
  limiterOf,      \* Store.rateLimiters: user -> number of its limiter
  limiters,       \* sequence of limiter objects: their limit and their count
  req,            \* request -> what its handler knows and where it is
  calls,          \* number of calls that have arrived
  updates,
  past,           \* history: what the role object has held, half updated or whole
  admitted,       \* history: user -> requests admitted
  drops,          \* history: user -> how often its limiter was dropped
  removals        \* history: user -> how often it was emptied as well

store == <<valid, issued, limiterOf>>
history == <<past, admitted, drops, removals>>
vars == <<store, role, update, limiters, req, calls, updates, history>>

NoCall == [string |-> Nil, method |-> Nil, topK |-> Nil]
Call == {c \in [string : Strings, method : Methods, topK : TopKs \cup {Nil}] :
           (c.topK # Nil) = (c.method = Scores)}

Fresh == [pc |-> "idle", call |-> NoCall, user |-> Nil, limiter |-> Nil,
          code |-> Nil, since |-> 0]

NoUpdate == [pc |-> "none", offer |-> Nil, torn |-> {}]

\* Nobody holds mu: other holders release it within their step.
Unlocked == update.pc = "none"

Init ==
  /\ valid = Initial
  /\ issued = Initial
  /\ role \in Loaded
  /\ update = NoUpdate
  /\ limiterOf = [u \in Users |-> Nil]
  /\ limiters = <<>>
  /\ req = [r \in Requests |-> Fresh]
  /\ calls = 0 /\ updates = 0
  /\ past = <<[terms |-> role, whole |-> TRUE]>>
  /\ admitted = [u \in Users |-> 0]
  /\ drops = [u \in Users |-> 0] /\ removals = [u \in Users |-> 0]
-----------------------------------------------------------------------------
(* A request: interceptor, handler, answer.                                *)

\* A step of r's handler that leaves the tables alone.
Handle(r, new) ==
  /\ req' = [req EXCEPT ![r] = new]
  /\ UNCHANGED <<store, role, update, updates>>

Answer(r, code) == [req[r] EXCEPT !.pc = "answered", !.code = code]

\* A call that the interceptor lets through.  One that violates the .proto
\* constraints or CheckTokenSafety is answered there; no handler sees it.
Arrive(r) ==
  /\ req[r].pc = "idle"
  /\ calls < MaxCalls
  /\ calls' = calls + 1
  /\ \E c \in Call : Handle(r, [Fresh EXCEPT !.pc = "received", !.call = c])
  /\ UNCHANGED <<limiters, history>>

\* The user's name for the log.
GetUsername(r) ==
  LET s == req[r].call.string
  IN  /\ req[r].pc = "received"
      /\ Unlocked
      /\ Handle(r, [req[r] EXCEPT !.pc = "named",
                                  !.user = IF s \in valid THEN Owner[s] ELSE Unknown])
      /\ UNCHANGED <<limiters, calls, history>>

Named(r) == req[r].pc = "named" /\ Unlocked

\* Validate under mu, when it refuses: the token, or to build a limiter from a
\* rate limit that does not parse.
Refuse(r) ==
  LET s == req[r].call.string
  IN  /\ Named(r)
      /\ \/ s \notin valid
         \/ s \in Expired
         \/ limiterOf[Owner[s]] = Nil /\ role.rate = Malformed
      /\ Handle(r, Answer(r, "Unauthenticated"))
      /\ UNCHANGED <<limiters, calls, history>>

\* Mutant: the limiter that is built is not kept.
LookupAnew(r) ==
  /\ Named(r)
  /\ req[r].call.string \in valid \ Expired
  /\ role.rate # Malformed
  /\ limiters' = Append(limiters, [max |-> role.rate, used |-> 0])
  /\ Handle(r, [req[r] EXCEPT !.pc = "found", !.limiter = Len(limiters'), !.since = Len(past)])
  /\ UNCHANGED <<calls, history>>

\* Validate under mu, when it finds the token: it takes the limiter of the user,
\* building one when there is none, and leaves with it and the role object.
Lookup(r) ==
  LET s == req[r].call.string
      u == Owner[s]
      found(l) == [req[r] EXCEPT !.pc = "found", !.limiter = l, !.since = Len(past)]
  IN  /\ Named(r)
      /\ s \in valid \ Expired
      /\ \/ /\ limiterOf[u] # Nil
            /\ req' = [req EXCEPT ![r] = found(limiterOf[u])]
            /\ UNCHANGED <<limiterOf, limiters>>
         \/ /\ limiterOf[u] = Nil /\ role.rate # Malformed
            /\ limiters' = Append(limiters, [max |-> role.rate, used |-> 0])
            /\ limiterOf' = [limiterOf EXCEPT ![u] = Len(limiters')]
            /\ req' = [req EXCEPT ![r] = found(Len(limiters'))]
      /\ UNCHANGED <<valid, issued, role, update, calls, updates, history>>

LimiterOf(r) == limiters[req[r].limiter]

\* Mutant: the handler keeps the name that GetUsername gave it.
AdmitUnnamed(r) ==
  /\ req[r].pc = "found"
  /\ LimiterOf(r).used < LimiterOf(r).max
  /\ limiters' = [limiters EXCEPT ![req[r].limiter].used = @ + 1]
  /\ Handle(r, [req[r] EXCEPT !.pc = "admitted"])
  /\ admitted' = [admitted EXCEPT ![Owner[req[r].call.string]] = @ + 1]
  /\ UNCHANGED <<calls, past, drops, removals>>

\* IsAllowed, on the limiter found then, whether or not the store still has it.
Admit(r) ==
  LET u == Owner[req[r].call.string]
  IN  /\ req[r].pc = "found"
      /\ LimiterOf(r).used < LimiterOf(r).max
      /\ limiters' = [limiters EXCEPT ![req[r].limiter].used = @ + 1]
      /\ Handle(r, [req[r] EXCEPT !.pc = "admitted", !.user = u])
      /\ admitted' = [admitted EXCEPT ![u] = @ + 1]
      /\ UNCHANGED <<calls, past, drops, removals>>

Throttle(r) ==
  /\ req[r].pc = "found"
  /\ LimiterOf(r).used >= LimiterOf(r).max
  /\ Handle(r, Answer(r, "ResourceExhausted"))
  /\ UNCHANGED <<limiters, calls, history>>

\* Mutant: handlers judge by the terms the role was loaded with.
ScopesLoaded == {past[1].terms.scope}

\* What a read of role.Scope may give.  While UpdateRole stores the new slice the
\* read may see the old one, the new one, or the array of one with the length of
\* the other: that permits nothing neither permits, and may permit nothing.
ScopesSeen ==
  {role.scope} \cup
    (IF update.pc = "scope" /\ update.offer.scope # Nil THEN {update.torn, {}} ELSE {})

CheckScope(r) ==
  /\ req[r].pc = "admitted"
  /\ \E scope \in ScopesSeen :
       Handle(r, IF req[r].call.method \in scope
                 THEN [req[r] EXCEPT !.pc = "scoped"]
                 ELSE Answer(r, "PermissionDenied"))
  /\ UNCHANGED <<limiters, calls, history>>

\* One read of role.TopK: the compiler may reuse it for the message of the refusal.
CheckTopK(r) ==
  /\ req[r].pc = "scoped" /\ req[r].call.method = Scores
  /\ Handle(r, IF req[r].call.topK > role.topK
               THEN Answer(r, "InvalidArgument")
               ELSE [req[r] EXCEPT !.pc = "permitted"])
  /\ UNCHANGED <<limiters, calls, history>>

Permitted(r) ==
  \/ req[r].pc = "permitted"
  \/ req[r].pc = "scoped" /\ req[r].call.method # Scores

\* The work on a permitted request ends, in one of the ways that its method has.
Finish(r, method, codes) ==
  /\ Permitted(r) /\ req[r].call.method = method
  /\ \E code \in codes : Handle(r, Answer(r, code))
  /\ UNCHANGED <<limiters, calls, history>>

\* The encryption key is read, the agent's key derived and the bundle marshalled.
GetAgentManifest(r) == Finish(r, Manifest, {"OK", "Internal"})

\* Mutant: the error of keys.Decrypt is returned as it is; gRPC calls it Unknown.
DecryptUnmapped(r) == Finish(r, Scores, {"OK", "InvalidArgument", "Unknown"})

\* A blob that is no base64 is the caller's error; missing keys, and a ciphertext
\* that does not decrypt, are the server's.
DecryptScores(r) == Finish(r, Scores, {"OK", "InvalidArgument", "Internal"})

\* Without a team secret no key can be derived.
DecryptMetadata(r) ==
  Finish(r, Metadata, {"OK", "Internal"} \cup {CodeOf(envelope) : envelope \in Envelope})

\* The deferred emit logs the call under req[r].user, and the answer goes out.
Emit(r) ==
  /\ req[r].pc = "answered"
  /\ Handle(r, Fresh)
  /\ UNCHANGED <<limiters, calls, history>>
-----------------------------------------------------------------------------
(* The operator.                                                           *)

\* The store forgets the limiters of us; handlers that have looked one up use it on.
Drop(us) ==
  /\ limiterOf' = [u \in Users |-> IF u \in us THEN Nil ELSE limiterOf[u]]
  /\ drops' = [u \in Users |-> drops[u] + IF u \in us /\ limiterOf[u] # Nil THEN 1 ELSE 0]

\* A revocation and a rotation empty the limiter that they drop, too.
RemoveLimiter(u) ==
  /\ Drop({u})
  /\ IF limiterOf[u] = Nil THEN UNCHANGED <<limiters, removals>>
     ELSE /\ limiters' = [limiters EXCEPT ![limiterOf[u]].used = 0]
          /\ removals' = [removals EXCEPT ![u] = @ + 1]

AddToken(s) ==
  /\ Unlocked
  /\ s \notin issued
  /\ \A t \in valid : Owner[t] # Owner[s]
  /\ valid' = valid \cup {s}
  /\ issued' = issued \cup {s}
  /\ UNCHANGED <<limiterOf, role, update, limiters, req, calls, updates, history>>

RevokeToken(s) ==
  /\ Unlocked
  /\ s \in valid
  /\ valid' = valid \ {s}
  /\ RemoveLimiter(Owner[s])
  /\ UNCHANGED <<issued, role, update, req, calls, updates, past, admitted>>

RotateToken(s, new) ==
  /\ Unlocked
  /\ s \in valid /\ new \notin issued /\ Owner[new] = Owner[s]
  /\ valid' = (valid \ {s}) \cup {new}
  /\ issued' = issued \cup {new}
  /\ RemoveLimiter(Owner[s])
  /\ UNCHANGED <<role, update, req, calls, updates, past, admitted>>

Or(field, old) == IF field = Nil THEN old ELSE field

\* One store to the role object, and its trace.
Write(new, whole) ==
  /\ role' = new
  /\ past' = Append(past, [terms |-> new, whole |-> whole])

UpdateScope(offer) ==
  /\ Unlocked
  /\ updates < MaxUpdates
  /\ updates' = updates + 1
  /\ Write([role EXCEPT !.scope = Or(offer.scope, @)], FALSE)
  /\ update' = [pc |-> "scope", offer |-> offer, torn |-> role.scope]
  /\ UNCHANGED <<store, limiters, req, calls, admitted, drops, removals>>

UpdateTopK ==
  /\ update.pc = "scope"
  /\ Write([role EXCEPT !.topK = Or(update.offer.topK, @)], FALSE)
  /\ update' = [update EXCEPT !.pc = "topK", !.torn = {}]
  /\ UNCHANGED <<store, limiters, req, calls, updates, admitted, drops, removals>>

\* The last field, the limiters built from it, and the unlock.
UpdateRate ==
  /\ update.pc = "topK"
  /\ Write([role EXCEPT !.rate = Or(update.offer.rate, @)], TRUE)
  /\ IF update.offer.rate = Nil THEN UNCHANGED <<limiterOf, drops>>
     ELSE Drop({Owner[s] : s \in valid})
  /\ update' = NoUpdate
  /\ UNCHANGED <<valid, issued, limiters, req, calls, updates, admitted, removals>>

Next ==
  \/ \E r \in Requests :
       \/ Arrive(r) \/ GetUsername(r) \/ Refuse(r) \/ Lookup(r) \/ Admit(r) \/ Throttle(r)
       \/ CheckScope(r) \/ CheckTopK(r)
       \/ GetAgentManifest(r) \/ DecryptScores(r) \/ DecryptMetadata(r) \/ Emit(r)
  \/ \E s \in Strings : AddToken(s) \/ RevokeToken(s) \/ \E new \in Strings : RotateToken(s, new)
  \/ \E offer \in Offers : UpdateScope(offer)
  \/ UpdateTopK \/ UpdateRate

Spec == Init /\ [][Next]_vars

-----------------------------------------------------------------------------
(* Properties.                                                             *)

Codes == {"OK", "Unauthenticated", "ResourceExhausted", "PermissionDenied",
          "InvalidArgument", "Internal"}

PCs == {"idle", "received", "named", "found", "admitted", "scoped", "permitted",
        "answered"}

TypeOK ==
  /\ valid \subseteq issued /\ issued \subseteq Strings
  /\ role \in Terms
  /\ update \in [pc : {"none", "scope", "topK"}, offer : Offers \cup {Nil},
                torn : SUBSET Methods]
  /\ limiterOf \in [Users -> 1..Len(limiters) \cup {Nil}]
  /\ limiters \in Seq([max : Rates, used : Nat])
  /\ req \in [Requests -> [pc : PCs, call : Call \cup {NoCall},
                           user : Users \cup {Unknown, Nil},
                           limiter : 1..Len(limiters) \cup {Nil},
                           code : Codes \cup {Nil}, since : Nat]]
  /\ calls \in Nat /\ updates \in Nat
  /\ past \in Seq([terms : Terms, whole : BOOLEAN])
  /\ admitted \in [Users -> Nat] /\ drops \in [Users -> Nat] /\ removals \in [Users -> Nat]

\* A call that was admitted is logged under the user that holds its token, even
\* when the token was issued between the handler's two visits to the store.
NamesTheOwner ==
  \A r \in Requests :
    req[r].pc = "answered" /\ req[r].code \notin {"Unauthenticated", "ResourceExhausted"}
      => req[r].user = Owner[req[r].call.string]

\* However lookups, admissions and operators' changes interleave, and although a
\* request may use a limiter that the store has dropped meanwhile, a user gets no
\* more admissions in a window than one limit for the limiter at its start, one for
\* each time an operator's change dropped its limiter, and one more if it emptied that
\* limiter, too: a rotation and a revocation do so (store.go:249, 276), and give a
\* request that holds the limiter a count from zero.  That limit is one the role has had.
QuotaPerLimiter ==
  \A u \in Users : admitted[u] > 0 =>
    \E i \in DOMAIN past :
      /\ past[i].terms.rate # Malformed
      /\ admitted[u] <= past[i].terms.rate * (1 + drops[u] + removals[u])

\* The method is in the scope, and top_k within the limit, that the role had at
\* some moment since Validate found the token: a change that was complete by then
\* is never overlooked, although nothing orders the reads with UpdateRole.
JudgedSinceFound ==
  \A r \in Requests : Permitted(r) =>
    \E i, j \in req[r].since..Len(past) :
      /\ i <= j
      /\ req[r].call.method \in past[i].terms.scope
      /\ req[r].call.method = Scores => req[r].call.topK <= past[j].terms.topK

Answers(r, method) == Permitted(r) /\ req[r].call.method = method

\* "Output order matches Python's heapq.nlargest" (grpc.go:219): whatever a permitted
\* DecryptScores has decrypted, it answers what k selections of the first largest give.
TopKIsNLargest == \A r \in Requests : Answers(r, Scores) => SelectsNLargest

\* The places in that answer are where the scores were, each named once, unless some
\* of the shards have an index and others have none.
PlacesAreTrue == \A r \in Requests : Answers(r, Scores) => NamesTruePlaces

\* A permitted DecryptMetadata answers with every text of its list, in its place, or
\* with the error of the first that fails and no text.
ListAllOrNothing == \A r \in Requests : Answers(r, Metadata) => OpensAllOrNothing

\* "Changes take effect immediately for all tokens with this role" (role.go:127): a
\* call is permitted by the role as it was before a change or as it is after it,
\* never by the scope of the one and the limit of the other.  Asked when no change is
\* under way, so that one that has been seen early counts as made.
JudgedByOneRole ==
  \A r \in Requests : Unlocked /\ Permitted(r) =>
    \E i \in req[r].since..Len(past) :
      /\ past[i].whole
      /\ req[r].call.method \in past[i].terms.scope
      /\ req[r].call.method = Scores => req[r].call.topK <= past[i].terms.topK
=============================================================================
