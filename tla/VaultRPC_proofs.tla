---------------------------- MODULE VaultRPC_proofs ----------------------------
(***************************************************************************)
(* Theorems of VaultRPC, for any number of handlers, tokens and users, any *)
(* terms of the role, and any number of calls and updates.                 *)
(***************************************************************************)
EXTENDS VaultRPC, Retrieval_proofs, FiniteSetTheorems, TLAPS

-----------------------------------------------------------------------------
(* The inductive invariant.                                                *)

\* The last entry of past is the role; while the scope is being written, the entry
\* before it holds the scope that is torn.
RoleTraced ==
  /\ Len(past) >= 1 /\ past[Len(past)].terms = role
  /\ update.pc # "none" => update.offer \in Offers
  /\ update.pc = "scope" => Len(past) >= 2 /\ update.torn = past[Len(past) - 1].terms.scope

\* Some moment since the lookup at which the role had the method in its scope.
InScope(q, i) == i \in q.since..Len(past) /\ q.call.method \in past[i].terms.scope

\* What a handler has found, and found out, at each point of its way.  No lookup
\* happens during an update, so each began before the entry that is being written.
Sound(q) ==
  /\ q.pc # "idle" => q.call \in Call
  /\ q.pc \in {"found", "admitted", "scoped", "permitted"} => q.since >= 1 /\ q.limiter # Nil
  /\ q.since <= Len(past) /\ (update.pc = "scope" => q.since < Len(past))
  /\ \/ q.pc \in {"admitted", "scoped", "permitted"}
     \/ q.pc = "answered" /\ q.code \notin {"Unauthenticated", "ResourceExhausted"}
     => q.user = Owner[q.call.string]
  /\ q.pc \in {"scoped", "permitted"} => \E i \in q.since..Len(past) : InScope(q, i)
  /\ q.pc = "permitted" =>
       \E i, j \in q.since..Len(past) :
         i <= j /\ InScope(q, i) /\ q.call.topK <= past[j].terms.topK

IInv == TypeOK /\ RoleTraced /\ \A r \in Requests : Sound(req[r])

\* The values of a request while there are n limiters.
Known(n) == [pc : PCs, call : Call \cup {NoCall}, user : Users \cup {Unknown, Nil},
             limiter : 1..n \cup {Nil}, code : Codes \cup {Nil}, since : Nat]

\* The limiter of nobody is none of those that are numbered.
LEMMA NilIsNoNumber == Nil \notin Nat
BY ConstantsAssumption

\* Before anything has arrived the invariant holds.
LEMMA InitIInv == Init => IInv
<1>. SUFFICES ASSUME Init PROVE IInv
  OBVIOUS
<1>. USE ConstantsAssumption DEF Init, NoUpdate, Fresh
<1>1. role \in Terms
  OBVIOUS
<1>2. past = <<[terms |-> role, whole |-> TRUE]>> /\ Len(past) = 1
      /\ past[1].terms = role
  OBVIOUS
<1>3. past \in Seq([terms : Terms, whole : BOOLEAN])
  BY <1>1, <1>2
<1>4. req \in [Requests -> Known(0)]
  BY DEF Known, PCs
<1>5. update \in [pc : {"none", "scope", "topK"}, offer : Offers \cup {Nil},
                  torn : SUBSET Methods]
  OBVIOUS
<1>6. limiters \in Seq([max : Rates, used : Nat]) /\ Len(limiters) = 0
  OBVIOUS
<1>7. TypeOK
  BY <1>1, <1>3, <1>4, <1>5, <1>6 DEF TypeOK, Known
<1>8. RoleTraced
  BY <1>2 DEF RoleTraced
<1>9. ASSUME NEW r \in Requests PROVE Sound(req[r])
  BY <1>2 DEF Sound
<1>. QED
  BY <1>7, <1>8, <1>9 DEF IInv

-----------------------------------------------------------------------------
(* Requests.                                                               *)

\* A handler's step changes its own record only: if the new one is typed and sound,
\* so are all.
LEMMA HandlerStep ==
  ASSUME IInv, NEW r \in Requests, NEW new \in Known(Len(limiters')), Sound(new),
         req' = [req EXCEPT ![r] = new],
         UNCHANGED <<valid, issued, role, update, updates, past, drops, removals>>,
         limiters' \in Seq([max : Rates, used : Nat]), Len(limiters) <= Len(limiters'),
         limiterOf' \in [Users -> 1..Len(limiters') \cup {Nil}],
         calls' \in Nat, admitted' \in [Users -> Nat]
  PROVE  IInv'
<1>1. Known(Len(limiters)) \subseteq Known(Len(limiters'))
  <2>1. Len(limiters) \in Nat /\ Len(limiters') \in Nat
    BY DEF IInv, TypeOK
  <2>2. 1..Len(limiters) \subseteq 1..Len(limiters')
    BY <2>1
  <2>. QED
    BY <2>2 DEF Known
<1>2. req \in [Requests -> Known(Len(limiters))]
  BY DEF IInv, TypeOK, Known
<1>3. req' \in [Requests -> Known(Len(limiters'))]
  BY <1>1, <1>2
<1>4. TypeOK'
  BY <1>3 DEF IInv, TypeOK, Known
<1>5. RoleTraced'
  BY DEF IInv, RoleTraced
<1>6. ASSUME NEW q, Sound(q) PROVE Sound(q)'
  BY <1>6 DEF Sound, InScope
<1>7. ASSUME NEW s \in Requests PROVE Sound(req[s])'
  <2>1. CASE s = r
    <3>1. req'[s] = new
      BY <1>2, <2>1
    <3>. QED
      BY <1>6, <3>1 DEF Sound, InScope
  <2>2. CASE s # r
    <3>1. req'[s] = req[s]
      BY <1>2, <2>2
    <3>. QED
      BY <3>1 DEF IInv, Sound, InScope
  <2>. QED
    BY <2>1, <2>2
<1>. QED
  BY <1>4, <1>5, <1>7 DEF IInv

\* What every request step that keeps the limiters and their counts has in common.
LEMMA QuietStep ==
  ASSUME IInv, NEW r \in Requests, NEW new \in Known(Len(limiters)), Sound(new),
         Handle(r, new), UNCHANGED <<limiters, history>>, calls' \in Nat
  PROVE  IInv'
<1>1. /\ limiters' \in Seq([max : Rates, used : Nat]) /\ Len(limiters) <= Len(limiters')
      /\ limiterOf' \in [Users -> 1..Len(limiters') \cup {Nil}]
      /\ admitted' \in [Users -> Nat] /\ new \in Known(Len(limiters'))
  BY DEF IInv, TypeOK, Handle, store, history
<1>. QED
  BY <1>1, HandlerStep DEF Handle, store, history

\* The record of a request is typed and sound, which each step starts from.
LEMMA RequestKnown ==
  ASSUME IInv, NEW r \in Requests
  PROVE  req[r] \in Known(Len(limiters)) /\ Sound(req[r]) /\ Len(limiters) \in Nat
BY DEF IInv, TypeOK, Known

\* An answer without a verdict on the role, or one under the owner's name, is sound.
LEMMA AnswerSound ==
  ASSUME IInv, NEW r \in Requests, NEW code \in Codes, req[r].pc # "idle",
         \/ code \in {"Unauthenticated", "ResourceExhausted"}
         \/ req[r].user = Owner[req[r].call.string]
  PROVE  Answer(r, code) \in Known(Len(limiters)) /\ Sound(Answer(r, code))
<1>1. req[r] \in Known(Len(limiters)) /\ Sound(req[r])
  BY RequestKnown
<1>2. Answer(r, code) \in Known(Len(limiters))
  BY <1>1 DEF Known, PCs, Answer
<1>3. /\ Answer(r, code).pc = "answered" /\ Answer(r, code).code = code
      /\ Answer(r, code).call = req[r].call /\ Answer(r, code).user = req[r].user
      /\ Answer(r, code).since = req[r].since
  BY <1>1 DEF Known, Answer
<1>4. Sound(Answer(r, code))
  BY <1>1, <1>3 DEF Sound
<1>. QED
  BY <1>2, <1>4

\* A call that arrives knows nothing yet.
LEMMA ArriveIInv ==
  ASSUME IInv, NEW r \in Requests, Arrive(r)
  PROVE  IInv'
<1>1. PICK c \in Call : Handle(r, [Fresh EXCEPT !.pc = "received", !.call = c])
  BY DEF Arrive
<1>. DEFINE new == [Fresh EXCEPT !.pc = "received", !.call = c]
<1>2. new.pc = "received" /\ new.call = c /\ new.since = 0
  BY DEF Fresh
<1>3. new \in Known(Len(limiters))
  <2>1. Fresh \in Known(Len(limiters))
    BY DEF Fresh, Known, PCs
  <2>. QED
    BY <2>1 DEF Known, PCs
<1>4. Sound(new)
  <2>. HIDE DEF new
  <2>. QED
    BY <1>2 DEF Sound, IInv, TypeOK, RoleTraced
<1>5. calls' \in Nat /\ UNCHANGED <<limiters, history>>
  BY DEF Arrive, IInv, TypeOK
<1>. HIDE DEF new
<1>. QED
  BY <1>1, <1>3, <1>4, <1>5, QuietStep DEF new

\* The name for the log is a user's or the stand-in.
LEMMA GetUsernameIInv ==
  ASSUME IInv, NEW r \in Requests, GetUsername(r)
  PROVE  IInv'
<1>. DEFINE s == req[r].call.string
            u == IF s \in valid THEN Owner[s] ELSE Unknown
            new == [req[r] EXCEPT !.pc = "named", !.user = u]
<1>1. req[r] \in Known(Len(limiters)) /\ Sound(req[r])
  BY RequestKnown
<1>2. new.pc = "named" /\ new.call = req[r].call /\ new.since = req[r].since
  BY <1>1 DEF Known
<1>3. u \in Users \cup {Unknown, Nil}
  BY ConstantsAssumption DEF IInv, TypeOK
<1>4. new \in Known(Len(limiters))
  BY <1>1, <1>3 DEF Known, PCs
<1>5. Sound(new)
  <2>. HIDE DEF new
  <2>. QED
    BY <1>1, <1>2 DEF Sound, GetUsername
<1>6. Handle(r, new) /\ UNCHANGED <<limiters, history>> /\ calls' \in Nat
  BY DEF GetUsername, IInv, TypeOK
<1>. HIDE DEF new
<1>. QED
  BY <1>4, <1>5, <1>6, QuietStep

\* Refusals by Validate and by the limiter name no user in particular.
LEMMA RefuseIInv ==
  ASSUME IInv, NEW r \in Requests, Refuse(r) \/ Throttle(r)
  PROVE  IInv'
<1>1. PICK code \in {"Unauthenticated", "ResourceExhausted"} : Handle(r, Answer(r, code))
  BY DEF Refuse, Throttle
<1>2. req[r].pc # "idle" /\ UNCHANGED <<limiters, history>> /\ calls' \in Nat
  BY DEF Refuse, Throttle, Named, IInv, TypeOK
<1>3. Answer(r, code) \in Known(Len(limiters)) /\ Sound(Answer(r, code))
  BY <1>2, AnswerSound DEF Codes
<1>. QED
  BY <1>1, <1>2, <1>3, QuietStep

\* The lookup marks the moment from which the role is judged; no update is under way.
LEMMA LookupIInv ==
  ASSUME IInv, NEW r \in Requests, Lookup(r)
  PROVE  IInv'
<1>. DEFINE s == req[r].call.string
            u == Owner[s]
            found(l) == [req[r] EXCEPT !.pc = "found", !.limiter = l, !.since = Len(past)]
<1>1. req[r] \in Known(Len(limiters)) /\ Sound(req[r]) /\ Len(limiters) \in Nat
  BY RequestKnown
<1>2. s \in Strings /\ u \in Users
  BY ConstantsAssumption DEF Lookup, IInv, TypeOK
<1>3. Len(past) \in Nat /\ Len(past) >= 1 /\ update.pc = "none" /\ req[r].pc = "named"
  BY DEF Lookup, Named, Unlocked, IInv, TypeOK, RoleTraced
<1>4. ASSUME NEW n \in Nat, Len(limiters) <= n, NEW l \in 1..n
      PROVE  found(l) \in Known(n) /\ Sound(found(l))
  <2>1. /\ found(l).pc = "found" /\ found(l).call = req[r].call /\ found(l).limiter = l
        /\ found(l).since = Len(past)
    BY <1>1 DEF Known
  <2>2. l # Nil
    BY <1>4, NilIsNoNumber
  <2>3. found(l) \in Known(n)
    BY <1>1, <1>3, <1>4 DEF Known, PCs
  <2>4. Sound(found(l))
    <3>. HIDE DEF found
    <3>. QED
      BY <1>1, <1>3, <2>1, <2>2 DEF Sound
  <2>. QED
    BY <2>3, <2>4
<1>5. UNCHANGED <<valid, issued, role, update, updates, past, drops, removals, calls, admitted>>
  BY DEF Lookup, history
<1>6. calls' \in Nat /\ admitted' \in [Users -> Nat]
  BY <1>5 DEF IInv, TypeOK
<1>. HIDE DEF found
<1>7. CASE /\ limiterOf[u] # Nil
           /\ req' = [req EXCEPT ![r] = found(limiterOf[u])]
           /\ UNCHANGED <<limiterOf, limiters>>
  <2>1. limiterOf[u] \in 1..Len(limiters)
    BY <1>2, <1>7 DEF IInv, TypeOK
  <2>2. found(limiterOf[u]) \in Known(Len(limiters)) /\ Sound(found(limiterOf[u]))
    BY <1>1, <1>4, <2>1
  <2>3. /\ limiters' \in Seq([max : Rates, used : Nat]) /\ Len(limiters) <= Len(limiters')
        /\ limiterOf' \in [Users -> 1..Len(limiters') \cup {Nil}]
        /\ limiters' = limiters
    BY <1>1, <1>7 DEF IInv, TypeOK
  <2>. QED
    BY <1>5, <1>6, <1>7, <2>2, <2>3, HandlerStep
<1>8. CASE /\ limiterOf[u] = Nil /\ role.rate # Malformed
           /\ limiters' = Append(limiters, [max |-> role.rate, used |-> 0])
           /\ limiterOf' = [limiterOf EXCEPT ![u] = Len(limiters')]
           /\ req' = [req EXCEPT ![r] = found(Len(limiters'))]
  <2>1. role.rate \in Rates
    BY <1>8 DEF IInv, TypeOK, Terms
  <2>2. limiters' \in Seq([max : Rates, used : Nat]) /\ Len(limiters') = Len(limiters) + 1
    BY <1>8, <2>1 DEF IInv, TypeOK
  <2>3. Len(limiters') \in Nat /\ Len(limiters) <= Len(limiters')
        /\ Len(limiters') \in 1..Len(limiters')
    BY <1>1, <2>2
  <2>4. limiterOf' \in [Users -> 1..Len(limiters') \cup {Nil}]
    BY <1>1, <1>2, <1>8, <2>2, <2>3 DEF IInv, TypeOK
  <2>5. found(Len(limiters')) \in Known(Len(limiters')) /\ Sound(found(Len(limiters')))
    BY <1>4, <2>3
  <2>. QED
    BY <1>5, <1>6, <1>8, <2>2, <2>3, <2>4, <2>5, HandlerStep
<1>. QED
  BY <1>7, <1>8 DEF Lookup, found

\* IsAllowed admits the request, and its handler takes the owner's name.
LEMMA AdmitIInv ==
  ASSUME IInv, NEW r \in Requests, Admit(r)
  PROVE  IInv'
<1>. DEFINE u == Owner[req[r].call.string]
            n == req[r].limiter
            new == [req[r] EXCEPT !.pc = "admitted", !.user = u]
<1>1. req[r] \in Known(Len(limiters)) /\ Sound(req[r]) /\ Len(limiters) \in Nat
  BY RequestKnown
<1>2. req[r].pc = "found" /\ req[r].call \in Call /\ n \in 1..Len(limiters)
  BY <1>1 DEF Admit, Sound, Known
<1>3. u \in Users
  BY <1>2, ConstantsAssumption DEF Call
<1>4. /\ new.pc = "admitted" /\ new.call = req[r].call /\ new.user = u
      /\ new.limiter = n /\ new.since = req[r].since
  BY <1>1 DEF Known
<1>5. new \in Known(Len(limiters)) /\ Sound(new)
  <2>1. new \in Known(Len(limiters))
    BY <1>1, <1>3 DEF Known, PCs
  <2>2. Sound(new)
    <3>. HIDE DEF new
    <3>. QED
      BY <1>1, <1>2, <1>4 DEF Sound
  <2>. QED
    BY <2>1, <2>2
<1>6. limiters' \in Seq([max : Rates, used : Nat]) /\ Len(limiters') = Len(limiters)
  <2>. HIDE DEF n
  <2>1. limiters \in Seq([max : Rates, used : Nat])
    BY DEF IInv, TypeOK
  <2>2. limiters[n] \in [max : Rates, used : Nat]
    <3>1. ASSUME NEW S, NEW seq \in Seq(S), NEW i \in 1..Len(seq) PROVE seq[i] \in S
      OBVIOUS
    <3>2. n \in 1..Len(limiters)
      BY <1>2
    <3>. QED
      BY <2>1, <3>1, <3>2
  <2>3. limiters' = [limiters EXCEPT ![n] = [limiters[n] EXCEPT !.used = @ + 1]]
    BY DEF Admit, n
  <2>4. [limiters[n] EXCEPT !.used = @ + 1] \in [max : Rates, used : Nat]
    BY <2>2
  <2>. QED
    BY <1>2, <2>1, <2>3, <2>4
<1>7. admitted' \in [Users -> Nat]
  BY <1>3 DEF Admit, IInv, TypeOK
<1>8. /\ UNCHANGED <<valid, issued, limiterOf, role, update, updates, past, drops, removals, calls>>
      /\ req' = [req EXCEPT ![r] = new]
  BY DEF Admit, Handle, store
<1>9. limiterOf' \in [Users -> 1..Len(limiters') \cup {Nil}] /\ calls' \in Nat
  BY <1>6, <1>8 DEF IInv, TypeOK
<1>10. new \in Known(Len(limiters')) /\ Len(limiters) <= Len(limiters')
  BY <1>1, <1>5, <1>6
<1>. HIDE DEF new, u, n
<1>. QED
  BY <1>5, <1>6, <1>7, <1>8, <1>9, <1>10, HandlerStep

\* Any scope that may be read, a torn one too, is one the role had since the lookup.
LEMMA CheckScopeIInv ==
  ASSUME IInv, NEW r \in Requests, CheckScope(r)
  PROVE  IInv'
<1>1. req[r] \in Known(Len(limiters)) /\ Sound(req[r])
  BY RequestKnown
<1>2. /\ req[r].pc = "admitted" /\ UNCHANGED <<limiters, history>> /\ calls' \in Nat
      /\ req[r].user = Owner[req[r].call.string]
  BY <1>1 DEF CheckScope, Sound, IInv, TypeOK
<1>3. PICK scope \in ScopesSeen :
        Handle(r, IF req[r].call.method \in scope
                  THEN [req[r] EXCEPT !.pc = "scoped"]
                  ELSE Answer(r, "PermissionDenied"))
  BY DEF CheckScope
<1>4. CASE req[r].call.method \notin scope
  <2>1. Answer(r, "PermissionDenied") \in Known(Len(limiters))
        /\ Sound(Answer(r, "PermissionDenied"))
    BY <1>2, AnswerSound DEF Codes
  <2>. QED
    BY <1>2, <1>3, <1>4, <2>1, QuietStep
<1>5. CASE req[r].call.method \in scope
  <2>. DEFINE new == [req[r] EXCEPT !.pc = "scoped"]
  <2>1. new = [pc |-> "scoped", call |-> req[r].call, user |-> req[r].user,
               limiter |-> req[r].limiter, code |-> req[r].code, since |-> req[r].since]
    BY <1>1 DEF Known
  <2>2. new \in Known(Len(limiters))
    BY <1>1, <2>1 DEF Known, PCs
  <2>3. req[r].since \in Nat /\ req[r].since >= 1 /\ req[r].since <= Len(past) /\ Len(past) \in Nat
    BY <1>1, <1>2 DEF Known, Sound, IInv, TypeOK
  <2>4. \E i \in req[r].since..Len(past) : req[r].call.method \in past[i].terms.scope
    <3>1. CASE scope = role.scope
      BY <1>5, <2>3, <3>1 DEF IInv, RoleTraced
    <3>2. CASE update.pc = "scope" /\ scope = update.torn
      <4>1. scope = past[Len(past) - 1].terms.scope
        BY <3>2 DEF IInv, RoleTraced
      <4>2. Len(past) - 1 \in req[r].since..Len(past)
        BY <1>1, <2>3, <3>2 DEF Sound
      <4>. QED
        BY <1>5, <4>1, <4>2
    <3>. QED
      BY <1>5, <3>1, <3>2 DEF ScopesSeen
  <2>5. Sound(new)
    BY <1>1, <1>2, <2>1, <2>4 DEF Sound, InScope
  <2>6. Handle(r, new)
    BY <1>3, <1>5
  <2>. HIDE DEF new
  <2>. QED
    BY <1>2, <2>2, <2>5, <2>6, QuietStep
<1>. QED
  BY <1>4, <1>5

\* The limit is read after the scope, so it is one the role had no earlier.
LEMMA CheckTopKIInv ==
  ASSUME IInv, NEW r \in Requests, CheckTopK(r)
  PROVE  IInv'
<1>1. req[r] \in Known(Len(limiters)) /\ Sound(req[r])
  BY RequestKnown
<1>2. /\ req[r].pc = "scoped" /\ UNCHANGED <<limiters, history>> /\ calls' \in Nat
      /\ req[r].user = Owner[req[r].call.string]
  BY <1>1 DEF CheckTopK, Sound, IInv, TypeOK
<1>3. CASE Handle(r, Answer(r, "InvalidArgument"))
  <2>1. Answer(r, "InvalidArgument") \in Known(Len(limiters))
        /\ Sound(Answer(r, "InvalidArgument"))
    BY <1>2, AnswerSound DEF Codes
  <2>. QED
    BY <1>2, <1>3, <2>1, QuietStep
<1>4. CASE /\ ~(req[r].call.topK > role.topK)
           /\ Handle(r, [req[r] EXCEPT !.pc = "permitted"])
  <2>. DEFINE new == [req[r] EXCEPT !.pc = "permitted"]
  <2>1. new = [pc |-> "permitted", call |-> req[r].call, user |-> req[r].user,
               limiter |-> req[r].limiter, code |-> req[r].code, since |-> req[r].since]
    BY <1>1 DEF Known
  <2>2. new \in Known(Len(limiters))
    BY <1>1, <2>1 DEF Known, PCs
  <2>3. req[r].call \in Call /\ req[r].call.topK # Nil /\ req[r].call.topK \in Nat
    BY <1>1, <1>2, ConstantsAssumption DEF CheckTopK, Sound, Call
  <2>4. role.topK \in Nat /\ req[r].call.topK <= role.topK
    BY <1>4, <2>3, ConstantsAssumption DEF IInv, TypeOK, Terms
  <2>5. PICK i \in req[r].since..Len(past) : InScope(req[r], i)
    BY <1>1, <1>2 DEF Sound
  <2>6. /\ Len(past) \in req[r].since..Len(past) /\ i <= Len(past)
        /\ req[r].call.topK <= past[Len(past)].terms.topK
    BY <1>1, <2>4, <2>5 DEF Known, IInv, TypeOK, RoleTraced
  <2>7. Sound(new)
    BY <1>1, <1>2, <2>1, <2>5, <2>6 DEF Sound, InScope
  <2>8. Handle(r, new)
    BY <1>4
  <2>. HIDE DEF new
  <2>. QED
    BY <1>2, <2>2, <2>7, <2>8, QuietStep
<1>. QED
  BY <1>3, <1>4 DEF CheckTopK

\* The codes that an envelope may stop the loop with are codes of answers.
LEMMA EnvelopeCodes == \A envelope \in Envelope : CodeOf(envelope) \in Codes
BY DEF CodeOf, Codes

\* The work ends, whatever its outcome, under the owner's name.
LEMMA FinishIInv ==
  ASSUME IInv, NEW r \in Requests,
         GetAgentManifest(r) \/ DecryptScores(r) \/ DecryptMetadata(r)
  PROVE  IInv'
<1>1. Permitted(r) /\ UNCHANGED <<limiters, history>> /\ calls' \in Nat
  BY DEF GetAgentManifest, DecryptScores, DecryptMetadata, Finish, IInv, TypeOK
<1>2. PICK code \in Codes : Handle(r, Answer(r, code))
  BY EnvelopeCodes
     DEF GetAgentManifest, DecryptScores, DecryptMetadata, Finish, Codes
<1>3. req[r].pc # "idle" /\ req[r].user = Owner[req[r].call.string]
  BY <1>1, RequestKnown DEF Permitted, Sound
<1>. QED
  BY <1>1, <1>2, <1>3, AnswerSound, QuietStep

\* After the answer the handler's record is as new.
LEMMA EmitIInv ==
  ASSUME IInv, NEW r \in Requests, Emit(r)
  PROVE  IInv'
<1>1. Fresh \in Known(Len(limiters))
  BY DEF Fresh, Known, PCs
<1>2. Sound(Fresh)
  BY DEF Fresh, Sound, IInv, TypeOK, RoleTraced
<1>3. Handle(r, Fresh) /\ UNCHANGED <<limiters, history>> /\ calls' \in Nat
  BY DEF Emit, IInv, TypeOK
<1>. QED
  BY <1>1, <1>2, <1>3, QuietStep

-----------------------------------------------------------------------------
(* The operator.                                                           *)

\* Dropping limiters leaves the rest of the table, and the counts, typed.
LEMMA DropTyped ==
  ASSUME TypeOK, NEW us, Drop(us)
  PROVE  /\ limiterOf' \in [Users -> 1..Len(limiters) \cup {Nil}]
         /\ drops' \in [Users -> Nat]
BY DEF Drop, TypeOK

\* A limiter that is emptied keeps its limit; the others are as they were.
LEMMA Emptying ==
  ASSUME TypeOK, NEW u \in Users, RemoveLimiter(u), limiterOf[u] # Nil
  PROVE  /\ limiters' \in Seq([max : Rates, used : Nat]) /\ Len(limiters') = Len(limiters)
         /\ DOMAIN limiters' = DOMAIN limiters /\ limiterOf[u] \in DOMAIN limiters
         /\ limiters'[limiterOf[u]].used = 0
         /\ limiters'[limiterOf[u]].max = limiters[limiterOf[u]].max
         /\ \A l \in DOMAIN limiters : l # limiterOf[u] => limiters'[l] = limiters[l]
<1>. PICK n : n = limiterOf[u]
  OBVIOUS
<1>1. limiters \in Seq([max : Rates, used : Nat]) /\ n \in 1..Len(limiters)
  BY DEF TypeOK
<1>2. limiters[n] \in [max : Rates, used : Nat]
  <2>1. ASSUME NEW S, NEW seq \in Seq(S), NEW i \in 1..Len(seq) PROVE seq[i] \in S
    OBVIOUS
  <2>. QED
    BY <1>1, <2>1
<1>3. limiters' = [limiters EXCEPT ![n].used = 0]
  BY DEF RemoveLimiter
<1>4. limiters' = [limiters EXCEPT ![n] = [limiters[n] EXCEPT !.used = 0]]
  BY <1>3
<1>5. [limiters[n] EXCEPT !.used = 0] = [max |-> limiters[n].max, used |-> 0]
  BY <1>2
<1>. QED
  BY <1>1, <1>2, <1>4, <1>5

\* Emptying a limiter, as well, leaves all that is counted typed.
LEMMA RemoveTyped ==
  ASSUME TypeOK, NEW u \in Users, RemoveLimiter(u)
  PROVE  /\ limiters' \in Seq([max : Rates, used : Nat]) /\ Len(limiters') = Len(limiters)
         /\ limiterOf' \in [Users -> 1..Len(limiters) \cup {Nil}]
         /\ drops' \in [Users -> Nat] /\ removals' \in [Users -> Nat]
<1>1. /\ limiterOf' \in [Users -> 1..Len(limiters) \cup {Nil}]
      /\ drops' \in [Users -> Nat]
  BY DropTyped DEF RemoveLimiter
<1>2. CASE limiterOf[u] = Nil
  BY <1>1, <1>2 DEF RemoveLimiter, TypeOK
<1>3. CASE limiterOf[u] # Nil
  <2>1. removals \in [Users -> Nat] /\ removals' = [removals EXCEPT ![u] = @ + 1]
    BY <1>3 DEF RemoveLimiter, TypeOK
  <2>2. removals' \in [Users -> Nat]
    BY <2>1
  <2>. QED
    BY <1>1, <1>3, <2>2, Emptying
<1>. QED
  BY <1>2, <1>3

\* Changes to the tokens touch neither the requests nor the role.
LEMMA TokenStepIInv ==
  ASSUME IInv, NEW s \in Strings,
         AddToken(s) \/ RevokeToken(s) \/ \E new \in Strings : RotateToken(s, new)
  PROVE  IInv'
<1>1. UNCHANGED <<role, update, req, calls, updates, past, admitted>>
  BY DEF AddToken, RevokeToken, RotateToken, history
<1>2. (valid \subseteq issued /\ issued \subseteq Strings)'
  BY DEF AddToken, RevokeToken, RotateToken, IInv, TypeOK
<1>3. /\ limiters' \in Seq([max : Rates, used : Nat]) /\ Len(limiters') = Len(limiters)
      /\ limiterOf' \in [Users -> 1..Len(limiters) \cup {Nil}]
      /\ drops' \in [Users -> Nat] /\ removals' \in [Users -> Nat]
  <2>1. CASE AddToken(s)
    BY <2>1 DEF AddToken, IInv, TypeOK, history
  <2>2. CASE RevokeToken(s) \/ \E new \in Strings : RotateToken(s, new)
    <3>1. RemoveLimiter(Owner[s]) /\ Owner[s] \in Users
      BY <2>2, ConstantsAssumption DEF RevokeToken, RotateToken
    <3>. QED
      BY <3>1, RemoveTyped DEF IInv
  <2>. QED
    BY <2>1, <2>2
<1>4. TypeOK'
  BY <1>1, <1>2, <1>3 DEF IInv, TypeOK
<1>5. RoleTraced' /\ \A r \in Requests : Sound(req[r])'
  BY <1>1 DEF IInv, RoleTraced, Sound, InScope
<1>. QED
  BY <1>1, <1>4, <1>5 DEF IInv

\* What an offer leaves of the role, and what it replaces, are terms of a role.
LEMMA OfferedTerms ==
  ASSUME TypeOK, NEW offer \in Offers
  PROVE  /\ [role EXCEPT !.scope = Or(offer.scope, @)] \in Terms
         /\ [role EXCEPT !.topK = Or(offer.topK, @)] \in Terms
         /\ [role EXCEPT !.rate = Or(offer.rate, @)] \in Terms
<1>1. role \in Terms /\ offer \in [scope : {Nil} \cup SUBSET Methods, topK : TopKs \cup {Nil},
                                   rate : Rates \cup {Nil}]
  BY ConstantsAssumption DEF TypeOK
<1>. QED
  BY <1>1 DEF Terms, Or

\* A store to the role adds an entry to past and leaves the older ones; what was
\* found in those stays found.
LEMMA WriteStep ==
  ASSUME IInv, NEW new \in Terms, NEW whole \in BOOLEAN, Write(new, whole),
         UNCHANGED <<valid, issued, limiters, req, calls, admitted, removals>>,
         updates' \in Nat, drops' \in [Users -> Nat],
         limiterOf' \in [Users -> 1..Len(limiters) \cup {Nil}],
         update' \in [pc : {"none", "scope", "topK"}, offer : Offers \cup {Nil},
                      torn : SUBSET Methods],
         update'.pc # "none" => update'.offer \in Offers,
         update'.pc = "scope" => update'.torn = role.scope
  PROVE  IInv'
<1>. DEFINE entry == [terms |-> new, whole |-> whole]
<1>1. /\ past \in Seq([terms : Terms, whole : BOOLEAN]) /\ Len(past) \in Nat
      /\ Len(past) >= 1 /\ past[Len(past)].terms = role
  BY DEF IInv, TypeOK, RoleTraced
<1>2. past' = Append(past, entry) /\ role' = new
  BY DEF Write
<1>3. /\ past' \in Seq([terms : Terms, whole : BOOLEAN])
      /\ Len(past') = Len(past) + 1 /\ past'[Len(past) + 1] = entry
      /\ \A i \in 1..Len(past) : past'[i] = past[i]
  BY <1>1, <1>2
<1>4. TypeOK'
  BY <1>2, <1>3 DEF IInv, TypeOK
<1>5. RoleTraced'
  BY <1>1, <1>2, <1>3 DEF RoleTraced
<1>6. ASSUME NEW r \in Requests PROVE Sound(req[r])'
  <2>. DEFINE q == req[r]
  <2>1. Sound(q) /\ q.since \in Nat /\ req' = req
    BY DEF IInv, TypeOK
  <2>2. ASSUME NEW i \in q.since..Len(past), q.since >= 1
        PROVE  past'[i] = past[i] /\ i \in q.since..Len(past')
    BY <1>1, <1>3, <2>1, <2>2
  <2>3. q.since < Len(past')
    BY <1>1, <1>3, <2>1 DEF Sound
  <2>4. q.pc \in {"scoped", "permitted"} =>
          \E i \in q.since..Len(past') : i \in q.since..Len(past') /\ q.call.method \in past'[i].terms.scope
    BY <2>1, <2>2 DEF Sound, InScope
  <2>5. q.pc = "permitted" =>
          \E i, j \in q.since..Len(past') :
            /\ i <= j
            /\ i \in q.since..Len(past') /\ q.call.method \in past'[i].terms.scope
            /\ q.call.topK <= past'[j].terms.topK
    BY <2>1, <2>2 DEF Sound, InScope
  <2>. QED
    BY <2>1, <2>3, <2>4, <2>5 DEF Sound, InScope
<1>. QED
  BY <1>4, <1>5, <1>6 DEF IInv

\* UpdateRole writes the scope, then top_k, then the rate, each as a store of its own.
LEMMA UpdateIInv ==
  ASSUME IInv, (\E offer \in Offers : UpdateScope(offer)) \/ UpdateTopK \/ UpdateRate
  PROVE  IInv'
<1>1. ASSUME NEW offer \in Offers, UpdateScope(offer)
      PROVE  IInv'
  <2>1. [role EXCEPT !.scope = Or(offer.scope, @)] \in Terms /\ role.scope \in SUBSET Methods
    BY OfferedTerms DEF IInv, TypeOK, Terms
  <2>2. /\ update' = [pc |-> "scope", offer |-> offer, torn |-> role.scope]
        /\ UNCHANGED <<valid, issued, limiterOf, limiters, req, calls, admitted, drops,
                       removals>>
        /\ updates' = updates + 1
        /\ Write([role EXCEPT !.scope = Or(offer.scope, @)], FALSE)
    BY <1>1 DEF UpdateScope, store
  <2>3. /\ updates' \in Nat /\ drops' \in [Users -> Nat]
        /\ limiterOf' \in [Users -> 1..Len(limiters) \cup {Nil}]
    BY <2>2 DEF IInv, TypeOK
  <2>. QED
    BY <2>1, <2>2, <2>3, WriteStep
<1>2. CASE UpdateTopK
  <2>1. update.offer \in Offers
    BY <1>2 DEF UpdateTopK, IInv, RoleTraced
  <2>2. [role EXCEPT !.topK = Or(update.offer.topK, @)] \in Terms
    BY <2>1, OfferedTerms DEF IInv
  <2>3. /\ update' = [pc |-> "topK", offer |-> update.offer, torn |-> {}]
        /\ UNCHANGED <<valid, issued, limiterOf, limiters, req, calls, updates, admitted, drops,
                       removals>>
        /\ Write([role EXCEPT !.topK = Or(update.offer.topK, @)], FALSE)
    BY <1>2 DEF UpdateTopK, store, IInv, TypeOK
  <2>4. /\ updates' \in Nat /\ drops' \in [Users -> Nat]
        /\ limiterOf' \in [Users -> 1..Len(limiters) \cup {Nil}]
    BY <2>3 DEF IInv, TypeOK
  <2>. QED
    BY <2>1, <2>2, <2>3, <2>4, WriteStep
<1>3. CASE UpdateRate
  <2>1. update.offer \in Offers
    BY <1>3 DEF UpdateRate, IInv, RoleTraced
  <2>2. [role EXCEPT !.rate = Or(update.offer.rate, @)] \in Terms
    BY <2>1, OfferedTerms DEF IInv
  <2>3. /\ update' = [pc |-> "none", offer |-> Nil, torn |-> {}]
        /\ UNCHANGED <<valid, issued, limiters, req, calls, updates, admitted, removals>>
        /\ Write([role EXCEPT !.rate = Or(update.offer.rate, @)], TRUE)
    BY <1>3 DEF UpdateRate, NoUpdate
  <2>4. /\ updates' \in Nat /\ drops' \in [Users -> Nat]
        /\ limiterOf' \in [Users -> 1..Len(limiters) \cup {Nil}]
    BY <1>3, <2>3, DropTyped DEF UpdateRate, IInv, TypeOK
  <2>. QED
    BY <2>2, <2>3, <2>4, WriteStep
<1>. QED
  BY <1>1, <1>2, <1>3

-----------------------------------------------------------------------------
(* The theorems.                                                           *)

\* Every step of a handler or of the operator preserves the invariant.
LEMMA NextIInv ==
  ASSUME IInv, [Next]_vars
  PROVE  IInv'
<1>1. CASE UNCHANGED vars
  BY <1>1 DEF IInv, TypeOK, RoleTraced, Sound, InScope, vars, store, history
<1>2. ASSUME NEW r \in Requests,
             \/ Arrive(r) \/ GetUsername(r) \/ Refuse(r) \/ Lookup(r) \/ Admit(r) \/ Throttle(r)
             \/ CheckScope(r) \/ CheckTopK(r)
             \/ GetAgentManifest(r) \/ DecryptScores(r) \/ DecryptMetadata(r) \/ Emit(r)
      PROVE  IInv'
  BY <1>2, ArriveIInv, GetUsernameIInv, RefuseIInv, LookupIInv, AdmitIInv, CheckScopeIInv,
     CheckTopKIInv, FinishIInv, EmitIInv
<1>. QED
  BY <1>1, <1>2, TokenStepIInv, UpdateIInv DEF Next

\* The inductive invariant holds in every state of every execution of VaultRPC.
THEOREM Invariance == Spec => []IInv
BY InitIInv, NextIInv, PTL DEF Spec

\* Tables, limiters, requests and the role's history keep their types.
THEOREM TypeCorrect == Spec => []TypeOK
<1>1. IInv => TypeOK
  BY DEF IInv
<1>. QED
  BY <1>1, Invariance, PTL

\* The log names the holder of the token, however lookups and changes interleave.
THEOREM OwnerIsNamed == Spec => []NamesTheOwner
<1>1. IInv => NamesTheOwner
  BY DEF IInv, Sound, NamesTheOwner
<1>. QED
  BY <1>1, Invariance, PTL

\* Every verdict is one the role had good reason for since the token was found.
THEOREM VerdictsAreRecent == Spec => []JudgedSinceFound
<1>1. ASSUME IInv, NEW r \in Requests, Permitted(r)
      PROVE  \E i, j \in req[r].since..Len(past) :
               /\ i <= j
               /\ req[r].call.method \in past[i].terms.scope
               /\ req[r].call.method = Scores => req[r].call.topK <= past[j].terms.topK
  <2>1. Sound(req[r]) /\ req[r].since \in Nat /\ Len(past) \in Nat
    BY <1>1 DEF IInv, TypeOK
  <2>2. CASE req[r].pc = "permitted"
    BY <2>1, <2>2 DEF Sound, InScope
  <2>3. CASE req[r].pc = "scoped" /\ req[r].call.method # Scores
    <3>1. PICK i \in req[r].since..Len(past) : InScope(req[r], i)
      BY <2>1, <2>3 DEF Sound
    <3>2. i <= i
      BY <2>1
    <3>. QED
      BY <2>3, <3>1, <3>2 DEF InScope
  <2>. QED
    BY <1>1, <2>2, <2>3 DEF Permitted
<1>2. IInv => JudgedSinceFound
  BY <1>1 DEF JudgedSinceFound
<1>. QED
  BY <1>2, Invariance, PTL

-----------------------------------------------------------------------------
(* Counting admissions.                                                    *)

\* The limits the role has had.
Held == {past[i].terms.rate : i \in DOMAIN past} \cap Rates

\* The limiters that were built for u, where own says whose each one is.
Mine(own, u) == {l \in DOMAIN limiters : own[l] = u}

\* One element for each admission by a limiter of u, where gone counts those that each
\* made before it was emptied.
Admissions(own, gone, u) ==
  {p \in Mine(own, u) \X Nat : p[2] < limiters[p[1]].used + gone[p[1]]}

\* The limiters of u that had admitted somebody when they were emptied.
Emptied(own, gone, u) == {l \in Mine(own, u) : gone[l] # 0}

\* The admissions of u are those its limiters made; a limiter is built only when the one
\* before it was dropped, and it is emptied as it is dropped.
Tallied(own, gone, u) ==
  /\ IsFiniteSet(Admissions(own, gone, u))
  /\ Cardinality(Admissions(own, gone, u)) = admitted[u]
  /\ Cardinality(Mine(own, u)) <= drops[u] + (IF limiterOf[u] = Nil THEN 0 ELSE 1)
  /\ Cardinality(Emptied(own, gone, u)) <= removals[u]

\* A table of owners, and one of the admissions made before an emptying, that agree with
\* the store and with the handlers, and account for every admission.
Accounts(own, gone) ==
  /\ own \in [DOMAIN limiters -> Users] /\ gone \in [DOMAIN limiters -> Nat]
  /\ \A l \in DOMAIN limiters : gone[l] <= limiters[l].max
  /\ \A u \in Users : limiterOf[u] # Nil => own[limiterOf[u]] = u /\ gone[limiterOf[u]] = 0
  /\ \A r \in Requests : req[r].pc = "found" => own[req[r].limiter] = Owner[req[r].call.string]
  /\ \A u \in Users : Tallied(own, gone, u)

\* Every limiter has a limit that the role has had, and there is a largest of those.
WithinLimits ==
  /\ \A l \in DOMAIN limiters : limiters[l].used <= limiters[l].max /\ limiters[l].max \in Held
  /\ Held # {} => \E max \in Held : \A rate \in Held : rate <= max

Counted == WithinLimits /\ \E own, gone : Accounts(own, gone)

\* A user's limiters are finitely many.
LEMMA MineFinite ==
  ASSUME TypeOK, NEW own, NEW u
  PROVE  IsFiniteSet(Mine(own, u)) /\ Cardinality(Mine(own, u)) \in Nat
<1>1. DOMAIN limiters = 1..Len(limiters) /\ Len(limiters) \in Nat
  BY DEF TypeOK
<1>2. IsFiniteSet(DOMAIN limiters)
  BY <1>1, FS_Interval
<1>3. Mine(own, u) \in SUBSET DOMAIN limiters
  BY DEF Mine
<1>. QED
  BY <1>2, <1>3, FS_Subset, FS_CardinalityType

\* So are those of them that were emptied.
LEMMA EmptiedFinite ==
  ASSUME TypeOK, NEW own, NEW gone, NEW u
  PROVE  IsFiniteSet(Emptied(own, gone, u)) /\ Cardinality(Emptied(own, gone, u)) \in Nat
<1>1. Emptied(own, gone, u) \in SUBSET Mine(own, u)
  BY DEF Emptied
<1>. QED
  BY <1>1, MineFinite, FS_Subset, FS_CardinalityType

\* A limiter has a limit and a count.
LEMMA LimiterTyped ==
  ASSUME TypeOK, NEW l \in DOMAIN limiters
  PROVE  limiters[l] \in [max : Rates, used : Nat] /\ limiters[l].max \in Nat /\ limiters[l].used \in Nat
<1>1. limiters \in Seq([max : Rates, used : Nat])
  BY DEF TypeOK
<1>2. ASSUME NEW S, NEW seq \in Seq(S), NEW i \in DOMAIN seq PROVE seq[i] \in S
  OBVIOUS
<1>3. limiters[l] \in [max : Rates, used : Nat]
  BY <1>1, <1>2
<1>. QED
  BY <1>3, ConstantsAssumption

\* At the start there is no limiter to account for.
LEMMA InitCounted == Init => Counted
<1>. SUFFICES ASSUME Init PROVE Counted
  OBVIOUS
<1>1. TypeOK
  BY InitIInv DEF IInv
<1>2. /\ limiters = <<>> /\ DOMAIN limiters = {} /\ limiterOf = [u \in Users |-> Nil]
      /\ admitted = [u \in Users |-> 0] /\ drops = [u \in Users |-> 0]
      /\ removals = [u \in Users |-> 0]
      /\ \A r \in Requests : req[r].pc = "idle"
  BY DEF Init, Fresh
<1>3. past = <<[terms |-> role, whole |-> TRUE]>>
  BY DEF Init
<1>4. WithinLimits
  <2>1. Held = {role.rate} \cap Rates
    BY <1>3 DEF Held
  <2>2. Held \subseteq Nat
    BY <2>1, ConstantsAssumption
  <2>. QED
    BY <1>2, <2>1, <2>2 DEF WithinLimits
<1>5. Accounts([l \in {} |-> Nil], [l \in {} |-> 0])
  <2>. DEFINE own == [l \in {} |-> Nil]
              gone == [l \in {} |-> 0]
  <2>1. own \in [DOMAIN limiters -> Users] /\ gone \in [DOMAIN limiters -> Nat]
    BY <1>2
  <2>. HIDE DEF own, gone
  <2>2. ASSUME NEW u \in Users
        PROVE  Mine(own, u) = {} /\ Admissions(own, gone, u) = {} /\ Emptied(own, gone, u) = {}
    BY <1>2 DEF Mine, Admissions, Emptied
  <2>3. IsFiniteSet({}) /\ Cardinality({}) = 0
    BY FS_EmptySet
  <2>4. ASSUME NEW u \in Users PROVE Tallied(own, gone, u)
    <3>1. limiterOf[u] = Nil /\ admitted[u] = 0 /\ drops[u] = 0 /\ removals[u] = 0
      BY <1>2
    <3>2. Mine(own, u) = {} /\ Admissions(own, gone, u) = {} /\ Emptied(own, gone, u) = {}
      BY <2>2
    <3>. QED
      BY <2>3, <3>1, <3>2 DEF Tallied
  <2>5. Accounts(own, gone)
    BY <1>2, <2>1, <2>4 DEF Accounts
  <2>. QED
    BY <2>5 DEF own, gone
<1>. QED
  BY <1>4, <1>5 DEF Counted

\* A step that leaves limiters, counts and past alone, and does not bring a request to
\* its limiter, keeps the accounts.
LEMMA QuietCounted ==
  ASSUME Counted, UNCHANGED <<limiters, limiterOf, admitted, drops, removals, past>>,
         \A r \in Requests : req'[r].pc = "found" => req'[r] = req[r]
  PROVE  Counted'
<1>1. WithinLimits'
  BY DEF Counted, WithinLimits, Held
<1>2. PICK own, gone : Accounts(own, gone)
  BY DEF Counted
<1>3. \A u : /\ Mine(own, u)' = Mine(own, u)
             /\ Admissions(own, gone, u)' = Admissions(own, gone, u)
             /\ Emptied(own, gone, u)' = Emptied(own, gone, u)
  BY DEF Mine, Admissions, Emptied
<1>4. Accounts(own, gone)'
  BY <1>2, <1>3 DEF Accounts, Tallied
<1>. QED
  BY <1>1, <1>4 DEF Counted

\* Most of a handler's steps are such steps.
LEMMA HandlerCounted ==
  ASSUME IInv, Counted, NEW r \in Requests,
         \/ Arrive(r) \/ GetUsername(r) \/ Refuse(r) \/ Throttle(r) \/ CheckScope(r)
         \/ CheckTopK(r) \/ GetAgentManifest(r) \/ DecryptScores(r) \/ DecryptMetadata(r)
         \/ Emit(r)
  PROVE  Counted'
<1>1. UNCHANGED <<limiters, limiterOf, admitted, drops, removals, past>>
  BY DEF Arrive, GetUsername, Refuse, Throttle, CheckScope, CheckTopK, GetAgentManifest,
         DecryptScores, DecryptMetadata, Finish, Emit, Handle, store, history
<1>2. req[r] \in Known(Len(limiters)) /\ req \in [Requests -> Known(Len(limiters))]
  BY DEF IInv, TypeOK, Known
<1>3. \E new : Handle(r, new) /\ new.pc # "found"
  <2>1. ASSUME NEW code PROVE Answer(r, code).pc # "found"
    BY <1>2 DEF Known, Answer
  <2>2. /\ Fresh.pc # "found"
        /\ \A c : [Fresh EXCEPT !.pc = "received", !.call = c].pc # "found"
        /\ \A u : [req[r] EXCEPT !.pc = "named", !.user = u].pc # "found"
        /\ [req[r] EXCEPT !.pc = "scoped"].pc # "found"
        /\ [req[r] EXCEPT !.pc = "permitted"].pc # "found"
    BY <1>2 DEF Fresh, Known
  <2>3. CASE Arrive(r)
    BY <2>2, <2>3 DEF Arrive
  <2>4. CASE GetUsername(r)
    BY <2>2, <2>4 DEF GetUsername
  <2>5. CASE Refuse(r) \/ Throttle(r)
    BY <2>1, <2>5 DEF Refuse, Throttle
  <2>6. CASE CheckScope(r)
    BY <2>1, <2>2, <2>6 DEF CheckScope
  <2>7. CASE CheckTopK(r)
    BY <2>1, <2>2, <2>7 DEF CheckTopK
  <2>8. CASE GetAgentManifest(r) \/ DecryptScores(r) \/ DecryptMetadata(r)
    BY <2>1, <2>8 DEF GetAgentManifest, DecryptScores, DecryptMetadata, Finish
  <2>9. CASE Emit(r)
    BY <2>2, <2>9 DEF Emit
  <2>. QED
    BY <2>3, <2>4, <2>5, <2>6, <2>7, <2>8, <2>9
<1>4. \A q \in Requests : req'[q].pc = "found" => req'[q] = req[q]
  BY <1>2, <1>3 DEF Handle
<1>. QED
  BY <1>1, <1>4, QuietCounted

\* A lookup that finds the user's limiter takes that one; one that finds none builds the
\* first since the last was dropped.
LEMMA LookupCounted ==
  ASSUME IInv, Counted, NEW r \in Requests, Lookup(r)
  PROVE  Counted'
<1>. PICK n, u : n = Len(limiters) /\ u = Owner[req[r].call.string]
  OBVIOUS
<1>1. /\ TypeOK /\ n \in Nat /\ n = Len(limiters) /\ DOMAIN limiters = 1..n
      /\ req[r] \in Known(n) /\ req \in [Requests -> Known(n)]
  BY DEF IInv, TypeOK, Known
<1>2. u \in Users /\ u = Owner[req[r].call.string]
  BY ConstantsAssumption DEF Lookup, IInv, TypeOK
<1>3. UNCHANGED <<role, past, admitted, drops, removals>>
  BY DEF Lookup, history
<1>4. PICK own, gone : Accounts(own, gone)
  BY DEF Counted
<1>5. CASE /\ limiterOf[u] # Nil
           /\ req' = [req EXCEPT ![r] = [req[r] EXCEPT !.pc = "found", !.limiter = limiterOf[u],
                                                     !.since = Len(past)]]
           /\ UNCHANGED <<limiterOf, limiters>>
  <2>1. WithinLimits'
    BY <1>3, <1>5 DEF Counted, WithinLimits, Held
  <2>2. \A v : /\ Mine(own, v)' = Mine(own, v)
               /\ Admissions(own, gone, v)' = Admissions(own, gone, v)
               /\ Emptied(own, gone, v)' = Emptied(own, gone, v)
    BY <1>5 DEF Mine, Admissions, Emptied
  <2>3. ASSUME NEW q \in Requests, req'[q].pc = "found"
        PROVE  own[req'[q].limiter] = Owner[req'[q].call.string]
    <3>1. CASE q = r
      <4>1. req'[q].limiter = limiterOf[u] /\ req'[q].call = req[r].call
        BY <1>1, <1>5, <3>1 DEF Known
      <4>. QED
        BY <1>2, <1>4, <1>5, <4>1 DEF Accounts
    <3>2. CASE q # r
      BY <1>1, <1>4, <1>5, <2>3, <3>2 DEF Accounts
    <3>. QED
      BY <3>1, <3>2
  <2>4. \A v \in Users : Tallied(own, gone, v)'
    BY <1>3, <1>4, <1>5, <2>2 DEF Accounts, Tallied
  <2>5. Accounts(own, gone)'
    BY <1>4, <1>5, <2>3, <2>4 DEF Accounts
  <2>. QED
    BY <2>1, <2>5 DEF Counted
<1>6. CASE /\ limiterOf[u] = Nil /\ role.rate # Malformed
           /\ limiters' = Append(limiters, [max |-> role.rate, used |-> 0])
           /\ limiterOf' = [limiterOf EXCEPT ![u] = Len(limiters')]
           /\ req' = [req EXCEPT ![r] = [req[r] EXCEPT !.pc = "found", !.limiter = Len(limiters'),
                                                     !.since = Len(past)]]
  <2>0. PICK new, left :
          /\ new = [l \in 1..n + 1 |-> IF l = n + 1 THEN u ELSE own[l]]
          /\ left = [l \in 1..n + 1 |-> IF l = n + 1 THEN 0 ELSE gone[l]]
    OBVIOUS
  <2>1. /\ Len(limiters') = n + 1 /\ DOMAIN limiters' = 1..n + 1
        /\ limiters'[n + 1] = [max |-> role.rate, used |-> 0]
        /\ \A l \in 1..n : limiters'[l] = limiters[l]
    <3>1. limiters \in Seq([max : Rates, used : Nat])
      BY DEF IInv, TypeOK
    <3>. QED
      BY <1>1, <1>6, <3>1
  <2>2. role.rate \in Held /\ role.rate \in Nat
    <3>1. role.rate \in Rates
      BY <1>6 DEF IInv, TypeOK, Terms
    <3>2. Len(past) \in DOMAIN past /\ past[Len(past)].terms = role
      BY DEF IInv, TypeOK, RoleTraced
    <3>. QED
      BY <3>1, <3>2, ConstantsAssumption DEF Held
  <2>3. WithinLimits'
    <3>1. Held' = Held
      BY <1>3 DEF Held
    <3>2. WithinLimits
      BY DEF Counted
    <3>3. ASSUME NEW l \in 1..n + 1
          PROVE  limiters'[l].used <= limiters'[l].max /\ limiters'[l].max \in Held
      <4>1. CASE l = n + 1
        BY <2>1, <2>2, <4>1
      <4>2. CASE l # n + 1
        <5>1. l \in 1..n
          BY <1>1, <4>2
        <5>. QED
          BY <1>1, <2>1, <3>2, <5>1 DEF WithinLimits
      <4>. QED
        BY <4>1, <4>2
    <3>. QED
      BY <2>1, <3>1, <3>2, <3>3 DEF WithinLimits
  <2>4. /\ own \in [1..n -> Users] /\ new \in [1..n + 1 -> Users]
        /\ gone \in [1..n -> Nat] /\ left \in [1..n + 1 -> Nat]
        /\ new[n + 1] = u /\ left[n + 1] = 0
        /\ \A l \in 1..n : new[l] = own[l] /\ left[l] = gone[l] /\ l # n + 1
        /\ \A l \in 1..n + 1 : l # n + 1 => l \in 1..n
    <3>1. own \in [1..n -> Users] /\ gone \in [1..n -> Nat]
      BY <1>1, <1>4 DEF Accounts
    <3>2. n + 1 \in 1..n + 1 /\ \A l \in 1..n : l \in 1..n + 1 /\ l # n + 1
      BY <1>1
    <3>3. \A l \in 1..n + 1 : l # n + 1 => l \in 1..n
      BY <1>1
    <3>. QED
      BY <1>2, <2>0, <3>1, <3>2, <3>3
  <2>5. limiterOf[u] = Nil /\ limiterOf'[u] = n + 1 /\ n + 1 # Nil
    BY <1>1, <1>2, <1>6, <2>1, NilIsNoNumber DEF TypeOK
  <2>6. \A v : Mine(new, v)' = Mine(own, v) \cup (IF v = u THEN {n + 1} ELSE {})
    BY <1>1, <2>1, <2>4 DEF Mine
  <2>7. ASSUME NEW v, NEW l \in Mine(new, v)'
        PROVE  \/ l = n + 1 /\ limiters'[l].used + left[l] = 0 /\ left[l] = 0
               \/ l \in Mine(own, v)
    <3>1. CASE l = n + 1
      BY <2>1, <2>4, <3>1
    <3>2. CASE l # n + 1
      BY <2>6, <3>2
    <3>. QED
      BY <3>1, <3>2
  <2>8. ASSUME NEW v, NEW l \in Mine(own, v)
        PROVE  l \in Mine(new, v)' /\ limiters'[l] = limiters[l] /\ left[l] = gone[l]
    <3>1. l \in 1..n
      BY <1>1 DEF Mine
    <3>. QED
      BY <2>1, <2>4, <2>6, <3>1
  <2>9. ASSUME NEW v
        PROVE  /\ Admissions(new, left, v)' = Admissions(own, gone, v)
               /\ Emptied(new, left, v)' = Emptied(own, gone, v)
    <3>1. ASSUME NEW l \in Mine(new, v)', NEW k \in Nat, k < limiters'[l].used + left[l]
          PROVE  l \in Mine(own, v) /\ k < limiters[l].used + gone[l]
      BY <2>7, <2>8, <3>1
    <3>2. ASSUME NEW l \in Mine(own, v), NEW k \in Nat, k < limiters[l].used + gone[l]
          PROVE  l \in Mine(new, v)' /\ k < limiters'[l].used + left[l]
      BY <2>8, <3>2
    <3>3. ASSUME NEW l \in Mine(new, v)', left[l] # 0 PROVE l \in Mine(own, v) /\ gone[l] # 0
      BY <2>7, <2>8, <3>3
    <3>4. ASSUME NEW l \in Mine(own, v), gone[l] # 0 PROVE l \in Mine(new, v)' /\ left[l] # 0
      BY <2>8, <3>4
    <3>5. Admissions(new, left, v)' = Admissions(own, gone, v)
      BY <3>1, <3>2 DEF Admissions
    <3>6. Emptied(new, left, v)' = Emptied(own, gone, v)
      BY <3>3, <3>4 DEF Emptied
    <3>. QED
      BY <3>5, <3>6
  <2>10. ASSUME NEW v \in Users PROVE Tallied(new, left, v)'
    <3>1. /\ IsFiniteSet(Admissions(own, gone, v))
          /\ Cardinality(Admissions(own, gone, v)) = admitted[v]
          /\ Cardinality(Mine(own, v)) <= drops[v] + (IF limiterOf[v] = Nil THEN 0 ELSE 1)
          /\ Cardinality(Emptied(own, gone, v)) <= removals[v]
      BY <1>4 DEF Accounts, Tallied
    <3>2. IsFiniteSet(Mine(own, v)) /\ Cardinality(Mine(own, v)) \in Nat /\ drops[v] \in Nat
      BY <1>1, MineFinite DEF TypeOK
    <3>3. Cardinality(Mine(new, v)') <= drops[v] + (IF limiterOf'[v] = Nil THEN 0 ELSE 1)
      <4>1. CASE v = u
        <5>1. n + 1 \notin Mine(own, v)
          BY <1>1 DEF Mine
        <5>2. Cardinality(Mine(new, v)') = Cardinality(Mine(own, v)) + 1
          <6>1. Mine(new, v)' = Mine(own, v) \cup {n + 1}
            BY <2>6, <4>1
          <6>. QED
            BY <3>2, <5>1, <6>1, FS_AddElement
        <5>3. Cardinality(Mine(own, v)) <= drops[v]
          <6>1. limiterOf[v] = Nil
            BY <2>5, <4>1
          <6>2. (IF limiterOf[v] = Nil THEN 0 ELSE 1) = 0
            BY <6>1
          <6>. QED
            BY <3>1, <3>2, <6>2
        <5>4. Cardinality(Mine(new, v)') <= drops[v] + 1
          BY <3>2, <5>2, <5>3
        <5>. QED
          BY <2>5, <4>1, <5>4
      <4>2. CASE v # u
        <5>1. Mine(new, v)' = Mine(own, v)
          BY <2>6, <4>2
        <5>2. limiterOf'[v] = limiterOf[v]
          BY <1>1, <1>6, <4>2 DEF TypeOK
        <5>. QED
          BY <3>1, <5>1, <5>2
      <4>. QED
        BY <4>1, <4>2
    <3>. QED
      BY <1>3, <2>9, <3>1, <3>3 DEF Tallied
  <2>11. ASSUME NEW q \in Requests, req'[q].pc = "found"
        PROVE  new[req'[q].limiter] = Owner[req'[q].call.string]
    <3>1. CASE q = r
      <4>1. req'[q].limiter = n + 1 /\ req'[q].call = req[r].call
        BY <1>1, <1>6, <2>1, <3>1 DEF Known
      <4>. QED
        BY <1>2, <2>4, <4>1
    <3>2. CASE q # r
      <4>1. req'[q] = req[q] /\ own[req[q].limiter] = Owner[req[q].call.string]
        BY <1>1, <1>4, <1>6, <2>11, <3>2 DEF Accounts
      <4>2. req[q].limiter \in 1..n
        BY <1>1, <2>11, <4>1 DEF IInv, Sound, Known
      <4>. QED
        BY <2>4, <4>1, <4>2
    <3>. QED
      BY <3>1, <3>2
  <2>12. ASSUME NEW v \in Users, limiterOf'[v] # Nil
         PROVE  new[limiterOf'[v]] = v /\ left[limiterOf'[v]] = 0
    <3>1. CASE v = u
      BY <2>4, <2>5, <3>1
    <3>2. CASE v # u
      <4>1. limiterOf'[v] = limiterOf[v] /\ limiterOf[v] \in 1..n
        BY <1>1, <1>6, <2>12, <3>2 DEF TypeOK
      <4>. QED
        BY <1>4, <2>4, <2>12, <4>1 DEF Accounts
    <3>. QED
      BY <3>1, <3>2
  <2>13. ASSUME NEW l \in 1..n + 1 PROVE left[l] <= limiters'[l].max
    <3>1. CASE l = n + 1
      BY <2>1, <2>2, <2>4, <3>1
    <3>2. CASE l # n + 1
      <4>1. l \in 1..n
        BY <1>1, <3>2
      <4>2. left[l] = gone[l] /\ limiters'[l] = limiters[l]
        BY <2>1, <2>4, <4>1
      <4>. QED
        BY <1>1, <1>4, <4>1, <4>2 DEF Accounts
    <3>. QED
      BY <3>1, <3>2
  <2>14. Accounts(new, left)'
    BY <2>1, <2>4, <2>10, <2>11, <2>12, <2>13 DEF Accounts
  <2>. QED
    BY <2>3, <2>14 DEF Counted
<1>. QED
  BY <1>5, <1>6 DEF Lookup

\* An admission is one more of the user whose limiter it is.
LEMMA AdmitCounted ==
  ASSUME IInv, Counted, NEW r \in Requests, Admit(r)
  PROVE  Counted'
<1>. PICK n, u : n = req[r].limiter /\ u = Owner[req[r].call.string]
  OBVIOUS
<1>1. /\ req[r].pc = "found" /\ n \in DOMAIN limiters /\ u \in Users
      /\ req \in [Requests -> Known(Len(limiters))]
  <2>1. req[r] \in Known(Len(limiters)) /\ Sound(req[r]) /\ req[r].pc = "found"
    BY RequestKnown DEF Admit
  <2>2. n \in DOMAIN limiters /\ req[r].call \in Call
    BY <2>1 DEF Sound, Known, IInv, TypeOK
  <2>. QED
    BY <2>1, <2>2, ConstantsAssumption DEF Call, IInv, TypeOK, Known
<1>2. \A l \in DOMAIN limiters : limiters[l] \in [max : Rates, used : Nat]
  BY LimiterTyped DEF IInv
<1>. PICK k \in Nat : k = limiters[n].used
  BY <1>1, <1>2
<1>3. /\ UNCHANGED <<limiterOf, past, drops, removals>> /\ k < limiters[n].max
      /\ admitted' = [admitted EXCEPT ![u] = @ + 1]
      /\ limiters' = [limiters EXCEPT ![n].used = k + 1]
      /\ req' = [req EXCEPT ![r] = [req[r] EXCEPT !.pc = "admitted", !.user = u]]
  BY <1>1, <1>2 DEF Admit, Handle, store, LimiterOf
<1>4. /\ DOMAIN limiters' = DOMAIN limiters
      /\ limiters'[n].used = k + 1 /\ limiters'[n].max = limiters[n].max
      /\ \A l \in DOMAIN limiters : l # n => limiters'[l] = limiters[l]
  BY <1>1, <1>2, <1>3 DEF IInv, TypeOK
<1>5. WithinLimits'
  <2>1. Held' = Held
    BY <1>3 DEF Held
  <2>2. WithinLimits
    BY DEF Counted
  <2>3. ASSUME NEW l \in DOMAIN limiters
        PROVE  limiters'[l].used <= limiters'[l].max /\ limiters'[l].max \in Held
    <3>1. CASE l = n
      <4>1. limiters[n].max \in Nat
        BY <1>1, <1>2, ConstantsAssumption
      <4>. QED
        BY <1>1, <1>3, <1>4, <2>2, <3>1, <4>1 DEF WithinLimits
    <3>2. CASE l # n
      BY <1>4, <2>2, <3>2 DEF WithinLimits
    <3>. QED
      BY <3>1, <3>2
  <2>. QED
    BY <1>4, <2>1, <2>2, <2>3 DEF WithinLimits
<1>6. PICK own, gone : Accounts(own, gone)
  BY DEF Counted
<1>7. own[n] = u /\ gone[n] \in Nat
  BY <1>1, <1>6 DEF Accounts
<1>8. \A v : Mine(own, v)' = Mine(own, v) /\ Emptied(own, gone, v)' = Emptied(own, gone, v)
  BY <1>4 DEF Mine, Emptied
<1>. PICK m \in Nat : m = k + gone[n]
  BY <1>7
<1>9. ASSUME NEW v \in Users PROVE Tallied(own, gone, v)'
  <2>1. Tallied(own, gone, v)
    BY <1>6 DEF Accounts
  <2>2. CASE v = u
    <3>1. Admissions(own, gone, v)' = Admissions(own, gone, v) \cup {<<n, m>>}
      <4>1. Admissions(own, gone, v)' \subseteq Admissions(own, gone, v) \cup {<<n, m>>}
        <5>1. ASSUME NEW l \in Mine(own, v), NEW j \in Nat, j < limiters'[l].used + gone[l]
              PROVE  (l = n /\ j = m) \/ j < limiters[l].used + gone[l]
          <6>1. CASE l = n
            BY <1>4, <1>7, <5>1, <6>1
          <6>2. CASE l # n
            BY <1>4, <5>1, <6>2 DEF Mine
          <6>. QED
            BY <6>1, <6>2
        <5>. QED
          BY <1>8, <5>1 DEF Admissions
      <4>2. ASSUME NEW l \in Mine(own, v), NEW j \in Nat,
                   (l = n /\ j = m) \/ j < limiters[l].used + gone[l]
            PROVE  j < limiters'[l].used + gone[l]
        <5>1. CASE l = n
          BY <1>4, <1>7, <4>2, <5>1
        <5>2. CASE l # n
          BY <1>4, <4>2, <5>2 DEF Mine
        <5>. QED
          BY <5>1, <5>2
      <4>3. n \in Mine(own, v)
        BY <1>1, <1>7, <2>2 DEF Mine
      <4>. QED
        BY <1>8, <4>1, <4>2, <4>3 DEF Admissions
    <3>2. <<n, m>> \notin Admissions(own, gone, v)
      BY <1>7 DEF Admissions
    <3>3. /\ IsFiniteSet(Admissions(own, gone, v)')
          /\ Cardinality(Admissions(own, gone, v)') = Cardinality(Admissions(own, gone, v)) + 1
      <4>1. IsFiniteSet(Admissions(own, gone, v))
        BY <2>1 DEF Tallied
      <4>2. \A p : p \notin Admissions(own, gone, v) =>
              /\ IsFiniteSet(Admissions(own, gone, v) \cup {p})
              /\ Cardinality(Admissions(own, gone, v) \cup {p}) = Cardinality(Admissions(own, gone, v)) + 1
        BY <4>1, FS_AddElement
      <4>. QED
        BY <3>1, <3>2, <4>2
    <3>4. admitted'[v] = admitted[v] + 1
      BY <1>1, <1>3, <2>2 DEF IInv, TypeOK
    <3>. QED
      BY <1>3, <1>8, <2>1, <3>3, <3>4 DEF Tallied
  <2>3. CASE v # u
    <3>1. ASSUME NEW l \in Mine(own, v) PROVE limiters'[l] = limiters[l]
      BY <1>4, <1>7, <2>3 DEF Mine
    <3>2. Admissions(own, gone, v)' = Admissions(own, gone, v)
      BY <1>8, <3>1 DEF Admissions
    <3>3. admitted'[v] = admitted[v]
      BY <1>3, <2>3 DEF IInv, TypeOK
    <3>. QED
      BY <1>3, <1>8, <2>1, <3>2, <3>3 DEF Tallied
  <2>. QED
    BY <2>2, <2>3
<1>10. ASSUME NEW q \in Requests, req'[q].pc = "found" PROVE req'[q] = req[q]
  BY <1>1, <1>3, <1>10 DEF Known
<1>11. /\ own \in [DOMAIN limiters' -> Users] /\ gone \in [DOMAIN limiters' -> Nat]
       /\ \A l \in DOMAIN limiters' : gone[l] <= limiters'[l].max
       /\ \A v \in Users : limiterOf'[v] # Nil =>
            own[limiterOf'[v]] = v /\ gone[limiterOf'[v]] = 0
  <2>1. own \in [DOMAIN limiters' -> Users] /\ gone \in [DOMAIN limiters' -> Nat]
    BY <1>4, <1>6 DEF Accounts
  <2>2. \A l \in DOMAIN limiters : limiters'[l].max = limiters[l].max
    BY <1>4
  <2>3. \A l \in DOMAIN limiters : gone[l] <= limiters[l].max
    BY <1>6 DEF Accounts
  <2>4. \A v \in Users : limiterOf[v] # Nil => own[limiterOf[v]] = v /\ gone[limiterOf[v]] = 0
    BY <1>6 DEF Accounts
  <2>5. limiterOf' = limiterOf /\ DOMAIN limiters' = DOMAIN limiters
    BY <1>3, <1>4
  <2>. QED
    BY <2>1, <2>2, <2>3, <2>4, <2>5
<1>12. \A q \in Requests :
         req'[q].pc = "found" => own[req'[q].limiter] = Owner[req'[q].call.string]
  BY <1>6, <1>10 DEF Accounts
<1>13. Accounts(own, gone)'
  BY <1>9, <1>11, <1>12 DEF Accounts
<1>. QED
  BY <1>5, <1>13 DEF Counted

\* Dropping adds one to the count of a user that has a limiter, and leaves it none.
LEMMA Dropped ==
  ASSUME IInv, NEW us, Drop(us), NEW v \in Users,
         NEW n \in Nat, n <= drops[v] + (IF limiterOf[v] = Nil THEN 0 ELSE 1)
  PROVE  n <= drops'[v] + (IF limiterOf'[v] = Nil THEN 0 ELSE 1)
<1>1. /\ limiterOf'[v] = (IF v \in us THEN Nil ELSE limiterOf[v])
      /\ drops'[v] = drops[v] + (IF v \in us /\ limiterOf[v] # Nil THEN 1 ELSE 0)
  BY DEF Drop
<1>2. drops[v] \in Nat
  BY DEF IInv, TypeOK
<1>3. CASE limiterOf[v] = Nil
  <2>1. limiterOf'[v] = Nil /\ drops'[v] = drops[v]
    BY <1>1, <1>2, <1>3
  <2>. QED
    BY <1>2, <1>3, <2>1
<1>4. CASE limiterOf[v] # Nil /\ v \in us
  <2>1. limiterOf'[v] = Nil /\ drops'[v] = drops[v] + 1
    BY <1>1, <1>4
  <2>. QED
    BY <1>2, <1>4, <2>1
<1>5. CASE limiterOf[v] # Nil /\ v \notin us
  <2>1. limiterOf'[v] = limiterOf[v] /\ drops'[v] = drops[v]
    BY <1>1, <1>2, <1>5
  <2>. QED
    BY <1>2, <1>5, <2>1
<1>. QED
  BY <1>3, <1>4, <1>5

\* A user whose limiter is dropped may get another; what it had admitted counts on.
LEMMA DropCounted ==
  ASSUME IInv, Counted, NEW us, Drop(us), UNCHANGED <<limiters, req, admitted, removals>>,
         WithinLimits'
  PROVE  Counted'
<1>1. PICK own, gone : Accounts(own, gone)
  BY DEF Counted
<1>2. \A v : /\ Mine(own, v)' = Mine(own, v)
             /\ Admissions(own, gone, v)' = Admissions(own, gone, v)
             /\ Emptied(own, gone, v)' = Emptied(own, gone, v)
  BY DEF Mine, Admissions, Emptied
<1>3. ASSUME NEW v \in Users, limiterOf'[v] # Nil PROVE limiterOf'[v] = limiterOf[v]
  BY <1>3 DEF Drop
<1>4. ASSUME NEW v \in Users PROVE Tallied(own, gone, v)'
  <2>1. Tallied(own, gone, v) /\ Cardinality(Mine(own, v)) \in Nat
    BY <1>1, MineFinite DEF Accounts, IInv
  <2>2. Cardinality(Mine(own, v)) <= drops'[v] + (IF limiterOf'[v] = Nil THEN 0 ELSE 1)
    BY <2>1, Dropped DEF Tallied
  <2>. QED
    BY <1>2, <2>1, <2>2 DEF Tallied
<1>5. Accounts(own, gone)'
  BY <1>1, <1>3, <1>4 DEF Accounts
<1>. QED
  BY <1>5 DEF Counted

\* What an emptied limiter had admitted is counted as gone.
LEMMA RemoveCounted ==
  ASSUME IInv, Counted, NEW u \in Users, RemoveLimiter(u), UNCHANGED <<req, admitted, past>>
  PROVE  Counted'
<1>1. Drop({u})
  BY DEF RemoveLimiter
<1>2. CASE limiterOf[u] = Nil
  <2>1. UNCHANGED <<limiters, removals>>
    BY <1>2 DEF RemoveLimiter
  <2>2. WithinLimits'
    BY <2>1 DEF Counted, WithinLimits, Held
  <2>. QED
    BY <1>1, <2>1, <2>2, DropCounted
<1>3. CASE limiterOf[u] # Nil
  <2>. PICK n : n = limiterOf[u]
    OBVIOUS
  <2>1. /\ DOMAIN limiters' = DOMAIN limiters /\ n \in DOMAIN limiters
        /\ limiters'[n].used = 0 /\ limiters'[n].max = limiters[n].max
        /\ \A l \in DOMAIN limiters : l # n => limiters'[l] = limiters[l]
    BY <1>3, Emptying DEF IInv
  <2>2. \A l \in DOMAIN limiters : limiters[l].max \in Nat /\ limiters[l].used \in Nat
    BY LimiterTyped DEF IInv
  <2>3. WithinLimits'
    <3>1. Held' = Held
      BY DEF Held
    <3>2. WithinLimits
      BY DEF Counted
    <3>3. ASSUME NEW l \in DOMAIN limiters
          PROVE  limiters'[l].used <= limiters'[l].max /\ limiters'[l].max \in Held
      <4>1. CASE l = n
        BY <2>1, <2>2, <3>2, <4>1 DEF WithinLimits
      <4>2. CASE l # n
        BY <2>1, <3>2, <4>2 DEF WithinLimits
      <4>. QED
        BY <4>1, <4>2
    <3>. QED
      BY <2>1, <3>1, <3>2, <3>3 DEF WithinLimits
  <2>4. PICK own, gone : Accounts(own, gone)
    BY DEF Counted
  <2>5. own[n] = u /\ gone[n] = 0
    BY <1>3, <2>4 DEF Accounts
  <2>. PICK left : left = [l \in DOMAIN limiters |-> IF l = n THEN limiters[n].used ELSE gone[l]]
    OBVIOUS
  <2>6. /\ left \in [DOMAIN limiters -> Nat] /\ left[n] = limiters[n].used
        /\ \A l \in DOMAIN limiters : l # n => left[l] = gone[l]
    BY <2>1, <2>2, <2>4 DEF Accounts
  <2>7. ASSUME NEW l \in DOMAIN limiters
        PROVE  /\ limiters'[l].used + left[l] = limiters[l].used + gone[l]
               /\ left[l] <= limiters'[l].max
    <3>1. CASE l = n
      <4>1. limiters[l].used \in Nat /\ limiters[l].used <= limiters[l].max
        BY <2>2 DEF Counted, WithinLimits
      <4>. QED
        BY <2>1, <2>5, <2>6, <3>1, <4>1
    <3>2. CASE l # n
      BY <2>1, <2>4, <2>6, <3>2 DEF Accounts
    <3>. QED
      BY <3>1, <3>2
  <2>8. \A v : Mine(own, v)' = Mine(own, v)
    BY <2>1 DEF Mine
  <2>9. \A v : Admissions(own, left, v)' = Admissions(own, gone, v)
    <3>1. ASSUME NEW v, NEW l \in Mine(own, v), NEW k \in Nat
          PROVE  k < limiters'[l].used + left[l] <=> k < limiters[l].used + gone[l]
      BY <2>7 DEF Mine
    <3>. QED
      BY <2>8, <3>1 DEF Admissions
  <2>10. ASSUME NEW v \in Users PROVE Cardinality(Emptied(own, left, v)') <= removals'[v]
    <3>. PICK before, after : before = Emptied(own, gone, v) /\ after = Emptied(own, left, v)'
      OBVIOUS
    <3>1. /\ IsFiniteSet(before) /\ Cardinality(before) \in Nat /\ Cardinality(before) <= removals[v]
          /\ removals[v] \in Nat
      BY <2>4, EmptiedFinite DEF Accounts, Tallied, IInv, TypeOK
    <3>2. ASSUME NEW l \in after PROVE l \in before \/ (l = n /\ v = u)
      <4>1. l \in Mine(own, v) /\ left[l] # 0
        BY <2>8 DEF Emptied
      <4>2. CASE l = n
        BY <2>5, <4>1, <4>2 DEF Mine
      <4>3. CASE l # n
        <5>1. gone[l] # 0
          BY <2>6, <4>1, <4>3 DEF Mine
        <5>. QED
          BY <4>1, <5>1 DEF Emptied
      <4>. QED
        BY <4>2, <4>3
    <3>3. CASE v = u
      <4>1. after \subseteq before \cup {n}
        BY <3>2
      <4>2. n \notin before
        BY <2>5 DEF Emptied
      <4>3. IsFiniteSet(before \cup {n}) /\ Cardinality(before \cup {n}) = Cardinality(before) + 1
        BY <3>1, <4>2, FS_AddElement
      <4>4. Cardinality(after) <= Cardinality(before) + 1 /\ Cardinality(after) \in Nat
        BY <4>1, <4>3, FS_Subset, FS_CardinalityType
      <4>5. removals'[v] = removals[v] + 1
        BY <1>3, <3>3 DEF RemoveLimiter, IInv, TypeOK
      <4>. QED
        BY <3>1, <4>4, <4>5
    <3>4. CASE v # u
      <4>1. after \subseteq before
        BY <3>2, <3>4
      <4>2. Cardinality(after) <= Cardinality(before) /\ Cardinality(after) \in Nat
        BY <3>1, <4>1, FS_Subset, FS_CardinalityType
      <4>3. removals'[v] = removals[v]
        BY <1>3, <3>4 DEF RemoveLimiter, IInv, TypeOK
      <4>. QED
        BY <3>1, <4>2, <4>3
    <3>. QED
      BY <3>3, <3>4
  <2>11. ASSUME NEW v \in Users PROVE Tallied(own, left, v)'
    <3>1. Tallied(own, gone, v) /\ Cardinality(Mine(own, v)) \in Nat
      BY <2>4, MineFinite DEF Accounts, IInv
    <3>2. Cardinality(Mine(own, v)) <= drops'[v] + (IF limiterOf'[v] = Nil THEN 0 ELSE 1)
      BY <1>1, <3>1, Dropped DEF Tallied
    <3>. QED
      BY <2>8, <2>9, <2>10, <3>1, <3>2 DEF Tallied
  <2>12. ASSUME NEW v \in Users, limiterOf'[v] # Nil
         PROVE  own[limiterOf'[v]] = v /\ left[limiterOf'[v]] = 0
    <3>. PICK l : l = limiterOf'[v]
      OBVIOUS
    <3>1. v # u /\ limiterOf[v] = l
      BY <1>1, <2>12 DEF Drop
    <3>2. own[l] = v /\ gone[l] = 0 /\ l \in DOMAIN limiters
      BY <2>4, <2>12, <3>1 DEF Accounts, IInv, TypeOK
    <3>3. l # n
      BY <2>5, <3>1, <3>2
    <3>. QED
      BY <2>6, <3>2, <3>3
  <2>13. Accounts(own, left)'
    BY <2>1, <2>4, <2>6, <2>7, <2>11, <2>12 DEF Accounts
  <2>. QED
    BY <2>3, <2>13 DEF Counted
<1>. QED
  BY <1>2, <1>3

\* Tokens come and go without a limiter being used.
LEMMA TokenCounted ==
  ASSUME IInv, Counted, NEW s \in Strings,
         AddToken(s) \/ RevokeToken(s) \/ \E new \in Strings : RotateToken(s, new)
  PROVE  Counted'
<1>1. UNCHANGED <<req, past, admitted>>
  BY DEF AddToken, RevokeToken, RotateToken, history
<1>2. CASE AddToken(s)
  BY <1>1, <1>2, QuietCounted DEF AddToken, history
<1>3. CASE RevokeToken(s) \/ \E new \in Strings : RotateToken(s, new)
  <2>1. RemoveLimiter(Owner[s]) /\ Owner[s] \in Users
    BY <1>3, ConstantsAssumption DEF RevokeToken, RotateToken
  <2>. QED
    BY <1>1, <2>1, RemoveCounted
<1>. QED
  BY <1>2, <1>3

\* The limits the role has had, with one more, still have a largest.
LEMMA WriteWithinLimits ==
  ASSUME IInv, WithinLimits, NEW new, NEW whole, Write(new, whole), limiters' = limiters
  PROVE  WithinLimits'
<1>1. /\ past \in Seq([terms : Terms, whole : BOOLEAN])
      /\ past' = Append(past, [terms |-> new, whole |-> whole])
  BY DEF Write, IInv, TypeOK
<1>2. /\ DOMAIN past' = DOMAIN past \cup {Len(past) + 1}
      /\ past'[Len(past) + 1].terms = new /\ \A i \in DOMAIN past : past'[i] = past[i]
  BY <1>1
<1>3. Held' = Held \cup ({new.rate} \cap Rates)
  BY <1>2 DEF Held
<1>4. Held \subseteq Nat /\ Held' \subseteq Nat
  BY ConstantsAssumption DEF Held
<1>5. ASSUME Held' # {} PROVE \E max \in Held' : \A rate \in Held' : rate <= max
  <2>1. CASE Held = {}
    BY <1>3, <1>4, <1>5, <2>1
  <2>2. CASE Held # {}
    <3>1. PICK max \in Held : \A rate \in Held : rate <= max
      BY <2>2 DEF WithinLimits
    <3>2. CASE new.rate \in Rates /\ max <= new.rate
      BY <1>3, <1>4, <3>1, <3>2
    <3>3. CASE ~(new.rate \in Rates /\ max <= new.rate)
      BY <1>3, <1>4, <3>1, <3>3
    <3>. QED
      BY <3>2, <3>3
  <2>. QED
    BY <2>1, <2>2
<1>. QED
  BY <1>3, <1>5 DEF WithinLimits

\* The last store of UpdateRole drops limiters; the others leave them alone.
LEMMA UpdateCounted ==
  ASSUME IInv, Counted, (\E offer \in Offers : UpdateScope(offer)) \/ UpdateTopK \/ UpdateRate
  PROVE  Counted'
<1>1. UNCHANGED <<limiters, req, admitted, removals>> /\ \E new, whole : Write(new, whole)
  BY DEF UpdateScope, UpdateTopK, UpdateRate
<1>2. WithinLimits'
  BY <1>1, WriteWithinLimits DEF Counted
<1>3. CASE UNCHANGED <<limiterOf, drops>>
  <2>1. PICK own, gone : Accounts(own, gone)
    BY DEF Counted
  <2>2. \A v : /\ Mine(own, v)' = Mine(own, v)
               /\ Admissions(own, gone, v)' = Admissions(own, gone, v)
               /\ Emptied(own, gone, v)' = Emptied(own, gone, v)
    BY <1>1 DEF Mine, Admissions, Emptied
  <2>3. Accounts(own, gone)'
    BY <1>1, <1>3, <2>1, <2>2 DEF Accounts, Tallied
  <2>. QED
    BY <1>2, <2>3 DEF Counted
<1>4. CASE Drop({Owner[s] : s \in valid})
  BY <1>1, <1>2, <1>4, DropCounted
<1>. QED
  BY <1>3, <1>4 DEF UpdateScope, UpdateTopK, UpdateRate, store

\* Every step of a handler or of the operator keeps the accounts.
LEMMA NextCounted ==
  ASSUME IInv, Counted, [Next]_vars
  PROVE  Counted'
<1>1. CASE UNCHANGED vars
  BY <1>1, QuietCounted DEF vars, store, history
<1>2. ASSUME NEW r \in Requests,
             \/ Arrive(r) \/ GetUsername(r) \/ Refuse(r) \/ Lookup(r) \/ Admit(r) \/ Throttle(r)
             \/ CheckScope(r) \/ CheckTopK(r)
             \/ GetAgentManifest(r) \/ DecryptScores(r) \/ DecryptMetadata(r) \/ Emit(r)
      PROVE  Counted'
  BY <1>2, HandlerCounted, LookupCounted, AdmitCounted
<1>. QED
  BY <1>1, <1>2, TokenCounted, UpdateCounted DEF Next

\* What the accounts say of one user: each of its limiters admitted no more than the
\* largest limit the role has had, and each that was emptied no more than that again.
LEMMA AdmissionsBounded ==
  ASSUME TypeOK, Counted, NEW u \in Users, admitted[u] > 0
  PROVE  \E max \in Held : admitted[u] <= max * (1 + drops[u] + removals[u])
<1>1. PICK own, gone : Accounts(own, gone)
  BY DEF Counted
<1>. PICK all, mine, emptied :
       /\ all = Admissions(own, gone, u)
       /\ mine = Mine(own, u)
       /\ emptied = Emptied(own, gone, u)
  OBVIOUS
<1>2. /\ IsFiniteSet(all) /\ Cardinality(all) = admitted[u] /\ admitted[u] \in Nat
      /\ IsFiniteSet(mine) /\ Cardinality(mine) \in Nat /\ Cardinality(mine) <= drops[u] + 1
      /\ IsFiniteSet(emptied) /\ Cardinality(emptied) \in Nat
      /\ Cardinality(emptied) <= removals[u] /\ drops[u] \in Nat /\ removals[u] \in Nat
  <2>1. Tallied(own, gone, u)
    BY <1>1 DEF Accounts
  <2>2. drops[u] \in Nat /\ removals[u] \in Nat /\ admitted[u] \in Nat
    BY DEF TypeOK
  <2>3. Cardinality(mine) \in Nat /\ Cardinality(mine) <= drops[u] + 1
    BY <2>1, <2>2, MineFinite DEF Tallied
  <2>. QED
    BY <2>1, <2>2, <2>3, MineFinite, EmptiedFinite DEF Tallied
<1>3. all # {}
  BY <1>2, FS_EmptySet
<1>4. Held # {} /\ Held \subseteq Nat
  BY <1>3, ConstantsAssumption DEF Counted, WithinLimits, Admissions, Mine, Held
<1>5. PICK max \in Held : \A rate \in Held : rate <= max
  BY <1>4 DEF Counted, WithinLimits
<1>6. max \in Nat
  BY <1>4
<1>7. all \subseteq (mine \X (0..max - 1)) \cup (emptied \X (max..max + max - 1))
  <2>1. ASSUME NEW l \in mine, NEW j \in Nat, j < limiters[l].used + gone[l]
        PROVE  j \in 0..max - 1 \/ (l \in emptied /\ j \in max..max + max - 1)
    <3>1. /\ l \in DOMAIN limiters /\ limiters[l].used <= limiters[l].max
          /\ limiters[l].max \in Held
      BY DEF Counted, WithinLimits, Mine
    <3>2. limiters[l].used \in Nat /\ limiters[l].max \in Nat /\ gone[l] \in Nat
      BY <1>1, <3>1, LimiterTyped DEF Accounts
    <3>3. limiters[l].used <= max /\ gone[l] <= max
      <4>1. gone[l] <= limiters[l].max /\ limiters[l].max <= max
        BY <1>1, <1>5, <3>1 DEF Accounts
      <4>. QED
        BY <1>6, <3>1, <3>2, <4>1
    <3>4. CASE gone[l] = 0
      BY <1>6, <2>1, <3>2, <3>3, <3>4
    <3>5. CASE gone[l] # 0
      <4>1. l \in emptied
        BY <3>5 DEF Emptied
      <4>2. j < max + max
        BY <1>6, <2>1, <3>2, <3>3
      <4>. QED
        BY <1>6, <4>1, <4>2
    <3>. QED
      BY <3>4, <3>5
  <2>. QED
    BY <2>1 DEF Admissions
<1>8. /\ IsFiniteSet(0..max - 1) /\ Cardinality(0..max - 1) = max
      /\ IsFiniteSet(max..max + max - 1) /\ Cardinality(max..max + max - 1) = max
  <2>1. ASSUME NEW a \in Nat
        PROVE  IsFiniteSet(a..a + max - 1) /\ Cardinality(a..a + max - 1) = max
    <3>. PICK b \in Int : b = a + max - 1
      BY <1>6
    <3>1. IsFiniteSet(a..b) /\ Cardinality(a..b) = (IF a > b THEN 0 ELSE b - a + 1)
      <4>1. a \in Int
        OBVIOUS
      <4>. QED
        BY <4>1, FS_Interval
    <3>2. (IF a > b THEN 0 ELSE b - a + 1) = max
      BY <1>6
    <3>. QED
      BY <3>1, <3>2
  <2>2. IsFiniteSet(max..max + max - 1) /\ Cardinality(max..max + max - 1) = max
    BY <1>6, <2>1
  <2>3. IsFiniteSet(0..0 + max - 1) /\ Cardinality(0..0 + max - 1) = max
    BY <2>1
  <2>4. 0 + max - 1 = max - 1
    BY <1>6
  <2>. QED
    BY <2>2, <2>3, <2>4
<1>9. /\ IsFiniteSet(mine \X (0..max - 1))
      /\ Cardinality(mine \X (0..max - 1)) = Cardinality(mine) * max
      /\ IsFiniteSet(emptied \X (max..max + max - 1))
      /\ Cardinality(emptied \X (max..max + max - 1)) = Cardinality(emptied) * max
  <2>1. ASSUME NEW S, NEW T, IsFiniteSet(S), IsFiniteSet(T), Cardinality(T) = max
        PROVE  IsFiniteSet(S \X T) /\ Cardinality(S \X T) = Cardinality(S) * max
    BY <2>1, FS_Product
  <2>. QED
    BY <1>2, <1>8, <2>1
<1>10. admitted[u] <= Cardinality(mine) * max + Cardinality(emptied) * max
  <2>. PICK A, B : A = mine \X (0..max - 1) /\ B = emptied \X (max..max + max - 1)
    OBVIOUS
  <2>1. IsFiniteSet(A \cup B) /\ Cardinality(A \cup B) <= Cardinality(A) + Cardinality(B)
    <3>1. IsFiniteSet(A \cup B)
      BY <1>9, FS_Union
    <3>2. Cardinality(A \cup B) = Cardinality(A) + Cardinality(B) - Cardinality(A \cap B)
      BY <1>9, FS_Union
    <3>3. Cardinality(A \cap B) \in Nat
      <4>1. IsFiniteSet(A \cap B)
        BY <1>9, FS_Intersection
      <4>. QED
        BY <4>1, FS_CardinalityType
    <3>4. Cardinality(A) \in Nat /\ Cardinality(B) \in Nat
      BY <1>9, FS_CardinalityType
    <3>. QED
      BY <3>1, <3>2, <3>3, <3>4
  <2>2. Cardinality(all) <= Cardinality(A \cup B)
    BY <1>7, <2>1, FS_Subset
  <2>3. Cardinality(A \cup B) \in Nat /\ Cardinality(A) \in Nat /\ Cardinality(B) \in Nat
    BY <1>9, <2>1, FS_CardinalityType
  <2>. QED
    BY <1>2, <1>9, <2>1, <2>2, <2>3
<1>11. \A a, m, e, d, g \in Nat : m <= d + 1 /\ e <= g /\ a <= m * max + e * max
                                => a <= max * (1 + d + g)
  <2>1. \A m, d \in Nat : m <= d + 1 => m * max <= max * (1 + d)
    BY <1>6
  <2>2. \A e, g \in Nat : e <= g => e * max <= max * g
    BY <1>6
  <2>3. \A d, g \in Nat : max * (1 + d) + max * g = max * (1 + d + g)
    BY <1>6
  <2>4. \A m, d \in Nat : m * max \in Nat /\ max * (1 + d) \in Nat /\ max * d \in Nat
    BY <1>6
  <2>. TAKE a, m, e, d, g \in Nat
  <2>5. ASSUME m <= d + 1, e <= g, a <= m * max + e * max PROVE a <= max * (1 + d + g)
    <3>1. m * max <= max * (1 + d) /\ e * max <= max * g
      BY <2>1, <2>2, <2>5
    <3>2. a <= max * (1 + d) + max * g
      BY <2>4, <2>5, <3>1
    <3>. QED
      BY <2>3, <3>2
  <2>. QED
    BY <2>5
<1>12. admitted[u] <= max * (1 + drops[u] + removals[u])
  BY <1>2, <1>10, <1>11
<1>. QED
  BY <1>12

\* A user gets one limit of admissions, one more each time an operator's change has
\* dropped its limiter, and another if it was emptied, whatever limiters requests still
\* hold.
THEOREM QuotasHold == Spec => []QuotaPerLimiter
<1>1. Spec => []Counted
  BY Invariance, InitCounted, NextCounted, PTL DEF Spec
<1>2. TypeOK /\ Counted => QuotaPerLimiter
  <2>1. ASSUME NEW max \in Held
        PROVE  \E i \in DOMAIN past : past[i].terms.rate = max /\ max # Malformed
    BY ConstantsAssumption DEF Held
  <2>. QED
    BY <2>1, AdmissionsBounded DEF QuotaPerLimiter
<1>. QED
  BY <1>1, <1>2, TypeCorrect, PTL

-----------------------------------------------------------------------------
(* What Retrieval computes is right in every state, for it reads no state. *)

\* A permitted DecryptScores answers with the largest scores in their order.
THEOREM TopKIsSelected == Spec => []TopKIsNLargest
<1>1. TopKIsNLargest
  BY SortingIsSelection DEF TopKIsNLargest
<1>2. TopKIsNLargest'
  BY SortingIsSelection DEF TopKIsNLargest
<1>3. [Next]_vars => TopKIsNLargest'
  BY <1>2
<1>. QED
  BY <1>1, <1>3, PTL DEF Spec

\* It names the places where the scores were, each once.
THEOREM PlacesAreNamed == Spec => []PlacesAreTrue
<1>1. PlacesAreTrue
  BY AnswersNamePlaces DEF PlacesAreTrue
<1>2. PlacesAreTrue'
  BY AnswersNamePlaces DEF PlacesAreTrue
<1>3. [Next]_vars => PlacesAreTrue'
  BY <1>2
<1>. QED
  BY <1>1, <1>3, PTL DEF Spec

\* A permitted DecryptMetadata answers with every text in its place, or with none.
THEOREM ListsAreWhole == Spec => []ListAllOrNothing
<1>1. ListAllOrNothing
  BY ListsOpenAsAWhole DEF ListAllOrNothing
<1>2. ListAllOrNothing'
  BY ListsOpenAsAWhole DEF ListAllOrNothing
<1>3. [Next]_vars => ListAllOrNothing'
  BY <1>2
<1>. QED
  BY <1>1, <1>3, PTL DEF Spec
=============================================================================
