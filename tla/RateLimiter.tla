----------------------------- MODULE RateLimiter -----------------------------
(***************************************************************************)
(* vault/internal/tokens/ratelimit.go: one RateLimiter and the goroutines  *)
(* of one user's requests that share it.  The store gives every user a     *)
(* limiter of its own, so its map has one key and is left out.  Its rate   *)
(* comes from a role's rate_limit, which role.go converts.                 *)
(*                                                                         *)
(* IsAllowed reads the clock before it takes rl.mu, and the mutex is not   *)
(* fair: a request may decide with a reading that is up to MaxDelay old,   *)
(* after requests that read the clock later.  Validate asks RetryAfter for *)
(* advice in a second critical section.                                    *)
(***************************************************************************)
EXTENDS Integers, FiniteSets

CONSTANTS
  Requests,      \* goroutines, each handling one request after another
  MaxRequests,   \* the limit
  Window,        \* its window, in ticks
  Second,        \* ticks in a second; RetryAfter answers in whole seconds
  Top,           \* the largest int, and the longest time.Duration in ticks
  Written,       \* bound: the numbers in a rate_limit that rateLimitRE matches
  MaxDelay,      \* ticks that may pass between reading the clock and rl.mu
  MaxNow,        \* bound: length of a run, in ticks
  MaxAdmitted    \* bound: requests admitted in one run

ASSUME ConstantsAssumption ==
  /\ MaxRequests \in Nat
  /\ Window \in Int
  /\ Second \in Nat \ {0}
  /\ Top \in Nat /\ Written \subseteq Nat
  /\ MaxDelay \in Nat
  /\ MaxNow \in Nat
  /\ MaxAdmitted \in Nat

VARIABLES
  now,           \* the clock
  requests,      \* the field of that name: the time stamps it keeps
  pc,            \* request -> "idle", "stamped" or "denied"
  stamp,         \* request -> its reading of the clock while it needs it
  advice,        \* request -> the last advice it was given
  drawn,         \* history: number of requests admitted
  admitted       \* history: those admitted since the last Remove, Window ago at most

vars == <<now, requests, pc, stamp, advice, drawn, admitted>>

\* A request that was admitted: its stamp, and when IsAllowed decided.  The
\* number keeps apart requests with equal times.
Entry == [n : Nat, stamp : Nat, at : Nat]

\* Until when to wait, and how many had been admitted when it was given.
NoAdvice == [given |-> FALSE, until |-> 0, drawn |-> 0]

\* strconv.Atoi saturates, and its error is ignored.
Atoi(n) == IF n > Top THEN Top ELSE n

\* What is left of a product of two ints.
Wrap(n) == ((n + Top + 1) % (2 * (Top + 1))) - Top - 1

\* Mutant: a number too large for an int wraps.
RateWrapped(max, seconds) == [max |-> Wrap(max), window |-> Wrap(Wrap(seconds) * Second)]

RateLimitParsed(max, seconds) == [max |-> Atoi(max), window |-> Wrap(Atoi(seconds) * Second)]

Init ==
  /\ now = 0
  /\ requests = {}
  /\ pc = [r \in Requests |-> "idle"]
  /\ stamp = [r \in Requests |-> 0]
  /\ advice = [r \in Requests |-> NoAdvice]
  /\ drawn = 0
  /\ admitted = {}
-----------------------------------------------------------------------------
\* No request waits for rl.mu longer than MaxDelay.
Tick ==
  /\ now < MaxNow
  /\ \A r \in Requests : pc[r] = "stamped" => now < stamp[r] + MaxDelay
  /\ now' = now + 1
  /\ admitted' = {e \in admitted : e.at > now' - Window}
  /\ UNCHANGED <<requests, pc, stamp, advice, drawn>>

\* Mutant: the request keeps the cutoff in place of the time.
ReadCutoff(r) ==
  /\ pc[r] = "idle"
  /\ pc' = [pc EXCEPT ![r] = "stamped"]
  /\ stamp' = [stamp EXCEPT ![r] = now - Window]
  /\ UNCHANGED <<now, requests, advice, drawn, admitted>>

ReadClock(r) ==
  /\ pc[r] = "idle"
  /\ pc' = [pc EXCEPT ![r] = "stamped"]
  /\ stamp' = [stamp EXCEPT ![r] = now]
  /\ UNCHANGED <<now, requests, advice, drawn, admitted>>

Kept(s) == {e \in requests : e.stamp > s - Window}

\* Mutant: one request too many.
Overfull(s) == Cardinality(Kept(s)) > MaxRequests

Full(s) == Cardinality(Kept(s)) >= MaxRequests

Allow(r) ==
  LET entry == [n |-> drawn, stamp |-> stamp[r], at |-> now]
  IN  /\ pc[r] = "stamped"
      /\ drawn < MaxAdmitted
      /\ ~Full(stamp[r])
      /\ requests' = Kept(stamp[r]) \cup {entry}
      /\ pc' = [pc EXCEPT ![r] = "idle"]
      /\ stamp' = [stamp EXCEPT ![r] = 0]
      /\ advice' = [advice EXCEPT ![r] = NoAdvice]
      /\ drawn' = drawn + 1
      /\ admitted' = admitted \cup {entry}
      /\ UNCHANGED now

Deny(r) ==
  /\ pc[r] = "stamped"
  /\ Full(stamp[r])
  /\ requests' = Kept(stamp[r])
  /\ pc' = [pc EXCEPT ![r] = "denied"]
  /\ stamp' = [stamp EXCEPT ![r] = 0]
  /\ UNCHANGED <<now, advice, drawn, admitted>>

\* Mutant: the age of the oldest request, not what is left of the window.
Elapsed ==
  IF requests = {} THEN {0}
  ELSE {now - e.stamp : e \in {o \in requests : \A f \in requests : o.stamp <= f.stamp}}

\* Ticks until the oldest request leaves the window.
Remaining ==
  IF requests = {} THEN {0}
  ELSE {Window - (now - e.stamp) :
          e \in {o \in requests : \A f \in requests : o.stamp <= f.stamp}}

\* In whole seconds: the conversion to int drops the fraction.
RetryAfter(r) ==
  /\ pc[r] = "denied"
  /\ pc' = [pc EXCEPT ![r] = "idle"]
  /\ \E ticks \in Remaining :
       LET seconds == IF ticks < 0 THEN 0 ELSE ticks \div Second
       IN  advice' = [advice EXCEPT ![r] = [given |-> TRUE, drawn |-> drawn,
                                            until |-> now + seconds * Second]]
  /\ UNCHANGED <<now, requests, stamp, drawn, admitted>>

\* The store has dropped this limiter; requests that hold it start afresh.
Remove ==
  /\ requests' = {}
  /\ admitted' = {}
  /\ UNCHANGED <<now, pc, stamp, advice, drawn>>

Next ==
  \/ Tick \/ Remove
  \/ \E r \in Requests : ReadClock(r) \/ Allow(r) \/ Deny(r) \/ RetryAfter(r)

Spec == Init /\ [][Next]_vars
-----------------------------------------------------------------------------
(* Properties.                                                             *)

TypeOK ==
  /\ now \in Nat
  /\ requests \subseteq Entry
  /\ pc \in [Requests -> {"idle", "stamped", "denied"}]
  /\ stamp \in [Requests -> Nat]
  /\ advice \in [Requests -> [given : BOOLEAN, until : Int, drawn : Nat]]
  /\ drawn \in Nat
  /\ admitted \subseteq Entry

\* Admissions that were decided less than d ticks ago.
Since(d) == {e \in admitted : e.at > now - d}

\* However requests overtake one another between the clock and the lock, and
\* whatever IsAllowed has forgotten meanwhile, no more than MaxRequests are
\* admitted in any span of Window - MaxDelay ticks.
WindowBound == Cardinality(Since(Window - MaxDelay)) <= MaxRequests

\* "rate limit (per-user sliding window)" (ARCHITECTURE.md:156): no more than
\* MaxRequests are admitted in a span of Window ticks.  A request that read the
\* clock early leaves the window early.
SlidingWindow == Cardinality(Since(Window)) <= MaxRequests

\* A denied request that reads the clock after waiting that many ticks more than it
\* was advised, with nobody admitted in between.
DeniedAgain(ticks) ==
  \E r \in Requests :
    /\ pc[r] = "stamped" /\ pc'[r] = "denied"
    /\ advice[r].given
    /\ advice[r].drawn = drawn
    /\ stamp[r] >= advice[r].until + ticks

\* One second more than the advice is always enough: RetryAfter may only be off
\* by the fraction it drops, although others have moved the window between the
\* refusal and the advice.
AdviceAlmostRight == [][MaxRequests > 0 => ~DeniedAgain(Second)]_vars

\* What may have been written for the rate that this limiter has.
Meant ==
  {w \in {[max |-> m, seconds |-> s] : m, s \in Written} :
     RateLimitParsed(w.max, w.seconds) = [max |-> MaxRequests, window |-> Window]}

\* A rate limit that is too large for its conversion only admits more: a request is
\* denied when as many as were written are in the window that was written, also when
\* that window was so long that the limiter got a shorter one.
RateErrsOpen ==
  [][\A r \in Requests : pc[r] = "stamped" /\ pc'[r] = "denied" =>
       \A w \in Meant :
         Cardinality({e \in requests : e.stamp > stamp[r] - w.seconds * Second}) >= w.max]_vars
=============================================================================
